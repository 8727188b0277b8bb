----------------------------- MODULE RollingLog -----------------------------
(***************************************************************************)
(* The log of the two programs: plog's logger with a console appender and  *)
(* a RollingFileAppender over logs/GameServer.log (GlobalCore.h:25), used  *)
(* by every worker, and by every process started in the same directory.    *)
(*                                                                         *)
(* A file is named by the number buildFileName puts into its name: 0 is    *)
(* the file written, MaxFiles - 1 the oldest that is kept.  A record is    *)
(* its place in the order of the writes that put it, or a part of it, into *)
(* the file; such a record and the byte-order mark count one unit of size  *)
(* each.  A file is opened without FILE_SHARE_DELETE, by the appender      *)
(* (_SH_DENYWR) and by the viewers, so an open file can be neither renamed *)
(* nor unlinked.                                                           *)
(***************************************************************************)
EXTENDS Integers, FiniteSets

CONSTANTS Processes,    \* the programs, each the set of its threads
          NoThread,     \* the holder of a free mutex
          MaxFiles,     \* maxFiles of the appender
          MaxFileSize,  \* maxFileSize of the appender
          Viewable,     \* the files somebody may open to read them
          MaxWrites,    \* bound: records that reach a file
          MaxStarts     \* bound: starts of a program

ASSUME LogAssumption ==
  /\ \A p, q \in Processes : p # q => p \cap q = {}
  /\ \A p \in Processes : p # {} /\ NoThread \notin p
  /\ MaxFiles \in Nat \ {0}
  /\ MaxFileSize \in Nat
  /\ Viewable \subseteq 0 .. MaxFiles - 1

VARIABLES phase,       \* of each process: "down", "starting", "up"
          holder,      \* the thread that holds m_mutex of the file appender
          isOpen,      \* m_file # -1, always a handle of file 0
          fileSize,    \* m_fileSize; NoSize is static_cast<size_t>(-1)
          firstWrite,  \* m_firstWrite
          pc,          \* of each thread: its place in the log statement
          number,      \* fileNumber of the thread that rolls
          size,        \* of each file, Absent if there is none
          records,     \* of each file: the records in it
          written,     \* the number of records that reached a file
          viewed,      \* the files a viewer has open
          starts       \* the number of starts so far

vars == <<phase, holder, isOpen, fileSize, firstWrite, pc, number, size,
          records, written, viewed, starts>>
disk == <<size, records, written>>
appender == <<isOpen, fileSize, firstWrite>>
world == <<viewed, starts>>

Threads == UNION Processes

\* The numbers of buildFileName.
Files == 0 .. MaxFiles - 1
NoSize == -1
Absent == -1

\* The severities of the repository's log statements: PLOG_FATAL,
\* PLOG_WARNING, PLOG_INFO and PLOG_DEBUG; init passes plog::debug.
Severities == {1, 3, 4, 5}
MaxSeverity == 5

Init ==
  /\ phase = [p \in Processes |-> "down"]
  /\ holder = [p \in Processes |-> NoThread]
  /\ isOpen = [p \in Processes |-> FALSE]
  /\ fileSize = [p \in Processes |-> 0]
  /\ firstWrite = [p \in Processes |-> TRUE]
  /\ pc = [t \in Threads |-> "idle"]
  /\ number = [t \in Threads |-> -1]
  /\ size = [f \in Files |-> Absent]
  /\ records = [f \in Files |-> {}]
  /\ written = 0 /\ viewed = {} /\ starts = 0

Exists(f) == size[f] # Absent
InUse(f) == f \in viewed \/ (f = 0 /\ \E q \in Processes : isOpen[q])
Goto(t, place) == pc' = [pc EXCEPT ![t] = place]

-----------------------------------------------------------------------------
\* operator+= hands the record to each appender, in the order in which init
\* and addAppender took them.
NextAppender(t, done) ==
  Goto(t, CASE done = "none" -> "console"
            [] done = "console" -> "lock"
            [] done = "file" -> "idle")

\* GlobalCore's constructor runs on one thread before there is another: it
\* creates the logger and logs its first statement.
Start(p, t) ==
  /\ phase[p] = "down" /\ starts < MaxStarts
  /\ starts' = starts + 1
  /\ phase' = [phase EXCEPT ![p] = "starting"]
  /\ NextAppender(t, "none")
  /\ UNCHANGED <<holder, appender, number, disk, viewed>>

checkSeverity(s) == s <= MaxSeverity

\* IF_PLOG_: a statement that is enabled builds its Record and hands it to
\* Logger::operator+=.
LogStatement(p, t) ==
  /\ phase[p] = "up" /\ pc[t] = "idle"
  /\ \E s \in Severities : checkSeverity(s)
  /\ NextAppender(t, "none")
  /\ UNCHANGED <<phase, holder, appender, number, disk, world>>

\* The console comes first, under a mutex of its own that nothing is called
\* under: a single step.
ConsoleWrite(p, t) ==
  /\ pc[t] = "console"
  /\ NextAppender(t, "console")
  /\ UNCHANGED <<phase, holder, appender, number, disk, world>>

\* m_fileSize > m_maxFileSize: the sizes are unsigned, and -1 is the largest.
Exceeds(p) == fileSize[p] = NoSize \/ fileSize[p] > MaxFileSize

\* Mutant: a file that has just reached its size is rolled.
MustRollAtLimit(p) == fileSize[p] >= MaxFileSize /\ fileSize[p] # NoSize

\* Mutant: the comparison with static_cast<size_t>(-1) is forgotten.
MustRollUnchecked(p) == Exceeds(p)

\* The condition under which write rolls before it writes.
MustRoll(p) == Exceeds(p) /\ fileSize[p] # NoSize

\* MutexLock's constructor and destructor.
Lock(p, t) == holder[p] = NoThread /\ holder' = [holder EXCEPT ![p] = t]
Unlock(p) == holder' = [holder EXCEPT ![p] = NoThread]

AppenderLock(p, t) ==
  /\ pc[t] = "lock"
  /\ Lock(p, t)
  /\ Goto(t, IF firstWrite[p] THEN "open"
             ELSE IF MustRoll(p) THEN "close" ELSE "write")
  /\ UNCHANGED <<phase, appender, number, disk, world>>

-----------------------------------------------------------------------------
(* rollLogFiles *)

Close(p, t) ==
  /\ pc[t] = "close"
  /\ isOpen' = [isOpen EXCEPT ![p] = FALSE]
  /\ Goto(t, "unlink")
  /\ UNCHANGED <<phase, holder, fileSize, firstWrite, number, disk, world>>

\* The loop counts down from MaxFiles - 2 and opens a file when it is done.
RenameNext(t, n) == Goto(t, IF n >= 0 THEN "rename" ELSE "open")

\* File::unlink does nothing to a file that is missing or in use.
unlink(f) ==
  IF Exists(f) /\ ~InUse(f)
  THEN /\ size' = [size EXCEPT ![f] = Absent]
       /\ records' = [records EXCEPT ![f] = {}]
  ELSE UNCHANGED <<size, records>>

\* Mutant: the last but one file is deleted.
UnlinkOffByOne(p, t) ==
  LET last == MaxFiles - 2
  IN /\ pc[t] = "unlink"
     /\ unlink(last)
     /\ number' = [number EXCEPT ![t] = MaxFiles - 2]
     /\ RenameNext(t, MaxFiles - 2)
     /\ UNCHANGED <<phase, holder, appender, written, world>>

Unlink(p, t) ==
  LET last == MaxFiles - 1
  IN /\ pc[t] = "unlink"
     /\ unlink(last)
     /\ number' = [number EXCEPT ![t] = MaxFiles - 2]
     /\ RenameNext(t, MaxFiles - 2)
     /\ UNCHANGED <<phase, holder, appender, written, world>>

\* MoveFileW fails if the old file is missing or in use or the new one is
\* there; nobody looks at the result.
rename(f, g) ==
  IF Exists(f) /\ ~InUse(f) /\ ~Exists(g)
  THEN /\ size' = [size EXCEPT ![f] = Absent, ![g] = size[f]]
       /\ records' = [records EXCEPT ![f] = {}, ![g] = records[f]]
  ELSE UNCHANGED <<size, records>>

Rename(p, t) ==
  LET f == number[t]
  IN /\ pc[t] = "rename"
     /\ rename(f, f + 1)
     /\ number' = [number EXCEPT ![t] = f - 1]
     /\ RenameNext(t, f - 1)
     /\ UNCHANGED <<phase, holder, appender, written, world>>

-----------------------------------------------------------------------------
\* Mutant: the file is opened without _SH_DENYWR.
OpenShared(p) == FALSE

\* Sharing refuses the open while another process writes the file.
OpenFails(p) == \E q \in Processes : isOpen[q]

\* _wsopen_s fails whenever sharing refuses it, and may fail for any other reason: no
\* directory, no access, a viewer that lets nobody write.  fileSize is NoSize then, and
\* with firstWrite down the appender never tries again.
openRefused(p) ==
  /\ fileSize' = [fileSize EXCEPT ![p] = NoSize]
  /\ isOpen' = [isOpen EXCEPT ![p] = FALSE]
  /\ UNCHANGED <<size, records>>

\* Mutant: the file is opened with _O_TRUNC and loses what it held.
openTruncates(p, t) ==
  /\ pc[t] = "open"
  /\ \/ openRefused(p)
     \/ /\ ~OpenFails(p)
        /\ isOpen' = [isOpen EXCEPT ![p] = TRUE]
        /\ size' = [size EXCEPT ![0] = 1]
        /\ records' = [records EXCEPT ![0] = {}]
        /\ fileSize' = [fileSize EXCEPT ![p] = 1]
  /\ firstWrite' = [firstWrite EXCEPT ![p] = FALSE]
  /\ Goto(t, "write")
  /\ UNCHANGED <<phase, holder, number, written, world>>

\* File::open creates a file that is missing and seeks to its end; an empty file gets
\* the byte-order mark, if there is room.
openGranted(p) ==
  /\ ~OpenFails(p)
  /\ \E marked \in BOOLEAN :
       LET found == IF Exists(0) THEN size[0] ELSE 0
           now == IF found = 0 /\ marked THEN 1 ELSE found
       IN /\ isOpen' = [isOpen EXCEPT ![p] = TRUE]
          /\ size' = [size EXCEPT ![0] = now]
          /\ fileSize' = [fileSize EXCEPT ![p] = now]
  /\ UNCHANGED records

openLogFile(p, t) ==
  /\ pc[t] = "open"
  /\ openRefused(p) \/ openGranted(p)
  /\ firstWrite' = [firstWrite EXCEPT ![p] = FALSE]
  /\ Goto(t, "write")
  /\ UNCHANGED <<phase, holder, number, written, world>>

\* m_file.write and the end of the statement.  _write reports what it put at the
\* end of file 0, the record or a part of it, and m_fileSize grows by that; or it
\* reports -1 and the record is lost (no handle, disk full).
Returns(p, t) ==
  /\ Unlock(p)
  /\ phase' = [phase EXCEPT ![p] = "up"]
  /\ NextAppender(t, "file")

FileWrite(p, t) ==
  /\ pc[t] = "write"
  /\ isOpen[p] /\ written < MaxWrites
  /\ written' = written + 1
  /\ records' = [records EXCEPT ![0] = @ \cup {written + 1}]
  /\ size' = [size EXCEPT ![0] = @ + 1]
  /\ fileSize' = [fileSize EXCEPT ![p] = @ + 1]
  /\ Returns(p, t)
  /\ UNCHANGED <<isOpen, firstWrite, number, world>>

FileWriteFails(p, t) ==
  /\ pc[t] = "write"
  /\ Returns(p, t)
  /\ UNCHANGED <<appender, number, disk, world>>

-----------------------------------------------------------------------------
\* ASSERT_CRASH, or the operator: the system closes the handle, the files
\* stay as they are, in the middle of a roll too.
Crash(p) ==
  /\ phase[p] # "down"
  /\ phase' = [phase EXCEPT ![p] = "down"]
  /\ holder' = [holder EXCEPT ![p] = NoThread]
  /\ isOpen' = [isOpen EXCEPT ![p] = FALSE]
  /\ fileSize' = [fileSize EXCEPT ![p] = 0]
  /\ firstWrite' = [firstWrite EXCEPT ![p] = TRUE]
  /\ pc' = [t \in Threads |-> IF t \in p THEN "idle" ELSE pc[t]]
  /\ number' = [t \in Threads |-> IF t \in p THEN -1 ELSE number[t]]
  /\ UNCHANGED <<disk, world>>

\* Somebody opens a log file to read it, or closes it.
View(f) ==
  /\ Exists(f) \/ f \in viewed
  /\ viewed' = IF f \in viewed THEN viewed \ {f} ELSE viewed \cup {f}
  /\ UNCHANGED <<phase, holder, appender, pc, number, disk, starts>>

ThreadStep(p, t) ==
  \/ LogStatement(p, t) \/ ConsoleWrite(p, t) \/ AppenderLock(p, t)
  \/ Close(p, t) \/ Unlink(p, t) \/ Rename(p, t)
  \/ openLogFile(p, t) \/ FileWrite(p, t) \/ FileWriteFails(p, t)

Next ==
  \/ \E p \in Processes : \E t \in p : Start(p, t) \/ ThreadStep(p, t)
  \/ \E p \in Processes : Crash(p)
  \/ \E f \in Viewable : View(f)

Spec == Init /\ [][Next]_vars

-----------------------------------------------------------------------------
(* Properties *)

\* Type invariant: m_fileSize is never taken for a size when it is -1, and a
\* rename stays inside the files the appender keeps (RollingFileAppender.h).
TypeOK ==
  /\ phase \in [Processes -> {"down", "starting", "up"}]
  /\ holder \in [Processes -> Threads \cup {NoThread}]
  /\ isOpen \in [Processes -> BOOLEAN]
  /\ fileSize \in [Processes -> Nat \cup {NoSize}]
  /\ firstWrite \in [Processes -> BOOLEAN]
  /\ pc \in [Threads -> {"idle", "console", "lock", "close", "unlink",
                         "rename", "open", "write"}]
  /\ number \in [Threads -> -1 .. MaxFiles - 2]
  /\ size \in [Files -> Nat \cup {Absent}]
  /\ records \in [Files -> SUBSET (1 .. written)]
  /\ written \in Nat /\ viewed \subseteq Files
  /\ starts \in Nat

\* Whatever a roll is interrupted by - a crash, a viewer, a rename that
\* fails, a roll of another process - the files read from the last to file 0
\* give the records in the order they were written, and what was deleted is
\* older than everything kept (rollLogFiles, RollingFileAppender.h:85-102).
FilesInOrder ==
  /\ \A f, g \in Files : f < g =>
       \A m \in records[f], n \in records[g] : n < m
  /\ \A n \in UNION {records[f] : f \in Files} :
       n + 1 \in 1 .. written =>
         n + 1 \in UNION {records[f] : f \in Files}

\* Two processes never write the file at once, and what the writer believes
\* of its size, on which rolling depends, is the size of the file: nobody
\* renames, deletes or extends it behind the handle (File::open,
\* RollingFileAppender.h:50-55).
WriterKnowsFile ==
  \A p \in Processes : isOpen[p] =>
    /\ \A q \in Processes : isOpen[q] => p = q
    /\ Exists(0) /\ fileSize[p] = size[0]

\* Rolling does not delete the log: once anything has been deleted, some
\* full file is kept, even if two processes roll the same files at once or a
\* viewer stops a rename (Unlink before the renames,
\* RollingFileAppender.h:89-98).  To lose all it takes as many processes that
\* roll at once as there are files.
KeepsOneFull ==
  1 \notin UNION {records[f] : f \in Files} /\ written > 0 =>
    \E f \in Files : size[f] > MaxFileSize

\* A process whose open failed leaves the files alone from then on: its size of -1 is
\* larger than every limit, and with it taken for a size each of its records would
\* delete the oldest file and rename the others under the process that writes them
\* (RollingFileAppender.h:45 and 107, whose results nobody looks at).
SilentTouchesNothing ==
  [][\A p \in Processes :
       /\ fileSize[p] = NoSize
       /\ \E t \in p : <<pc'[t], number'[t]>> # <<pc[t], number[t]>>
       => UNCHANGED <<size, records>>]_vars

\* What a reader of the files finds, in terms of the log they make up.
Readable == UNION {records[f] : f \in Files}
Log == INSTANCE RecordLog WITH last <- written, kept <- Readable, Least <- MaxFileSize

\* Whatever is rolled, refused, viewed or lost in a crash, the files are one log:
\* a write puts a record behind all others, nothing that was read once comes back
\* after it was gone, renames and openings change nothing a reader can find, and what
\* a roll deletes are the oldest records and never one of the last MaxFileSize
\* (rollLogFiles, openLogFile, RollingFileAppender.h:85-118).
ImplementsLog == Log!Spec
=============================================================================
