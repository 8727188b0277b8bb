--------------------------- MODULE RollingLogProofs ---------------------------
(***************************************************************************)
(* Proofs about the rolling log, for every number of processes, threads    *)
(* and files, every size, and every crash and viewer: types, the order of  *)
(* what the files hold, what the writer knows of its file, that a process  *)
(* whose open failed leaves the files alone, and that fewer processes than *)
(* files always keep a full one.                                           *)
(***************************************************************************)
EXTENDS RollingLog, FiniteSetTheorems, FunctionTheorems, TLAPS

-----------------------------------------------------------------------------
(* The strengthened invariant. *)

\* rollLogFiles renames existing numbers only: its loop stops at 0.
RenameInRange == \A t \in Threads : pc[t] = "rename" => number[t] >= 0

\* A file that is not there holds nothing.
AbsentIsEmpty == \A f \in Files : size[f] = Absent => records[f] = {}

DiskInv ==
  TypeOK /\ RenameInRange /\ AbsentIsEmpty /\ WriterKnowsFile /\ FilesInOrder

\* The places between MutexLock's constructor and its destructor.
Critical == {"close", "unlink", "rename", "open", "write"}

\* m_mutex: whoever is inside write holds it.
LockedInside ==
  \A p \in Processes : \A t \in p : pc[t] \in Critical => holder[p] = t

\* From close to openLogFile there is no handle, nor before the first write.
ClosedWhileRolling ==
  \A p \in Processes :
    /\ \A t \in p : pc[t] \in {"unlink", "rename", "open"} => ~isOpen[p]
    /\ firstWrite[p] => ~isOpen[p]

\* A process that is down has no thread in a log statement and no appender.
DownIsIdle ==
  \A p \in Processes : phase[p] = "down" =>
    firstWrite[p] /\ ~isOpen[p] /\ \A t \in p : pc[t] = "idle"

\* Only a full file that is open is rolled, and never by a process whose open failed.
RollsFull(p) ==
  /\ \A t \in p : pc[t] = "close" => MustRoll(p)
  /\ MustRoll(p) /\ (\A t \in p : pc[t] \notin {"unlink", "rename", "open"}) => isOpen[p]
  /\ fileSize[p] = NoSize =>
       ~firstWrite[p] /\ \A t \in p : pc[t] \notin {"close", "unlink", "rename", "open"}

RollsOnlyFull == \A p \in Processes : RollsFull(p)

LogInv == DiskInv /\ LockedInside /\ ClosedWhileRolling /\ DownIsIdle /\ RollsOnlyFull

-----------------------------------------------------------------------------
(* The files. *)

\* File 0 is one of the files; so is the last, and the thread is one of all.
LEMMA FileZero ==
  /\ Files \subseteq Nat
  /\ 0 \in Files /\ MaxFiles - 1 \in Files
  /\ \A p \in Processes : p \subseteq Threads
  BY LogAssumption DEF Files, Threads

\* Deleting the last file keeps the order: what it held is the oldest.
LEMMA UnlinkKeepsOrder ==
  ASSUME TypeOK, AbsentIsEmpty, FilesInOrder, unlink(MaxFiles - 1), written' = written
  PROVE  AbsentIsEmpty' /\ FilesInOrder'
  <1> DEFINE last == MaxFiles - 1
  <1>0. last \in Files /\ \A f \in Files : f <= last
    BY LogAssumption DEF Files
  <1>1. CASE UNCHANGED <<size, records>>
    BY <1>1 DEF AbsentIsEmpty, FilesInOrder
  <1>2. CASE /\ size' = [size EXCEPT ![last] = Absent]
             /\ records' = [records EXCEPT ![last] = {}]
    <2>1. records'[last] = {} /\ \A f \in Files : f # last =>
            records'[f] = records[f] /\ size'[f] = size[f]
      BY <1>0, <1>2 DEF TypeOK
    <2>2. AbsentIsEmpty'
      BY <2>1 DEF AbsentIsEmpty
    <2>3. \A f \in Files : records'[f] \subseteq records[f]
      BY <2>1
    <2>4. ASSUME NEW f \in Files, NEW n \in records'[f], n + 1 \in 1 .. written
          PROVE  \E g \in Files : n + 1 \in records'[g]
      <3>1. f # last /\ n \in records[f] /\ n \in Nat
        BY <2>1, <2>4 DEF TypeOK
      <3>2. PICK g \in Files : n + 1 \in records[g]
        BY <2>4, <3>1 DEF FilesInOrder
      <3>3. g # last
        <4>1. f < last
          BY <1>0, <3>1 DEF Files
        <4>2. g = last => n + 1 < n
          BY <1>0, <3>1, <3>2, <4>1 DEF FilesInOrder
        <4>3. QED
          BY <3>1, <4>2
      <3>4. QED
        BY <2>1, <3>2, <3>3
    <2>5. \A f, g \in Files : f < g => \A m \in records'[f], n \in records'[g] : n < m
      BY <2>3 DEF FilesInOrder
    <2>6. FilesInOrder'
      BY <2>4, <2>5 DEF FilesInOrder
    <2>7. QED
      BY <2>2, <2>6
  <1>3. QED
    BY <1>1, <1>2 DEF unlink

\* Renaming a file to the number behind it, which is free, keeps it too.
LEMMA RenameKeepsOrder ==
  ASSUME TypeOK, AbsentIsEmpty, FilesInOrder, NEW f \in Files, f + 1 \in Files,
         rename(f, f + 1), written' = written
  PROVE  AbsentIsEmpty' /\ FilesInOrder'
  <1>1. CASE UNCHANGED <<size, records>>
    BY <1>1 DEF AbsentIsEmpty, FilesInOrder
  <1>2. CASE /\ Exists(f) /\ ~Exists(f + 1)
             /\ size' = [size EXCEPT ![f] = Absent, ![f + 1] = size[f]]
             /\ records' = [records EXCEPT ![f] = {}, ![f + 1] = records[f]]
    <2>0. f \in Nat /\ f # f + 1 /\ \A g \in Files : g \in Nat
      BY DEF Files
    <2>1. /\ records'[f] = {} /\ records'[f + 1] = records[f] /\ records[f + 1] = {}
          /\ size'[f + 1] # Absent
          /\ \A g \in Files : g # f /\ g # f + 1 =>
               records'[g] = records[g] /\ size'[g] = size[g]
      BY <1>2, <2>0 DEF TypeOK, AbsentIsEmpty, Exists
    <2>2. AbsentIsEmpty'
      BY <2>1 DEF AbsentIsEmpty
    <2>3. ASSUME NEW g \in Files, NEW h \in Files, g < h, NEW m \in records'[g], NEW n \in records'[h]
          PROVE  n < m
      <3>1. g # f /\ h # f
        BY <2>1, <2>3
      <3>2. CASE g = f + 1
        <4>1. m \in records[f] /\ n \in records[h] /\ f < h
          BY <2>0, <2>1, <2>3, <3>2
        <4>2. QED
          BY <4>1 DEF FilesInOrder
      <3>3. CASE h = f + 1
        <4>1. m \in records[g] /\ n \in records[f] /\ g < f
          BY <2>0, <2>1, <2>3, <3>1, <3>3
        <4>2. QED
          BY <4>1 DEF FilesInOrder
      <3>4. CASE g # f + 1 /\ h # f + 1
        BY <2>1, <2>3, <3>1, <3>4 DEF FilesInOrder
      <3>5. QED
        BY <3>2, <3>3, <3>4
    <2>4. UNION {records'[g] : g \in Files} = UNION {records[g] : g \in Files}
      <3>1. \A n : (\E g \in Files : n \in records'[g]) <=> (\E g \in Files : n \in records[g])
        BY <2>1
      <3>2. QED
        BY <3>1
    <2>5. FilesInOrder'
      BY <2>3, <2>4 DEF FilesInOrder
    <2>6. QED
      BY <2>2, <2>5
  <1>3. QED
    BY <1>1, <1>2 DEF rename

\* The mark at the head of an empty file is no record.
LEMMA OpenKeepsOrder ==
  ASSUME TypeOK, AbsentIsEmpty, FilesInOrder, NEW p, NEW t, openLogFile(p, t)
  PROVE  AbsentIsEmpty' /\ FilesInOrder'
  <1>1. UNCHANGED <<records, written>>
    BY DEF openLogFile, openRefused, openGranted
  <1>2. \A f \in Files : size'[f] = Absent => size[f] = Absent
    <2>1. CASE UNCHANGED size
      BY <2>1
    <2>2. CASE \E n \in Nat : size' = [size EXCEPT ![0] = n]
      BY <2>2, FileZero DEF TypeOK, Absent
    <2>3. CASE openGranted(p)
      <3>1. PICK marked \in BOOLEAN :
              size' = [size EXCEPT ![0] =
                         IF (IF Exists(0) THEN size[0] ELSE 0) = 0 /\ marked THEN 1
                         ELSE IF Exists(0) THEN size[0] ELSE 0]
        BY <2>3 DEF openGranted
      <3>2. (IF (IF Exists(0) THEN size[0] ELSE 0) = 0 /\ marked THEN 1
             ELSE IF Exists(0) THEN size[0] ELSE 0) \in Nat
        BY FileZero DEF Exists, TypeOK
      <3>3. QED
        BY <2>2, <3>1, <3>2
    <2>4. QED
      BY <2>1, <2>3 DEF openLogFile, openRefused
  <1>3. QED
    BY <1>1, <1>2 DEF AbsentIsEmpty, FilesInOrder

\* A record is written behind all others, into the first file.
LEMMA WriteKeepsOrder ==
  ASSUME TypeOK, AbsentIsEmpty, WriterKnowsFile, FilesInOrder,
         NEW p \in Processes, NEW t \in p, FileWrite(p, t)
  PROVE  AbsentIsEmpty' /\ FilesInOrder'
  <1>1. Exists(0) /\ size[0] \in Nat /\ 0 \in Files
    BY FileZero DEF FileWrite, WriterKnowsFile, Exists, TypeOK
  <1>2. /\ written \in Nat /\ written' = written + 1
        /\ records'[0] = records[0] \cup {written + 1}
        /\ \A f \in Files : f # 0 => records'[f] = records[f]
        /\ \A f \in Files : records[f] \subseteq 1 .. written
    BY <1>1 DEF FileWrite, TypeOK
  <1>3. \A f \in Files : size'[f] = Absent => size[f] = Absent /\ f # 0
    BY <1>1 DEF FileWrite, TypeOK, Absent
  <1>4. AbsentIsEmpty'
    BY <1>2, <1>3 DEF AbsentIsEmpty
  <1>5. ASSUME NEW f \in Files, NEW g \in Files, f < g, NEW m \in records'[f], NEW n \in records'[g]
        PROVE  n < m
    <2>0. g # 0
      BY <1>5, FileZero
    <2>1. g # 0 /\ n \in records[g] /\ n \in 1 .. written
      BY <1>2, <1>5, <2>0
    <2>2. CASE m \in records[f]
      BY <1>5, <2>1, <2>2 DEF FilesInOrder
    <2>3. CASE m = written + 1
      BY <1>2, <2>1, <2>3
    <2>4. QED
      BY <1>2, <2>2, <2>3
  <1>6. ASSUME NEW f \in Files, NEW n \in records'[f], n + 1 \in 1 .. written'
        PROVE  \E g \in Files : n + 1 \in records'[g]
    <2>1. \A g \in Files : records[g] \subseteq records'[g]
      BY <1>2
    <2>2. CASE n = written
      BY <1>1, <1>2, <2>2
    <2>3. CASE n # written
      <3>1. n \in 1 .. written + 1 /\ n + 1 \in 1 .. written
        BY <1>2, <1>6, <2>3
      <3>2. n \in records[f]
        BY <1>2, <1>6, <3>1
      <3>3. QED
        BY <2>1, <3>1, <3>2 DEF FilesInOrder
    <2>4. QED
      BY <2>2, <2>3
  <1>7. FilesInOrder'
    BY <1>5, <1>6 DEF FilesInOrder
  <1>8. QED
    BY <1>4, <1>7

OffDisk == UNCHANGED <<size, records, written>>

\* The steps that touch the files.
LEMMA DiskSteps ==
  ASSUME [Next]_vars
  PROVE  \/ OffDisk
         \/ \E p \in Processes : \E t \in p :
              Unlink(p, t) \/ Rename(p, t) \/ openLogFile(p, t) \/ FileWrite(p, t)
  <1>1. ASSUME NEW p \in Processes, NEW t \in p,
               \/ Start(p, t) \/ LogStatement(p, t) \/ ConsoleWrite(p, t) \/ AppenderLock(p, t)
               \/ Close(p, t) \/ FileWriteFails(p, t)
        PROVE  OffDisk
    BY <1>1
    DEF Start, LogStatement, ConsoleWrite, AppenderLock, Close, FileWriteFails, disk, OffDisk
  <1>2. CASE (\E p \in Processes : Crash(p)) \/ (\E f \in Viewable : View(f)) \/ UNCHANGED vars
    BY <1>2 DEF Crash, View, disk, vars, OffDisk
  <1> QED  BY <1>1, <1>2 DEF Next, ThreadStep

\* Whatever a step does to the files, the order survives it.
LEMMA NextOrder ==
  ASSUME DiskInv, [Next]_vars
  PROVE  AbsentIsEmpty' /\ FilesInOrder'
  <1>0. TypeOK /\ AbsentIsEmpty /\ FilesInOrder /\ WriterKnowsFile /\ RenameInRange
    BY DEF DiskInv
  <1>1. CASE OffDisk
    BY <1>0, <1>1 DEF OffDisk, AbsentIsEmpty, FilesInOrder
  <1>2. ASSUME NEW p \in Processes, NEW t \in p, Unlink(p, t)
        PROVE  AbsentIsEmpty' /\ FilesInOrder'
    BY <1>0, <1>2, UnlinkKeepsOrder DEF Unlink
  <1>3. ASSUME NEW p \in Processes, NEW t \in p, Rename(p, t)
        PROVE  AbsentIsEmpty' /\ FilesInOrder'
    <2>1. number[t] \in Files /\ number[t] + 1 \in Files
      BY <1>0, <1>3, FileZero, LogAssumption DEF Rename, RenameInRange, TypeOK, Files
    <2>2. QED
      BY <1>0, <1>3, <2>1, RenameKeepsOrder DEF Rename
  <1>4. ASSUME NEW p \in Processes, NEW t \in p, openLogFile(p, t)
        PROVE  AbsentIsEmpty' /\ FilesInOrder'
    BY <1>0, <1>4, OpenKeepsOrder
  <1>5. ASSUME NEW p \in Processes, NEW t \in p, FileWrite(p, t)
        PROVE  AbsentIsEmpty' /\ FilesInOrder'
    BY <1>0, <1>5, WriteKeepsOrder
  <1>6. ASSUME NEW p \in Processes, NEW t \in p,
               \/ Start(p, t) \/ LogStatement(p, t) \/ ConsoleWrite(p, t) \/ AppenderLock(p, t)
               \/ Close(p, t) \/ FileWriteFails(p, t)
        PROVE  OffDisk
    BY <1>6 DEF Start, LogStatement, ConsoleWrite, AppenderLock, Close, FileWriteFails, disk, OffDisk
  <1>7. CASE (\E p \in Processes : Crash(p)) \/ (\E f \in Viewable : View(f)) \/ UNCHANGED vars
    BY <1>1, <1>7 DEF Crash, View, disk, vars, OffDisk
  <1>8. QED
    BY <1>1, <1>2, <1>3, <1>4, <1>5, <1>6, <1>7 DEF Next, ThreadStep

-----------------------------------------------------------------------------
(* The writer. *)

\* An open file 0 is neither unlinked nor renamed.
LEMMA UnlinkSparesOpen ==
  ASSUME TypeOK, NEW q \in Processes, isOpen[q], NEW f \in Files, unlink(f)
  PROVE  size'[0] = size[0]
  <1>1. InUse(0) /\ 0 \in Files
    BY FileZero DEF InUse
  <1>2. QED
    BY <1>1 DEF unlink, TypeOK

\* Renaming spares it too.
LEMMA RenameSparesOpen ==
  ASSUME TypeOK, NEW q \in Processes, isOpen[q], NEW f \in Files, rename(f, f + 1)
  PROVE  size'[0] = size[0]
  <1>1. InUse(0) /\ 0 \in Files /\ f \in Nat
    BY FileZero DEF InUse
  <1>2. CASE UNCHANGED size
    BY <1>2
  <1>3. CASE size' = [size EXCEPT ![f] = Absent, ![f + 1] = size[f]] /\ f # 0
    BY <1>1, <1>3 DEF TypeOK
  <1>4. QED
    BY <1>1, <1>2, <1>3 DEF rename

\* The writer has the file for itself, and nobody moves it behind its handle.
LEMMA NextWriter ==
  ASSUME DiskInv, [Next]_vars
  PROVE  WriterKnowsFile'
  <1>0. TypeOK /\ WriterKnowsFile /\ RenameInRange /\ 0 \in Files
    BY FileZero DEF DiskInv
  <1> USE DEF WriterKnowsFile, Exists
  <1>1. ASSUME NEW p \in Processes, NEW t \in p,
               \/ Start(p, t) \/ LogStatement(p, t) \/ ConsoleWrite(p, t) \/ AppenderLock(p, t)
               \/ FileWriteFails(p, t)
        PROVE  WriterKnowsFile'
    BY <1>0, <1>1 DEF Start, LogStatement, ConsoleWrite, AppenderLock, FileWriteFails, disk, appender
  <1>2. ASSUME NEW p \in Processes, NEW t \in p, Close(p, t) PROVE WriterKnowsFile'
    <2>1. UNCHANGED <<size, fileSize>> /\ \A q \in Processes : isOpen'[q] => isOpen[q]
      BY <1>0, <1>2 DEF Close, disk, TypeOK
    <2>2. QED
      BY <1>0, <2>1
  <1>3. ASSUME NEW p \in Processes, NEW t \in p, Unlink(p, t) \/ Rename(p, t)
        PROVE  WriterKnowsFile'
    <2>1. UNCHANGED <<isOpen, fileSize, firstWrite>>
      BY <1>3 DEF Unlink, Rename, appender
    <2>2. ASSUME NEW q \in Processes, isOpen[q] PROVE size'[0] = size[0]
      <3>1. CASE Unlink(p, t)
        <4>1. MaxFiles - 1 \in Files /\ unlink(MaxFiles - 1)
          BY <3>1, FileZero DEF Unlink
        <4>2. QED
          BY <1>0, <2>2, <4>1, UnlinkSparesOpen
      <3>2. CASE Rename(p, t)
        <4>1. number[t] \in Files /\ number[t] + 1 \in Files
          BY <1>0, <3>2, FileZero, LogAssumption DEF Rename, RenameInRange, TypeOK, Files
        <4>2. QED
          BY <1>0, <2>2, <3>2, <4>1, RenameSparesOpen DEF Rename
      <3>3. QED
        BY <1>3, <3>1, <3>2
    <2>3. QED
      BY <1>0, <2>1, <2>2
  <1>4. ASSUME NEW p \in Processes, NEW t \in p, openLogFile(p, t) PROVE WriterKnowsFile'
    <2>1. CASE openRefused(p)
      <3>1. /\ UNCHANGED size
            /\ fileSize' = [fileSize EXCEPT ![p] = NoSize]
            /\ isOpen' = [isOpen EXCEPT ![p] = FALSE]
        BY <2>1 DEF openRefused
      <3>2. ASSUME NEW q \in Processes, isOpen'[q]
            PROVE  q # p /\ isOpen[q] /\ fileSize'[q] = fileSize[q]
        BY <1>0, <3>1, <3>2 DEF TypeOK
      <3>3. QED
        BY <1>0, <3>1, <3>2
    <2>2. CASE openGranted(p)
      <3> DEFINE found == IF Exists(0) THEN size[0] ELSE 0
      <3>0. found \in Nat
        BY <1>0 DEF TypeOK
      <3>1. PICK n \in {found, 1} : /\ size' = [size EXCEPT ![0] = n]
                                   /\ fileSize' = [fileSize EXCEPT ![p] = n]
        BY <2>2 DEF openGranted
      <3> HIDE DEF found
      <3>2. isOpen' = [isOpen EXCEPT ![p] = TRUE]
        BY <2>2 DEF openGranted
      <3>3. \A q \in Processes : isOpen'[q] <=> q = p
        BY <1>0, <2>2, <3>2 DEF openGranted, OpenFails, TypeOK
      <3>4. size'[0] = n /\ fileSize'[p] = n /\ n # Absent
        BY <1>0, <3>0, <3>1 DEF TypeOK, Absent
      <3>5. QED
        BY <3>3, <3>4
    <2>3. QED
      BY <1>4, <2>1, <2>2 DEF openLogFile
  <1>5. ASSUME NEW p \in Processes, NEW t \in p, FileWrite(p, t) PROVE WriterKnowsFile'
    <2>1. isOpen[p] /\ isOpen' = isOpen
      BY <1>5 DEF FileWrite
    <2>2. size[0] \in Nat /\ fileSize[p] = size[0] /\ \A q \in Processes : isOpen[q] => p = q
      BY <1>0, <2>1 DEF TypeOK
    <2>3. size'[0] = size[0] + 1 /\ fileSize'[p] = fileSize[p] + 1
      BY <1>0, <1>5 DEF FileWrite, TypeOK
    <2>4. QED
      BY <2>1, <2>2, <2>3 DEF Absent
  <1>6. ASSUME NEW p \in Processes, Crash(p) PROVE WriterKnowsFile'
    <2>1. UNCHANGED size
      BY <1>6 DEF Crash, disk
    <2>2. ASSUME NEW q \in Processes, isOpen'[q] PROVE isOpen[q] /\ fileSize'[q] = fileSize[q]
      BY <1>0, <1>6, <2>2 DEF Crash, TypeOK
    <2>3. QED
      BY <1>0, <2>1, <2>2
  <1>7. CASE (\E f \in Viewable : View(f)) \/ UNCHANGED vars
    BY <1>0, <1>7 DEF View, disk, appender, vars
  <1>8. QED
    BY <1>1, <1>2, <1>3, <1>4, <1>5, <1>6, <1>7 DEF Next, ThreadStep

-----------------------------------------------------------------------------
(* Types, by what the actions disturb. *)

ProcessTypes ==
  /\ phase \in [Processes -> {"down", "starting", "up"}]
  /\ holder \in [Processes -> Threads \cup {NoThread}]
  /\ isOpen \in [Processes -> BOOLEAN]
  /\ firstWrite \in [Processes -> BOOLEAN]
  /\ starts \in Nat /\ viewed \subseteq Files

Places == {"idle", "console", "lock", "close", "unlink", "rename", "open", "write"}

ThreadTypes ==
  /\ pc \in [Threads -> Places]
  /\ number \in [Threads -> -1 .. MaxFiles - 2]

FileTypes ==
  /\ fileSize \in [Processes -> Nat \cup {NoSize}]
  /\ size \in [Files -> Nat \cup {Absent}]
  /\ records \in [Files -> SUBSET (1 .. written)]
  /\ written \in Nat

\* The parts are the type invariant.
LEMMA TypeParts == TypeOK <=> ProcessTypes /\ ThreadTypes /\ FileTypes
  BY DEF TypeOK, ProcessTypes, ThreadTypes, FileTypes, Places

\* Flags, phases and the holder of the mutex.
LEMMA NextProcessTypes ==
  ASSUME ProcessTypes, [Next]_vars
  PROVE  ProcessTypes'
  <1> USE FileZero DEF ProcessTypes
  <1>1. ASSUME NEW p \in Processes, NEW t \in p,
               Start(p, t) \/ LogStatement(p, t) \/ ConsoleWrite(p, t) \/ AppenderLock(p, t)
        PROVE  ProcessTypes'
    <2>1. CASE Start(p, t)
      BY <2>1 DEF Start, appender
    <2>2. CASE LogStatement(p, t) \/ ConsoleWrite(p, t)
      BY <2>2 DEF LogStatement, ConsoleWrite, appender, world
    <2>3. CASE AppenderLock(p, t)
      BY <2>3 DEF AppenderLock, Lock, appender, world
    <2>4. QED
      BY <1>1, <2>1, <2>2, <2>3
  <1>2. ASSUME NEW p \in Processes, NEW t \in p, Close(p, t) \/ Unlink(p, t) \/ Rename(p, t)
        PROVE  ProcessTypes'
    BY <1>2 DEF Close, Unlink, Rename, appender, world
  <1>3. ASSUME NEW p \in Processes, NEW t \in p, openLogFile(p, t) PROVE ProcessTypes'
    <2>1. isOpen' \in [Processes -> BOOLEAN]
      BY <1>3 DEF openLogFile, openRefused, openGranted
    <2>2. QED
      BY <1>3, <2>1 DEF openLogFile, world
  <1>4. ASSUME NEW p \in Processes, NEW t \in p, FileWrite(p, t) \/ FileWriteFails(p, t)
        PROVE  ProcessTypes'
    BY <1>4 DEF FileWrite, FileWriteFails, Returns, Unlock, appender, world
  <1>5. ASSUME NEW p \in Processes, Crash(p) PROVE ProcessTypes'
    BY <1>5 DEF Crash, world
  <1>6. ASSUME NEW f \in Viewable, View(f) PROVE ProcessTypes'
    <2>1. viewed' \subseteq Files
      BY <1>6, LogAssumption DEF View, Files
    <2>2. QED
      BY <1>6, <2>1 DEF View, appender
  <1>7. CASE UNCHANGED vars
    BY <1>7 DEF vars, appender, world
  <1>8. QED
    BY <1>1, <1>2, <1>3, <1>4, <1>5, <1>6, <1>7 DEF Next, ThreadStep

\* Places, and the number a rename stands at, which stays in range because the
\* loop goes on to "open" below 0.
LEMMA NextThreadTypes ==
  ASSUME ThreadTypes, RenameInRange, [Next]_vars
  PROVE  ThreadTypes' /\ RenameInRange'
  <1> USE DEF ThreadTypes, RenameInRange, Places, Goto
  <1>1. ASSUME NEW p \in Processes, NEW t \in p,
               \/ Start(p, t) \/ LogStatement(p, t) \/ ConsoleWrite(p, t)
               \/ FileWrite(p, t) \/ FileWriteFails(p, t)
        PROVE  ThreadTypes' /\ RenameInRange'
    BY <1>1, FileZero
    DEF Start, LogStatement, ConsoleWrite, FileWrite, FileWriteFails, Returns, NextAppender
  <1>2. ASSUME NEW p \in Processes, NEW t \in p,
               AppenderLock(p, t) \/ Close(p, t) \/ openLogFile(p, t)
        PROVE  ThreadTypes' /\ RenameInRange'
    BY <1>2, FileZero DEF AppenderLock, Close, openLogFile
  <1>3. ASSUME NEW p \in Processes, NEW t \in p, NEW n \in -1 .. MaxFiles - 2,
               number' = [number EXCEPT ![t] = n], RenameNext(t, n)
        PROVE  ThreadTypes' /\ RenameInRange'
    BY <1>3, FileZero DEF RenameNext
  <1>4. ASSUME NEW p \in Processes, NEW t \in p, Unlink(p, t)
        PROVE  ThreadTypes' /\ RenameInRange'
    <2>1. MaxFiles - 2 \in -1 .. MaxFiles - 2
      BY LogAssumption
    <2>2. QED
      BY <1>3, <1>4, <2>1 DEF Unlink
  <1>5. ASSUME NEW p \in Processes, NEW t \in p, Rename(p, t)
        PROVE  ThreadTypes' /\ RenameInRange'
    <2>1. t \in Threads /\ number[t] \in 0 .. MaxFiles - 2
      BY <1>5, FileZero, LogAssumption DEF Rename
    <2>2. number[t] - 1 \in -1 .. MaxFiles - 2
      BY <2>1, LogAssumption
    <2>3. QED
      BY <1>3, <1>5, <2>2 DEF Rename
  <1>6. ASSUME NEW p \in Processes, Crash(p) PROVE ThreadTypes' /\ RenameInRange'
    <2>1. \A t \in Threads : pc'[t] = "rename" => pc[t] = "rename" /\ number'[t] = number[t]
      <3> TAKE t \in Threads
      <3>1. CASE t \in p
        BY <1>6, <3>1 DEF Crash
      <3>2. CASE t \notin p
        BY <1>6, <3>2 DEF Crash
      <3>3. QED
        BY <3>1, <3>2
    <2>2. -1 \in -1 .. MaxFiles - 2
      BY LogAssumption
    <2>3. pc' \in [Threads -> Places] /\ number' \in [Threads -> -1 .. MaxFiles - 2]
      BY <1>6, <2>2 DEF Crash
    <2>4. QED
      BY <2>1, <2>3
  <1>7. CASE (\E f \in Viewable : View(f)) \/ UNCHANGED vars
    BY <1>7 DEF View, vars
  <1>8. QED
    BY <1>1, <1>2, <1>4, <1>5, <1>6, <1>7 DEF Next, ThreadStep

\* Sizes and records: what is written is written to a file that is there.
LEMMA NextFileTypes ==
  ASSUME TypeOK, RenameInRange, WriterKnowsFile, [Next]_vars
  PROVE  FileTypes'
  <1>0. FileTypes /\ 0 \in Files
    BY TypeParts, FileZero
  <1> USE DEF FileTypes
  <1>1. ASSUME NEW p \in Processes, NEW t \in p,
               \/ Start(p, t) \/ LogStatement(p, t) \/ ConsoleWrite(p, t) \/ AppenderLock(p, t)
               \/ Close(p, t) \/ FileWriteFails(p, t)
        PROVE  FileTypes'
    BY <1>0, <1>1 DEF Start, LogStatement, ConsoleWrite, AppenderLock, Close, FileWriteFails, disk,
      appender
  <1>2. ASSUME NEW p \in Processes, NEW t \in p, Unlink(p, t) PROVE FileTypes'
    BY <1>0, <1>2 DEF Unlink, unlink, appender
  <1>3. ASSUME NEW p \in Processes, NEW t \in p, Rename(p, t) PROVE FileTypes'
    <2>1. number[t] \in Files
      BY <1>3, FileZero, LogAssumption DEF Rename, RenameInRange, TypeOK, Files
    <2>2. size' \in [Files -> Nat \cup {Absent}]
      BY <1>0, <1>3, <2>1 DEF Rename, rename
    <2>3. records' \in [Files -> SUBSET (1 .. written)]
      BY <1>0, <1>3, <2>1 DEF Rename, rename
    <2>4. QED
      BY <1>0, <1>3, <2>2, <2>3 DEF Rename, appender
  <1>4. ASSUME NEW p \in Processes, NEW t \in p, openLogFile(p, t) PROVE FileTypes'
    <2>1. CASE openRefused(p)
      BY <1>0, <1>4, <2>1 DEF openLogFile, openRefused
    <2>2. CASE openGranted(p)
      <3> DEFINE found == IF Exists(0) THEN size[0] ELSE 0
      <3>1. found \in Nat
        BY <1>0 DEF Exists
      <3>2. PICK n \in {found, 1} : /\ size' = [size EXCEPT ![0] = n]
                                   /\ fileSize' = [fileSize EXCEPT ![p] = n]
        BY <2>2 DEF openGranted
      <3> HIDE DEF found
      <3>3. UNCHANGED <<records, written>>
        BY <1>4 DEF openLogFile, openRefused, openGranted
      <3>4. QED
        BY <1>0, <3>1, <3>2, <3>3
    <2>3. QED
      BY <1>4, <2>1, <2>2 DEF openLogFile
  <1>5. ASSUME NEW p \in Processes, NEW t \in p, FileWrite(p, t) PROVE FileTypes'
    <2>1. size[0] \in Nat /\ fileSize[p] \in Nat
      BY <1>0, <1>5 DEF FileWrite, WriterKnowsFile, Exists, Absent, NoSize
    <2>2. size' \in [Files -> Nat \cup {Absent}] /\ fileSize' \in [Processes -> Nat \cup {NoSize}]
      BY <1>0, <1>5, <2>1 DEF FileWrite
    <2>3. written' = written + 1 /\ written' \in Nat
      BY <1>0, <1>5 DEF FileWrite
    <2>4. 1 .. written \subseteq 1 .. written' /\ written + 1 \in 1 .. written'
      BY <1>0, <2>3
    <2>5. records' \in [Files -> SUBSET (1 .. written')]
      <3>1. records' = [records EXCEPT ![0] = records[0] \cup {written + 1}]
        BY <1>5 DEF FileWrite
      <3>2. \A f \in Files : records[f] \in SUBSET (1 .. written')
        BY <1>0, <2>4
      <3>3. records[0] \cup {written + 1} \in SUBSET (1 .. written')
        BY <1>0, <2>4, <3>2
      <3>4. QED
        BY <1>0, <3>1, <3>2, <3>3
    <2>6. QED
      BY <2>2, <2>3, <2>5
  <1>6. ASSUME NEW p \in Processes, Crash(p) PROVE FileTypes'
    BY <1>0, <1>6 DEF Crash, disk
  <1>7. CASE (\E f \in Viewable : View(f)) \/ UNCHANGED vars
    BY <1>0, <1>7 DEF View, vars, disk, appender
  <1>8. QED
    BY <1>1, <1>2, <1>3, <1>4, <1>5, <1>6, <1>7 DEF Next, ThreadStep

\* Every step preserves what was said of the files.
LEMMA NextDiskInv ==
  ASSUME DiskInv, [Next]_vars
  PROVE  DiskInv'
  <1>1. ProcessTypes /\ ThreadTypes /\ RenameInRange
    BY TypeParts DEF DiskInv
  <1>2. ProcessTypes' /\ ThreadTypes' /\ FileTypes' /\ RenameInRange'
    BY <1>1, NextProcessTypes, NextThreadTypes, NextFileTypes DEF DiskInv
  <1>3. TypeOK'
    BY <1>2 DEF TypeOK, ProcessTypes, ThreadTypes, FileTypes, Places
  <1>4. QED
    BY <1>2, <1>3, NextOrder, NextWriter DEF DiskInv

-----------------------------------------------------------------------------
(* The mutex and the handle. *)

\* A thread belongs to one process.
LEMMA OneProcess ==
  \A p, q \in Processes : \A t \in p : t \in q => p = q
  BY LogAssumption

\* What a step of a thread leaves alone: the other threads and processes.
OthersKept(p, t) ==
  /\ \A u \in Threads : u # t => pc'[u] = pc[u]
  /\ \A q \in Processes : q # p =>
       /\ phase'[q] = phase[q] /\ holder'[q] = holder[q]
       /\ isOpen'[q] = isOpen[q] /\ firstWrite'[q] = firstWrite[q]

\* That holds of every step of a thread.
LEMMA StepsKeepOthers ==
  ASSUME TypeOK, NEW p \in Processes, NEW t \in p, Start(p, t) \/ ThreadStep(p, t)
  PROVE  OthersKept(p, t)
  <1> USE FileZero DEF OthersKept, TypeOK, Goto
  <1>1. CASE Start(p, t) \/ LogStatement(p, t) \/ ConsoleWrite(p, t)
    BY <1>1 DEF Start, LogStatement, ConsoleWrite, NextAppender, appender
  <1>2. CASE AppenderLock(p, t) \/ Close(p, t)
    BY <1>2 DEF AppenderLock, Lock, Close, appender
  <1>3. CASE Unlink(p, t) \/ Rename(p, t)
    BY <1>3 DEF Unlink, Rename, RenameNext, appender
  <1>4. CASE openLogFile(p, t)
    <2>1. \A q \in Processes : q # p => isOpen'[q] = isOpen[q]
      BY <1>4 DEF openLogFile, openRefused, openGranted
    <2>2. QED
      BY <1>4, <2>1 DEF openLogFile
  <1>5. CASE FileWrite(p, t) \/ FileWriteFails(p, t)
    BY <1>5 DEF FileWrite, FileWriteFails, Returns, Unlock, NextAppender, appender
  <1>6. QED
    BY <1>1, <1>2, <1>3, <1>4, <1>5 DEF ThreadStep

ControlInv == LockedInside /\ ClosedWhileRolling /\ DownIsIdle

\* The conjuncts of one process, and a way to put them together again.
Orderly(p) ==
  /\ \A t \in p : pc[t] \in Critical => holder[p] = t
  /\ \A t \in p : pc[t] \in {"unlink", "rename", "open"} => ~isOpen[p]
  /\ firstWrite[p] => ~isOpen[p]
  /\ phase[p] = "down" => firstWrite[p] /\ ~isOpen[p] /\ \A t \in p : pc[t] = "idle"

\* Nothing is lost by looking at one process at a time.
LEMMA OrderlyEach == ControlInv <=> \A p \in Processes : Orderly(p)
  BY DEF ControlInv, LockedInside, ClosedWhileRolling, DownIsIdle, Orderly

\* So it is enough to look at the process that steps.
LEMMA OrderlyOthers ==
  ASSUME ControlInv, NEW p \in Processes, NEW t \in p, OthersKept(p, t), Orderly(p)'
  PROVE  ControlInv'
  <1>1. ASSUME NEW q \in Processes, q # p PROVE Orderly(q)'
    <2>1. Orderly(q)
      BY OrderlyEach
    <2>2. \A u \in q : pc'[u] = pc[u]
      BY <1>1, OneProcess, FileZero DEF OthersKept
    <2>3. /\ phase'[q] = phase[q] /\ holder'[q] = holder[q]
          /\ isOpen'[q] = isOpen[q] /\ firstWrite'[q] = firstWrite[q]
      BY <1>1 DEF OthersKept
    <2>4. QED
      BY <2>1, <2>2, <2>3 DEF Orderly
  <1>2. \A q \in Processes : Orderly(q)'
    BY <1>1
  <1>3. QED
    BY <1>2 DEF ControlInv, LockedInside, ClosedWhileRolling, DownIsIdle, Orderly

\* A thread that takes the mutex finds nobody inside, one that is inside has it.
LEMMA StepKeepsOrderly ==
  ASSUME TypeOK, NEW p \in Processes, NEW t \in p, Orderly(p), Start(p, t) \/ ThreadStep(p, t)
  PROVE  Orderly(p)'
  <1>0. /\ t \in Threads /\ NoThread \notin p
        /\ \A u \in p : u # t => pc'[u] = pc[u]
    BY StepsKeepOthers, FileZero, LogAssumption DEF OthersKept
  <1> USE <1>0 DEF TypeOK, Goto, Orderly, Critical
  <1>1. CASE Start(p, t)
    BY <1>1 DEF Start, NextAppender, appender
  <1>2. CASE LogStatement(p, t) \/ ConsoleWrite(p, t)
    BY <1>2 DEF LogStatement, ConsoleWrite, NextAppender, appender
  <1>3. CASE AppenderLock(p, t)
    <2>1. \A u \in p : pc[u] \notin Critical
      BY <1>3 DEF AppenderLock, Lock
    <2>2. /\ holder'[p] = t /\ UNCHANGED <<phase, isOpen, firstWrite>>
          /\ pc'[t] \in {"open", "close", "write"}
          /\ pc'[t] = "open" => firstWrite[p]
          /\ phase[p] # "down"
      BY <1>3 DEF AppenderLock, Lock, appender
    <2>3. QED
      BY <2>1, <2>2
  <1>4. CASE Close(p, t)
    BY <1>4 DEF Close
  <1>5. CASE Unlink(p, t) \/ Rename(p, t)
    <2>1. UNCHANGED <<phase, holder, isOpen, firstWrite>>
      BY <1>5 DEF Unlink, Rename, appender
    <2>2. pc[t] \in {"unlink", "rename"} /\ pc'[t] \in {"rename", "open"}
      BY <1>5 DEF Unlink, Rename, RenameNext
    <2>3. QED
      BY <2>1, <2>2
  <1>6. CASE openLogFile(p, t)
    <2>1. /\ UNCHANGED <<phase, holder>> /\ ~firstWrite'[p]
          /\ pc[t] = "open" /\ pc'[t] = "write"
      BY <1>6 DEF openLogFile
    <2>2. \A u \in p : u # t => pc'[u] \notin Critical
      BY <2>1
    <2>3. QED
      BY <2>1, <2>2
  <1>7. CASE FileWrite(p, t) \/ FileWriteFails(p, t)
    <2>1. /\ UNCHANGED <<isOpen, firstWrite>> /\ phase'[p] = "up"
          /\ pc[t] = "write" /\ pc'[t] = "idle"
      BY <1>7 DEF FileWrite, FileWriteFails, Returns, NextAppender, appender
    <2>2. \A u \in p : pc'[u] \notin Critical
      BY <2>1
    <2>3. QED
      BY <2>1, <2>2
  <1>8. QED
    BY <1>1, <1>2, <1>3, <1>4, <1>5, <1>6, <1>7 DEF ThreadStep

\* Every step preserves mutual exclusion and what it protects.
LEMMA NextControlInv ==
  ASSUME TypeOK, ControlInv, [Next]_vars
  PROVE  ControlInv'
  <1>1. ASSUME NEW p \in Processes, NEW t \in p, Start(p, t) \/ ThreadStep(p, t)
        PROVE  ControlInv'
    <2>1. Orderly(p)
      BY OrderlyEach
    <2>2. OthersKept(p, t) /\ Orderly(p)'
      BY <1>1, <2>1, StepsKeepOthers, StepKeepsOrderly
    <2>3. QED
      BY <2>2, OrderlyOthers
  <1>2. ASSUME NEW p \in Processes, Crash(p) PROVE ControlInv'
    <2>1. Orderly(p)'
      BY <1>2, FileZero DEF Crash, Orderly, TypeOK, Critical
    <2>2. PICK t \in p : TRUE
      BY LogAssumption
    <2>3. ASSUME NEW q \in Processes, q # p PROVE Orderly(q)'
      <3>1. Orderly(q)
        BY OrderlyEach
      <3>2. \A u \in q : u \in Threads /\ u \notin p
        BY <2>3, OneProcess, FileZero
      <3>3. \A u \in q : pc'[u] = pc[u]
        BY <1>2, <3>2 DEF Crash
      <3>4. /\ phase'[q] = phase[q] /\ holder'[q] = holder[q]
            /\ isOpen'[q] = isOpen[q] /\ firstWrite'[q] = firstWrite[q]
        BY <1>2, <2>3 DEF Crash, TypeOK
      <3>5. QED
        BY <3>1, <3>3, <3>4 DEF Orderly
    <2>4. \A q \in Processes : Orderly(q)'
      BY <2>1, <2>3
    <2>5. QED
      BY <2>4 DEF ControlInv, LockedInside, ClosedWhileRolling, DownIsIdle, Orderly
  <1>3. CASE (\E f \in Viewable : View(f)) \/ UNCHANGED vars
    BY <1>3 DEF View, vars, appender, ControlInv, LockedInside, ClosedWhileRolling, DownIsIdle
  <1>4. QED
    BY <1>1, <1>2, <1>3 DEF Next

-----------------------------------------------------------------------------
(* Who rolls. *)

\* The size a process believes in changes by its own steps only.
LEMMA StepsKeepFileSize ==
  ASSUME TypeOK, NEW p \in Processes, NEW t \in p, Start(p, t) \/ ThreadStep(p, t),
         NEW q \in Processes, q # p
  PROVE  fileSize'[q] = fileSize[q]
  <1>1. CASE openLogFile(p, t)
    <2>1. CASE openRefused(p)
      BY <2>1 DEF openRefused, TypeOK
    <2>2. CASE openGranted(p)
      <3>1. \E n : fileSize' = [fileSize EXCEPT ![p] = n]
        BY <2>2 DEF openGranted
      <3> QED  BY <3>1 DEF TypeOK
    <2> QED  BY <1>1, <2>1, <2>2 DEF openLogFile
  <1>2. CASE FileWrite(p, t)
    BY <1>2 DEF FileWrite, TypeOK
  <1>3. CASE ~openLogFile(p, t) /\ ~FileWrite(p, t)
    BY <1>3
    DEF Start, ThreadStep, LogStatement, ConsoleWrite, AppenderLock, Close, Unlink, Rename,
        FileWriteFails, appender
  <1> QED  BY <1>1, <1>2, <1>3

\* The thread that steps: it closes only what is too large, and while it has no
\* handle it is in the roll.
LEMMA StepRollsFull ==
  ASSUME TypeOK, NEW p \in Processes, NEW t \in p, Orderly(p), RollsFull(p),
         Start(p, t) \/ ThreadStep(p, t)
  PROVE  RollsFull(p)'
  <1>0. /\ t \in Threads
        /\ \A u \in p : u # t => pc'[u] = pc[u]
    BY StepsKeepOthers, FileZero DEF OthersKept
  <1>a. MaxFileSize \in Nat
    BY LogAssumption
  <1> USE <1>0 DEF TypeOK, Goto, RollsFull, MustRoll, Exceeds, NoSize
  <1>1. CASE Start(p, t) \/ LogStatement(p, t) \/ ConsoleWrite(p, t)
    <2>1. UNCHANGED <<isOpen, fileSize, firstWrite>> /\ pc'[t] \in {"console", "lock"}
      BY <1>1 DEF Start, LogStatement, ConsoleWrite, NextAppender, appender
    <2>2. pc[t] \notin {"unlink", "rename", "open"}
      <3>1. CASE Start(p, t)
        BY <3>1 DEF Start, Orderly
      <3>2. CASE LogStatement(p, t) \/ ConsoleWrite(p, t)
        BY <3>2 DEF LogStatement, ConsoleWrite
      <3> QED  BY <1>1, <3>1, <3>2
    <2> QED  BY <2>1, <2>2
  <1>2. CASE AppenderLock(p, t)
    <2>1. /\ UNCHANGED <<isOpen, fileSize, firstWrite>> /\ pc[t] = "lock"
          /\ pc'[t] \in {"open", "close", "write"}
          /\ pc'[t] = "close" => MustRoll(p)
          /\ pc'[t] = "open" => firstWrite[p]
      BY <1>2 DEF AppenderLock, appender
    <2> QED  BY <2>1
  <1>3. CASE Close(p, t)
    <2>1. pc[t] = "close" /\ pc'[t] = "unlink" /\ UNCHANGED <<fileSize, firstWrite>>
      BY <1>3 DEF Close
    <2> QED  BY <2>1
  <1>4. CASE Unlink(p, t) \/ Rename(p, t)
    <2>1. /\ pc[t] \in {"unlink", "rename"} /\ pc'[t] \in {"rename", "open"}
          /\ UNCHANGED <<isOpen, fileSize, firstWrite>>
      BY <1>4 DEF Unlink, Rename, RenameNext, appender
    <2> QED  BY <2>1
  <1>5. CASE openLogFile(p, t)
    <2>1. pc[t] = "open" /\ pc'[t] = "write" /\ ~firstWrite'[p]
      BY <1>5 DEF openLogFile
    <2>2. \A u \in p : pc'[u] \notin {"close", "unlink", "rename", "open"}
      BY <2>1 DEF Orderly, Critical
    <2>3. MustRoll(p)' => isOpen'[p]
      <3>1. CASE openRefused(p)
        BY <3>1 DEF openRefused
      <3>2. CASE openGranted(p)
        BY <3>2 DEF openGranted
      <3> QED  BY <1>5, <3>1, <3>2 DEF openLogFile
    <2> QED  BY <2>1, <2>2, <2>3
  <1>6. CASE FileWrite(p, t)
    <2>1. pc[t] = "write" /\ pc'[t] = "idle" /\ isOpen'[p]
      BY <1>6 DEF FileWrite, Returns, NextAppender
    <2>2. \A u \in p : pc'[u] # "close"
      BY <2>1 DEF Orderly, Critical
    <2>3. fileSize'[p] # NoSize
      BY <1>6 DEF FileWrite
    <2> QED  BY <2>1, <2>2, <2>3
  <1>7. CASE FileWriteFails(p, t)
    <2>1. pc[t] = "write" /\ pc'[t] = "idle" /\ UNCHANGED <<isOpen, fileSize, firstWrite>>
      BY <1>7 DEF FileWriteFails, Returns, NextAppender, appender
    <2> QED  BY <2>1
  <1> QED  BY <1>1, <1>2, <1>3, <1>4, <1>5, <1>6, <1>7 DEF ThreadStep

\* Every step preserves that only full files are rolled.
LEMMA NextRollsOnlyFull ==
  ASSUME TypeOK, ControlInv, RollsOnlyFull, [Next]_vars
  PROVE  RollsOnlyFull'
  <1>1. ASSUME NEW p \in Processes, NEW t \in p, Start(p, t) \/ ThreadStep(p, t),
               NEW q \in Processes
        PROVE  RollsFull(q)'
    <2>1. OthersKept(p, t) /\ Orderly(p) /\ RollsFull(q)
      BY <1>1, StepsKeepOthers, OrderlyEach DEF RollsOnlyFull
    <2>2. CASE q = p
      BY <1>1, <2>1, <2>2, StepRollsFull
    <2>3. CASE q # p
      <3>1. /\ \A u \in q : pc'[u] = pc[u]
            /\ isOpen'[q] = isOpen[q] /\ fileSize'[q] = fileSize[q]
            /\ firstWrite'[q] = firstWrite[q]
        BY <1>1, <2>1, <2>3, OneProcess, FileZero, StepsKeepFileSize DEF OthersKept
      <3> QED  BY <2>1, <3>1 DEF RollsFull, MustRoll, Exceeds
    <2> QED  BY <2>2, <2>3
  <1>2. ASSUME NEW p \in Processes, Crash(p), NEW q \in Processes PROVE RollsFull(q)'
    <2>1. CASE q = p
      <3>1. fileSize'[p] = 0 /\ \A t \in p : pc'[t] = "idle"
        BY <1>2, FileZero DEF Crash, TypeOK
      <3>2. ~MustRoll(p)' /\ fileSize'[p] # NoSize
        BY <3>1, LogAssumption DEF MustRoll, Exceeds, NoSize
      <3> QED  BY <2>1, <3>1, <3>2 DEF RollsFull
    <2>2. CASE q # p
      <3>1. \A u \in q : pc'[u] = pc[u]
        BY <1>2, <2>2, OneProcess, FileZero DEF Crash
      <3>2. /\ isOpen'[q] = isOpen[q] /\ fileSize'[q] = fileSize[q]
            /\ firstWrite'[q] = firstWrite[q] /\ RollsFull(q)
        BY <1>2, <2>2 DEF Crash, TypeOK, RollsOnlyFull
      <3> QED  BY <3>1, <3>2 DEF RollsFull, MustRoll, Exceeds
    <2> QED  BY <2>1, <2>2
  <1>3. CASE (\E f \in Viewable : View(f)) \/ UNCHANGED vars
    BY <1>3 DEF View, vars, appender, RollsOnlyFull, RollsFull, MustRoll, Exceeds
  <1> QED  BY <1>1, <1>2, <1>3 DEF Next, RollsOnlyFull

-----------------------------------------------------------------------------
(* The theorems. *)

\* The invariant holds before any program is started.
LEMMA InitLogInv == Init => LogInv
  <1> SUFFICES ASSUME Init PROVE LogInv
    OBVIOUS
  <1>1. TypeOK
    <2>1. ProcessTypes /\ ThreadTypes
      <3>1. -1 \in -1 .. MaxFiles - 2
        BY LogAssumption
      <3>2. QED
        BY <3>1 DEF Init, ProcessTypes, ThreadTypes, Places
    <2>2. FileTypes
      BY DEF Init, FileTypes
    <2>3. QED
      BY <2>1, <2>2, TypeParts
  <1>2. RenameInRange /\ AbsentIsEmpty /\ WriterKnowsFile /\ FilesInOrder
    BY DEF Init, RenameInRange, AbsentIsEmpty, WriterKnowsFile, FilesInOrder
  <1>3. LockedInside /\ ClosedWhileRolling /\ DownIsIdle
    BY FileZero DEF Init, LockedInside, ClosedWhileRolling, DownIsIdle, Critical
  <1>4. RollsOnlyFull
    BY FileZero, LogAssumption DEF Init, RollsOnlyFull, RollsFull, MustRoll, Exceeds, NoSize
  <1>5. QED
    BY <1>1, <1>2, <1>3, <1>4 DEF LogInv, DiskInv

\* Every step preserves it.
LEMMA NextLogInv == LogInv /\ [Next]_vars => LogInv'
  BY NextDiskInv, NextControlInv, NextRollsOnlyFull DEF LogInv, DiskInv, ControlInv

\* Every reachable state satisfies the inductive invariant.
THEOREM LogInvariance == Spec => []LogInv
  BY InitLogInv, NextLogInv, PTL DEF Spec

\* Sizes, numbers and records keep their types: m_fileSize is not taken for a
\* size while it is -1, and rollLogFiles renames only numbers it keeps.
THEOREM LogTypeCorrect == Spec => []TypeOK
  <1>1. LogInv => TypeOK
    BY DEF LogInv, DiskInv
  <1>2. QED
    BY <1>1, LogInvariance, PTL

\* Whatever interrupts a roll, the files read from the last to the first give the
\* records in their order, and only the oldest are missing.
THEOREM FilesStayInOrder == Spec => []FilesInOrder
  <1>1. LogInv => FilesInOrder
    BY DEF LogInv, DiskInv
  <1>2. QED
    BY <1>1, LogInvariance, PTL

\* One process at a time writes file 0, and its m_fileSize is the file's size.
THEOREM WriterAlwaysKnowsFile == Spec => []WriterKnowsFile
  <1>1. LogInv => WriterKnowsFile
    BY DEF LogInv, DiskInv
  <1>2. QED
    BY <1>1, LogInvariance, PTL

\* A process whose open failed is at no place of the appender where a file is changed.
LEMMA SilentStepKeepsFiles ==
  ASSUME LogInv, [Next]_vars, NEW p \in Processes, fileSize[p] = NoSize,
         NEW t \in p, <<pc'[t], number'[t]>> # <<pc[t], number[t]>>
  PROVE  UNCHANGED <<size, records>>
  <1>0. /\ TypeOK /\ WriterKnowsFile /\ RollsFull(p)
        /\ t \in Threads
    BY FileZero DEF LogInv, DiskInv, RollsOnlyFull
  <1>1. ~isOpen[p] /\ pc[t] \notin {"unlink", "rename", "open"}
    BY <1>0, FileZero DEF RollsFull, WriterKnowsFile, Exists, NoSize, Absent
  <1>2. ASSUME NEW q \in Processes, NEW u \in q,
               Unlink(q, u) \/ Rename(q, u) \/ openLogFile(q, u) \/ FileWrite(q, u)
        PROVE  FALSE
    <2>1. u = t /\ q = p
      <3>1. \A v \in Threads : v # u => pc'[v] = pc[v] /\ number'[v] = number[v]
        BY <1>0, <1>2
        DEF Unlink, Rename, RenameNext, openLogFile, FileWrite, Returns, NextAppender, Goto, TypeOK
      <3> QED  BY <1>0, <1>2, <3>1, OneProcess
    <2> QED  BY <1>1, <1>2, <2>1 DEF Unlink, Rename, openLogFile, FileWrite
  <1> QED  BY <1>2, DiskSteps DEF OffDisk, disk

\* Whatever makes an open fail, the process whose log it was never rolls or deletes
\* what others write: the size it then believes in is not taken for a size.
THEOREM SilentStaysHarmless == Spec => SilentTouchesNothing
  <1>1. LogInv /\ [Next]_vars =>
          [\A p \in Processes :
             /\ fileSize[p] = NoSize
             /\ \E t \in p : <<pc'[t], number'[t]>> # <<pc[t], number[t]>>
             => UNCHANGED <<size, records>>]_vars
    BY SilentStepKeepsFiles
  <1> QED  BY <1>1, LogInvariance, PTL DEF Spec, SilentTouchesNothing

-----------------------------------------------------------------------------
(***************************************************************************)
(* What is kept.  A roll moves each file at most once, and begins when     *)
(* file 0 is full.  So of the processes that may still move a full file,   *)
(* each move uses up one: with fewer processes than files, none is left    *)
(* to delete it at the end of the row.                                     *)
(***************************************************************************)

\* Process p may still rename or delete file f in its roll.
CanMove(p, f) ==
  \E t \in p : pc[t] = "unlink" \/ (pc[t] = "rename" /\ number[t] >= f)

Movers(f) == {p \in Processes : CanMove(p, f)}

\* A full file that the processes cannot bring to the end.
Safe(f) ==
  /\ size[f] > MaxFileSize
  /\ Cardinality(Movers(f)) <= Cardinality(Processes) - f

Unlinking == \E p \in Processes : \E t \in p : pc[t] = "unlink"

Deleted == 1 \notin UNION {records[f] : f \in Files} /\ written > 0

KeepsSafe == Deleted \/ Unlinking => \E f \in Files : Safe(f)

\* Fewer processes can move a file if they lose their place in the roll.
LEMMA FewerMovers ==
  ASSUME IsFiniteSet(Processes), NEW f \in Files, NEW g \in Files,
         Movers(g)' \subseteq Movers(f)
  PROVE  Cardinality(Movers(g)') <= Cardinality(Movers(f))
  <1>1. Movers(f) \subseteq Processes
    BY DEF Movers
  <1> QED  BY <1>1, FS_Subset

\* All of them at most.
LEMMA AllMovers ==
  ASSUME IsFiniteSet(Processes)
  PROVE  /\ Cardinality(Processes) \in Nat
         /\ \A f \in Files : /\ IsFiniteSet(Movers(f)) /\ Cardinality(Movers(f)) \in Nat
                             /\ Cardinality(Movers(f)) <= Cardinality(Processes)
  <1>1. \A f \in Files : Movers(f) \subseteq Processes
    BY DEF Movers
  <1> QED  BY <1>1, FS_Subset, FS_CardinalityType

\* A full file that does not shrink, and that no more processes can move, stays safe.
LEMMA SafeStays ==
  ASSUME TypeOK, TypeOK', IsFiniteSet(Processes), NEW f \in Files, Safe(f),
         size'[f] >= size[f], Movers(f)' \subseteq Movers(f)
  PROVE  Safe(f)'
  <1>1. Cardinality(Movers(f)') <= Cardinality(Movers(f))
    BY FewerMovers
  <1>2. /\ Cardinality(Movers(f)) \in Nat /\ Cardinality(Processes) \in Nat
        /\ Cardinality(Movers(f)') \in Nat
    <2>1. Movers(f)' \subseteq Processes
      BY DEF Movers
    <2> QED  BY <2>1, AllMovers, FS_Subset, FS_CardinalityType
  <1>3. size[f] \in Int /\ size'[f] \in Int /\ MaxFileSize \in Int /\ f \in Int
    BY LogAssumption DEF TypeOK, Absent, Files
  <1> QED  BY <1>1, <1>2, <1>3 DEF Safe

\* A roll begins with a full file 0.
LEMMA CloseFindsFull ==
  ASSUME TypeOK, TypeOK', ControlInv, RollsOnlyFull, WriterKnowsFile, IsFiniteSet(Processes),
         NEW p \in Processes, NEW t \in p, Close(p, t)
  PROVE  Safe(0)'
  <1>1. pc[t] = "close" /\ UNCHANGED size
    BY DEF Close, disk
  <1>2. MustRoll(p)
    BY <1>1 DEF RollsOnlyFull, RollsFull
  <1>3. \A u \in p : pc[u] \notin {"unlink", "rename", "open"}
    BY <1>1 DEF ControlInv, LockedInside, Critical
  <1>4. isOpen[p]
    BY <1>2, <1>3 DEF RollsOnlyFull, RollsFull
  <1>5. size'[0] > MaxFileSize
    BY <1>1, <1>2, <1>4 DEF MustRoll, Exceeds, WriterKnowsFile
  <1>6. Cardinality(Movers(0)') <= Cardinality(Processes) - 0
    <2>1. Movers(0)' \subseteq Processes
      BY DEF Movers
    <2> QED  BY <2>1, FS_Subset, FS_CardinalityType
  <1> QED  BY <1>5, <1>6 DEF Safe

\* A step that keeps the thread's place keeps those who can move a file.
LEMMA PlaceKeepsMovers ==
  ASSUME NEW p \in Processes, NEW t \in p, NEW f \in Files,
         \A u \in Threads : u # t => pc'[u] = pc[u] /\ number'[u] = number[u],
         \/ CanMove(p, f)
         \/ pc'[t] \notin {"unlink", "rename"}
         \/ pc'[t] = "rename" /\ number'[t] < f /\ number'[t] \in Int /\ f \in Int
  PROVE  Movers(f)' \subseteq Movers(f)
  <1> SUFFICES ASSUME NEW q \in Processes, CanMove(q, f)' PROVE CanMove(q, f)
    BY DEF Movers
  <1>1. PICK u \in q : pc'[u] = "unlink" \/ (pc'[u] = "rename" /\ number'[u] >= f)
    BY DEF CanMove
  <1>2. u \in Threads
    BY FileZero
  <1>3. CASE u # t
    BY <1>1, <1>2, <1>3 DEF CanMove
  <1>4. CASE u = t
    BY <1>1, <1>4, OneProcess
  <1> QED  BY <1>3, <1>4

\* What Unlink deletes is not the only full file: whoever deletes can still move it.
LEMMA UnlinkSpares ==
  ASSUME TypeOK, TypeOK', IsFiniteSet(Processes), Cardinality(Processes) < MaxFiles,
         NEW p \in Processes, NEW t \in p, Unlink(p, t), NEW f \in Files, Safe(f)
  PROVE  Safe(f)'
  <1> DEFINE last == MaxFiles - 1
  <1>0. /\ last \in Files /\ f \in Int /\ MaxFiles \in Int /\ t \in Threads
        /\ Cardinality(Processes) \in Nat /\ IsFiniteSet(Movers(f))
        /\ Cardinality(Movers(f)) \in Nat
    BY FileZero, LogAssumption, AllMovers DEF Files
  <1>1. pc[t] = "unlink" /\ unlink(last)
    BY DEF Unlink
  <1>2. CanMove(p, f)
    BY <1>1 DEF CanMove
  <1>3. f # last
    <2>1. p \in Movers(f)
      BY <1>2 DEF Movers
    <2>2. Cardinality(Movers(f)) # 0
      BY <1>0, <2>1, FS_EmptySet
    <2> QED  BY <1>0, <2>2 DEF Safe
  <1>4. size'[f] = size[f]
    BY <1>0, <1>1, <1>3 DEF unlink, TypeOK
  <1>5. \A u \in Threads : u # t => pc'[u] = pc[u] /\ number'[u] = number[u]
    BY <1>0 DEF Unlink, RenameNext, Goto, TypeOK
  <1>6. Movers(f)' \subseteq Movers(f)
    BY <1>2, <1>5, PlaceKeepsMovers
  <1>7. size'[f] >= size[f]
    BY <1>4 DEF TypeOK, Absent
  <1> QED  BY <1>6, <1>7, SafeStays

\* A process that has renamed a full file can not move it on.
LEMMA RenameUsesUpMover ==
  ASSUME TypeOK, TypeOK', RenameInRange, ControlInv, IsFiniteSet(Processes),
         NEW p \in Processes, NEW t \in p, Rename(p, t),
         number[t] \in Files, number[t] + 1 \in Files, Safe(number[t]),
         size'[number[t] + 1] = size[number[t]]
  PROVE  \E f \in Files : Safe(f)'
  <1>0. PICK f \in Files : f = number[t]
    OBVIOUS
  <1>g. PICK g \in Files : g = f + 1
    BY <1>0
  <1>1. /\ f \in Int /\ g \in Int /\ t \in Threads /\ pc[t] = "rename"
        /\ Cardinality(Processes) \in Nat /\ IsFiniteSet(Movers(f))
        /\ Cardinality(Movers(f)) \in Nat
    BY FileZero, AllMovers DEF Files, Rename
  <1>2. /\ number'[t] = f - 1 /\ pc'[t] \in {"rename", "open"}
        /\ \A u \in Threads : u # t => pc'[u] = pc[u] /\ number'[u] = number[u]
    BY <1>0, <1>1 DEF Rename, RenameNext, Goto, TypeOK
  <1>3. p \in Movers(f)
    BY <1>0, <1>1 DEF Movers, CanMove
  <1>4. Movers(g)' \subseteq Movers(f) \ {p}
    <2> SUFFICES ASSUME NEW q \in Processes, CanMove(q, g)' PROVE q # p /\ CanMove(q, f)
      BY DEF Movers
    <2>1. PICK u \in q : pc'[u] = "unlink" \/ (pc'[u] = "rename" /\ number'[u] >= g)
      BY DEF CanMove
    <2>2. u # t
      BY <1>1, <1>2, <1>g, <2>1
    <2>3. u \in Threads /\ number[u] \in Int
      BY FileZero, LogAssumption DEF TypeOK
    <2>4. pc[u] = "unlink" \/ (pc[u] = "rename" /\ number[u] >= g)
      BY <1>2, <2>1, <2>2, <2>3
    <2>5. q # p
      BY <1>1, <2>2, <2>4 DEF ControlInv, LockedInside, Critical
    <2>6. CanMove(q, f)
      BY <1>1, <1>g, <2>3, <2>4 DEF CanMove
    <2> QED  BY <2>5, <2>6
  <1>5. /\ IsFiniteSet(Movers(f) \ {p})
        /\ Cardinality(Movers(f) \ {p}) = Cardinality(Movers(f)) - 1
    BY <1>1, <1>3, FS_RemoveElement
  <1>6. /\ Cardinality(Movers(g)') <= Cardinality(Movers(f) \ {p})
        /\ Cardinality(Movers(g)') \in Nat
    BY <1>4, <1>5, FS_Subset, FS_CardinalityType
  <1>7. Cardinality(Movers(g)') <= Cardinality(Processes) - g
    BY <1>0, <1>g, <1>1, <1>5, <1>6 DEF Safe
  <1>8. size'[g] > MaxFileSize
    BY <1>0, <1>g DEF Safe
  <1> QED  BY <1>7, <1>8 DEF Safe

\* A rename moves records and loses none.
LEMMA RenameDeletesNothing ==
  ASSUME TypeOK, AbsentIsEmpty, NEW f \in Files, f + 1 \in Files, rename(f, f + 1),
         written' = written, Deleted'
  PROVE  Deleted
  <1>1. CASE UNCHANGED records
    BY <1>1 DEF Deleted
  <1>2. CASE /\ ~Exists(f + 1)
             /\ records' = [records EXCEPT ![f] = {}, ![f + 1] = records[f]]
    <2>1. f # f + 1
      BY DEF Files
    <2>2. /\ records'[f + 1] = records[f] /\ records[f + 1] = {}
          /\ \A g \in Files : g # f /\ g # f + 1 => records'[g] = records[g]
      BY <1>2, <2>1 DEF TypeOK, AbsentIsEmpty, Exists
    <2>3. \A g \in Files : 1 \in records[g] => \E h \in Files : 1 \in records'[h]
      BY <2>2
    <2> QED  BY <2>3 DEF Deleted
  <1> QED  BY <1>1, <1>2 DEF rename

\* After a rename some full file is safe, if one was: the one moved, or the same.
LEMMA RenameKeepsSafe ==
  ASSUME TypeOK, TypeOK', RenameInRange, AbsentIsEmpty, ControlInv, IsFiniteSet(Processes),
         NEW p \in Processes, NEW t \in p, Rename(p, t), KeepsSafe
  PROVE  KeepsSafe'
  <1> DEFINE n == number[t]
  <1>0. /\ n \in Files /\ n + 1 \in Files /\ t \in Threads /\ n \in Int
        /\ pc[t] = "rename" /\ rename(n, n + 1)
    BY FileZero, LogAssumption DEF Rename, RenameInRange, TypeOK, Files
  <1>1. /\ number'[t] = n - 1 /\ pc'[t] \in {"rename", "open"}
        /\ \A u \in Threads : u # t => pc'[u] = pc[u] /\ number'[u] = number[u]
    BY <1>0 DEF Rename, RenameNext, Goto, TypeOK
  <1>2. Deleted' => Deleted
    BY <1>0, RenameDeletesNothing DEF Rename
  <1>3. Unlinking' => Unlinking
    <2> SUFFICES ASSUME NEW q \in Processes, NEW u \in q, pc'[u] = "unlink" PROVE pc[u] = "unlink"
      BY DEF Unlinking
    <2>1. u \in Threads /\ u # t
      BY <1>1, FileZero
    <2> QED  BY <1>1, <2>1
  <1> SUFFICES ASSUME Deleted \/ Unlinking PROVE \E f \in Files : Safe(f)'
    BY <1>2, <1>3 DEF KeepsSafe
  <1>4. PICK f \in Files : Safe(f)
    BY DEF KeepsSafe
  <1>5. f \in Int /\ size[f] > MaxFileSize /\ MaxFileSize \in Nat
    BY <1>4, LogAssumption DEF Safe, Files
  <1>6. Movers(f)' \subseteq Movers(f)
    <2>1. CASE n >= f
      <3>1. CanMove(p, f)
        BY <1>0, <2>1 DEF CanMove
      <3> QED  BY <1>1, <3>1, PlaceKeepsMovers
    <2>2. CASE ~(n >= f)
      <3>1. number'[t] < f /\ number'[t] \in Int
        BY <1>0, <1>1, <1>5, <2>2
      <3> QED  BY <1>1, <1>5, <3>1, PlaceKeepsMovers
    <2> QED  BY <2>1, <2>2
  <1>7. CASE size'[f] = size[f]
    <2>1. size'[f] >= size[f]
      BY <1>7 DEF TypeOK, Absent
    <2> QED  BY <1>4, <1>6, <2>1, SafeStays
  <1>8. CASE /\ ~Exists(n + 1)
             /\ size' = [size EXCEPT ![n] = Absent, ![n + 1] = size[n]]
    <2>1. n # n + 1
      BY <1>0
    <2>2. f # n + 1
      BY <1>5, <1>8 DEF Exists, Absent
    <2>3. CASE f = n
      <3>1. size'[n + 1] = size[n]
        BY <1>0, <1>8, <2>1 DEF TypeOK
      <3> QED  BY <1>0, <1>4, <2>3, <3>1, RenameUsesUpMover
    <2>4. CASE f # n
      <3>1. size'[f] = size[f]
        BY <1>0, <1>8, <2>2, <2>4 DEF TypeOK
      <3> QED  BY <3>1, <1>7
    <2> QED  BY <2>3, <2>4
  <1> QED  BY <1>0, <1>7, <1>8 DEF rename

\* A thread that opens or writes file 0, or does neither, deletes nothing, makes no
\* file shorter, and goes to no place in the roll.
LEMMA RestKeepsSafe ==
  ASSUME TypeOK, TypeOK', IsFiniteSet(Processes), NEW p \in Processes, NEW t \in p,
         \A u \in Threads : u # t => pc'[u] = pc[u],
         pc'[t] \notin {"unlink", "rename"}, UNCHANGED number,
         \A f \in Files : size'[f] >= size[f], Deleted' => Deleted, KeepsSafe
  PROVE  KeepsSafe'
  <1>1. Unlinking' => Unlinking
    <2> SUFFICES ASSUME NEW q \in Processes, NEW u \in q, pc'[u] = "unlink" PROVE pc[u] = "unlink"
      BY DEF Unlinking
    <2>1. u \in Threads /\ u # t
      BY FileZero
    <2> QED  BY <2>1
  <1> SUFFICES ASSUME Deleted \/ Unlinking PROVE \E f \in Files : Safe(f)'
    BY <1>1 DEF KeepsSafe
  <1>2. PICK f \in Files : Safe(f)
    BY DEF KeepsSafe
  <1>3. Movers(f)' \subseteq Movers(f)
    BY PlaceKeepsMovers
  <1> QED  BY <1>2, <1>3, SafeStays

\* The first record is in a file as soon as there is one.
LEMMA WriteDeletesNothing ==
  ASSUME TypeOK, NEW p \in Processes, NEW t \in p, FileWrite(p, t), Deleted'
  PROVE  Deleted
  <1>1. /\ 0 \in Files /\ written \in Nat
        /\ records'[0] = records[0] \cup {written + 1}
        /\ \A f \in Files : f # 0 => records'[f] = records[f]
    BY FileZero DEF FileWrite, TypeOK
  <1>2. written # 0
    BY <1>1 DEF Deleted
  <1>3. \A f \in Files : records[f] \subseteq records'[f]
    BY <1>1
  <1> QED  BY <1>1, <1>2, <1>3 DEF Deleted

\* Opening a file leaves its length, but for the mark in an empty one.
LEMMA OpenKeepsSizes ==
  ASSUME TypeOK, NEW p \in Processes, NEW t \in p, openLogFile(p, t)
  PROVE  \A f \in Files : size'[f] >= size[f]
  <1>0. 0 \in Files /\ \A f \in Files : size[f] \in Int /\ size[f] >= -1
    BY FileZero DEF TypeOK, Absent
  <1>1. CASE UNCHANGED size
    BY <1>0, <1>1
  <1>2. CASE openGranted(p)
    <2> DEFINE found == IF Exists(0) THEN size[0] ELSE 0
    <2>1. found \in Nat /\ found >= size[0]
      BY <1>0 DEF Exists, Absent, TypeOK
    <2>2. PICK marked \in BOOLEAN :
            size' = [size EXCEPT ![0] = IF found = 0 /\ marked THEN 1 ELSE found]
      BY <1>2 DEF openGranted
    <2>3. PICK n \in Nat : n = (IF found = 0 /\ marked THEN 1 ELSE found)
      BY <2>1
    <2>4. n >= size[0] /\ size' = [size EXCEPT ![0] = n]
      BY <1>0, <2>1, <2>2, <2>3
    <2> QED  BY <1>0, <2>4 DEF TypeOK
  <1> QED  BY <1>1, <1>2 DEF openLogFile, openRefused

\* Every step keeps a full file where the processes cannot lose it.
LEMMA NextKeepsSafe ==
  ASSUME LogInv, KeepsSafe, [Next]_vars,
         IsFiniteSet(Processes), Cardinality(Processes) < MaxFiles
  PROVE  KeepsSafe'
  <1>0. /\ TypeOK /\ TypeOK' /\ RenameInRange /\ AbsentIsEmpty /\ WriterKnowsFile /\ ControlInv
    BY NextDiskInv DEF LogInv, DiskInv, ControlInv
  <1>b. RollsOnlyFull
    BY DEF LogInv
  <1>a. \A f \in Files : size[f] >= size[f]
    BY <1>0 DEF TypeOK, Absent
  <1>1. ASSUME NEW p \in Processes, NEW t \in p, Close(p, t) PROVE KeepsSafe'
    BY <1>0, <1>b, <1>1, FileZero, CloseFindsFull DEF KeepsSafe
  <1>2. ASSUME NEW p \in Processes, NEW t \in p, Unlink(p, t) PROVE KeepsSafe'
    <2>1. Unlinking
      BY <1>2 DEF Unlink, Unlinking
    <2>2. PICK f \in Files : Safe(f)
      BY <2>1 DEF KeepsSafe
    <2> QED  BY <1>0, <1>2, <2>2, UnlinkSpares DEF KeepsSafe
  <1>3. ASSUME NEW p \in Processes, NEW t \in p, Rename(p, t) PROVE KeepsSafe'
    BY <1>0, <1>3, RenameKeepsSafe
  <1>4. ASSUME NEW p \in Processes, NEW t \in p, openLogFile(p, t) PROVE KeepsSafe'
    <2>1. /\ pc'[t] = "write" /\ UNCHANGED <<number, records, written>>
          /\ \A u \in Threads : u # t => pc'[u] = pc[u]
      BY <1>0, <1>4, FileZero DEF openLogFile, openRefused, openGranted, Goto, TypeOK
    <2>2. Deleted' => Deleted
      BY <2>1 DEF Deleted
    <2> QED  BY <1>0, <1>4, <2>1, <2>2, OpenKeepsSizes, RestKeepsSafe
  <1>5. ASSUME NEW p \in Processes, NEW t \in p, FileWrite(p, t) PROVE KeepsSafe'
    <2>1. /\ pc'[t] = "idle" /\ UNCHANGED number
          /\ \A u \in Threads : u # t => pc'[u] = pc[u]
      BY <1>0, <1>5, FileZero DEF FileWrite, Returns, NextAppender, Goto, TypeOK
    <2>2. \A f \in Files : size'[f] >= size[f]
      BY <1>0, <1>5, FileZero DEF FileWrite, TypeOK, Absent
    <2> QED  BY <1>0, <1>5, <2>1, <2>2, WriteDeletesNothing, RestKeepsSafe
  <1>6. ASSUME NEW p \in Processes, NEW t \in p,
               \/ Start(p, t) \/ LogStatement(p, t) \/ ConsoleWrite(p, t) \/ AppenderLock(p, t)
               \/ FileWriteFails(p, t)
        PROVE  KeepsSafe'
    <2>1. /\ UNCHANGED <<number, size, records, written>>
          /\ pc'[t] \notin {"unlink", "rename"}
          /\ \A u \in Threads : u # t => pc'[u] = pc[u]
      BY <1>0, <1>6, FileZero
      DEF Start, LogStatement, ConsoleWrite, AppenderLock, FileWriteFails, Returns,
          NextAppender, Goto, TypeOK, disk
    <2>2. Deleted' => Deleted
      BY <2>1 DEF Deleted
    <2> QED  BY <1>0, <1>a, <2>1, <2>2, RestKeepsSafe
  <1>7. ASSUME NEW p \in Processes, Crash(p) PROVE KeepsSafe'
    <2>1. UNCHANGED <<size, records, written>>
      BY <1>7 DEF Crash, disk
    <2>2. \A u \in Threads : pc'[u] # "idle" => pc'[u] = pc[u] /\ number'[u] = number[u]
      BY <1>7 DEF Crash
    <2>3. (Deleted' => Deleted) /\ (Unlinking' => Unlinking)
      BY <2>1, <2>2, FileZero DEF Deleted, Unlinking
    <2>4. \A f \in Files : Movers(f)' \subseteq Movers(f)
      BY <2>2, FileZero DEF Movers, CanMove
    <2> SUFFICES ASSUME NEW f \in Files, Safe(f) PROVE Safe(f)'
      BY <2>3 DEF KeepsSafe
    <2> QED  BY <1>0, <1>a, <2>1, <2>4, SafeStays
  <1>8. CASE (\E f \in Viewable : View(f)) \/ UNCHANGED vars
    <2>1. UNCHANGED <<pc, number, size, records, written>>
      BY <1>8 DEF View, vars, disk
    <2>2. (Deleted' <=> Deleted) /\ (Unlinking' <=> Unlinking)
      BY <2>1 DEF Deleted, Unlinking
    <2>3. \A f \in Files : Movers(f)' = Movers(f)
      BY <2>1 DEF Movers, CanMove
    <2>4. \A f \in Files : Safe(f) => Safe(f)'
      BY <2>1, <2>3 DEF Safe
    <2> QED  BY <2>2, <2>4 DEF KeepsSafe
  <1> QED  BY <1>1, <1>2, <1>3, <1>4, <1>5, <1>6, <1>7, <1>8 DEF Next, ThreadStep

\* A log that several programs write and roll is never lost as a whole: as long as
\* they are fewer than the files the appender keeps, some full file outlasts every
\* interleaving of their rolls, with crashes in the middle and viewers in the way.
THEOREM FullFileIsKept ==
  ASSUME IsFiniteSet(Processes), Cardinality(Processes) < MaxFiles
  PROVE  Spec => []KeepsOneFull
  <1>1. Init => KeepsSafe
    BY FileZero DEF Init, KeepsSafe, Deleted, Unlinking
  <1>2. LogInv /\ KeepsSafe /\ [Next]_vars => KeepsSafe'
    BY NextKeepsSafe
  <1>3. KeepsSafe => KeepsOneFull
    BY DEF KeepsSafe, KeepsOneFull, Safe, Deleted
  <1> QED  BY <1>1, <1>2, <1>3, LogInvariance, PTL DEF Spec

-----------------------------------------------------------------------------
(***************************************************************************)
(* The files are one log.  Writes append to it, unlinks take from its old  *)
(* end, everything else leaves what can be read as it is.  KeepsOneFull    *)
(* says that a full file remains; once sizes are known to count records,   *)
(* it has MaxFileSize of them, and since none between two kept ones is     *)
(* missing, the last MaxFileSize written are among those kept.             *)
(***************************************************************************)

\* Besides its records a file has one mark at most.
Counts(f) ==
  size[f] # Absent =>
    IsFiniteSet(records[f]) /\ size[f] <= Cardinality(records[f]) + 1

SizesCount == \A f \in Files : Counts(f)

\* A mark is written only to a file without records.
LEMMA OpenCounts ==
  ASSUME TypeOK, AbsentIsEmpty, SizesCount,
         NEW p \in Processes, NEW t \in p, openLogFile(p, t)
  PROVE  SizesCount'
  <1>1. records' = records
    BY DEF openLogFile, openRefused, openGranted
  <1>2. CASE UNCHANGED size
    BY <1>1, <1>2 DEF SizesCount, Counts
  <1>3. CASE openGranted(p)
    <2> DEFINE found == IF Exists(0) THEN size[0] ELSE 0
    <2>1. PICK marked \in BOOLEAN :
            size' = [size EXCEPT ![0] = IF found = 0 /\ marked THEN 1 ELSE found]
      BY <1>3 DEF openGranted
    <2>2. IsFiniteSet(records[0]) /\ Cardinality(records[0]) \in Nat
      <3>1. CASE Exists(0)
        BY <3>1, FileZero, FS_CardinalityType DEF SizesCount, Counts, Exists
      <3>2. CASE ~Exists(0)
        BY <3>2, FileZero, FS_EmptySet DEF AbsentIsEmpty, Exists
      <3> QED  BY <3>1, <3>2
    <2>3. /\ found \in Nat
          /\ found <= Cardinality(records[0]) + 1
      BY <2>2, FileZero DEF SizesCount, Counts, Exists, TypeOK
    <2>4. PICK n : n = (IF found = 0 /\ marked THEN 1 ELSE found)
      OBVIOUS
    <2>5. n <= Cardinality(records[0]) + 1
      BY <2>2, <2>3, <2>4
    <2>6. /\ size'[0] = n
          /\ \A f \in Files : f # 0 => size'[f] = size[f]
      BY <2>1, <2>4, FileZero DEF TypeOK
    <2> QED  BY <1>1, <2>2, <2>5, <2>6 DEF SizesCount, Counts
  <1> QED  BY <1>2, <1>3 DEF openLogFile, openRefused

\* A record that is written counts for one.
LEMMA WriteCounts ==
  ASSUME TypeOK, WriterKnowsFile, SizesCount,
         NEW p \in Processes, NEW t \in p, FileWrite(p, t)
  PROVE  SizesCount'
  <1>1. /\ 0 \in Files /\ size[0] \in Nat /\ size[0] # Absent
        /\ size'[0] = size[0] + 1 /\ records'[0] = records[0] \cup {written + 1}
        /\ \A f \in Files : f # 0 => size'[f] = size[f] /\ records'[f] = records[f]
    BY FileZero DEF FileWrite, WriterKnowsFile, Exists, TypeOK
  <1>2. IsFiniteSet(records[0]) /\ size[0] <= Cardinality(records[0]) + 1
    BY <1>1 DEF SizesCount, Counts
  <1>3. written + 1 \notin records[0]
    BY <1>1 DEF TypeOK
  <1>4. /\ IsFiniteSet(records'[0]) /\ Cardinality(records[0]) \in Nat
        /\ Cardinality(records'[0]) = Cardinality(records[0]) + 1
    BY <1>1, <1>2, <1>3, FS_AddElement, FS_CardinalityType
  <1>5. size'[0] <= Cardinality(records'[0]) + 1
    BY <1>1, <1>2, <1>4
  <1> QED  BY <1>1, <1>4, <1>5 DEF SizesCount, Counts

\* A file keeps its count when it is renamed.
LEMMA RenameCounts ==
  ASSUME TypeOK, SizesCount, NEW f \in Files, f + 1 \in Files, rename(f, f + 1)
  PROVE  SizesCount'
  <1>1. CASE UNCHANGED <<size, records>>
    BY <1>1 DEF SizesCount, Counts
  <1>2. CASE /\ size' = [size EXCEPT ![f] = Absent, ![f + 1] = size[f]]
             /\ records' = [records EXCEPT ![f] = {}, ![f + 1] = records[f]]
    <2>1. f # f + 1
      BY DEF Files
    <2>2. /\ size'[f] = Absent /\ size'[f + 1] = size[f] /\ records'[f + 1] = records[f]
          /\ \A g \in Files : g # f /\ g # f + 1 =>
               size'[g] = size[g] /\ records'[g] = records[g]
      BY <1>2, <2>1 DEF TypeOK
    <2> QED  BY <2>2 DEF SizesCount, Counts
  <1> QED  BY <1>1, <1>2 DEF rename

\* Every step keeps the sizes true to the records.
LEMMA NextSizesCount ==
  ASSUME LogInv, SizesCount, [Next]_vars
  PROVE  SizesCount'
  <1>0. TypeOK /\ AbsentIsEmpty /\ WriterKnowsFile /\ RenameInRange
    BY DEF LogInv, DiskInv
  <1>1. CASE OffDisk
    BY <1>1 DEF OffDisk, SizesCount, Counts
  <1>2. ASSUME NEW p \in Processes, NEW t \in p, Unlink(p, t) PROVE SizesCount'
    <2>1. unlink(MaxFiles - 1) /\ MaxFiles - 1 \in Files
      BY <1>2, FileZero DEF Unlink
    <2> QED  BY <1>0, <2>1 DEF unlink, SizesCount, Counts, TypeOK
  <1>3. ASSUME NEW p \in Processes, NEW t \in p, Rename(p, t) PROVE SizesCount'
    <2>1. number[t] \in Files /\ number[t] + 1 \in Files
      BY <1>0, <1>3, FileZero, LogAssumption DEF Rename, RenameInRange, TypeOK, Files
    <2> QED  BY <1>0, <1>3, <2>1, RenameCounts DEF Rename
  <1>4. ASSUME NEW p \in Processes, NEW t \in p, openLogFile(p, t) PROVE SizesCount'
    BY <1>0, <1>4, OpenCounts
  <1>5. ASSUME NEW p \in Processes, NEW t \in p, FileWrite(p, t) PROVE SizesCount'
    BY <1>0, <1>5, WriteCounts
  <1> QED  BY <1>1, <1>2, <1>3, <1>4, <1>5, DiskSteps

\* A set that holds 0 and, with each number, the next, holds every number: were x
\* missing, the numbers up to x that are missing would map one to one, by one less,
\* into themselves, so onto themselves, and x would be one less than another.
LEMMA NatSetInduction ==
  ASSUME NEW S, 0 \in S, \A n \in Nat : n \in S => n + 1 \in S
  PROVE  Nat \subseteq S
  <1>1. SUFFICES ASSUME NEW x \in Nat, x \notin S PROVE FALSE
    OBVIOUS
  <1> DEFINE T == {y \in 0 .. x : y \notin S}
             f == [y \in T |-> y - 1]
  <1>2. IsFiniteSet(T)
    <2>1. T \in SUBSET (0 .. x)
      OBVIOUS
    <2>2. IsFiniteSet(0 .. x)
      BY FS_Interval
    <2>3. QED BY <2>1, <2>2, FS_Subset
  <1>3. f \in [T -> T]
    <2>1. \A y \in T : y - 1 \in T
      OBVIOUS
    <2>2. QED BY <2>1
  <1>4. f \in Injection(T, T)
    <2>1. \A a, b \in T : f[a] = f[b] => a = b
      OBVIOUS
    <2>2. QED BY <1>3, <2>1, Fun_IsInj
  <1>5. f \in Surjection(T, T)
    BY <1>2, <1>4, FS_Injection
  <1>6. x \in T
    BY <1>1
  <1>7. \E y \in T : f[y] = x
    BY <1>5, <1>6 DEF Surjection
  <1>8. QED BY <1>7

\* A full file has as many records as the size it may reach.
LEMMA FullHasRecords ==
  ASSUME NEW n \in Nat, NEW S \in SUBSET (1 .. n), NEW R \in SUBSET S,
         NEW s \in Nat, s > MaxFileSize, s <= Cardinality(R) + 1
  PROVE  Cardinality(S) >= MaxFileSize
  <1>1. IsFiniteSet(1 .. n)
    BY FS_Interval
  <1>2. IsFiniteSet(S)
    BY <1>1, FS_Subset
  <1>3. /\ Cardinality(R) <= Cardinality(S)
        /\ Cardinality(R) \in Nat /\ Cardinality(S) \in Nat
    BY <1>2, FS_Subset, FS_CardinalityType
  <1> QED  BY <1>3, LogAssumption

\* Of the numbers up to n, a set without gaps up to n and with so many members has
\* as many of the last.
LEMMA LastAreThere ==
  ASSUME NEW n \in Nat, NEW S \in SUBSET (1 .. n), NEW l \in Nat, Cardinality(S) >= l,
         \A k \in S : k + 1 \in 1 .. n => k + 1 \in S,
         NEW m \in 1 .. n, n - m < l
  PROVE  m \in S
  <1> SUFFICES ASSUME m \notin S PROVE FALSE
    OBVIOUS
  <1>1. ASSUME NEW k \in S, k <= m PROVE FALSE
    <2> DEFINE T == {i \in Nat : k + i <= m => k + i \in S}
    <2>1. 0 \in T
      OBVIOUS
    <2>2. ASSUME NEW i \in Nat, i \in T PROVE i + 1 \in T
      <3>1. k + (i + 1) <= m => k + i \in S /\ k + (i + 1) \in 1 .. n
        BY <2>2
      <3>2. (k + i) + 1 = k + (i + 1)
        OBVIOUS
      <3> QED  BY <3>1, <3>2
    <2> HIDE DEF T
    <2>3. Nat \subseteq T
      BY <2>1, <2>2, NatSetInduction
    <2>4. m - k \in Nat
      BY <1>1
    <2>5. m - k \in T
      BY <2>3, <2>4
    <2> QED  BY <2>4, <2>5 DEF T
  <1>2. S \subseteq (m + 1) .. n
    BY <1>1
  <1>3. IsFiniteSet((m + 1) .. n) /\ Cardinality((m + 1) .. n) = n - m
    <2>1. PICK b \in Int : b = m + 1
      OBVIOUS
    <2>2. /\ IsFiniteSet(b .. n)
          /\ Cardinality(b .. n) = IF b > n THEN 0 ELSE n - b + 1
      BY FS_Interval
    <2>3. (IF b > n THEN 0 ELSE n - b + 1) = n - m
      BY <2>1
    <2> QED  BY <2>1, <2>2, <2>3
  <1>4. Cardinality(S) <= n - m
    BY <1>2, <1>3, FS_Subset
  <1>5. Cardinality(S) \in Nat
    BY <1>2, <1>3, FS_Subset, FS_CardinalityType
  <1> QED  BY <1>4, <1>5

\* A rename changes nothing a reader can find.
LEMMA RenameKeepsRecords ==
  ASSUME TypeOK, AbsentIsEmpty, NEW f \in Files, f + 1 \in Files, rename(f, f + 1)
  PROVE  Readable' = Readable
  <1>1. CASE UNCHANGED records
    BY <1>1 DEF Readable
  <1>2. CASE /\ ~Exists(f + 1)
             /\ records' = [records EXCEPT ![f] = {}, ![f + 1] = records[f]]
    <2>1. f # f + 1
      BY DEF Files
    <2>2. /\ records'[f] = {} /\ records'[f + 1] = records[f] /\ records[f + 1] = {}
          /\ \A g \in Files : g # f /\ g # f + 1 => records'[g] = records[g]
      BY <1>2, <2>1 DEF TypeOK, AbsentIsEmpty, Exists
    <2>3. \A n : (\E g \in Files : n \in records'[g]) <=> (\E g \in Files : n \in records[g])
      BY <2>2
    <2> QED  BY <2>3 DEF Readable
  <1> QED  BY <1>1, <1>2 DEF rename

\* A write puts its record behind the others.
LEMMA WriteAccepts ==
  ASSUME TypeOK, NEW p \in Processes, NEW t \in p, FileWrite(p, t)
  PROVE  Log!Accept
  <1>1. /\ 0 \in Files /\ written' = written + 1
        /\ records'[0] = records[0] \cup {written + 1}
        /\ \A f \in Files : f # 0 => records'[f] = records[f]
    BY FileZero DEF FileWrite, TypeOK
  <1>2. \A n : (\E f \in Files : n \in records'[f])
               <=> (\E f \in Files : n \in records[f]) \/ n = written + 1
    BY <1>1
  <1>3. Readable' = Readable \cup {written + 1}
    BY <1>2 DEF Readable
  <1> QED  BY <1>1, <1>3 DEF Log!Accept

\* What is deleted are the oldest records, and enough of them remain.
LEMMA UnlinkGivesUp ==
  ASSUME TypeOK, TypeOK', FilesInOrder, FilesInOrder', SizesCount', KeepsOneFull',
         unlink(MaxFiles - 1), written' = written
  PROVE  Log!GiveUp \/ UNCHANGED Log!vars
  <1> DEFINE last == MaxFiles - 1
  <1>0. last \in Files /\ \A f \in Files : f <= last /\ f \in Int
    BY FileZero, LogAssumption DEF Files
  <1>1. CASE UNCHANGED records
    BY <1>1 DEF Log!vars, Readable
  <1>2. CASE records' = [records EXCEPT ![last] = {}] /\ Readable' # Readable
    <2>1. records'[last] = {} /\ \A f \in Files : f # last => records'[f] = records[f]
      BY <1>0, <1>2 DEF TypeOK
    <2>2. Readable' \subseteq Readable
      BY <2>1 DEF Readable
    <2>3. \A old \in Readable \ Readable' : old \in records[last]
      BY <2>1 DEF Readable
    <2>4. ASSUME NEW old \in Readable \ Readable', NEW new \in Readable' PROVE old < new
      <3>1. PICK f \in Files : new \in records'[f]
        BY DEF Readable
      <3>2. f # last /\ new \in records[f]
        BY <2>1, <3>1
      <3>3. f < last
        BY <1>0, <3>2
      <3> QED  BY <1>0, <2>3, <3>2, <3>3 DEF FilesInOrder
    <2>5. written > 0 /\ 1 \notin Readable'
      <3>1. PICK old \in Readable : old \notin Readable'
        BY <1>2, <2>2
      <3>2. old \in 1 .. written /\ written \in Nat
        BY <3>1 DEF Readable, TypeOK
      <3>3. ~(old < 1) /\ written > 0
        BY <3>2
      <3> QED  BY <2>4, <3>1, <3>3
    <2>6. PICK f \in Files : size'[f] > MaxFileSize
      BY <2>5 DEF KeepsOneFull, Readable
    <2>7. size'[f] \in Nat /\ size'[f] <= Cardinality(records'[f]) + 1
      BY <2>6, LogAssumption DEF TypeOK, Absent, SizesCount, Counts
    <2>8. written \in Nat /\ Readable' \subseteq 1 .. written /\ records'[f] \subseteq Readable'
      BY DEF TypeOK, Readable
    <2>9. Cardinality(Readable') >= MaxFileSize
      BY <2>6, <2>7, <2>8, FullHasRecords
    <2>10. ASSUME NEW n \in 1 .. written, written - n < MaxFileSize PROVE n \in Readable'
      <3>1. \A k \in Readable' : k + 1 \in 1 .. written => k + 1 \in Readable'
        BY DEF FilesInOrder, Readable
      <3>2. MaxFileSize \in Nat
        BY LogAssumption
      <3> QED  BY <2>8, <2>9, <2>10, <3>1, <3>2, LastAreThere
    <2> QED  BY <1>2, <2>2, <2>4, <2>10 DEF Log!GiveUp
  <1>3. CASE Readable' = Readable
    BY <1>3 DEF Log!vars
  <1> QED  BY <1>1, <1>2, <1>3 DEF unlink

\* Every step of the processes is a step of the log they share, or none.
LEMMA NextIsLogStep ==
  ASSUME LogInv, LogInv', SizesCount', KeepsOneFull', [Next]_vars
  PROVE  [Log!Next]_(Log!vars)
  <1>0. /\ TypeOK /\ TypeOK' /\ AbsentIsEmpty /\ RenameInRange
        /\ FilesInOrder /\ FilesInOrder'
    BY DEF LogInv, DiskInv
  <1>1. CASE OffDisk
    BY <1>1 DEF OffDisk, Log!vars, Readable
  <1>2. ASSUME NEW p \in Processes, NEW t \in p, Unlink(p, t) PROVE [Log!Next]_(Log!vars)
    <2>1. unlink(MaxFiles - 1) /\ written' = written
      BY <1>2 DEF Unlink
    <2> QED  BY <1>0, <2>1, UnlinkGivesUp DEF Log!Next
  <1>3. ASSUME NEW p \in Processes, NEW t \in p, Rename(p, t) PROVE UNCHANGED Log!vars
    <2>1. number[t] \in Files /\ number[t] + 1 \in Files
      BY <1>0, <1>3, FileZero, LogAssumption DEF Rename, RenameInRange, TypeOK, Files
    <2>2. rename(number[t], number[t] + 1) /\ written' = written
      BY <1>3 DEF Rename
    <2> QED  BY <1>0, <2>1, <2>2, RenameKeepsRecords DEF Log!vars
  <1>4. ASSUME NEW p \in Processes, NEW t \in p, openLogFile(p, t) PROVE UNCHANGED Log!vars
    BY <1>4 DEF openLogFile, openRefused, openGranted, Log!vars, Readable
  <1>5. ASSUME NEW p \in Processes, NEW t \in p, FileWrite(p, t) PROVE Log!Next
    BY <1>0, <1>5, WriteAccepts DEF Log!Next
  <1> QED  BY <1>1, <1>2, <1>3, <1>4, <1>5, DiskSteps

\* As long as fewer processes write the log than the appender keeps files, the files
\* they roll and lose and open again behave as one log: records are accepted behind
\* each other and given up from the oldest on, and the last MaxFileSize always remain.
THEOREM FilesImplementLog ==
  ASSUME IsFiniteSet(Processes), Cardinality(Processes) < MaxFiles
  PROVE  Spec => ImplementsLog
  <1>1. Init => Log!Init /\ SizesCount
    BY DEF Init, Log!Init, Readable, SizesCount, Counts, Absent
  <1>2. LogInv /\ SizesCount /\ [Next]_vars => SizesCount'
    BY NextSizesCount
  <1>3. LogInv /\ LogInv' /\ SizesCount' /\ KeepsOneFull' /\ [Next]_vars
          => [Log!Next]_(Log!vars)
    BY NextIsLogStep
  <1>4. Spec => []KeepsOneFull
    BY FullFileIsKept
  <1> QED  BY <1>1, <1>2, <1>3, <1>4, LogInvariance, PTL DEF Spec, ImplementsLog, Log!Spec
===============================================================================
