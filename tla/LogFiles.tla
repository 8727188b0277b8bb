------------------------------ MODULE LogFiles ------------------------------
(* The bytes of the log files, where RollingLog has their records. *)
EXTENDS RollingLog, LogText

CONSTANTS Characters,  \* what the texts are made of
          Logged       \* the statements whose records reach a file, each whole, in that order

\* A text, which may be null, holds no mark and no line feed: nothing else is asked
\* of it.
Statements ==
  [severity : Severity, tid : Characters \ {"lead", "trail"}, text : Seq(Characters)]

ASSUME LogFilesAssumption ==
  /\ MaxWrites \in Nat
  /\ {"BOM", "\n"} \cap Characters = {}
  /\ DOMAIN Logged = 1 .. MaxWrites
  /\ \A n \in 1 .. MaxWrites : Logged[n] \in Statements

RecordOf(n) ==
  Record(Logged[n].severity, Logged[n].tid, streamed(Logged[n].text))

\* The size of a file counts its mark too, if it has one.
Bytes(f) ==
  LET mark == IF size[f] > Cardinality(records[f]) THEN header ELSE <<>>
  IN mark \o FlattenSeq([n \in 1 .. written |->
                IF n \in records[f] THEN convert(format(RecordOf(n))) ELSE <<>>])

\* Every log file, current or rolled, marked or not, gives back the records
\* in it, one line each, if _write cut none of them short, and no two of the
\* files kept have one name, whatever name is configured (RollingFileAppender
\* with TxtFormatter and its converters); CsvFormatter, which neither program
\* uses, would do as well.
FilesReadBack ==
  /\ RecordsReadBack /\ CsvReadsBack /\ SeverityReadsBack /\ NamesDiffer
  /\ \A f \in Files :
       Lines(Shown(Bytes(f))) = {Line(RecordOf(n)) : n \in records[f]}
=============================================================================
