------------------------------- MODULE LogText -------------------------------
(***************************************************************************)
(* What the log makes of a statement on its way to a file: the Record      *)
(* collects the streamed items, TxtFormatter or CsvFormatter makes a line  *)
(* of it, the converters make bytes, and the file's name is built from the *)
(* configured one.  Text is a sequence of characters; the characters that  *)
(* are treated alike are one here, and so is a field of fixed form.        *)
(***************************************************************************)
EXTENDS Integers, Sequences, SequencesExt, FiniteSetsExt

CONSTANT kMaxMessageSize  \* of CsvFormatter

ASSUME LogTextAssumption == kMaxMessageSize \in Nat

(* File names *)

\* The place of the last dot, 0 if there is none: of the whole path.
findExtensionDot(fileName) ==
  LET dots == {k \in DOMAIN fileName : fileName[k] = "."}
  IN IF dots = {} THEN 0 ELSE Max(dots)

splitFileName(fileName) ==
  LET dot == findExtensionDot(fileName)
  IN IF dot = 0
     THEN [noExt |-> fileName, ext |-> <<>>]
     ELSE [noExt |-> SubSeq(fileName, 1, dot - 1),
           ext |-> SubSeq(fileName, dot + 1, Len(fileName))]

\* How a stream writes a number that is not negative.
Digit == <<"0", "1", "2", "3", "4", "5", "6", "7", "8", "9">>
decimal[n \in Nat] ==
  (IF n < 10 THEN <<>> ELSE decimal[n \div 10]) \o <<Digit[(n % 10) + 1]>>

buildFileName(parts, fileNumber) ==
  parts.noExt
    \o (IF fileNumber > 0 THEN <<".">> \o decimal[fileNumber] ELSE <<>>)
    \o (IF parts.ext # <<>> THEN <<".">> \o parts.ext ELSE <<>>)

\* setFileName, with a name of narrow characters: nothing but ASCII is used.
setFileName(fileName) == splitFileName(fileName)

-----------------------------------------------------------------------------
(* Records *)

Severity == 0 .. 6  \* none, fatal, error, warning, info, debug, verbose

severityToString(severity) ==
  LET names == <<"FATAL", "ERROR", "WARN", "INFO", "DEBUG", "VERB">>
  IN IF severity \in DOMAIN names THEN names[severity] ELSE "NONE"

\* The first letter decides, in either case.
severityFromString(first) ==
  CASE first \in {"F", "f"} -> 1 [] first \in {"E", "e"} -> 2
    [] first \in {"W", "w"} -> 3 [] first \in {"I", "i"} -> 4
    [] first \in {"D", "d"} -> 5 [] first \in {"V", "v"} -> 6
    [] OTHER -> 0

\* A character outside ASCII takes several bytes in a narrow string.
Wide == "wide"
toWide(str) ==
  FlattenSeq([k \in DOMAIN str |->
                CASE str[k] = "lead" -> <<Wide>> [] str[k] = "trail" -> <<>>
                  [] OTHER -> <<str[k]>>])

\* A string streamed into a Record becomes wide; a null pointer is printed.
Null == <<"null">>
streamed(data) == IF data = Null THEN <<"(null)">> ELSE toWide(data)

\* A container is streamed as the list of its elements.
streamedAll(data) ==
  <<"[">> \o FlattenSeq([k \in DOMAIN data |->
                streamed(data[k])
                  \o IF k = Len(data) THEN <<>> ELSE <<",", " ">>]) \o <<"]">>

\* vasprintf leaves the null pointer behind if it fails, and printf streams
\* what vasprintf left.
vasprintf(text, fails) == IF fails THEN Null ELSE text
printf(text, fails) == streamed(vasprintf(text, fails))

Record(severity, tid, message) ==
  [severity |-> severity, tid |-> tid, message |-> message]

\* The fields before the message have a fixed form and no line ending.
format(record) ==
  <<severityToString(record.severity), record.tid>> \o record.message
    \o <<"\n">>

\* CsvFormatter, which an appender gets for a .csv file; neither program names one
\* (GlobalCore.h:25). A message is shortened if it is too long. Each turn of its loop
\* writes what getline finds from place k on, up to a quote, between quotes, until
\* there is none.
Quote == "\""
shortened(message) ==
  IF Len(message) > kMaxMessageSize
  THEN SubSeq(message, 1, kMaxMessageSize) \o <<".", ".", ".">>
  ELSE message
csvFormat(record) ==
  LET message == shortened(record.message)
      getline(k) == Min({e \in k .. Len(message) : message[e] = Quote}
                          \cup {Len(message) + 1})
      tokens[k \in 1 .. Len(message) + 1] ==
        <<Quote>> \o SubSeq(message, k, getline(k) - 1) \o <<Quote>>
          \o IF getline(k) > Len(message) THEN <<>> ELSE tokens[getline(k) + 1]
  IN <<severityToString(record.severity), ";", record.tid, ";">>
       \o tokens[1] \o <<"\n">>

\* The extension decides which formatter a file gets that is named to init.
isCsv(fileName) ==
  findExtensionDot(fileName) # 0 /\ splitFileName(fileName).ext = <<"csv">>
formatFor(fileName, record) ==
  IF isCsv(fileName) THEN csvFormat(record) ELSE format(record)

-----------------------------------------------------------------------------
(* Bytes *)

\* Mutant: the carriage return comes after the line feed.
fixLineEndingsAfter(str) ==
  FlattenSeq([k \in DOMAIN str |->
                IF str[k] = "\n" THEN <<"\n", "\r">> ELSE <<str[k]>>])

fixLineEndings(str) ==
  FlattenSeq([k \in DOMAIN str |->
                IF str[k] = "\n" THEN <<"\r", "\n">> ELSE <<str[k]>>])

toNarrow(wstr) ==
  FlattenSeq([k \in DOMAIN wstr |->
                IF wstr[k] = Wide THEN <<"lead", "trail">> ELSE <<wstr[k]>>])

\* NativeEOLConverter<UTF8Converter>
convert(str) == toNarrow(fixLineEndings(str))

\* UTF8Converter's mark and the header of TxtFormatter, which is empty.
header == <<"BOM">> \o convert(<<>>)

-----------------------------------------------------------------------------
(* The reader's side, the reference of the property below. *)

\* Text as a viewer shows it: no mark, "\r\n" a line end, characters whole.
Kept(bytes, k) ==
  /\ bytes[k] \notin {"BOM", "trail"}
  /\ bytes[k] = "\r" => k = Len(bytes) \/ bytes[k + 1] # "\n"

Shown(bytes) ==
  FlattenSeq([k \in DOMAIN bytes |->
    IF ~Kept(bytes, k) THEN <<>>
    ELSE IF bytes[k] = "lead" THEN <<Wide>> ELSE <<bytes[k]>>])

\* The lines of a text all of whose lines are ended.
Lines(text) ==
  LET ends == {k \in DOMAIN text : text[k] = "\n"}
      from(e) == Max({k \in ends : k < e} \cup {0}) + 1
  IN {SubSeq(text, from(e), e - 1) : e \in ends}

Messages(chars, n) == BoundedSeq(chars, n)
Narrow == Messages({<<"a">>, <<"\r">>, <<"lead", "trail">>}, 2)

\* A message between quotes, a quote in it written twice.
Quoted(message) ==
  <<Quote>> \o FlattenSeq([k \in DOMAIN message |->
                 IF message[k] = Quote THEN <<Quote, Quote>>
                 ELSE <<message[k]>>]) \o <<Quote>>

Line(record) ==
  <<severityToString(record.severity), record.tid>> \o record.message

\* A file of records reads back: a viewer of the bytes written sees, after
\* the mark, one line for each record, with its severity and what was
\* streamed into it, whatever quotes, carriage returns and wide characters
\* that holds (format, fixLineEndings, toNarrow).  Only a line feed would split
\* a line.
RecordsReadBack ==
  \A m, n \in {FlattenSeq(text) : text \in Narrow} \cup {Null},
     fails \in BOOLEAN :
    LET first == Record(1, "t1", printf(m, fails))
        second == Record(3, "t2", streamedAll(<<n, <<"a">>>>))
        bytes == header \o convert(format(first)) \o convert(format(second))
    IN /\ Lines(Shown(bytes)) = {Line(first), Line(second)}
       /\ Head(bytes) = "BOM"

\* In a CSV file, which neither program writes, the message can be told from the fields.
CsvReadsBack ==
  \A message \in Messages({"a", Quote, Wide}, kMaxMessageSize + 2) :
    LET kept == SubSeq(message, 1, Min({Len(message), kMaxMessageSize}))
        shown == kept \o IF kept = message THEN <<>> ELSE <<".", ".", ".">>
    IN formatFor(<<"a", ".", "csv">>, Record(1, "t1", message)) =
         <<"FATAL", ";", "t1", ";">> \o Quoted(shown) \o <<"\n">>

\* Each severity has a name of its own, told by its first letter.
Initial(name) ==
  CHOOSE c \in {"F", "E", "W", "I", "D", "V", "N"} :
    <<c, name>> \in {<<"F", "FATAL">>, <<"E", "ERROR">>, <<"W", "WARN">>,
                     <<"I", "INFO">>, <<"D", "DEBUG">>, <<"V", "VERB">>,
                     <<"N", "NONE">>}
SeverityReadsBack ==
  \A s \in Severity : severityFromString(Initial(severityToString(s))) = s

\* The names of the files kept differ, and the file written has the name that
\* was configured, unless that ends in a dot (splitFileName, buildFileName).
NamesDiffer ==
  \A name \in Messages({"a", ".", "/"}, 4) :
    LET parts == setFileName(name)
    IN /\ \A f, g \in 0 .. 11 :
            buildFileName(parts, f) = buildFileName(parts, g) => f = g
       /\ name # <<>> /\ Last(name) # "." => buildFileName(parts, 0) = name
=============================================================================
