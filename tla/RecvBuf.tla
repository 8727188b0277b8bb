------------------------------- MODULE RecvBuf -------------------------------
(***************************************************************************)
(* The receive buffer of a session (ServerCore/RecvBuf.cpp) under the only *)
(* code that uses it, Session::RegisterRecv and Session::ProcessRecv. One  *)
(* thread at a time runs them (RecvEventExclusive in SessionProperties),   *)
(* so a handler is one step here.                                          *)
(*                                                                         *)
(* A byte is named by its position in the stream, 1, 2, 3, ...             *)
(***************************************************************************)
EXTENDS Integers

CONSTANTS
  BufSize,      \* bufSize_
  Expand,       \* EXPAND_BUFFER
  Handlers,     \* the kinds of OnRecv: "all" consumes what it is given, "echo" copies
                \* it into a SendBuf first (GameSession), "any" returns what it likes
  SendCapacity, \* capacity of the SendBuf GameSession::OnRecv makes
  MaxBytes      \* bound: length of the stream

ASSUME RecvBufAssumption ==
  /\ BufSize \in Nat \ {0}
  /\ Expand \in Nat \ {0}
  /\ Handlers \subseteq {"all", "echo", "any"}
  /\ SendCapacity \in Nat
  /\ MaxBytes \in Nat

VARIABLES
  handler,             \* the class of the session, with its OnRecv
  readPos, writePos,   \* readPos_, writePos_
  buf,                 \* buf_: the byte in each cell, 0 where none was written
  window,              \* length of the window given to WSARecv at WritePos()
  received, consumed,  \* bytes taken off the stream, bytes OnRecv returned
  state                \* where the session is; "gone": no receive will be posted

vars == <<handler, readPos, writePos, buf, window, received, consumed, state>>

Capacity == BufSize * Expand
DataSize == writePos - readPos
FreeSize == Capacity - writePos

States == {"registering", "posted", "gone", "crashed", "undefined"}

TypeOK ==
  /\ handler \in Handlers
  /\ readPos \in 0..Capacity
  /\ writePos \in 0..Capacity
  /\ buf \in [0..(Capacity - 1) -> Nat]
  /\ window \in 0..Capacity
  /\ received \in Nat
  /\ consumed \in Nat
  /\ state \in States

-----------------------------------------------------------------------------

\* Another thread may have disconnected meanwhile, and WSARecv may be refused.
RegisterRecv ==
  /\ state = "registering"
  /\ \/ window' = FreeSize /\ state' = "posted"
     \/ state' = "gone" /\ UNCHANGED window
  /\ UNCHANGED <<readPos, writePos, buf, received, consumed>>

\* The kernel writes n bytes at the start of the window.
Filled(n) ==
  [i \in DOMAIN buf |-> IF i \in writePos..(writePos + n - 1)
                        THEN received + 1 + (i - writePos) ELSE buf[i]]

\* Mutant: the test is one off.
OnWriteFailsOffByOne(n) == n >= FreeSize

\* OnWrite's test: the bytes do not fit.
OnWriteFails(n) == n > FreeSize

\* What OnRecv may return when it is shown size bytes.
Returns(size) == IF handler = "any" THEN (-1)..(size + 1) ELSE {size}

\* Mutant: too long a length is not caught.
LegalUnchecked(k, size) == k >= 0

\* ProcessRecv's tests on OnRecv's result and OnRead's own.
Legal(k, size) == k >= 0 /\ k <= size

\* ASSERT_CRASH in SendBuf::CopyData, called by GameSession::OnRecv.
CopyCrashes(size) == handler = "echo" /\ size > SendCapacity

\* Mutant: only a full buffer is compacted.
CleanFullOnly(r, w) ==
  IF w - r = 0
  THEN readPos' = 0 /\ writePos' = 0 /\ state' = "registering"
  ELSE /\ readPos' = r /\ writePos' = w
       /\ state' = IF Capacity = w THEN "undefined" ELSE "registering"

\* Mutant: an empty buffer only moves the read position.
CleanReadOnly(r, w) ==
  IF w - r = 0
  THEN readPos' = 0 /\ writePos' = w /\ state' = "registering"
  ELSE readPos' = r /\ writePos' = w /\ state' = "registering"

\* Clean, on the positions OnRead left. Its memcpy goes to &buf_, the vector object
\* itself, and not to its cells: from then on every access is through a pointer
\* made of payload, and nothing can be said.
Clean(r, w) ==
  IF w - r = 0
  THEN readPos' = 0 /\ writePos' = 0 /\ state' = "registering"
  ELSE IF Capacity - w < BufSize
  THEN readPos' = 0 /\ writePos' = w - r /\ state' = "undefined"
  ELSE readPos' = r /\ writePos' = w /\ state' = "registering"

Drop ==
  /\ state' = "gone"
  /\ UNCHANGED <<readPos, writePos, consumed>>

\* ProcessRecv for a completion of n bytes.
ProcessRecv(n) ==
  /\ state = "posted"
  /\ n <= window
  /\ received + n <= MaxBytes
  /\ buf' = Filled(n)
  /\ received' = received + n
  /\ window' = 0
  /\ IF n = 0 \/ OnWriteFails(n) THEN Drop
     ELSE LET w == writePos + n
              size == w - readPos
          IN  IF CopyCrashes(size)
              THEN state' = "crashed" /\ writePos' = w /\ UNCHANGED <<readPos, consumed>>
              ELSE \E k \in Returns(size) :
                     IF Legal(k, size)
                     THEN Clean(readPos + k, w) /\ consumed' = consumed + k
                     ELSE /\ state' = "gone"
                          /\ writePos' = w
                          /\ UNCHANGED <<readPos, consumed>>

\* The session ended, or the model does.
Stopped == state \in {"gone", "crashed", "undefined"} /\ UNCHANGED vars

\* Bound: the stream has no more bytes; the posted receive waits.
Waiting == state = "posted" /\ UNCHANGED vars

Init ==
  /\ handler \in Handlers
  /\ readPos = 0 /\ writePos = 0
  /\ buf = [i \in 0..(Capacity - 1) |-> 0]
  /\ window = 0
  /\ received = 0 /\ consumed = 0
  /\ state = "registering"

Next ==
  /\ RegisterRecv \/ (\E n \in 0..Capacity : ProcessRecv(n)) \/ Waiting \/ Stopped
  /\ UNCHANGED handler

Spec == Init /\ [][Next]_vars

-----------------------------------------------------------------------------

Running == state \in {"registering", "posted"}

\* The unread bytes are those of the stream that OnRecv has not consumed, each
\* once and in order, whatever parts they arrived in and were consumed in, and
\* OnRecv never consumes a byte that has not arrived.
UnreadIsStream ==
  Running =>
    /\ received - consumed = DataSize /\ DataSize >= 0
    /\ \A i \in readPos..(writePos - 1) : buf[i] = consumed + 1 + (i - readPos)

\* The window WSARecv is given lies behind the unread bytes, ends with the buffer
\* and is never shorter than bufSize_: a completion of 0 bytes always means
\* the end of the stream, never a full buffer.
WindowIsFree ==
  /\ state = "posted" => window = FreeSize /\ window >= BufSize
  /\ state = "registering" => FreeSize >= BufSize

\* A session whose OnRecv returns legal lengths is dropped at the end of the stream
\* only. The "OnWrite Failed" disconnect is dead code: a completion never exceeds
\* the window, and nothing moves writePos_ while the receive is posted.
DroppedAtEndOnly ==
  [][handler # "any" /\ state' = "gone" => received' = received]_vars

\* With an OnRecv that consumes all it is shown, as every session of the repository
\* does, Clean never gets to its memcpy and each receive has the whole buffer.
AllConsumedStaysDefined ==
  handler # "any" => state # "undefined" /\ (state = "posted" => window = Capacity)

\* SendBuf::CopyData asserts Capacity() >= len. GameSession::OnRecv passes all that
\* is in the receive buffer to a SendBuf of 4096 bytes.
CopyFits == state # "crashed"
=============================================================================
