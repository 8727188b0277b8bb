---------------------------- MODULE RecvBufProofs ----------------------------
(***************************************************************************)
(* The properties of RecvBuf, for every buffer size and every handler.     *)
(***************************************************************************)
EXTENDS RecvBuf, TLAPS

\* A session that consumes all it is shown starts every receive at the front.
FrontWhenAllConsumed == handler # "any" /\ Running => readPos = 0 /\ writePos = 0

\* The inductive invariant. TypeOK needs UnreadIsStream (0 <= DataSize) and
\* WindowIsFree (a completion fits) to be preserved.
BufInv ==
  /\ TypeOK
  /\ UnreadIsStream
  /\ WindowIsFree
  /\ FrontWhenAllConsumed
  /\ state # "undefined" \/ handler = "any"

\* RecvBuf.cpp:6: the buffer is bufSize_ * EXPAND_BUFFER cells, no less than bufSize_.
LEMMA CapacityIsEnough == Capacity \in Nat /\ Capacity >= BufSize
<1>1. BufSize \in Nat \ {0} /\ Expand \in Nat \ {0}
  BY RecvBufAssumption
<1>2. \A b, e \in Nat \ {0} : b * e \in Nat /\ b * e >= b
  BY SMT
<1>. QED
  BY <1>1, <1>2 DEF Capacity

\* The buffer as RecvBuf's constructor leaves it satisfies the invariant.
LEMMA InitBuf == Init => BufInv
<1>. SUFFICES ASSUME Init PROVE BufInv
  OBVIOUS
<1>1. Capacity \in Nat /\ BufSize \in Nat /\ Capacity >= BufSize
  BY CapacityIsEnough, RecvBufAssumption
<1>. QED
  BY <1>1 DEF Init, BufInv, TypeOK, States, UnreadIsStream, WindowIsFree, Running,
     DataSize, FreeSize, FrontWhenAllConsumed

\* Session::RegisterRecv gives WSARecv what is behind the unread bytes.
LEMMA RegisterRecvKeeps == BufInv /\ RegisterRecv /\ UNCHANGED handler => BufInv'
<1>. SUFFICES ASSUME BufInv, RegisterRecv, UNCHANGED handler PROVE BufInv'
  OBVIOUS
<1>1. Capacity \in Nat /\ BufSize \in Nat
  BY CapacityIsEnough, RecvBufAssumption
<1>. QED
  BY <1>1 DEF BufInv, RegisterRecv, TypeOK, States, UnreadIsStream, WindowIsFree, Running,
     DataSize, FreeSize, FrontWhenAllConsumed

\* What RecvBuf::Clean does to the positions r and w that OnRead left, if the cells
\* between them hold the stream from byte c + 1: the positions stay in the buffer,
\* what is unread stays the stream, and there is room for the next receive.
LEMMA CleanKeeps ==
  ASSUME NEW r \in Nat, NEW w \in 0..Capacity, NEW c \in Nat, r <= w, Clean(r, w),
         \A i \in r..(w - 1) : buf'[i] = c + 1 + (i - r)
  PROVE  /\ readPos' \in 0..Capacity
         /\ writePos' \in 0..Capacity
         /\ state' \in {"registering", "undefined"}
         /\ writePos' - readPos' = w - r
         /\ state' = "registering" =>
              /\ \A i \in readPos'..(writePos' - 1) : buf'[i] = c + 1 + (i - readPos')
              /\ Capacity - writePos' >= BufSize
         /\ w = r => readPos' = 0 /\ writePos' = 0 /\ state' = "registering"
<1>1. Capacity \in Nat /\ BufSize \in Nat /\ Capacity >= BufSize
  BY CapacityIsEnough, RecvBufAssumption
<1>2. CASE w - r = 0
  BY <1>1, <1>2 DEF Clean
<1>3. CASE w - r # 0 /\ Capacity - w < BufSize
  BY <1>1, <1>3 DEF Clean
<1>4. CASE w - r # 0 /\ ~(Capacity - w < BufSize)
  BY <1>1, <1>4 DEF Clean
<1>. QED
  BY <1>2, <1>3, <1>4

\* The kernel's write fits the window, so it extends the unread stream in place.
LEMMA FilledExtends ==
  ASSUME BufInv, NEW n \in 0..Capacity, ProcessRecv(n)
  PROVE  /\ writePos + n \in 0..Capacity
         /\ ~ OnWriteFails(n)
         /\ buf' \in [0..(Capacity - 1) -> Nat]
         /\ received' \in Nat
         /\ received' = consumed + ((writePos + n) - readPos)
         /\ \A i \in readPos..(writePos + n - 1) : buf'[i] = consumed + 1 + (i - readPos)
<1>1. Capacity \in Nat
  BY CapacityIsEnough
<1>2. /\ readPos \in 0..Capacity /\ writePos \in 0..Capacity
      /\ received \in Nat /\ consumed \in Nat
      /\ buf \in [0..(Capacity - 1) -> Nat]
  BY DEF BufInv, TypeOK
<1>3. state = "posted" /\ n <= window /\ buf' = Filled(n) /\ received' = received + n
  BY DEF ProcessRecv
<1>4. n <= Capacity - writePos
  BY <1>2, <1>3 DEF BufInv, WindowIsFree, FreeSize
<1>5. /\ received - consumed = writePos - readPos /\ writePos - readPos >= 0
      /\ \A i \in readPos..(writePos - 1) : buf[i] = consumed + 1 + (i - readPos)
  BY <1>3 DEF BufInv, UnreadIsStream, Running, DataSize
<1>6. writePos + n \in 0..Capacity /\ ~ OnWriteFails(n)
  BY <1>1, <1>2, <1>4 DEF OnWriteFails, FreeSize
<1>7. \A i \in 0..(Capacity - 1) :
        buf'[i] = IF i \in writePos..(writePos + n - 1)
                  THEN received + 1 + (i - writePos) ELSE buf[i]
  BY <1>2, <1>3 DEF Filled
<1>8. buf' \in [0..(Capacity - 1) -> Nat]
  <2>1. \A i \in 0..(Capacity - 1) :
          (IF i \in writePos..(writePos + n - 1)
           THEN received + 1 + (i - writePos) ELSE buf[i]) \in Nat
    BY <1>1, <1>2
  <2>. QED
    BY <1>2, <1>3, <2>1 DEF Filled
<1>9. ASSUME NEW i \in readPos..(writePos + n - 1)
      PROVE  buf'[i] = consumed + 1 + (i - readPos)
  <2>1. i \in 0..(Capacity - 1)
    BY <1>1, <1>2, <1>4
  <2>2. CASE i \in writePos..(writePos + n - 1)
    BY <1>2, <1>5, <1>7, <2>1, <2>2
  <2>3. CASE i \notin writePos..(writePos + n - 1)
    BY <1>2, <1>5, <1>7, <2>1, <2>3
  <2>. QED
    BY <2>2, <2>3
<1>. QED
  BY <1>2, <1>3, <1>5, <1>6, <1>8, <1>9

\* The three ways ProcessRecv ends: it drops the session at the end of the stream or
\* for an illegal length, it crashes in CopyData, or it cleans and registers again.
LEMMA ProcessRecvEnds ==
  ASSUME BufInv, NEW n \in 0..Capacity, ProcessRecv(n)
  PROVE  \/ /\ state' \in {"gone", "crashed"}
            /\ state' = "gone" => n = 0 \/ handler = "any"
            /\ readPos' = readPos /\ consumed' = consumed
            /\ writePos' \in {writePos, writePos + n}
         \/ \E k \in Nat : /\ k <= writePos + n - readPos
                           /\ handler # "any" => k = writePos + n - readPos
                           /\ Clean(readPos + k, writePos + n)
                           /\ consumed' = consumed + k
<1>. DEFINE size == (writePos + n) - readPos
<1>1. ~ OnWriteFails(n)
  BY FilledExtends
<1>2. n # 0 => IF CopyCrashes(size)
               THEN state' = "crashed" /\ writePos' = writePos + n
                                       /\ UNCHANGED <<readPos, consumed>>
               ELSE \E k \in Returns(size) :
                      IF Legal(k, size)
                      THEN Clean(readPos + k, writePos + n) /\ consumed' = consumed + k
                      ELSE /\ state' = "gone"
                           /\ writePos' = writePos + n
                           /\ UNCHANGED <<readPos, consumed>>
  BY <1>1, Zenon DEF ProcessRecv
<1>3. readPos \in Nat /\ writePos \in Nat /\ n \in Nat /\ size \in Nat
  BY CapacityIsEnough DEF BufInv, TypeOK, UnreadIsStream, Running, DataSize, ProcessRecv
<1>4. CASE n = 0
  BY <1>4, <1>1 DEF ProcessRecv, Drop
<1>5. CASE n # 0 /\ CopyCrashes(size)
  BY <1>5, <1>2
<1>6. CASE n # 0 /\ ~ CopyCrashes(size)
  <2>1. PICK k \in Returns(size) :
          IF Legal(k, size)
          THEN Clean(readPos + k, writePos + n) /\ consumed' = consumed + k
          ELSE /\ state' = "gone"
               /\ writePos' = writePos + n
               /\ UNCHANGED <<readPos, consumed>>
    BY <1>6, <1>2
  <2>2. k \in Int /\ (handler # "any" => k = size)
    BY <1>3 DEF Returns
  <2>3. CASE Legal(k, size)
    BY <1>3, <2>1, <2>2, <2>3 DEF Legal
  <2>4. CASE ~ Legal(k, size)
    <3>1. handler = "any"
      BY <1>3, <2>2, <2>4 DEF Legal
    <3>. QED
      BY <2>1, <2>4, <3>1
  <2>. QED
    BY <2>3, <2>4
<1>. QED
  BY <1>4, <1>5, <1>6

\* ProcessRecv keeps the invariant, whatever OnRecv returns.
LEMMA ProcessRecvKeeps ==
  ASSUME BufInv, NEW n \in 0..Capacity, ProcessRecv(n), UNCHANGED handler
  PROVE  BufInv'
<1>1. /\ writePos + n \in 0..Capacity
      /\ buf' \in [0..(Capacity - 1) -> Nat]
      /\ received' \in Nat
      /\ received' = consumed + ((writePos + n) - readPos)
      /\ \A i \in readPos..(writePos + n - 1) : buf'[i] = consumed + 1 + (i - readPos)
  BY FilledExtends
<1>2. /\ readPos \in 0..Capacity /\ writePos \in 0..Capacity /\ consumed \in Nat
      /\ n \in Nat /\ window' = 0 /\ state = "posted"
      /\ handler \in Handlers /\ handler' = handler
  BY CapacityIsEnough DEF BufInv, TypeOK, ProcessRecv
<1>3. Capacity \in Nat /\ BufSize \in Nat
  BY CapacityIsEnough, RecvBufAssumption
<1>4. CASE /\ state' \in {"gone", "crashed"}
           /\ readPos' = readPos /\ consumed' = consumed
           /\ writePos' \in {writePos, writePos + n}
  <2>1. writePos' \in 0..Capacity
    BY <1>1, <1>2, <1>4
  <2>2. state' \in States
    BY <1>4 DEF States
  <2>3. window' \in 0..Capacity
    BY <1>2, <1>3
  <2>4. TypeOK'
    BY <1>1, <1>2, <1>4, <2>1, <2>2, <2>3 DEF TypeOK
  <2>5. state' # "posted" /\ state' # "registering" /\ state' # "undefined"
    BY <1>4
  <2>. QED
    BY <1>2, <2>4, <2>5 DEF BufInv, UnreadIsStream, WindowIsFree, FrontWhenAllConsumed, Running
<1>5. ASSUME NEW k \in Nat, k <= writePos + n - readPos,
             handler # "any" => k = writePos + n - readPos,
             Clean(readPos + k, writePos + n), consumed' = consumed + k
      PROVE  BufInv'
  <2>. DEFINE r == readPos + k
              w == writePos + n
              c == consumed + k
  <2>1. r \in Nat /\ w \in 0..Capacity /\ c \in Nat /\ r <= w
    BY <1>1, <1>2, <1>5
  <2>2. \A i \in r..(w - 1) : buf'[i] = c + 1 + (i - r)
    BY <1>1, <1>2, <1>5
  <2>3. /\ readPos' \in 0..Capacity
        /\ writePos' \in 0..Capacity
        /\ state' \in {"registering", "undefined"}
        /\ writePos' - readPos' = w - r
        /\ state' = "registering" =>
             /\ \A i \in readPos'..(writePos' - 1) : buf'[i] = c + 1 + (i - readPos')
             /\ Capacity - writePos' >= BufSize
        /\ w = r => readPos' = 0 /\ writePos' = 0 /\ state' = "registering"
    <3>1. Clean(r, w)
      BY <1>5
    <3>. HIDE DEF r, w, c
    <3>. QED
      BY <2>1, <2>2, <3>1, CleanKeeps
  <2>4. TypeOK'
    BY <1>1, <1>2, <1>3, <1>5, <2>1, <2>3 DEF TypeOK, States
  <2>5. UnreadIsStream'
    <3>. SUFFICES ASSUME state' = "registering" \/ state' = "posted" PROVE UnreadIsStream'
      BY DEF UnreadIsStream, Running
    <3>1. state' = "registering" /\ consumed' = c
      BY <1>5, <2>3
    <3>2. writePos' - readPos' >= 0 /\ received' - consumed' = writePos' - readPos'
      <4>1. /\ received' = consumed + (w - readPos)
            /\ consumed' = consumed + k
            /\ writePos' - readPos' = w - r
        BY <1>1, <1>5, <2>3
      <4>2. k \in Int /\ w \in Int /\ consumed \in Int /\ readPos \in Int /\ r <= w
        BY <1>1, <1>2, <1>3, <1>5, <2>1
      <4>3. r = readPos + k /\ r \in Int
        BY <2>1
      <4>. HIDE DEF r, w, c
      <4>. QED
        BY <4>1, <4>2, <4>3
    <3>3. \A i \in readPos'..(writePos' - 1) : buf'[i] = consumed' + 1 + (i - readPos')
      BY <2>3, <3>1, Zenon
    <3>. QED
      BY <3>2, <3>3 DEF UnreadIsStream, DataSize
  <2>6. WindowIsFree'
    BY <2>3 DEF WindowIsFree, FreeSize
  <2>7. handler # "any" => r = w
    BY <1>2, <1>5
  <2>. QED
    BY <1>2, <2>3, <2>4, <2>5, <2>6, <2>7 DEF BufInv, FrontWhenAllConsumed
<1>. QED
  BY <1>4, <1>5, ProcessRecvEnds

\* Every step keeps the invariant.
LEMMA NextBuf == BufInv /\ [Next]_vars => BufInv'
<1>. SUFFICES ASSUME BufInv, [Next]_vars PROVE BufInv'
  OBVIOUS
<1>1. CASE RegisterRecv /\ UNCHANGED handler
  BY <1>1, RegisterRecvKeeps
<1>2. ASSUME NEW n \in 0..Capacity, ProcessRecv(n), UNCHANGED handler PROVE BufInv'
  BY <1>2, ProcessRecvKeeps
<1>3. CASE UNCHANGED vars
  BY <1>3 DEF vars, BufInv, TypeOK, UnreadIsStream, WindowIsFree, FrontWhenAllConsumed,
     Running, DataSize, FreeSize
<1>. QED
  BY <1>1, <1>2, <1>3 DEF Next, Waiting, Stopped, vars

\* The invariant holds of every behaviour of the receive buffer.
THEOREM BufInvariance == Spec => []BufInv
<1>. QED
  BY InitBuf, NextBuf, PTL DEF Spec

\* The positions stay inside the buffer, the window inside what is free.
THEOREM BufTypeCorrect == Spec => []TypeOK
<1>1. BufInv => TypeOK
  BY DEF BufInv
<1>. QED
  BY <1>1, BufInvariance, PTL

\* For every bufSize_ and EXPAND_BUFFER and whatever OnRecv returns, the unread bytes
\* are those of the stream that were not consumed, in order, none lost or repeated.
THEOREM UnreadIsAlwaysStream == Spec => []UnreadIsStream
<1>1. BufInv => UnreadIsStream
  BY DEF BufInv
<1>. QED
  BY <1>1, BufInvariance, PTL

\* WSARecv is never given an empty window nor one that overlaps unread bytes: 0
\* bytes received always means the end of the stream.
THEOREM WindowIsAlwaysFree == Spec => []WindowIsFree
<1>1. BufInv => WindowIsFree
  BY DEF BufInv
<1>. QED
  BY <1>1, BufInvariance, PTL

\* The sessions of the repository never make Clean reach its memcpy.
THEOREM CleanIsAlwaysDefined == Spec => []AllConsumedStaysDefined
<1>1. BufInv => AllConsumedStaysDefined
  <2>. SUFFICES ASSUME BufInv, handler # "any"
                PROVE  state # "undefined" /\ (state = "posted" => window = Capacity)
    BY DEF AllConsumedStaysDefined
  <2>1. state # "undefined"
    BY DEF BufInv
  <2>2. state = "posted" => window = Capacity - 0
    BY DEF BufInv, FrontWhenAllConsumed, WindowIsFree, FreeSize, Running
  <2>. QED
    BY <2>1, <2>2, CapacityIsEnough
<1>. QED
  BY <1>1, BufInvariance, PTL

\* ProcessRecv disconnects such a session at the end of the stream and nowhere else:
\* the disconnects for OnWrite and OnRead are never taken.
THEOREM DroppedOnlyAtEnd == Spec => DroppedAtEndOnly
<1>1. BufInv /\ [Next]_vars =>
        [handler # "any" /\ state' = "gone" => received' = received]_vars
  <2>. SUFFICES ASSUME BufInv, Next, handler # "any", state' = "gone"
                PROVE  received' = received
    BY DEF vars
  <2>1. CASE RegisterRecv
    BY <2>1 DEF RegisterRecv
  <2>2. ASSUME NEW n \in 0..Capacity, ProcessRecv(n) PROVE received' = received
    <3>1. n = 0 \/ \E k \in Nat : /\ k <= writePos + n - readPos
                                  /\ Clean(readPos + k, writePos + n)
      BY <2>2, ProcessRecvEnds
    <3>2. n = 0
      BY <3>1 DEF Clean
    <3>. QED
      BY <2>2, <3>2 DEF ProcessRecv, BufInv, TypeOK
  <2>3. CASE UNCHANGED vars
    BY <2>3 DEF vars
  <2>. QED
    BY <2>1, <2>2, <2>3 DEF Next, Waiting, Stopped, vars
<1>. QED
  BY <1>1, BufInvariance, PTL DEF Spec, DroppedAtEndOnly
=============================================================================
