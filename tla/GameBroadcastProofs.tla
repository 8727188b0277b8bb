------------------------- MODULE GameBroadcastProofs -------------------------
(***************************************************************************)
(* SenderOrder and StayersGetIt for any number of sessions and workers.    *)
(*                                                                         *)
(* A sender has one token: its posted receive, or the one worker that      *)
(* walks the list for it.  So the message of a walk is the last one        *)
(* received from its sender, and the walk, which visits the listed         *)
(* sessions in the order of their addresses, has given it to exactly those *)
(* it has passed.                                                          *)
(***************************************************************************)
EXTENDS GameBroadcast, FiniteSetTheorems, WellFoundedInduction, TLAPS

Messages == Sessions \X Nat

\* What the variables range over.
Types ==
  /\ listed \subseteq Sessions /\ connected \subseteq Sessions
  /\ armed \subseteq Sessions
  /\ life \in [Sessions -> {"new", "adding", "member", "gone"}]
  /\ sent \in [Sessions -> Nat]
  /\ inbox \in [Sessions -> Seq(Messages)]
  /\ doing \in [Workers -> {"idle", "insert", "erase", "walk", "next"}]
  /\ subject \in [Workers -> Sessions \cup {None}]
  /\ message \in [Workers -> Messages \cup {<<>>}]
  /\ cursor \in [Workers -> Sessions \cup {None}]
  /\ stayed \in [Workers -> SUBSET Sessions]

Added(s) == life[s] \in {"member", "gone"}

\* Who works for a session: one inserter while it is being added, then its
\* receive or one walk; an eraser only once it is down for good.
TokenInv ==
  /\ \A w \in Workers : doing[w] # "idle" => subject[w] \in Sessions
  /\ \A w \in Workers : doing[w] = "insert" => life[subject[w]] = "adding"
  /\ \A w \in Workers : doing[w] = "erase" =>
       life[subject[w]] = "gone" /\ subject[w] \notin connected
  /\ \A s \in armed : Added(s)
  /\ \A w \in Workers : Walking(w) =>
       Added(subject[w]) /\ subject[w] \notin armed

InsertsAlone ==
  \A v, w \in Workers :
    doing[v] = "insert" /\ doing[w] = "insert" /\ subject[v] = subject[w] => v = w

WalksAlone ==
  \A v, w \in Workers :
    Walking(v) /\ Walking(w) /\ subject[v] = subject[w] => v = w

Has(a, m) == \E k \in DOMAIN inbox[a] : inbox[a][k] = m

\* The walk of w is beyond address a.
Passed(w, a) ==
  IF doing[w] = "walk" THEN cursor[w] = None \/ a < cursor[w] ELSE a <= cursor[w]

\* A walk carries the last message of its sender.
CarriesLast ==
  \A w \in Workers : Walking(w) =>
    /\ message[w] = <<subject[w], sent[subject[w]]>>
    /\ doing[w] = "next" => cursor[w] \in Sessions

\* Nobody has a message that was not received yet.
NothingAhead ==
  \A s \in Sessions : \A k \in DOMAIN inbox[s] :
    inbox[s][k][2] <= sent[inbox[s][k][1]]

\* SenderOrder, whatever broken says.
Ordered ==
  \A s \in Sessions : \A j, k \in DOMAIN inbox[s] :
    j < k /\ inbox[s][j][1] = inbox[s][k][1] => inbox[s][j][2] < inbox[s][k][2]

\* Only sessions the walk has passed have its message; those that stayed,
\* and are therefore listed and connected, have it once they are passed.
GivenIsPassed ==
  \A w \in Workers : Walking(w) =>
    \A a \in Sessions : Has(a, message[w]) => Passed(w, a)
PassedIsGiven ==
  \A w \in Workers : Walking(w) =>
    /\ stayed[w] \subseteq listed \cap connected
    /\ \A a \in stayed[w] : Passed(w, a) => Has(a, message[w])

WalkInv ==
  CarriesLast /\ NothingAhead /\ Ordered /\ GivenIsPassed /\ PassedIsGiven

BroadcastInv == Types /\ TokenInv /\ InsertsAlone /\ WalksAlone /\ WalkInv

-----------------------------------------------------------------------------
\* Every set of addresses that is not empty has a first one.
LEMMA Smallest ==
  ASSUME NEW S \in SUBSET Nat, S # {}
  PROVE  \E x \in S : \A y \in S : x <= y
<1> DEFINE R == {ss \in Nat \X Nat : ss[1] < ss[2]}
<1>1. IsWellFoundedOn(R, Nat)
  BY NatLessThanWellFounded, Zenon DEF OpToRel
<1>2. PICK x \in S : \A y \in S : ~(<<y, x>> \in R)
  BY <1>1, WFMin
<1>3. \A y \in S : ~(y < x)
  BY <1>2
<1> QED
  BY <1>3

\* operator++ of the set's iterator: the next address that is listed, or
\* end() when none is.
LEMMA FollowingIsNext ==
  ASSUME listed \subseteq Sessions, NEW a \in Int
  PROVE  \/ /\ Following(a) = None
            /\ \A s \in listed : s <= a
         \/ /\ Following(a) \in listed
            /\ a < Following(a)
            /\ \A s \in listed : a < s => Following(a) <= s
<1> DEFINE rest == {s \in listed : a < s}
<1>1. rest \in SUBSET Nat
  BY BroadcastAssumption
<1>2. CASE rest = {}
  <2>1. Following(a) = None
    BY <1>2 DEF Following
  <2>2. \A s \in listed : ~(a < s)
    BY <1>2
  <2> QED
    BY <2>1, <2>2, BroadcastAssumption
<1>3. CASE rest # {}
  <2>1. \E s \in rest : \A r \in rest : s <= r
    BY <1>1, <1>3, Smallest
  <2>2. Following(a) = CHOOSE s \in rest : \A r \in rest : s <= r
    BY <1>3 DEF Following
  <2>3. Following(a) \in rest /\ \A r \in rest : Following(a) <= r
    BY <2>1, <2>2
  <2> QED
    BY <2>3
<1> QED
  BY <1>2, <1>3

\* What an append does to the places of a sequence.
LEMMA AppendPlaces ==
  ASSUME NEW S, NEW q \in Seq(S), NEW m \in S
  PROVE  /\ Append(q, m) \in Seq(S)
         /\ DOMAIN Append(q, m) = DOMAIN q \cup {Len(q) + 1}
         /\ Append(q, m)[Len(q) + 1] = m
         /\ \A k \in DOMAIN q : /\ Append(q, m)[k] = q[k] /\ q[k] \in S
                                /\ k \in Nat /\ k < Len(q) + 1
OBVIOUS

\* Receive without the bound on the number of messages.
LEMMA ReceiveDoes ==
  ASSUME NEW w \in Workers, NEW s \in Sessions, Receive(w, s)
  PROVE  /\ doing[w] = "idle" /\ s \in armed
         /\ armed' = armed \ {s}
         /\ sent' = [sent EXCEPT ![s] = @ + 1]
         /\ message' = [message EXCEPT ![w] = <<s, sent[s] + 1>>]
         /\ doing' = [doing EXCEPT ![w] = "walk"]
         /\ subject' = [subject EXCEPT ![w] = s]
         /\ cursor' = [cursor EXCEPT ![w] = Following(-1)]
         /\ stayed' = [stayed EXCEPT ![w] = listed \cap connected]
         /\ broken' = Modifying
         /\ UNCHANGED <<listed, life, connected, inbox>>
BY Zenon DEF Receive

\* Init gives nobody anything to do.
LEMMA InitBroadcast == Init => BroadcastInv
<1> SUFFICES ASSUME Init PROVE BroadcastInv
  OBVIOUS
<1>1. Types
  <2>1. inbox \in [Sessions -> Seq(Messages)]
    BY DEF Init
  <2>2. message \in [Workers -> Messages \cup {<<>>}]
    BY DEF Init
  <2> QED
    BY <2>1, <2>2 DEF Init, Types
<1>2. TokenInv /\ InsertsAlone /\ WalksAlone
  BY DEF Init, TokenInv, InsertsAlone, WalksAlone, Walking
<1>3. CarriesLast /\ GivenIsPassed /\ PassedIsGiven
  BY DEF Init, CarriesLast, GivenIsPassed, PassedIsGiven, Walking
<1>4. \A s \in Sessions : DOMAIN inbox[s] = {}
  BY DEF Init
<1> QED
  BY <1>1, <1>2, <1>3, <1>4 DEF BroadcastInv, WalkInv, NothingAhead, Ordered

-----------------------------------------------------------------------------
\* Types are kept by every step.
LEMMA TypesKept ==
  ASSUME BroadcastInv, Next
  PROVE  Types'
<1> USE DEF BroadcastInv
<1>1. CASE \E s \in Sessions : Drop(s)
  BY <1>1 DEF Types, Drop
<1>2. ASSUME NEW w \in Workers, NEW s \in Sessions, Add(w, s) \/ Remove(w, s)
      PROVE  Types'
  <2>1. CASE Add(w, s)
    BY <2>1 DEF Types, Add, Enter, walks
  <2>2. CASE Remove(w, s)
    BY <2>2 DEF Types, Remove, Enter, walks
  <2> QED
    BY <1>2, <2>1, <2>2
<1>3. ASSUME NEW w \in Workers, NEW s \in Sessions, Receive(w, s)
      PROVE  Types'
  <2>1. Following(-1) \in Sessions \cup {None}
    BY FollowingIsNext DEF Types
  <2>2. <<s, sent[s] + 1>> \in Messages
    BY DEF Types, Messages
  <2>0. /\ armed' = armed \ {s}
        /\ sent' = [sent EXCEPT ![s] = @ + 1]
        /\ message' = [message EXCEPT ![w] = <<s, sent[s] + 1>>]
        /\ doing' = [doing EXCEPT ![w] = "walk"]
        /\ subject' = [subject EXCEPT ![w] = s]
        /\ cursor' = [cursor EXCEPT ![w] = Following(-1)]
        /\ stayed' = [stayed EXCEPT ![w] = listed \cap connected]
        /\ UNCHANGED <<listed, life, connected, inbox>>
    BY <1>3, ReceiveDoes
  <2>3. /\ armed' \subseteq Sessions
        /\ sent' \in [Sessions -> Nat]
        /\ message' \in [Workers -> Messages \cup {<<>>}]
    BY <2>0, <2>2 DEF Types
  <2>4. /\ doing' \in [Workers -> {"idle", "insert", "erase", "walk", "next"}]
        /\ subject' \in [Workers -> Sessions \cup {None}]
        /\ cursor' \in [Workers -> Sessions \cup {None}]
        /\ stayed' \in [Workers -> SUBSET Sessions]
    BY <2>0, <2>1 DEF Types
  <2> QED
    BY <2>0, <2>3, <2>4 DEF Types
<1>4. ASSUME NEW w \in Workers, Inserted(w) \/ Erased(w) \/ Done(w)
      PROVE  Types'
  <2>1. CASE Inserted(w)
    <3>1. subject[w] \in Sessions
      BY <2>1 DEF Inserted, TokenInv
    <3> QED
      BY <2>1, <3>1 DEF Types, Inserted, Idle, walks
  <2>2. CASE Erased(w)
    BY <2>2 DEF Types, Erased, Idle, walks
  <2>3. CASE Done(w)
    BY <2>3 DEF Types, Done, Idle
  <2> QED
    BY <1>4, <2>1, <2>2, <2>3
<1>5. ASSUME NEW w \in Workers, Send(w)
      PROVE  Types'
  <2>1. inbox' \in [Sessions -> Seq(Messages)]
    <3>1. cursor[w] \in Sessions /\ message[w] \in Messages
      <4>1. Walking(w) /\ cursor[w] # None
        BY <1>5 DEF Send, Walking
      <4>2. message[w] = <<subject[w], sent[subject[w]]>> /\ subject[w] \in Sessions
        BY <4>1 DEF WalkInv, CarriesLast, TokenInv, Walking
      <4> QED
        BY <4>1, <4>2 DEF Types, Messages
    <3>2. inbox[cursor[w]] \in Seq(Messages)
      BY <3>1 DEF Types
    <3>3. Append(inbox[cursor[w]], message[w]) \in Seq(Messages)
      BY <3>1, <3>2, AppendPlaces
    <3> QED
      BY <1>5, <3>1, <3>3 DEF Types, Send
  <2> QED
    BY <1>5, <2>1 DEF Types, Send, walks
<1>6. ASSUME NEW w \in Workers, Advance(w)
      PROVE  Types'
  <2>1. cursor[w] \in Int
    BY <1>6, BroadcastAssumption DEF Advance, WalkInv, CarriesLast, Walking
  <2>2. Following(cursor[w]) \in Sessions \cup {None}
    BY <2>1, FollowingIsNext DEF Types
  <2> QED
    BY <1>6, <2>2 DEF Types, Advance
<1> QED
  BY <1>1, <1>2, <1>3, <1>4, <1>5, <1>6 DEF Next

\* Who works for whom is kept by every step: Add takes a new session,
\* Receive takes the posted receive, and both are given up at the end.
LEMMA TokenKept ==
  ASSUME BroadcastInv, Next, Types'
  PROVE  TokenInv' /\ InsertsAlone' /\ WalksAlone'
<1> DEFINE Goal == TokenInv' /\ InsertsAlone' /\ WalksAlone'
<1> USE DEF BroadcastInv, Added, Walking
<1>1. ASSUME NEW s \in Sessions, Drop(s) PROVE Goal
  BY <1>1 DEF Drop, TokenInv, InsertsAlone, WalksAlone
<1>2. ASSUME NEW w \in Workers, NEW s \in Sessions, Add(w, s) PROVE Goal
  <2>1. /\ doing' = [doing EXCEPT ![w] = "insert"]
        /\ subject' = [subject EXCEPT ![w] = s]
        /\ life' = [life EXCEPT ![s] = "adding"] /\ life[s] = "new"
        /\ connected' = connected \cup {s} /\ armed' = armed
    BY <1>2 DEF Add, Enter
  <2>2. TokenInv'
    BY <2>1 DEF TokenInv, Types
  <2>3. InsertsAlone' /\ WalksAlone'
    BY <2>1 DEF InsertsAlone, WalksAlone, TokenInv, Types
  <2> QED
    BY <2>2, <2>3
<1>3. ASSUME NEW w \in Workers, NEW s \in Sessions, Remove(w, s) PROVE Goal
  <2>1. /\ doing' = [doing EXCEPT ![w] = "erase"]
        /\ subject' = [subject EXCEPT ![w] = s]
        /\ life' = [life EXCEPT ![s] = "gone"] /\ life[s] = "member"
        /\ s \notin connected /\ connected' = connected /\ armed' = armed
    BY <1>3 DEF Remove, Enter
  <2>2. TokenInv'
    BY <2>1 DEF TokenInv, Types
  <2>3. InsertsAlone' /\ WalksAlone'
    BY <2>1 DEF InsertsAlone, WalksAlone, Types
  <2> QED
    BY <2>2, <2>3
<1>4. ASSUME NEW w \in Workers, NEW s \in Sessions, Receive(w, s) PROVE Goal
  <2>1. /\ doing' = [doing EXCEPT ![w] = "walk"]
        /\ subject' = [subject EXCEPT ![w] = s]
        /\ armed' = armed \ {s} /\ s \in armed
        /\ UNCHANGED <<life, connected>>
    BY <1>4, ReceiveDoes
  <2>2. TokenInv'
    BY <2>1 DEF TokenInv, Types
  <2>3. InsertsAlone' /\ WalksAlone'
    BY <2>1 DEF InsertsAlone, WalksAlone, TokenInv, Types
  <2> QED
    BY <2>2, <2>3
<1>5. ASSUME NEW w \in Workers, Inserted(w) PROVE Goal
  <2>1. /\ doing[w] = "insert"
        /\ doing' = [doing EXCEPT ![w] = "idle"]
        /\ subject' = [subject EXCEPT ![w] = None]
        /\ life' = [life EXCEPT ![subject[w]] = "member"]
        /\ armed' = armed \cup ({subject[w]} \cap connected)
        /\ connected' = connected
    BY <1>5 DEF Inserted, Idle
  <2>2. subject[w] \in Sessions /\ life[subject[w]] = "adding"
    BY <2>1 DEF TokenInv
  <2>3. \A v \in Workers : v # w /\ doing[v] # "idle" => subject[v] # subject[w]
    <3>1. ASSUME NEW v \in Workers, v # w, doing[v] # "idle", subject[v] = subject[w]
          PROVE  FALSE
      <4>1. CASE doing[v] = "insert"
        BY <2>1, <3>1, <4>1 DEF InsertsAlone
      <4>2. CASE doing[v] = "erase"
        BY <2>2, <3>1, <4>2 DEF TokenInv
      <4>3. CASE Walking(v)
        BY <2>2, <3>1, <4>3 DEF TokenInv
      <4> QED
        BY <3>1, <4>1, <4>2, <4>3 DEF Types
    <3> QED
      BY <3>1
  <2>4. TokenInv'
    <3>1. \A v \in Workers : doing'[v] # "idle" =>
            /\ doing[v] = doing'[v] /\ v # w
            /\ subject'[v] = subject[v] /\ life'[subject[v]] = life[subject[v]]
      BY <2>1, <2>2, <2>3 DEF TokenInv, Types
    <3>2. life'[subject[w]] = "member"
      BY <2>1, <2>2 DEF Types
    <3>3. \A s \in armed' : life'[s] \in {"member", "gone"}
      BY <2>1, <2>2, <3>2 DEF TokenInv, Types
    <3>4. \A v \in Workers : doing'[v] # "idle" => subject'[v] # subject[w]
      BY <2>3, <3>1
    <3> QED
      BY <2>1, <3>1, <3>3, <3>4 DEF TokenInv
  <2>5. InsertsAlone' /\ WalksAlone'
    BY <2>1 DEF InsertsAlone, WalksAlone, Types
  <2> QED
    BY <2>4, <2>5
<1>6. ASSUME NEW w \in Workers, Erased(w) PROVE Goal
  BY <1>6 DEF Erased, Idle, TokenInv, InsertsAlone, WalksAlone, Types
<1>7. ASSUME NEW w \in Workers, Send(w) PROVE Goal
  BY <1>7 DEF Send, TokenInv, InsertsAlone, WalksAlone, Types
<1>8. ASSUME NEW w \in Workers, Advance(w) PROVE Goal
  BY <1>8 DEF Advance, TokenInv, InsertsAlone, WalksAlone, Types
<1>9. ASSUME NEW w \in Workers, Done(w) PROVE Goal
  <2>1. /\ doing[w] = "walk"
        /\ doing' = [doing EXCEPT ![w] = "idle"]
        /\ subject' = [subject EXCEPT ![w] = None]
        /\ armed' = armed \cup ({subject[w]} \cap connected)
        /\ UNCHANGED <<life, connected>>
    BY <1>9 DEF Done, Idle
  <2>2. Added(subject[w])
    BY <2>1 DEF TokenInv
  <2>3. \A v \in Workers : v # w /\ Walking(v) => subject[v] # subject[w]
    BY <2>1 DEF WalksAlone
  <2>4. TokenInv'
    BY <2>1, <2>2, <2>3 DEF TokenInv, Types
  <2>5. InsertsAlone' /\ WalksAlone'
    BY <2>1 DEF InsertsAlone, WalksAlone, Types
  <2> QED
    BY <2>4, <2>5
<1> QED
  BY <1>1, <1>2, <1>3, <1>4, <1>5, <1>6, <1>7, <1>8, <1>9 DEF Next

-----------------------------------------------------------------------------
\* A step that gives no message and moves no walk keeps what the walks have
\* done, as long as those that stayed are still listed and connected.
LEMMA OffWalk ==
  ASSUME BroadcastInv, UNCHANGED <<sent, inbox>>,
         \A w \in Workers : Walking(w)' =>
           /\ doing'[w] = doing[w] /\ subject'[w] = subject[w]
           /\ message'[w] = message[w] /\ cursor'[w] = cursor[w]
           /\ stayed'[w] \subseteq stayed[w] \cap (listed' \cap connected')
  PROVE  WalkInv'
<1> USE DEF BroadcastInv, WalkInv
<1>1. CarriesLast'
  BY DEF CarriesLast, Walking
<1>2. NothingAhead' /\ Ordered'
  BY DEF NothingAhead, Ordered
<1>3. GivenIsPassed'
  BY DEF GivenIsPassed, Has, Passed, Walking
<1>4. PassedIsGiven'
  BY DEF PassedIsGiven, Has, Passed, Walking
<1> QED
  BY <1>1, <1>2, <1>3, <1>4

\* A new walk: its message is nowhere, and it has passed nobody.
LEMMA ReceiveKeepsWalks ==
  ASSUME BroadcastInv, NEW w \in Workers, NEW s \in Sessions, Receive(w, s)
  PROVE  WalkInv'
<1> USE DEF BroadcastInv
<1> DEFINE m == <<s, sent[s] + 1>>
<1>1. /\ doing[w] = "idle" /\ s \in armed
      /\ sent' = [sent EXCEPT ![s] = @ + 1]
      /\ message' = [message EXCEPT ![w] = m]
      /\ doing' = [doing EXCEPT ![w] = "walk"]
      /\ subject' = [subject EXCEPT ![w] = s]
      /\ cursor' = [cursor EXCEPT ![w] = Following(-1)]
      /\ stayed' = [stayed EXCEPT ![w] = listed \cap connected]
      /\ UNCHANGED <<listed, connected, inbox>>
  BY ReceiveDoes
<1>2. \A v \in Workers : v # w /\ Walking(v)' =>
        /\ Walking(v) /\ subject[v] # s
        /\ doing'[v] = doing[v] /\ subject'[v] = subject[v]
        /\ message'[v] = message[v] /\ cursor'[v] = cursor[v]
        /\ stayed'[v] = stayed[v]
  BY <1>1 DEF TokenInv, Walking, Types
<1>3. /\ doing'[w] = "walk" /\ subject'[w] = s /\ message'[w] = m
      /\ cursor'[w] = Following(-1) /\ stayed'[w] = listed \cap connected
  BY <1>1 DEF Types
<1>4. /\ \A r \in Sessions : sent[r] \in Nat /\ sent'[r] \in Nat
      /\ \A r \in Sessions : sent[r] <= sent'[r] /\ (r # s => sent'[r] = sent[r])
      /\ sent'[s] = sent[s] + 1
  BY <1>1 DEF Types
<1>5. CarriesLast'
  <2>1. ASSUME NEW v \in Workers, Walking(v)', v # w
        PROVE  /\ message'[v] = <<subject'[v], sent'[subject'[v]]>>
               /\ doing'[v] = "next" => cursor'[v] \in Sessions
    <3>1. subject[v] \in Sessions /\ subject[v] # s
      BY <1>2, <2>1 DEF TokenInv, Walking
    <3>2. /\ message[v] = <<subject[v], sent[subject[v]]>>
          /\ doing[v] = "next" => cursor[v] \in Sessions
      BY <1>2, <2>1 DEF WalkInv, CarriesLast
    <3> QED
      BY <1>2, <1>4, <2>1, <3>1, <3>2
  <2> QED
    BY <1>3, <1>4, <2>1 DEF CarriesLast
<1>6. \A a \in Sessions : \A k \in DOMAIN inbox[a] :
        /\ inbox[a][k] \in Messages /\ inbox[a][k][2] <= sent[inbox[a][k][1]]
  BY DEF Types, WalkInv, NothingAhead
<1>7. NothingAhead'
  <2>1. ASSUME NEW a \in Sessions, NEW k \in DOMAIN inbox[a]
        PROVE  inbox[a][k][2] <= sent'[inbox[a][k][1]]
    <3>1. inbox[a][k][1] \in Sessions /\ inbox[a][k][2] \in Nat
      BY <1>6 DEF Messages
    <3> QED
      BY <1>4, <1>6, <3>1
  <2> QED
    BY <1>1, <2>1 DEF NothingAhead
<1>8. Ordered'
  BY <1>1 DEF WalkInv, Ordered
<1>9. \A a \in Sessions : ~Has(a, m)
  BY <1>4, <1>6 DEF Has
<1>10. GivenIsPassed'
  <2>1. ASSUME NEW v \in Workers, Walking(v)', v # w, NEW a \in Sessions,
               Has(a, message[v])
        PROVE  Passed(v, a)'
    <3>1. Passed(v, a)
      BY <1>2, <2>1 DEF WalkInv, GivenIsPassed
    <3> QED
      BY <1>2, <2>1, <3>1 DEF Passed
  <2>2. \A v \in Workers, a \in Sessions : Has(a, message[v])' <=> Has(a, message'[v])
    BY <1>1 DEF Has
  <2> QED
    BY <1>2, <1>3, <1>9, <2>1, <2>2 DEF GivenIsPassed
<1>11. PassedIsGiven'
  <2>1. ASSUME NEW v \in Workers, Walking(v)', v # w
        PROVE  /\ stayed'[v] \subseteq listed' \cap connected'
               /\ \A a \in stayed'[v] : Passed(v, a)' => Has(a, message[v])'
    BY <1>1, <1>2, <2>1 DEF WalkInv, PassedIsGiven, Passed, Has
  <2>2. ASSUME NEW a \in listed \cap connected
        PROVE  ~Passed(w, a)'
    <3>1. a \in Nat
      BY BroadcastAssumption DEF Types
    <3>2. /\ Following(-1) \in listed
          /\ Following(-1) <= a
      BY <3>1, FollowingIsNext DEF Types
    <3>3. Following(-1) \in Nat /\ Following(-1) # None
      BY <3>2, BroadcastAssumption DEF Types
    <3> QED
      BY <1>3, <3>1, <3>2, <3>3 DEF Passed
  <2>3. \A v \in Workers, a \in Sessions : Has(a, message[v])' <=> Has(a, message'[v])
    BY <1>1 DEF Has
  <2> QED
    BY <1>1, <1>2, <1>3, <2>1, <2>2 DEF PassedIsGiven, Has
<1> QED
  BY <1>5, <1>7, <1>8, <1>10, <1>11 DEF WalkInv

\* A Send of a walk gives its message to the session at the cursor, which
\* nobody has given it before.
LEMMA SendKeepsWalks ==
  ASSUME BroadcastInv, NEW w \in Workers, Send(w)
  PROVE  WalkInv'
<1> USE DEF BroadcastInv
<1> DEFINE to == cursor[w]
           m == message[w]
           q == inbox[to]
<1>1. /\ doing[w] = "walk" /\ to # None
      /\ inbox' = IF to \in connected THEN [inbox EXCEPT ![to] = Append(@, m)]
                                      ELSE inbox
      /\ doing' = [doing EXCEPT ![w] = "next"]
      /\ UNCHANGED <<listed, connected, sent, subject, message, cursor, stayed>>
  BY DEF Send, walks
<1>2. /\ to \in Sessions /\ subject[w] \in Sessions
      /\ m = <<subject[w], sent[subject[w]]>>
      /\ sent[subject[w]] \in Nat
  BY <1>1 DEF Types, TokenInv, WalkInv, CarriesLast, Walking
<1>3. m \in Messages /\ q \in Seq(Messages) /\ to \in Nat
  <2>1. m \in Messages
    BY <1>2 DEF Messages
  <2>2. q \in Seq(Messages)
    BY <1>2 DEF Types
  <2> QED
    BY <1>2, <2>1, <2>2, BroadcastAssumption
<1>4. \A v \in Workers : Walking(v)' <=> Walking(v)
  BY <1>1 DEF Walking, Types
<1>5. /\ doing'[w] = "next"
      /\ \A v \in Workers : v # w => doing'[v] = doing[v]
  BY <1>1 DEF Types
<1>6. ~Has(to, m)
  <2>1. ~Passed(w, to)
    BY <1>1, <1>3 DEF Passed
  <2> QED
    BY <1>1, <1>2, <2>1 DEF WalkInv, GivenIsPassed, Walking
<1>7. CarriesLast'
  BY <1>1, <1>2, <1>4, <1>5 DEF WalkInv, CarriesLast
<1>8. \A a \in Sessions : a # to => inbox'[a] = inbox[a]
  BY <1>1 DEF Types
<1>9. CASE to \notin connected
  <2>1. inbox' = inbox
    BY <1>1, <1>9
  <2>2. NothingAhead' /\ Ordered'
    BY <1>1, <2>1 DEF WalkInv, NothingAhead, Ordered
  <2>3. \A v \in Workers, a \in Sessions : Passed(v, a) => Passed(v, a)'
    BY <1>1, <1>3, <1>5, BroadcastAssumption DEF Passed
  <2>4. \A v \in Workers, a \in Sessions : a # to /\ Passed(v, a)' => Passed(v, a)
    BY <1>1, <1>3, <1>5, BroadcastAssumption DEF Passed
  <2>5. \A v \in Workers, a \in Sessions : v # w /\ Passed(v, a)' => Passed(v, a)
    BY <1>1, <1>5 DEF Passed
  <2>6. \A v \in Workers, a \in Sessions : Has(a, message[v])' <=> Has(a, message[v])
    BY <1>1, <2>1 DEF Has
  <2>7. GivenIsPassed'
    BY <1>4, <2>3, <2>6 DEF WalkInv, GivenIsPassed
  <2>8. to \notin stayed[w]
    BY <1>1, <1>9 DEF WalkInv, PassedIsGiven, Walking
  <2>9. \A v \in Workers : stayed'[v] = stayed[v] /\ stayed[v] \subseteq Sessions
    BY <1>1 DEF Types
  <2>10. PassedIsGiven'
    BY <1>1, <1>4, <2>4, <2>5, <2>6, <2>8, <2>9 DEF WalkInv, PassedIsGiven
  <2> QED
    BY <1>7, <2>2, <2>7, <2>10 DEF WalkInv
<1>10. CASE to \in connected
  <2>1. inbox'[to] = Append(q, m)
    BY <1>1, <1>2, <1>10 DEF Types
  <2>2. /\ DOMAIN inbox'[to] = DOMAIN q \cup {Len(q) + 1}
        /\ inbox'[to][Len(q) + 1] = m
        /\ \A k \in DOMAIN q : /\ inbox'[to][k] = q[k] /\ q[k] \in Messages
                               /\ k \in Nat /\ k < Len(q) + 1
    BY <1>3, <2>1, AppendPlaces
  <2>3. \A k \in DOMAIN q : /\ q[k][1] \in Sessions /\ q[k][2] \in Nat
                            /\ q[k] = <<q[k][1], q[k][2]>>
                            /\ q[k][2] <= sent[q[k][1]] /\ q[k] # m
    BY <1>2, <1>6, <2>2 DEF WalkInv, NothingAhead, Has, Messages
  <2>4. NothingAhead'
    <3>1. ASSUME NEW a \in Sessions, NEW k \in DOMAIN inbox'[a]
          PROVE  inbox'[a][k][2] <= sent'[inbox'[a][k][1]]
      <4>1. CASE a # to
        BY <1>1, <1>8, <4>1 DEF WalkInv, NothingAhead
      <4>2. CASE a = to
        BY <1>1, <1>2, <2>2, <2>3, <4>2
      <4> QED
        BY <4>1, <4>2
    <3> QED
      BY <3>1 DEF NothingAhead
  <2>5. \A k \in DOMAIN q : q[k][1] = m[1] => q[k][2] < m[2]
    BY <1>2, <2>3
  <2>6. Ordered'
    <3>1. ASSUME NEW a \in Sessions, NEW j \in DOMAIN inbox'[a],
                 NEW k \in DOMAIN inbox'[a], j < k,
                 inbox'[a][j][1] = inbox'[a][k][1]
          PROVE  inbox'[a][j][2] < inbox'[a][k][2]
      <4>1. CASE a # to
        BY <1>8, <3>1, <4>1 DEF WalkInv, Ordered
      <4>2. CASE a = to
        <5>1. j \in DOMAIN q
          <6>1. Len(q) \in Nat
            BY <1>3
          <6> QED
            BY <2>2, <3>1, <4>2, <6>1
        <5>2. CASE k \in DOMAIN q
          BY <1>2, <2>2, <3>1, <4>2, <5>1, <5>2 DEF WalkInv, Ordered
        <5>3. CASE k = Len(q) + 1
          BY <2>2, <2>5, <3>1, <4>2, <5>1, <5>3
        <5> QED
          BY <2>2, <4>2, <5>2, <5>3
      <4> QED
        BY <4>1, <4>2
    <3> QED
      BY <3>1 DEF Ordered
  <2>7. \A v \in Workers, a \in Sessions :
          Has(a, message[v])' <=>
            Has(a, message[v]) \/ (a = to /\ message[v] = m)
    <3>1. ASSUME NEW v \in Workers, NEW a \in Sessions, a # to
          PROVE  Has(a, message[v])' <=> Has(a, message[v])
      BY <1>1, <1>8, <3>1 DEF Has
    <3>2. ASSUME NEW v \in Workers
          PROVE  Has(to, message[v])' <=> Has(to, message[v]) \/ message[v] = m
      <4>1. Has(to, message[v])' <=>
              \E k \in DOMAIN inbox'[to] : inbox'[to][k] = message[v]
        BY <1>1 DEF Has
      <4>2. (\E k \in DOMAIN inbox'[to] : inbox'[to][k] = message[v]) <=>
              (\E k \in DOMAIN q : q[k] = message[v]) \/ message[v] = m
        BY <2>2
      <4> QED
        BY <4>1, <4>2 DEF Has
    <3>3. ASSUME NEW v \in Workers, NEW a \in Sessions
          PROVE  Has(a, message[v])' <=>
                   Has(a, message[v]) \/ (a = to /\ message[v] = m)
      <4>1. CASE a = to
        BY <1>1, <3>2, <4>1 DEF Has
      <4>2. CASE a # to
        BY <3>1, <4>2
      <4> QED
        BY <4>1, <4>2
    <3> QED
      BY <3>3
  <2>8. \A v \in Workers, a \in Sessions : Passed(v, a) => Passed(v, a)'
    BY <1>1, <1>3, <1>5, BroadcastAssumption DEF Passed
  <2>9. \A v \in Workers, a \in Sessions : a # to /\ Passed(v, a)' => Passed(v, a)
    BY <1>1, <1>3, <1>5, BroadcastAssumption DEF Passed
  <2>10. \A v \in Workers, a \in Sessions : v # w /\ Passed(v, a)' => Passed(v, a)
    BY <1>1, <1>5 DEF Passed
  <2>11. \A v \in Workers : Walking(v) /\ message[v] = m => v = w
    BY <1>1, <1>2 DEF WalkInv, CarriesLast, WalksAlone, Walking
  <2>12. Passed(w, to)'
    BY <1>1, <1>3, <1>5 DEF Passed
  <2>13. \A v \in Workers : /\ message'[v] = message[v]
                            /\ stayed'[v] = stayed[v] /\ stayed[v] \subseteq Sessions
    BY <1>1 DEF Types
  <2>14. GivenIsPassed'
    <3>1. ASSUME NEW v \in Workers, Walking(v), NEW a \in Sessions,
                 Has(a, message[v]) \/ (a = to /\ message[v] = m)
          PROVE  Passed(v, a)'
      <4>1. CASE Has(a, message[v])
        <5>1. Passed(v, a)
          BY <3>1, <4>1 DEF WalkInv, GivenIsPassed
        <5> QED
          BY <2>8, <5>1
      <4>2. CASE a = to /\ message[v] = m
        <5>1. v = w
          BY <2>11, <3>1, <4>2
        <5> QED
          BY <1>1, <2>12, <4>2, <5>1 DEF Passed
      <4> QED
        BY <3>1, <4>1, <4>2
    <3>2. \A v \in Workers, a \in Sessions :
            Has(a, message[v])' => Has(a, message[v]) \/ (a = to /\ message[v] = m)
      BY <2>7
    <3> QED
      BY <1>4, <3>1, <3>2 DEF GivenIsPassed
  <2>15. PassedIsGiven'
    <3>1. ASSUME NEW v \in Workers, Walking(v), NEW a \in stayed[v], Passed(v, a)'
          PROVE  Has(a, message[v])'
      <4>1. a \in Sessions
        BY <2>13, <3>1
      <4>2. CASE v = w /\ a = to
        BY <1>1, <2>7, <4>1, <4>2
      <4>3. CASE v # w \/ a # to
        <5>1. Passed(v, a)
          BY <2>9, <2>10, <3>1, <4>1, <4>3
        <5>2. Has(a, message[v])
          BY <3>1, <5>1 DEF WalkInv, PassedIsGiven
        <5> QED
          BY <1>1, <2>7, <4>1, <5>2
      <4> QED
        BY <4>2, <4>3
    <3>2. \A v \in Workers : Walking(v) => stayed[v] \subseteq listed \cap connected
      BY DEF WalkInv, PassedIsGiven
    <3> QED
      BY <1>1, <1>4, <2>13, <3>1, <3>2 DEF PassedIsGiven
  <2> QED
    BY <1>7, <2>4, <2>6, <2>14, <2>15 DEF WalkInv
<1> QED
  BY <1>9, <1>10

\* The iterator goes on: of those that stayed, which are all listed, it
\* skips none.
LEMMA AdvanceKeepsWalks ==
  ASSUME BroadcastInv, NEW w \in Workers, Advance(w)
  PROVE  WalkInv'
<1> USE DEF BroadcastInv
<1>1. /\ doing[w] = "next"
      /\ cursor' = [cursor EXCEPT ![w] = Following(cursor[w])]
      /\ doing' = [doing EXCEPT ![w] = "walk"]
      /\ UNCHANGED <<listed, connected, sent, inbox, subject, message, stayed>>
  BY DEF Advance
<1>2. cursor[w] \in Sessions /\ cursor[w] \in Nat
  BY <1>1, BroadcastAssumption DEF WalkInv, CarriesLast, Walking
<1>3. \A v \in Workers : Walking(v)' <=> Walking(v)
  BY <1>1 DEF Walking, Types
<1>4. /\ doing'[w] = "walk" /\ cursor'[w] = Following(cursor[w])
      /\ \A v \in Workers : v # w => doing'[v] = doing[v] /\ cursor'[v] = cursor[v]
  BY <1>1 DEF Types
<1>5. \A a \in Sessions : a \in Nat
  BY BroadcastAssumption
<1>6. \/ /\ Following(cursor[w]) = None
         /\ \A s \in listed : s <= cursor[w]
      \/ /\ Following(cursor[w]) \in listed
         /\ cursor[w] < Following(cursor[w])
         /\ \A s \in listed : cursor[w] < s => Following(cursor[w]) <= s
  BY <1>2, FollowingIsNext DEF Types
<1>7. \A a \in Sessions : Passed(w, a) => Passed(w, a)'
  <2>1. CASE Following(cursor[w]) = None
    BY <1>4, <2>1 DEF Passed
  <2>2. CASE Following(cursor[w]) \in listed /\ cursor[w] < Following(cursor[w])
    <3>1. Following(cursor[w]) \in Nat
      BY <1>5, <2>2 DEF Types
    <3> QED
      BY <1>1, <1>2, <1>4, <1>5, <2>2, <3>1 DEF Passed
  <2> QED
    BY <1>6, <2>1, <2>2
<1>8. \A a \in listed : Passed(w, a)' => Passed(w, a)
  <2>0. listed \subseteq Sessions
    BY DEF Types
  <2>1. CASE \A s \in listed : s <= cursor[w]
    BY <1>1, <2>1 DEF Passed
  <2>2. CASE /\ Following(cursor[w]) \in listed
             /\ \A s \in listed : cursor[w] < s => Following(cursor[w]) <= s
    <3>1. Following(cursor[w]) \in Nat /\ Following(cursor[w]) # None
      BY <1>5, <2>0, <2>2, BroadcastAssumption
    <3> QED
      BY <1>1, <1>2, <1>4, <1>5, <2>0, <2>2, <3>1 DEF Passed
  <2> QED
    BY <1>6, <2>1, <2>2
<1>9. \A v \in Workers, a \in Sessions : v # w => (Passed(v, a)' <=> Passed(v, a))
  BY <1>4 DEF Passed
<1>10. \A v \in Workers, a \in Sessions : Has(a, message[v])' <=> Has(a, message[v])
  BY <1>1 DEF Has
<1>11. CarriesLast'
  BY <1>1, <1>3, <1>4 DEF WalkInv, CarriesLast
<1>12. NothingAhead' /\ Ordered'
  BY <1>1 DEF WalkInv, NothingAhead, Ordered
<1>13. GivenIsPassed'
  BY <1>3, <1>7, <1>9, <1>10 DEF WalkInv, GivenIsPassed
<1>14. PassedIsGiven'
  <2>1. \A v \in Workers : /\ stayed'[v] = stayed[v] /\ stayed[v] \subseteq Sessions
                           /\ Walking(v) => stayed[v] \subseteq listed \cap connected
    BY <1>1 DEF Types, WalkInv, PassedIsGiven
  <2>2. ASSUME NEW v \in Workers, Walking(v), NEW a \in stayed[v], Passed(v, a)'
        PROVE  Has(a, message[v])'
    <3>1. a \in Sessions /\ a \in listed
      BY <2>1, <2>2
    <3>2. Passed(v, a)
      BY <1>8, <1>9, <2>2, <3>1
    <3> QED
      BY <1>10, <2>2, <3>1, <3>2 DEF WalkInv, PassedIsGiven
  <2> QED
    BY <1>1, <1>3, <2>1, <2>2 DEF PassedIsGiven
<1> QED
  BY <1>11, <1>12, <1>13, <1>14 DEF WalkInv

\* Every step keeps what the walks have done.
LEMMA WalkKept ==
  ASSUME BroadcastInv, Next
  PROVE  WalkInv'
<1> USE DEF BroadcastInv
<1>1. ASSUME NEW s \in Sessions, Drop(s) PROVE WalkInv'
  BY <1>1, OffWalk DEF Drop, Walking, Types, WalkInv, PassedIsGiven
<1>2. ASSUME NEW w \in Workers, NEW s \in Sessions, Add(w, s) PROVE WalkInv'
  BY <1>2, OffWalk DEF Add, Enter, walks, Walking, Types, WalkInv, PassedIsGiven
<1>3. ASSUME NEW w \in Workers, NEW s \in Sessions, Remove(w, s) PROVE WalkInv'
  BY <1>3, OffWalk DEF Remove, Enter, walks, Walking, Types, WalkInv, PassedIsGiven
<1>4. ASSUME NEW w \in Workers, Inserted(w) PROVE WalkInv'
  BY <1>4, OffWalk DEF Inserted, Idle, walks, Walking, Types, WalkInv, PassedIsGiven
<1>5. ASSUME NEW w \in Workers, Erased(w) PROVE WalkInv'
  <2>1. subject[w] \notin connected
    BY <1>5 DEF Erased, TokenInv
  <2> QED
    BY <1>5, <2>1, OffWalk
    DEF Erased, Idle, walks, Walking, Types, WalkInv, PassedIsGiven
<1>6. ASSUME NEW w \in Workers, Done(w) PROVE WalkInv'
  BY <1>6, OffWalk DEF Done, Idle, Walking, Types, WalkInv, PassedIsGiven
<1> QED
  BY <1>1, <1>2, <1>3, <1>4, <1>5, <1>6, ReceiveKeepsWalks, SendKeepsWalks,
     AdvanceKeepsWalks DEF Next

\* Every step keeps the invariant.
LEMMA NextKeepsBroadcast == BroadcastInv /\ [Next]_vars => BroadcastInv'
<1> SUFFICES ASSUME BroadcastInv, [Next]_vars PROVE BroadcastInv'
  OBVIOUS
<1>1. CASE UNCHANGED vars
  BY <1>1 DEF vars, walks, BroadcastInv, Types, TokenInv, InsertsAlone, WalksAlone,
              Added, Walking, WalkInv, CarriesLast, NothingAhead, Ordered,
              GivenIsPassed, PassedIsGiven, Has, Passed
<1>2. CASE Next
  BY <1>2, TypesKept, TokenKept, WalkKept DEF BroadcastInv
<1> QED
  BY <1>1, <1>2

\* A message that is in an inbox in its sender's order is there once.
LEMMA InvGivesStayers == BroadcastInv => StayersGetIt
<1> SUFFICES ASSUME BroadcastInv, NEW w \in Workers, Walking(w)
             PROVE  /\ \A s \in Sessions : CountOf(s, message[w]) <= 1
                    /\ cursor[w] = None =>
                         \A s \in stayed[w] : CountOf(s, message[w]) = 1
  BY DEF StayersGetIt
<1> DEFINE Places(s) == {k \in DOMAIN inbox[s] : inbox[s][k] = message[w]}
<1>1. \A s \in Sessions : CountOf(s, message[w]) = Cardinality(Places(s))
  BY DEF CountOf
<1>2. message[w] \in Messages
  <2>1. message[w] = <<subject[w], sent[subject[w]]>> /\ subject[w] \in Sessions
    BY DEF BroadcastInv, WalkInv, CarriesLast, TokenInv, Walking
  <2> QED
    BY <2>1 DEF BroadcastInv, Types, Messages
<1>3. ASSUME NEW s \in Sessions, NEW j \in Places(s), NEW k \in Places(s)
      PROVE  j = k
  <2>1. j \in Nat /\ k \in Nat
    BY DEF BroadcastInv, Types
  <2>2. message[w][2] \in Nat
    BY <1>2 DEF Messages
  <2>3. ~(j < k) /\ ~(k < j)
    BY <1>3, <2>2 DEF BroadcastInv, WalkInv, Ordered
  <2> QED
    BY <2>1, <2>3
<1>4. ASSUME NEW s \in Sessions, Places(s) # {}
      PROVE  Cardinality(Places(s)) = 1
  <2>1. PICK k \in Places(s) : Places(s) = {k}
    BY <1>3, <1>4
  <2> QED
    BY <2>1, FS_Singleton
<1>5. \A s \in Sessions : CountOf(s, message[w]) <= 1
  <2>1. ASSUME NEW s \in Sessions PROVE Cardinality(Places(s)) <= 1
    <3>1. CASE Places(s) = {}
      BY <3>1, FS_EmptySet
    <3> QED
      BY <1>4, <3>1
  <2> QED
    BY <1>1, <2>1
<1>6. ASSUME cursor[w] = None, NEW s \in stayed[w]
      PROVE  CountOf(s, message[w]) = 1
  <2>1. s \in Sessions
    BY <1>6 DEF BroadcastInv, Types
  <2>2. doing[w] = "walk"
    BY <1>6, BroadcastAssumption DEF BroadcastInv, WalkInv, CarriesLast, Walking
  <2>3. Has(s, message[w])
    BY <1>6, <2>2 DEF BroadcastInv, WalkInv, PassedIsGiven, Passed
  <2>4. Places(s) # {}
    BY <2>3 DEF Has
  <2> QED
    BY <1>1, <1>4, <2>1, <2>4
<1> QED
  BY <1>5, <1>6

\* The invariant holds in every reachable state of the list and its walks.
THEOREM BroadcastInvariance == Spec => []BroadcastInv
BY InitBroadcast, NextKeepsBroadcast, PTL DEF Spec

\* Each receiver gets one sender's messages in the order they were received,
\* for any number of sessions and of workers that broadcast at once
\* (ProcessRecv, Session.cpp:243-255).
THEOREM SendersStayInOrder == Spec => []SenderOrder
<1>1. BroadcastInv => SenderOrder
  BY DEF BroadcastInv, WalkInv, Ordered, SenderOrder
<1> QED
  BY <1>1, BroadcastInvariance, PTL

\* A broadcast reaches nobody twice and everybody who was there throughout
\* once, whoever comes and goes (Broadcast, GameSessionManager.cpp:22-25).
THEOREM StayersAlwaysGetIt == Spec => []StayersGetIt
BY InvGivesStayers, BroadcastInvariance, PTL
=============================================================================
