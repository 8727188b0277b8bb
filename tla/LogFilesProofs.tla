---------------------------- MODULE LogFilesProofs ----------------------------
(***************************************************************************)
(* Proofs about what the log writes, for texts of any length over any      *)
(* characters: the files hold the lines of their records and no others, a  *)
(* converted text reads back, the CSV loop doubles the quotes, and every   *)
(* number gives a file its own name.                                       *)
(*                                                                         *)
(* FlattenSeq, the tokens of csvFormat and decimal are recursive           *)
(* functions.  What they give for every sequence or number is proved by    *)
(* induction on sets: the numbers for which it holds are a set that has 0  *)
(* and, with a number, the next, so it has all of them.                    *)
(***************************************************************************)
EXTENDS LogFiles, RollingLogProofs, SequenceTheorems

-----------------------------------------------------------------------------
(* Joining three sequences in either order. Kept behind a name, since provers *)
(* that see the equation go on joining for ever.                              *)

Associates(x, y, z) == (x \o y) \o z = x \o (y \o z)

LEMMA Joined ==
  ASSUME NEW C, NEW x \in Seq(C), NEW y \in Seq(C), NEW z \in Seq(C)
  PROVE  Associates(x, y, z)
  BY ConcatAssociative DEF Associates

-----------------------------------------------------------------------------
(* Induction, and flattening. *)

\* A set that holds the empty sequence and, with each sequence over C, that sequence
\* with one more element, holds every sequence over C.
LEMMA SeqSetInduction ==
  ASSUME NEW C, NEW S, <<>> \in S,
         \A s \in Seq(C), c \in C : s \in S => Append(s, c) \in S
  PROVE  Seq(C) \subseteq S
  <1> DEFINE N == {n \in Nat : \A s \in Seq(C) : Len(s) = n => s \in S}
  <1>1. 0 \in N
    BY EmptySeq
  <1>2. ASSUME NEW n \in Nat, n \in N PROVE n + 1 \in N
    <2>1. SUFFICES ASSUME NEW s \in Seq(C), Len(s) = n + 1 PROVE s \in S
      OBVIOUS
    <2>2. s # <<>>
      BY <2>1, EmptySeq
    <2>3. PICK u \in Seq(C), c \in C : s = Append(u, c)
      BY <2>2, SequenceEmptyOrAppend
    <2>4. Len(u) = n
      BY <2>1, <2>3, AppendProperties, LenProperties
    <2>5. u \in S
      BY <1>2, <2>4
    <2>6. QED BY <2>3, <2>5
  <1>3. Nat \subseteq N
    BY <1>1, <1>2, NatSetInduction
  <1>4. QED BY <1>3, LenProperties

\* f holds the concatenations of the first elements of seqs, as FlattenSeq defines them.
Flattens(seqs, f) ==
  f = [i \in 1 .. Len(seqs) |-> IF i = 1 THEN seqs[i] ELSE f[i - 1] \o seqs[i]]

\* The definition of FlattenSeq has a solution,
LEMMA FlattenExists ==
  ASSUME NEW C, NEW seqs \in Seq(Seq(C))
  PROVE  \E f \in [1 .. Len(seqs) -> Seq(C)] : Flattens(seqs, f)
  <1> DEFINE Good(n, f) ==
               \A i \in 1 .. n : f[i] = IF i = 1 THEN seqs[i] ELSE f[i - 1] \o seqs[i]
             Prefix(n) == n <= Len(seqs) => \E f \in [1 .. n -> Seq(C)] : Good(n, f)
             S == {n \in Nat : Prefix(n)}
  <1>1. Len(seqs) \in Nat /\ \A i \in 1 .. Len(seqs) : seqs[i] \in Seq(C)
    BY LenProperties
  <1>2. Prefix(0)
    <2> DEFINE f == [i \in 1 .. 0 |-> <<>>]
    <2>1. f \in [1 .. 0 -> Seq(C)] /\ Good(0, f)
      OBVIOUS
    <2>2. QED BY <2>1
  <1>3. ASSUME NEW n \in Nat, Prefix(n) PROVE Prefix(n + 1)
    <2>1. SUFFICES ASSUME n + 1 <= Len(seqs)
                   PROVE  \E f \in [1 .. n + 1 -> Seq(C)] : Good(n + 1, f)
      BY Zenon
    <2>2. PICK f \in [1 .. n -> Seq(C)] : Good(n, f)
      <3>1. n <= Len(seqs)
        BY <1>1, <2>1
      <3>2. QED BY <1>3, <3>1
    <2> DEFINE e == IF n = 0 THEN seqs[1] ELSE f[n] \o seqs[n + 1]
               g == [i \in 1 .. n + 1 |-> IF i <= n THEN f[i] ELSE e]
    <2>3. e \in Seq(C)
      BY <1>1, <2>1, ConcatProperties
    <2>4. g \in [1 .. n + 1 -> Seq(C)]
      BY <2>3
    <2>5. Good(n + 1, g)
      <3>1. ASSUME NEW i \in 1 .. n + 1
            PROVE g[i] = IF i = 1 THEN seqs[i] ELSE g[i - 1] \o seqs[i]
        <4>0. g[i] = (IF i <= n THEN f[i] ELSE e) /\ (i # 1 => g[i - 1] = f[i - 1])
          OBVIOUS
        <4>1. CASE i <= n
          <5>1. f[i] = IF i = 1 THEN seqs[i] ELSE f[i - 1] \o seqs[i]
            <6>1. i \in 1 .. n
              BY <4>1
            <6> HIDE DEF g, e
            <6>2. QED BY <2>2, <6>1
          <5> HIDE DEF g, e
          <5>2. QED BY <4>0, <4>1, <5>1
        <4>2. CASE i = n + 1
          <5>1. g[i] = e
            BY <4>0, <4>2
          <5>2. n # 0 => g[i - 1] = f[n]
            BY <4>0, <4>2
          <5> HIDE DEF g
          <5>3. QED BY <4>2, <5>1, <5>2
        <4>3. QED BY <4>1, <4>2
      <3>2. QED BY <3>1
    <2>6. QED BY <2>4, <2>5
  <1>4. Nat \subseteq S
    <2>1. 0 \in S /\ \A n \in Nat : n \in S => n + 1 \in S
      <3> HIDE DEF Prefix
      <3>1. QED BY <1>2, <1>3
    <2>2. QED BY <2>1, NatSetInduction
  <1>5. Prefix(Len(seqs))
    <2> HIDE DEF Prefix
    <2>1. QED BY <1>1, <1>4
  <1>6. PICK f \in [1 .. Len(seqs) -> Seq(C)] : Good(Len(seqs), f)
    BY <1>1, <1>5
  <1>7. f = [i \in 1 .. Len(seqs) |-> IF i = 1 THEN seqs[i] ELSE f[i - 1] \o seqs[i]]
    BY <1>6
  <1>8. QED BY <1>7 DEF Flattens

\* each of its values follows from the one before,
LEMMA FlattenStep ==
  ASSUME NEW C, NEW seqs \in Seq(Seq(C)), NEW f, Flattens(seqs, f),
         NEW n \in 1 .. Len(seqs)
  PROVE  f[n] = IF n = 1 THEN seqs[n] ELSE f[n - 1] \o seqs[n]
  <1> DEFINE g == [i \in 1 .. Len(seqs) |-> IF i = 1 THEN seqs[i] ELSE f[i - 1] \o seqs[i]]
  <1>1. g[n] = IF n = 1 THEN seqs[n] ELSE f[n - 1] \o seqs[n]
    OBVIOUS
  <1>2. f = g
    BY DEF Flattens
  <1> HIDE DEF g
  <1>3. QED BY <1>1, <1>2

\* so any two solutions agree,
LEMMA FlattenUnique ==
  ASSUME NEW C, NEW s \in Seq(Seq(C)), NEW f, NEW g, Flattens(s, f), Flattens(s, g)
  PROVE  \A i \in 1 .. Len(s) : f[i] = g[i]
  <1> DEFINE S == {n \in Nat : n \in 1 .. Len(s) => f[n] = g[n]}
  <1>1. 0 \in S
    OBVIOUS
  <1>2. ASSUME NEW n \in Nat, n \in S PROVE n + 1 \in S
    <2>1. SUFFICES ASSUME n + 1 \in 1 .. Len(s) PROVE f[n + 1] = g[n + 1]
      OBVIOUS
    <2>2. (n + 1) - 1 = n
      OBVIOUS
    <2>3. f[n + 1] = IF n + 1 = 1 THEN s[n + 1] ELSE f[n] \o s[n + 1]
      <3>1. f[n + 1] = IF n + 1 = 1 THEN s[n + 1] ELSE f[(n + 1) - 1] \o s[n + 1]
        BY <2>1, FlattenStep
      <3>2. QED BY <2>2, <3>1
    <2>4. g[n + 1] = IF n + 1 = 1 THEN s[n + 1] ELSE g[n] \o s[n + 1]
      <3>1. g[n + 1] = IF n + 1 = 1 THEN s[n + 1] ELSE g[(n + 1) - 1] \o s[n + 1]
        BY <2>1, FlattenStep
      <3>2. QED BY <2>2, <3>1
    <2>5. n + 1 # 1 => f[n] = g[n]
      <3>1. Len(s) \in Nat
        BY LenProperties
      <3>2. QED BY <1>2, <2>1, <3>1
    <2>6. QED BY <2>3, <2>4, <2>5
  <1>3. Nat \subseteq S
    BY <1>1, <1>2, NatSetInduction
  <1>4. QED BY <1>3

\* and FlattenSeq is the last value of any solution.
LEMMA FlattenValue ==
  ASSUME NEW C, NEW s \in Seq(Seq(C)), Len(s) # 0, NEW f, Flattens(s, f)
  PROVE  FlattenSeq(s) = f[Len(s)]
  <1> DEFINE h == CHOOSE h : Flattens(s, h)
  <1>1. Flattens(s, h)
    OBVIOUS
  <1>2. Len(s) \in 1 .. Len(s)
    BY LenProperties
  <1>3. FlattenSeq(s) = h[Len(s)]
    BY DEF FlattenSeq, Flattens
  <1> HIDE DEF h
  <1>4. QED BY <1>1, <1>2, <1>3, FlattenUnique

\* No sequences make the empty one.
LEMMA FlattenEmpty == FlattenSeq(<<>>) = <<>>
  BY DEF FlattenSeq

\* Sequences over C make a sequence over C.
LEMMA FlattenType ==
  ASSUME NEW C, NEW s \in Seq(Seq(C))
  PROVE  FlattenSeq(s) \in Seq(C)
  <1>1. Len(s) \in Nat
    BY LenProperties
  <1>2. PICK f \in [1 .. Len(s) -> Seq(C)] : Flattens(s, f)
    BY FlattenExists
  <1>3. CASE Len(s) = 0
    <2>1. FlattenSeq(s) = <<>>
      BY <1>3, EmptySeq DEF FlattenSeq
    <2>2. QED BY <2>1, EmptySeq
  <1>4. CASE Len(s) # 0
    <2>1. FlattenSeq(s) = f[Len(s)]
      BY <1>2, <1>4, FlattenValue
    <2>2. Len(s) \in 1 .. Len(s)
      BY <1>1, <1>4
    <2>3. QED BY <2>1, <2>2
  <1>5. QED BY <1>3, <1>4

\* One more sequence comes last.
LEMMA FlattenAppend ==
  ASSUME NEW C, NEW s \in Seq(Seq(C)), NEW e \in Seq(C)
  PROVE  FlattenSeq(Append(s, e)) = FlattenSeq(s) \o e
  <1> DEFINE t == Append(s, e)
  <1>1. /\ t \in Seq(Seq(C)) /\ Len(t) = Len(s) + 1 /\ Len(s) \in Nat
        /\ \A i \in 1 .. Len(s) : t[i] = s[i]
        /\ t[Len(s) + 1] = e
    BY AppendProperties, LenProperties
  <1> HIDE DEF t
  <1>2. PICK f \in [1 .. Len(s) -> Seq(C)] : Flattens(s, f)
    BY FlattenExists
  <1>3. FlattenSeq(s) = IF Len(s) = 0 THEN <<>> ELSE f[Len(s)]
    <2>1. Len(s) = 0 => FlattenSeq(s) = <<>>
      BY EmptySeq DEF FlattenSeq
    <2>2. Len(s) # 0 => FlattenSeq(s) = f[Len(s)]
      BY <1>2, FlattenValue
    <2>3. QED BY <2>1, <2>2
  <1> DEFINE whole == FlattenSeq(s) \o e
             g == [i \in 1 .. Len(t) |-> IF i <= Len(s) THEN f[i] ELSE whole]
  <1>4. \A i \in 1 .. Len(t) : g[i] = IF i = 1 THEN t[i] ELSE g[i - 1] \o t[i]
    <2> SUFFICES ASSUME NEW i \in 1 .. Len(t)
                 PROVE  g[i] = IF i = 1 THEN t[i] ELSE g[i - 1] \o t[i]
      OBVIOUS
    <2>1. /\ g[i] = IF i <= Len(s) THEN f[i] ELSE whole
          /\ i # 1 => g[i - 1] = f[i - 1]
      BY <1>1
    <2> HIDE DEF g, whole
    <2>2. CASE i <= Len(s)
      <3>1. i \in 1 .. Len(s)
        BY <1>1, <2>2
      <3>2. f[i] = IF i = 1 THEN s[i] ELSE f[i - 1] \o s[i]
        BY <1>2, <3>1, FlattenStep
      <3>3. t[i] = s[i]
        BY <1>1, <3>1
      <3>4. QED BY <2>1, <2>2, <3>2, <3>3
    <2>3. CASE i = Len(s) + 1
      <3>1. g[i] = whole /\ t[i] = e
        BY <1>1, <2>1, <2>3
      <3>2. CASE Len(s) = 0
        <4>1. whole = e
          BY <1>3, <3>2, ConcatEmptySeq DEF whole
        <4>2. QED BY <2>3, <3>1, <3>2, <4>1
      <3>3. CASE Len(s) # 0
        <4>1. i # 1 /\ i - 1 = Len(s)
          BY <1>1, <2>3, <3>3
        <4>2. whole = f[Len(s)] \o e
          BY <1>3, <3>3 DEF whole
        <4>3. QED BY <2>1, <3>1, <4>1, <4>2
      <3>4. QED BY <3>2, <3>3
    <2>4. QED BY <1>1, <2>2, <2>3
  <1>5. Flattens(t, g)
    BY <1>4 DEF Flattens
  <1>6. g[Len(t)] = whole
    BY <1>1
  <1> HIDE DEF g
  <1>7. FlattenSeq(t) = g[Len(t)]
    BY <1>1, <1>5, FlattenValue
  <1>8. QED BY <1>6, <1>7 DEF t

\* One sequence makes itself.
LEMMA FlattenOne ==
  ASSUME NEW C, NEW e \in Seq(C)
  PROVE  FlattenSeq(<<e>>) = e
  <1>1. <<>> \in Seq(Seq(C)) /\ Append(<<>>, e) = <<e>>
    BY EmptySeq
  <1>2. FlattenSeq(<<e>>) = <<>> \o e
    BY <1>1, FlattenAppend, FlattenEmpty
  <1>3. QED BY <1>2, ConcatEmptySeq

\* What two lists of sequences make, one after the other.
LEMMA FlattenConcat ==
  ASSUME NEW C, NEW s \in Seq(Seq(C)), NEW t \in Seq(Seq(C))
  PROVE  FlattenSeq(s \o t) = FlattenSeq(s) \o FlattenSeq(t)
  <1> DEFINE S == {u \in Seq(Seq(C)) : FlattenSeq(s \o u) = FlattenSeq(s) \o FlattenSeq(u)}
  <1> HIDE DEF S
  <1>1. <<>> \in S
    <2>1. s \o <<>> = s
      BY ConcatEmptySeq
    <2>2. FlattenSeq(s) \o <<>> = FlattenSeq(s)
      BY FlattenType, ConcatEmptySeq
    <2>3. QED BY <2>1, <2>2, FlattenEmpty, EmptySeq DEF S
  <1>2. ASSUME NEW u \in Seq(Seq(C)), NEW e \in Seq(C), u \in S
        PROVE  Append(u, e) \in S
    <2>1. s \o u \in Seq(Seq(C)) /\ Append(u, e) \in Seq(Seq(C))
      BY ConcatProperties, AppendProperties
    <2>2. s \o Append(u, e) = Append(s \o u, e)
      <3>1. Append(u, e) = u \o <<e>> /\ <<e>> \in Seq(Seq(C))
        BY AppendIsConcat
      <3>2. Associates(s, u, <<e>>)
        BY <3>1, Joined
      <3>3. Append(s \o u, e) = (s \o u) \o <<e>>
        BY <2>1, AppendIsConcat
      <3>4. QED BY <3>1, <3>2, <3>3 DEF Associates
    <2>3. FlattenSeq(s \o Append(u, e)) = FlattenSeq(s \o u) \o e
      BY <2>1, <2>2, FlattenAppend
    <2>4. FlattenSeq(Append(u, e)) = FlattenSeq(u) \o e
      BY FlattenAppend
    <2>5. FlattenSeq(s \o u) = FlattenSeq(s) \o FlattenSeq(u)
      BY <1>2 DEF S
    <2>6. Associates(FlattenSeq(s), FlattenSeq(u), e)
      BY FlattenType, Joined
    <2>7. QED BY <2>1, <2>3, <2>4, <2>5, <2>6 DEF S, Associates
  <1>3. Seq(Seq(C)) \subseteq S
    BY <1>1, <1>2, SeqSetInduction
  <1>4. QED BY <1>3 DEF S

-----------------------------------------------------------------------------
(* Texts of characters. *)

\* The characters the code writes itself, besides those of the statements.
Symbols ==
  {"BOM", "lead", "trail", "wide", "\r", "\n", "a", "t1", "t2", "null", "(null)",
   "[", "]", ",", " ", "FATAL", "ERROR", "WARN", "INFO", "DEBUG", "VERB", "NONE"}
\* What a file may hold, and a text on its way there.
Byte == Characters \cup Symbols
\* What a text holds before the converters have seen it, its line feeds included,
Whole == Byte \ {"BOM", "lead", "trail"}
\* and without them.
Plain == Whole \ {"\n"}

\* How these sets lie in each other.
LEMMA CharSets ==
  /\ Plain \subseteq Whole /\ Whole \subseteq Byte /\ Plain \subseteq Byte
  /\ {"\r", "\n", "lead", "trail", "wide", "BOM"} \subseteq Byte
  BY DEF Whole, Plain, Byte, Symbols

\* A sequence of one character.
LEMMA OneChar ==
  ASSUME NEW C, NEW c \in C
  PROVE  /\ <<c>> \in Seq(C) /\ Len(<<c>>) = 1 /\ <<c>>[1] = c
         /\ DOMAIN <<c>> = {1}
  OBVIOUS

\* A sequence of two.
LEMMA TwoChars ==
  ASSUME NEW C, NEW c \in C, NEW d \in C
  PROVE  <<c, d>> \in Seq(C) /\ <<c, d>> = <<c>> \o <<d>>
  <1>1. <<c>> \in Seq(C) /\ <<d>> \in Seq(C) /\ <<c, d>> \in Seq(C)
    OBVIOUS
  <1>2. <<c>> \o <<d>> \in Seq(C) /\ Len(<<c>> \o <<d>>) = 2
        /\ (<<c>> \o <<d>>)[1] = c /\ (<<c>> \o <<d>>)[2] = d
    BY <1>1, ConcatProperties
  <1>3. Len(<<c, d>>) = 2 /\ <<c, d>>[1] = c /\ <<c, d>>[2] = d
    OBVIOUS
  <1>4. \A i \in 1 .. Len(<<c, d>>) : <<c, d>>[i] = (<<c>> \o <<d>>)[i]
    BY <1>2, <1>3
  <1>5. QED BY <1>1, <1>2, <1>3, <1>4, SeqEqual

\* A function on 1 .. n is a sequence of n elements.
LEMMA FunctionIsSeq ==
  ASSUME NEW D, NEW n \in Nat, NEW f \in [1 .. n -> D]
  PROVE  f \in Seq(D) /\ Len(f) = n
  BY SeqDef

\* Where the elements of x and of y are in x \o y.
LEMMA ConcatParts ==
  ASSUME NEW C, NEW x \in Seq(C), NEW y \in Seq(C)
  PROVE  /\ x \o y \in Seq(C)
         /\ Len(x) \in Nat /\ Len(y) \in Nat /\ Len(x \o y) = Len(x) + Len(y)
         /\ DOMAIN x = 1 .. Len(x) /\ DOMAIN y = 1 .. Len(y)
         /\ DOMAIN (x \o y) = 1 .. Len(x) + Len(y)
         /\ \A k \in 1 .. Len(x) : (x \o y)[k] = x[k] /\ x[k] \in C
         /\ \A k \in 1 .. Len(y) : (x \o y)[Len(x) + k] = y[k] /\ y[k] \in C
  <1>1. /\ x \o y \in Seq(C) /\ Len(x \o y) = Len(x) + Len(y)
        /\ \A i \in 1 .. Len(x) + Len(y) : (x \o y)[i] =
                IF i <= Len(x) THEN x[i] ELSE y[i - Len(x)]
    BY ConcatProperties
  <1>2. Len(x) \in Nat /\ Len(y) \in Nat
    BY LenProperties
  <1>3. /\ DOMAIN x = 1 .. Len(x) /\ DOMAIN y = 1 .. Len(y)
        /\ DOMAIN (x \o y) = 1 .. Len(x) + Len(y)
    BY <1>1, LenProperties
  <1>4. ASSUME NEW k \in 1 .. Len(x) PROVE (x \o y)[k] = x[k] /\ x[k] \in C
    <2>1. k \in 1 .. Len(x) + Len(y) /\ k <= Len(x)
      BY <1>2
    <2>2. QED BY <1>1, <2>1, ElementOfSeq
  <1>5. ASSUME NEW k \in 1 .. Len(y) PROVE (x \o y)[Len(x) + k] = y[k] /\ y[k] \in C
    <2>1. /\ Len(x) + k \in 1 .. Len(x) + Len(y) /\ ~(Len(x) + k <= Len(x))
          /\ (Len(x) + k) - Len(x) = k
      BY <1>2
    <2>2. (x \o y)[Len(x) + k] = y[(Len(x) + k) - Len(x)]
      BY <1>1, <2>1
    <2>3. QED BY <2>1, <2>2, ElementOfSeq
  <1>6. QED BY <1>1, <1>2, <1>3, <1>4, <1>5

\* h is f on its first m places and g on the n places after them.
Joins(h, f, m, g, n) ==
  /\ \A k \in 1 .. m : h[k] = f[k]
  /\ \A k \in 1 .. n : h[m + k] = g[k]

\* A function that begins like f and goes on like g is their concatenation.
LEMMA MapsConcat ==
  ASSUME NEW D, NEW m \in Nat, NEW n \in Nat,
         NEW f \in [1 .. m -> D], NEW g \in [1 .. n -> D], NEW h \in [1 .. m + n -> D],
         Joins(h, f, m, g, n)
  PROVE  h = f \o g
  <1>1. m + n \in Nat
    OBVIOUS
  <1>2. f \in Seq(D) /\ g \in Seq(D) /\ h \in Seq(D)
    BY <1>1, FunctionIsSeq
  <1>3. Len(f) = m /\ Len(g) = n /\ Len(h) = m + n
    BY <1>1, FunctionIsSeq
  <1>4. ASSUME NEW i \in 1 .. Len(h) PROVE h[i] = (f \o g)[i]
    <2>1. CASE i <= m
      <3>1. i \in 1 .. Len(f)
        BY <1>1, <1>3, <2>1
      <3>2. (f \o g)[i] = f[i]
        BY <1>2, <3>1, ConcatParts
      <3>3. QED BY <1>3, <3>1, <3>2 DEF Joins
    <2>2. CASE i > m
      <3>1. i - m \in 1 .. Len(g) /\ m + (i - m) = i
        BY <1>1, <1>3, <2>2
      <3>2. (f \o g)[Len(f) + (i - m)] = g[i - m]
        BY <1>2, <3>1, ConcatParts
      <3>3. h[m + (i - m)] = g[i - m]
        BY <1>3, <3>1 DEF Joins
      <3>4. QED BY <1>3, <3>1, <3>2, <3>3
    <2>3. QED BY <1>1, <1>3, <2>1, <2>2
  <1>5. f \o g \in Seq(D) /\ Len(f \o g) = Len(h)
    <2>1. f \o g \in Seq(D) /\ Len(f \o g) = Len(f) + Len(g)
      BY <1>2, ConcatProperties
    <2>2. QED BY <1>3, <2>1
  <1>6. QED BY <1>2, <1>4, <1>5, SeqEqual

-----------------------------------------------------------------------------
(* Functions that give texts. *)

\* A function that gives a sequence for each number up to n, flattened.
LEMMA FlattenMap ==
  ASSUME NEW C, NEW n \in Nat, NEW f \in [1 .. n -> Seq(C)]
  PROVE  FlattenSeq(f) \in Seq(C)
  BY FunctionIsSeq, FlattenType

-----------------------------------------------------------------------------
(* The converters. *)

\* fixLineEndings, character by character.
fixedAt(str, k) == IF str[k] = "\n" THEN <<"\r", "\n">> ELSE <<str[k]>>
fixed(str) == [k \in DOMAIN str |-> fixedAt(str, k)]

\* fixLineEndings flattens what it makes of each character,
LEMMA FixIs ==
  ASSUME NEW x \in Seq(Byte)
  PROVE  /\ fixed(x) \in [1 .. Len(x) -> Seq(Byte)]
         /\ fixLineEndings(x) = FlattenSeq(fixed(x))
         /\ fixLineEndings(x) \in Seq(Byte)
  <1>1. Len(x) \in Nat /\ DOMAIN x = 1 .. Len(x) /\ \A k \in 1 .. Len(x) : x[k] \in Byte
    BY LenProperties
  <1>2. \A k \in 1 .. Len(x) : fixedAt(x, k) \in Seq(Byte)
    <2>1. \A c \in Byte : <<c>> \in Seq(Byte)
      BY OneChar
    <2>2. <<"\r", "\n">> \in Seq(Byte)
      BY CharSets, TwoChars
    <2>3. QED BY <1>1, <2>1, <2>2 DEF fixedAt
  <1>3. fixed(x) \in [1 .. Len(x) -> Seq(Byte)]
    BY <1>1, <1>2 DEF fixed
  <1>4. fixLineEndings(x) = FlattenSeq(fixed(x))
    BY DEF fixLineEndings, fixed, fixedAt
  <1>5. QED BY <1>1, <1>3, <1>4, FlattenMap

\* so what it makes of two texts is what it makes of each,
LEMMA FixConcat ==
  ASSUME NEW x \in Seq(Byte), NEW y \in Seq(Byte)
  PROVE  fixLineEndings(x \o y) = fixLineEndings(x) \o fixLineEndings(y)
  <1>1. x \o y \in Seq(Byte) /\ Len(x) \in Nat /\ Len(y) \in Nat
        /\ Len(x \o y) = Len(x) + Len(y)
    BY ConcatParts
  <1>2. /\ fixed(x) \in [1 .. Len(x) -> Seq(Byte)]
        /\ fixed(y) \in [1 .. Len(y) -> Seq(Byte)]
        /\ fixed(x \o y) \in [1 .. Len(x) + Len(y) -> Seq(Byte)]
    BY <1>1, FixIs
  <1>3. Joins(fixed(x \o y), fixed(x), Len(x), fixed(y), Len(y))
    BY ConcatParts DEF Joins, fixed, fixedAt
  <1>4. fixed(x \o y) = fixed(x) \o fixed(y)
    BY <1>1, <1>2, <1>3, MapsConcat
  <1>5. fixed(x) \in Seq(Seq(Byte)) /\ fixed(y) \in Seq(Seq(Byte))
    BY <1>1, <1>2, FunctionIsSeq
  <1>6. FlattenSeq(fixed(x \o y)) = FlattenSeq(fixed(x)) \o FlattenSeq(fixed(y))
    BY <1>4, <1>5, FlattenConcat
  <1>7. QED BY <1>1, <1>6, FixIs

\* and of one character it makes one or, of a line feed, two.
LEMMA FixOne ==
  ASSUME NEW c \in Byte
  PROVE  fixLineEndings(<<c>>) = IF c = "\n" THEN <<"\r", "\n">> ELSE <<c>>
  <1> DEFINE e == IF c = "\n" THEN <<"\r", "\n">> ELSE <<c>>
  <1>1. fixed(<<c>>) = <<e>>
    BY DEF fixed, fixedAt
  <1>2. e \in Seq(Byte)
    BY OneChar, TwoChars, CharSets
  <1>3. <<c>> \in Seq(Byte)
    BY OneChar
  <1> HIDE DEF e
  <1>4. fixLineEndings(<<c>>) = FlattenSeq(<<e>>)
    BY <1>1, <1>3, FixIs
  <1>5. QED BY <1>2, <1>4, FlattenOne DEF e

\* toNarrow, character by character.
narrowAt(str, k) == IF str[k] = Wide THEN <<"lead", "trail">> ELSE <<str[k]>>
narrowed(str) == [k \in DOMAIN str |-> narrowAt(str, k)]

\* toNarrow flattens what it makes of each character,
LEMMA NarrowIs ==
  ASSUME NEW x \in Seq(Byte)
  PROVE  /\ narrowed(x) \in [1 .. Len(x) -> Seq(Byte)]
         /\ toNarrow(x) = FlattenSeq(narrowed(x))
         /\ toNarrow(x) \in Seq(Byte)
  <1>1. Len(x) \in Nat /\ DOMAIN x = 1 .. Len(x) /\ \A k \in 1 .. Len(x) : x[k] \in Byte
    BY LenProperties
  <1>2. \A k \in 1 .. Len(x) : narrowAt(x, k) \in Seq(Byte)
    <2>1. \A c \in Byte : <<c>> \in Seq(Byte)
      BY OneChar
    <2>2. <<"lead", "trail">> \in Seq(Byte)
      BY CharSets, TwoChars
    <2>3. QED BY <1>1, <2>1, <2>2 DEF narrowAt
  <1>3. narrowed(x) \in [1 .. Len(x) -> Seq(Byte)]
    BY <1>1, <1>2 DEF narrowed
  <1>4. toNarrow(x) = FlattenSeq(narrowed(x))
    BY DEF toNarrow, narrowed, narrowAt
  <1>5. QED BY <1>1, <1>3, <1>4, FlattenMap

\* so what it makes of two texts is what it makes of each,
LEMMA NarrowConcat ==
  ASSUME NEW x \in Seq(Byte), NEW y \in Seq(Byte)
  PROVE  toNarrow(x \o y) = toNarrow(x) \o toNarrow(y)
  <1>1. x \o y \in Seq(Byte) /\ Len(x) \in Nat /\ Len(y) \in Nat
        /\ Len(x \o y) = Len(x) + Len(y)
    BY ConcatParts
  <1>2. /\ narrowed(x) \in [1 .. Len(x) -> Seq(Byte)]
        /\ narrowed(y) \in [1 .. Len(y) -> Seq(Byte)]
        /\ narrowed(x \o y) \in [1 .. Len(x) + Len(y) -> Seq(Byte)]
    BY <1>1, NarrowIs
  <1>3. Joins(narrowed(x \o y), narrowed(x), Len(x), narrowed(y), Len(y))
    BY ConcatParts DEF Joins, narrowed, narrowAt
  <1>4. narrowed(x \o y) = narrowed(x) \o narrowed(y)
    BY <1>1, <1>2, <1>3, MapsConcat
  <1>5. narrowed(x) \in Seq(Seq(Byte)) /\ narrowed(y) \in Seq(Seq(Byte))
    BY <1>1, <1>2, FunctionIsSeq
  <1>6. FlattenSeq(narrowed(x \o y)) = FlattenSeq(narrowed(x)) \o FlattenSeq(narrowed(y))
    BY <1>4, <1>5, FlattenConcat
  <1>7. QED BY <1>1, <1>6, NarrowIs

\* and of one character it makes one byte or, outside ASCII, two.
LEMMA NarrowOne ==
  ASSUME NEW c \in Byte
  PROVE  toNarrow(<<c>>) = IF c = Wide THEN <<"lead", "trail">> ELSE <<c>>
  <1> DEFINE e == IF c = Wide THEN <<"lead", "trail">> ELSE <<c>>
  <1>1. narrowed(<<c>>) = <<e>>
    BY DEF narrowed, narrowAt
  <1>2. e \in Seq(Byte)
    BY OneChar, TwoChars, CharSets
  <1>3. <<c>> \in Seq(Byte)
    BY OneChar
  <1> HIDE DEF e
  <1>4. toNarrow(<<c>>) = FlattenSeq(<<e>>)
    BY <1>1, <1>3, NarrowIs
  <1>5. QED BY <1>2, <1>4, FlattenOne DEF e

\* The converters make bytes of a text,
LEMMA ConvertType == \A x \in Seq(Byte) : convert(x) \in Seq(Byte)
  BY FixIs, NarrowIs DEF convert

\* of two texts what they make of each,
LEMMA ConvertConcat ==
  ASSUME NEW x \in Seq(Byte), NEW y \in Seq(Byte)
  PROVE  convert(x \o y) = convert(x) \o convert(y)
  <1>1. fixLineEndings(x \o y) = fixLineEndings(x) \o fixLineEndings(y)
    BY FixConcat
  <1>2. fixLineEndings(x) \in Seq(Byte) /\ fixLineEndings(y) \in Seq(Byte)
    BY FixIs
  <1>3. toNarrow(fixLineEndings(x) \o fixLineEndings(y)) =
          toNarrow(fixLineEndings(x)) \o toNarrow(fixLineEndings(y))
    BY <1>2, NarrowConcat
  <1>4. QED BY <1>1, <1>3 DEF convert

\* of one character what its kind asks for,
LEMMA ConvertOne ==
  ASSUME NEW c \in Byte
  PROVE  convert(<<c>>) = IF c = "\n" THEN <<"\r", "\n">>
                          ELSE IF c = Wide THEN <<"lead", "trail">> ELSE <<c>>
  <1>1. CASE c = "\n"
    <2>1. fixLineEndings(<<c>>) = <<"\r", "\n">>
      BY <1>1, FixOne
    <2>2. <<"\r", "\n">> = <<"\r">> \o <<"\n">>
      BY CharSets, TwoChars
    <2>3. <<"\r">> \in Seq(Byte) /\ <<"\n">> \in Seq(Byte)
      BY CharSets, OneChar
    <2>4. toNarrow(<<"\r">> \o <<"\n">>) = toNarrow(<<"\r">>) \o toNarrow(<<"\n">>)
      BY <2>3, NarrowConcat
    <2>5. toNarrow(<<"\r">>) = <<"\r">> /\ toNarrow(<<"\n">>) = <<"\n">>
      BY CharSets, NarrowOne DEF Wide
    <2>6. QED BY <1>1, <2>1, <2>2, <2>4, <2>5 DEF convert
  <1>2. CASE c # "\n"
    <2>1. fixLineEndings(<<c>>) = <<c>>
      BY <1>2, FixOne
    <2>2. QED BY <1>2, <2>1, NarrowOne DEF convert
  <1>3. QED BY <1>1, <1>2

\* and nothing of nothing.
LEMMA ConvertEmpty == convert(<<>>) = <<>>
  <1>1. fixLineEndings(<<>>) = <<>>
    <2>1. [k \in DOMAIN <<>> |->
             IF <<>>[k] = "\n" THEN <<"\r", "\n">> ELSE <<<<>>[k]>>] = <<>>
      OBVIOUS
    <2>2. QED BY <2>1, FlattenEmpty DEF fixLineEndings
  <1>2. toNarrow(<<>>) = <<>>
    <2>1. [k \in DOMAIN <<>> |->
             IF <<>>[k] = Wide THEN <<"lead", "trail">> ELSE <<<<>>[k]>>] = <<>>
      OBVIOUS
    <2>2. QED BY <2>1, FlattenEmpty DEF toNarrow
  <1>3. QED BY <1>1, <1>2 DEF convert

-----------------------------------------------------------------------------
(* What a reader makes of bytes. *)

\* Two sequences make the one and then the other.
LEMMA FlattenTwo ==
  ASSUME NEW C, NEW d \in Seq(C), NEW e \in Seq(C)
  PROVE  FlattenSeq(<<d, e>>) = d \o e
  <1>1. <<d>> \in Seq(Seq(C)) /\ <<e>> \in Seq(Seq(C)) /\ <<d, e>> = <<d>> \o <<e>>
    BY OneChar, TwoChars
  <1>2. FlattenSeq(<<d>> \o <<e>>) = FlattenSeq(<<d>>) \o FlattenSeq(<<e>>)
    BY <1>1, FlattenConcat
  <1>3. QED BY <1>1, <1>2, FlattenOne

\* Shown, byte by byte.
shownAt(bytes, k) ==
  IF ~Kept(bytes, k) THEN <<>>
  ELSE IF bytes[k] = "lead" THEN <<Wide>> ELSE <<bytes[k]>>
shownAll(bytes) == [k \in DOMAIN bytes |-> shownAt(bytes, k)]

\* Shown flattens what a reader makes of each byte.
LEMMA ShownIs ==
  ASSUME NEW x \in Seq(Byte)
  PROVE  /\ shownAll(x) \in [1 .. Len(x) -> Seq(Byte)]
         /\ Shown(x) = FlattenSeq(shownAll(x))
         /\ Shown(x) \in Seq(Byte)
  <1>1. Len(x) \in Nat /\ DOMAIN x = 1 .. Len(x) /\ \A k \in 1 .. Len(x) : x[k] \in Byte
    BY LenProperties
  <1>2. \A k \in 1 .. Len(x) : shownAt(x, k) \in Seq(Byte)
    <2>1. \A c \in Byte : <<c>> \in Seq(Byte)
      BY OneChar
    <2>2. <<Wide>> \in Seq(Byte) /\ <<>> \in Seq(Byte)
      BY CharSets, OneChar, EmptySeq DEF Wide
    <2>3. QED BY <1>1, <2>1, <2>2 DEF shownAt
  <1>3. shownAll(x) \in [1 .. Len(x) -> Seq(Byte)]
    BY <1>1, <1>2 DEF shownAll
  <1>4. Shown(x) = FlattenSeq(shownAll(x))
    BY DEF Shown, shownAll, shownAt
  <1>5. QED BY <1>1, <1>3, <1>4, FlattenMap

\* A reader keeps the same bytes of two texts and of their concatenation: only a line
\* feed at the start of the second could hide a carriage return.
LEMMA KeptJoins ==
  ASSUME NEW x \in Seq(Byte), NEW y \in Seq(Byte), Len(y) > 0 => y[1] # "\n"
  PROVE  /\ \A k \in 1 .. Len(x) : Kept(x \o y, k) <=> Kept(x, k)
         /\ \A k \in 1 .. Len(y) : Kept(x \o y, Len(x) + k) <=> Kept(y, k)
  <1>1. /\ Len(x) \in Nat /\ Len(y) \in Nat /\ Len(x \o y) = Len(x) + Len(y)
        /\ \A k \in 1 .. Len(x) : (x \o y)[k] = x[k]
        /\ \A k \in 1 .. Len(y) : (x \o y)[Len(x) + k] = y[k]
    BY ConcatParts
  <1>2. ASSUME NEW k \in 1 .. Len(x) PROVE Kept(x \o y, k) <=> Kept(x, k)
    <2>1. (x \o y)[k] = x[k]
      BY <1>1
    <2>2. CASE k < Len(x)
      <3>1. k + 1 \in 1 .. Len(x) /\ k # Len(x) /\ k # Len(x) + Len(y)
        BY <1>1, <2>2
      <3>2. (x \o y)[k + 1] = x[k + 1]
        BY <1>1, <3>1
      <3>3. QED BY <1>1, <2>1, <3>1, <3>2 DEF Kept
    <2>3. CASE k = Len(x) /\ Len(y) = 0
      BY <1>1, <2>1, <2>3 DEF Kept
    <2>4. CASE k = Len(x) /\ Len(y) > 0
      <3>1. 1 \in 1 .. Len(y)
        BY <1>1, <2>4
      <3>2. (x \o y)[k + 1] = y[1]
        BY <1>1, <2>4, <3>1
      <3>3. QED BY <2>1, <2>4, <3>2 DEF Kept
    <2>5. QED BY <1>1, <2>2, <2>3, <2>4
  <1>3. ASSUME NEW k \in 1 .. Len(y) PROVE Kept(x \o y, Len(x) + k) <=> Kept(y, k)
    <2>1. (x \o y)[Len(x) + k] = y[k] /\ (Len(x) + k = Len(x \o y) <=> k = Len(y))
      BY <1>1
    <2>2. CASE k < Len(y)
      <3>1. k + 1 \in 1 .. Len(y) /\ (Len(x) + k) + 1 = Len(x) + (k + 1)
        BY <1>1, <2>2
      <3>2. (x \o y)[(Len(x) + k) + 1] = y[k + 1]
        BY <1>1, <3>1
      <3>3. QED BY <2>1, <3>2 DEF Kept
    <2>3. CASE k = Len(y)
      BY <2>1, <2>3 DEF Kept
    <2>4. QED BY <1>1, <2>2, <2>3
  <1>4. QED BY <1>2, <1>3

\* A reader makes of two such texts what he makes of each.
LEMMA ShownConcat ==
  ASSUME NEW x \in Seq(Byte), NEW y \in Seq(Byte), Len(y) > 0 => y[1] # "\n"
  PROVE  Shown(x \o y) = Shown(x) \o Shown(y)
  <1>1. x \o y \in Seq(Byte) /\ Len(x) \in Nat /\ Len(y) \in Nat
        /\ Len(x \o y) = Len(x) + Len(y)
    BY ConcatParts
  <1>2. /\ shownAll(x) \in [1 .. Len(x) -> Seq(Byte)]
        /\ shownAll(y) \in [1 .. Len(y) -> Seq(Byte)]
        /\ shownAll(x \o y) \in [1 .. Len(x) + Len(y) -> Seq(Byte)]
    BY <1>1, ShownIs
  <1>3. Joins(shownAll(x \o y), shownAll(x), Len(x), shownAll(y), Len(y))
    BY ConcatParts, KeptJoins DEF Joins, shownAll, shownAt
  <1>4. shownAll(x \o y) = shownAll(x) \o shownAll(y)
    BY <1>1, <1>2, <1>3, MapsConcat
  <1>5. shownAll(x) \in Seq(Seq(Byte)) /\ shownAll(y) \in Seq(Seq(Byte))
    BY <1>1, <1>2, FunctionIsSeq
  <1>6. FlattenSeq(shownAll(x \o y)) = FlattenSeq(shownAll(x)) \o FlattenSeq(shownAll(y))
    BY <1>4, <1>5, FlattenConcat
  <1>7. QED BY <1>1, <1>6, ShownIs

\* What the converters make of one character begins with no line feed and reads back
\* as that character.
LEMMA ShownOne ==
  ASSUME NEW c \in Whole
  PROVE  /\ Len(convert(<<c>>)) > 0 /\ convert(<<c>>)[1] # "\n"
         /\ Shown(convert(<<c>>)) = <<c>>
  <1>1. c \in Byte /\ c \notin {"BOM", "lead", "trail"}
    BY DEF Whole
  <1>2. CASE c = "\n"
    <2>1. convert(<<c>>) = <<"\r", "\n">>
      BY <1>1, <1>2, ConvertOne
    <2>2. shownAll(<<"\r", "\n">>) = <<<<>>, <<"\n">>>>
      BY DEF shownAll, shownAt, Kept
    <2>3. <<"\r", "\n">> \in Seq(Byte) /\ <<"\n">> \in Seq(Byte) /\ <<>> \in Seq(Byte)
      BY CharSets, OneChar, TwoChars, EmptySeq
    <2>4. FlattenSeq(<<<<>>, <<"\n">>>>) = <<>> \o <<"\n">>
      BY <2>3, FlattenTwo
    <2>5. <<>> \o <<"\n">> = <<"\n">>
      BY <2>3, ConcatEmptySeq
    <2>6. Shown(<<"\r", "\n">>) = <<"\n">>
      BY <2>2, <2>3, <2>4, <2>5, ShownIs
    <2>7. QED BY <1>2, <2>1, <2>6
  <1>3. CASE c = Wide
    <2>1. convert(<<c>>) = <<"lead", "trail">>
      BY <1>1, <1>3, ConvertOne DEF Wide
    <2>2. shownAll(<<"lead", "trail">>) = <<<<Wide>>, <<>>>>
      BY DEF shownAll, shownAt, Kept
    <2>3. <<"lead", "trail">> \in Seq(Byte) /\ <<Wide>> \in Seq(Byte) /\ <<>> \in Seq(Byte)
      BY CharSets, OneChar, TwoChars, EmptySeq DEF Wide
    <2>4. FlattenSeq(<<<<Wide>>, <<>>>>) = <<Wide>> \o <<>>
      BY <2>3, FlattenTwo
    <2>5. <<Wide>> \o <<>> = <<Wide>>
      BY <2>3, ConcatEmptySeq
    <2>6. Shown(<<"lead", "trail">>) = <<Wide>>
      BY <2>2, <2>3, <2>4, <2>5, ShownIs
    <2>7. Len(<<"lead", "trail">>) > 0 /\ <<"lead", "trail">>[1] # "\n"
      OBVIOUS
    <2>8. QED BY <1>3, <2>1, <2>6, <2>7
  <1>4. CASE c # "\n" /\ c # Wide
    <2>1. convert(<<c>>) = <<c>>
      BY <1>1, <1>4, ConvertOne
    <2>2. shownAll(<<c>>) = <<<<c>>>>
      BY <1>1 DEF shownAll, shownAt, Kept
    <2>3. <<c>> \in Seq(Byte)
      BY <1>1, OneChar
    <2>4. Shown(<<c>>) = <<c>>
      BY <2>2, <2>3, FlattenOne, ShownIs
    <2>5. QED BY <1>4, <2>1, <2>4
  <1>5. QED BY <1>2, <1>3, <1>4

\* A reader makes nothing of nothing.
LEMMA ShownEmpty == Shown(<<>>) = <<>>
  <1>1. shownAll(<<>>) = <<>>
    BY DEF shownAll
  <1>2. <<>> \in Seq(Byte)
    BY EmptySeq
  <1>3. QED BY <1>1, <1>2, FlattenEmpty, ShownIs

\* A text is also one of bytes.
LEMMA WholeInByte == \A w \in Seq(Whole) : w \in Seq(Byte)
  BY CharSets, SeqMonotonic

\* Whatever the length of a text, a reader gets back what the converters were given:
\* convert of UTF8Converter behind NativeEOLConverter loses nothing, a carriage return
\* before a line feed of the text and a character outside ASCII included.
THEOREM ShownConvert ==
  ASSUME NEW w \in Seq(Whole)
  PROVE  Shown(convert(w)) = w
  <1> DEFINE S == {u \in Seq(Whole) : Shown(convert(u)) = u}
  <1>1. <<>> \in S
    BY EmptySeq, ConvertEmpty, ShownEmpty
  <1>2. ASSUME NEW u \in Seq(Whole), NEW c \in Whole, u \in S PROVE Append(u, c) \in S
    <2>1. u \in Seq(Byte) /\ <<c>> \in Seq(Byte) /\ <<c>> \in Seq(Whole)
      BY WholeInByte, OneChar
    <2>2. Append(u, c) = u \o <<c>> /\ Append(u, c) \in Seq(Whole)
      BY AppendIsConcat, AppendProperties
    <2>3. convert(u \o <<c>>) = convert(u) \o convert(<<c>>)
      BY <2>1, ConvertConcat
    <2>4. convert(u) \in Seq(Byte) /\ convert(<<c>>) \in Seq(Byte)
      BY <2>1, ConvertType
    <2>5. Shown(convert(u) \o convert(<<c>>)) = Shown(convert(u)) \o Shown(convert(<<c>>))
      BY <2>4, ShownOne, ShownConcat
    <2>6. Shown(convert(u)) = u
      BY <1>2
    <2>7. Shown(convert(<<c>>)) = <<c>>
      BY ShownOne
    <2>8. QED BY <2>2, <2>3, <2>5, <2>6, <2>7
  <1> HIDE DEF S
  <1>3. Seq(Whole) \subseteq S
    BY <1>1, <1>2, SeqSetInduction
  <1>4. QED BY <1>3 DEF S

-----------------------------------------------------------------------------
(* Lines. *)

\* The line feeds of a text, those before one of them, and the line it ends.
Ends(text) == {k \in DOMAIN text : text[k] = "\n"}
Before(text, e) == {k \in Ends(text) : k < e} \cup {0}
LineAt(text, e) == SubSeq(text, Max(Before(text, e)) + 1, e - 1)

\* Lines gives the line of each line feed.
LEMMA LinesAre == \A text : Lines(text) = {LineAt(text, e) : e \in Ends(text)}
  BY DEF Lines, LineAt, Before, Ends

\* A bounded set of numbers has a greatest member,
LEMMA MaxExists ==
  ASSUME NEW n \in Nat, NEW T, T \subseteq 0 .. n, T # {}
  PROVE  Max(T) \in T /\ \A y \in T : Max(T) >= y
  <1> DEFINE S == {m \in Nat : (\E k \in T : k <= m) =>
                     \E x \in T : \A y \in T : y <= m => x >= y}
  <1>1. 0 \in S
    <2>1. \A k, y \in T : k <= 0 /\ y <= 0 => k >= y
      OBVIOUS
    <2>2. QED BY <2>1
  <1>2. ASSUME NEW m \in Nat, m \in S PROVE m + 1 \in S
    <2>1. SUFFICES ASSUME NEW k \in T, k <= m + 1
                   PROVE  \E x \in T : \A y \in T : y <= m + 1 => x >= y
      OBVIOUS
    <2>2. CASE m + 1 \in T
      BY <2>2
    <2>3. CASE m + 1 \notin T
      <3>1. \A y \in T : y <= m + 1 => y <= m
        BY <2>3
      <3>2. PICK x \in T : \A y \in T : y <= m => x >= y
        BY <1>2, <2>1, <3>1
      <3>3. QED BY <3>1, <3>2
    <2>4. QED BY <2>2, <2>3
  <1>3. Nat \subseteq S
    <2> HIDE DEF S
    <2>1. QED BY <1>1, <1>2, NatSetInduction
  <1>4. \E x \in T : \A y \in T : x >= y
    <2>1. n \in S
      BY <1>3
    <2>2. PICK k \in T : TRUE
      OBVIOUS
    <2>3. \A y \in T : y <= n
      OBVIOUS
    <2>4. QED BY <2>1, <2>2, <2>3
  <1>5. QED BY <1>4 DEF Max

\* Max is it,
LEMMA MaxUnique ==
  ASSUME NEW n \in Nat, NEW T, T \subseteq 0 .. n, NEW x \in T, \A y \in T : y <= x
  PROVE  Max(T) = x
  <1>1. Max(T) \in T /\ \A y \in T : Max(T) >= y
    BY MaxExists
  <1> DEFINE m == Max(T)
  <1>2. m \in T /\ m >= x
    BY <1>1
  <1> HIDE DEF m
  <1>3. m <= x /\ m \in Nat /\ x \in Nat
    BY <1>2
  <1>4. m = x
    BY <1>2, <1>3
  <1>5. QED BY <1>4 DEF m

\* and Min is the least.
LEMMA MinUnique ==
  ASSUME NEW n \in Nat, NEW T, T \subseteq 0 .. n, NEW x \in T, \A y \in T : x <= y
  PROVE  Min(T) = x
  <1>1. \A y \in T : (\A z \in T : y <= z) => y = x
    <2>1. SUFFICES ASSUME NEW y \in T, \A z \in T : y <= z PROVE y = x
      OBVIOUS
    <2>2. y \in Nat /\ x \in Nat /\ y <= x /\ x <= y
      BY <2>1
    <2>3. QED BY <2>2
  <1>2. QED BY <1>1 DEF Min

\* What SubSeq gives for places in range.
LEMMA SubSeqParts ==
  ASSUME NEW C, NEW s \in Seq(C), NEW m \in 1 .. Len(s) + 1, NEW n \in 0 .. Len(s)
  PROVE  /\ SubSeq(s, m, n) \in Seq(C)
         /\ Len(SubSeq(s, m, n)) = IF m <= n THEN n - m + 1 ELSE 0
         /\ \A k \in 1 .. n - m + 1 : SubSeq(s, m, n)[k] = s[m + k - 1]
  BY SubSeqProperties, LenProperties

\* A part of x \o y that lies in x,
LEMMA SubSeqLeft ==
  ASSUME NEW C, NEW x \in Seq(C), NEW y \in Seq(C),
         NEW m \in 1 .. Len(x) + 1, NEW n \in 0 .. Len(x)
  PROVE  SubSeq(x \o y, m, n) = SubSeq(x, m, n)
  <1>1. /\ x \o y \in Seq(C) /\ Len(x) \in Nat /\ Len(y) \in Nat
        /\ Len(x \o y) = Len(x) + Len(y)
        /\ \A k \in 1 .. Len(x) : (x \o y)[k] = x[k]
    BY ConcatParts
  <1>2. m \in 1 .. Len(x \o y) + 1 /\ n \in 0 .. Len(x \o y)
    BY <1>1
  <1>3. /\ SubSeq(x \o y, m, n) \in Seq(C)
        /\ Len(SubSeq(x \o y, m, n)) = IF m <= n THEN n - m + 1 ELSE 0
        /\ \A k \in 1 .. n - m + 1 : SubSeq(x \o y, m, n)[k] = (x \o y)[m + k - 1]
    BY <1>1, <1>2, SubSeqParts
  <1>4. /\ SubSeq(x, m, n) \in Seq(C)
        /\ Len(SubSeq(x, m, n)) = IF m <= n THEN n - m + 1 ELSE 0
        /\ \A k \in 1 .. n - m + 1 : SubSeq(x, m, n)[k] = x[m + k - 1]
    BY SubSeqParts
  <1>5. ASSUME NEW k \in 1 .. Len(SubSeq(x \o y, m, n))
        PROVE  SubSeq(x \o y, m, n)[k] = SubSeq(x, m, n)[k]
    <2>1. k \in 1 .. n - m + 1 /\ m + k - 1 \in 1 .. Len(x)
      BY <1>1, <1>3
    <2>2. QED BY <1>1, <1>3, <1>4, <2>1
  <1>6. QED BY <1>3, <1>4, <1>5, SeqEqual

\* and one that lies in y.
LEMMA SubSeqRight ==
  ASSUME NEW C, NEW x \in Seq(C), NEW y \in Seq(C),
         NEW b \in 0 .. Len(y), NEW e \in 1 .. Len(y)
  PROVE  SubSeq(x \o y, (Len(x) + b) + 1, (Len(x) + e) - 1) = SubSeq(y, b + 1, e - 1)
  <1>1. /\ x \o y \in Seq(C) /\ Len(x) \in Nat /\ Len(y) \in Nat
        /\ Len(x \o y) = Len(x) + Len(y)
        /\ \A k \in 1 .. Len(y) : (x \o y)[Len(x) + k] = y[k]
    BY ConcatParts
  <1> DEFINE m == (Len(x) + b) + 1
             n == (Len(x) + e) - 1
  <1>2. m \in 1 .. Len(x \o y) + 1 /\ n \in 0 .. Len(x \o y)
    BY <1>1
  <1>3. b + 1 \in 1 .. Len(y) + 1 /\ e - 1 \in 0 .. Len(y)
    BY <1>1
  <1>4. n - m + 1 = (e - 1) - (b + 1) + 1 /\ (m <= n <=> b + 1 <= e - 1)
    BY <1>1
  <1>5. \A k \in 1 .. n - m + 1 : /\ m + k - 1 = Len(x) + ((b + 1) + k - 1)
                                 /\ (b + 1) + k - 1 \in 1 .. Len(y)
    BY <1>1
  <1>6. m \in Int /\ n \in Int
    BY <1>1
  <1> HIDE DEF m, n
  <1>7. /\ SubSeq(x \o y, m, n) \in Seq(C)
        /\ Len(SubSeq(x \o y, m, n)) = IF m <= n THEN n - m + 1 ELSE 0
        /\ \A k \in 1 .. n - m + 1 : SubSeq(x \o y, m, n)[k] = (x \o y)[m + k - 1]
    BY <1>1, <1>2, SubSeqParts
  <1>8. /\ SubSeq(y, b + 1, e - 1) \in Seq(C)
        /\ Len(SubSeq(y, b + 1, e - 1)) = IF m <= n THEN n - m + 1 ELSE 0
        /\ \A k \in 1 .. n - m + 1 : SubSeq(y, b + 1, e - 1)[k] = y[(b + 1) + k - 1]
    <2>1. /\ SubSeq(y, b + 1, e - 1) \in Seq(C)
          /\ Len(SubSeq(y, b + 1, e - 1)) =
                IF b + 1 <= e - 1 THEN (e - 1) - (b + 1) + 1 ELSE 0
          /\ \A k \in 1 .. (e - 1) - (b + 1) + 1 :
                SubSeq(y, b + 1, e - 1)[k] = y[(b + 1) + k - 1]
      BY <1>3, SubSeqParts
    <2>2. QED BY <1>4, <2>1
  <1>9. ASSUME NEW k \in 1 .. Len(SubSeq(x \o y, m, n))
        PROVE  SubSeq(x \o y, m, n)[k] = SubSeq(y, b + 1, e - 1)[k]
    <2>1. k \in 1 .. n - m + 1
      BY <1>6, <1>7
    <2>2. (x \o y)[m + k - 1] = y[(b + 1) + k - 1]
      BY <1>1, <1>5, <2>1
    <2>3. QED BY <1>7, <1>8, <2>1, <2>2
  <1>10. SubSeq(x \o y, m, n) = SubSeq(y, b + 1, e - 1)
    BY <1>7, <1>8, <1>9, SeqEqual
  <1>11. QED BY <1>10 DEF m, n

\* The line feeds before one of them, and the last of those.
LEMMA BeforeIs ==
  ASSUME NEW text \in Seq(Byte), NEW e \in Ends(text)
  PROVE  /\ e \in 1 .. Len(text) /\ text[e] = "\n"
         /\ Before(text, e) \subseteq 0 .. Len(text)
         /\ Max(Before(text, e)) \in Before(text, e)
         /\ \A k \in Before(text, e) : k <= Max(Before(text, e))
  <1>1. Len(text) \in Nat /\ DOMAIN text = 1 .. Len(text)
    BY LenProperties
  <1>2. Before(text, e) \subseteq 0 .. Len(text) /\ Before(text, e) # {}
    BY <1>1 DEF Before, Ends
  <1>3. /\ Max(Before(text, e)) \in Before(text, e)
        /\ \A k \in Before(text, e) : Max(Before(text, e)) >= k
    BY <1>1, <1>2, MaxExists
  <1>4. QED BY <1>1, <1>2, <1>3 DEF Ends

\* The line feeds of x \o y are those of x, and those of y further on.
LEMMA EndsConcat ==
  ASSUME NEW x \in Seq(Byte), NEW y \in Seq(Byte)
  PROVE  /\ \A e \in Ends(x) : e \in Ends(x \o y)
         /\ \A e \in Ends(y) : Len(x) + e \in Ends(x \o y)
         /\ \A e \in Ends(x \o y) : e <= Len(x) => e \in Ends(x)
         /\ \A e \in Ends(x \o y) : e > Len(x) => e - Len(x) \in Ends(y)
  <1>1. /\ Len(x) \in Nat /\ Len(y) \in Nat
        /\ DOMAIN x = 1 .. Len(x) /\ DOMAIN y = 1 .. Len(y)
        /\ DOMAIN (x \o y) = 1 .. Len(x) + Len(y)
        /\ \A k \in 1 .. Len(x) : (x \o y)[k] = x[k]
        /\ \A k \in 1 .. Len(y) : (x \o y)[Len(x) + k] = y[k]
    BY ConcatParts
  <1>2. \A e \in Ends(x) : e \in Ends(x \o y)
    BY <1>1 DEF Ends
  <1>3. \A e \in Ends(y) : Len(x) + e \in Ends(x \o y)
    BY <1>1 DEF Ends
  <1>4. \A e \in Ends(x \o y) : e <= Len(x) => e \in Ends(x)
    BY <1>1 DEF Ends
  <1>5. \A e \in Ends(x \o y) : e > Len(x) => e - Len(x) \in Ends(y)
    <2> SUFFICES ASSUME NEW e \in Ends(x \o y), e > Len(x) PROVE e - Len(x) \in Ends(y)
      OBVIOUS
    <2>1. e - Len(x) \in 1 .. Len(y) /\ Len(x) + (e - Len(x)) = e
      BY <1>1 DEF Ends
    <2>2. (x \o y)[Len(x) + (e - Len(x))] = y[e - Len(x)]
      BY <1>1, <2>1
    <2>3. QED BY <1>1, <2>1, <2>2 DEF Ends
  <1>6. QED BY <1>2, <1>3, <1>4, <1>5

\* If x ends its last line, the lines of x \o y are those of x and those of y.
LEMMA LinesConcat ==
  ASSUME NEW x \in Seq(Byte), NEW y \in Seq(Byte), Len(x) # 0 => x[Len(x)] = "\n"
  PROVE  Lines(x \o y) = Lines(x) \cup Lines(y)
  <1>1. x \o y \in Seq(Byte) /\ Len(x) \in Nat /\ Len(y) \in Nat
        /\ Len(x \o y) = Len(x) + Len(y)
    BY ConcatParts
  <1>2. ASSUME NEW e \in Ends(x) PROVE LineAt(x \o y, e) = LineAt(x, e)
    <2>1. e \in Ends(x \o y) /\ e \in 1 .. Len(x)
      BY EndsConcat, BeforeIs
    <2>2. Before(x \o y, e) = Before(x, e)
      <3>1. \A k \in Ends(x \o y) : k < e => k \in Ends(x)
        <4>1. \A k \in Ends(x \o y) : k \in Nat
          BY <1>1, LenProperties DEF Ends
        <4>2. QED BY <1>1, <2>1, <4>1, EndsConcat
      <3>2. \A k \in Ends(x) : k \in Ends(x \o y)
        BY EndsConcat
      <3>3. QED BY <3>1, <3>2 DEF Before
    <2>3. Max(Before(x, e)) \in 0 .. Len(x)
      BY BeforeIs
    <2>4. Max(Before(x, e)) + 1 \in 1 .. Len(x) + 1 /\ e - 1 \in 0 .. Len(x)
      BY <1>1, <2>1, <2>3
    <2>5. SubSeq(x \o y, Max(Before(x, e)) + 1, e - 1)
            = SubSeq(x, Max(Before(x, e)) + 1, e - 1)
      BY <2>4, SubSeqLeft
    <2>6. QED BY <2>2, <2>5 DEF LineAt
  <1>3. ASSUME NEW e \in Ends(y) PROVE LineAt(x \o y, Len(x) + e) = LineAt(y, e)
    <2>1. Len(x) + e \in Ends(x \o y) /\ e \in 1 .. Len(y)
      BY EndsConcat, BeforeIs
    <2> DEFINE b == Max(Before(y, e))
    <2>2. b \in 0 .. Len(y) /\ b \in Before(y, e) /\ \A k \in Before(y, e) : k <= b
      BY BeforeIs
    <2> HIDE DEF b
    <2>3. Max(Before(x \o y, Len(x) + e)) = Len(x) + b
      <3> DEFINE T == Before(x \o y, Len(x) + e)
      <3>1. T \subseteq 0 .. Len(x) + Len(y)
        BY <1>1, <2>1, BeforeIs
      <3>2. Len(x) + b \in T
        <4>1. CASE b # 0
          <5>1. b \in Ends(y) /\ b < e
            BY <2>2, <4>1 DEF Before
          <5>2. Len(x) + b \in Ends(x \o y) /\ Len(x) + b < Len(x) + e
            BY <1>1, <2>1, <2>2, <5>1, EndsConcat
          <5>3. QED BY <5>2 DEF Before
        <4>2. CASE b = 0 /\ Len(x) = 0
          BY <1>1, <4>2 DEF Before
        <4>3. CASE b = 0 /\ Len(x) # 0
          <5>1. Len(x) \in Ends(x)
            BY <1>1, <4>3, LenProperties DEF Ends
          <5>2. Len(x) \in Ends(x \o y) /\ Len(x) < Len(x) + e /\ Len(x) + b = Len(x)
            BY <1>1, <2>1, <4>3, <5>1, EndsConcat
          <5>3. QED BY <5>2 DEF Before
        <4>4. QED BY <4>1, <4>2, <4>3
      <3>3. \A k \in T : k <= Len(x) + b
        <4>1. SUFFICES ASSUME NEW k \in T, k > Len(x) PROVE k <= Len(x) + b
          BY <1>1, <2>2, <3>1
        <4>2. k \in Ends(x \o y) /\ k < Len(x) + e
          BY <1>1, <4>1 DEF Before
        <4>3. k - Len(x) \in Ends(y) /\ k - Len(x) < e
          BY <1>1, <2>1, <3>1, <4>1, <4>2, EndsConcat
        <4>4. k - Len(x) <= b
          BY <2>2, <4>3 DEF Before
        <4>5. QED BY <1>1, <2>2, <3>1, <4>4
      <3>4. Len(x) + Len(y) \in Nat
        BY <1>1
      <3> HIDE DEF T
      <3>5. Max(T) = Len(x) + b
        BY <3>1, <3>2, <3>3, <3>4, MaxUnique
      <3>6. QED BY <3>5 DEF T
    <2>4. SubSeq(x \o y, (Len(x) + b) + 1, (Len(x) + e) - 1) = SubSeq(y, b + 1, e - 1)
      BY <1>1, <2>1, <2>2, SubSeqRight
    <2>5. QED BY <2>3, <2>4 DEF LineAt, b
  <1>4. ASSUME NEW e \in Ends(x \o y)
        PROVE  LineAt(x \o y, e) \in Lines(x) \cup Lines(y)
    <2>1. e \in 1 .. Len(x) + Len(y)
      BY <1>1, BeforeIs
    <2>2. CASE e <= Len(x)
      <3>1. e \in Ends(x)
        BY <2>2, EndsConcat
      <3>2. LineAt(x \o y, e) = LineAt(x, e)
        BY <1>2, <3>1
      <3>3. QED BY <3>1, <3>2, LinesAre
    <2>3. CASE e > Len(x)
      <3>1. e - Len(x) \in Ends(y) /\ Len(x) + (e - Len(x)) = e
        BY <1>1, <2>1, <2>3, EndsConcat
      <3>2. LineAt(x \o y, Len(x) + (e - Len(x))) = LineAt(y, e - Len(x))
        BY <1>3, <3>1
      <3>3. QED BY <3>1, <3>2, LinesAre
    <2>4. QED BY <1>1, <2>1, <2>2, <2>3
  <1>5. \A e \in Ends(x) : LineAt(x, e) \in Lines(x \o y)
    BY <1>2, EndsConcat, LinesAre
  <1>6. \A e \in Ends(y) : LineAt(y, e) \in Lines(x \o y)
    BY <1>3, EndsConcat, LinesAre
  <1>7. QED BY <1>4, <1>5, <1>6, LinesAre

\* An empty text has no line.
LEMMA LinesEmpty == Lines(<<>>) = {}
  <1>1. Ends(<<>>) = {}
    BY DEF Ends
  <1>2. QED BY <1>1, LinesAre

\* A text without a line feed, with one after it, is one line.
LEMMA LinesOfLine ==
  ASSUME NEW w \in Seq(Byte \ {"\n"})
  PROVE  Lines(w \o <<"\n">>) = {w}
  <1>1. w \in Seq(Byte) /\ <<"\n">> \in Seq(Byte)
    BY CharSets, OneChar, SeqMonotonic
  <1> DEFINE text == w \o <<"\n">>
  <1>2. /\ text \in Seq(Byte) /\ Len(w) \in Nat /\ Len(text) = Len(w) + 1
        /\ DOMAIN text = 1 .. Len(w) + 1
        /\ \A k \in 1 .. Len(w) : text[k] = w[k] /\ w[k] # "\n"
        /\ text[Len(w) + 1] = "\n"
    <2>1. Len(<<"\n">>) = 1 /\ <<"\n">>[1] = "\n" /\ 1 \in 1 .. 1
      OBVIOUS
    <2>2. \A k \in 1 .. Len(w) : w[k] # "\n"
      BY ElementOfSeq
    <2>3. QED BY <1>1, <2>1, <2>2, ConcatParts
  <1>3. Ends(text) = {Len(w) + 1}
    <2> HIDE DEF text
    <2>1. QED BY <1>2 DEF Ends
  <1>4. Before(text, Len(w) + 1) = {0}
    <2> HIDE DEF text
    <2>1. QED BY <1>2, <1>3 DEF Before
  <1>5. Max({0}) = 0
    BY MaxUnique
  <1>6. LineAt(text, Len(w) + 1) = SubSeq(text, 1, Len(w))
    <2> HIDE DEF text
    <2>1. 0 + 1 = 1 /\ (Len(w) + 1) - 1 = Len(w)
      BY <1>2
    <2>2. QED BY <1>4, <1>5, <2>1 DEF LineAt
  <1>7. SubSeq(text, 1, Len(w)) = w
    BY <1>1, <1>2, SubSeqLeft, SubSeqFull
  <1> HIDE DEF text
  <1>8. Lines(text) = {w}
    BY <1>3, <1>6, <1>7, LinesAre
  <1>9. QED BY <1>8 DEF text

-----------------------------------------------------------------------------
(* Converted texts with a mark before them. *)

\* What is converted from a text begins with no line feed.
LEMMA ConvertStart ==
  ASSUME NEW w \in Seq(Whole)
  PROVE  Len(convert(w)) > 0 => convert(w)[1] # "\n"
  <1> DEFINE S == {u \in Seq(Whole) : Len(convert(u)) > 0 => convert(u)[1] # "\n"}
  <1>1. <<>> \in S
    BY EmptySeq, ConvertEmpty
  <1>2. ASSUME NEW u \in Seq(Whole), NEW c \in Whole, u \in S PROVE Append(u, c) \in S
    <2>1. u \in Seq(Byte) /\ <<c>> \in Seq(Byte)
      BY WholeInByte, OneChar
    <2>2. Append(u, c) = u \o <<c>> /\ Append(u, c) \in Seq(Whole)
      BY AppendIsConcat, AppendProperties
    <2>3. convert(u \o <<c>>) = convert(u) \o convert(<<c>>)
      BY <2>1, ConvertConcat
    <2>4. convert(u) \in Seq(Byte) /\ convert(<<c>>) \in Seq(Byte)
      BY <2>1, ConvertType
    <2>5. CASE Len(convert(u)) = 0
      <3>1. convert(u) = <<>>
        BY <2>4, <2>5, EmptySeq
      <3>2. convert(u) \o convert(<<c>>) = convert(<<c>>)
        BY <2>4, <3>1, ConcatEmptySeq
      <3>3. QED BY <2>2, <2>3, <3>2, ShownOne
    <2>6. CASE Len(convert(u)) # 0
      <3>1. Len(convert(u)) > 0 /\ 1 \in 1 .. Len(convert(u))
        BY <2>4, <2>6, LenProperties
      <3>2. (convert(u) \o convert(<<c>>))[1] = convert(u)[1]
        BY <2>4, <3>1, ConcatParts
      <3>3. QED BY <1>2, <2>2, <2>3, <3>1, <3>2
    <2>7. QED BY <2>5, <2>6
  <1> HIDE DEF S
  <1>3. Seq(Whole) \subseteq S
    BY <1>1, <1>2, SeqSetInduction
  <1>4. QED BY <1>3 DEF S

\* A file that begins with the mark of UTF8Converter::header shows the text that was
\* converted after it, whatever that text is, and the mark comes first.
LEMMA ShownMarked ==
  ASSUME NEW w \in Seq(Whole)
  PROVE  /\ Shown(header \o convert(w)) = w
         /\ header \o convert(w) \in Seq(Byte)
         /\ Head(header \o convert(w)) = "BOM"
  <1>1. header = <<"BOM">> /\ <<"BOM">> \in Seq(Byte)
    <2>1. <<"BOM">> \in Seq(Byte)
      BY CharSets, OneChar
    <2>2. QED BY <2>1, ConvertEmpty, ConcatEmptySeq DEF header
  <1>2. convert(w) \in Seq(Byte)
    BY WholeInByte, ConvertType
  <1>3. Shown(header \o convert(w)) = Shown(<<"BOM">>) \o Shown(convert(w))
    BY <1>1, <1>2, ConvertStart, ShownConcat
  <1>4. Shown(<<"BOM">>) = <<>>
    <2>1. shownAll(<<"BOM">>) = <<<<>>>>
      BY DEF shownAll, shownAt, Kept
    <2>2. <<>> \in Seq(Byte)
      BY EmptySeq
    <2>3. QED BY <1>1, <2>1, <2>2, FlattenOne, ShownIs
  <1>5. <<>> \o w = w
    BY ConcatEmptySeq
  <1>6. Head(header \o convert(w)) = "BOM"
    <2> DEFINE y == convert(w)
    <2>1. Len(<<"BOM">>) = 1 /\ <<"BOM">>[1] = "BOM" /\ 1 \in 1 .. 1
      OBVIOUS
    <2>2. y \in Seq(Byte)
      BY <1>2
    <2> HIDE DEF y
    <2>3. (<<"BOM">> \o y)[1] = "BOM" /\ Len(<<"BOM">> \o y) = 1 + Len(y) /\ Len(y) \in Nat
          /\ <<"BOM">> \o y \in Seq(Byte)
      BY <1>1, <2>1, <2>2, ConcatParts
    <2>4. <<"BOM">> \o y # <<>>
      BY <2>3, EmptySeq
    <2>5. Head(<<"BOM">> \o y) = "BOM"
      BY <2>3, <2>4, HeadTailProperties
    <2>6. QED BY <1>1, <2>5 DEF y
  <1>7. QED BY <1>1, <1>2, <1>3, <1>4, <1>5, <1>6, ConcatProperties, ShownConvert

-----------------------------------------------------------------------------
(* The formatter. *)

\* What a program may stream into a Record: no mark, no line feed.
Text == Byte \ {"BOM", "\n"}

\* toWide makes whole characters of it,
LEMMA ToWideType == \A str \in Seq(Text) : toWide(str) \in Seq(Plain)
  <1> TAKE str \in Seq(Text)
  <1> DEFINE at(k) == CASE str[k] = "lead" -> <<Wide>> [] str[k] = "trail" -> <<>>
                        [] OTHER -> <<str[k]>>
             f == [k \in DOMAIN str |-> at(k)]
  <1>1. /\ Len(str) \in Nat /\ DOMAIN str = 1 .. Len(str)
        /\ \A k \in 1 .. Len(str) : str[k] \in Text
    BY LenProperties
  <1>2. ASSUME NEW k \in 1 .. Len(str) PROVE at(k) \in Seq(Plain)
    <2>1. CASE str[k] = "lead"
      <3>1. Wide \in Plain
        BY DEF Plain, Whole, Byte, Symbols, Wide
      <3>2. at(k) = <<Wide>>
        BY <2>1
      <3>3. QED BY <3>1, <3>2, OneChar
    <2>2. CASE str[k] = "trail"
      <3>1. at(k) = <<>>
        BY <2>2
      <3>2. QED BY <3>1, EmptySeq
    <2>3. CASE str[k] \notin {"lead", "trail"}
      <3>1. str[k] \in Plain
        BY <1>1, <2>3 DEF Text, Plain, Whole
      <3>2. at(k) = <<str[k]>>
        BY <2>3
      <3>3. QED BY <3>1, <3>2, OneChar
    <2>4. QED BY <2>1, <2>2, <2>3
  <1>3. f \in [1 .. Len(str) -> Seq(Plain)]
    BY <1>1, <1>2
  <1>4. FlattenSeq(f) \in Seq(Plain)
    BY <1>1, <1>3, FlattenMap
  <1>5. QED BY <1>4 DEF toWide

\* and so does a Record's operator<<, of a null pointer too.
LEMMA StreamedType == \A str \in Seq(Text) : streamed(str) \in Seq(Plain)
  <1>1. <<"(null)">> \in Seq(Plain)
    <2>1. "(null)" \in Plain
      BY DEF Plain, Whole, Byte, Symbols
    <2>2. QED BY <2>1, OneChar
  <1>2. QED BY <1>1, ToWideType DEF streamed

\* The records of such texts.
Records == [severity : Severity, tid : Plain, message : Seq(Plain)]

\* TxtFormatter makes a line without a line feed of such a record and then ends it,
LEMMA LineType ==
  ASSUME NEW r \in Records
  PROVE  Line(r) \in Seq(Plain) /\ format(r) = Line(r) \o <<"\n">>
  <1> DEFINE fields == <<severityToString(r.severity), r.tid>>
  <1>1. severityToString(r.severity) \in Plain
    <2> DEFINE n == r.severity
    <2>1. n \in 0 .. 6
      BY DEF Records, Severity
    <2>2. severityToString(n) \in
            {"FATAL", "ERROR", "WARN", "INFO", "DEBUG", "VERB", "NONE"}
      BY <2>1 DEF severityToString
    <2>3. QED BY <2>2 DEF Plain, Whole, Byte, Symbols
  <1>2. r.tid \in Plain /\ r.message \in Seq(Plain)
    BY DEF Records
  <1>3. fields \in Seq(Plain)
    BY <1>1, <1>2, TwoChars
  <1>4. Line(r) = fields \o r.message
    BY DEF Line
  <1>5. format(r) = (fields \o r.message) \o <<"\n">>
    BY DEF format
  <1> HIDE DEF fields
  <1>6. QED BY <1>2, <1>3, <1>4, <1>5, ConcatProperties

\* Texts of whole lines.
Ended == {w \in Seq(Whole) : Len(w) # 0 => w[Len(w)] = "\n"}

\* so the formatted record is one ended line, that of the record.
LEMMA FormatLines ==
  ASSUME NEW r \in Records
  PROVE  format(r) \in Ended /\ Lines(format(r)) = {Line(r)}
  <1>1. Line(r) \in Seq(Plain) /\ format(r) = Line(r) \o <<"\n">>
    BY LineType
  <1>2. Line(r) \in Seq(Whole) /\ Line(r) \in Seq(Byte \ {"\n"}) /\ <<"\n">> \in Seq(Whole)
    <2>1. Plain \subseteq Byte \ {"\n"} /\ "\n" \in Whole
      BY DEF Plain, Whole, Byte, Symbols
    <2>2. QED BY <1>1, <2>1, CharSets, SeqMonotonic, OneChar
  <1>3. Lines(format(r)) = {Line(r)}
    BY <1>1, <1>2, LinesOfLine
  <1>4. Len(<<"\n">>) = 1 /\ <<"\n">>[1] = "\n" /\ 1 \in 1 .. 1
    OBVIOUS
  <1>5. /\ format(r) \in Seq(Whole) /\ Len(format(r)) = Len(Line(r)) + 1
        /\ format(r)[Len(Line(r)) + 1] = "\n"
    BY <1>1, <1>2, <1>4, ConcatParts
  <1>6. QED BY <1>3, <1>5 DEF Ended

\* Ended texts join to an ended text, with the lines of both.
LEMMA EndedJoins ==
  ASSUME NEW x \in Ended, NEW y \in Ended
  PROVE  x \o y \in Ended /\ Lines(x \o y) = Lines(x) \cup Lines(y)
  <1>1. x \in Seq(Whole) /\ y \in Seq(Whole)
    BY DEF Ended
  <1>2. /\ x \o y \in Seq(Whole) /\ Len(x) \in Nat /\ Len(y) \in Nat
        /\ Len(x \o y) = Len(x) + Len(y)
        /\ \A k \in 1 .. Len(x) : (x \o y)[k] = x[k]
        /\ \A k \in 1 .. Len(y) : (x \o y)[Len(x) + k] = y[k]
    BY <1>1, ConcatParts
  <1>3. Len(x) # 0 => x[Len(x)] = "\n"
    BY DEF Ended
  <1>4. Len(y) # 0 => y[Len(y)] = "\n"
    BY DEF Ended
  <1>5. Len(x) + Len(y) # 0 => (x \o y)[Len(x) + Len(y)] = "\n"
    <2>1. CASE Len(y) # 0
      <3>1. Len(y) \in 1 .. Len(y)
        BY <1>2, <2>1
      <3>2. QED BY <1>2, <1>4, <2>1, <3>1
    <2>2. CASE Len(y) = 0 /\ Len(x) # 0
      <3>1. Len(x) \in 1 .. Len(x) /\ Len(x) + Len(y) = Len(x)
        BY <1>2, <2>2
      <3>2. QED BY <1>2, <1>3, <2>2, <3>1
    <2>3. QED BY <1>2, <2>1, <2>2
  <1>6. x \o y \in Ended
    BY <1>2, <1>5 DEF Ended
  <1>7. QED BY <1>1, <1>3, <1>6, WholeInByte, LinesConcat

\* One more set in a union of sets.
LEMMA UnionJoins == \A U, L : UNION (U \cup {L}) = (UNION U) \cup L
  OBVIOUS

\* The bytes of each text of a list.
converted(texts) == [i \in DOMAIN texts |-> convert(texts[i])]

\* Of a list of ended texts the converters make, text by text, what they would make of
\* the whole, and the whole has the lines of each.
LEMMA ConvertAll ==
  ASSUME NEW texts \in Seq(Ended)
  PROVE  /\ FlattenSeq(texts) \in Ended
         /\ converted(texts) \in Seq(Seq(Byte))
         /\ FlattenSeq(converted(texts)) = convert(FlattenSeq(texts))
         /\ Lines(FlattenSeq(texts)) = UNION {Lines(texts[i]) : i \in DOMAIN texts}
  <1> DEFINE Good(u) ==
               /\ FlattenSeq(u) \in Ended
               /\ converted(u) \in Seq(Seq(Byte))
               /\ FlattenSeq(converted(u)) = convert(FlattenSeq(u))
               /\ Lines(FlattenSeq(u)) = UNION {Lines(u[i]) : i \in DOMAIN u}
             S == {u \in Seq(Ended) : Good(u)}
  <1>0. Ended \subseteq Seq(Whole) /\ Ended \subseteq Seq(Byte)
    BY WholeInByte DEF Ended
  <1>1. Good(<<>>)
    <2>1. converted(<<>>) = <<>>
      BY DEF converted
    <2>2. <<>> \in Ended /\ <<>> \in Seq(Seq(Byte))
      BY EmptySeq DEF Ended
    <2>3. UNION {Lines(<<>>[i]) : i \in DOMAIN <<>>} = {}
      OBVIOUS
    <2>4. QED BY <2>1, <2>2, <2>3, FlattenEmpty, ConvertEmpty, LinesEmpty
  <1>2. ASSUME NEW u \in Seq(Ended), NEW e \in Ended, Good(u) PROVE Good(Append(u, e))
    <2> DEFINE t == Append(u, e)
    <2>1. /\ t \in Seq(Ended) /\ Len(t) = Len(u) + 1 /\ Len(u) \in Nat
          /\ \A i \in 1 .. Len(u) : t[i] = u[i]
          /\ t[Len(u) + 1] = e
          /\ DOMAIN t = 1 .. Len(u) + 1 /\ DOMAIN u = 1 .. Len(u)
      BY AppendProperties, LenProperties
    <2>2. u \in Seq(Seq(Byte)) /\ e \in Seq(Byte)
      BY <1>0, SeqMonotonic
    <2>3. FlattenSeq(t) = FlattenSeq(u) \o e
      BY <2>2, FlattenAppend
    <2>4. converted(t) = Append(converted(u), convert(e))
      <3>1. converted(u) \in [1 .. Len(u) -> Seq(Byte)] /\ convert(e) \in Seq(Byte)
        <4>1. \A i \in 1 .. Len(u) : u[i] \in Seq(Byte)
          BY <1>0, ElementOfSeq
        <4>2. QED BY <2>1, <2>2, <4>1, ConvertType DEF converted
      <3>2. converted(u) \in Seq(Seq(Byte)) /\ Len(converted(u)) = Len(u)
        BY <2>1, <3>1, FunctionIsSeq
      <3> DEFINE v == Append(converted(u), convert(e))
      <3>3. /\ v \in Seq(Seq(Byte)) /\ Len(v) = Len(u) + 1
            /\ \A i \in 1 .. Len(u) : v[i] = converted(u)[i]
            /\ v[Len(u) + 1] = convert(e)
        BY <3>1, <3>2, AppendProperties
      <3> HIDE DEF v, t
      <3>4. converted(t) \in [1 .. Len(u) + 1 -> Seq(Byte)]
        <4>1. \A i \in 1 .. Len(u) + 1 : t[i] \in Seq(Byte)
          BY <1>0, <2>1, ElementOfSeq
        <4>2. QED BY <2>1, <4>1, ConvertType DEF converted
      <3>5. converted(t) \in Seq(Seq(Byte)) /\ Len(converted(t)) = Len(u) + 1
        <4>1. Len(u) + 1 \in Nat
          BY <2>1
        <4>2. QED BY <3>4, <4>1, FunctionIsSeq
      <3>6. ASSUME NEW i \in 1 .. Len(u) + 1 PROVE converted(t)[i] = v[i]
        <4>1. converted(t)[i] = convert(t[i])
          BY <2>1 DEF converted
        <4>2. CASE i \in 1 .. Len(u)
          <5>1. converted(u)[i] = convert(u[i])
            BY <2>1, <4>2 DEF converted
          <5>2. QED BY <2>1, <3>3, <4>1, <4>2, <5>1
        <4>3. CASE i = Len(u) + 1
          BY <2>1, <3>3, <4>1, <4>3
        <4>4. QED BY <2>1, <4>2, <4>3
      <3>7. converted(t) = v
        BY <3>3, <3>5, <3>6, SeqEqual
      <3>8. QED BY <3>7 DEF v, t
    <2>5. /\ FlattenSeq(u) \in Ended /\ FlattenSeq(u) \in Seq(Byte)
          /\ converted(u) \in Seq(Seq(Byte))
          /\ FlattenSeq(converted(u)) = convert(FlattenSeq(u))
      BY <1>0, <1>2
    <2>6. convert(e) \in Seq(Byte)
      BY <2>2, ConvertType
    <2>7. converted(t) \in Seq(Seq(Byte))
      BY <2>4, <2>5, <2>6, AppendProperties
    <2>8. FlattenSeq(converted(t)) = convert(FlattenSeq(u)) \o convert(e)
      BY <2>4, <2>5, <2>6, FlattenAppend
    <2>9. convert(FlattenSeq(u) \o e) = convert(FlattenSeq(u)) \o convert(e)
      BY <2>2, <2>5, ConvertConcat
    <2>10. /\ FlattenSeq(u) \o e \in Ended
           /\ Lines(FlattenSeq(u) \o e) = Lines(FlattenSeq(u)) \cup Lines(e)
      BY <2>5, EndedJoins
    <2> DEFINE T == {Lines(t[i]) : i \in DOMAIN t}
               U == {Lines(u[i]) : i \in DOMAIN u}
    <2>11. UNION T = (UNION U) \cup Lines(e)
      <3> HIDE DEF t
      <3>1. \A i \in DOMAIN t : i \in DOMAIN u \/ i = Len(u) + 1
        BY <2>1
      <3>2. \A i \in DOMAIN u : i \in DOMAIN t /\ t[i] = u[i]
        BY <2>1
      <3>3. Len(u) + 1 \in DOMAIN t
        BY <2>1
      <3>4. T = U \cup {Lines(e)}
        BY <2>1, <3>1, <3>2, <3>3, Zenon
      <3> HIDE DEF T, U
      <3>5. QED BY <3>4, UnionJoins, Zenon
    <2>12. Lines(FlattenSeq(u)) = UNION U
      BY <1>2
    <2> HIDE DEF t
    <2>13. Good(t)
      <3>1. FlattenSeq(t) \in Ended
        BY <2>3, <2>10
      <3>2. FlattenSeq(converted(t)) = convert(FlattenSeq(t))
        BY <2>3, <2>8, <2>9
      <3>3. Lines(FlattenSeq(t)) = UNION T
        <4> HIDE DEF T, U
        <4>1. QED BY <2>3, <2>10, <2>11, <2>12, Zenon
      <3>4. QED BY <2>7, <3>1, <3>2, <3>3, Zenon
    <2>14. QED BY <2>13 DEF t
  <1>3. <<>> \in S
    BY <1>1, EmptySeq
  <1>4. ASSUME NEW u \in Seq(Ended), NEW e \in Ended, u \in S PROVE Append(u, e) \in S
    <2> HIDE DEF Good
    <2>1. QED BY <1>2, <1>4, AppendProperties
  <1> HIDE DEF S
  <1>5. Seq(Ended) \subseteq S
    BY <1>3, <1>4, SeqSetInduction
  <1>6. texts \in S
    BY <1>5
  <1> HIDE DEF Good
  <1>7. Good(texts)
    BY <1>6 DEF S
  <1>8. QED BY <1>7 DEF Good

-----------------------------------------------------------------------------
(* The files. *)

\* The records of the statements are made of whole characters.
LEMMA RecordOfType == \A n \in 1 .. MaxWrites : RecordOf(n) \in Records
  <1> TAKE n \in 1 .. MaxWrites
  <1> DEFINE said == Logged[n]
  <1>1. /\ said.severity \in Severity /\ said.tid \in Characters \ {"lead", "trail"}
        /\ said.text \in Seq(Characters)
    BY LogFilesAssumption DEF Statements
  <1>2. said.tid \in Plain
    BY <1>1, LogFilesAssumption DEF Plain, Whole, Byte
  <1>3. said.text \in Seq(Text)
    <2>1. Characters \subseteq Text
      BY LogFilesAssumption DEF Text, Byte
    <2>2. QED BY <1>1, <2>1, SeqMonotonic
  <1>4. streamed(said.text) \in Seq(Plain)
    BY <1>3, StreamedType
  <1> HIDE DEF said
  <1>5. RecordOf(n) = [severity |-> said.severity, tid |-> said.tid,
                       message |-> streamed(said.text)]
    BY DEF RecordOf, Record, said
  <1>6. QED BY <1>1, <1>2, <1>4, <1>5 DEF Records

\* What file f holds of statement n, and of each statement in order.
textOf(f, n) == IF n \in records[f] THEN format(RecordOf(n)) ELSE <<>>
textsOf(f) == [n \in 1 .. written |-> textOf(f, n)]

\* The bound on the statements of a behaviour.
WrittenWithin == written \in Nat /\ written <= MaxWrites

\* What a reader of a file finds is one line for each record the file holds, and no
\* other line: whatever the converters did, and whether the file begins with a mark.
LEMMA FileReadsBack ==
  ASSUME TypeOK, WrittenWithin, NEW f \in Files
  PROVE  Lines(Shown(Bytes(f))) = {Line(RecordOf(n)) : n \in records[f]}
  <1>1. written \in Nat /\ records[f] \subseteq 1 .. written
        /\ \A n \in 1 .. written : RecordOf(n) \in Records
    <2>1. \A n \in 1 .. written : n \in 1 .. MaxWrites
      BY LogFilesAssumption DEF WrittenWithin
    <2>2. records[f] \subseteq 1 .. written
      BY DEF TypeOK
    <2>3. QED BY <2>1, <2>2, RecordOfType DEF WrittenWithin
  <1>2. \A n \in 1 .. written : textOf(f, n) \in Ended
    <2>1. <<>> \in Ended
      BY EmptySeq DEF Ended
    <2>2. QED BY <1>1, <2>1, FormatLines DEF textOf
  <1>3. textsOf(f) \in Seq(Ended) /\ DOMAIN textsOf(f) = 1 .. written
    <2>1. textsOf(f) \in [1 .. written -> Ended]
      BY <1>2 DEF textsOf
    <2>2. QED BY <1>1, <2>1, FunctionIsSeq
  <1> DEFINE w == FlattenSeq(textsOf(f))
             body == FlattenSeq([n \in 1 .. written |->
                       IF n \in records[f] THEN convert(format(RecordOf(n))) ELSE <<>>])
  <1>4. body = convert(w)
    <2>1. ASSUME NEW n \in 1 .. written
          PROVE  convert(textsOf(f)[n]) =
                   IF n \in records[f] THEN convert(format(RecordOf(n))) ELSE <<>>
      <3>1. textsOf(f)[n] = textOf(f, n)
        BY DEF textsOf
      <3>2. QED BY <3>1, ConvertEmpty DEF textOf
    <2>2. converted(textsOf(f)) = [n \in 1 .. written |->
            IF n \in records[f] THEN convert(format(RecordOf(n))) ELSE <<>>]
      BY <1>3, <2>1 DEF converted
    <2>3. QED BY <1>3, <2>2, ConvertAll
  <1>5. w \in Ended /\ Lines(w) = UNION {Lines(textsOf(f)[n]) : n \in 1 .. written}
    BY <1>3, ConvertAll
  <1>6. UNION {Lines(textsOf(f)[n]) : n \in 1 .. written}
          = {Line(RecordOf(n)) : n \in records[f]}
    <2>1. ASSUME NEW n \in 1 .. written
          PROVE  Lines(textsOf(f)[n]) =
                   IF n \in records[f] THEN {Line(RecordOf(n))} ELSE {}
      <3>1. textsOf(f)[n] = textOf(f, n)
        BY DEF textsOf
      <3>2. QED BY <1>1, <3>1, FormatLines, LinesEmpty DEF textOf
    <2> DEFINE L(n) == Lines(textsOf(f)[n])
               R(n) == Line(RecordOf(n))
    <2>2. \A n \in 1 .. written : L(n) = IF n \in records[f] THEN {R(n)} ELSE {}
      BY <2>1
    <2>3. \A n \in records[f] : n \in 1 .. written
      BY <1>1
    <2> HIDE DEF L, R
    <2>4. UNION {L(n) : n \in 1 .. written} = {R(n) : n \in records[f]}
      BY <2>2, <2>3
    <2>5. QED BY <2>4 DEF L, R
  <1>7. Shown(Bytes(f)) = w
    <2>1. w \in Seq(Whole)
      BY <1>5 DEF Ended
    <2> DEFINE mark == IF size[f] > Cardinality(records[f]) THEN header ELSE <<>>
    <2>2. Bytes(f) = mark \o body
      BY DEF Bytes
    <2>3. convert(w) \in Seq(Byte)
      BY <2>1, WholeInByte, ConvertType
    <2> HIDE DEF w, body
    <2>4. mark \o convert(w) = header \o convert(w) \/ mark \o convert(w) = convert(w)
      BY <2>3, ConcatEmptySeq
    <2> HIDE DEF mark
    <2>5. QED BY <1>4, <2>1, <2>2, <2>4, ShownMarked, ShownConvert
  <1> HIDE DEF w
  <1>8. QED BY <1>5, <1>6, <1>7

\* The number of records is never beyond its bound.
LEMMA WrittenInvariance == Spec => []WrittenWithin
  <1>1. Init => WrittenWithin
    BY LogFilesAssumption DEF Init, WrittenWithin
  <1>2. WrittenWithin /\ [Next]_vars => WrittenWithin'
    <2> SUFFICES ASSUME WrittenWithin, [Next]_vars PROVE WrittenWithin'
      OBVIOUS
    <2>1. written' = written \/ (written < MaxWrites /\ written' = written + 1)
      <3>1. ASSUME NEW p \in Processes, NEW t \in p, Start(p, t)
            PROVE  written' = written
        BY <3>1 DEF Start, disk
      <3>2. ASSUME NEW p \in Processes, NEW t \in p, ThreadStep(p, t)
            PROVE  written' = written \/ (written < MaxWrites /\ written' = written + 1)
        BY <3>2 DEF ThreadStep, LogStatement, ConsoleWrite, AppenderLock, Close, Unlink,
          Rename, openLogFile, FileWrite, FileWriteFails, disk
      <3>3. ASSUME NEW p \in Processes, Crash(p) PROVE written' = written
        BY <3>3 DEF Crash, disk
      <3>4. ASSUME NEW f \in Viewable, View(f) PROVE written' = written
        BY <3>4 DEF View, disk
      <3>5. CASE UNCHANGED vars
        BY <3>5 DEF vars
      <3>6. QED BY <3>1, <3>2, <3>3, <3>4, <3>5 DEF Next
    <2>2. QED BY <2>1, LogFilesAssumption DEF WrittenWithin
  <1>3. QED BY <1>1, <1>2, PTL DEF Spec

\* A reader of a file finds the lines of the records it holds, and no others.
FileLines ==
  \A f \in Files : Lines(Shown(Bytes(f))) = {Line(RecordOf(n)) : n \in records[f]}

\* At all times every log file, read back, has exactly the lines of the records it holds:
\* nothing that RollingFileAppender::write does, the rollings, the mark at the start and
\* the converters included, breaks a line, drops one or makes one up.
THEOREM FilesGiveRecords == Spec => []FileLines
  <1>1. TypeOK /\ WrittenWithin => FileLines
    BY FileReadsBack DEF FileLines
  <1>2. QED BY <1>1, LogTypeCorrect, WrittenInvariance, PTL

-----------------------------------------------------------------------------
(* Single records. *)

\* The messages up to a length are sequences.
LEMMA MessagesAreSeqs ==
  ASSUME NEW C, NEW n \in Nat, NEW s \in Messages(C, n)
  PROVE  s \in Seq(C)
  <1>1. PICK m \in 0 .. n : s \in [1 .. m -> C]
    BY DEF Messages, BoundedSeq, SeqOf
  <1>2. QED BY <1>1, FunctionIsSeq

\* Items streamed one after the other make a message of whole characters.
LEMMA StreamedAllType ==
  ASSUME NEW data \in Seq(Seq(Text))
  PROVE  streamedAll(data) \in Seq(Plain)
  <1> DEFINE at(k) == streamed(data[k]) \o IF k = Len(data) THEN <<>> ELSE <<",", " ">>
             list == [k \in DOMAIN data |-> at(k)]
  <1>1. /\ Len(data) \in Nat /\ DOMAIN data = 1 .. Len(data)
        /\ \A k \in 1 .. Len(data) : data[k] \in Seq(Text)
    BY LenProperties, ElementOfSeq
  <1>2. "[" \in Plain /\ "]" \in Plain /\ "," \in Plain /\ " " \in Plain
    BY DEF Plain, Whole, Byte, Symbols
  <1>3. <<"[">> \in Seq(Plain) /\ <<"]">> \in Seq(Plain) /\ <<",", " ">> \in Seq(Plain)
        /\ <<>> \in Seq(Plain)
    BY <1>2, OneChar, TwoChars, EmptySeq
  <1>4. \A k \in 1 .. Len(data) : at(k) \in Seq(Plain)
    BY <1>1, <1>3, StreamedType, ConcatProperties
  <1>5. list \in [1 .. Len(data) -> Seq(Plain)]
    BY <1>1, <1>4
  <1>6. streamedAll(data) = <<"[">> \o FlattenSeq(list) \o <<"]">>
    BY DEF streamedAll
  <1> HIDE DEF list
  <1>7. FlattenSeq(list) \in Seq(Plain)
    BY <1>1, <1>5, FlattenMap
  <1>8. <<"[">> \o FlattenSeq(list) \in Seq(Plain)
    BY <1>3, <1>7, ConcatProperties
  <1>9. QED BY <1>3, <1>6, <1>8, ConcatProperties

\* A marked file of two converted records shows the two lines.
LEMMA TwoRecords ==
  ASSUME NEW first \in Records, NEW second \in Records
  PROVE  LET bytes == header \o convert(format(first)) \o convert(format(second))
         IN /\ Lines(Shown(bytes)) = {Line(first), Line(second)}
            /\ Head(bytes) = "BOM"
  <1> DEFINE x == format(first)
             y == format(second)
  <1>1. x \in Ended /\ y \in Ended /\ Lines(x) = {Line(first)} /\ Lines(y) = {Line(second)}
    BY FormatLines
  <1> HIDE DEF x, y
  <1>2. x \o y \in Ended /\ Lines(x \o y) = Lines(x) \cup Lines(y)
    BY <1>1, EndedJoins
  <1>3. x \in Seq(Byte) /\ y \in Seq(Byte) /\ x \o y \in Seq(Whole)
    BY <1>1, <1>2, WholeInByte DEF Ended
  <1>4. convert(x \o y) = convert(x) \o convert(y)
    BY <1>3, ConvertConcat
  <1>5. (header \o convert(x)) \o convert(y) = header \o (convert(x) \o convert(y))
    <2>1. header \in Seq(Byte)
      <3>1. <<"BOM">> \in Seq(Byte)
        BY CharSets, OneChar
      <3>2. QED BY <3>1, ConvertEmpty, ConcatEmptySeq DEF header
    <2>2. convert(x) \in Seq(Byte) /\ convert(y) \in Seq(Byte)
      BY <1>3, ConvertType
    <2>3. Associates(header, convert(x), convert(y))
      BY <2>1, <2>2, Joined
    <2>4. QED BY <2>3 DEF Associates
  <1>6. /\ Shown(header \o convert(x) \o convert(y)) = x \o y
        /\ Head(header \o convert(x) \o convert(y)) = "BOM"
    BY <1>3, <1>4, <1>5, ShownMarked
  <1>7. QED BY <1>1, <1>2, <1>6 DEF x, y

\* What a program streams into a Record, formatted and converted, reads back from a file
\* of two such records as their two lines.
THEOREM RecordsAlwaysReadBack == RecordsReadBack
  <1>1. {"null", "a", "\r", "lead", "trail"} \subseteq Text
    BY DEF Text, Byte, Symbols
  <1>2. Null \in Seq(Text) /\ <<"a">> \in Seq(Text)
    BY <1>1, OneChar DEF Null
  <1>3. ASSUME NEW text \in Narrow PROVE FlattenSeq(text) \in Seq(Text)
    <2> DEFINE C == {<<"a">>, <<"\r">>, <<"lead", "trail">>}
    <2>1. C \subseteq Seq(Text)
      BY <1>1, OneChar, TwoChars
    <2>2. text \in Seq(C)
      <3>1. text \in Messages(C, 2)
        BY DEF Narrow
      <3> HIDE DEF C
      <3>2. QED BY <3>1, MessagesAreSeqs
    <2>3. text \in Seq(Seq(Text))
      BY <2>1, <2>2, SeqMonotonic
    <2>4. QED BY <2>3, FlattenType
  <1>4. SUFFICES ASSUME NEW m \in Seq(Text), NEW n \in Seq(Text), NEW fails \in BOOLEAN
        PROVE  LET first == Record(1, "t1", printf(m, fails))
                   second == Record(3, "t2", streamedAll(<<n, <<"a">>>>))
               IN first \in Records /\ second \in Records
    BY <1>2, <1>3, TwoRecords DEF RecordsReadBack
  <1>5. printf(m, fails) \in Seq(Plain)
    BY <1>2, StreamedType DEF printf, vasprintf
  <1>6. streamedAll(<<n, <<"a">>>>) \in Seq(Plain)
    <2>1. <<n, <<"a">>>> \in Seq(Seq(Text))
      BY <1>2, TwoChars
    <2>2. QED BY <2>1, StreamedAllType
  <1>7. "t1" \in Plain /\ "t2" \in Plain
    BY DEF Plain, Whole, Byte, Symbols
  <1>8. QED BY <1>5, <1>6, <1>7 DEF Record, Records, Severity

-----------------------------------------------------------------------------
(* Severities. *)

\* severityFromString undoes severityToString.
THEOREM SeveritiesReadBack == SeverityReadsBack
  <1> SUFFICES ASSUME NEW s \in 0 .. 6
               PROVE  severityFromString(Initial(severityToString(s))) = s
    BY DEF SeverityReadsBack, Severity
  <1> DEFINE Pairs == {<<"F", "FATAL">>, <<"E", "ERROR">>, <<"W", "WARN">>,
                       <<"I", "INFO">>, <<"D", "DEBUG">>, <<"V", "VERB">>,
                       <<"N", "NONE">>}
             Letters == {"F", "E", "W", "I", "D", "V", "N"}
  <1>1. ASSUME NEW c \in Letters, NEW name, <<c, name>> \in Pairs
        PROVE  Initial(name) = c
    <2>1. \A d \in Letters : <<d, name>> \in Pairs => d = c
      BY <1>1
    <2>2. Initial(name) = CHOOSE d \in Letters : <<d, name>> \in Pairs
      BY DEF Initial
    <2> HIDE DEF Letters, Pairs
    <2>3. QED BY <1>1, <2>1, <2>2
  <1>2. CASE s = 0
    <2>1. severityToString(s) = "NONE" /\ Initial("NONE") = "N"
      BY <1>1, <1>2 DEF severityToString
    <2>2. QED BY <1>2, <2>1 DEF severityFromString
  <1>3. CASE s = 1
    <2>1. severityToString(s) = "FATAL" /\ Initial("FATAL") = "F"
      BY <1>1, <1>3 DEF severityToString
    <2>2. QED BY <1>3, <2>1 DEF severityFromString
  <1>4. CASE s = 2
    <2>1. severityToString(s) = "ERROR" /\ Initial("ERROR") = "E"
      BY <1>1, <1>4 DEF severityToString
    <2>2. QED BY <1>4, <2>1 DEF severityFromString
  <1>5. CASE s = 3
    <2>1. severityToString(s) = "WARN" /\ Initial("WARN") = "W"
      BY <1>1, <1>5 DEF severityToString
    <2>2. QED BY <1>5, <2>1 DEF severityFromString
  <1>6. CASE s = 4
    <2>1. severityToString(s) = "INFO" /\ Initial("INFO") = "I"
      BY <1>1, <1>6 DEF severityToString
    <2>2. QED BY <1>6, <2>1 DEF severityFromString
  <1>7. CASE s = 5
    <2>1. severityToString(s) = "DEBUG" /\ Initial("DEBUG") = "D"
      BY <1>1, <1>7 DEF severityToString
    <2>2. QED BY <1>7, <2>1 DEF severityFromString
  <1>8. CASE s = 6
    <2>1. severityToString(s) = "VERB" /\ Initial("VERB") = "V"
      BY <1>1, <1>8 DEF severityToString
    <2>2. QED BY <1>8, <2>1 DEF severityFromString
  <1>9. QED BY <1>2, <1>3, <1>4, <1>5, <1>6, <1>7, <1>8

-----------------------------------------------------------------------------
(* The CSV format. *)

\* A bounded set of numbers has a least member, and Min is it.
LEMMA MinExists ==
  ASSUME NEW n \in Nat, NEW T, T \subseteq 0 .. n, T # {}
  PROVE  Min(T) \in T /\ \A y \in T : Min(T) <= y
  <1> DEFINE U == {n - y : y \in T}
  <1>1. U \subseteq 0 .. n /\ U # {}
    <2>1. \A y \in T : n - y \in 0 .. n
      OBVIOUS
    <2>2. PICK y \in T : TRUE
      OBVIOUS
    <2>3. n - y \in U
      OBVIOUS
    <2>4. QED BY <2>1, <2>3
  <1>2. Max(U) \in U /\ \A y \in U : Max(U) >= y
    <2> HIDE DEF U
    <2>1. QED BY <1>1, MaxExists
  <1>3. PICK x \in T : Max(U) = n - x
    BY <1>2
  <1>4. \A y \in T : x <= y
    <2> SUFFICES ASSUME NEW y \in T PROVE x <= y
      OBVIOUS
    <2>1. n - y \in U /\ x \in Nat /\ y \in Nat
      OBVIOUS
    <2>2. n - x >= n - y
      BY <1>2, <1>3, <2>1
    <2>3. QED BY <2>1, <2>2
  <1>5. QED BY <1>4 DEF Min

\* A text with each of its quotes doubled, which is what Quoted puts between quotes.
doubledAt(s, k) == IF s[k] = Quote THEN <<Quote, Quote>> ELSE <<s[k]>>
doubledAll(s) == [k \in DOMAIN s |-> doubledAt(s, k)]
doubled(s) == FlattenSeq(doubledAll(s))

\* Doubling gives a text over the same characters,
LEMMA DoubledIs ==
  ASSUME NEW C, Quote \in C, NEW x \in Seq(C)
  PROVE  doubledAll(x) \in [1 .. Len(x) -> Seq(C)] /\ doubled(x) \in Seq(C)
  <1>1. Len(x) \in Nat /\ DOMAIN x = 1 .. Len(x) /\ \A k \in 1 .. Len(x) : x[k] \in C
    BY LenProperties
  <1>2. \A k \in 1 .. Len(x) : doubledAt(x, k) \in Seq(C)
    <2>1. \A c \in C : <<c>> \in Seq(C)
      BY OneChar
    <2>2. <<Quote, Quote>> \in Seq(C)
      BY TwoChars
    <2>3. QED BY <1>1, <2>1, <2>2 DEF doubledAt
  <1>3. doubledAll(x) \in [1 .. Len(x) -> Seq(C)]
    BY <1>1, <1>2 DEF doubledAll
  <1>4. QED BY <1>1, <1>3, FlattenMap DEF doubled

\* of two texts what it gives of each,
LEMMA DoubledConcat ==
  ASSUME NEW C, Quote \in C, NEW x \in Seq(C), NEW y \in Seq(C)
  PROVE  doubled(x \o y) = doubled(x) \o doubled(y)
  <1>1. x \o y \in Seq(C) /\ Len(x) \in Nat /\ Len(y) \in Nat
        /\ Len(x \o y) = Len(x) + Len(y)
    BY ConcatParts
  <1>2. /\ doubledAll(x) \in [1 .. Len(x) -> Seq(C)]
        /\ doubledAll(y) \in [1 .. Len(y) -> Seq(C)]
        /\ doubledAll(x \o y) \in [1 .. Len(x) + Len(y) -> Seq(C)]
    BY <1>1, DoubledIs
  <1>3. Joins(doubledAll(x \o y), doubledAll(x), Len(x), doubledAll(y), Len(y))
    BY ConcatParts DEF Joins, doubledAll, doubledAt
  <1>4. doubledAll(x \o y) = doubledAll(x) \o doubledAll(y)
    BY <1>1, <1>2, <1>3, MapsConcat
  <1>5. doubledAll(x) \in Seq(Seq(C)) /\ doubledAll(y) \in Seq(Seq(C))
    BY <1>1, <1>2, FunctionIsSeq
  <1>6. QED BY <1>4, <1>5, FlattenConcat DEF doubled

\* of one character one or, of a quote, two,
LEMMA DoubledOne ==
  ASSUME NEW C, Quote \in C, NEW c \in C
  PROVE  doubled(<<c>>) = IF c = Quote THEN <<Quote, Quote>> ELSE <<c>>
  <1> DEFINE e == IF c = Quote THEN <<Quote, Quote>> ELSE <<c>>
  <1>1. doubledAll(<<c>>) = <<e>>
    BY DEF doubledAll, doubledAt
  <1>2. e \in Seq(C)
    BY OneChar, TwoChars
  <1> HIDE DEF e
  <1>3. doubled(<<c>>) = e
    BY <1>1, <1>2, FlattenOne DEF doubled
  <1>4. QED BY <1>3 DEF e

\* nothing of nothing,
LEMMA DoubledEmpty == doubled(<<>>) = <<>>
  <1>1. doubledAll(<<>>) = <<>>
    BY DEF doubledAll
  <1>2. QED BY <1>1, FlattenEmpty DEF doubled

\* and a text without quotes as it is.
LEMMA DoubledPlain ==
  ASSUME NEW C, Quote \in C, NEW x \in Seq(C \ {Quote})
  PROVE  doubled(x) = x
  <1> DEFINE D == C \ {Quote}
             S == {u \in Seq(D) : doubled(u) = u}
  <1>0. \A u \in Seq(D) : u \in Seq(C)
    <2>1. D \subseteq C
      OBVIOUS
    <2> HIDE DEF D
    <2>2. QED BY <2>1, SeqMonotonic
  <1>1. <<>> \in S
    BY EmptySeq, DoubledEmpty
  <1>2. ASSUME NEW u \in Seq(D), NEW c \in D, u \in S PROVE Append(u, c) \in S
    <2>1. c \in C /\ c # Quote
      OBVIOUS
    <2>2. u \in Seq(C) /\ <<c>> \in Seq(C)
      BY <1>0, <2>1, OneChar
    <2>3. doubled(u) = u
      BY <1>2
    <2> HIDE DEF D
    <2>4. Append(u, c) = u \o <<c>> /\ Append(u, c) \in Seq(D)
      BY AppendIsConcat, AppendProperties
    <2>5. doubled(u \o <<c>>) = u \o <<c>>
      <3>1. doubled(<<c>>) = <<c>>
        BY <2>1, DoubledOne
      <3>2. doubled(u \o <<c>>) = doubled(u) \o doubled(<<c>>)
        BY <2>2, DoubledConcat
      <3>3. QED BY <2>3, <3>1, <3>2
    <2>6. QED BY <2>4, <2>5
  <1>3. x \in Seq(D)
    OBVIOUS
  <1> HIDE DEF S, D
  <1>4. Seq(D) \subseteq S
    BY <1>1, <1>2, SeqSetInduction
  <1>5. QED BY <1>3, <1>4 DEF S

\* A doubled text whose last character is c, without that character.
doubledFront(s, c) == IF c = Quote THEN doubled(s) \o <<Quote>> ELSE doubled(s)

\* A doubled text ends in the last character of the text.
LEMMA DoubledLast ==
  ASSUME NEW C, Quote \in C, NEW s \in Seq(C), NEW c \in C
  PROVE  /\ doubled(Append(s, c)) = doubled(s) \o doubled(<<c>>)
         /\ doubled(Append(s, c)) = Append(doubledFront(s, c), c)
         /\ doubledFront(s, c) \in Seq(C)
  <1>1. <<c>> \in Seq(C) /\ <<Quote>> \in Seq(C) /\ doubled(s) \in Seq(C)
    BY OneChar, DoubledIs
  <1>2. Append(s, c) = s \o <<c>>
    BY AppendIsConcat
  <1>3. doubled(s \o <<c>>) = doubled(s) \o doubled(<<c>>)
    BY <1>1, DoubledConcat
  <1>4. doubled(<<c>>) = IF c = Quote THEN <<Quote, Quote>> ELSE <<c>>
    BY DoubledOne
  <1> DEFINE d == doubled(s)
  <1>5. CASE c = Quote
    <2>1. <<Quote, Quote>> = <<Quote>> \o <<Quote>>
      BY TwoChars
    <2> HIDE DEF d
    <2>2. d \o <<Quote>> \in Seq(C)
      BY <1>1, ConcatProperties DEF d
    <2>3. (d \o <<Quote>>) \o <<Quote>> = d \o (<<Quote>> \o <<Quote>>)
      <3>1. Associates(d, <<Quote>>, <<Quote>>)
        BY <1>1, Joined DEF d
      <3>2. QED BY <3>1 DEF Associates
    <2>4. Append(d \o <<Quote>>, c) = (d \o <<Quote>>) \o <<c>>
      BY <2>2, AppendIsConcat
    <2>5. doubledFront(s, c) = d \o <<Quote>>
      BY <1>5 DEF d, doubledFront
    <2>6. QED BY <1>2, <1>3, <1>4, <1>5, <2>1, <2>2, <2>3, <2>4, <2>5 DEF d
  <1>6. CASE c # Quote
    <2>1. Append(d, c) = d \o <<c>>
      BY <1>1, AppendIsConcat
    <2>2. doubledFront(s, c) = d
      BY <1>6 DEF doubledFront
    <2>3. QED BY <1>1, <1>2, <1>3, <1>4, <1>6, <2>1, <2>2
  <1>7. QED BY <1>5, <1>6

\* Two texts that double alike are the same text: their last characters are, and so
\* are the doubled texts without what those have become.
LEMMA DoublingTells ==
  ASSUME NEW C, Quote \in C, NEW x \in Seq(C), NEW y \in Seq(C), doubled(x) = doubled(y)
  PROVE  x = y
  <1> DEFINE S == {s \in Seq(C) : \A t \in Seq(C) : doubled(s) = doubled(t) => s = t}
  <1>1. ASSUME NEW s \in Seq(C), NEW c \in C
        PROVE  /\ doubled(Append(s, c)) = doubled(s) \o doubled(<<c>>)
               /\ doubled(Append(s, c)) = Append(doubledFront(s, c), c)
               /\ doubledFront(s, c) \in Seq(C)
               /\ doubled(Append(s, c)) # <<>>
    <2>1. /\ doubled(Append(s, c)) = doubled(s) \o doubled(<<c>>)
          /\ doubled(Append(s, c)) = Append(doubledFront(s, c), c)
          /\ doubledFront(s, c) \in Seq(C)
      BY DoubledLast
    <2>2. Append(doubledFront(s, c), c) # <<>>
      BY <2>1, AppendProperties
    <2>3. QED BY <2>1, <2>2
  <1>2. <<>> \in S
    <2>1. ASSUME NEW t \in Seq(C), t # <<>> PROVE doubled(t) # <<>>
      <3>1. PICK u \in Seq(C), c \in C : t = Append(u, c)
        BY <2>1, SequenceEmptyOrAppend
      <3>2. QED BY <1>1, <3>1
    <2>2. QED BY <2>1, EmptySeq, DoubledEmpty
  <1>3. ASSUME NEW s \in Seq(C), NEW c \in C, s \in S PROVE Append(s, c) \in S
    <2>1. ASSUME NEW t \in Seq(C), doubled(Append(s, c)) = doubled(t)
          PROVE  Append(s, c) = t
      <3>1. t # <<>>
        BY <1>1, <2>1, DoubledEmpty
      <3>2. PICK u \in Seq(C), e \in C : t = Append(u, e)
        BY <3>1, SequenceEmptyOrAppend
      <3>3. /\ doubled(Append(s, c)) = Append(doubledFront(s, c), c)
            /\ doubledFront(s, c) \in Seq(C)
        BY <1>1
      <3>4. /\ doubled(Append(u, e)) = Append(doubledFront(u, e), e)
            /\ doubledFront(u, e) \in Seq(C)
        BY <1>1
      <3>5. c = e
        BY <2>1, <3>2, <3>3, <3>4, AppendInjective
      <3>6. /\ doubled(Append(s, c)) = doubled(s) \o doubled(<<c>>)
            /\ doubled(Append(u, e)) = doubled(u) \o doubled(<<e>>)
        BY <1>1
      <3>7. doubled(s) \o doubled(<<c>>) = doubled(u) \o doubled(<<c>>)
        BY <2>1, <3>2, <3>5, <3>6
      <3>8. doubled(s) \in Seq(C) /\ doubled(u) \in Seq(C) /\ doubled(<<c>>) \in Seq(C)
        BY OneChar, DoubledIs
      <3>9. doubled(s) = doubled(u)
        BY <3>7, <3>8, ConcatSimplifications
      <3>10. QED BY <1>3, <3>2, <3>5, <3>9
    <2>2. QED BY <2>1, AppendProperties
  <1> HIDE DEF S
  <1>4. Seq(C) \subseteq S
    BY <1>2, <1>3, SeqSetInduction
  <1>5. QED BY <1>4 DEF S

\* A quoted text is a quote, the doubled text and a quote.
LEMMA QuotedIs == \A s : Quoted(s) = (<<Quote>> \o doubled(s)) \o <<Quote>>
  BY DEF Quoted, doubled, doubledAll, doubledAt

\* Where the loop of CsvFormatter finds the next quote from place k on.
nextQuote(message, k) ==
  Min({e \in k .. Len(message) : message[e] = Quote} \cup {Len(message) + 1})

\* What the loop has still to write.
Rest(message, k) == SubSeq(message, k, Len(message))

\* The next quote is the first one from place k on, or there is none.
LEMMA NextQuoteIs ==
  ASSUME NEW C, NEW m \in Seq(C), NEW k \in 1 .. Len(m) + 1
  PROVE  /\ nextQuote(m, k) \in k .. Len(m) + 1
         /\ nextQuote(m, k) # Len(m) + 1 => m[nextQuote(m, k)] = Quote
         /\ \A i \in k .. nextQuote(m, k) - 1 : m[i] # Quote
  <1> DEFINE T == {e \in k .. Len(m) : m[e] = Quote} \cup {Len(m) + 1}
  <1>1. Len(m) + 1 \in Nat /\ T \subseteq 0 .. Len(m) + 1 /\ T # {}
    <2>1. Len(m) \in Nat
      BY LenProperties
    <2>2. QED BY <2>1
  <1>2. nextQuote(m, k) = Min(T)
    BY DEF nextQuote
  <1>3. Min(T) \in T /\ \A y \in T : Min(T) <= y
    <2> HIDE DEF T
    <2>1. QED BY <1>1, MinExists
  <1> DEFINE e == Min(T)
  <1>4. e \in T /\ \A y \in T : e <= y
    BY <1>3
  <1>5. nextQuote(m, k) = e
    BY <1>2
  <1> HIDE DEF e
  <1>6. e \in k .. Len(m) + 1
    BY <1>1, <1>4
  <1>7. e # Len(m) + 1 => m[e] = Quote
    BY <1>4
  <1>8. ASSUME NEW i \in k .. e - 1 PROVE m[i] # Quote
    <2>1. i \in k .. Len(m) /\ ~(e <= i)
      BY <1>1, <1>6
    <2>2. QED BY <1>4, <2>1
  <1>9. QED BY <1>5, <1>6, <1>7, <1>8

\* The text of one turn of the loop, and of the turns after it.
turn(message, k, rest) ==
  <<Quote>> \o SubSeq(message, k, nextQuote(message, k) - 1) \o <<Quote>>
    \o IF nextQuote(message, k) > Len(message) THEN <<>> ELSE rest

\* A quoted text after another one: two quotes meet, as in a doubled quote.
LEMMA Regroup ==
  ASSUME NEW C, NEW q \in Seq(C), NEW a \in Seq(C), NEW d \in Seq(C)
  PROVE  ((q \o a) \o q) \o ((q \o d) \o q) = (q \o ((a \o (q \o q)) \o d)) \o q
  <1> DEFINE z == (q \o d) \o q
             qq == q \o q
             aq == a \o qq
             dq == d \o q
             qz == q \o z
             qa == q \o a
             aqd == aq \o d
  <1>1. qq \in Seq(C)
    BY ConcatProperties
  <1>2. dq \in Seq(C)
    BY ConcatProperties
  <1>3. qa \in Seq(C)
    BY ConcatProperties
  <1>4. z \in Seq(C)
    <2>1. q \o d \in Seq(C)
      BY ConcatProperties
    <2>2. QED BY <2>1, ConcatProperties
  <1>5. qz \in Seq(C)
    BY <1>4, ConcatProperties
  <1>6. aq \in Seq(C)
    BY <1>1, ConcatProperties
  <1> HIDE DEF aq
  <1>7. aqd \in Seq(C)
    BY <1>6, ConcatProperties
  <1> HIDE DEF z, qq, dq, qz, qa, aqd
  <1>8. z = q \o dq
    <2>1. Associates(q, d, q)
      BY Joined
    <2>2. QED BY <2>1 DEF Associates, z, dq
  <1>9. qz = qq \o dq
    <2>1. Associates(q, q, dq)
      BY <1>2, Joined
    <2>2. QED BY <1>8, <2>1 DEF Associates, qz, qq
  <1>10. (qa \o q) \o z = q \o (a \o qz)
    <2>1. Associates(qa, q, z) /\ Associates(q, a, qz)
      BY <1>3, <1>4, <1>5, Joined
    <2>2. QED BY <2>1 DEF Associates, qa, qz
  <1>11. a \o qz = aq \o dq
    <2>1. Associates(a, qq, dq)
      BY <1>1, <1>2, Joined
    <2>2. QED BY <1>9, <2>1 DEF Associates, aq
  <1>12. q \o (aq \o dq) = (q \o aqd) \o q
    <2>1. Associates(aq, d, q) /\ Associates(q, aqd, q)
      BY <1>6, <1>7, Joined
    <2>2. QED BY <2>1 DEF Associates, aqd, dq
  <1>13. (qa \o q) \o z = (q \o aqd) \o q
    BY <1>10, <1>11, <1>12
  <1>14. QED BY <1>13 DEF z, qa, aqd, aq, qq

\* A turn of the loop writes the token and its quotes; if the turns after it write the
\* rest quoted, this one and they write it quoted from the token on.
LEMMA CsvTurn ==
  ASSUME NEW C, Quote \in C, NEW m \in Seq(C), NEW k \in 1 .. Len(m) + 1
  PROVE  turn(m, k, Quoted(Rest(m, nextQuote(m, k) + 1))) = Quoted(Rest(m, k))
  <1> DEFINE e == nextQuote(m, k)
             q == <<Quote>>
             a == SubSeq(m, k, e - 1)
  <1>1. /\ Len(m) \in Nat /\ e \in k .. Len(m) + 1
        /\ e # Len(m) + 1 => m[e] = Quote
        /\ \A i \in k .. e - 1 : m[i] # Quote
    BY LenProperties, NextQuoteIs
  <1>2. q \in Seq(C)
    BY OneChar
  <1>3. turn(m, k, Quoted(Rest(m, e + 1))) =
          ((q \o a) \o q) \o IF e > Len(m) THEN <<>> ELSE Quoted(Rest(m, e + 1))
    BY DEF turn
  <1> HIDE DEF e, q
  <1>4. a \in Seq(C) /\ doubled(a) = a
    <2>1. \A i \in k .. e - 1 : m[i] \in C \ {Quote}
      <3>1. \A i \in k .. e - 1 : i \in 1 .. Len(m)
        BY <1>1
      <3>2. QED BY <1>1, <3>1, ElementOfSeq
    <2>2. a \in Seq(C \ {Quote})
      <3>1. k \in Int /\ e - 1 \in Int
        BY <1>1
      <3> DEFINE D == C \ {Quote}
      <3>2. \A i \in k .. e - 1 : m[i] \in D
        BY <2>1
      <3> HIDE DEF D
      <3>3. a \in Seq(D)
        BY <3>1, <3>2, SubSeqProperties
      <3>4. QED BY <3>3 DEF D
    <2>3. a \in Seq(C)
      <3>1. C \ {Quote} \subseteq C
        OBVIOUS
      <3>2. QED BY <2>2, <3>1, SeqMonotonic
    <2>4. QED BY <2>2, <2>3, DoubledPlain
  <1>5. CASE e > Len(m)
    <2>1. e - 1 = Len(m)
      BY <1>1, <1>5
    <2>2. Rest(m, k) = a
      BY <2>1 DEF Rest
    <2> HIDE DEF a
    <2>3. (q \o a) \o q \in Seq(C)
      BY <1>2, <1>4, ConcatProperties
    <2>4. ((q \o a) \o q) \o <<>> = (q \o a) \o q
      BY <2>3, ConcatEmptySeq
    <2>5. Quoted(a) = (q \o a) \o q
      BY <1>4, QuotedIs DEF q
    <2>6. QED BY <1>3, <1>5, <2>2, <2>4, <2>5 DEF e
  <1>6. CASE e <= Len(m)
    <2> DEFINE b == Rest(m, e + 1)
    <2>1. /\ e \in 1 .. Len(m) /\ e - 1 \in k - 1 .. Len(m) /\ (e - 1) + 1 = e
          /\ Len(m) \in e - 1 .. Len(m) /\ e \in e - 1 .. Len(m) /\ Len(m) \in e .. Len(m)
          /\ e + 1 \in 1 .. Len(m) + 1 /\ m[e] = Quote
      BY <1>1, <1>6
    <2>2. b \in Seq(C)
      BY <2>1, SubSeqParts DEF Rest
    <2>3. Rest(m, k) = a \o Rest(m, e)
      <3>1. SubSeq(m, k, e - 1) \o SubSeq(m, (e - 1) + 1, Len(m)) = SubSeq(m, k, Len(m))
        BY <2>1, ConcatAdjacentSubSeq
      <3>2. QED BY <2>1, <3>1 DEF Rest
    <2>4. Rest(m, e) = q \o b
      BY <2>1, SubSeqRecursiveFirst DEF Rest, q
    <2> DEFINE d == doubled(b)
    <2>5. d \in Seq(C)
      BY <2>2, DoubledIs
    <2>6. Quoted(b) = (q \o d) \o q
      BY QuotedIs DEF q
    <2>7. doubled(q) = q \o q
      <3>1. doubled(<<Quote>>) = <<Quote, Quote>>
        BY DoubledOne
      <3>2. QED BY <3>1, TwoChars DEF q
    <2> HIDE DEF a, b
    <2>8. doubled(Rest(m, k)) = (a \o (q \o q)) \o d
      <3>1. q \o b \in Seq(C) /\ q \o q \in Seq(C)
        BY <1>2, <2>2, ConcatProperties
      <3>2. doubled(a \o (q \o b)) = a \o doubled(q \o b)
        BY <1>4, <3>1, DoubledConcat
      <3>3. doubled(q \o b) = (q \o q) \o d
        BY <1>2, <2>2, <2>7, DoubledConcat
      <3> DEFINE qq == q \o q
      <3>4. qq \in Seq(C)
        BY <3>1
      <3> HIDE DEF d, qq
      <3>5. Associates(a, qq, d)
        BY <1>4, <2>5, <3>4, Joined
      <3> USE DEF qq
      <3>6. QED BY <2>3, <2>4, <3>2, <3>3, <3>5 DEF Associates
    <2> HIDE DEF d
    <2>9. Quoted(Rest(m, k)) = (q \o ((a \o (q \o q)) \o d)) \o q
      BY <2>8, QuotedIs DEF q
    <2>10. ((q \o a) \o q) \o ((q \o d) \o q) = (q \o ((a \o (q \o q)) \o d)) \o q
      BY <1>2, <1>4, <2>5, Regroup
    <2>11. turn(m, k, Quoted(b)) = ((q \o a) \o q) \o Quoted(b)
      <3>1. ~(e > Len(m))
        BY <1>1, <1>6
      <3>2. QED BY <1>3, <3>1 DEF a, b
    <2>12. QED BY <2>6, <2>9, <2>10, <2>11 DEF b, e
  <1>7. QED BY <1>1, <1>5, <1>6

\* A function f is what the loop leaves to write from each place on.
Tokens(message, f) ==
  f = [k \in 1 .. Len(message) + 1 |-> turn(message, k, f[nextQuote(message, k) + 1])]

\* The definition of tokens in csvFormat has a solution,
LEMMA TokensExist ==
  ASSUME NEW C, Quote \in C, NEW m \in Seq(C)
  PROVE  \E f : Tokens(m, f)
  <1> DEFINE f == [k \in 1 .. Len(m) + 1 |-> Quoted(Rest(m, k))]
  <1>1. ASSUME NEW k \in 1 .. Len(m) + 1
        PROVE  turn(m, k, f[nextQuote(m, k) + 1]) = Quoted(Rest(m, k))
    <2>1. nextQuote(m, k) \in k .. Len(m) + 1 /\ Len(m) \in Nat
      BY NextQuoteIs, LenProperties
    <2>2. CASE nextQuote(m, k) > Len(m)
      <3>1. turn(m, k, f[nextQuote(m, k) + 1]) =
              turn(m, k, Quoted(Rest(m, nextQuote(m, k) + 1)))
        BY <2>2 DEF turn
      <3> HIDE DEF f
      <3>2. QED BY <3>1, CsvTurn
    <2>3. CASE nextQuote(m, k) <= Len(m)
      <3>1. nextQuote(m, k) + 1 \in 1 .. Len(m) + 1
        BY <2>1, <2>3
      <3>2. f[nextQuote(m, k) + 1] = Quoted(Rest(m, nextQuote(m, k) + 1))
        BY <3>1
      <3> HIDE DEF f
      <3>3. QED BY <3>2, CsvTurn
    <2>4. QED BY <2>1, <2>2, <2>3
  <1>2. Tokens(m, f)
    <2>1. [k \in 1 .. Len(m) + 1 |-> Quoted(Rest(m, k))] =
            [k \in 1 .. Len(m) + 1 |-> turn(m, k, f[nextQuote(m, k) + 1])]
      <3> DEFINE g(k) == turn(m, k, f[nextQuote(m, k) + 1])
                 h(k) == Quoted(Rest(m, k))
      <3>1. \A k \in 1 .. Len(m) + 1 : g(k) = h(k)
        BY <1>1
      <3> HIDE DEF g, h
      <3>2. [k \in 1 .. Len(m) + 1 |-> h(k)] = [k \in 1 .. Len(m) + 1 |-> g(k)]
        BY <3>1
      <3>3. QED BY <3>2 DEF g, h
    <2>2. QED BY <2>1 DEF Tokens
  <1> HIDE DEF f
  <1>3. QED BY <1>2

\* and any solution, from the first place on, is the quoted message.
LEMMA TokensAre ==
  ASSUME NEW C, Quote \in C, NEW m \in Seq(C), NEW f, Tokens(m, f)
  PROVE  f[1] = Quoted(m)
  <1>0. Len(m) \in Nat
    BY LenProperties
  <1> DEFINE Good(n) == \A k \in 1 .. Len(m) + 1 :
                          Len(m) + 1 - k < n => f[k] = Quoted(Rest(m, k))
             S == {n \in Nat : Good(n)}
  <1>1. Good(0)
    BY <1>0
  <1>2. ASSUME NEW n \in Nat, Good(n) PROVE Good(n + 1)
    <2> SUFFICES ASSUME NEW k \in 1 .. Len(m) + 1, Len(m) + 1 - k < n + 1
                 PROVE  f[k] = Quoted(Rest(m, k))
      OBVIOUS
    <2> DEFINE e == nextQuote(m, k)
    <2>1. e \in k .. Len(m) + 1
      BY NextQuoteIs
    <2>2. f[k] = turn(m, k, f[e + 1])
      <3> DEFINE g == [i \in 1 .. Len(m) + 1 |-> turn(m, i, f[nextQuote(m, i) + 1])]
      <3>1. g[k] = turn(m, k, f[e + 1])
        OBVIOUS
      <3>2. f = g
        BY DEF Tokens
      <3> HIDE DEF g, e
      <3>3. QED BY <3>1, <3>2
    <2>3. turn(m, k, f[e + 1]) = turn(m, k, Quoted(Rest(m, e + 1)))
      <3>1. CASE e > Len(m)
        BY <3>1 DEF turn
      <3>2. CASE e <= Len(m)
        <4>1. e + 1 \in 1 .. Len(m) + 1 /\ Len(m) + 1 - (e + 1) < n
          <5> HIDE DEF e
          <5>1. QED BY <1>0, <2>1, <3>2
        <4>2. f[e + 1] = Quoted(Rest(m, e + 1))
          <5> HIDE DEF e
          <5>1. QED BY <1>2, <4>1
        <4>3. QED BY <4>2
      <3>3. e > Len(m) \/ e <= Len(m)
        <4> HIDE DEF e
        <4>1. QED BY <1>0, <2>1
      <3>4. QED BY <3>1, <3>2, <3>3
    <2>4. turn(m, k, Quoted(Rest(m, e + 1))) = Quoted(Rest(m, k))
      BY CsvTurn
    <2>5. QED BY <2>2, <2>3, <2>4
  <1>3. Nat \subseteq S
    <2> HIDE DEF Good
    <2>1. 0 \in S /\ \A n \in Nat : n \in S => n + 1 \in S
      BY <1>1, <1>2
    <2> HIDE DEF S
    <2>2. QED BY <2>1, NatSetInduction
  <1>4. Good(Len(m) + 1)
    <2> HIDE DEF Good
    <2>1. QED BY <1>0, <1>3
  <1>5. 1 \in 1 .. Len(m) + 1 /\ Len(m) + 1 - 1 < Len(m) + 1
    BY <1>0
  <1>6. f[1] = Quoted(Rest(m, 1))
    BY <1>4, <1>5
  <1>7. Rest(m, 1) = m
    BY SubSeqFull DEF Rest
  <1>8. QED BY <1>6, <1>7

\* For a message of any length and any quotes in it, what the loop of CsvFormatter::format
\* makes of its tokens is the message between quotes with each quote doubled: the form a
\* reader of such a file expects.
THEOREM CsvLine ==
  ASSUME NEW C, Quote \in C, NEW r, shortened(r.message) \in Seq(C)
  PROVE  csvFormat(r) =
           <<severityToString(r.severity), ";", r.tid, ";">>
             \o Quoted(shortened(r.message)) \o <<"\n">>
  <1> DEFINE m == shortened(r.message)
             f == CHOOSE f : Tokens(m, f)
  <1>1. csvFormat(r) = <<severityToString(r.severity), ";", r.tid, ";">> \o f[1] \o <<"\n">>
    BY DEF csvFormat, Tokens, turn, nextQuote
  <1>2. m \in Seq(C)
    OBVIOUS
  <1>3. Tokens(m, f)
    <2> HIDE DEF m
    <2>1. \E g : Tokens(m, g)
      BY <1>2, TokensExist
    <2>2. QED BY <2>1
  <1> HIDE DEF f, m
  <1>4. f[1] = Quoted(m)
    BY <1>2, <1>3, TokensAre
  <1>5. QED BY <1>1, <1>4 DEF m

\* Quoting is injective.
LEMMA QuotingTells ==
  ASSUME NEW C, Quote \in C, NEW x \in Seq(C), NEW y \in Seq(C)
  PROVE  Quoted(x) = Quoted(y) => x = y
  <1>1. /\ <<Quote>> \in Seq(C) /\ doubled(x) \in Seq(C) /\ doubled(y) \in Seq(C)
        /\ <<Quote>> \o doubled(x) \in Seq(C) /\ <<Quote>> \o doubled(y) \in Seq(C)
    BY OneChar, DoubledIs, ConcatProperties
  <1>2. ASSUME Quoted(x) = Quoted(y) PROVE doubled(x) = doubled(y)
    <2>1. (<<Quote>> \o doubled(x)) \o <<Quote>> = (<<Quote>> \o doubled(y)) \o <<Quote>>
      BY <1>2, QuotedIs
    <2>2. <<Quote>> \o doubled(x) = <<Quote>> \o doubled(y)
      BY <1>1, <2>1, ConcatSimplifications
    <2>3. QED BY <1>1, <2>2, ConcatSimplifications
  <1>3. QED BY <1>2, DoublingTells

\* Quoting adds characters of its own only.
LEMMA QuotedSeq ==
  ASSUME NEW C, Quote \in C, NEW x \in Seq(C)
  PROVE  Quoted(x) \in Seq(C)
  BY OneChar, DoubledIs, ConcatProperties, QuotedIs

\* Four fields are a sequence, and one over some characters is one over more.
LEMMA FourFields ==
  ASSUME NEW D, NEW a \in D, NEW b \in D, NEW c \in D, NEW d \in D
  PROVE  <<a, b, c, d>> \in Seq(D)
  OBVIOUS

LEMMA WiderSeq ==
  ASSUME NEW C, NEW D, C \subseteq D
  PROVE  Seq(C) \subseteq Seq(D)
  OBVIOUS

\* For messages of any length up to kMaxMessageSize: two records with the same fields
\* that CsvFormatter::format writes alike have the same message, quotes or not. Of a
\* longer message only the first kMaxMessageSize characters are told.
THEOREM CsvTellsMessages ==
  ASSUME NEW C, Quote \in C,
         NEW severity, NEW tid, NEW x \in Seq(C), NEW y \in Seq(C),
         Len(x) <= kMaxMessageSize, Len(y) <= kMaxMessageSize,
         csvFormat(Record(severity, tid, x)) = csvFormat(Record(severity, tid, y))
  PROVE  x = y
  <1> DEFINE fields == <<severityToString(severity), ";", tid, ";">>
             D == C \cup {severityToString(severity), ";", tid, "\n"}
  <1>1. shortened(x) = x /\ shortened(y) = y
    BY LogTextAssumption DEF shortened
  <1>2. ASSUME NEW z \in Seq(C), shortened(z) = z
        PROVE  csvFormat(Record(severity, tid, z)) = (fields \o Quoted(z)) \o <<"\n">>
    <2>1. Record(severity, tid, z).message = z /\ Record(severity, tid, z).tid = tid
          /\ Record(severity, tid, z).severity = severity
      BY DEF Record
    <2>2. QED BY <1>2, <2>1, CsvLine
  <1>3. (fields \o Quoted(x)) \o <<"\n">> = (fields \o Quoted(y)) \o <<"\n">>
    BY <1>1, <1>2
  <1>4. Seq(C) \subseteq Seq(D) /\ fields \in Seq(D) /\ <<"\n">> \in Seq(D)
    <2>1. C \subseteq D /\ severityToString(severity) \in D /\ ";" \in D /\ tid \in D /\ "\n" \in D
      OBVIOUS
    <2>2. fields \in Seq(D)
      BY <2>1, FourFields
    <2>3. <<"\n">> \in Seq(D)
      BY <2>1, OneChar
    <2>4. Seq(C) \subseteq Seq(D)
      BY <2>1, WiderSeq
    <2>5. QED BY <2>2, <2>3, <2>4
  <1>5. Quoted(x) \in Seq(D) /\ Quoted(y) \in Seq(D)
    BY <1>4, QuotedSeq
  <1> HIDE DEF fields, D
  <1>6. fields \o Quoted(x) \in Seq(D) /\ fields \o Quoted(y) \in Seq(D)
    BY <1>4, <1>5, ConcatProperties
  <1>7. fields \o Quoted(x) = fields \o Quoted(y)
    BY <1>3, <1>4, <1>6, ConcatSimplifications
  <1>8. Quoted(x) = Quoted(y)
    BY <1>4, <1>5, <1>7, ConcatSimplifications
  <1>9. QED BY <1>8, QuotingTells

\* Shortening keeps the first characters and says so, or keeps all.
LEMMA Shortened ==
  ASSUME NEW C, "." \in C, NEW message \in Seq(C)
  PROVE  LET kept == SubSeq(message, 1, Min({Len(message), kMaxMessageSize}))
             shown == kept \o IF kept = message THEN <<>> ELSE <<".", ".", ".">>
         IN shortened(message) = shown /\ shown \in Seq(C)
  <1> DEFINE n == Min({Len(message), kMaxMessageSize})
             kept == SubSeq(message, 1, n)
             dots == <<".", ".", ".">>
  <1>1. Len(message) \in Nat /\ kMaxMessageSize \in Nat
    BY LenProperties, LogTextAssumption
  <1>2. dots \in Seq(C)
    OBVIOUS
  <1>3. CASE Len(message) > kMaxMessageSize
    <2>1. n = kMaxMessageSize
      <3> DEFINE T == {Len(message), kMaxMessageSize}
      <3>1. T \subseteq 0 .. Len(message) /\ kMaxMessageSize \in T
            /\ \A y \in T : kMaxMessageSize <= y
        BY <1>1, <1>3
      <3> HIDE DEF T
      <3>2. Min(T) = kMaxMessageSize
        BY <1>1, <3>1, MinUnique
      <3>3. QED BY <3>2 DEF T
    <2>2. n \in 0 .. Len(message) /\ 1 \in 1 .. Len(message) + 1
      BY <1>1, <1>3, <2>1
    <2> HIDE DEF n
    <2>3. kept \in Seq(C) /\ Len(kept) = n
      <3>1. kept \in Seq(C) /\ Len(kept) = IF 1 <= n THEN n - 1 + 1 ELSE 0
        BY <2>2, SubSeqParts
      <3>2. QED BY <2>2, <3>1
    <2>4. kept # message
      BY <1>3, <2>1, <2>3
    <2>5. shortened(message) = kept \o dots
      BY <1>3, <2>1 DEF shortened
    <2>6. kept \o dots \in Seq(C)
      BY <1>2, <2>3, ConcatProperties
    <2>7. QED BY <2>4, <2>5, <2>6 DEF n
  <1>4. CASE Len(message) <= kMaxMessageSize
    <2>1. n = Len(message)
      <3> DEFINE T == {Len(message), kMaxMessageSize}
      <3>1. T \subseteq 0 .. kMaxMessageSize /\ Len(message) \in T
            /\ \A y \in T : Len(message) <= y
        BY <1>1, <1>4
      <3> HIDE DEF T
      <3>2. Min(T) = Len(message)
        BY <1>1, <3>1, MinUnique
      <3>3. QED BY <3>2 DEF T
    <2>2. kept = message
      BY <2>1, SubSeqFull
    <2>3. shortened(message) = message
      BY <1>1, <1>4 DEF shortened
    <2>4. message \o <<>> = message
      BY ConcatEmptySeq
    <2>5. QED BY <2>2, <2>3, <2>4
  <1>5. Len(message) > kMaxMessageSize \/ Len(message) <= kMaxMessageSize
    BY <1>1
  <1>6. QED BY <1>3, <1>4, <1>5

\* The messages of CsvReadsBack are texts.
LEMMA CsvMessages ==
  \A s \in Messages({"a", Quote, Wide}, kMaxMessageSize + 2) :
    s \in Seq({"a", Quote, Wide, "."})
  <1> DEFINE D == {"a", Quote, Wide}
             C == {"a", Quote, Wide, "."}
  <1>1. D \subseteq C
    OBVIOUS
  <1> HIDE DEF C, D
  <1>2. kMaxMessageSize + 2 \in Nat
    BY LogTextAssumption
  <1>3. \A s \in Messages(D, kMaxMessageSize + 2) : s \in Seq(D)
    BY <1>2, MessagesAreSeqs
  <1>4. \A s \in Messages(D, kMaxMessageSize + 2) : s \in Seq(C)
    BY <1>1, <1>3, SeqMonotonic
  <1>5. QED BY <1>4 DEF C, D

\* A message reads back from its CSV line, shortened if it was too long.
THEOREM CsvAlwaysReadsBack == CsvReadsBack
  <1> DEFINE C == {"a", Quote, Wide, "."}
  <1>1. SUFFICES ASSUME NEW message \in Seq(C)
        PROVE  LET kept == SubSeq(message, 1, Min({Len(message), kMaxMessageSize}))
                   shown == kept \o IF kept = message THEN <<>> ELSE <<".", ".", ".">>
               IN formatFor(<<"a", ".", "csv">>, Record(1, "t1", message)) =
                    <<"FATAL", ";", "t1", ";">> \o Quoted(shown) \o <<"\n">>
    BY CsvMessages DEF CsvReadsBack
  <1> DEFINE name == <<"a", ".", "csv">>
             r == Record(1, "t1", message)
  <1>2. isCsv(name)
    <2>1. {k \in DOMAIN name : name[k] = "."} = {2}
      OBVIOUS
    <2>2. Max({2}) = 2
      <3> DEFINE T == {2}
      <3>1. T \subseteq 0 .. 2 /\ 2 \in T /\ \A y \in T : y <= 2
        OBVIOUS
      <3> HIDE DEF T
      <3>2. Max(T) = 2
        BY <3>1, MaxUnique
      <3>3. QED BY <3>2 DEF T
    <2>3. findExtensionDot(name) = 2
      BY <2>1, <2>2 DEF findExtensionDot
    <2>4. SubSeq(name, 2 + 1, Len(name)) = <<"csv">>
      <3> DEFINE L == {"a", ".", "csv"}
      <3>1. name \in Seq(L) /\ Len(name) = 3 /\ name[3] = "csv"
        OBVIOUS
      <3>2. <<"csv">> \in Seq(L)
        OBVIOUS
      <3> HIDE DEF name, L
      <3>3. /\ SubSeq(name, 3, 3) \in Seq(L) /\ Len(SubSeq(name, 3, 3)) = 1
            /\ SubSeq(name, 3, 3)[1] = name[3]
        BY <3>1, SubSeqParts
      <3>4. \A i \in 1 .. 1 : SubSeq(name, 3, 3)[i] = <<"csv">>[i]
        BY <3>1, <3>3
      <3>5. Len(<<"csv">>) = 1
        OBVIOUS
      <3>6. SubSeq(name, 3, 3) = <<"csv">>
        BY <3>2, <3>3, <3>4, <3>5, SeqEqual
      <3>7. QED BY <3>1, <3>6
    <2> HIDE DEF name
    <2>5. QED BY <2>3, <2>4 DEF isCsv, splitFileName
  <1>3. formatFor(name, r) = csvFormat(r)
    <2> HIDE DEF name
    <2>1. QED BY <1>2 DEF formatFor
  <1>4. Quote \in C /\ "." \in C
    OBVIOUS
  <1>5. r.message = message /\ r.tid = "t1" /\ severityToString(r.severity) = "FATAL"
    BY DEF Record, severityToString
  <1> DEFINE kept == SubSeq(message, 1, Min({Len(message), kMaxMessageSize}))
             shown == kept \o IF kept = message THEN <<>> ELSE <<".", ".", ".">>
  <1> HIDE DEF C, r
  <1>6. shortened(message) = shown /\ shown \in Seq(C)
    BY <1>1, <1>4, Shortened
  <1> HIDE DEF shown
  <1>7. csvFormat(r) = <<"FATAL", ";", "t1", ";">> \o Quoted(shown) \o <<"\n">>
    BY <1>4, <1>5, <1>6, CsvLine
  <1>8. QED BY <1>3, <1>7 DEF r, shown

-----------------------------------------------------------------------------
(* File names. *)

\* The digits, the last one of a number, and what decimal asks of its value for n.
Digits == {"0", "1", "2", "3", "4", "5", "6", "7", "8", "9"}
lastDigit(n) == <<Digit[(n % 10) + 1]>>
Spells(f, n) == f[n] = (IF n < 10 THEN <<>> ELSE f[n \div 10]) \o lastDigit(n)

\* Division by ten.
LEMMA Division ==
  ASSUME NEW n \in Nat
  PROVE  /\ n % 10 \in 0 .. 9 /\ n \div 10 \in Nat
         /\ n = 10 * (n \div 10) + (n % 10)
         /\ n > 0 => n \div 10 < n
         /\ n < 10 => n % 10 = n
  OBVIOUS

\* The last digit is a digit and tells the remainder.
LEMMA LastDigit ==
  /\ \A n \in Nat : Digit[(n % 10) + 1] \in Digits
  /\ \A m, n \in Nat : Digit[(m % 10) + 1] = Digit[(n % 10) + 1] => m % 10 = n % 10
  <1>1. \A i \in 1 .. 10 : Digit[i] \in Digits
    BY DEF Digit, Digits
  <1>2. \A i, j \in 1 .. 10 : Digit[i] = Digit[j] => i = j
    BY DEF Digit
  <1>3. \A n \in Nat : (n % 10) + 1 \in 1 .. 10 /\ n % 10 \in Nat
    BY Division
  <1>4. ASSUME NEW m \in Nat, NEW n \in Nat, Digit[(m % 10) + 1] = Digit[(n % 10) + 1]
        PROVE  m % 10 = n % 10
    <2>1. (m % 10) + 1 = (n % 10) + 1
      BY <1>2, <1>3, <1>4
    <2>2. QED BY <1>3, <2>1
  <1>5. QED BY <1>1, <1>3, <1>4

\* Two functions that spell the numbers up to n spell n alike,
LEMMA SpellsAgree ==
  ASSUME NEW n \in Nat, NEW f, NEW g,
         \A i \in 0 .. n : Spells(f, i), \A i \in 0 .. n : Spells(g, i)
  PROVE  f[n] = g[n]
  <1> DEFINE Same(m) == \A i \in 0 .. n : i <= m => f[i] = g[i]
             S == {m \in Nat : Same(m)}
  <1>1. ASSUME NEW i \in 0 .. n, i >= 10 => f[i \div 10] = g[i \div 10]
        PROVE  f[i] = g[i]
    <2>1. Spells(f, i) /\ Spells(g, i)
      OBVIOUS
    <2>2. CASE i < 10
      BY <2>1, <2>2 DEF Spells
    <2>3. CASE i >= 10
      BY <1>1, <2>1, <2>3 DEF Spells
    <2>4. QED BY <2>2, <2>3
  <1>2. Same(0)
    BY <1>1
  <1>3. ASSUME NEW m \in Nat, Same(m) PROVE Same(m + 1)
    <2> SUFFICES ASSUME NEW i \in 0 .. n, i <= m + 1 PROVE f[i] = g[i]
      OBVIOUS
    <2>1. i >= 10 => i \div 10 \in 0 .. n /\ i \div 10 <= m
      BY Division
    <2>2. i >= 10 => f[i \div 10] = g[i \div 10]
      BY <1>3, <2>1
    <2>3. QED BY <1>1, <2>2
  <1>4. Nat \subseteq S
    <2> HIDE DEF Same
    <2>1. 0 \in S /\ \A m \in Nat : m \in S => m + 1 \in S
      BY <1>2, <1>3
    <2> HIDE DEF S
    <2>2. QED BY <2>1, NatSetInduction
  <1>5. Same(n)
    <2> HIDE DEF Same
    <2>1. QED BY <1>4
  <1>6. QED BY <1>5

\* there is one that spells the numbers up to n,
LEMMA SpellsExist ==
  ASSUME NEW n \in Nat
  PROVE  \E f \in [0 .. n -> Seq(Digits)] : \A i \in 0 .. n : Spells(f, i)
  <1> DEFINE Good(m, f) == \A i \in 0 .. m : Spells(f, i)
             Some(m) == \E f \in [0 .. m -> Seq(Digits)] : Good(m, f)
             S == {m \in Nat : Some(m)}
  <1>0. \A m \in Nat : lastDigit(m) \in Seq(Digits)
    BY LastDigit, OneChar DEF lastDigit
  <1>1. Some(0)
    <2> DEFINE f == [i \in 0 .. 0 |-> lastDigit(0)]
    <2>1. f \in [0 .. 0 -> Seq(Digits)]
      BY <1>0
    <2>2. <<>> \o lastDigit(0) = lastDigit(0)
      BY <1>0, ConcatEmptySeq
    <2>3. Good(0, f)
      <3>1. f[0] = lastDigit(0) /\ \A i \in 0 .. 0 : i = 0
        OBVIOUS
      <3> HIDE DEF f
      <3>2. Spells(f, 0)
        BY <2>2, <3>1 DEF Spells
      <3>3. QED BY <3>1, <3>2
    <2> HIDE DEF f, Good
    <2>4. QED BY <2>1, <2>3
  <1>2. ASSUME NEW m \in Nat, Some(m) PROVE Some(m + 1)
    <2>1. PICK f \in [0 .. m -> Seq(Digits)] : Good(m, f)
      BY <1>2
    <2> DEFINE e == (IF m + 1 < 10 THEN <<>> ELSE f[(m + 1) \div 10]) \o lastDigit(m + 1)
               g == [i \in 0 .. m + 1 |-> IF i <= m THEN f[i] ELSE e]
    <2>2. (m + 1) \div 10 \in 0 .. m
      BY Division
    <2>3. e \in Seq(Digits)
      <3>1. lastDigit(m + 1) \in Seq(Digits)
        BY <1>0
      <3>2. f[(m + 1) \div 10] \in Seq(Digits) /\ <<>> \in Seq(Digits)
        BY <2>2, EmptySeq
      <3>3. QED BY <3>1, <3>2, ConcatProperties
    <2>4. g \in [0 .. m + 1 -> Seq(Digits)]
      BY <2>3
    <2>5. \A i \in 0 .. m : g[i] = f[i]
      OBVIOUS
    <2>6. g[m + 1] = e
      OBVIOUS
    <2>7. ASSUME NEW i \in 0 .. m PROVE Spells(g, i)
      <3>1. i \div 10 \in 0 .. m
        BY Division
      <3> HIDE DEF g
      <3>2. QED BY <2>1, <2>5, <3>1 DEF Spells
    <2>8. Spells(g, m + 1)
      <3> HIDE DEF g
      <3>1. g[(m + 1) \div 10] = f[(m + 1) \div 10]
        BY <2>2, <2>5
      <3>2. QED BY <2>6, <3>1 DEF Spells
    <2> HIDE DEF g
    <2>9. Good(m + 1, g)
      <3>1. \A i \in 0 .. m + 1 : i \in 0 .. m \/ i = m + 1
        OBVIOUS
      <3>2. QED BY <2>7, <2>8, <3>1
    <2> HIDE DEF Good
    <2>10. QED BY <2>4, <2>9
  <1>3. Nat \subseteq S
    <2> HIDE DEF Some
    <2>1. 0 \in S /\ \A m \in Nat : m \in S => m + 1 \in S
      BY <1>1, <1>2
    <2> HIDE DEF S
    <2>2. QED BY <2>1, NatSetInduction
  <1>4. Some(n)
    <2> HIDE DEF Some
    <2>1. QED BY <1>3
  <1>5. QED BY <1>4

\* so decimal spells every number, with digits.
LEMMA DecimalIs ==
  /\ \A n \in Nat : decimal[n] \in Seq(Digits)
  /\ \A n \in Nat : Spells(decimal, n)
  <1> DEFINE Decimals(f) ==
               f = [n \in Nat |-> (IF n < 10 THEN <<>> ELSE f[n \div 10])
                                    \o <<Digit[(n % 10) + 1]>>]
             upTo(n) ==
               CHOOSE f \in [0 .. n -> Seq(Digits)] : \A i \in 0 .. n : Spells(f, i)
             g == [n \in Nat |-> upTo(n)[n]]
  <1>1. \A n \in Nat : /\ upTo(n) \in [0 .. n -> Seq(Digits)]
                       /\ \A i \in 0 .. n : Spells(upTo(n), i)
    BY SpellsExist
  <1> HIDE DEF upTo
  <1>2. \A n \in Nat : g[n] = upTo(n)[n] /\ g[n] \in Seq(Digits)
    BY <1>1
  <1>3. ASSUME NEW n \in Nat PROVE Spells(g, n)
    <2>1. Spells(upTo(n), n)
      BY <1>1
    <2>2. CASE n < 10
      BY <1>2, <2>1, <2>2 DEF Spells
    <2>3. CASE n >= 10
      <3> DEFINE m == n \div 10
      <3>1. m \in Nat /\ m < n
        BY <2>3, Division
      <3> HIDE DEF m
      <3>2. \A i \in 0 .. m : Spells(upTo(n), i)
        <4>1. \A i \in 0 .. m : i \in 0 .. n
          BY <3>1
        <4>2. QED BY <1>1, <4>1
      <3>3. \A i \in 0 .. m : Spells(upTo(m), i)
        BY <1>1, <3>1
      <3>4. upTo(n)[m] = upTo(m)[m]
        BY <3>1, <3>2, <3>3, SpellsAgree
      <3>5. g[m] = upTo(n)[m] /\ g[n] = upTo(n)[n]
        BY <1>2, <3>1, <3>4
      <3> HIDE DEF g
      <3>6. QED BY <2>1, <2>3, <3>5 DEF Spells, m
    <2>4. QED BY <2>2, <2>3
  <1>4. Decimals(g)
    <2>1. \A n \in Nat : upTo(n)[n] = (IF n < 10 THEN <<>> ELSE g[n \div 10])
                                    \o <<Digit[(n % 10) + 1]>>
      <3> HIDE DEF g
      <3>1. QED BY <1>2, <1>3 DEF Spells, lastDigit
    <2>2. QED BY <2>1
  <1>5. \E f : Decimals(f)
    <2> HIDE DEF g, Decimals
    <2>1. QED BY <1>4
  <1>6. decimal = CHOOSE f : Decimals(f)
    BY DEF decimal
  <1>7. Decimals(decimal)
    <2> HIDE DEF Decimals
    <2>1. QED BY <1>5, <1>6
  <1>8. ASSUME NEW n \in Nat PROVE Spells(decimal, n)
    <2> DEFINE h == [i \in Nat |-> (IF i < 10 THEN <<>> ELSE decimal[i \div 10])
                                    \o <<Digit[(i % 10) + 1]>>]
    <2>1. h[n] = (IF n < 10 THEN <<>> ELSE decimal[n \div 10]) \o <<Digit[(n % 10) + 1]>>
      OBVIOUS
    <2>2. decimal = h
      BY <1>7
    <2> HIDE DEF h
    <2>3. QED BY <2>1, <2>2 DEF Spells, lastDigit
  <1>9. ASSUME NEW n \in Nat PROVE decimal[n] \in Seq(Digits)
    <2>1. \A i \in 0 .. n : Spells(decimal, i) /\ Spells(g, i)
      BY <1>3, <1>8
    <2> HIDE DEF g
    <2>2. decimal[n] = g[n]
      BY <2>1, SpellsAgree
    <2>3. QED BY <1>2, <2>2
  <1>10. QED BY <1>8, <1>9

\* The digits before the last.
leading(n) == IF n < 10 THEN <<>> ELSE decimal[n \div 10]

\* A number's digits are those before the last, and the last.
LEMMA DecimalEnds ==
  ASSUME NEW n \in Nat
  PROVE  /\ leading(n) \in Seq(Digits) /\ Digit[(n % 10) + 1] \in Digits
         /\ decimal[n] = Append(leading(n), Digit[(n % 10) + 1])
         /\ decimal[n] # <<>>
  <1>1. leading(n) \in Seq(Digits)
    <2>1. n \div 10 \in Nat
      BY Division
    <2>2. QED BY <2>1, DecimalIs, EmptySeq DEF leading
  <1>2. Digit[(n % 10) + 1] \in Digits
    BY LastDigit
  <1>3. decimal[n] = leading(n) \o <<Digit[(n % 10) + 1]>>
    BY DecimalIs DEF Spells, leading, lastDigit
  <1>4. Append(leading(n), Digit[(n % 10) + 1]) = leading(n) \o <<Digit[(n % 10) + 1]>>
    BY <1>1, <1>2, AppendIsConcat
  <1>5. Append(leading(n), Digit[(n % 10) + 1]) # <<>>
    BY <1>1, <1>2, AppendProperties
  <1>6. QED BY <1>1, <1>2, <1>3, <1>4, <1>5

\* Two numbers spelled alike are the same number.
LEMMA DecimalsDiffer ==
  ASSUME NEW m \in Nat, NEW n \in Nat, decimal[m] = decimal[n]
  PROVE  m = n
  <1> DEFINE Good(k) == \A i, j \in Nat : i <= k /\ decimal[i] = decimal[j] => i = j
             S == {k \in Nat : Good(k)}
  <1>1. ASSUME NEW i \in Nat, NEW j \in Nat, decimal[i] = decimal[j],
               i >= 10 /\ j >= 10 /\ decimal[i \div 10] = decimal[j \div 10]
                 => i \div 10 = j \div 10
        PROVE  i = j
    <2>1. leading(i) = leading(j) /\ Digit[(i % 10) + 1] = Digit[(j % 10) + 1]
      <3> DEFINE c == Digit[(i % 10) + 1]
                 d == Digit[(j % 10) + 1]
      <3>1. /\ leading(i) \in Seq(Digits) /\ leading(j) \in Seq(Digits)
            /\ c \in Digits /\ d \in Digits
            /\ Append(leading(i), c) = Append(leading(j), d)
        BY <1>1, DecimalEnds
      <3> HIDE DEF c, d
      <3>2. leading(i) = leading(j) /\ c = d
        BY <3>1, AppendInjective
      <3>3. QED BY <3>2 DEF c, d
    <2>2. i % 10 = j % 10
      BY <2>1, LastDigit
    <2>3. i >= 10 => leading(i) = decimal[i \div 10] /\ leading(i) # <<>>
      BY Division, DecimalEnds DEF leading
    <2>4. j >= 10 => leading(j) = decimal[j \div 10] /\ leading(j) # <<>>
      BY Division, DecimalEnds DEF leading
    <2>5. CASE i < 10
      <3>1. j < 10
        BY <2>1, <2>4, <2>5 DEF leading
      <3>2. QED BY <2>2, <2>5, <3>1, Division
    <2>6. CASE i >= 10
      <3>1. j >= 10
        BY <2>1, <2>3, <2>6 DEF leading
      <3>2. i \div 10 = j \div 10
        BY <1>1, <2>1, <2>3, <2>4, <2>6, <3>1
      <3>3. i = 10 * (i \div 10) + (i % 10) /\ j = 10 * (j \div 10) + (j % 10)
        BY Division
      <3>4. QED BY <2>2, <3>2, <3>3
    <2>7. QED BY <2>5, <2>6
  <1>2. Good(0)
    <2> SUFFICES ASSUME NEW i \in Nat, NEW j \in Nat, i <= 0, decimal[i] = decimal[j]
                 PROVE  i = j
      OBVIOUS
    <2>1. ~(i >= 10)
      OBVIOUS
    <2>2. QED BY <1>1, <2>1
  <1>3. ASSUME NEW k \in Nat, Good(k) PROVE Good(k + 1)
    <2> SUFFICES ASSUME NEW i \in Nat, NEW j \in Nat, i <= k + 1, decimal[i] = decimal[j]
                 PROVE  i = j
      OBVIOUS
    <2>1. i >= 10 => i \div 10 \in Nat /\ i \div 10 <= k
      BY Division
    <2>2. j \div 10 \in Nat
      BY Division
    <2>3. i >= 10 /\ decimal[i \div 10] = decimal[j \div 10] => i \div 10 = j \div 10
      BY <1>3, <2>1, <2>2
    <2>4. QED BY <1>1, <2>3
  <1>4. Nat \subseteq S
    <2> HIDE DEF Good
    <2>1. 0 \in S /\ \A k \in Nat : k \in S => k + 1 \in S
      BY <1>2, <1>3
    <2> HIDE DEF S
    <2>2. QED BY <2>1, NatSetInduction
  <1>5. Good(m)
    <2> HIDE DEF Good
    <2>1. QED BY <1>4
  <1>6. QED BY <1>5

\* What buildFileName puts between the name and its extension.
numbered(n) == IF n > 0 THEN <<".">> \o decimal[n] ELSE <<>>
\* What buildFileName puts after the number.
extended(parts) == IF parts.ext # <<>> THEN <<".">> \o parts.ext ELSE <<>>

\* What it puts for the number differs for different numbers,
LEMMA NumberedDiffers ==
  ASSUME NEW C, Digits \subseteq C, "." \in C
  PROVE  /\ \A n \in Nat : numbered(n) \in Seq(C)
         /\ \A m, n \in Nat : numbered(m) = numbered(n) => m = n
  <1>1. <<".">> \in Seq(C) /\ <<>> \in Seq(C)
    BY OneChar, EmptySeq
  <1>2. \A n \in Nat : decimal[n] \in Seq(C)
    BY DecimalIs, SeqMonotonic
  <1>3. ASSUME NEW n \in Nat
        PROVE  <<".">> \o decimal[n] \in Seq(C) /\ <<".">> \o decimal[n] # <<>>
    <2>1. <<".">> # <<>>
      OBVIOUS
    <2>2. QED BY <1>1, <1>2, <2>1, ConcatProperties, ConcatEqualIffEmpty
  <1>4. ASSUME NEW m \in Nat, NEW n \in Nat, numbered(m) = numbered(n)
        PROVE  m = n
    <2>1. CASE m = 0 \/ n = 0
      <3>1. \A i \in Nat : i > 0 => numbered(i) # <<>>
        BY <1>3 DEF numbered
      <3>2. numbered(0) = <<>>
        BY DEF numbered
      <3>3. \A i \in Nat : numbered(i) = <<>> => i = 0
        BY <3>1
      <3>4. QED BY <1>4, <2>1, <3>2, <3>3
    <2>2. CASE m > 0 /\ n > 0
      <3>1. <<".">> \o decimal[m] = <<".">> \o decimal[n]
        BY <1>4, <2>2 DEF numbered
      <3>2. decimal[m] = decimal[n]
        BY <1>1, <1>2, <3>1, ConcatSimplifications
      <3>3. QED BY <3>2, DecimalsDiffer
    <2>3. QED BY <2>1, <2>2
  <1>5. QED BY <1>1, <1>3, <1>4 DEF numbered

\* For every configured name and any two file numbers, buildFileName gives two names:
\* rollLogFiles never renames a file to a name that is another number's.
THEOREM NumbersTellNames ==
  ASSUME NEW C, Digits \subseteq C, "." \in C, NEW parts,
         parts.noExt \in Seq(C), parts.ext \in Seq(C), NEW m \in Nat, NEW n \in Nat,
         buildFileName(parts, m) = buildFileName(parts, n)
  PROVE  m = n
  <1> DEFINE name == parts.noExt
             ext == extended(parts)
  <1>1. ext \in Seq(C) /\ name \in Seq(C)
    BY OneChar, EmptySeq, ConcatProperties DEF extended
  <1>2. numbered(m) \in Seq(C) /\ numbered(n) \in Seq(C)
    BY NumberedDiffers
  <1>3. (name \o numbered(m)) \o ext = (name \o numbered(n)) \o ext
    BY DEF buildFileName, numbered, extended
  <1>4. name \o numbered(m) \in Seq(C) /\ name \o numbered(n) \in Seq(C)
    BY <1>1, <1>2, ConcatProperties
  <1> HIDE DEF name, ext
  <1>5. name \o numbered(m) = name \o numbered(n)
    BY <1>1, <1>3, <1>4, ConcatSimplifications
  <1>6. numbered(m) = numbered(n)
    BY <1>1, <1>2, <1>5, ConcatSimplifications
  <1>7. QED BY <1>6, NumberedDiffers

\* The parts of a name, and number 0 with them gives the name that was configured,
\* unless it ends in a dot.
THEOREM SplitName ==
  ASSUME NEW C, NEW name \in Seq(C)
  PROVE  /\ splitFileName(name).noExt \in Seq(C) /\ splitFileName(name).ext \in Seq(C)
         /\ name # <<>> /\ Last(name) # "." => buildFileName(splitFileName(name), 0) = name
  <1>1. Len(name) \in Nat /\ DOMAIN name = 1 .. Len(name)
    BY LenProperties
  <1> DEFINE dots == {k \in DOMAIN name : name[k] = "."}
             d == findExtensionDot(name)
  <1>2. d \in 0 .. Len(name) /\ (d # 0 => d \in 1 .. Len(name) /\ name[d] = ".")
    <2>1. CASE dots = {}
      BY <1>1, <2>1 DEF findExtensionDot
    <2>2. CASE dots # {}
      <3>1. dots \subseteq 0 .. Len(name)
        BY <1>1
      <3>2. Max(dots) \in dots
        <4> HIDE DEF dots
        <4>1. QED BY <1>1, <2>2, <3>1, MaxExists
      <3>3. d = Max(dots)
        BY <2>2 DEF findExtensionDot
      <3>4. QED BY <1>1, <3>2, <3>3
    <2>3. QED BY <2>1, <2>2
  <1> HIDE DEF d
  <1>3. CASE d = 0
    <2>1. splitFileName(name) = [noExt |-> name, ext |-> <<>>]
      BY <1>3 DEF splitFileName, d
    <2>2. buildFileName(splitFileName(name), 0) = (name \o <<>>) \o <<>>
      BY <2>1 DEF buildFileName
    <2>3. QED BY <2>1, <2>2, ConcatEmptySeq, EmptySeq
  <1>4. CASE d # 0
    <2> DEFINE x == SubSeq(name, 1, d - 1)
               y == SubSeq(name, d + 1, Len(name))
    <2>1. splitFileName(name) = [noExt |-> x, ext |-> y]
      BY <1>4 DEF splitFileName, d
    <2>2. /\ d \in 1 .. Len(name) /\ d - 1 \in 0 .. Len(name)
          /\ d + 1 \in 1 .. Len(name) + 1
          /\ 1 \in 1 .. Len(name) + 1 /\ Len(name) \in 0 .. Len(name)
          /\ Len(name) \in d .. Len(name) /\ Len(name) \in d - 1 .. Len(name)
          /\ (d - 1) + 1 = d
      BY <1>1, <1>2, <1>4
    <2>3. /\ x \in Seq(C) /\ y \in Seq(C)
          /\ Len(y) = IF d + 1 <= Len(name) THEN Len(name) - (d + 1) + 1 ELSE 0
      BY <2>2, SubSeqParts
    <2>4. name = x \o (<<".">> \o y)
      <3>1. SubSeq(name, 1, d - 1) \o SubSeq(name, (d - 1) + 1, Len(name))
              = SubSeq(name, 1, Len(name))
        BY <2>2, ConcatAdjacentSubSeq
      <3>2. SubSeq(name, d, Len(name)) = <<name[d]>> \o SubSeq(name, d + 1, Len(name))
        BY <2>2, SubSeqRecursiveFirst
      <3>3. name[d] = "."
        BY <1>2, <1>4
      <3>4. QED BY <2>2, <3>1, <3>2, <3>3, SubSeqFull
    <2> HIDE DEF x, y
    <2>5. ASSUME name # <<>>, Last(name) # "."
          PROVE  buildFileName(splitFileName(name), 0) = name
      <3>1. d # Len(name)
        BY <1>2, <1>4, <2>5 DEF Last
      <3>2. Len(y) # 0
        <4> DEFINE n == Len(name)
                   l == Len(y)
        <4>1. /\ n \in Nat /\ d \in 1 .. n /\ d # n
              /\ l = IF d + 1 <= n THEN n - (d + 1) + 1 ELSE 0
          BY <1>1, <2>2, <2>3, <3>1
        <4> HIDE DEF n, l
        <4>2. l # 0
          BY <4>1
        <4>3. QED BY <4>2 DEF l
      <3>3. y # <<>>
        BY <3>2
      <3>4. buildFileName(splitFileName(name), 0) = (x \o <<>>) \o (<<".">> \o y)
        BY <2>1, <3>3 DEF buildFileName
      <3>5. x \o <<>> = x
        BY <2>3, ConcatEmptySeq
      <3>6. QED BY <2>4, <3>4, <3>5
    <2>6. QED BY <2>1, <2>3, <2>5
  <1>5. QED BY <1>3, <1>4

\* File number 0 has the configured name, unless that ends in a dot, and every number
\* gives another name.
THEOREM NamesAlwaysDiffer == NamesDiffer
  <1> DEFINE D == {"a", ".", "/"}
             C == D \cup Digits
  <1>1. ASSUME NEW name \in Messages(D, 4)
        PROVE  LET parts == setFileName(name)
               IN /\ \A f, g \in 0 .. 11 :
                       buildFileName(parts, f) = buildFileName(parts, g) => f = g
                  /\ name # <<>> /\ Last(name) # "." => buildFileName(parts, 0) = name
    <2>1. D \subseteq C /\ Digits \subseteq C /\ "." \in C
      OBVIOUS
    <2> HIDE DEF C, D
    <2>2. name \in Seq(C)
      BY <2>1, MessagesAreSeqs, SeqMonotonic
    <2> DEFINE parts == splitFileName(name)
    <2>3. /\ parts.noExt \in Seq(C) /\ parts.ext \in Seq(C)
          /\ name # <<>> /\ Last(name) # "." => buildFileName(parts, 0) = name
      BY <2>2, SplitName
    <2> HIDE DEF parts
    <2>4. \A f, g \in Nat : buildFileName(parts, f) = buildFileName(parts, g) => f = g
      BY <2>1, <2>3, NumbersTellNames
    <2>5. QED BY <2>3, <2>4 DEF setFileName, parts
  <1>2. QED BY <1>1 DEF NamesDiffer

-----------------------------------------------------------------------------
(* The property of the run. *)

\* The files read back (FilesReadBack): what the run checks for four statements, for every
\* number of processes, files and statements, and for texts over any characters.
THEOREM FilesAlwaysReadBack == Spec => []FilesReadBack
  <1>1. FileLines => FilesReadBack
    BY RecordsAlwaysReadBack, CsvAlwaysReadsBack, SeveritiesReadBack, NamesAlwaysDiffer
      DEF FilesReadBack, FileLines
  <1>2. QED BY <1>1, FilesGiveRecords, PTL
=============================================================================
