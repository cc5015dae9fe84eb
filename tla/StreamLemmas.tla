---------------------------- MODULE StreamLemmas ----------------------------
(* Facts about sequences that are put together of others.  FlattenSeq is a *)
(* recursive function: what it computes needs induction over the number of *)
(* its parts, which is done here with sets of natural numbers, that is     *)
(* with the least element of a set that is not all of Nat.                 *)
EXTENDS Integers, Sequences, SequencesExt, SequenceTheorems, WellFoundedInduction, TLAPS

(* Induction: a set of naturals that has 0 and with each number the next   *)
(* has all of them.                                                        *)
LEMMA NatSetInduction ==
    ASSUME NEW T \in SUBSET Nat, 0 \in T, \A n \in T : n + 1 \in T
    PROVE  T = Nat
<1>1. SUFFICES ASSUME Nat \ T # {} PROVE FALSE
  OBVIOUS
<1>2. PICK x \in Nat \ T : \A y \in Nat \ T : ~(<<y, x>> \in OpToRel(<, Nat))
  BY <1>1, WFMin, NatLessThanWellFounded, Zenon
<1>3. \A y \in Nat \ T : ~(y < x)
  BY <1>2 DEF OpToRel
<1>4. x \in Nat /\ x \notin T
  BY <1>2
<1>5. x # 0
  BY <1>4
<1>6. x - 1 \in Nat /\ x - 1 < x /\ (x - 1) + 1 = x
  BY <1>4, <1>5
<1>7. x - 1 \notin T
  BY <1>4, <1>6
<1>8. QED
  BY <1>3, <1>6, <1>7

----------------------------------------------------------------------------
(* The function FlattenSeq defines by recursion, as a condition on it. *)
Flattens(f, ss) ==
    f = [i \in 1 .. Len(ss) |-> IF i = 1 THEN ss[i] ELSE f[i - 1] \o ss[i]]

(* There is such a function for every sequence of sequences. *)
LEMMA FlattensExist ==
    ASSUME NEW S, NEW ss \in Seq(S)
    PROVE  \E f : Flattens(f, ss)
<1> DEFINE upTo(f, n) == f = [i \in 1 .. n |-> IF i = 1 THEN ss[i] ELSE f[i - 1] \o ss[i]]
           T == {n \in Nat : \E f : upTo(f, n)}
<1>1. 0 \in T
  <2>1. upTo([i \in 1 .. 0 |-> 0], 0)
    OBVIOUS
  <2>2. QED
    BY <2>1
<1>2. ASSUME NEW n \in T
      PROVE  n + 1 \in T
  <2>1. PICK f : upTo(f, n)
    OBVIOUS
  <2> DEFINE g == [i \in 1 .. n + 1 |->
                      IF i = 1 THEN ss[i]
                      ELSE IF i = n + 1 THEN f[n] \o ss[n + 1] ELSE f[i]]
  <2>2. ASSUME NEW i \in 1 .. n + 1
        PROVE  g[i] = IF i = 1 THEN ss[i] ELSE g[i - 1] \o ss[i]
    <3>1. CASE i = 1
      BY <3>1
    <3>2. CASE i = n + 1 /\ i # 1
      <4>1. i - 1 = n /\ n \in 1 .. n + 1 /\ n # n + 1 /\ n \in 1 .. n
        BY <3>2
      <4>2. g[n] = f[n]
        <5>1. CASE n = 1
          BY <2>1, <4>1, <5>1
        <5>2. CASE n # 1
          BY <4>1, <5>2
        <5>3. QED
          BY <5>1, <5>2
      <4>3. g[i] = f[n] \o ss[i]
        BY <3>2
      <4>4. QED
        BY <3>2, <4>1, <4>2, <4>3
    <3>3. CASE i # n + 1 /\ i # 1
      <4>1. i \in 1 .. n /\ i - 1 \in 1 .. n /\ i - 1 \in 1 .. n + 1 /\ i - 1 # n + 1
        BY <3>3
      <4>2. g[i] = f[i] /\ f[i] = f[i - 1] \o ss[i]
        BY <2>1, <3>3, <4>1
      <4>3. g[i - 1] = f[i - 1]
        <5>1. CASE i - 1 = 1
          BY <2>1, <4>1, <5>1
        <5>2. CASE i - 1 # 1
          BY <4>1, <5>2
        <5>3. QED
          BY <5>1, <5>2
      <4>4. QED
        BY <3>3, <4>2, <4>3
    <3>4. QED
      BY <3>1, <3>2, <3>3
  <2>3. upTo(g, n + 1)
    <3> DEFINE h == [i \in 1 .. n + 1 |-> IF i = 1 THEN ss[i] ELSE g[i - 1] \o ss[i]]
    <3>1. DOMAIN g = 1 .. n + 1 /\ g = [i \in 1 .. n + 1 |-> g[i]]
      OBVIOUS
    <3> HIDE DEF g
    <3>2. g = h
      BY <2>2, <3>1
    <3>3. QED
      BY <3>2
  <2>4. n + 1 \in Nat
    OBVIOUS
  <2> HIDE DEF g, upTo
  <2>5. QED
    BY <2>3, <2>4
<1>3. T = Nat
  <2> HIDE DEF T
  <2>1. T \in SUBSET Nat
    BY DEF T
  <2>2. QED
    BY <1>1, <1>2, <2>1, NatSetInduction
<1>4. Len(ss) \in T
  <2>1. Len(ss) \in Nat
    OBVIOUS
  <2> HIDE DEF T
  <2>2. QED
    BY <1>3, <2>1
<1>5. QED
  BY <1>4 DEF Flattens

(* The functions of two sequences agree as far as the sequences do. *)
LEMMA FlattensAgree ==
    ASSUME NEW S, NEW ss \in Seq(S), NEW tt \in Seq(S), NEW f, NEW g,
           Flattens(f, ss), Flattens(g, tt),
           NEW k \in Nat, k <= Len(ss), k <= Len(tt),
           \A i \in 1 .. k : ss[i] = tt[i]
    PROVE  \A i \in 1 .. k : f[i] = g[i]
<1> DEFINE T == {n \in Nat : n \in 1 .. k => f[n] = g[n]}
<1>1. 0 \in T
  OBVIOUS
<1>2. ASSUME NEW n \in T
      PROVE  n + 1 \in T
  <2>1. SUFFICES ASSUME n + 1 \in 1 .. k PROVE f[n + 1] = g[n + 1]
    OBVIOUS
  <2>2. /\ n + 1 \in 1 .. Len(ss) /\ n + 1 \in 1 .. Len(tt)
        /\ ss[n + 1] = tt[n + 1] /\ (n + 1) - 1 = n
    BY <2>1
  <2>3. f[n + 1] = IF n + 1 = 1 THEN ss[n + 1] ELSE f[n] \o ss[n + 1]
    BY <2>2 DEF Flattens
  <2>4. g[n + 1] = IF n + 1 = 1 THEN tt[n + 1] ELSE g[n] \o tt[n + 1]
    BY <2>2 DEF Flattens
  <2>5. n + 1 # 1 => f[n] = g[n]
    BY <2>1
  <2>6. QED
    BY <2>2, <2>3, <2>4, <2>5
<1>3. T = Nat
  <2> HIDE DEF T
  <2>1. T \in SUBSET Nat
    BY DEF T
  <2>2. QED
    BY <1>1, <1>2, <2>1, NatSetInduction
<1>4. QED
  BY <1>3

(* FlattenSeq by the function it defines. *)
LEMMA FlattenFunction ==
    ASSUME NEW S, NEW ss \in Seq(S), ss # <<>>
    PROVE  \E f : Flattens(f, ss) /\ FlattenSeq(ss) = f[Len(ss)]
<1> DEFINE F == CHOOSE f : Flattens(f, ss)
<1>1. Flattens(F, ss)
  BY FlattensExist
<1>2. FlattenSeq(ss) = F[Len(ss)]
  BY DEF FlattenSeq, Flattens
<1>3. QED
  BY <1>1, <1>2

(* Nothing is put together of nothing. *)
LEMMA FlattenEmpty == FlattenSeq(<<>>) = <<>>
BY DEF FlattenSeq

(* One part is the whole. *)
LEMMA FlattenSingle ==
    ASSUME NEW S, NEW x \in S
    PROVE  FlattenSeq(<<x>>) = x
<1>1. <<x>> \in Seq(S) /\ <<x>> # <<>> /\ Len(<<x>>) = 1 /\ <<x>>[1] = x
  OBVIOUS
<1>2. PICK f : Flattens(f, <<x>>) /\ FlattenSeq(<<x>>) = f[1]
  BY <1>1, FlattenFunction
<1>3. QED
  BY <1>1, <1>2 DEF Flattens

(* One more part at the end. *)
LEMMA FlattenAppend ==
    ASSUME NEW S, NEW ss \in Seq(S), ss # <<>>, NEW x \in S
    PROVE  FlattenSeq(Append(ss, x)) = FlattenSeq(ss) \o x
<1> DEFINE tt == Append(ss, x)
           k == Len(ss)
<1>1. /\ k \in Nat /\ k >= 1 /\ tt \in Seq(S) /\ tt # <<>> /\ Len(tt) = k + 1
      /\ tt[k + 1] = x /\ \A i \in 1 .. k : ss[i] = tt[i]
  OBVIOUS
<1> HIDE DEF tt
<1>2. PICK f : Flattens(f, ss) /\ FlattenSeq(ss) = f[k]
  BY FlattenFunction
<1>3. PICK g : Flattens(g, tt) /\ FlattenSeq(tt) = g[k + 1]
  BY <1>1, FlattenFunction
<1>4. f[k] = g[k]
  BY <1>1, <1>2, <1>3, FlattensAgree
<1>5. g[k + 1] = g[k] \o tt[k + 1]
  <2>1. k + 1 \in 1 .. Len(tt) /\ k + 1 # 1 /\ (k + 1) - 1 = k
    BY <1>1
  <2>2. g[k + 1] = IF k + 1 = 1 THEN tt[k + 1] ELSE g[(k + 1) - 1] \o tt[k + 1]
    BY <1>3, <2>1 DEF Flattens
  <2>3. QED
    BY <2>1, <2>2
<1>6. QED
  BY <1>1, <1>2, <1>3, <1>4, <1>5 DEF tt
(* Sequences put together are a sequence of the same elements. *)
LEMMA FlattenType ==
    ASSUME NEW A, NEW ss \in Seq(Seq(A))
    PROVE  FlattenSeq(ss) \in Seq(A)
<1>1. CASE ss = <<>>
  <2>1. FlattenSeq(ss) = <<>>
    BY <1>1, FlattenEmpty
  <2>2. QED
    BY <2>1
<1>2. CASE ss # <<>>
  <2>1. PICK f : Flattens(f, ss) /\ FlattenSeq(ss) = f[Len(ss)]
    BY <1>2, FlattenFunction
  <2> DEFINE T == {n \in Nat : n \in 1 .. Len(ss) => f[n] \in Seq(A)}
  <2>2. 0 \in T
    OBVIOUS
  <2>3. ASSUME NEW n \in T
        PROVE  n + 1 \in T
    <3>1. SUFFICES ASSUME n + 1 \in 1 .. Len(ss) PROVE f[n + 1] \in Seq(A)
      OBVIOUS
    <3>2. f[n + 1] = IF n + 1 = 1 THEN ss[n + 1] ELSE f[(n + 1) - 1] \o ss[n + 1]
      BY <2>1, <3>1 DEF Flattens
    <3>3. ss[n + 1] \in Seq(A) /\ (n + 1) - 1 = n
      BY <3>1
    <3>4. n + 1 # 1 => f[n] \in Seq(A)
      BY <3>1
    <3>5. QED
      BY <3>2, <3>3, <3>4
  <2>4. T = Nat
    <3> HIDE DEF T
    <3>1. T \in SUBSET Nat
      BY DEF T
    <3>2. QED
      BY <2>2, <2>3, <3>1, NatSetInduction
  <2>5. Len(ss) \in Nat /\ Len(ss) \in 1 .. Len(ss)
    BY <1>2
  <2>6. QED
    BY <2>1, <2>4, <2>5
<1>3. QED
  BY <1>1, <1>2

(* One more part at the end, of a sequence that may be empty. *)
LEMMA FlattenAppended ==
    ASSUME NEW A, NEW ss \in Seq(Seq(A)), NEW x \in Seq(A)
    PROVE  FlattenSeq(Append(ss, x)) = FlattenSeq(ss) \o x
<1>1. CASE ss = <<>>
  <2>1. Append(ss, x) = <<x>>
    BY <1>1
  <2>2. QED
    BY <1>1, <2>1, FlattenSingle, FlattenEmpty
<1>2. CASE ss # <<>>
  BY <1>2, FlattenAppend
<1>3. QED
  BY <1>1, <1>2

(* The first part and the rest. *)
LEMMA FlattenHeadTail ==
    ASSUME NEW A, NEW ss \in Seq(Seq(A)), ss # <<>>
    PROVE  FlattenSeq(ss) = Head(ss) \o FlattenSeq(Tail(ss))
<1> DEFINE tt == Tail(ss)
           k == Len(ss)
<1>1. /\ k \in Nat /\ k >= 1 /\ tt \in Seq(Seq(A)) /\ Len(tt) = k - 1
      /\ Head(ss) = ss[1] /\ Head(ss) \in Seq(A)
      /\ \A i \in 1 .. k - 1 : tt[i] = ss[i + 1] /\ tt[i] \in Seq(A)
  OBVIOUS
<1> HIDE DEF tt
<1>2. PICK f : Flattens(f, ss) /\ FlattenSeq(ss) = f[k]
  BY FlattenFunction
<1>3. f[1] = ss[1]
  BY <1>1, <1>2 DEF Flattens
<1>4. CASE k = 1
  <2>1. tt = <<>>
    BY <1>1, <1>4
  <2>2. FlattenSeq(tt) = <<>>
    BY <2>1, FlattenEmpty
  <2>3. Head(ss) \o <<>> = Head(ss)
    BY <1>1
  <2>4. QED
    BY <1>1, <1>2, <1>3, <1>4, <2>2, <2>3 DEF tt
<1>5. CASE k # 1
  <2>1. tt # <<>>
    BY <1>1, <1>5
  <2>2. PICK g : Flattens(g, tt) /\ FlattenSeq(tt) = g[k - 1]
    BY <1>1, <2>1, FlattenFunction
  <2> DEFINE P(n) == n \in 1 .. k - 1 => f[n + 1] = ss[1] \o g[n] /\ g[n] \in Seq(A)
             T == {n \in Nat : P(n)}
  <2>3. P(0)
    OBVIOUS
  <2>4. ASSUME NEW n \in Nat, P(n), n + 1 \in 1 .. k - 1
        PROVE  f[n + 1 + 1] = ss[1] \o g[n + 1] /\ g[n + 1] \in Seq(A)
    <3>1. /\ n + 1 + 1 \in 1 .. Len(ss) /\ n + 1 + 1 # 1 /\ (n + 1 + 1) - 1 = n + 1
          /\ n + 1 \in 1 .. Len(tt) /\ (n + 1) - 1 = n
      BY <1>1, <2>4
    <3>2. f[n + 1 + 1] = f[n + 1] \o ss[n + 1 + 1]
      BY <1>2, <3>1 DEF Flattens
    <3>3. g[n + 1] = IF n + 1 = 1 THEN tt[n + 1] ELSE g[n] \o tt[n + 1]
      BY <2>2, <3>1 DEF Flattens
    <3>4. tt[n + 1] = ss[n + 1 + 1] /\ tt[n + 1] \in Seq(A)
      BY <1>1, <2>4
    <3>5. CASE n = 0
      <4>1. n + 1 = 1 /\ f[n + 1] = ss[1]
        BY <1>3, <3>5
      <4>2. g[n + 1] = tt[n + 1]
        BY <3>3, <4>1
      <4>3. QED
        BY <3>2, <3>4, <4>1, <4>2, Zenon
    <3>6. CASE n # 0
      <4>1. n \in 1 .. k - 1 /\ n + 1 # 1
        BY <1>1, <2>4, <3>6
      <4>2. f[n + 1] = ss[1] \o g[n] /\ g[n] \in Seq(A)
        BY <2>4, <4>1
      <4>3. ss[1] \in Seq(A)
        BY <1>1
      <4>4. g[n + 1] = g[n] \o tt[n + 1]
        BY <3>3, <4>1
      <4> HIDE DEF k
      <4> DEFINE x == tt[n + 1]
                 y == ss[n + 1 + 1]
                 f1 == f[n + 1]
                 f2 == f[n + 1 + 1]
                 a == g[n]
                 g2 == g[n + 1]
                 h == ss[1]
      <4>5. /\ h \in Seq(A) /\ a \in Seq(A) /\ x \in Seq(A) /\ y = x
            /\ f1 = h \o a /\ f2 = f1 \o y /\ g2 = a \o x
        BY <3>2, <3>4, <4>2, <4>3, <4>4
      <4> HIDE DEF x, y, f1, f2, a, g2, h
      <4>6. f2 = h \o g2 /\ g2 \in Seq(A)
        <5>1. (h \o a) \o x = h \o (a \o x)
          BY <4>5, ConcatAssociative, SMTT(20)
        <5>2. a \o x \in Seq(A)
          BY <4>5, ConcatProperties
        <5>3. f2 = (h \o a) \o x
          BY <4>5, Zenon
        <5>4. QED
          BY <4>5, <5>1, <5>2, <5>3, Zenon
      <4>7. QED
        BY <4>6 DEF f2, h, g2
    <3>7. QED
      BY <3>5, <3>6
  <2>5. T = Nat
    <3> HIDE DEF P
    <3>1. T \in SUBSET Nat /\ 0 \in T
      BY <2>3
    <3>2. ASSUME NEW n \in T
          PROVE  n + 1 \in T
      <4>1. n \in Nat /\ P(n) /\ n + 1 \in Nat
        OBVIOUS
      <4>2. P(n + 1)
        BY <2>4, <4>1 DEF P
      <4>3. QED
        BY <4>1, <4>2
    <3> HIDE DEF T
    <3>3. QED
      BY <3>1, <3>2, NatSetInduction
  <2>6. k - 1 \in Nat /\ k - 1 \in 1 .. k - 1 /\ (k - 1) + 1 = k
    BY <1>1, <1>5
  <2>7. f[k] = ss[1] \o g[k - 1]
    <3>1. P(k - 1)
      <4> HIDE DEF P
      <4>1. QED
        BY <2>5, <2>6
    <3>2. QED
      BY <2>6, <3>1
  <2>8. QED
    BY <1>1, <1>2, <2>2, <2>7 DEF tt
<1>6. QED
  BY <1>4, <1>5

(* Leading parts that are empty make no difference. *)
LEMMA FlattenSkip ==
    ASSUME NEW A, NEW ss \in Seq(Seq(A)), NEW k \in 0 .. Len(ss),
           \A i \in 1 .. k : ss[i] = <<>>
    PROVE  FlattenSeq(SubSeq(ss, k + 1, Len(ss))) = FlattenSeq(ss)
<1> DEFINE from(n) == SubSeq(ss, n + 1, Len(ss))
           T == {n \in Nat : n <= k => FlattenSeq(from(n)) = FlattenSeq(ss)}
<1>1. Len(ss) \in Nat
  OBVIOUS
<1>2. 0 \in T
  <2>1. from(0) = ss
    BY <1>1
  <2>2. QED
    BY <2>1
<1>3. ASSUME NEW n \in T
      PROVE  n + 1 \in T
  <2>1. SUFFICES ASSUME n + 1 <= k PROVE FlattenSeq(from(n + 1)) = FlattenSeq(ss)
    OBVIOUS
  <2>2. FlattenSeq(from(n)) = FlattenSeq(ss)
    BY <2>1
  <2>3. /\ n + 1 \in 1 .. Len(ss) /\ n + 1 \in 1 .. k
        /\ Len(ss) \in n + 1 .. Len(ss)
    BY <1>1, <2>1
  <2>4. Head(from(n)) = ss[n + 1] /\ Tail(from(n)) = from(n + 1)
    BY <2>3, HeadTailOfSubSeq, Zenon
  <2>5. from(n) \in Seq(Seq(A)) /\ from(n + 1) \in Seq(Seq(A)) /\ from(n) # <<>>
    <3>1. \A i \in 1 .. Len(ss) : ss[i] \in Seq(A)
      OBVIOUS
    <3>2. n + 1 \in Int /\ n + 1 + 1 \in Int /\ Len(ss) \in Int /\ n + 1 <= Len(ss)
      BY <1>1, <2>3
    <3>3. \A i \in n + 1 .. Len(ss) : ss[i] \in Seq(A)
      BY <3>1, <3>2
    <3>4. \A i \in n + 1 + 1 .. Len(ss) : ss[i] \in Seq(A)
      BY <3>1, <3>2
    <3>5. from(n + 1) \in Seq(Seq(A))
      BY <3>2, <3>4, SubSeqProperties
    <3>6. from(n) \in Seq(Seq(A)) /\ Len(from(n)) = Len(ss) - (n + 1) + 1
      BY <3>2, <3>3, SubSeqProperties
    <3> HIDE DEF from
    <3>7. Len(from(n)) > 0
      BY <3>2, <3>6
    <3>8. QED
      BY <3>5, <3>6, <3>7
  <2> HIDE DEF from
  <2>6. FlattenSeq(from(n)) = <<>> \o FlattenSeq(from(n + 1))
    BY <2>3, <2>4, <2>5, FlattenHeadTail
  <2>7. FlattenSeq(from(n + 1)) \in Seq(A)
    BY <2>5, FlattenType
  <2>8. QED
    BY <2>2, <2>6, <2>7, ConcatEmptySeq
<1>4. T = Nat
  <2> HIDE DEF T
  <2>1. T \in SUBSET Nat
    BY DEF T
  <2>2. QED
    BY <1>2, <1>3, <2>1, NatSetInduction
<1>5. k \in T /\ k <= k
  <2>1. k \in Nat
    BY <1>1
  <2> HIDE DEF T
  <2>2. QED
    BY <1>4, <2>1
<1>6. QED
  BY <1>5

----------------------------------------------------------------------------
(* The functions that give each of the elements of B a sequence over A. *)
Streams(A, B) == [B -> Seq(A)]

(* What a queue stands for: each entry a sequence of its own, in order. *)
Parts(f, q) == [i \in DOMAIN q |-> f[q[i]]]

Stream(f, q) == FlattenSeq(Parts(f, q))

(* The parts of a stream. *)
LEMMA PartsType ==
    ASSUME NEW A, NEW B, NEW f \in Streams(A, B), NEW q \in Seq(B)
    PROVE  /\ Parts(f, q) \in Seq(Seq(A))
           /\ Len(Parts(f, q)) = Len(q)
           /\ \A i \in 1 .. Len(q) : Parts(f, q)[i] = f[q[i]]
<1>1. \A i \in 1 .. Len(q) : f[q[i]] \in Seq(A)
  BY DEF Streams
<1>2. Len(q) \in Nat /\ DOMAIN q = 1 .. Len(q)
  OBVIOUS
<1>3. QED
  BY <1>1, <1>2 DEF Parts

(* A stream is made of the elements of its parts. *)
LEMMA StreamType ==
    ASSUME NEW A, NEW B, NEW f \in Streams(A, B), NEW q \in Seq(B)
    PROVE  Stream(f, q) \in Seq(A)
BY PartsType, FlattenType DEF Stream

(* The stream of an empty queue. *)
LEMMA StreamEmpty ==
    ASSUME NEW f
    PROVE  Stream(f, <<>>) = <<>>
<1>1. Parts(f, <<>>) = <<>>
  BY DEF Parts
<1>2. QED
  BY <1>1, FlattenEmpty DEF Stream

(* One more entry at the end of the queue. *)
LEMMA StreamAppended ==
    ASSUME NEW A, NEW B, NEW f \in Streams(A, B), NEW q \in Seq(B), NEW b \in B
    PROVE  Stream(f, Append(q, b)) = Stream(f, q) \o f[b]
<1>1. /\ Parts(f, q) \in Seq(Seq(A)) /\ Len(Parts(f, q)) = Len(q)
      /\ \A i \in 1 .. Len(q) : Parts(f, q)[i] = f[q[i]]
      /\ f[b] \in Seq(A)
  <2>1. /\ Parts(f, q) \in Seq(Seq(A)) /\ Len(Parts(f, q)) = Len(q)
        /\ \A i \in 1 .. Len(q) : Parts(f, q)[i] = f[q[i]]
    BY PartsType
  <2>2. QED
    BY <2>1 DEF Streams
<1>2. Parts(f, Append(q, b)) = Append(Parts(f, q), f[b])
  <2> DEFINE r == Append(q, b)
             u == Append(Parts(f, q), f[b])
  <2>1. r \in Seq(B) /\ Len(r) = Len(q) + 1 /\ Len(q) \in Nat
    OBVIOUS
  <2>2. /\ Parts(f, r) \in Seq(Seq(A)) /\ Len(Parts(f, r)) = Len(q) + 1
        /\ \A i \in 1 .. Len(q) + 1 : Parts(f, r)[i] = f[r[i]]
    <3> HIDE DEF r
    <3>1. /\ Parts(f, r) \in Seq(Seq(A)) /\ Len(Parts(f, r)) = Len(r)
          /\ \A i \in 1 .. Len(r) : Parts(f, r)[i] = f[r[i]]
      BY <2>1, PartsType
    <3>2. QED
      BY <2>1, <3>1
  <2>3. u \in Seq(Seq(A)) /\ Len(u) = Len(q) + 1
    BY <1>1
  <2>4. ASSUME NEW i \in 1 .. Len(q) + 1
        PROVE  Parts(f, r)[i] = u[i]
    <3>1. CASE i = Len(q) + 1
      <4>1. Parts(f, r)[i] = f[r[i]] /\ r[i] = b
        BY <2>1, <2>2, <3>1
      <4>2. u[i] = f[b]
        BY <1>1, <2>1, <3>1, AppendProperties
      <4>3. QED
        BY <4>1, <4>2
    <3>2. CASE i # Len(q) + 1
      <4>1. i \in 1 .. Len(q) /\ i \in DOMAIN q
        BY <2>1, <3>2
      <4>2. Parts(f, r)[i] = f[r[i]] /\ r[i] = q[i]
        BY <2>1, <2>2, <4>1
      <4>3. u[i] = Parts(f, q)[i]
        BY <1>1, <4>1, AppendProperties
      <4>4. Parts(f, q)[i] = f[q[i]]
        BY <1>1, <4>1
      <4>5. QED
        BY <4>2, <4>3, <4>4
    <3>3. QED
      BY <3>1, <3>2
  <2> HIDE DEF r, u
  <2>5. Parts(f, r) = u
    BY <2>2, <2>3, <2>4, SeqEqual
  <2>6. QED
    BY <2>5 DEF r, u
<1>3. FlattenSeq(Append(Parts(f, q), f[b])) = FlattenSeq(Parts(f, q)) \o f[b]
  BY <1>1, FlattenAppended
<1>4. QED
  BY <1>2, <1>3 DEF Stream

(* A stream without its first entries, if these are empty. *)
LEMMA StreamSkip ==
    ASSUME NEW A, NEW B, NEW f \in Streams(A, B), NEW q \in Seq(B), NEW r \in Seq(B),
           Len(q) - Len(r) \in Nat, \A i \in 1 .. Len(q) - Len(r) : f[q[i]] = <<>>,
           \A i \in 1 .. Len(r) : f[r[i]] = f[q[Len(q) - Len(r) + i]]
    PROVE  Stream(f, r) = Stream(f, q)
<1> DEFINE k == Len(q) - Len(r)
<1>1. k \in 0 .. Len(q) /\ Len(r) = Len(q) - k
  OBVIOUS
<1>2. /\ \A i \in 1 .. k : f[q[i]] = <<>>
      /\ \A i \in 1 .. Len(r) : f[r[i]] = f[q[k + i]]
  OBVIOUS
<1> HIDE DEF k
<1>3. /\ Parts(f, q) \in Seq(Seq(A)) /\ Len(Parts(f, q)) = Len(q)
      /\ \A i \in 1 .. Len(q) : Parts(f, q)[i] = f[q[i]]
  BY PartsType
<1>4. /\ Parts(f, r) \in Seq(Seq(A)) /\ Len(Parts(f, r)) = Len(r)
      /\ \A i \in 1 .. Len(r) : Parts(f, r)[i] = f[r[i]]
  BY PartsType
<1>5. Len(q) \in Nat /\ Len(r) \in Nat
  OBVIOUS
<1> DEFINE u == SubSeq(Parts(f, q), k + 1, Len(q))
<1>6. \A i \in 1 .. k : Parts(f, q)[i] = <<>>
  <2>1. \A i \in 1 .. k : i \in 1 .. Len(q)
    BY <1>1, <1>5
  <2>2. QED
    BY <1>2, <1>3, <2>1, Zenon
<1>7. \A i \in 1 .. Len(r) : k + i \in 1 .. Len(q) /\ Parts(f, r)[i] = Parts(f, q)[k + i]
  <2>1. \A i \in 1 .. Len(r) : k + i \in 1 .. Len(q)
    BY <1>1, <1>5
  <2>2. QED
    BY <1>2, <1>3, <1>4, <2>1
<1>8. Parts(f, r) = u
  <2>1. \A i \in k + 1 .. Len(q) : Parts(f, q)[i] \in Seq(A)
    BY <1>1, <1>3, <1>5
  <2>2. /\ u \in Seq(Seq(A)) /\ Len(u) = IF k + 1 <= Len(q) THEN Len(q) - (k + 1) + 1 ELSE 0
        /\ \A i \in 1 .. Len(q) - (k + 1) + 1 : u[i] = Parts(f, q)[(k + 1) + i - 1]
    BY <1>1, <1>5, <2>1, SubSeqProperties
  <2>3. Len(u) = Len(r) /\ \A i \in 1 .. Len(r) : u[i] = Parts(f, q)[k + i]
    BY <1>1, <1>5, <2>2
  <2> HIDE DEF u
  <2>4. \A i \in 1 .. Len(r) : Parts(f, r)[i] = u[i]
    BY <1>7, <2>3
  <2>5. \A s, t \in Seq(Seq(A)) :
            Len(s) = Len(t) /\ (\A i \in 1 .. Len(s) : s[i] = t[i]) => s = t
    BY SeqEqual
  <2>6. QED
    BY <1>4, <2>2, <2>3, <2>4, <2>5
<1>9. FlattenSeq(u) = FlattenSeq(Parts(f, q))
  BY <1>1, <1>3, <1>6, FlattenSkip
<1>10. QED
  BY <1>8, <1>9 DEF Stream

(* The first entry of a queue and the rest. *)
LEMMA StreamHeadTail ==
    ASSUME NEW A, NEW B, NEW f \in Streams(A, B), NEW q \in Seq(B), q # <<>>
    PROVE  Stream(f, q) = f[Head(q)] \o Stream(f, Tail(q))
<1>1. /\ Tail(q) \in Seq(B) /\ Len(Tail(q)) = Len(q) - 1 /\ Len(q) \in Nat /\ Len(q) >= 1
      /\ \A i \in 1 .. Len(q) - 1 : Tail(q)[i] = q[i + 1]
  OBVIOUS
<1>2. /\ Parts(f, q) \in Seq(Seq(A)) /\ Len(Parts(f, q)) = Len(q)
      /\ \A i \in 1 .. Len(q) : Parts(f, q)[i] = f[q[i]]
  BY PartsType
<1>3. /\ Parts(f, Tail(q)) \in Seq(Seq(A)) /\ Len(Parts(f, Tail(q))) = Len(q) - 1
      /\ \A i \in 1 .. Len(q) - 1 : Parts(f, Tail(q))[i] = f[q[i + 1]]
  <2>1. \A p \in Seq(B) : /\ Parts(f, p) \in Seq(Seq(A)) /\ Len(Parts(f, p)) = Len(p)
                          /\ \A i \in 1 .. Len(p) : Parts(f, p)[i] = f[p[i]]
    BY PartsType
  <2> DEFINE p == Tail(q)
  <2>2. p \in Seq(B) /\ Len(p) = Len(q) - 1 /\ \A i \in 1 .. Len(q) - 1 : p[i] = q[i + 1]
    BY <1>1
  <2> HIDE DEF p
  <2>3. /\ Parts(f, p) \in Seq(Seq(A)) /\ Len(Parts(f, p)) = Len(q) - 1
        /\ \A i \in 1 .. Len(q) - 1 : Parts(f, p)[i] = f[q[i + 1]]
    BY <2>1, <2>2
  <2>4. QED
    BY <2>3 DEF p
<1>4. Parts(f, q) # <<>> /\ Head(Parts(f, q)) = f[Head(q)]
  BY <1>1, <1>2
<1>5. Tail(Parts(f, q)) = Parts(f, Tail(q))
  <2>1. /\ Tail(Parts(f, q)) \in Seq(Seq(A)) /\ Len(Tail(Parts(f, q))) = Len(q) - 1
        /\ \A i \in 1 .. Len(q) - 1 : Tail(Parts(f, q))[i] = Parts(f, q)[i + 1]
    BY <1>1, <1>2, <1>4
  <2>2. \A i \in 1 .. Len(q) - 1 : i + 1 \in 1 .. Len(q)
    BY <1>1
  <2>3. \A i \in 1 .. Len(q) - 1 : Tail(Parts(f, q))[i] = Parts(f, Tail(q))[i]
    BY <1>2, <1>3, <2>1, <2>2
  <2>4. QED
    BY <1>3, <2>1, <2>3, SeqEqual
<1>6. QED
  BY <1>2, <1>4, <1>5, FlattenHeadTail DEF Stream
============================================================================
