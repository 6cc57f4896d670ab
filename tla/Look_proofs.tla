------------------------------ MODULE Look_proofs ------------------------------
(* Proofs about Look: what a parsed screen lists and in what order, what is *)
(* read back from an attribute, which pixels a box has, and the invariants  *)
(* of one observation.                                                      *)
(*                                                                          *)
(* The recursive functions of ElementTree are reasoned about by course of   *)
(* values: the numbers that satisfy a formula are a set, a set that contains*)
(* every number whose predecessors it contains is the whole interval        *)
(* (Induction), and that follows from the well-foundedness of strict        *)
(* inclusion, which the library states for a set and not for an operator.   *)
EXTENDS Look, FiniteSetTheorems, SequenceTheorems, TLAPS

(* Every inhabited set of numbers has a smallest member: the intervals up to*)
(* its members are finite, and strict inclusion of finite sets is well      *)
(* founded.                                                                 *)
LEMMA Smallest ==
  ASSUME NEW S \in SUBSET Nat, S # {}
  PROVE  \E m \in S : \A k \in S : m <= k
<1> DEFINE T == {1 .. m : m \in S}
<1>1. T \subseteq FiniteSubsetsOf(Nat)
  <2> SUFFICES ASSUME NEW m \in S PROVE 1 .. m \in FiniteSubsetsOf(Nat)
    OBVIOUS
  <2>1. IsFiniteSet(1 .. m)
    BY FS_Interval
  <2> QED BY <2>1 DEF FiniteSubsetsOf
<1>2. T # {}
  OBVIOUS
<1>3. IsWellFoundedOn(StrictSubsetOrdering(Nat), FiniteSubsetsOf(Nat))
  BY FS_StrictSubsetOrderingWellFounded
<1> HIDE DEF T
<1>4. PICK x \in T : \A y \in T : ~ (<<y, x>> \in StrictSubsetOrdering(Nat))
  BY <1>1, <1>2, <1>3, WFMin
<1>5. PICK m \in S : x = 1 .. m
  BY DEF T
<1>6. ASSUME NEW k \in S, k < m
      PROVE  FALSE
  <2>1. 1 .. k \in T /\ 1 .. k \subseteq 1 .. m /\ 1 .. k # 1 .. m
    BY <1>6 DEF T
  <2>2. <<1 .. k, 1 .. m>> \in StrictSubsetOrdering(Nat)
    BY <2>1 DEF StrictSubsetOrdering
  <2> QED BY <2>1, <2>2, <1>4, <1>5
<1> QED BY <1>6

(* Induction for a set: what contains every number below n whose            *)
(* predecessors it contains, contains them all.                             *)
LEMMA Induction ==
  ASSUME NEW n \in Nat, NEW S,
         \A k \in 0 .. n : 0 .. k - 1 \subseteq S => k \in S
  PROVE  0 .. n \subseteq S
<1> SUFFICES ASSUME ~(0 .. n \subseteq S) PROVE FALSE
  OBVIOUS
<1> DEFINE R == 0 .. n \ S
<1>1. R \in SUBSET Nat /\ R # {}
  OBVIOUS
<1> HIDE DEF R
<1>2. PICK m \in R : \A k \in R : m <= k
  BY <1>1, Smallest
<1>3. m \in 0 .. n /\ m \notin S
  BY DEF R
<1>4. ASSUME NEW k \in 0 .. m - 1 PROVE k \in S
  <2>1. k \in 0 .. n /\ ~(m <= k)
    BY <1>3
  <2> QED BY <2>1, <1>2 DEF R
<1> QED BY <1>3, <1>4

(* A function is defined by its value at 0 and a step from an earlier value *)
(* to each later one.                                                       *)
DefinedBy(f, n, base, prev, step) ==
  f[0] = base /\ \A k \in 1 .. n : f[k] = step[<<k, f[prev[k]]>>]

(* A base in T and a step that stays in T define a function: for each m up  *)
(* to n, one up to m.                                                       *)
LEMMA RecursionExists ==
  ASSUME NEW n \in Nat, NEW T, NEW base \in T,
         NEW prev \in [1 .. n -> Nat], \A k \in 1 .. n : prev[k] < k,
         NEW step \in [(1 .. n) \X T -> T]
  PROVE  \E f \in [0 .. n -> T] : DefinedBy(f, n, base, prev, step)
<1> USE DEF DefinedBy
<1> DEFINE Solves(f, m) == f \in [0 .. m -> T] /\ DefinedBy(f, m, base, prev, step)
           S == {m \in 0 .. n : \E f : Solves(f, m)}
<1>1. ASSUME NEW m \in 0 .. n, 0 .. m - 1 \subseteq S
      PROVE  m \in S
  <2>1. CASE m = 0
    <3>1. Solves([i \in 0 .. 0 |-> base], 0)
      OBVIOUS
    <3> QED BY <2>1, <3>1
  <2>2. CASE m # 0
    <3>1. m - 1 \in 0 .. m - 1
      BY <2>2
    <3>2. PICK f : Solves(f, m - 1)
      BY <1>1, <3>1
    <3>3. prev[m] \in 0 .. m - 1 /\ f[prev[m]] \in T
      BY <2>2, <3>2
    <3> DEFINE g == [i \in 0 .. m |-> IF i < m THEN f[i] ELSE step[<<m, f[prev[m]]>>]]
    <3>4. step[<<m, f[prev[m]]>>] \in T
      BY <2>2, <3>3
    <3>5. g \in [0 .. m -> T]
      BY <3>2, <3>4
    <3>6. g[0] = base
      BY <2>2, <3>2
    <3>7. ASSUME NEW k \in 1 .. m PROVE g[k] = step[<<k, g[prev[k]]>>]
      <4>1. prev[k] \in 0 .. m - 1 /\ g[prev[k]] = f[prev[k]]
        BY <3>7
      <4>2. CASE k = m
        <5>1. g[m] = step[<<m, f[prev[m]]>>]
          BY <2>2
        <5> HIDE DEF g
        <5> QED BY <5>1, <4>1, <4>2
      <4>3. CASE k # m
        <5>1. k \in 1 .. m - 1 /\ g[k] = f[k]
          BY <4>3
        <5> HIDE DEF g
        <5> QED BY <5>1, <4>1, <3>2
      <4> QED BY <4>2, <4>3
    <3> HIDE DEF g
    <3>8. Solves(g, m)
      BY <3>5, <3>6, <3>7
    <3> QED BY <3>8
  <2> QED BY <2>1, <2>2
<1> HIDE DEF S
<1>2. 0 .. n \subseteq S
  BY <1>1, Induction
<1>3. n \in S
  BY <1>2
<1> QED BY <1>3 DEF S
-----------------------------------------------------------------------------
(* f is the function behind Picked, and q lists what Picked promises.       *)
IsPicking(S, n, f) ==
  f = [k \in 0 .. n |->
         IF k = 0 THEN <<>> ELSE IF k \in S THEN Append(f[k - 1], k) ELSE f[k - 1]]

ListsTo(q, S, k) ==
  /\ q \in Seq(1 .. k)
  /\ \A i \in 1 .. Len(q) : q[i] \in S
  /\ \A i, j \in 1 .. Len(q) : i < j => q[i] < q[j]
  /\ \A c \in 1 .. k : c \in S => \E i \in 1 .. Len(q) : q[i] = c

(* Picked lists exactly the numbers of the set up to n, in ascending order. *)
LEMMA PickedLists ==
  ASSUME NEW S, NEW n \in Nat
  PROVE  ListsTo(Picked(S, n), S, n)
<1> DEFINE prev == [k \in 1 .. n |-> k - 1]
           step == [p \in (1 .. n) \X Seq(Nat) |-> IF p[1] \in S THEN Append(p[2], p[1]) ELSE p[2]]
<1>1. prev \in [1 .. n -> Nat] /\ \A k \in 1 .. n : prev[k] < k
  OBVIOUS
<1>2. step \in [(1 .. n) \X Seq(Nat) -> Seq(Nat)] /\ <<>> \in Seq(Nat)
  OBVIOUS
<1>3. \A k \in 1 .. n, q \in Seq(Nat) :
        step[<<k, q>>] = IF k \in S THEN Append(q, k) ELSE q
  OBVIOUS
<1>4. \A k \in 1 .. n : prev[k] = k - 1
  OBVIOUS
<1> HIDE DEF prev, step
<1>5. PICK g \in [0 .. n -> Seq(Nat)] : DefinedBy(g, n, <<>>, prev, step)
  BY <1>1, <1>2, RecursionExists
<1>6. ASSUME NEW k \in 1 .. n
      PROVE  g[k] = IF k \in S THEN Append(g[k - 1], k) ELSE g[k - 1]
  <2>1. prev[k] = k - 1 /\ g[k - 1] \in Seq(Nat)
    BY <1>4, <1>5
  <2>2. g[k] = step[<<k, g[k - 1]>>]
    BY <2>1, <1>5 DEF DefinedBy
  <2> QED BY <2>1, <2>2, <1>3
<1>7. IsPicking(S, n, g)
  <2>1. g = [k \in 0 .. n |-> g[k]] /\ g[0] = <<>>
    BY <1>5 DEF DefinedBy
  <2>2. ASSUME NEW k \in 0 .. n
        PROVE  g[k] = IF k = 0 THEN <<>> ELSE IF k \in S THEN Append(g[k - 1], k) ELSE g[k - 1]
    <3>1. k = 0 \/ (k # 0 /\ k \in 1 .. n)
      OBVIOUS
    <3> QED BY ONLY <2>1, <3>1, <1>6, Zenon
  <2> QED BY <2>1, <2>2 DEF IsPicking
<1>8. PICK f : IsPicking(S, n, f) /\ Picked(S, n) = f[n]
  BY <1>7 DEF Picked, IsPicking
<1>9. f[0] = <<>> /\ \A k \in 1 .. n : f[k] = IF k \in S THEN Append(f[k - 1], k) ELSE f[k - 1]
  <2>1. \A k \in 0 .. n :
          f[k] = IF k = 0 THEN <<>> ELSE IF k \in S THEN Append(f[k - 1], k) ELSE f[k - 1]
    BY <1>8, Zenon DEF IsPicking
  <2>2. 0 \in 0 .. n /\ \A k \in 1 .. n : k \in 0 .. n /\ k # 0
    OBVIOUS
  <2> QED BY ONLY <2>1, <2>2, Zenon
<1> DEFINE G == {k \in 0 .. n : ListsTo(f[k], S, k)}
<1>10. ASSUME NEW k \in 0 .. n, 0 .. k - 1 \subseteq G
       PROVE  k \in G
  <2>1. CASE k = 0
    <3>1. ListsTo(<<>>, S, 0)
      BY DEF ListsTo
    <3> QED BY <2>1, <3>1, <1>9
  <2>2. CASE k # 0
    <3>1. ListsTo(f[k - 1], S, k - 1) /\ k \in 1 .. n
      BY <1>10, <2>2
    <3>2. PICK q : q = f[k - 1]
      OBVIOUS
    <3>3. q \in Seq(1 .. k - 1) /\ q \in Seq(1 .. k)
      BY <3>1, <3>2 DEF ListsTo
    <3>4. CASE k \in S
      <4>1. f[k] = Append(q, k)
        BY <1>9, <3>1, <3>2, <3>4
      <4>2. ListsTo(Append(q, k), S, k)
        <5>1. /\ Append(q, k) \in Seq(1 .. k) /\ Len(Append(q, k)) = Len(q) + 1
              /\ \A i \in 1 .. Len(q) : Append(q, k)[i] = q[i] /\ q[i] \in 1 .. k - 1
              /\ Append(q, k)[Len(q) + 1] = k
          BY SMTT(30), <3>1, <3>3
        <5>2. PICK a : a = Append(q, k)
          OBVIOUS
        <5>3. \A i \in 1 .. Len(a) : a[i] \in S
          BY <3>1, <3>2, <3>4, <5>1, <5>2 DEF ListsTo
        <5>4. \A i, j \in 1 .. Len(a) : i < j => a[i] < a[j]
          <6> SUFFICES ASSUME NEW i \in 1 .. Len(a), NEW j \in 1 .. Len(a), i < j
                       PROVE  a[i] < a[j]
            OBVIOUS
          <6>1. i \in 1 .. Len(q) /\ (j \in 1 .. Len(q) \/ j = Len(q) + 1)
            <7>1. Len(a) = Len(q) + 1 /\ Len(q) \in Nat
              BY <3>3, <5>1, <5>2
            <7> QED BY ONLY <7>1, i \in 1 .. Len(a), j \in 1 .. Len(a), i < j
          <6>2. \A c, d \in 1 .. Len(q) : c < d => q[c] < q[d]
            BY <3>1, <3>2, Zenon DEF ListsTo
          <6> QED BY SMTT(30), <6>1, <6>2, <3>3, <5>1, <5>2
        <5>5. ASSUME NEW c \in 1 .. k, c \in S PROVE \E i \in 1 .. Len(a) : a[i] = c
          <6>1. CASE c = k
            BY <6>1, <3>3, <5>1, <5>2
          <6>2. CASE c # k
            <7>1. c \in 1 .. k - 1
              BY <6>2
            <7>2. PICK i \in 1 .. Len(q) : q[i] = c
              BY <7>1, <5>5, <3>1, <3>2, Zenon DEF ListsTo
            <7> QED BY SMTT(30), <7>2, <3>3, <5>1, <5>2
          <6> QED BY <6>1, <6>2
        <5> QED BY <5>1, <5>2, <5>3, <5>4, <5>5 DEF ListsTo
      <4> QED BY <4>1, <4>2
    <3>5. CASE k \notin S
      <4>1. f[k] = q
        BY <1>9, <3>1, <3>2, <3>5
      <4>2. \A c \in 1 .. k : c \in S => c \in 1 .. k - 1
        BY <3>5
      <4>3. ListsTo(q, S, k)
        BY <4>2, <3>1, <3>2, <3>3 DEF ListsTo
      <4> QED BY <4>1, <4>3
    <3> QED BY <3>4, <3>5
  <2> QED BY <2>1, <2>2
<1> HIDE DEF G
<1>11. 0 .. n \subseteq G
  BY <1>10, Induction
<1>12. n \in G
  BY <1>11
<1> QED BY <1>8, <1>12 DEF G
-----------------------------------------------------------------------------
(* f joins the sequences one after the other.                               *)
IsFlattening(seqs, f) ==
  f = [i \in 1 .. Len(seqs) |-> IF i = 1 THEN seqs[i] ELSE f[i - 1] \o seqs[i]]

(* FlattenSeq appends the sequences one by one.                             *)
LEMMA FlattenSteps ==
  ASSUME NEW T, NEW seqs \in Seq(Seq(T))
  PROVE  \E f \in [0 .. Len(seqs) -> Seq(T)] :
           /\ f[0] = <<>>
           /\ \A k \in 1 .. Len(seqs) : f[k] = f[k - 1] \o seqs[k]
           /\ FlattenSeq(seqs) = f[Len(seqs)]
<1> DEFINE n == Len(seqs)
           prev == [k \in 1 .. n |-> k - 1]
           step == [p \in (1 .. n) \X Seq(T) |-> p[2] \o seqs[p[1]]]
<1>1. n \in Nat /\ \A k \in 1 .. n : seqs[k] \in Seq(T)
  OBVIOUS
<1>2. \A a, b \in Seq(T) : a \o b \in Seq(T)
  OBVIOUS
<1>3. <<>> \in Seq(T) /\ \A a \in Seq(T) : <<>> \o a = a
  OBVIOUS
<1>4. CASE n = 0
  <2>1. seqs = <<>> /\ FlattenSeq(seqs) = seqs
    BY <1>4 DEF FlattenSeq
  <2> DEFINE f == [k \in 0 .. 0 |-> <<>>]
  <2>2. f \in [0 .. n -> Seq(T)] /\ f[0] = <<>> /\ f[n] = <<>>
    BY <1>4
  <2>3. 1 .. n = {}
    BY <1>4
  <2> HIDE DEF f, n
  <2> QED BY <2>1, <2>2, <2>3 DEF n
<1>5. CASE n # 0
  <2>1. prev \in [1 .. n -> Nat] /\ (\A k \in 1 .. n : prev[k] < k)
    OBVIOUS
  <2>2. step \in [(1 .. n) \X Seq(T) -> Seq(T)]
    BY <1>1, <1>2
  <2>3. \A k \in 1 .. n, q \in Seq(T) : step[<<k, q>>] = q \o seqs[k]
    OBVIOUS
  <2>4. \A k \in 1 .. n : prev[k] = k - 1
    OBVIOUS
  <2> HIDE DEF prev, step, n
  <2>5. PICK g \in [0 .. n -> Seq(T)] : DefinedBy(g, n, <<>>, prev, step)
    BY <1>1, <1>3, <2>1, <2>2, RecursionExists
  <2>6. ASSUME NEW k \in 1 .. n PROVE g[k] = g[k - 1] \o seqs[k]
    <3>1. prev[k] = k - 1 /\ g[k - 1] \in Seq(T)
      BY <1>1, <2>4, <2>5
    <3>2. g[k] = step[<<k, g[k - 1]>>]
      BY <3>1, <2>5 DEF DefinedBy
    <3> QED BY <3>1, <3>2, <2>3
  <2>7. ASSUME 1 \in 1 .. n PROVE g[1] = seqs[1]
    <3>1. g[1] = g[1 - 1] \o seqs[1]
      BY <2>6, <2>7, Zenon
    <3>2. g[1 - 1] = <<>>
      BY <2>5 DEF DefinedBy
    <3> QED BY <3>1, <3>2, <2>7, <1>1, <1>3
  <2> DEFINE h == [i \in 1 .. n |-> g[i]]
  <2>8. IsFlattening(seqs, h)
    <3>1. ASSUME NEW i \in 1 .. n
          PROVE  h[i] = IF i = 1 THEN seqs[i] ELSE h[i - 1] \o seqs[i]
      <4>1. CASE i = 1
        BY <4>1, <2>7, <1>1
      <4>2. CASE i # 1
        <5>1. i - 1 \in 1 .. n
          BY <4>2, <1>1
        <5> QED BY <4>2, <5>1, <2>6
      <4> QED BY <4>1, <4>2
    <3>2. h = [i \in 1 .. n |-> h[i]]
      OBVIOUS
    <3> HIDE DEF h
    <3> QED BY <3>1, <3>2 DEF IsFlattening, n
  <2>9. PICK f : IsFlattening(seqs, f) /\ FlattenSeq(seqs) = f[n]
    BY <1>5, <2>8 DEF FlattenSeq, IsFlattening, n
  <2>10. \A i \in 1 .. n : f[i] = IF i = 1 THEN seqs[i] ELSE f[i - 1] \o seqs[i]
    BY <2>9, Zenon DEF IsFlattening, n
  <2> DEFINE G == {k \in 0 .. n : k # 0 => f[k] = g[k]}
  <2>11. ASSUME NEW k \in 0 .. n, 0 .. k - 1 \subseteq G
         PROVE  k \in G
    <3>1. CASE k = 0
      BY <3>1, <1>1
    <3>2. CASE k = 1
      <4>1. 1 \in 1 .. n
        BY <3>2, <1>1
      <4>2. f[1] = seqs[1] /\ g[1] = seqs[1]
        BY <4>1, <2>7, <2>10
      <4> QED BY <3>2, <4>2
    <3>3. CASE k \notin {0, 1}
      <4>1. k \in 1 .. n /\ k - 1 \in 0 .. k - 1 /\ k - 1 # 0
        BY <3>3, <1>1
      <4>2. f[k - 1] = g[k - 1]
        BY <4>1, <2>11
      <4>3. f[k] = f[k - 1] \o seqs[k]
        BY <3>3, <4>1, <2>10
      <4>4. f[k] = g[k]
        BY <4>1, <4>2, <4>3, <2>6
      <4> QED BY <4>4
    <3> QED BY <3>1, <3>2, <3>3
  <2> HIDE DEF G
  <2>12. 0 .. n \subseteq G
    BY <2>11, <1>1, Induction
  <2>13. n \in G
    BY <2>12, <1>1
  <2>14. FlattenSeq(seqs) = g[n]
    BY <2>9, <2>13, <1>5 DEF G
  <2> QED BY <2>5, <2>6, <2>14 DEF DefinedBy, n
<1> QED BY <1>4, <1>5
-----------------------------------------------------------------------------
(* Whatever comes earlier in q comes first in R.                            *)
Ordered(q, R) == \A i, j \in 1 .. Len(q) : i < j => <<q[i], q[j]>> \in R

(* Each place of a joined sequence is one of the first or of the second.    *)
LEMMA Join ==
  ASSUME NEW T, NEW a \in Seq(T), NEW b \in Seq(T)
  PROVE  /\ a \o b \in Seq(T)
         /\ \A k \in 1 .. Len(a) : k \in 1 .. Len(a \o b) /\ (a \o b)[k] = a[k]
         /\ \A k \in 1 .. Len(b) : Len(a) + k \in 1 .. Len(a \o b) /\ (a \o b)[Len(a) + k] = b[k]
         /\ \A k \in 1 .. Len(a \o b) :
              \/ k \in 1 .. Len(a) /\ (a \o b)[k] = a[k]
              \/ \E m \in 1 .. Len(b) : k = Len(a) + m /\ (a \o b)[k] = b[m]
<1>1. a \o b \in Seq(T) /\ Len(a \o b) = Len(a) + Len(b) /\ Len(a) \in Nat /\ Len(b) \in Nat
  OBVIOUS
<1>2. \A k \in 1 .. Len(a) : k \in 1 .. Len(a \o b) /\ (a \o b)[k] = a[k]
  OBVIOUS
<1>3. \A k \in 1 .. Len(b) : Len(a) + k \in 1 .. Len(a \o b) /\ (a \o b)[Len(a) + k] = b[k]
  OBVIOUS
<1>4. ASSUME NEW k \in 1 .. Len(a \o b), k \notin 1 .. Len(a)
      PROVE  \E m \in 1 .. Len(b) : k = Len(a) + m /\ (a \o b)[k] = b[m]
  <2>1. PICK m \in 1 .. Len(b) : k = Len(a) + m
    <3>1. k - Len(a) \in 1 .. Len(b) /\ k = Len(a) + (k - Len(a))
      BY <1>1, <1>4
    <3> QED BY <3>1
  <2> QED BY <2>1, <1>3
<1> QED BY <1>1, <1>2, <1>3, <1>4

(* x is somewhere in q.                                                     *)
Has(q, x) == \E k \in 1 .. Len(q) : q[k] = x

(* What is somewhere in either sequence is somewhere in the joined one.     *)
LEMMA JoinHas ==
  ASSUME NEW T, NEW a \in Seq(T), NEW b \in Seq(T), NEW x
  PROVE  Has(a, x) \/ Has(b, x) => Has(a \o b, x)
<1>1. ASSUME NEW k \in 1 .. Len(a), a[k] = x
      PROVE  Has(a \o b, x)
  <2>1. k \in 1 .. Len(a \o b) /\ (a \o b)[k] = x
    BY <1>1
  <2> QED BY <2>1 DEF Has
<1>2. ASSUME NEW k \in 1 .. Len(b), b[k] = x
      PROVE  Has(a \o b, x)
  <2>1. Len(a) + k \in 1 .. Len(a \o b) /\ (a \o b)[Len(a) + k] = x
    BY <1>2
  <2> QED BY <2>1 DEF Has
<1> QED BY <1>1, <1>2 DEF Has

(* A sequence all of whose members are in a set is a sequence over that set.*)
LEMMA SeqInto ==
  ASSUME NEW T, NEW U, NEW a \in Seq(T), \A z \in 1 .. Len(a) : a[z] \in U
  PROVE  a \in Seq(U)
<1>1. Len(a) \in Nat /\ a \in [1 .. Len(a) -> T]
  BY LenProperties
<1>2. a \in [1 .. Len(a) -> U]
  BY <1>1
<1> QED BY <1>1, <1>2, SeqDef

(* Two ordered sequences joined are ordered if everything in the first comes*)
(* before everything in the second.                                         *)
LEMMA JoinOrdered ==
  ASSUME NEW T, NEW R, NEW a \in Seq(T), NEW b \in Seq(T), Ordered(a, R), Ordered(b, R),
         \A i \in 1 .. Len(a), j \in 1 .. Len(b) : <<a[i], b[j]>> \in R
  PROVE  Ordered(a \o b, R)
<1> SUFFICES ASSUME NEW i \in 1 .. Len(a \o b), NEW j \in 1 .. Len(a \o b), i < j
             PROVE  <<(a \o b)[i], (a \o b)[j]>> \in R
  BY DEF Ordered
<1>1. CASE i \in 1 .. Len(a) /\ j \in 1 .. Len(a)
  BY <1>1, Join DEF Ordered
<1>2. CASE i \in 1 .. Len(a) /\ j \notin 1 .. Len(a)
  <2>1. (a \o b)[i] = a[i] /\ \E m \in 1 .. Len(b) : j = Len(a) + m /\ (a \o b)[j] = b[m]
    BY <1>2, Join
  <2> QED BY <1>2, <2>1
<1>3. CASE i \notin 1 .. Len(a)
  <2>1. PICK m \in 1 .. Len(b) : i = Len(a) + m /\ (a \o b)[i] = b[m]
    BY <1>3, Join
  <2>2. j \notin 1 .. Len(a)
    BY <1>3
  <2>3. PICK o \in 1 .. Len(b) : j = Len(a) + o /\ (a \o b)[j] = b[o]
    <3>1. \A k \in 1 .. Len(a \o b) :
            k \in 1 .. Len(a) \/ \E o \in 1 .. Len(b) : k = Len(a) + o /\ (a \o b)[k] = b[o]
      BY Join
    <3> QED BY ONLY <3>1, <2>2, j \in 1 .. Len(a \o b), Zenon
  <2>4. m < o
    BY <2>1, <2>3
  <2> QED BY <2>1, <2>3, <2>4 DEF Ordered
<1> QED BY <1>1, <1>2, <1>3
-----------------------------------------------------------------------------
(* u is the function behind Ancestors.                                      *)
IsUp(src, u) ==
  u = [j \in Nodes(src) |-> {j} \cup IF j = 1 THEN {} ELSE u[src.parent[j]]]

(* Every node but the first has a parent with a smaller number.             *)
LEMMA SourceFacts ==
  ASSUME NEW src, IsSource(src)
  PROVE  /\ Len(src.parent) \in Nat /\ 1 \in Nodes(src) /\ src.parent[1] = 0
         /\ src.parent \in [Nodes(src) -> Nat]
         /\ \A j \in Nodes(src) : src.parent[j] < j
         /\ \A j \in Nodes(src) : j # 1 => src.parent[j] \in Nodes(src) /\ src.parent[j] # 0
  BY SMTT(30) DEF IsSource, Nodes

(* The ancestors of a node are itself and the ancestors of its parent.      *)
LEMMA AncestorsStep ==
  ASSUME NEW src, IsSource(src), NEW j \in Nodes(src)
  PROVE  Ancestors(src, j) = {j} \cup IF j = 1 THEN {} ELSE Ancestors(src, src.parent[j])
<1> DEFINE n == Len(src.parent)
           step == [p \in (1 .. n) \X SUBSET Nat |-> {p[1]} \cup p[2]]
<1>1. /\ n \in Nat /\ Nodes(src) = 1 .. n /\ src.parent[1] = 0
      /\ src.parent \in [1 .. n -> Nat] /\ (\A k \in 1 .. n : src.parent[k] < k)
  BY SourceFacts DEF Nodes
<1>2. step \in [(1 .. n) \X SUBSET Nat -> SUBSET Nat] /\ {} \in SUBSET Nat
  BY <1>1
<1>3. \A k \in 1 .. n, x \in SUBSET Nat : step[<<k, x>>] = {k} \cup x
  OBVIOUS
<1> HIDE DEF step, n
<1>4. PICK g \in [0 .. n -> SUBSET Nat] : DefinedBy(g, n, {}, src.parent, step)
  BY <1>1, <1>2, RecursionExists
<1>5. ASSUME NEW k \in 1 .. n
      PROVE  g[k] = {k} \cup g[src.parent[k]]
  <2>1. g[src.parent[k]] \in SUBSET Nat
    <3>1. src.parent[k] \in 0 .. n
      BY <1>1
    <3> QED BY <3>1, <1>4
  <2> QED BY <2>1, <1>3, <1>4 DEF DefinedBy
<1>6. g[0] = {}
  BY <1>4 DEF DefinedBy
<1> DEFINE h == [k \in 1 .. n |-> g[k]]
<1>7. IsUp(src, h)
  <2>1. ASSUME NEW k \in 1 .. n
        PROVE  h[k] = {k} \cup IF k = 1 THEN {} ELSE h[src.parent[k]]
    <3>1. CASE k = 1
      <4>1. src.parent[k] = 0
        BY <3>1, <1>1
      <4> QED BY <3>1, <4>1, <1>5, <1>6
    <3>2. CASE k # 1
      <4>1. src.parent[k] \in 1 .. n
        BY <3>2, SourceFacts, <1>1
      <4> QED BY <3>2, <4>1, <1>5
    <3> QED BY <3>1, <3>2
  <2>2. h = [k \in Nodes(src) |-> h[k]]
    BY <1>1
  <2> HIDE DEF h
  <2> QED BY <2>1, <2>2, <1>1 DEF IsUp
<1>8. PICK u : IsUp(src, u) /\ \A i : Ancestors(src, i) = u[i]
  BY <1>7, Zenon DEF Ancestors, IsUp
<1>9. u[j] = {j} \cup IF j = 1 THEN {} ELSE u[src.parent[j]]
  BY <1>8, Zenon DEF IsUp
<1> QED BY <1>8, <1>9

(* The ancestors of a node are not after it, and the root is one of them.   *)
LEMMA AncestorsBelow ==
  ASSUME NEW src, IsSource(src), NEW j \in Nodes(src)
  PROVE  Ancestors(src, j) \subseteq 1 .. j /\ 1 \in Ancestors(src, j) /\ j \in Ancestors(src, j)
<1> DEFINE n == Len(src.parent)
           G == {k \in 0 .. n : k # 0 => Ancestors(src, k) \subseteq 1 .. k /\ 1 \in Ancestors(src, k)}
<1>1. n \in Nat /\ Nodes(src) = 1 .. n
  BY SourceFacts DEF Nodes
<1>2. ASSUME NEW k \in 0 .. n, 0 .. k - 1 \subseteq G
      PROVE  k \in G
  <2>1. CASE k \in {0, 1}
    <3>1. k = 1 => Ancestors(src, k) = {1}
      BY <2>1, <1>1, AncestorsStep
    <3> QED BY <2>1, <3>1
  <2>2. CASE k \notin {0, 1}
    <3>1. k \in Nodes(src) /\ src.parent[k] \in 1 .. k - 1
      BY <2>2, <1>1, SourceFacts
    <3>2. Ancestors(src, k) = {k} \cup Ancestors(src, src.parent[k])
      BY <2>2, <3>1, AncestorsStep
    <3>3. Ancestors(src, src.parent[k]) \subseteq 1 .. src.parent[k] /\ 1 \in Ancestors(src, src.parent[k])
      BY <3>1, <1>2
    <3> QED BY <3>1, <3>2, <3>3
  <2> QED BY <2>1, <2>2
<1> HIDE DEF G
<1>3. 0 .. n \subseteq G
  BY <1>1, <1>2, Induction
<1>4. j \in G /\ j # 0
  BY <1>1, <1>3
<1>5. j \in Ancestors(src, j)
  BY AncestorsStep
<1> QED BY <1>4, <1>5 DEF G

(* What lies below a node lies below one of its children, and what lies     *)
(* below a child lies below its parent.                                     *)
LEMMA BelowAChild ==
  ASSUME NEW src, IsSource(src), NEW i \in Nodes(src), NEW j \in Nodes(src),
         i \in Ancestors(src, j), i # j
  PROVE  \E c \in Nodes(src) : src.parent[c] = i /\ c \in Ancestors(src, j)
<1> DEFINE n == Len(src.parent)
           Between(k) == \E c \in Nodes(src) : src.parent[c] = i /\ c \in Ancestors(src, k)
           G == {k \in 0 .. n : k # 0 /\ k # i /\ i \in Ancestors(src, k) => Between(k)}
<1>1. n \in Nat /\ Nodes(src) = 1 .. n
  BY SourceFacts DEF Nodes
<1>2. ASSUME NEW k \in 0 .. n, 0 .. k - 1 \subseteq G
      PROVE  k \in G
  <2> SUFFICES ASSUME k # 0, k # i, i \in Ancestors(src, k) PROVE Between(k)
    OBVIOUS
  <2>1. k \in Nodes(src) /\ Ancestors(src, k) = {k} \cup IF k = 1 THEN {} ELSE Ancestors(src, src.parent[k])
    BY <1>1, AncestorsStep
  <2>2. k # 1 /\ i \in Ancestors(src, src.parent[k])
    BY <2>1
  <2>3. CASE src.parent[k] = i
    BY <2>1, <2>3
  <2>4. CASE src.parent[k] # i
    <3>1. src.parent[k] \in 0 .. k - 1 /\ src.parent[k] # 0
      BY <2>1, <2>2, SourceFacts
    <3>2. Between(src.parent[k])
      BY <3>1, <2>2, <2>4, <1>2
    <3> QED BY <3>2, <2>1, <2>2
  <2> QED BY <2>3, <2>4
<1> HIDE DEF G
<1>3. 0 .. n \subseteq G
  BY <1>1, <1>2, Induction
<1>4. j \in G /\ j # 0
  BY <1>1, <1>3
<1> QED BY <1>4 DEF G

(* The parent of an ancestor, unless that is the root, is an ancestor.      *)
LEMMA AboveAChild ==
  ASSUME NEW src, IsSource(src), NEW c \in Nodes(src), NEW j \in Nodes(src),
         c \in Ancestors(src, j), c # 1
  PROVE  src.parent[c] \in Ancestors(src, j)
<1> DEFINE n == Len(src.parent)
           G == {k \in 0 .. n : k # 0 /\ c \in Ancestors(src, k) => src.parent[c] \in Ancestors(src, k)}
<1>1. n \in Nat /\ Nodes(src) = 1 .. n
  BY SourceFacts DEF Nodes
<1>2. ASSUME NEW k \in 0 .. n, 0 .. k - 1 \subseteq G
      PROVE  k \in G
  <2> SUFFICES ASSUME k # 0, c \in Ancestors(src, k) PROVE src.parent[c] \in Ancestors(src, k)
    OBVIOUS
  <2>1. k \in Nodes(src) /\ Ancestors(src, k) = {k} \cup IF k = 1 THEN {} ELSE Ancestors(src, src.parent[k])
    BY <1>1, AncestorsStep
  <2>2. k # 1
    BY <2>1
  <2>3. src.parent[k] \in 0 .. k - 1 /\ src.parent[k] # 0 /\ src.parent[k] \in Nodes(src)
    BY <2>1, <2>2, SourceFacts
  <2>4. CASE k = c
    <3>1. src.parent[k] \in Ancestors(src, src.parent[k])
      BY <2>3, AncestorsBelow
    <3> QED BY <3>1, <2>1, <2>2, <2>4
  <2>5. CASE k # c
    <3>1. src.parent[c] \in Ancestors(src, src.parent[k])
      BY <2>1, <2>3, <2>5, <1>2
    <3> QED BY <3>1, <2>1, <2>2
  <2> QED BY <2>4, <2>5
<1> HIDE DEF G
<1>3. 0 .. n \subseteq G
  BY <1>1, <1>2, Induction
<1>4. j \in G /\ j # 0
  BY <1>1, <1>3
<1> QED BY <1>4 DEF G

(* No node lies below two siblings.                                         *)
LEMMA SiblingsApart ==
  ASSUME NEW src, IsSource(src), NEW j \in Nodes(src),
         NEW c \in Ancestors(src, j), NEW d \in Ancestors(src, j), src.parent[c] = src.parent[d]
  PROVE  c = d
<1> DEFINE n == Len(src.parent)
           G == {k \in 0 .. n : k # 0 =>
                   \A a, b \in Ancestors(src, k) : src.parent[a] = src.parent[b] => a = b}
<1>1. n \in Nat /\ Nodes(src) = 1 .. n
  BY SourceFacts DEF Nodes
<1>2. ASSUME NEW k \in 0 .. n, 0 .. k - 1 \subseteq G
      PROVE  k \in G
  <2> SUFFICES ASSUME k # 0, NEW a \in Ancestors(src, k), NEW b \in Ancestors(src, k),
                      src.parent[a] = src.parent[b]
               PROVE  a = b
    OBVIOUS
  <2>1. k \in Nodes(src) /\ Ancestors(src, k) = {k} \cup IF k = 1 THEN {} ELSE Ancestors(src, src.parent[k])
    BY <1>1, AncestorsStep
  <2>2. CASE k = 1
    BY <2>1, <2>2
  <2>3. CASE k # 1
    <3> DEFINE p == src.parent[k]
    <3>1. p \in 0 .. k - 1 /\ p # 0 /\ p \in Nodes(src)
      BY <2>1, <2>3, SourceFacts
    <3>2. Ancestors(src, p) \subseteq 1 .. p
      BY <3>1, AncestorsBelow
    <3>3. ASSUME NEW x \in Ancestors(src, p) PROVE src.parent[x] # p
      <4>1. x \in Nodes(src) /\ x \in Nat /\ x <= p
        BY <3>1, <3>2, <1>1
      <4>2. src.parent[x] < x /\ src.parent[x] \in Nat
        BY <4>1, SourceFacts
      <4> QED BY ONLY <4>1, <4>2, <3>1
    <3>4. \A x, y \in Ancestors(src, p) : src.parent[x] = src.parent[y] => x = y
      BY <3>1, <1>2
    <3>5. (a = k \/ a \in Ancestors(src, p)) /\ (b = k \/ b \in Ancestors(src, p))
      BY <2>1, <2>3
    <3> QED BY <3>3, <3>4, <3>5
  <2> QED BY <2>2, <2>3
<1> HIDE DEF G
<1>3. 0 .. n \subseteq G
  BY <1>1, <1>2, Induction
<1>4. j \in G /\ j # 0
  BY <1>1, <1>3
<1> QED BY <1>4 DEF G

(* No node comes before itself.                                             *)
LEMMA BeforeIsStrict ==
  ASSUME NEW src, IsSource(src), NEW j \in Nodes(src)
  PROVE  ~Before(src, j, j)
<1> SUFFICES ASSUME NEW a \in Ancestors(src, j), NEW b \in Ancestors(src, j),
                    src.parent[a] = src.parent[b], a < b
             PROVE  FALSE
  BY DEF Before
<1>1. a = b
  BY SiblingsApart
<1>2. a \in Nat
  BY AncestorsBelow, SourceFacts DEF Nodes
<1> QED BY <1>1, <1>2
-----------------------------------------------------------------------------
(* One visit of collectElements: the node, and what the walk makes of its   *)
(* children.                                                                *)
Visit(src, w, i) ==
  LET below == Children(src, i)
  IN  (IF src.tag[i] = "AppiumAUT" THEN <<>> ELSE <<i>>)
      \o FlattenSeq([k \in DOMAIN below |-> w[below[k]]])

IsWalk(src, w) == w = [i \in Nodes(src) |-> Visit(src, w, i)]

(* Children lists exactly the nodes with this parent, in ascending order,   *)
(* all of them after it.                                                    *)
LEMMA ChildrenLists ==
  ASSUME NEW src, IsSource(src), NEW i \in Nodes(src)
  PROVE  /\ Children(src, i) \in Seq(Nodes(src))
         /\ \A k \in 1 .. Len(Children(src, i)) :
              /\ Children(src, i)[k] \in Nodes(src) /\ src.parent[Children(src, i)[k]] = i
              /\ Children(src, i)[k] > i
         /\ \A j, k \in 1 .. Len(Children(src, i)) : j < k => Children(src, i)[j] < Children(src, i)[k]
         /\ \A c \in Nodes(src) :
              src.parent[c] = i => \E k \in 1 .. Len(Children(src, i)) : Children(src, i)[k] = c
<1> DEFINE S == {c \in Nodes(src) : src.parent[c] = i}
           q == Children(src, i)
<1>1. ListsTo(q, S, Len(src.parent))
  BY PickedLists, SourceFacts DEF Children
<1>2. q \in Seq(Nodes(src)) /\ \A k \in 1 .. Len(q) : q[k] \in S
  BY <1>1 DEF ListsTo, Nodes
<1>3. \A k \in 1 .. Len(q) : q[k] \in Nodes(src) /\ src.parent[q[k]] = i /\ q[k] > i
  <2> SUFFICES ASSUME NEW k \in 1 .. Len(q)
               PROVE  q[k] \in Nodes(src) /\ src.parent[q[k]] = i /\ q[k] > i
    OBVIOUS
  <2>1. PICK c \in Nodes(src) : c = q[k] /\ src.parent[c] = i
    BY <1>2
  <2>2. src.parent[c] < c /\ c \in Nat /\ i \in Nat
    BY SourceFacts DEF Nodes
  <2> HIDE DEF q
  <2> QED BY <2>1, <2>2
<1>4. \A j, k \in 1 .. Len(q) : j < k => q[j] < q[k]
  BY <1>1 DEF ListsTo
<1>5. \A c \in Nodes(src) : src.parent[c] = i => \E k \in 1 .. Len(q) : q[k] = c
  BY <1>1 DEF ListsTo, Nodes
<1> QED BY <1>2, <1>3, <1>4, <1>5

(* A visit joins the walks of the children, one after the other.            *)
LEMMA VisitSteps ==
  ASSUME NEW src, IsSource(src), NEW w, NEW i \in Nodes(src),
         \A k \in 1 .. Len(Children(src, i)) : w[Children(src, i)[k]] \in Seq(Nodes(src))
  PROVE  \E f \in [0 .. Len(Children(src, i)) -> Seq(Nodes(src))] :
           /\ f[0] = <<>>
           /\ \A k \in 1 .. Len(Children(src, i)) : f[k] = f[k - 1] \o w[Children(src, i)[k]]
           /\ Visit(src, w, i) = (IF src.tag[i] = "AppiumAUT" THEN <<>> ELSE <<i>>)
                                 \o f[Len(Children(src, i))]
<1> DEFINE q == Children(src, i)
           seqs == [k \in DOMAIN q |-> w[q[k]]]
<1>1. q \in Seq(Nodes(src)) /\ DOMAIN q = 1 .. Len(q) /\ Len(q) \in Nat
  BY ChildrenLists
<1>2. seqs \in Seq(Seq(Nodes(src))) /\ Len(seqs) = Len(q)
  <2>1. \A k \in 1 .. Len(q) : w[q[k]] \in Seq(Nodes(src))
    OBVIOUS
  <2> HIDE DEF q
  <2> QED BY <1>1, <2>1
<1>3. \A k \in 1 .. Len(q) : seqs[k] = w[q[k]]
  BY <1>1
<1>4. Visit(src, w, i) = (IF src.tag[i] = "AppiumAUT" THEN <<>> ELSE <<i>>) \o FlattenSeq(seqs)
  BY DEF Visit
<1> HIDE DEF seqs
<1>5. PICK f \in [0 .. Len(seqs) -> Seq(Nodes(src))] :
        /\ f[0] = <<>>
        /\ \A k \in 1 .. Len(seqs) : f[k] = f[k - 1] \o seqs[k]
        /\ FlattenSeq(seqs) = f[Len(seqs)]
  BY <1>2, FlattenSteps
<1>6. \A k \in 1 .. Len(q) : f[k] = f[k - 1] \o w[q[k]]
  BY <1>2, <1>3, <1>5
<1> QED BY <1>2, <1>4, <1>5, <1>6

(* It depends only on them.                                                 *)
LEMMA VisitDepends ==
  ASSUME NEW src, IsSource(src), NEW v, NEW w, NEW i \in Nodes(src),
         \A c \in Nodes(src) : c > i => v[c] = w[c]
  PROVE  Visit(src, v, i) = Visit(src, w, i)
<1> DEFINE q == Children(src, i)
<1>1. DOMAIN q = 1 .. Len(q) /\ \A k \in 1 .. Len(q) : q[k] \in Nodes(src) /\ q[k] > i
  BY ChildrenLists
<1> HIDE DEF q
<1>2. [k \in DOMAIN q |-> v[q[k]]] = [k \in DOMAIN q |-> w[q[k]]]
  BY <1>1
<1> QED BY <1>2 DEF Visit, q

(* A visit lists nodes if the walks of the children do.                     *)
LEMMA VisitType ==
  ASSUME NEW src, IsSource(src), NEW w, NEW i \in Nodes(src),
         \A c \in Nodes(src) : c > i => w[c] \in Seq(Nodes(src))
  PROVE  Visit(src, w, i) \in Seq(Nodes(src))
<1> DEFINE q == Children(src, i)
<1>1. \A k \in 1 .. Len(q) : q[k] \in Nodes(src) /\ q[k] > i
  BY ChildrenLists
<1>2. Len(q) \in Nat
  BY ChildrenLists
<1>3. PICK f \in [0 .. Len(q) -> Seq(Nodes(src))] :
        Visit(src, w, i) = (IF src.tag[i] = "AppiumAUT" THEN <<>> ELSE <<i>>) \o f[Len(q)]
  BY ZenonT(60), <1>1, VisitSteps
<1> HIDE DEF q
<1>4. f[Len(q)] \in Seq(Nodes(src))
  BY <1>2, <1>3
<1> QED BY <1>3, <1>4

(* The walk is well defined: the children of a node have larger numbers.    *)
LEMMA WalkExists ==
  ASSUME NEW src, IsSource(src)
  PROVE  \E w \in [Nodes(src) -> Seq(Nodes(src))] : IsWalk(src, w)
<1> DEFINE n == Len(src.parent)
           N == Nodes(src)
           Solves(f, m) == f \in [m .. n -> Seq(N)] /\ \A i \in m .. n : f[i] = Visit(src, f, i)
           G == {k \in 0 .. n : \E f : Solves(f, n + 1 - k)}
<1>1. n \in Nat /\ N = 1 .. n
  BY SourceFacts DEF Nodes
<1> HIDE DEF n, N
<1>2. ASSUME NEW k \in 0 .. n, 0 .. k - 1 \subseteq G
      PROVE  k \in G
  <2>1. CASE k = 0
    <3>1. (n + 1) .. n = {} /\ n + 1 - k = n + 1
      BY <2>1, <1>1
    <3>2. Solves([i \in {} |-> <<>>], n + 1)
      BY <3>1
    <3> QED BY <3>1, <3>2
  <2>2. CASE k # 0
    <3> DEFINE m == n + 1 - k
    <3>1. m \in 1 .. n /\ m \in N /\ n + 1 - (k - 1) = m + 1 /\ k - 1 \in 0 .. k - 1
      BY <2>2, <1>1
    <3> HIDE DEF m
    <3>2. PICK f : Solves(f, m + 1)
      BY <3>1, <1>2
    <3> DEFINE g == [i \in m .. n |-> IF i = m THEN Visit(src, f, m) ELSE f[i]]
    <3>3. m .. n \subseteq N /\ \A i \in m .. n : i = m \/ i \in (m + 1) .. n
      BY <3>1, <1>1
    <3>4. \A c \in N : c > m => c \in (m + 1) .. n
      BY <3>1, <1>1
    <3>5. Visit(src, f, m) \in Seq(N)
      <4>1. \A c \in N : c > m => f[c] \in Seq(N)
        BY <3>2, <3>4
      <4> QED BY <4>1, <3>1, VisitType DEF N
    <3>6. g \in [m .. n -> Seq(N)]
      BY <3>2, <3>3, <3>5
    <3>7. \A c \in (m + 1) .. n : g[c] = f[c]
      BY <3>1, <1>1
    <3>8. ASSUME NEW i \in m .. n PROVE g[i] = Visit(src, g, i)
      <4>1. \A c \in N : c > i => g[c] = f[c]
        BY <3>7, <3>1, <1>1
      <4>2. i \in N
        BY <3>3
      <4>3. g[i] = IF i = m THEN Visit(src, f, m) ELSE f[i]
        OBVIOUS
      <4> HIDE DEF g
      <4>4. Visit(src, g, i) = Visit(src, f, i)
        BY <4>1, <4>2, VisitDepends DEF N
      <4>5. i # m => f[i] = Visit(src, f, i)
        BY <3>2, <3>3
      <4> QED BY <4>3, <4>4, <4>5
    <3> HIDE DEF g
    <3>9. Solves(g, m)
      BY <3>6, <3>8
    <3> QED BY <3>9 DEF m
  <2> QED BY <2>1, <2>2
<1> HIDE DEF G
<1>3. 0 .. n \subseteq G
  BY <1>1, <1>2, Induction
<1>4. n \in G /\ n + 1 - n = 1
  BY <1>1, <1>3
<1>5. PICK f : Solves(f, 1)
  BY <1>4 DEF G
<1>6. f \in [N -> Seq(N)] /\ \A i \in N : f[i] = Visit(src, f, i)
  BY <1>1, <1>5
<1>7. f = [i \in N |-> f[i]]
  BY <1>6
<1>8. IsWalk(src, f)
  BY <1>6, <1>7 DEF IsWalk, N
<1> QED BY <1>6, <1>8 DEF N

(* What a walk from node i has to list: the nodes below i that are elements,*)
(* in document order.                                                       *)
DocumentOrder(src) == {p \in Nodes(src) \X Nodes(src) : Before(src, p[1], p[2])}

ListsBelow(src, i, q) ==
  /\ q \in Seq(Nodes(src))
  /\ \A k \in 1 .. Len(q) : src.tag[q[k]] # "AppiumAUT" /\ i \in Ancestors(src, q[k])
  /\ \A j \in Nodes(src) :
       src.tag[j] # "AppiumAUT" /\ i \in Ancestors(src, j) => Has(q, j)
  /\ Ordered(q, DocumentOrder(src))

(* The walks of the first children, joined.                                 *)
ListsChildren(src, i, k, q) ==
  /\ q \in Seq(Nodes(src))
  /\ \A m \in 1 .. Len(q) :
       /\ src.tag[q[m]] # "AppiumAUT"
       /\ \E o \in 1 .. k : Children(src, i)[o] \in Ancestors(src, q[m])
  /\ \A j \in Nodes(src), o \in 1 .. k :
       src.tag[j] # "AppiumAUT" /\ Children(src, i)[o] \in Ancestors(src, j)
         => Has(q, j)
  /\ Ordered(q, DocumentOrder(src))

(* The walks of the first k - 1 children and the walk of the next one list  *)
(* what the first k children have to list.                                  *)
LEMMA JoinChild ==
  ASSUME NEW src, IsSource(src), NEW i \in Nodes(src), NEW k \in 1 .. Len(Children(src, i)),
         NEW a, ListsChildren(src, i, k - 1, a), NEW b, ListsBelow(src, Children(src, i)[k], b)
  PROVE  ListsChildren(src, i, k, a \o b)
<1> DEFINE q == Children(src, i)
<1>1. a \in Seq(Nodes(src)) /\ b \in Seq(Nodes(src))
  BY DEF ListsChildren, ListsBelow
<1>2. Len(q) \in Nat /\ \A o \in 1 .. Len(q) : q[o] \in Nodes(src) /\ src.parent[q[o]] = i
  BY ChildrenLists
<1>3. \A o, p \in 1 .. Len(q) : o < p => q[o] < q[p]
  BY ChildrenLists
<1> HIDE DEF q
<1>4. \A o \in 1 .. k - 1 : o \in 1 .. k /\ o \in 1 .. Len(q) /\ o < k
  BY <1>2 DEF q
<1>5. k \in 1 .. k /\ k \in 1 .. Len(q) /\ \A o \in 1 .. k : o = k \/ o \in 1 .. k - 1
  BY <1>2 DEF q
<1>6. \A m \in 1 .. Len(a) :
        src.tag[a[m]] # "AppiumAUT" /\ \E o \in 1 .. k - 1 : q[o] \in Ancestors(src, a[m])
  BY DEF ListsChildren, q
<1>7. \A m \in 1 .. Len(b) : src.tag[b[m]] # "AppiumAUT" /\ q[k] \in Ancestors(src, b[m])
  BY DEF ListsBelow, q
<1>8. ASSUME NEW x \in 1 .. Len(a), NEW y \in 1 .. Len(b)
      PROVE  <<a[x], b[y]>> \in DocumentOrder(src)
  <2>1. PICK o \in 1 .. k - 1 : q[o] \in Ancestors(src, a[x])
    BY <1>6
  <2>2. q[k] \in Ancestors(src, b[y]) /\ q[o] < q[k] /\ src.parent[q[o]] = src.parent[q[k]]
    BY <1>2, <1>3, <1>4, <1>5, <1>7
  <2>3. Before(src, a[x], b[y])
    BY <2>1, <2>2 DEF Before
  <2>4. a[x] \in Nodes(src) /\ b[y] \in Nodes(src)
    BY <1>1
  <2> QED BY <2>3, <2>4 DEF DocumentOrder
<1>10. Ordered(a \o b, DocumentOrder(src))
  <2>1. Ordered(a, DocumentOrder(src)) /\ Ordered(b, DocumentOrder(src))
    BY DEF ListsChildren, ListsBelow
  <2> QED BY <1>1, <1>8, <2>1, JoinOrdered
<1>11. ASSUME NEW m \in 1 .. Len(a \o b)
       PROVE  /\ src.tag[(a \o b)[m]] # "AppiumAUT"
              /\ \E o \in 1 .. k : q[o] \in Ancestors(src, (a \o b)[m])
  <2> DEFINE U == {j \in Nodes(src) :
                     src.tag[j] # "AppiumAUT" /\ \E o \in 1 .. k : q[o] \in Ancestors(src, j)}
  <2>1. ASSUME NEW z \in 1 .. Len(a) PROVE a[z] \in U
    <3>1. a[z] \in Nodes(src)
      BY <1>1
    <3>2. PICK o \in 1 .. k - 1 : q[o] \in Ancestors(src, a[z])
      BY <1>6
    <3> QED BY <3>1, <3>2, <1>4, <1>6
  <2>2. \A z \in 1 .. Len(b) : b[z] \in U
    BY <1>1, <1>5, <1>7
  <2> HIDE DEF U
  <2>3. a \in Seq(U) /\ b \in Seq(U)
    BY <1>1, <2>1, <2>2, SeqInto
  <2>4. a \o b \in Seq(U)
    BY <2>3
  <2>5. (a \o b)[m] \in U
    BY <2>4
  <2> QED BY <2>5 DEF U
<1>12. ASSUME NEW j \in Nodes(src), NEW o \in 1 .. k,
              src.tag[j] # "AppiumAUT", q[o] \in Ancestors(src, j)
       PROVE  Has(a \o b, j)
  <2>1. CASE o = k
    <3>1. Has(b, j)
      BY <2>1, <1>12 DEF ListsBelow, q
    <3> QED BY <3>1, <1>1, JoinHas
  <2>2. CASE o \in 1 .. k - 1
    <3>1. Has(a, j)
      BY <2>2, <1>12 DEF ListsChildren, q
    <3> QED BY <3>1, <1>1, JoinHas
  <2> QED BY <2>1, <2>2, <1>5
<1>13. a \o b \in Seq(Nodes(src))
  BY <1>1
<1> QED BY <1>10, <1>11, <1>12, <1>13 DEF ListsChildren, q

(* A visit of a node whose children are listed lists the node.              *)
LEMMA VisitLists ==
  ASSUME NEW src, IsSource(src), NEW i \in Nodes(src), NEW w,
         \A c \in Nodes(src) : c > i => ListsBelow(src, c, w[c])
  PROVE  ListsBelow(src, i, Visit(src, w, i))
<1> DEFINE q == Children(src, i)
           own == IF src.tag[i] = "AppiumAUT" THEN <<>> ELSE <<i>>
<1>1. /\ Len(q) \in Nat
      /\ \A k \in 1 .. Len(q) : q[k] \in Nodes(src) /\ src.parent[q[k]] = i /\ q[k] > i
      /\ \A c \in Nodes(src) : src.parent[c] = i => \E k \in 1 .. Len(q) : q[k] = c
  BY ChildrenLists
<1>2. \A k \in 1 .. Len(q) : ListsBelow(src, q[k], w[q[k]]) /\ w[q[k]] \in Seq(Nodes(src))
  BY <1>1 DEF ListsBelow
<1>3. PICK f \in [0 .. Len(q) -> Seq(Nodes(src))] :
        /\ f[0] = <<>>
        /\ \A k \in 1 .. Len(q) : f[k] = f[k - 1] \o w[q[k]]
        /\ Visit(src, w, i) = own \o f[Len(q)]
  BY ZenonT(60), <1>2, VisitSteps
<1> DEFINE G == {k \in 0 .. Len(q) : ListsChildren(src, i, k, f[k])}
<1>4. ASSUME NEW k \in 0 .. Len(q), 0 .. k - 1 \subseteq G
      PROVE  k \in G
  <2>1. CASE k = 0
    <3>1. ListsChildren(src, i, 0, <<>>)
      BY DEF ListsChildren, Ordered
    <3> QED BY <2>1, <3>1, <1>3
  <2>2. CASE k # 0
    <3>1. k \in 1 .. Len(q) /\ k - 1 \in 0 .. k - 1
      BY <2>2, <1>1
    <3>2. ListsChildren(src, i, k - 1, f[k - 1])
      BY <3>1, <1>4
    <3>3. ListsChildren(src, i, k, f[k - 1] \o w[q[k]])
      BY <3>1, <3>2, <1>2, JoinChild
    <3>4. f[k] = f[k - 1] \o w[q[k]]
      BY <3>1, <1>3
    <3> QED BY <3>3, <3>4
  <2> QED BY <2>1, <2>2
<1> HIDE DEF G
<1>5. 0 .. Len(q) \subseteq G
  BY <1>1, <1>4, Induction
<1>6. ListsChildren(src, i, Len(q), f[Len(q)])
  <2>1. Len(q) \in G
    BY <1>1, <1>5
  <2> QED BY <2>1 DEF G
<1>7. PICK b : b = f[Len(q)]
  OBVIOUS
<1>8. /\ b \in Seq(Nodes(src)) /\ Ordered(b, DocumentOrder(src))
      /\ \A m \in 1 .. Len(b) :
           src.tag[b[m]] # "AppiumAUT" /\ \E o \in 1 .. Len(q) : q[o] \in Ancestors(src, b[m])
      /\ \A j \in Nodes(src), o \in 1 .. Len(q) :
           src.tag[j] # "AppiumAUT" /\ q[o] \in Ancestors(src, j) => Has(b, j)
  BY <1>6, <1>7 DEF ListsChildren
<1> HIDE DEF q
<1>9. ASSUME NEW o \in 1 .. Len(q), NEW j \in Nodes(src), q[o] \in Ancestors(src, j)
      PROVE  i \in Ancestors(src, j) /\ i # j
  <2>1. q[o] \in Nodes(src) /\ src.parent[q[o]] = i /\ q[o] > i /\ q[o] # 1 /\ i \in Nat /\ q[o] \in Nat
    BY <1>1, SourceFacts DEF Nodes
  <2>2. i \in Ancestors(src, j)
    BY <2>1, <1>9, AboveAChild
  <2>3. q[o] <= j
    BY <1>9, AncestorsBelow
  <2>4. j \in Nat
    BY SourceFacts DEF Nodes
  <2> QED BY <2>1, <2>2, <2>3, <2>4
<1>10. CASE src.tag[i] = "AppiumAUT"
  <2>1. Visit(src, w, i) = b
    BY <1>3, <1>7, <1>8, <1>10
  <2>2. \A m \in 1 .. Len(b) : src.tag[b[m]] # "AppiumAUT" /\ i \in Ancestors(src, b[m])
    BY <1>8, <1>9
  <2>3. ASSUME NEW j \in Nodes(src), src.tag[j] # "AppiumAUT", i \in Ancestors(src, j)
        PROVE  Has(b, j)
    <3>1. PICK c \in Nodes(src) : src.parent[c] = i /\ c \in Ancestors(src, j)
      BY <2>3, <1>10, BelowAChild
    <3>2. PICK o \in 1 .. Len(q) : q[o] = c
      BY <3>1, <1>1
    <3> QED BY <3>1, <3>2, <2>3, <1>8
  <2> QED BY <2>1, <2>2, <2>3, <1>8 DEF ListsBelow
<1>11. CASE src.tag[i] # "AppiumAUT"
  <2>0. PICK a : a = <<i>>
    OBVIOUS
  <2>1. Visit(src, w, i) = a \o b
    BY <1>3, <1>7, <1>11, <2>0
  <2>2. a \in Seq(Nodes(src)) /\ Len(a) = 1 /\ a[1] = i
    BY <2>0
  <2>3. 1 \in 1 .. Len(a) /\ \A z \in 1 .. Len(a) : a[z] = i
    BY <2>2
  <2>6. \A m \in 1 .. Len(a \o b) :
          src.tag[(a \o b)[m]] # "AppiumAUT" /\ i \in Ancestors(src, (a \o b)[m])
    <3> DEFINE U == {j \in Nodes(src) : src.tag[j] # "AppiumAUT" /\ i \in Ancestors(src, j)}
    <3>1. i \in U
      BY <1>11, AncestorsBelow
    <3>2. \A z \in 1 .. Len(b) : b[z] \in U
      <4>1. \A z \in 1 .. Len(b) : b[z] \in Nodes(src)
        BY <1>8
      <4> QED BY <4>1, <1>8, <1>9
    <3> HIDE DEF U
    <3>3. a \in Seq(U)
      BY <2>0, <3>1
    <3>4. b \in Seq(U)
      BY <1>8, <3>2
    <3>5. a \o b \in Seq(U)
      BY <3>3, <3>4
    <3>6. \A m \in 1 .. Len(a \o b) : (a \o b)[m] \in U
      BY <3>5
    <3> QED BY <3>6 DEF U
  <2>7. ASSUME NEW j \in Nodes(src), src.tag[j] # "AppiumAUT", i \in Ancestors(src, j)
        PROVE  Has(a \o b, j)
    <3>1. CASE j = i
      <4>1. Has(a, i)
        BY <2>3 DEF Has
      <4> QED BY <4>1, <3>1, <2>2, <1>8, JoinHas
    <3>2. CASE j # i
      <4>1. PICK c \in Nodes(src) : src.parent[c] = i /\ c \in Ancestors(src, j)
        BY <2>7, <3>2, BelowAChild
      <4>2. PICK o \in 1 .. Len(q) : q[o] = c
        BY <4>1, <1>1
      <4>3. Has(b, j)
        BY <4>1, <4>2, <2>7, <1>8
      <4> QED BY <4>3, <2>2, <1>8, JoinHas
    <3> QED BY <3>1, <3>2
  <2>8. Ordered(a \o b, DocumentOrder(src))
    <3>1. Ordered(a, DocumentOrder(src))
      BY <2>2 DEF Ordered
    <3>2. ASSUME NEW x \in 1 .. Len(a), NEW y \in 1 .. Len(b)
          PROVE  <<a[x], b[y]>> \in DocumentOrder(src)
      <4>1. b[y] \in Nodes(src)
        BY <1>8
      <4>2. i \in Ancestors(src, b[y]) /\ i # b[y]
        BY <4>1, <1>8, <1>9
      <4> QED BY <4>1, <4>2, <2>3 DEF DocumentOrder, Before
    <3> QED BY <3>1, <3>2, <2>2, <1>8, JoinOrdered
  <2>9. a \o b \in Seq(Nodes(src))
    BY <2>2, <1>8
  <2> QED BY <2>1, <2>6, <2>7, <2>8, <2>9 DEF ListsBelow
<1> QED BY <1>10, <1>11

(* collectElements lists exactly the elements of a source, each once, in    *)
(* document order.                                                          *)
LEMMA CollectLists ==
  ASSUME NEW src, IsSource(src)
  PROVE  ListsBelow(src, 1, Collect(src))
<1> DEFINE n == Len(src.parent)
<1>1. n \in Nat /\ Nodes(src) = 1 .. n /\ 1 \in Nodes(src)
  BY SourceFacts DEF Nodes
<1>2. PICK w : IsWalk(src, w) /\ Collect(src) = w[1]
  <2>1. \E w : IsWalk(src, w)
    BY WalkExists
  <2> QED BY <2>1 DEF Collect, IsWalk, Visit
<1>3. \A i \in Nodes(src) : w[i] = Visit(src, w, i)
  BY <1>2, Zenon DEF IsWalk
<1> DEFINE G == {k \in 0 .. n : k # 0 => ListsBelow(src, n + 1 - k, w[n + 1 - k])}
<1>4. ASSUME NEW k \in 0 .. n, 0 .. k - 1 \subseteq G
      PROVE  k \in G
  <2> SUFFICES ASSUME k # 0 PROVE ListsBelow(src, n + 1 - k, w[n + 1 - k])
    OBVIOUS
  <2>1. PICK i \in Nodes(src) : i = n + 1 - k
    <3>1. n + 1 - k \in Nodes(src)
      BY <1>1
    <3> QED BY <3>1
  <2>2. ASSUME NEW c \in Nodes(src), c > i PROVE ListsBelow(src, c, w[c])
    <3>1. n + 1 - c \in 0 .. k - 1 /\ n + 1 - c # 0 /\ n + 1 - (n + 1 - c) = c
      BY <2>1, <2>2, <1>1
    <3> QED BY <3>1, <1>4
  <2>3. ListsBelow(src, i, Visit(src, w, i))
    BY <2>2, VisitLists
  <2> QED BY <2>1, <2>3, <1>3
<1> HIDE DEF G
<1>5. 0 .. n \subseteq G
  BY <1>1, <1>4, Induction
<1>6. n \in G /\ n # 0 /\ n + 1 - n = 1
  BY <1>1, <1>5
<1> QED BY <1>2, <1>6 DEF G
-----------------------------------------------------------------------------
(* v is what atoi makes of the first m characters of d.                     *)
IsNumber(d, m, v) == v = [k \in 0 .. m |-> IF k = 0 THEN 0 ELSE 10 * v[k - 1] + d[k]]

(* A text of digits has a number.                                           *)
LEMMA NumberExists ==
  ASSUME NEW d \in Seq(0 .. 9)
  PROVE  \E v : IsNumber(d, Len(d), v)
<1> DEFINE n == Len(d)
           prev == [k \in 1 .. n |-> k - 1]
           step == [p \in (1 .. n) \X Nat |-> 10 * p[2] + d[p[1]]]
<1>1. n \in Nat /\ \A k \in 1 .. n : d[k] \in 0 .. 9
  OBVIOUS
<1> HIDE DEF n
<1>2. prev \in [1 .. n -> Nat] /\ \A k \in 1 .. n : prev[k] < k
  BY <1>1
<1>3. step \in [(1 .. n) \X Nat -> Nat]
  <2>1. ASSUME NEW p \in (1 .. n) \X Nat PROVE 10 * p[2] + d[p[1]] \in Nat
    <3>1. p[1] \in 1 .. n /\ p[2] \in Nat /\ d[p[1]] \in Nat
      BY SMTT(30), <1>1
    <3> QED BY <3>1
  <2> QED BY <2>1
<1>4. ASSUME NEW k \in 1 .. n, NEW x \in Nat
      PROVE  prev[k] = k - 1 /\ step[<<k, x>>] = 10 * x + d[k]
  OBVIOUS
<1> HIDE DEF prev, step
<1>5. PICK v \in [0 .. n -> Nat] : DefinedBy(v, n, 0, prev, step)
  BY <1>1, <1>2, <1>3, RecursionExists
<1>6. ASSUME NEW k \in 0 .. n
      PROVE  v[k] = IF k = 0 THEN 0 ELSE 10 * v[k - 1] + d[k]
  <2>1. CASE k = 0
    BY <2>1, <1>5 DEF DefinedBy
  <2>2. CASE k # 0
    <3>1. k \in 1 .. n /\ v[k - 1] \in Nat
      BY <2>2, <1>1
    <3> QED BY <3>1, <2>2, <1>4, <1>5 DEF DefinedBy
  <2> QED BY <2>1, <2>2
<1>7. IsNumber(d, n, v)
  <2>1. v = [k \in 0 .. n |-> v[k]]
    BY <1>5
  <2> QED BY <2>1, <1>6, Zenon DEF IsNumber
<1> QED BY <1>7 DEF n

(* f writes the numbers up to n in decimal.                                 *)
IsDecimal(n, f) == f = [k \in 0 .. n |-> IF k < 10 THEN <<k>> ELSE Append(f[k \div 10], k % 10)]

(* Every number has a decimal text.                                         *)
LEMMA DecimalExists ==
  ASSUME NEW n \in Nat
  PROVE  \E f : IsDecimal(n, f)
<1> DEFINE prev == [k \in 1 .. n |-> k \div 10]
           step == [p \in (1 .. n) \X Seq(Nat) |-> IF p[1] < 10 THEN <<p[1]>> ELSE Append(p[2], p[1] % 10)]
<1>1. prev \in [1 .. n -> Nat] /\ \A k \in 1 .. n : prev[k] < k
  OBVIOUS
<1>2. step \in [(1 .. n) \X Seq(Nat) -> Seq(Nat)] /\ <<0>> \in Seq(Nat)
  <2>1. ASSUME NEW p \in (1 .. n) \X Seq(Nat)
        PROVE  (IF p[1] < 10 THEN <<p[1]>> ELSE Append(p[2], p[1] % 10)) \in Seq(Nat)
    <3>1. p[1] \in Nat /\ p[1] % 10 \in Nat /\ p[2] \in Seq(Nat)
      OBVIOUS
    <3> QED BY <3>1
  <2> QED BY <2>1
<1>3. ASSUME NEW k \in 1 .. n, NEW x \in Seq(Nat)
      PROVE  prev[k] = k \div 10 /\ step[<<k, x>>] = IF k < 10 THEN <<k>> ELSE Append(x, k % 10)
  OBVIOUS
<1>4. ASSUME NEW k \in 1 .. n PROVE prev[k] \in 0 .. n
  BY <1>1
<1> HIDE DEF prev, step
<1>5. PICK f \in [0 .. n -> Seq(Nat)] : DefinedBy(f, n, <<0>>, prev, step)
  BY <1>1, <1>2, RecursionExists
<1>6. ASSUME NEW k \in 0 .. n
      PROVE  f[k] = IF k < 10 THEN <<k>> ELSE Append(f[k \div 10], k % 10)
  <2>1. CASE k = 0
    BY <2>1, <1>5 DEF DefinedBy
  <2>2. CASE k # 0
    <3>1. k \in 1 .. n /\ f[prev[k]] \in Seq(Nat)
      BY <2>2, <1>4
    <3>2. f[k] = step[<<k, f[prev[k]]>>]
      BY <3>1, <1>5 DEF DefinedBy
    <3> QED BY <3>1, <3>2, <1>3
  <2> QED BY <2>1, <2>2
<1> QED
  <2>1. f = [k \in 0 .. n |-> f[k]]
    BY <1>5
  <2> QED BY <2>1, <1>6, Zenon DEF IsDecimal

(* What is written in decimal has digits only, and reads as the number.     *)
Reads(d, k) ==
  /\ d \in Seq(0 .. 9) /\ Len(d) >= 1
  /\ \A v : IsNumber(d, Len(d), v) => v[Len(d)] = k

(* A digit reads as itself.                                                 *)
LEMMA DigitReads ==
  ASSUME NEW k \in 0 .. 9
  PROVE  Reads(<<k>>, k)
<1>1. <<k>> \in Seq(0 .. 9) /\ Len(<<k>>) = 1 /\ <<k>>[1] = k
  OBVIOUS
<1>2. ASSUME NEW v, IsNumber(<<k>>, 1, v) PROVE v[1] = k
  <2>1. \A j \in 0 .. 1 : v[j] = IF j = 0 THEN 0 ELSE 10 * v[j - 1] + <<k>>[j]
    BY <1>2, Zenon DEF IsNumber
  <2>2. v[0] = 0 /\ v[1] = 10 * v[0] + k
    <3>1. 0 \in 0 .. 1 /\ 1 \in 0 .. 1 /\ 1 - 1 = 0 /\ 1 # 0
      OBVIOUS
    <3> QED BY <3>1, <2>1, <1>1
  <2> QED BY <2>2
<1> QED BY <1>1, <1>2 DEF Reads

(* A digit more makes the number ten times as large, plus the digit.        *)
LEMMA AppendedReads ==
  ASSUME NEW d, NEW m \in Nat, Reads(d, m), NEW c \in 0 .. 9
  PROVE  Reads(Append(d, c), 10 * m + c)
<1> DEFINE e == Append(d, c)
           n == Len(d)
<1>1. /\ d \in Seq(0 .. 9) /\ n \in Nat /\ n >= 1
      /\ \A v : IsNumber(d, n, v) => v[n] = m
  BY DEF Reads
<1>2. e \in Seq(0 .. 9) /\ Len(e) = n + 1 /\ e[n + 1] = c /\ \A j \in 1 .. n : e[j] = d[j]
  BY <1>1
<1> HIDE DEF e, n
<1>3. ASSUME NEW v, IsNumber(e, n + 1, v) PROVE v[n + 1] = 10 * m + c
  <2> DEFINE u == [j \in 0 .. n |-> v[j]]
  <2>1. \A j \in 0 .. n + 1 : v[j] = IF j = 0 THEN 0 ELSE 10 * v[j - 1] + e[j]
    BY <1>3, Zenon DEF IsNumber
  <2>2. ASSUME NEW j \in 0 .. n PROVE v[j] = IF j = 0 THEN 0 ELSE 10 * u[j - 1] + d[j]
    <3>1. j \in 0 .. n + 1
      BY <1>1
    <3>2. j # 0 => j \in 1 .. n /\ j - 1 \in 0 .. n
      BY <1>1
    <3>3. j # 0 => u[j - 1] = v[j - 1]
      BY <3>2
    <3> HIDE DEF u
    <3> QED BY <3>1, <3>2, <3>3, <2>1, <1>2
  <2>3. IsNumber(d, n, u)
    <3>1. u = [j \in 0 .. n |-> IF j = 0 THEN 0 ELSE 10 * u[j - 1] + d[j]]
      BY <2>2, Zenon
    <3> HIDE DEF u
    <3> QED BY <3>1, Zenon DEF IsNumber
  <2>4. u[n] = v[n]
    BY <1>1
  <2> HIDE DEF u
  <2>5. PICK p \in 0 .. n + 1 : p = n + 1 /\ p # 0 /\ p - 1 = n
    BY <1>1
  <2>6. v[p] = 10 * v[p - 1] + e[p]
    BY <2>1, <2>5, Zenon
  <2>7. e[p] = c /\ v[p - 1] = v[n]
    BY <1>2, <2>5, Zenon
  <2>8. v[n + 1] = 10 * v[n] + c
    BY ONLY <2>5, <2>6, <2>7, Zenon
  <2> QED BY <2>3, <2>4, <2>8, <1>1
<1> QED BY <1>2, <1>3 DEF Reads, e

(* Division by ten, as a quotient and a digit.                              *)
LEMMA Division ==
  ASSUME NEW k \in Nat, k >= 10
  PROVE  \E m \in 0 .. k - 1, c \in 0 .. 9 : m = k \div 10 /\ c = k % 10 /\ k = 10 * m + c
<1>1. k \div 10 \in 0 .. k - 1 /\ k % 10 \in 0 .. 9
  OBVIOUS
<1>2. k = 10 * (k \div 10) + (k % 10)
  OBVIOUS
<1> QED BY <1>1, <1>2

(* What is written for n in decimal reads as n.                             *)
LEMMA DecimalReads ==
  ASSUME NEW n \in Nat, NEW f, IsDecimal(n, f)
  PROVE  Reads(f[n], n)
<1> DEFINE G == {k \in 0 .. n : Reads(f[k], k)}
<1>1. \A k \in 0 .. n : f[k] = IF k < 10 THEN <<k>> ELSE Append(f[k \div 10], k % 10)
  BY Zenon DEF IsDecimal
<1>2. ASSUME NEW k \in 0 .. n, 0 .. k - 1 \subseteq G
      PROVE  k \in G
  <2>1. CASE k < 10
    <3>1. k \in 0 .. 9
      BY <2>1
    <3> QED BY <3>1, <2>1, <1>1, DigitReads
  <2>2. CASE ~(k < 10)
    <3>0. k \in Nat /\ k >= 10
      BY <2>2
    <3>1. PICK m \in 0 .. k - 1, c \in 0 .. 9 : m = k \div 10 /\ c = k % 10 /\ k = 10 * m + c
      BY <3>0, Division
    <3>2. Reads(f[m], m) /\ m \in Nat
      BY <1>2
    <3>3. Reads(Append(f[m], c), 10 * m + c)
      BY <3>2, AppendedReads
    <3>4. f[k] = Append(f[m], c)
      BY <3>1, <2>2, <1>1
    <3> QED BY <3>1, <3>3, <3>4
  <2> QED BY <2>1, <2>2
<1> HIDE DEF G
<1>3. 0 .. n \subseteq G
  BY <1>2, Induction
<1>4. n \in G
  BY <1>3
<1> QED BY <1>4 DEF G

NumberOf(d, c) == (CHOOSE v : IsNumber(d, c, v))[c]

(* Atoi reads digits with or without a minus.                               *)
LEMMA AtoiReads ==
  ASSUME NEW n \in Nat, NEW d, Reads(d, n)
  PROVE  Atoi(d) = n /\ Atoi(<<Minus>> \o d) = -n
<1> DEFINE c(b) == Cardinality({i \in DOMAIN b : \A j \in 1 .. i : b[j] < Minus})
<1>1. d \in Seq(0 .. 9) /\ Len(d) \in Nat /\ Len(d) >= 1 /\ DOMAIN d = 1 .. Len(d)
  BY DEF Reads
<1>2. c(d) = Len(d)
  <2>1. {i \in DOMAIN d : \A j \in 1 .. i : d[j] < Minus} = 1 .. Len(d)
    BY <1>1 DEF Minus
  <2>2. Cardinality(1 .. Len(d)) = Len(d)
    BY <1>1, FS_Interval
  <2> QED BY <2>1, <2>2
<1>3. NumberOf(d, Len(d)) = n
  <2>1. PICK v : IsNumber(d, Len(d), v) /\ NumberOf(d, Len(d)) = v[Len(d)]
    <3>1. \E v : IsNumber(d, Len(d), v)
      BY <1>1, NumberExists
    <3> QED BY <3>1 DEF NumberOf
  <2> QED BY <2>1 DEF Reads
<1>4. ~(d # <<>> /\ d[1] = Minus)
  BY <1>1 DEF Minus
<1> DEFINE t == <<Minus>> \o d
<1>5. t # <<>> /\ t[1] = Minus /\ Tail(t) = d
  <2>1. t \in Seq(Nat) /\ Len(t) = Len(d) + 1 /\ t[1] = Minus
    BY <1>1 DEF Minus
  <2>2. \A k \in 1 .. Len(d) : t[k + 1] = d[k]
    BY <1>1 DEF Minus
  <2> HIDE DEF t
  <2>3. Tail(t) \in Seq(Nat) /\ Len(Tail(t)) = Len(d) /\ \A k \in 1 .. Len(d) : Tail(t)[k] = d[k]
    BY <2>1, <2>2, <1>1
  <2>4. d \in Seq(Nat)
    BY <1>1
  <2>5. Tail(t) = d
    BY <2>3, <2>4, SeqEqual
  <2> QED BY <2>1, <2>5, <1>1
<1> HIDE DEF t
<1>6. Atoi(d) = n
  <2>1. Atoi(d) = NumberOf(d, c(d))
    BY <1>4 DEF Atoi, NumberOf, IsNumber
  <2> HIDE DEF c
  <2> QED BY <1>2, <1>3, <2>1
<1>7. Atoi(t) = -n
  <2>1. Atoi(t) = -NumberOf(Tail(t), c(Tail(t)))
    BY <1>5 DEF Atoi, NumberOf, IsNumber
  <2> HIDE DEF c
  <2> QED BY <1>2, <1>3, <1>5, <2>1
<1> QED BY <1>6, <1>7 DEF t

(* What was written in an attribute is what is read from it.                *)
LEMMA ReadBack ==
  ASSUME NEW n \in Int
  PROVE  Atoi(Written(n)) = n
<1> DEFINE a == IF n < 0 THEN -n ELSE n
<1>1. a \in Nat
  OBVIOUS
<1> HIDE DEF a
<1>2. PICK f : IsDecimal(a, f) /\
        f = CHOOSE g : g = [k \in 0 .. a |-> IF k < 10 THEN <<k>> ELSE Append(g[k \div 10], k % 10)]
  <2>1. \E f : IsDecimal(a, f)
    BY <1>1, DecimalExists
  <2> QED BY <2>1 DEF IsDecimal
<1>3. Reads(f[a], a)
  BY <1>1, <1>2, DecimalReads
<1>4. Written(n) = (IF n < 0 THEN <<Minus>> ELSE <<>>) \o f[a]
  BY <1>2 DEF Written, a
<1>5. <<>> \o f[a] = f[a]
  BY <1>3 DEF Reads
<1>6. Atoi(f[a]) = a /\ Atoi(<<Minus>> \o f[a]) = -a
  BY <1>1, <1>3, AtoiReads
<1>7. CASE n < 0
  <2>1. Atoi(Written(n)) = -a
    BY <1>4, <1>6, <1>7
  <2> QED BY <2>1, <1>7 DEF a
<1>8. CASE ~(n < 0)
  <2>1. Atoi(Written(n)) = a
    BY <1>4, <1>5, <1>6, <1>8
  <2> QED BY <2>1, <1>8 DEF a
<1> QED BY <1>7, <1>8
-----------------------------------------------------------------------------
(* Coordinates are integers.                                                *)
LEMMA CoordinateType == Coordinate \subseteq Int
BY SMT DEF Coordinate

(* NodeToElement keeps the frame of the node: what atoi reads is what was   *)
(* written in the attributes (elements.go:37-55).                           *)
LEMMA NodeElement ==
  ASSUME NEW src, IsSource(src), NEW i \in Nodes(src)
  PROVE  /\ NodeToElement(src, i) = [type |-> MapTypeName(src.tag[i]), label |-> Label(src.texts[i]),
                                     frame |-> src.frame[i]]
         /\ src.frame[i] \in [1 .. 4 -> Int]
<1>1. src.frame[i] \in [1 .. 4 -> Coordinate]
  BY DEF IsSource
<1>2. \A k \in 1 .. 4 : src.frame[i][k] \in Int
  BY <1>1, CoordinateType
<1>3. \A k \in 1 .. 4 : Atoi(Written(src.frame[i][k])) = src.frame[i][k]
  BY <1>2, ReadBack
<1>4. src.frame[i] = [k \in 1 .. 4 |-> src.frame[i][k]] /\ src.frame[i] \in [1 .. 4 -> Int]
  BY <1>1, CoordinateType
<1>5. src.frame[i] = [k \in 1 .. 4 |-> Atoi(Written(src.frame[i][k]))]
  BY <1>3, <1>4, Zenon
<1> QED BY <1>4, <1>5, Zenon DEF NodeToElement

(* ParseSource lists exactly the nodes that are elements, in document order.*)
LEMMA ParseSourceLists ==
  ASSUME NEW src, IsSource(src)
  PROVE  \E c \in Seq(Nodes(src)) :
           /\ \A k \in 1 .. Len(c) : src.tag[c[k]] # "AppiumAUT"
           /\ \A j \in Nodes(src) : src.tag[j] # "AppiumAUT" => Has(c, j)
           /\ Ordered(c, DocumentOrder(src))
           /\ ParseSource(src) = [k \in 1 .. Len(c) |-> NodeToElement(src, c[k])]
<1>1. PICK c : c = Collect(src)
  OBVIOUS
<1>2. ListsBelow(src, 1, c)
  BY <1>1, CollectLists
<1>3. /\ c \in Seq(Nodes(src)) /\ Ordered(c, DocumentOrder(src))
      /\ \A k \in 1 .. Len(c) : src.tag[c[k]] # "AppiumAUT"
      /\ \A j \in Nodes(src) : src.tag[j] # "AppiumAUT" /\ 1 \in Ancestors(src, j) => Has(c, j)
  BY <1>2 DEF ListsBelow
<1>4. \A j \in Nodes(src) : src.tag[j] # "AppiumAUT" => Has(c, j)
  BY <1>3, AncestorsBelow
<1>5. DOMAIN c = 1 .. Len(c)
  BY <1>3
<1>6. ParseSource(src) = [k \in 1 .. Len(c) |-> NodeToElement(src, c[k])]
  BY <1>1, <1>5, Zenon DEF ParseSource
<1> QED BY <1>3, <1>4, <1>6

(* The nodes of order are those that may be shown, in document order.       *)
ShownInOrder(src, order) ==
  /\ order \in Seq(Nodes(src))
  /\ \A k \in 1 .. Len(order) : order[k] \in Shown(src)
  /\ \A j \in Shown(src) : Has(order, j)
  /\ Ordered(order, DocumentOrder(src))

Lines(src, order) ==
  [k \in 1 .. Len(order) |->
     [id |-> k, type |-> MapTypeName(src.tag[order[k]]), label |-> Label(src.texts[order[k]]),
      frame |-> src.frame[order[k]], center |-> Center(src.frame[order[k]])]]

(* FilterInteractive keeps exactly the nodes that may be shown, in document *)
(* order.                                                                   *)
LEMMA FilteredInOrder ==
  ASSUME NEW src, IsSource(src)
  PROVE  \E order : /\ ShownInOrder(src, order)
                    /\ FilterInteractive(ParseSource(src), types)
                       = [k \in 1 .. Len(order) |-> NodeToElement(src, order[k])]
<1>1. PICK c \in Seq(Nodes(src)) :
        /\ \A k \in 1 .. Len(c) : src.tag[c[k]] # "AppiumAUT"
        /\ \A j \in Nodes(src) : src.tag[j] # "AppiumAUT" => Has(c, j)
        /\ Ordered(c, DocumentOrder(src))
        /\ ParseSource(src) = [k \in 1 .. Len(c) |-> NodeToElement(src, c[k])]
  BY ParseSourceLists
<1>2. CASE types = {}
  <2>1. ShownInOrder(src, c)
    BY <1>1, <1>2 DEF ShownInOrder, Shown
  <2>2. FilterInteractive(ParseSource(src), types) = ParseSource(src)
    BY <1>2 DEF FilterInteractive
  <2> QED BY <1>1, <2>1, <2>2
<1>3. CASE types # {}
  <2>1. PICK els : els = ParseSource(src)
    OBVIOUS
  <2>2. els = [k \in 1 .. Len(c) |-> NodeToElement(src, c[k])] /\ Len(c) \in Nat
    BY <1>1, <2>1
  <2>3. DOMAIN els = 1 .. Len(c) /\ Len(els) = Len(c)
    BY <2>2
  <2>4. ASSUME NEW k \in 1 .. Len(c)
        PROVE  els[k] = NodeToElement(src, c[k]) /\ els[k].type = MapTypeName(src.tag[c[k]])
    <3>1. els[k] = NodeToElement(src, c[k]) /\ c[k] \in Nodes(src)
      BY <2>2, <1>1
    <3> QED BY <3>1, NodeElement
  <2>5. PICK S : S = {k \in DOMAIN els : els[k].type \in types}
    OBVIOUS
  <2>6. PICK kept : kept = Picked(S, Len(els))
    OBVIOUS
  <2>7. ListsTo(kept, S, Len(c))
    BY <2>2, <2>3, <2>6, PickedLists
  <2>8. /\ kept \in Seq(1 .. Len(c)) /\ Len(kept) \in Nat /\ DOMAIN kept = 1 .. Len(kept)
        /\ \A i \in 1 .. Len(kept) : kept[i] \in S /\ kept[i] \in 1 .. Len(c)
        /\ \A i, j \in 1 .. Len(kept) : i < j => kept[i] < kept[j]
        /\ \A k \in 1 .. Len(c) : k \in S => \E i \in 1 .. Len(kept) : kept[i] = k
    BY <2>7 DEF ListsTo
  <2>9. \A k \in 1 .. Len(c) : k \in S <=> MapTypeName(src.tag[c[k]]) \in types
    BY <2>3, <2>4, <2>5
  <2>10. PICK order : order = [i \in 1 .. Len(kept) |-> c[kept[i]]]
    OBVIOUS
  <2>11. /\ order \in Seq(Nodes(src)) /\ Len(order) = Len(kept)
         /\ \A i \in 1 .. Len(kept) : order[i] = c[kept[i]]
    BY <2>8, <2>10, <1>1
  <2>12. \A i \in 1 .. Len(order) : order[i] \in Shown(src)
    <3> SUFFICES ASSUME NEW i \in 1 .. Len(order) PROVE order[i] \in Shown(src)
      OBVIOUS
    <3>1. order[i] = c[kept[i]] /\ kept[i] \in S /\ kept[i] \in 1 .. Len(c)
      BY <2>8, <2>11
    <3>2. c[kept[i]] \in Nodes(src)
      BY <3>1, <1>1
    <3> QED BY <3>1, <3>2, <2>9, <1>1 DEF Shown
  <2>13. ASSUME NEW j \in Shown(src) PROVE Has(order, j)
    <3>1. j \in Nodes(src) /\ src.tag[j] # "AppiumAUT" /\ MapTypeName(src.tag[j]) \in types
      BY <1>3 DEF Shown
    <3>2. PICK k \in 1 .. Len(c) : c[k] = j
      BY <3>1, <1>1 DEF Has
    <3>3. PICK i \in 1 .. Len(kept) : kept[i] = k
      BY <3>1, <3>2, <2>8, <2>9
    <3>4. i \in 1 .. Len(order) /\ order[i] = j
      BY <3>2, <3>3, <2>11
    <3> QED BY <3>4 DEF Has
  <2>14. ASSUME NEW i \in 1 .. Len(order), NEW j \in 1 .. Len(order), i < j
         PROVE  <<order[i], order[j]>> \in DocumentOrder(src)
    <3>1. /\ order[i] = c[kept[i]] /\ kept[i] \in 1 .. Len(c)
          /\ order[j] = c[kept[j]] /\ kept[j] \in 1 .. Len(c) /\ kept[i] < kept[j]
      BY <2>8, <2>11, <2>14
    <3> QED BY <3>1, <1>1 DEF Ordered
  <2>15. ShownInOrder(src, order)
    BY <2>11, <2>12, <2>13, <2>14 DEF ShownInOrder, Ordered
  <2>16. FilterInteractive(els, types) = [i \in 1 .. Len(kept) |-> els[kept[i]]]
    BY <2>5, <2>6, <2>8, <1>3, Zenon DEF FilterInteractive
  <2>17. \A i \in 1 .. Len(kept) : els[kept[i]] = NodeToElement(src, order[i])
    BY <2>4, <2>8, <2>11
  <2>18. FilterInteractive(els, types) = [i \in 1 .. Len(order) |-> NodeToElement(src, order[i])]
    BY <2>16, <2>17, <2>11
  <2> QED BY <2>1, <2>15, <2>18
<1> QED BY <1>2, <1>3

(* The list of a screen, line by line.                                      *)
LEMMA InteractiveInOrder ==
  ASSUME NEW src \in Sources \cup Pages
  PROVE  \E order : ShownInOrder(src, order) /\ Interactive(src) = Lines(src, order)
<1>1. IsSource(src) /\ src # None
  BY SourcesAssumption
<1>2. PICK order : /\ ShownInOrder(src, order)
                   /\ FilterInteractive(ParseSource(src), types)
                      = [k \in 1 .. Len(order) |-> NodeToElement(src, order[k])]
  BY <1>1, FilteredInOrder
<1>3. PICK els : els = FilterInteractive(ParseSource(src), types)
  OBVIOUS
<1>4. DOMAIN els = 1 .. Len(order) /\ \A k \in 1 .. Len(order) : els[k] = NodeToElement(src, order[k])
  BY <1>2, <1>3
<1>5. ASSUME NEW k \in 1 .. Len(order)
      PROVE  [id |-> k, type |-> els[k].type, label |-> els[k].label,
              frame |-> els[k].frame, center |-> Center(els[k].frame)] = Lines(src, order)[k]
  <2>1. order[k] \in Nodes(src)
    BY <1>2 DEF ShownInOrder
  <2>2. /\ els[k].type = MapTypeName(src.tag[order[k]])
        /\ els[k].label = Label(src.texts[order[k]]) /\ els[k].frame = src.frame[order[k]]
    BY <2>1, <1>1, <1>4, NodeElement
  <2>3. Lines(src, order)[k]
        = [id |-> k, type |-> MapTypeName(src.tag[order[k]]), label |-> Label(src.texts[order[k]]),
           frame |-> src.frame[order[k]], center |-> Center(src.frame[order[k]])]
    BY DEF Lines
  <2> QED BY <2>2, <2>3, Zenon
<1>6. Numbered(els) = Lines(src, order)
  <2>1. Numbered(els) = [k \in 1 .. Len(order) |-> Lines(src, order)[k]]
    BY <1>4, <1>5, Zenon DEF Numbered
  <2>2. Lines(src, order) = [k \in 1 .. Len(order) |-> Lines(src, order)[k]]
    BY DEF Lines
  <2> QED BY <2>1, <2>2
<1>7. Interactive(src) = Numbered(els)
  BY <1>1, <1>3 DEF Interactive
<1> QED BY <1>2, <1>6, <1>7

(* Document order is strict, so a list in it names no node twice.           *)
LEMMA ShownIsPermutation ==
  ASSUME NEW src, IsSource(src), NEW order, ShownInOrder(src, order)
  PROVE  order \in SetToAllKPermutations(Shown(src)) /\ Len(order) = Cardinality(Shown(src))
<1> DEFINE n == Len(order)
           S == Shown(src)
<1>1. /\ order \in Seq(Nodes(src)) /\ n \in Nat
      /\ \A k \in 1 .. n : order[k] \in S /\ order[k] \in Nodes(src)
      /\ \A j \in S : \E k \in 1 .. n : order[k] = j
  BY DEF ShownInOrder, Has
<1>2. order \in [1 .. n -> S]
  BY <1>1
<1>3. ASSUME NEW i \in 1 .. n, NEW j \in 1 .. n, i < j PROVE order[i] # order[j]
  <2>1. <<order[i], order[j]>> \in DocumentOrder(src)
    BY <1>3 DEF ShownInOrder, Ordered
  <2>2. Before(src, order[i], order[j]) /\ order[j] \in Nodes(src)
    BY <2>1 DEF DocumentOrder
  <2>3. ~Before(src, order[j], order[j])
    BY <2>2, BeforeIsStrict
  <2> QED BY <2>2, <2>3
<1> HIDE DEF n, S
<1>4. \A i, j \in 1 .. n : i # j => order[i] # order[j]
  BY <1>1, <1>3
<1>5. order \in Bijection(1 .. n, S)
  BY <1>1, <1>2, <1>4 DEF Bijection, Injection, Surjection, IsInjective
<1>6. Cardinality(S) = n
  BY <1>1, <1>5, FS_CountingElements DEF ExistsBijection
<1>7. order \in SetToSeqs(S)
  BY <1>2, <1>4, <1>6 DEF SetToSeqs
<1>8. S \in SUBSET S
  OBVIOUS
<1> QED BY <1>6, <1>7, <1>8 DEF SetToAllKPermutations, n, S

(* The centre of a frame that is not empty lies in the frame.               *)
LEMMA CenterInside ==
  ASSUME NEW f \in [1 .. 4 -> Int], f[3] > 0, f[4] > 0
  PROVE  Center(f) \in Rect(f[1], f[2], f[3], f[4])
<1>1. ASSUME NEW n \in Int, n > 0 PROVE Half(n) \in 0 .. n - 1
  <2>1. n \in Nat /\ Half(n) = n \div 2
    BY <1>1 DEF Half
  <2>2. n \div 2 \in 0 .. n - 1
    BY <1>1, <2>1
  <2> QED BY <2>1, <2>2
<1>2. f[1] \in Int /\ f[2] \in Int /\ f[3] \in Int /\ f[4] \in Int
  OBVIOUS
<1>3. f[1] + Half(f[3]) \in f[1] .. f[1] + f[3] - 1 /\ f[2] + Half(f[4]) \in f[2] .. f[2] + f[4] - 1
  BY <1>1, <1>2
<1> QED BY <1>3 DEF Center, Rect
-----------------------------------------------------------------------------
(* A loaded list has items of the file and of the defaults, or empty ones.  *)
LEMMA LoadType ==
  ASSUME NEW f \in Files, NEW s \in Lists
  PROVE  ToSet(LoadFrom(f)[s]) \subseteq ValuesOf[s] \cup {""}
<1>1. s \in Settings /\ Default[s] \in Seq(ValuesOf[s])
  BY DefaultAssumption
<1>2. ToSet(Default[s]) \subseteq ValuesOf[s]
  BY <1>1 DEF ToSet
<1>3. CASE LoadFrom(f)[s] = Default[s]
  BY <1>2, <1>3
<1>4. CASE LoadFrom(f)[s] # Default[s]
  <2>1. f.is = "object" /\ LoadFrom(f)[s] = Unmarshal(f.entry[s], s)
    BY <1>1, <1>4 DEF LoadFrom
  <2>2. f.entry[s] \in Entry(s)
    BY <1>1, <2>1 DEF Files
  <2>3. CASE f.entry[s].is = "list"
    <3>1. PICK items : items = f.entry[s].items
      OBVIOUS
    <3>2. items \in BoundedSeq(ValuesOf[s] \cup {NoValue}, MaxItems)
      BY <2>2, <2>3, <3>1 DEF Entry
    <3>3. PICK m \in 0 .. MaxItems : items \in [1 .. m -> ValuesOf[s] \cup {NoValue}]
      BY <3>2 DEF BoundedSeq, SeqOf
    <3>4. LoadFrom(f)[s] = Overwrite(Default[s], items)
      BY <2>1, <2>3, <3>1 DEF Unmarshal
    <3>5. ASSUME NEW i \in DOMAIN items
          PROVE  Overwrite(Default[s], items)[i] \in ValuesOf[s] \cup {""}
      <4>1. Overwrite(Default[s], items)[i]
              = IF items[i] # NoValue THEN items[i]
                ELSE IF i \in DOMAIN Default[s] THEN Default[s][i] ELSE ""
        BY <3>5 DEF Overwrite
      <4>2. items[i] \in ValuesOf[s] \cup {NoValue}
        BY <3>3, <3>5
      <4>3. ASSUME i \in DOMAIN Default[s] PROVE Default[s][i] \in ValuesOf[s]
        BY <1>1, <4>3
      <4> QED BY <4>1, <4>2, <4>3
    <3>6. DOMAIN Overwrite(Default[s], items) = DOMAIN items
      BY DEF Overwrite
    <3> QED BY <3>4, <3>5, <3>6 DEF ToSet
  <2>4. CASE f.entry[s].is # "list"
    <3>1. f.entry[s].is # "value"
      BY <2>2 DEF Entry
    <3>2. LoadFrom(f)[s] = <<>>
      BY <1>4, <2>1, <2>4, <3>1 DEF Unmarshal
    <3> QED BY <3>2 DEF ToSet
  <2> QED BY <2>3, <2>4
<1> QED BY <1>3, <1>4

Edges(x, y, w, h) ==
  UNION {Rect(x, y + t, w, 1) \cup Rect(x, y + h - 1 - t, w, 1)
         \cup Rect(x + t, y, 1, h) \cup Rect(x + w - 1 - t, y, 1, h) : t \in 0 .. 1}

OnAnEdge(a, b, x, y, w, h) ==
  \E t \in 0 .. 1 :
    \/ x <= a /\ a < x + w /\ (b = y + t \/ b = y + h - 1 - t)
    \/ y <= b /\ b < y + h /\ (a = x + t \/ a = x + w - 1 - t)

InTheBorder(a, b, x, y, w, h) ==
  /\ x <= a /\ a <= x + w - 1 /\ y <= b /\ b <= y + h - 1
  /\ ~(x + 2 <= a /\ a <= x + w - 3 /\ y + 2 <= b /\ b <= y + h - 3)

(* A pixel is drawn when it lies in one of the four edges of a round.       *)
LEMMA DrawnPixel ==
  ASSUME NEW size \in Nat \X Nat, NEW f \in [1 .. 4 -> Int], NEW a \in Int, NEW b \in Int
  PROVE  <<a, b>> \in DrawRect(size, f, 2) <=>
           <<a, b>> \in Image(size) /\ OnAnEdge(a, b, f[1], f[2], f[3], f[4])
<1>1. PICK x \in Int, y \in Int, w \in Int, h \in Int : x = f[1] /\ y = f[2] /\ w = f[3] /\ h = f[4]
  OBVIOUS
<1> DEFINE Round(t) == Rect(x, y + t, w, 1) \cup Rect(x, y + h - 1 - t, w, 1)
                       \cup Rect(x + t, y, 1, h) \cup Rect(x + w - 1 - t, y, 1, h)
<1>2. DrawRect(size, f, 2) = Image(size) \cap UNION {Round(t) : t \in 0 .. 1}
  <2>1. DrawRect(size, f, 2) = Image(size) \cap Edges(f[1], f[2], f[3], f[4])
    BY DEF DrawRect, Edges
  <2>2. DrawRect(size, f, 2) = Image(size) \cap Edges(x, y, w, h)
    BY <1>1, <2>1
  <2> QED BY <2>2 DEF Edges
<1>3. ASSUME NEW t \in 0 .. 1
      PROVE  <<a, b>> \in Round(t) <=>
               \/ x <= a /\ a < x + w /\ (b = y + t \/ b = y + h - 1 - t)
               \/ y <= b /\ b < y + h /\ (a = x + t \/ a = x + w - 1 - t)
  <2>1. <<a, b>> \in Rect(x, y + t, w, 1) <=> x <= a /\ a < x + w /\ b = y + t
    BY DEF Rect
  <2>2. <<a, b>> \in Rect(x, y + h - 1 - t, w, 1) <=> x <= a /\ a < x + w /\ b = y + h - 1 - t
    BY DEF Rect
  <2>3. <<a, b>> \in Rect(x + t, y, 1, h) <=> y <= b /\ b < y + h /\ a = x + t
    BY DEF Rect
  <2>4. <<a, b>> \in Rect(x + w - 1 - t, y, 1, h) <=> y <= b /\ b < y + h /\ a = x + w - 1 - t
    BY DEF Rect
  <2> QED BY <2>1, <2>2, <2>3, <2>4
<1> HIDE DEF Round
<1>4. <<a, b>> \in UNION {Round(t) : t \in 0 .. 1} <=> \E t \in 0 .. 1 : <<a, b>> \in Round(t)
  OBVIOUS
<1>5. <<a, b>> \in UNION {Round(t) : t \in 0 .. 1} <=> OnAnEdge(a, b, x, y, w, h)
  BY <1>3, <1>4 DEF OnAnEdge
<1> QED BY <1>1, <1>2, <1>5

(* A pixel of an image is a pair of integers.                               *)
LEMMA ImagePixel ==
  ASSUME NEW size \in Nat \X Nat, NEW p \in Image(size)
  PROVE  \E a, b \in Int : p = <<a, b>>
<1>1. size[1] \in Nat /\ size[2] \in Nat
  OBVIOUS
<1>2. p = <<p[1], p[2]>> /\ p[1] \in Int /\ p[2] \in Int
  BY <1>1 DEF Image
<1> QED BY <1>2

(* The pixels of two rounds of edges are those of a border of two pixels.   *)
LEMMA BorderPixel ==
  ASSUME NEW a \in Int, NEW b \in Int, NEW x \in Int, NEW y \in Int, NEW w \in Int, NEW h \in Int,
         w >= 2, h >= 2
  PROVE  OnAnEdge(a, b, x, y, w, h) <=> InTheBorder(a, b, x, y, w, h)
BY DEF OnAnEdge, InTheBorder

(* The pixels of a box are the border of two pixels inside its frame, for   *)
(* every frame at least two pixels wide and high.                           *)
LEMMA BorderOfABox ==
  ASSUME NEW size \in Nat \X Nat, NEW f \in [1 .. 4 -> Int], f[3] >= 2, f[4] >= 2
  PROVE  DrawRect(size, f, 2)
         = Image(size) \cap (Rect(f[1], f[2], f[3], f[4])
                             \ Rect(f[1] + 2, f[2] + 2, f[3] - 4, f[4] - 4))
<1>1. PICK x \in Int, y \in Int, w \in Int, h \in Int :
        x = f[1] /\ y = f[2] /\ w = f[3] /\ h = f[4] /\ w >= 2 /\ h >= 2
  OBVIOUS
<1> DEFINE box == DrawRect(size, f, 2)
           border == Rect(x, y, w, h) \ Rect(x + 2, y + 2, w - 4, h - 4)
<1>2. ASSUME NEW p \in Image(size) PROVE p \in box <=> p \in border
  <2>1. PICK a \in Int, b \in Int : p = <<a, b>>
    BY ImagePixel
  <2>2. p \in box <=> OnAnEdge(a, b, x, y, w, h)
    BY <1>1, <2>1, DrawnPixel
  <2>3. p \in border <=> InTheBorder(a, b, x, y, w, h)
    BY <2>1 DEF Rect, InTheBorder
  <2> HIDE DEF box, border
  <2> QED BY <1>1, <2>2, <2>3, BorderPixel
<1>3. box \subseteq Image(size)
  BY DEF DrawRect
<1> HIDE DEF box, border
<1>4. box = Image(size) \cap border
  BY <1>2, <1>3
<1> QED BY <1>1, <1>4 DEF box, border

(* Whatever the frame, nothing is drawn farther than two pixels from it.    *)
LEMMA BoxIsNear ==
  ASSUME NEW size \in Nat \X Nat, NEW f \in [1 .. 4 -> Int]
  PROVE  DrawRect(size, f, 2) \subseteq Near(f[1], f[3]) \X Near(f[2], f[4])
<1>1. f[1] \in Int /\ f[2] \in Int /\ f[3] \in Int /\ f[4] \in Int
  OBVIOUS
<1> SUFFICES ASSUME NEW p \in DrawRect(size, f, 2)
             PROVE  p \in Near(f[1], f[3]) \X Near(f[2], f[4])
  OBVIOUS
<1>2. p \in Image(size)
  BY DEF DrawRect
<1>3. PICK a \in Int, b \in Int : p = <<a, b>>
  BY <1>2, ImagePixel
<1>4. PICK t \in 0 .. 1 :
        \/ f[1] <= a /\ a < f[1] + f[3] /\ (b = f[2] + t \/ b = f[2] + f[4] - 1 - t)
        \/ f[2] <= b /\ b < f[2] + f[4] /\ (a = f[1] + t \/ a = f[1] + f[3] - 1 - t)
  <2>1. OnAnEdge(a, b, f[1], f[2], f[3], f[4])
    BY <1>3, DrawnPixel
  <2> QED BY <2>1 DEF OnAnEdge
<1>5. ASSUME NEW x \in Int, NEW w \in Int, NEW c \in Int,
             (x <= c /\ c < x + w) \/ c = x + t \/ c = x + w - 1 - t
      PROVE  c \in Near(x, w)
  BY <1>5 DEF Near
<1>6. a \in Near(f[1], f[3]) /\ b \in Near(f[2], f[4])
  BY <1>1, <1>4, <1>5
<1> QED BY <1>3, <1>6
-----------------------------------------------------------------------------
(* What the position of the handler says of the rest of the state: nothing  *)
(* is reported before the end, the elements are only fetched for a look in  *)
(* full mode with a picture, and only check.element has a verdict.          *)
Phases ==
  /\ pc # "done" => elements = <<>> /\ drawn = <<>> /\ file = "none"
  /\ pc \in {"decode", "fetch", "annotate", "savePlain"} => request.kind = "look"
  /\ pc \in {"fetch", "annotate", "savePlain"} => picture = "png"
  /\ pc = "saveShot" => request.kind # "look"
  /\ pc = "tree" => request.kind = "element"
  /\ pc \in {"fetch", "annotate"} => mode = "full"
  /\ pc = "annotate" => Wants("annotate") /\ Found # <<>>
  /\ pc \in {"start", "tree"} \/ request.kind # "element" => verdict = "none"
  /\ request.kind = "look" /\ mode # "full" => fetched = None

LookInv == LookTypeOK /\ Phases /\ PictureMatchesList /\ VerdictMatchesTree

(* LookInv holds at the start.                                              *)
LEMMA LookInit == Init => LookInv
<1> SUFFICES ASSUME Init PROVE LookInv
  OBVIOUS
<1> USE DEF Init
<1>1. types \subseteq ValuesOf["interactive_types"] \cup {""}
  <2>1. PICK f \in Files : types = ToSet(LoadFrom(f)["interactive_types"])
    BY DEF TypeLists
  <2> QED BY <2>1, LoadType, TypesAssumption
<1>2. changes \in 0 .. MaxChanges
  BY ChangesAssumption
<1>3. LookTypeOK
  BY <1>1, <1>2 DEF LookTypeOK
<1>4. Phases
  BY DEF Phases
<1>5. PictureMatchesList
  BY DEF PictureMatchesList
<1>6. VerdictMatchesTree
  BY DEF VerdictMatchesTree
<1> QED BY <1>3, <1>4, <1>5, <1>6 DEF LookInv

(* Found and Wants depend on nothing else.                                  *)
LEMMA FoundKept ==
  /\ UNCHANGED <<types, fetched>> => Found' = Found
  /\ UNCHANGED request => \A flag \in {"annotate", "ui"} : Wants(flag)' = Wants(flag)
<1>1. UNCHANGED <<types, fetched>> => Found' = Found
  BY DEF Found, Interactive
<1>2. UNCHANGED request => \A flag \in {"annotate", "ui"} : Wants(flag)' = Wants(flag)
  BY DEF Wants
<1> QED BY <1>1, <1>2

(* The elements of a parsed screen are its nodes.                           *)
LEMMA ElementsAreNodes ==
  ASSUME NEW src \in Sources \cup Pages, NEW t
  PROVE  (\E el \in ToSet(ParseSource(src)) : <<t, el.label>> \in Occurs \/ <<t, el.type>> \in Occurs)
         <=> \E i \in Nodes(src) :
               /\ src.tag[i] # "AppiumAUT"
               /\ <<t, Label(src.texts[i])>> \in Occurs \/ <<t, MapTypeName(src.tag[i])>> \in Occurs
<1>1. IsSource(src)
  BY SourcesAssumption
<1>2. PICK c \in Seq(Nodes(src)) :
        /\ \A k \in 1 .. Len(c) : src.tag[c[k]] # "AppiumAUT"
        /\ \A j \in Nodes(src) : src.tag[j] # "AppiumAUT" => Has(c, j)
        /\ ParseSource(src) = [k \in 1 .. Len(c) |-> NodeToElement(src, c[k])]
  BY <1>1, ParseSourceLists
<1>3. ToSet(ParseSource(src)) = {NodeToElement(src, c[k]) : k \in 1 .. Len(c)}
  BY <1>2 DEF ToSet
<1>4. \A k \in 1 .. Len(c) : c[k] \in Nodes(src)
  BY <1>2
<1>5. ASSUME NEW i \in Nodes(src)
      PROVE  NodeToElement(src, i).label = Label(src.texts[i])
             /\ NodeToElement(src, i).type = MapTypeName(src.tag[i])
  BY <1>1, NodeElement
<1>6. ASSUME NEW el \in ToSet(ParseSource(src)),
             <<t, el.label>> \in Occurs \/ <<t, el.type>> \in Occurs
      PROVE  \E i \in Nodes(src) :
               /\ src.tag[i] # "AppiumAUT"
               /\ <<t, Label(src.texts[i])>> \in Occurs \/ <<t, MapTypeName(src.tag[i])>> \in Occurs
  <2>1. PICK k \in 1 .. Len(c) : el = NodeToElement(src, c[k])
    BY <1>3
  <2>2. c[k] \in Nodes(src) /\ src.tag[c[k]] # "AppiumAUT"
    BY <1>2, <1>4
  <2>3. el.label = Label(src.texts[c[k]]) /\ el.type = MapTypeName(src.tag[c[k]])
    BY <2>1, <2>2, <1>5
  <2> QED BY <2>2, <2>3, <1>6
<1>7. ASSUME NEW i \in Nodes(src), src.tag[i] # "AppiumAUT",
             <<t, Label(src.texts[i])>> \in Occurs \/ <<t, MapTypeName(src.tag[i])>> \in Occurs
      PROVE  \E el \in ToSet(ParseSource(src)) : <<t, el.label>> \in Occurs \/ <<t, el.type>> \in Occurs
  <2>1. PICK k \in 1 .. Len(c) : c[k] = i
    BY <1>2, <1>7 DEF Has
  <2>2. NodeToElement(src, i) \in ToSet(ParseSource(src))
    BY <2>1, <1>3
  <2> QED BY <2>2, <1>5, <1>7
<1> QED BY <1>6, <1>7

(* LookInv is inductive: one step for each action, one conjunct after the   *)
(* other.                                                                   *)
LEMMA LookStep == LookInv /\ [Next]_vars => LookInv'
<1> SUFFICES ASSUME LookInv, [Next]_vars PROVE LookInv'
  OBVIOUS
<1> USE DEF LookInv, given, phone
<1>1. CASE Change
  <2>1. LookTypeOK'
    <3>1. changes \in 0 .. MaxChanges /\ changes < MaxChanges /\ changes' = changes + 1
      BY <1>1 DEF Change, LookTypeOK
    <3>2. changes' \in 0 .. MaxChanges
      BY <3>1, ChangesAssumption
    <3>3. Found' = Found /\ screen' \in Sources
      BY <1>1, FoundKept DEF Change
    <3>4. /\ mode' = mode /\ types' = types /\ request' = request /\ pc' = pc
          /\ picture' = picture /\ fetched' = fetched /\ drawn' = drawn /\ file' = file
          /\ elements' = elements /\ verdict' = verdict
      BY <1>1 DEF Change
    <3>5. LookTypeOK
      OBVIOUS
    <3> HIDE DEF LookInv, given, phone
    <3>6. screen' \in Sources /\ mode' \in {"full", "degraded", "unset"}
      BY <3>3, <3>4, <3>5 DEF LookTypeOK
    <3>7. types' \subseteq ValuesOf["interactive_types"] \cup {""} /\ request' \in Requests
      BY <3>4, <3>5 DEF LookTypeOK
    <3>8. pc' \in {"start", "shoot", "saveShot", "decode", "fetch", "annotate", "savePlain",
                   "tree", "done", "error"}
      BY <3>4, <3>5 DEF LookTypeOK
    <3>9. picture' \in {"none", "png", "raw"} /\ fetched' \in Sources \cup Pages \cup {None}
      BY <3>4, <3>5 DEF LookTypeOK
    <3>10. file' \in {"none", "plain", "annotated"} /\ verdict' \in {"none", "pass", "fail"}
      BY <3>4, <3>5 DEF LookTypeOK
    <3>11. elements' \in {<<>>, Found}' /\ drawn' \in {<<>>, Found}'
      BY <3>3, <3>4, <3>5 DEF LookTypeOK
    <3> QED BY <3>2, <3>6, <3>7, <3>8, <3>9, <3>10, <3>11 DEF LookTypeOK
  <2>2. Phases'
    BY <1>1, FoundKept DEF Change, Phases
  <2>3. PictureMatchesList'
    BY <1>1, FoundKept DEF Change, PictureMatchesList
  <2>4. VerdictMatchesTree'
    BY <1>1 DEF Change, VerdictMatchesTree
  <2> QED BY <2>1, <2>2, <2>3, <2>4
<1>2. CASE Start
  <2>1. LookTypeOK'
    BY <1>2, FoundKept DEF Start, LookTypeOK
  <2>2. Phases'
    BY <1>2, FoundKept DEF Start, Phases, LookTypeOK, Requests
  <2>3. PictureMatchesList'
    BY <1>2, FoundKept DEF Start, PictureMatchesList
  <2>4. VerdictMatchesTree'
    BY <1>2 DEF Start, VerdictMatchesTree
  <2> QED BY <2>1, <2>2, <2>3, <2>4
<1>3. CASE Shoot
  <2>1. LookTypeOK'
    BY <1>3, FoundKept DEF Shoot, LookTypeOK
  <2>2. Phases'
    BY <1>3, FoundKept DEF Shoot, Phases
  <2>3. PictureMatchesList'
    BY <1>3, FoundKept DEF Shoot, PictureMatchesList, Phases
  <2>4. VerdictMatchesTree'
    BY <1>3 DEF Shoot, VerdictMatchesTree
  <2> QED BY <2>1, <2>2, <2>3, <2>4
<1>4. CASE SaveShot
  <2>1. LookTypeOK'
    BY <1>4, FoundKept DEF SaveShot, LookTypeOK
  <2>2. Phases'
    BY <1>4, FoundKept DEF SaveShot, Phases
  <2>3. PictureMatchesList'
    BY <1>4, FoundKept DEF SaveShot, PictureMatchesList, Phases
  <2>4. VerdictMatchesTree'
    BY <1>4 DEF SaveShot, VerdictMatchesTree
  <2> QED BY <2>1, <2>2, <2>3, <2>4
<1>5. CASE Decode
  <2>1. LookTypeOK'
    BY <1>5, FoundKept DEF Decode, LookTypeOK
  <2>2. Phases'
    BY <1>5, FoundKept DEF Decode, Phases
  <2>3. PictureMatchesList'
    BY <1>5, FoundKept DEF Decode, PictureMatchesList, Phases
  <2>4. VerdictMatchesTree'
    BY <1>5 DEF Decode, VerdictMatchesTree
  <2> QED BY <2>1, <2>2, <2>3, <2>4
<1>6. CASE Fetch
  <2>1. LookTypeOK'
    <3>1. elements' = <<>> /\ drawn' = <<>>
      BY <1>6 DEF Fetch, Phases
    <3>2. fetched' \in Sources \cup Pages \cup {None}
      BY <1>6 DEF Fetch, LookTypeOK, Trees
    <3>3. pc' \in {"annotate", "savePlain"}
      BY <1>6 DEF Fetch
    <3> QED BY <1>6, <3>1, <3>2, <3>3 DEF Fetch, LookTypeOK
  <2>2. Phases'
    <3>1. pc' = "annotate" => Wants("annotate")' /\ Found' # <<>>
      <4>1. Interactive(fetched') = Found'
        BY <1>6 DEF Fetch, Found, Interactive
      <4> QED BY <1>6, <4>1, FoundKept DEF Fetch
    <3>2. pc' \in {"annotate", "savePlain"} /\ pc = "fetch"
      BY <1>6 DEF Fetch
    <3> QED BY <1>6, <3>1, <3>2 DEF Fetch, Phases
  <2>3. PictureMatchesList'
    <3>1. elements' = <<>> /\ file' = "none" /\ mode' = "full"
      BY <1>6 DEF Fetch, Phases
    <3> QED BY <3>1 DEF PictureMatchesList
  <2>4. VerdictMatchesTree'
    <3>1. verdict' = "none"
      BY <1>6 DEF Fetch, Phases
    <3> QED BY <3>1 DEF VerdictMatchesTree
  <2> QED BY <2>1, <2>2, <2>3, <2>4
<1>7. CASE Annotate
  <2>1. LookTypeOK'
    BY <1>7, FoundKept DEF Annotate, LookTypeOK
  <2>2. Phases'
    BY <1>7, FoundKept DEF Annotate, Phases
  <2>3. PictureMatchesList'
    BY <1>7, FoundKept DEF Annotate, PictureMatchesList, Phases
  <2>4. VerdictMatchesTree'
    BY <1>7 DEF Annotate, VerdictMatchesTree
  <2> QED BY <2>1, <2>2, <2>3, <2>4
<1>8. CASE SavePlain
  <2>1. LookTypeOK'
    BY <1>8, FoundKept DEF SavePlain, LookTypeOK
  <2>2. Phases'
    BY <1>8, FoundKept DEF SavePlain, Phases
  <2>3. PictureMatchesList'
    <3>1. mode # "full" => Found = <<>>
      BY <1>8 DEF SavePlain, Phases, Found, Interactive
    <3> QED BY <1>8, <3>1, FoundKept DEF SavePlain, PictureMatchesList, Phases
  <2>4. VerdictMatchesTree'
    BY <1>8 DEF SavePlain, VerdictMatchesTree
  <2> QED BY <2>1, <2>2, <2>3, <2>4
<1>9. CASE Search
  <2>1. elements' = <<>> /\ drawn' = <<>> /\ file' = "none" /\ request'.kind = "element"
    BY <1>9 DEF Search, Phases
  <2>2. \/ /\ pc' = "shoot" /\ fetched' \in Sources \cup Pages
           /\ verdict' = Verdict(fetched')
        \/ pc' = "error" /\ UNCHANGED <<fetched, verdict>>
    BY <1>9 DEF Search, Trees, LookTypeOK
  <2>3. LookTypeOK'
    <3>1. fetched' \in Sources \cup Pages \cup {None} /\ verdict' \in {"none", "pass", "fail"}
          /\ pc' \in {"shoot", "error"}
      BY <2>2 DEF LookTypeOK, Verdict
    <3> QED BY <1>9, <2>1, <3>1 DEF Search, LookTypeOK
  <2>4. Phases'
    BY <1>9, <2>1, <2>2 DEF Search, Phases
  <2>5. PictureMatchesList'
    BY <2>1 DEF PictureMatchesList
  <2>6. VerdictMatchesTree'
    <3>1. CASE verdict' = "none"
      BY <3>1 DEF VerdictMatchesTree
    <3>2. CASE verdict' # "none"
      <4>1. PICK src \in Sources \cup Pages : src = fetched' /\ verdict' = Verdict(src)
        BY <1>9, <2>2, <3>2 DEF Search, Phases
      <4>2. src # None /\ request' = request
        BY <1>9, SourcesAssumption DEF Search
      <4>3. verdict' = "pass" <=>
              \E el \in ToSet(ParseSource(src)) :
                <<request.text, el.label>> \in Occurs \/ <<request.text, el.type>> \in Occurs
        BY <4>1 DEF Verdict, Carried
      <4>4. verdict' = "pass" <=>
              \E i \in Nodes(src) :
                /\ src.tag[i] # "AppiumAUT"
                /\ <<request.text, Label(src.texts[i])>> \in Occurs
                   \/ <<request.text, MapTypeName(src.tag[i])>> \in Occurs
        BY <4>3, ElementsAreNodes
      <4> QED BY <4>1, <4>2, <4>4 DEF VerdictMatchesTree
    <3> QED BY <3>1, <3>2
  <2> QED BY <2>3, <2>4, <2>5, <2>6
<1>10. CASE UNCHANGED vars
  <2>1. LookTypeOK'
    BY <1>10, FoundKept DEF vars, LookTypeOK
  <2>2. Phases'
    BY <1>10, FoundKept DEF vars, Phases
  <2>3. PictureMatchesList'
    BY <1>10, FoundKept DEF vars, PictureMatchesList
  <2>4. VerdictMatchesTree'
    BY <1>10 DEF vars, VerdictMatchesTree
  <2> QED BY <2>1, <2>2, <2>3, <2>4
<1> QED BY <1>1, <1>2, <1>3, <1>4, <1>5, <1>6, <1>7, <1>8, <1>9, <1>10 DEF Next

(* LookInv is an invariant.                                                 *)
LEMMA LookAlways == Spec => []LookInv
<1>1. Init => LookInv
  BY LookInit
<1>2. LookInv /\ [Next]_vars => LookInv'
  BY LookStep
<1> QED BY <1>1, <1>2, PTL DEF Spec

(* The types of the variables, and that what is listed or drawn is either   *)
(* nothing or all that was found in the fetched tree.                     *)
THEOREM LookTypes == Spec => []LookTypeOK
<1>1. LookInv => LookTypeOK
  BY DEF LookInv
<1> QED BY <1>1, LookAlways, PTL

(* The saved picture and the list of a look fit together, whatever failed in*)
(* between, and without WDA there is only a plain picture                   *)
(* (screen_capture.go:87-147), for every set of screens and every           *)
(* configuration.                                                           *)
THEOREM PictureAlwaysMatches == Spec => []PictureMatchesList
<1>1. LookInv => PictureMatchesList
  BY DEF LookInv
<1> QED BY <1>1, LookAlways, PTL

(* A verdict of check.element says whether the text occurs in the label or  *)
(* type of an element of the tree that was fetched and parsed, and there is *)
(* none without a tree (check.go:96-118), for every set of screens, pages   *)
(* and texts.                                                               *)
THEOREM VerdictFollowsTree == Spec => []VerdictMatchesTree
<1>1. LookInv => VerdictMatchesTree
  BY DEF LookInv
<1> QED BY <1>1, LookAlways, PTL

(* A list that is not empty is that of the tree that was fetched.         *)
LEMMA ListedInOrder ==
  ASSUME LookTypeOK, NEW list, list \in {<<>>, Found}, list # <<>>
  PROVE  \E order : /\ IsSource(fetched) /\ ShownInOrder(fetched, order)
                    /\ list = Lines(fetched, order)
<1>1. list = Interactive(fetched) /\ fetched # None
  BY DEF Found, Interactive
<1>2. fetched \in Sources \cup Pages
  BY <1>1 DEF LookTypeOK
<1> QED BY <1>1, <1>2, InteractiveInOrder, SourcesAssumption

(* A line of the list has the number, frame and centre of its node.         *)
LEMMA LineOf ==
  ASSUME NEW src, IsSource(src), NEW order, ShownInOrder(src, order), NEW k \in 1 .. Len(order)
  PROVE  /\ Lines(src, order)[k].id = k
         /\ Lines(src, order)[k].frame = src.frame[order[k]]
         /\ Lines(src, order)[k].center = Center(src.frame[order[k]])
         /\ src.frame[order[k]] \in [1 .. 4 -> Int]
<1>1. order[k] \in Nodes(src)
  BY DEF ShownInOrder
<1> QED BY <1>1, NodeElement DEF Lines

(* A list that is not empty names every node that may be shown exactly once,*)
(* in document order and numbered without a gap, with the node's own frame  *)
(* and a centre in it (collectElements, FilterInteractive and the loop of   *)
(* Look, screen_capture.go:135-147), for trees of any shape and size.       *)
THEOREM ListIsAlwaysTheTree == Spec => []ListIsTheTree
<1>1. LookTypeOK => ListIsTheTree
  <2> SUFFICES ASSUME LookTypeOK, Wants("annotate"), elements # <<>>
               PROVE  \E order \in SetToAllKPermutations(Shown(fetched)) :
                        /\ Len(order) = Cardinality(Shown(fetched))
                        /\ \A i, j \in DOMAIN order : i < j => Before(fetched, order[i], order[j])
                        /\ [k \in DOMAIN elements |-> <<elements[k].id, elements[k].frame>>]
                           = [k \in DOMAIN order |-> <<k, fetched.frame[order[k]]>>]
                        /\ \A k \in DOMAIN elements :
                             LET f == elements[k].frame IN
                             f[3] > 0 /\ f[4] > 0 =>
                               elements[k].center \in Rect(f[1], f[2], f[3], f[4])
    BY DEF ListIsTheTree
  <2>1. PICK order : /\ IsSource(fetched) /\ ShownInOrder(fetched, order)
                     /\ elements = Lines(fetched, order)
    BY ListedInOrder DEF LookTypeOK
  <2>2. order \in SetToAllKPermutations(Shown(fetched)) /\ Len(order) = Cardinality(Shown(fetched))
    BY <2>1, ShownIsPermutation
  <2>3. DOMAIN order = 1 .. Len(order) /\ DOMAIN elements = 1 .. Len(order)
    BY <2>1 DEF ShownInOrder, Lines
  <2>4. ASSUME NEW i \in DOMAIN order, NEW j \in DOMAIN order, i < j
        PROVE  Before(fetched, order[i], order[j])
    BY <2>1, <2>3, <2>4 DEF ShownInOrder, Ordered, DocumentOrder
  <2>5. ASSUME NEW k \in 1 .. Len(order)
        PROVE  /\ elements[k].id = k /\ elements[k].frame = fetched.frame[order[k]]
               /\ elements[k].center = Center(elements[k].frame)
               /\ elements[k].frame \in [1 .. 4 -> Int]
    BY <2>1, LineOf
  <2>6. [k \in DOMAIN elements |-> <<elements[k].id, elements[k].frame>>]
        = [k \in DOMAIN order |-> <<k, fetched.frame[order[k]]>>]
    BY <2>3, <2>5
  <2>7. ASSUME NEW k \in DOMAIN elements, elements[k].frame[3] > 0, elements[k].frame[4] > 0
        PROVE  elements[k].center \in Rect(elements[k].frame[1], elements[k].frame[2],
                                           elements[k].frame[3], elements[k].frame[4])
    <3>1. elements[k].center = Center(elements[k].frame) /\ elements[k].frame \in [1 .. 4 -> Int]
      BY <2>3, <2>5
    <3> QED BY <3>1, <2>7, CenterInside
  <2> QED BY <2>2, <2>4, <2>6, <2>7
<1> QED BY <1>1, LookTypes, PTL

(* The boxes of the annotated picture are the borders of the frames, for    *)
(* every frame and every size of the picture (drawRect and drawLabel,       *)
(* screen_capture.go:250-333).                                              *)
THEOREM BoxesAreAlwaysBorders == Spec => []BoxesAreBorders
<1>1. LookTypeOK => BoxesAreBorders
  <2> SUFFICES ASSUME LookTypeOK, NEW k \in DOMAIN drawn
               PROVE  LET x == drawn[k].frame[1] y == drawn[k].frame[2]
                          w == drawn[k].frame[3] h == drawn[k].frame[4]
                          box == DrawRect(Size, drawn[k].frame, 2)
                          l == LabelRect(drawn[k])
                      IN  /\ IF w >= 2 /\ h >= 2
                               THEN box = Image(Size) \cap (Rect(x, y, w, h) \ Rect(x + 2, y + 2, w - 4, h - 4))
                               ELSE box \subseteq Near(x, w) \X Near(y, h)
                          /\ <<x, y>> \in Image(Size) => <<l[1], l[2]>> \in FillRect(Size, l[1], l[2], l[3], l[4])
    BY DEF BoxesAreBorders
  <2>1. PICK order : /\ IsSource(fetched) /\ ShownInOrder(fetched, order)
                     /\ drawn = Lines(fetched, order)
    <3>1. drawn # <<>>
      OBVIOUS
    <3> QED BY <3>1, ListedInOrder DEF LookTypeOK
  <2>2. k \in 1 .. Len(order)
    BY <2>1 DEF Lines
  <2>3. PICK f : f = drawn[k].frame
    OBVIOUS
  <2>4. drawn[k].id \in Nat /\ f \in [1 .. 4 -> Int]
    <3>1. drawn[k].id = k /\ drawn[k].frame = fetched.frame[order[k]]
          /\ fetched.frame[order[k]] \in [1 .. 4 -> Int]
      BY <2>1, <2>2, LineOf
    <3>2. k \in Nat
      BY <2>1, <2>2 DEF ShownInOrder
    <3> QED BY <2>3, <3>1, <3>2
  <2>5. IF f[3] >= 2 /\ f[4] >= 2
          THEN DrawRect(Size, f, 2)
               = Image(Size) \cap (Rect(f[1], f[2], f[3], f[4])
                                   \ Rect(f[1] + 2, f[2] + 2, f[3] - 4, f[4] - 4))
          ELSE DrawRect(Size, f, 2) \subseteq Near(f[1], f[3]) \X Near(f[2], f[4])
    BY <2>4, SizeAssumption, BorderOfABox, BoxIsNear
  <2>6. PICK l : l = LabelRect(drawn[k])
    OBVIOUS
  <2>7. ASSUME <<f[1], f[2]>> \in Image(Size)
        PROVE  <<l[1], l[2]>> \in FillRect(Size, l[1], l[2], l[3], l[4])
    <3>1. PICK x \in Int, y \in Int : x = f[1] /\ y = f[2]
      BY <2>4
    <3>2. /\ l[1] = x /\ l[2] = (IF y - LabelHeight < 0 THEN y ELSE y - LabelHeight)
          /\ l[3] = LabelWidth(drawn[k].id) /\ l[4] = LabelHeight
      BY <2>3, <2>6, <3>1 DEF LabelRect
    <3>3. LabelWidth(drawn[k].id) \in {11, 18, 25} /\ LabelHeight = 13
      BY DEF LabelWidth, LabelHeight
    <3>4. PICK a \in Nat, b \in Nat : a = Size[1] /\ b = Size[2]
      BY SizeAssumption
    <3>5. x \in 0 .. a - 1 /\ y \in 0 .. b - 1
      BY <2>7, <3>1, <3>4 DEF Image
    <3>6. l[2] \in 0 .. b - 1 /\ l[1] \in 0 .. a - 1 /\ l[1] \in Int /\ l[2] \in Int
      BY <3>2, <3>3, <3>5
    <3>7. <<l[1], l[2]>> \in Image(Size)
      BY <3>4, <3>6 DEF Image
    <3>8. <<l[1], l[2]>> \in Rect(l[1], l[2], l[3], l[4])
      <4>1. l[1] \in l[1] .. l[1] + l[3] - 1 /\ l[2] \in l[2] .. l[2] + l[4] - 1
        BY <3>2, <3>3, <3>6
      <4> QED BY <4>1 DEF Rect
    <3> QED BY <3>7, <3>8 DEF FillRect
  <2> QED BY <2>3, <2>5, <2>6, <2>7
<1> QED BY <1>1, LookTypes, PTL
=============================================================================
