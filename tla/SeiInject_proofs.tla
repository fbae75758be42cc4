-------------------------- MODULE SeiInject_proofs --------------------------
(***************************************************************************)
(* Proofs about SeiInject for any number of detections and any room in the *)
(* socket, and about the codec for any UUID, any payload and whatever      *)
(* follows it.                                                             *)
(*                                                                         *)
(* The codec is made of functions defined by recursion over the places of  *)
(* a sequence. What they return is proved by induction, and the induction  *)
(* by the least element of a set of numbers: the places where the fact     *)
(* does not hold have a least one, or are none.                            *)
(***************************************************************************)
EXTENDS MCSeiInject, SequenceTheorems, WellFoundedInduction, TLAPS

-----------------------------------------------------------------------------
(* Induction, for sets of numbers                                            *)
Less == {ss \in Nat \X Nat : ss[1] < ss[2]}

LEMMA LeastNumber ==
  ASSUME NEW T, T \subseteq Nat, T # {}
  PROVE  \E x \in T : \A y \in T : x <= y
<1>1. IsWellFoundedOn(Less, Nat)
  BY NatLessThanWellFounded DEF Less, OpToRel
<1>2. PICK x \in T : \A y \in T : ~ (<<y, x>> \in Less)
  BY <1>1, WFMin
<1>3. ASSUME NEW y \in T PROVE x <= y
  <2>1. x \in Nat /\ y \in Nat /\ <<y, x>> \notin Less
    BY <1>2
  <2>2. ~(y < x)
    BY <2>1 DEF Less
  <2>3. QED
    BY <2>1, <2>2
<1>4. QED
  BY <1>3

LEMMA Upward ==
  ASSUME NEW n \in Nat, NEW T, 0 \in T, \A k \in 0..(n - 1) : k \in T => k + 1 \in T
  PROVE  \A k \in 0..n : k \in T
<1> DEFINE U == (0..n) \ T
<1> SUFFICES ASSUME U # {} PROVE FALSE
  OBVIOUS
<1>1. PICK x \in U : \A y \in U : x <= y
  <2>1. U \subseteq Nat
    OBVIOUS
  <2> HIDE DEF U
  <2>2. QED
    BY <2>1, LeastNumber
<1>2. x # 0 /\ x - 1 \in 0..(n - 1) /\ x - 1 \notin U
  BY <1>1
<1>3. QED
  BY <1>1, <1>2

LEMMA Downward ==
  ASSUME NEW n \in Nat, NEW T, n \in T, \A k \in 0..(n - 1) : k + 1 \in T => k \in T
  PROVE  \A k \in 0..n : k \in T
<1> DEFINE U == {d \in Nat : n - d \in T}
<1>1. 0 \in U
  OBVIOUS
<1>2. \A d \in 0..(n - 1) : d \in U => d + 1 \in U
  <2> SUFFICES ASSUME NEW d \in 0..(n - 1), n - d \in T PROVE n - (d + 1) \in T
    OBVIOUS
  <2>1. n - (d + 1) \in 0..(n - 1) /\ (n - (d + 1)) + 1 = n - d
    OBVIOUS
  <2>2. QED
    BY <2>1
<1>3. \A d \in 0..n : d \in U
  <2> HIDE DEF U
  <2>1. QED
    BY <1>1, <1>2, Upward
<1>4. ASSUME NEW k \in 0..n PROVE k \in T
  <2>1. n - k \in 0..n /\ n - (n - k) = k
    OBVIOUS
  <2>2. n - k \in U
    BY <1>3, <2>1
  <2>3. QED
    BY <2>1, <2>2
<1>5. QED
  BY <1>4
-----------------------------------------------------------------------------
(* The child's escaping                                                      *)
Begin == [out |-> <<>>, zeros |-> 0]
EmittedFrom(f, r, k) == IF k = 0 THEN Begin ELSE Emit(f[k - 1], r[k])

LEMMA EmittedUpTo ==
  ASSUME NEW r, NEW n \in Nat
  PROVE  \E f : f = [k \in 0..n |-> EmittedFrom(f, r, k)]
<1> DEFINE T == {m \in Nat : \E f : f = [k \in 0..m |-> EmittedFrom(f, r, k)]}
<1>1. 0 \in T
  <2> DEFINE f == [k \in 0..0 |-> Begin]
  <2>1. f = [k \in 0..0 |-> EmittedFrom(f, r, k)]
    BY DEF EmittedFrom
  <2>2. QED
    BY <2>1
<1>2. \A m \in 0..(n - 1) : m \in T => m + 1 \in T
  <2> SUFFICES ASSUME NEW m \in 0..(n - 1), NEW f,
                      f = [k \in 0..m |-> EmittedFrom(f, r, k)]
               PROVE  m + 1 \in T
    OBVIOUS
  <2> DEFINE g == [k \in 0..(m + 1) |-> IF k <= m THEN f[k] ELSE Emit(f[m], r[m + 1])]
  <2>1. ASSUME NEW k \in 0..(m + 1) PROVE g[k] = EmittedFrom(g, r, k)
    <3>1. CASE k = 0
      BY <3>1 DEF EmittedFrom
    <3>2. CASE k \in 1..m
      <4>1. g[k] = f[k] /\ g[k - 1] = f[k - 1] /\ k # 0
        BY <3>2
      <4>2. f[k] = EmittedFrom(f, r, k)
        <5>1. k \in 0..m
          BY <3>2
        <5>2. [i \in 0..m |-> EmittedFrom(f, r, i)][k] = EmittedFrom(f, r, k)
          BY <5>1, Zenon
        <5>3. QED
          BY <5>2, Zenon
      <4>3. QED
        BY <4>1, <4>2 DEF EmittedFrom
    <3>3. CASE k = m + 1
      <4>1. g[k] = Emit(f[m], r[m + 1]) /\ g[k - 1] = f[m] /\ k # 0
        BY <3>3
      <4>2. EmittedFrom(g, r, k) = Emit(g[k - 1], r[m + 1])
        BY <3>3, <4>1 DEF EmittedFrom
      <4> HIDE DEF g
      <4>3. QED
        BY <4>1, <4>2
    <3>4. QED
      BY <3>1, <3>2, <3>3
  <2>2. g = [k \in 0..(m + 1) |-> EmittedFrom(g, r, k)]
    BY <2>1
  <2>3. \E h : h = [k \in 0..(m + 1) |-> EmittedFrom(h, r, k)]
    <3> HIDE DEF g
    <3>1. QED
      BY <2>2, Zenon
  <2>4. m + 1 \in Nat
    OBVIOUS
  <2>5. QED
    BY <2>3, <2>4
<1>3. QED
  <2> HIDE DEF T
  <2>1. \A m \in 0..n : m \in T
    BY <1>1, <1>2, Upward
  <2>2. n \in T
    BY <2>1
  <2>3. QED
    BY <2>2 DEF T

LEMMA EmittedDef ==
  ASSUME NEW r, Len(r) \in Nat
  PROVE  Emitted(r) = [k \in 0..Len(r) |-> EmittedFrom(Emitted(r), r, k)]
<1>1. \E f : f = [k \in 0..Len(r) |-> EmittedFrom(f, r, k)]
  BY EmittedUpTo
<1>2. QED
  BY <1>1, Zenon DEF Emitted, EmittedFrom, Begin

\* No start code, and no 0, 0, 2 either, is within b.
NoCode(b) == \A i \in 1..Len(b) : ~(i + 2 <= Len(b) /\ b[i] = 0 /\ b[i + 1] = 0 /\ b[i + 2] <= 2)

\* zeros counts the zeros at the end of what has been written, since the last 3 put in.
Counted(s) ==
  /\ s.zeros \in 0..2 /\ s.zeros <= Len(s.out)
  /\ s.zeros >= 1 => s.out[Len(s.out)] = 0
  /\ s.zeros = 2 => s.out[Len(s.out) - 1] = 0
  /\ Len(s.out) >= 1 /\ s.out[Len(s.out)] = 0 => s.zeros >= 1
  /\ Len(s.out) >= 2 /\ s.out[Len(s.out)] = 0 /\ s.out[Len(s.out) - 1] = 0 => s.zeros = 2

Good(s) == s.out \in Seq(Nat) /\ Counted(s) /\ NoCode(s.out)

LEMMA EmitPlain ==
  ASSUME NEW s, NEW v \in Nat, ~(s.zeros >= 2 /\ v <= 3)
  PROVE  /\ Emit(s, v).out = s.out \o <<v>>
         /\ Emit(s, v).zeros = IF v = 0 THEN s.zeros + 1 ELSE 0
BY DEF Emit

LEMMA EmitEscape ==
  ASSUME NEW s, NEW v \in Nat, s.zeros \in Nat, s.zeros >= 2, v <= 3
  PROVE  /\ Emit(s, v).out = s.out \o <<3, v>>
         /\ Emit(s, v).zeros = IF v = 0 THEN 1 ELSE 0
<1>1. Emit(s, v).out = s.out \o <<3, v>>
  <2>1. s.zeros >= 2 /\ v <= 3
    OBVIOUS
  <2>2. QED
    BY <2>1, Zenon DEF Emit
<1>2. Emit(s, v).zeros = IF v = 0 THEN 1 ELSE 0
  <2>1. CASE v = 0
    BY <2>1 DEF Emit
  <2>2. CASE v # 0
    BY <2>2 DEF Emit
  <2>3. QED
    BY <2>1, <2>2
<1>3. QED
  BY <1>1, <1>2

\* The bytes of b behind which one or two more are written.
LEMMA OneMore ==
  ASSUME NEW b \in Seq(Nat), NEW v \in Nat
  PROVE  /\ b \o <<v>> \in Seq(Nat) /\ Len(b \o <<v>>) = Len(b) + 1
         /\ \A i \in 1..Len(b) : (b \o <<v>>)[i] = b[i]
         /\ (b \o <<v>>)[Len(b) + 1] = v
<1>1. <<v>> \in Seq(Nat) /\ Len(<<v>>) = 1 /\ <<v>>[1] = v
  OBVIOUS
<1>2. QED
  BY <1>1, ConcatProperties

LEMMA TwoMore ==
  ASSUME NEW b \in Seq(Nat), NEW u \in Nat, NEW v \in Nat
  PROVE  /\ b \o <<u, v>> \in Seq(Nat) /\ Len(b \o <<u, v>>) = Len(b) + 2
         /\ \A i \in 1..Len(b) : (b \o <<u, v>>)[i] = b[i]
         /\ (b \o <<u, v>>)[Len(b) + 1] = u /\ (b \o <<u, v>>)[Len(b) + 2] = v
<1>1. <<u, v>> \in Seq(Nat) /\ Len(<<u, v>>) = 2 /\ <<u, v>>[1] = u /\ <<u, v>>[2] = v
  OBVIOUS
<1>2. QED
  BY <1>1, ConcatProperties

LEMMA EmitGood ==
  ASSUME NEW s, Good(s), NEW v \in Nat
  PROVE  /\ Good(Emit(s, v)) /\ Len(Emit(s, v).out) >= Len(s.out)
         /\ \A i \in 1..Len(s.out) : Emit(s, v).out[i] = s.out[i]
<1> DEFINE b == s.out
           e == Emit(s, v)
<1>0. /\ b \in Seq(Nat) /\ Len(b) \in Nat /\ Counted(s) /\ NoCode(b)
      /\ \A i \in 1..Len(b) : b[i] \in Nat
  BY DEF Good
<1>1. CASE s.zeros >= 2 /\ v <= 3
  <2>1. e.out = b \o <<3, v>> /\ e.zeros = IF v = 0 THEN 1 ELSE 0
    <3>1. s.zeros \in Nat /\ s.zeros >= 2 /\ v <= 3
      BY <1>0, <1>1 DEF Counted
    <3>2. QED
      BY <3>1, EmitEscape
  <2>2. /\ e.out \in Seq(Nat) /\ Len(e.out) = Len(b) + 2
        /\ \A i \in 1..Len(b) : e.out[i] = b[i]
        /\ e.out[Len(b) + 1] = 3 /\ e.out[Len(b) + 2] = v
    BY <1>0, <2>1, TwoMore
  <2> HIDE DEF e, b
  <2>3. Counted(e)
    BY <1>0, <2>1, <2>2 DEF Counted
  <2>4. NoCode(e.out)
    <3> SUFFICES ASSUME NEW i \in 1..Len(e.out), i + 2 <= Len(e.out),
                        e.out[i] = 0, e.out[i + 1] = 0, e.out[i + 2] <= 2
                 PROVE  FALSE
      BY DEF NoCode
    <3>1. CASE i + 2 <= Len(b)
      <4>1. i \in 1..Len(b) /\ i + 1 \in 1..Len(b) /\ i + 2 \in 1..Len(b)
        BY <1>0, <3>1
      <4>2. b[i] = 0 /\ b[i + 1] = 0 /\ b[i + 2] <= 2
        BY <2>2, <4>1
      <4>3. QED
        BY <1>0, <3>1, <4>1, <4>2 DEF NoCode
    <3>2. CASE i + 2 = Len(b) + 1
      <4>1. e.out[i + 2] = e.out[Len(b) + 1] /\ e.out[Len(b) + 1] = 3
        BY <2>2, <3>2
      <4>2. QED
        BY <4>1
    <3>3. CASE i + 2 = Len(b) + 2
      <4>1. i + 1 = Len(b) + 1
        BY <1>0, <3>3
      <4>2. e.out[i + 1] = 3
        BY <2>2, <4>1
      <4>3. QED
        BY <4>2
    <3>4. i \in Nat /\ Len(b) \in Nat /\ i + 2 <= Len(b) + 2
      BY <1>0, <2>2
    <3>5. QED
      BY <3>1, <3>2, <3>3, <3>4
  <2>5. QED
    BY <1>0, <2>2, <2>3, <2>4 DEF Good, e, b
<1>2. CASE ~(s.zeros >= 2 /\ v <= 3)
  <2>1. e.out = b \o <<v>> /\ e.zeros = IF v = 0 THEN s.zeros + 1 ELSE 0
    BY <1>2, EmitPlain
  <2>2. /\ e.out \in Seq(Nat) /\ Len(e.out) = Len(b) + 1
        /\ \A i \in 1..Len(b) : e.out[i] = b[i]
        /\ e.out[Len(b) + 1] = v
    BY <1>0, <2>1, OneMore
  <2>0. /\ s.zeros \in 0..2 /\ s.zeros <= Len(b)
        /\ s.zeros >= 1 => b[Len(b)] = 0
        /\ s.zeros = 2 => b[Len(b) - 1] = 0
        /\ Len(b) >= 1 /\ b[Len(b)] = 0 => s.zeros >= 1
        /\ Len(b) >= 2 /\ b[Len(b)] = 0 /\ b[Len(b) - 1] = 0 => s.zeros = 2
    BY <1>0 DEF Counted
  <2> HIDE DEF e, b
  <2>3. Counted(e)
    BY <1>0, <1>2, <2>0, <2>1, <2>2 DEF Counted
  <2>4. NoCode(e.out)
    <3> SUFFICES ASSUME NEW i \in 1..Len(e.out), i + 2 <= Len(e.out),
                        e.out[i] = 0, e.out[i + 1] = 0, e.out[i + 2] <= 2
                 PROVE  FALSE
      BY DEF NoCode
    <3>1. CASE i + 2 <= Len(b)
      <4>1. i \in 1..Len(b) /\ i + 1 \in 1..Len(b) /\ i + 2 \in 1..Len(b)
        BY <1>0, <3>1
      <4>2. b[i] = 0 /\ b[i + 1] = 0 /\ b[i + 2] <= 2
        BY <2>2, <4>1
      <4>3. QED
        BY <1>0, <3>1, <4>1, <4>2 DEF NoCode
    <3>2. CASE i + 2 = Len(b) + 1
      <4>1. Len(b) \in 1..Len(b) /\ Len(b) - 1 \in 1..Len(b) /\ Len(b) - 1 = i
        BY <1>0, <3>2
      <4>2. b[Len(b)] = 0 /\ b[Len(b) - 1] = 0 /\ v <= 2
        <5>1. e.out[Len(b)] = b[Len(b)] /\ e.out[Len(b) - 1] = b[Len(b) - 1]
          BY <2>2, <4>1
        <5>2. i + 1 = Len(b) /\ i + 2 = Len(b) + 1
          BY <1>0, <3>2
        <5>3. QED
          BY <2>2, <4>1, <5>1, <5>2
      <4>3. QED
        BY <1>0, <1>2, <2>0, <4>1, <4>2
    <3>4. QED
      BY <1>0, <2>2, <3>1, <3>2
  <2>5. QED
    BY <1>0, <2>2, <2>3, <2>4 DEF Good, e, b
<1>3. QED
  BY <1>1, <1>2

\* What has been written after k bytes of r.
LEMMA EmittedGood ==
  ASSUME NEW r \in Seq(Nat)
  PROVE  /\ Emitted(r)[0] = Begin
         /\ \A k \in 0..Len(r) : Good(Emitted(r)[k])
         /\ \A k \in 0..(Len(r) - 1) : Emitted(r)[k + 1] = Emit(Emitted(r)[k], r[k + 1])
<1> DEFINE run == Emitted(r)
           T == {k \in Nat : Good(run[k])}
<1>1. \A k \in 0..Len(r) : run[k] = EmittedFrom(run, r, k)
  BY EmittedDef
<1> HIDE DEF run
<1>2. run[0] = Begin
  BY <1>1 DEF EmittedFrom
<1>3. ASSUME NEW k \in 0..(Len(r) - 1) PROVE run[k + 1] = Emit(run[k], r[k + 1])
  BY <1>1 DEF EmittedFrom
<1>4. Good(Begin)
  BY DEF Good, Counted, NoCode, Begin
<1>5. 0 \in T
  BY <1>2, <1>4
<1>6. \A k \in 0..(Len(r) - 1) : k \in T => k + 1 \in T
  BY <1>3, EmitGood
<1>7. \A k \in 0..Len(r) : k \in T
  <2> HIDE DEF T
  <2>1. Len(r) \in Nat
    OBVIOUS
  <2>2. QED
    BY <1>5, <1>6, <2>1, Upward
<1>8. QED
  BY <1>2, <1>3, <1>7 DEF run

-----------------------------------------------------------------------------
(* The viewer's unescaping                                                   *)
UnescapedFrom(f, b, i) ==
  IF i > Len(b) THEN <<>>
  ELSE IF PatternAt(b, i, 3) THEN <<0, 0>> \o f[i + 3] ELSE <<b[i]>> \o f[i + 1]

LEMMA UnescapedLooksAhead ==
  ASSUME NEW b \in Seq(Nat), NEW i \in 1..(Len(b) + 1), NEW f, NEW g,
         \A j \in (i + 1)..(Len(b) + 1) : f[j] = g[j]
  PROVE  UnescapedFrom(f, b, i) = UnescapedFrom(g, b, i)
<1>1. CASE i > Len(b)
  BY <1>1 DEF UnescapedFrom
<1>2. CASE i <= Len(b) /\ PatternAt(b, i, 3)
  <2>1. i + 3 \in (i + 1)..(Len(b) + 1) /\ ~(i > Len(b))
    BY <1>2 DEF PatternAt
  <2>2. f[i + 3] = g[i + 3]
    BY <2>1
  <2>3. QED
    BY <1>2, <2>1, <2>2, Zenon DEF UnescapedFrom
<1>3. CASE i <= Len(b) /\ ~PatternAt(b, i, 3)
  <2>1. i + 1 \in (i + 1)..(Len(b) + 1) /\ ~(i > Len(b))
    BY <1>3
  <2>2. f[i + 1] = g[i + 1]
    BY <2>1
  <2>3. QED
    BY <1>3, <2>1, <2>2, Zenon DEF UnescapedFrom
<1>4. QED
  BY <1>1, <1>2, <1>3

LEMMA UnescapedDownTo ==
  ASSUME NEW b \in Seq(Nat)
  PROVE  \E f : f = [i \in 1..(Len(b) + 1) |-> UnescapedFrom(f, b, i)]
<1> DEFINE n == Len(b)
           T == {k \in Nat : \E f : f = [i \in (k + 1)..(n + 1) |-> UnescapedFrom(f, b, i)]}
<1>0. n \in Nat
  OBVIOUS
<1>1. n \in T
  <2> DEFINE f == [i \in (n + 1)..(n + 1) |-> <<>>]
  <2>1. ASSUME NEW i \in (n + 1)..(n + 1) PROVE UnescapedFrom(f, b, i) = <<>>
    BY <1>0 DEF UnescapedFrom
  <2>2. f = [i \in (n + 1)..(n + 1) |-> UnescapedFrom(f, b, i)]
    BY <2>1
  <2>3. QED
    BY <1>0, <2>2
<1>2. \A k \in 0..(n - 1) : k + 1 \in T => k \in T
  <2> SUFFICES ASSUME NEW k \in 0..(n - 1), NEW f,
                      f = [i \in (k + 2)..(n + 1) |-> UnescapedFrom(f, b, i)]
               PROVE  k \in T
    <3>1. \A k \in 0..(n - 1) : (k + 1) + 1 = k + 2
      OBVIOUS
    <3>2. QED
      BY <3>1
  <2> DEFINE g == [i \in (k + 1)..(n + 1) |->
                     IF i = k + 1 THEN UnescapedFrom(f, b, k + 1) ELSE f[i]]
  <2>1. \A j \in (k + 2)..(n + 1) : f[j] = g[j]
    OBVIOUS
  <2>2. ASSUME NEW i \in (k + 1)..(n + 1) PROVE g[i] = UnescapedFrom(g, b, i)
    <3>1. i \in 1..(n + 1) /\ \A j \in (i + 1)..(n + 1) : f[j] = g[j]
      BY <1>0, <2>1
    <3>2. UnescapedFrom(f, b, i) = UnescapedFrom(g, b, i)
      <4> HIDE DEF g
      <4>1. QED
        BY <3>1, UnescapedLooksAhead
    <3>3. CASE i = k + 1
      <4>1. g[i] = UnescapedFrom(f, b, i)
        BY <3>3
      <4>2. QED
        BY <3>2, <4>1
    <3>4. CASE i # k + 1
      <4>1. i \in (k + 2)..(n + 1) /\ g[i] = f[i]
        BY <1>0, <3>4
      <4>2. [j \in (k + 2)..(n + 1) |-> UnescapedFrom(f, b, j)][i] = UnescapedFrom(f, b, i)
        BY <4>1, Zenon
      <4>3. QED
        BY <3>2, <4>1, <4>2, Zenon
    <3>5. QED
      BY <3>3, <3>4
  <2>3. g = [i \in (k + 1)..(n + 1) |-> UnescapedFrom(g, b, i)]
    BY <2>2
  <2>4. \E h : h = [i \in (k + 1)..(n + 1) |-> UnescapedFrom(h, b, i)]
    <3> HIDE DEF g
    <3>1. QED
      BY <2>3, Zenon
  <2>5. QED
    BY <2>4
<1>3. 0 \in T
  <2> HIDE DEF T, n
  <2>1. \A k \in 0..n : k \in T
    BY <1>0, <1>1, <1>2, Downward
  <2>2. QED
    BY <1>0, <2>1
<1>4. QED
  BY <1>3

LEMMA UnescapedDef ==
  ASSUME NEW b \in Seq(Nat)
  PROVE  Unescaped(b) = [i \in 1..(Len(b) + 1) |-> UnescapedFrom(Unescaped(b), b, i)]
BY UnescapedDownTo, Zenon DEF Unescaped, UnescapedFrom

LEMMA Read ==
  ASSUME NEW b \in Seq(Nat)
  PROVE  /\ Unescaped(b)[Len(b) + 1] = <<>>
         /\ \A i \in 1..Len(b) :
              Unescaped(b)[i] = IF PatternAt(b, i, 3) THEN <<0, 0>> \o Unescaped(b)[i + 3]
                                                      ELSE <<b[i]>> \o Unescaped(b)[i + 1]
<1>1. \A i \in 1..(Len(b) + 1) : Unescaped(b)[i] = UnescapedFrom(Unescaped(b), b, i)
  <2> DEFINE u == Unescaped(b)
  <2>1. u = [i \in 1..(Len(b) + 1) |-> UnescapedFrom(u, b, i)]
    BY UnescapedDef
  <2> HIDE DEF u
  <2>2. ASSUME NEW i \in 1..(Len(b) + 1) PROVE u[i] = UnescapedFrom(u, b, i)
    <3>1. [j \in 1..(Len(b) + 1) |-> UnescapedFrom(u, b, j)][i] = UnescapedFrom(u, b, i)
      BY Zenon
    <3>2. QED
      BY <2>1, <3>1, Zenon
  <2>3. QED
    BY <2>2 DEF u
<1>2. Len(b) + 1 \in 1..(Len(b) + 1) /\ Len(b) + 1 > Len(b)
  OBVIOUS
<1>3. \A i \in 1..Len(b) : i \in 1..(Len(b) + 1) /\ ~(i > Len(b))
  OBVIOUS
<1>4. QED
  BY <1>1, <1>2, <1>3, Zenon DEF UnescapedFrom

\* What has been written stays in the result.
LEMMA EmittedStays ==
  ASSUME NEW r \in Seq(Nat)
  PROVE  \A k \in 0..Len(r) :
           LET o == Emitted(r)[k].out
           IN Len(o) <= Len(Escaped(r)) /\ \A i \in 1..Len(o) : Escaped(r)[i] = o[i]
<1> DEFINE o(k) == Emitted(r)[k].out
           b == Escaped(r)
           T == {k \in 0..Len(r) : Len(o(k)) <= Len(b) /\ \A i \in 1..Len(o(k)) : b[i] = o(k)[i]}
<1>0. Len(r) \in Nat
  OBVIOUS
<1>1. \A k \in 0..Len(r) : o(k) \in Seq(Nat) /\ Len(o(k)) \in Nat
  BY EmittedGood DEF Good
<1>2. Len(r) \in T
  BY <1>1 DEF Escaped
<1>3. ASSUME NEW k \in 0..(Len(r) - 1), k + 1 \in T PROVE k \in T
  <2>1. k \in 0..Len(r) /\ k + 1 \in 0..Len(r) /\ r[k + 1] \in Nat
    OBVIOUS
  <2>2. Good(Emitted(r)[k]) /\ Emitted(r)[k + 1] = Emit(Emitted(r)[k], r[k + 1])
    BY <2>1, EmittedGood
  <2>3. Len(o(k + 1)) >= Len(o(k)) /\ \A i \in 1..Len(o(k)) : o(k + 1)[i] = o(k)[i]
    BY <2>1, <2>2, EmitGood
  <2>4. Len(o(k + 1)) <= Len(b) /\ \A i \in 1..Len(o(k + 1)) : b[i] = o(k + 1)[i]
    BY <1>3
  <2>5. Len(o(k)) \in Nat /\ Len(o(k + 1)) \in Nat /\ Len(b) \in Nat
    BY <1>0, <1>1, <2>1 DEF Escaped
  <2> HIDE DEF o, b
  <2>6. Len(o(k)) <= Len(b) /\ \A i \in 1..Len(o(k)) : b[i] = o(k)[i]
    BY <2>3, <2>4, <2>5
  <2>7. QED
    BY <2>1, <2>6
<1>4. \A k \in 0..Len(r) : k \in T
  <2> HIDE DEF T
  <2>1. QED
    BY <1>0, <1>2, <1>3, Downward
<1>5. QED
  BY <1>4

LEMMA TwoInARow ==
  ASSUME NEW s \in Seq(Nat), NEW u \in Nat, NEW v \in Nat
  PROVE  <<u>> \o (<<v>> \o s) = <<u, v>> \o s
<1>0. <<u>> \in Seq(Nat) /\ <<v>> \in Seq(Nat) /\ <<u, v>> \in Seq(Nat)
  OBVIOUS
<1>1. <<u>> \o <<v>> = <<u, v>>
  <2>1. /\ <<u>> \o <<v>> \in Seq(Nat) /\ Len(<<u>> \o <<v>>) = Len(<<u>>) + 1
        /\ (<<u>> \o <<v>>)[1] = u /\ (<<u>> \o <<v>>)[2] = v
    <3>1. Len(<<u>>) = 1 /\ 1 \in 1..Len(<<u>>) /\ <<u>>[1] = u
      OBVIOUS
    <3>2. QED
      BY <1>0, <3>1, OneMore
  <2>2. Len(<<u>>) = 1 /\ Len(<<u, v>>) = 2 /\ <<u, v>>[1] = u /\ <<u, v>>[2] = v
    OBVIOUS
  <2> DEFINE x == <<u>> \o <<v>>
             y == <<u, v>>
  <2>3. Len(x) = Len(y) /\ x \in Seq(Nat) /\ y \in Seq(Nat)
    BY <1>0, <2>1, <2>2
  <2>4. \A i \in 1..Len(x) : x[i] = y[i]
    <3>1. \A i \in 1..2 : i = 1 \/ i = 2
      OBVIOUS
    <3>2. Len(x) = 2
      BY <2>1, <2>2
    <3> HIDE DEF x, y
    <3>3. x[1] = y[1] /\ x[2] = y[2]
      BY <2>1, <2>2 DEF x, y
    <3>4. QED
      BY <3>1, <3>2, <3>3
  <2> HIDE DEF x, y
  <2>5. x = y
    BY <2>3, <2>4, SeqEqual
  <2>6. QED
    BY <2>5 DEF x, y
<1>2. (<<u>> \o <<v>>) \o s = <<u>> \o (<<v>> \o s)
  BY <1>0, ConcatAssociative
<1>3. QED
  BY <1>1, <1>2

\* After k bytes of r, the zeros that are still counted may have to be read together
\* with what follows; from there on the viewer reads them and the rest of r.
Rest(r, k) == SubSeq(r, k + 1, Len(r))
ReadsOn(r, k) ==
  LET s == Emitted(r)[k]
      u == Unescaped(Escaped(r))
  IN /\ s.zeros = 0 => u[Len(s.out) + 1] = Rest(r, k)
     /\ s.zeros = 1 => u[Len(s.out)] = <<0>> \o Rest(r, k)
     /\ s.zeros = 2 => u[Len(s.out) - 1] = <<0, 0>> \o Rest(r, k)

LEMMA ReadsOnStep ==
  ASSUME NEW r \in Seq(Nat), NEW k \in 0..(Len(r) - 1), ReadsOn(r, k + 1)
  PROVE  ReadsOn(r, k)
<1> DEFINE s == Emitted(r)[k]
           o == s.out
           t == Emitted(r)[k + 1]
           b == Escaped(r)
           u == Unescaped(b)
           v == r[k + 1]
           rest == Rest(r, k + 1)
<1>1. /\ Len(r) \in Nat /\ k \in 0..Len(r) /\ k + 1 \in 0..Len(r) /\ v \in Nat
      /\ k + 1 \in 1..Len(r)
  OBVIOUS
<1>2. Good(s) /\ Good(t) /\ t = Emit(s, v)
  BY <1>1, EmittedGood
<1>3. b \in Seq(Nat)
  BY <1>1, EmittedGood DEF Escaped, Good
<1>4. /\ Len(o) <= Len(b) /\ \A i \in 1..Len(o) : b[i] = o[i]
      /\ Len(t.out) <= Len(b) /\ \A i \in 1..Len(t.out) : b[i] = t.out[i]
  BY <1>1, EmittedStays
<1>5. /\ u[Len(b) + 1] = <<>>
      /\ \A i \in 1..Len(b) : u[i] = IF PatternAt(b, i, 3) THEN <<0, 0>> \o u[i + 3]
                                                            ELSE <<b[i]>> \o u[i + 1]
  BY <1>3, Read
<1>6. rest \in Seq(Nat) /\ Rest(r, k) = <<v>> \o rest
  <2>1. Rest(r, k) = SubSeq(r, k + 1, Len(r)) /\ rest = SubSeq(r, k + 2, Len(r))
    BY DEF Rest
  <2>2. \A i \in (k + 2)..Len(r) : r[i] \in Nat
    OBVIOUS
  <2>3. rest \in Seq(Nat)
    <3>1. k + 2 \in Int /\ Len(r) \in Int
      BY <1>1
    <3>2. SubSeq(r, k + 2, Len(r)) \in Seq(Nat)
      BY <3>1, <2>2, SubSeqProperties
    <3>3. QED
      BY <2>1, <3>2
  <2>4. SubSeq(r, k + 1, Len(r)) = <<r[k + 1]>> \o SubSeq(r, (k + 1) + 1, Len(r))
    BY <1>1, SubSeqRecursiveFirst
  <2>5. (k + 1) + 1 = k + 2
    BY <1>1
  <2>6. QED
    BY <2>1, <2>3, <2>4, <2>5
<1>7. <<v>> \o rest \in Seq(Nat)
  BY <1>1, <1>6
<1>8. /\ o \in Seq(Nat) /\ Len(o) \in Nat /\ s.zeros \in 0..2 /\ s.zeros <= Len(o)
      /\ s.zeros >= 1 => o[Len(o)] = 0
      /\ s.zeros = 2 => o[Len(o) - 1] = 0
  BY <1>2 DEF Good, Counted
<1>9. /\ t.zeros = 0 => u[Len(t.out) + 1] = rest
      /\ t.zeros = 1 => u[Len(t.out)] = <<0>> \o rest
      /\ t.zeros = 2 => u[Len(t.out) - 1] = <<0, 0>> \o rest
  BY DEF ReadsOn
<1> HIDE DEF s, o, t, b, u, v, rest
<1>10. CASE s.zeros >= 2 /\ v <= 3
  <2>1. t.out = o \o <<3, v>> /\ t.zeros = IF v = 0 THEN 1 ELSE 0
    <3>1. s.zeros \in Nat
      BY <1>8
    <3>2. QED
      BY <1>1, <1>2, <1>10, <3>1, EmitEscape DEF o
  <2>2. /\ Len(t.out) = Len(o) + 2 /\ t.out[Len(o) + 1] = 3 /\ t.out[Len(o) + 2] = v
    BY <1>1, <1>8, <2>1, TwoMore
  <2>3. /\ Len(o) + 2 <= Len(b) /\ b[Len(o) + 1] = 3 /\ b[Len(o) + 2] = v
        /\ b[Len(o)] = 0 /\ b[Len(o) - 1] = 0 /\ Len(b) \in Nat /\ Len(o) >= 2
    <3>0. s.zeros = 2 /\ Len(o) >= 2 /\ Len(b) \in Nat
      BY <1>3, <1>8, <1>10
    <3>1. Len(o) + 1 \in 1..Len(t.out) /\ Len(o) + 2 \in 1..Len(t.out)
      BY <1>8, <2>2
    <3>2. Len(o) \in 1..Len(o) /\ Len(o) - 1 \in 1..Len(o)
      BY <1>8, <3>0
    <3>3. b[Len(o) + 1] = 3 /\ b[Len(o) + 2] = v
      BY <1>4, <2>2, <3>1
    <3>4. b[Len(o)] = 0
      <4>1. b[Len(o)] = o[Len(o)]
        BY <1>4, <3>2
      <4>2. o[Len(o)] = 0
        BY <1>8, <3>0
      <4>3. QED
        BY <4>1, <4>2
    <3>5. b[Len(o) - 1] = 0
      BY <1>4, <1>8, <3>0, <3>2
    <3>6. Len(o) + 2 <= Len(b)
      BY <1>4, <2>2
    <3>7. QED
      BY <3>0, <3>3, <3>4, <3>5, <3>6
  <2>4. u[Len(o) - 1] = <<0, 0>> \o u[Len(o) + 2]
    <3>1. Len(o) - 1 \in 1..Len(b) /\ (Len(o) - 1) + 3 = Len(o) + 2
      BY <1>8, <2>3
    <3>2. PatternAt(b, Len(o) - 1, 3)
      <4>1. (Len(o) - 1) + 1 = Len(o) /\ (Len(o) - 1) + 2 = Len(o) + 1 /\ Len(o) + 1 <= Len(b)
        BY <1>8, <2>3
      <4>2. QED
        BY <2>3, <4>1 DEF PatternAt
    <3>3. QED
      BY <1>5, <3>1, <3>2
  <2>5. u[Len(o) + 2] = <<v>> \o rest
    <3>1. CASE v = 0
      BY <1>9, <2>1, <2>2, <3>1
    <3>2. CASE v # 0
      <4>1. u[Len(o) + 3] = rest
        BY <1>8, <1>9, <2>1, <2>2, <3>2
      <4>2. Len(o) + 2 \in 1..Len(b) /\ (Len(o) + 2) + 1 = Len(o) + 3
        BY <1>8, <2>3
      <4>3. ~PatternAt(b, Len(o) + 2, 3)
        BY <2>3, <3>2 DEF PatternAt
      <4>4. QED
        BY <1>5, <2>3, <4>1, <4>2, <4>3
    <3>3. QED
      BY <3>1, <3>2
  <2>6. u[Len(o) - 1] = <<0, 0>> \o Rest(r, k)
    BY <1>6, <2>4, <2>5
  <2>7. s.zeros = 2
    BY <1>8, <1>10
  <2>8. QED
    BY <2>6, <2>7 DEF ReadsOn, s, o, u, b
<1>11. CASE ~(s.zeros >= 2 /\ v <= 3)
  <2>1. t.out = o \o <<v>> /\ t.zeros = IF v = 0 THEN s.zeros + 1 ELSE 0
    BY <1>1, <1>2, <1>11, EmitPlain DEF o
  <2>2. /\ Len(t.out) = Len(o) + 1 /\ t.out[Len(o) + 1] = v
    BY <1>1, <1>8, <2>1, OneMore
  <2>3. Len(o) + 1 <= Len(b) /\ b[Len(o) + 1] = v /\ Len(b) \in Nat
    <3>1. Len(o) + 1 \in 1..Len(t.out)
      BY <1>8, <2>2
    <3>2. b[Len(o) + 1] = v
      BY <1>4, <2>2, <3>1
    <3>3. Len(o) + 1 <= Len(b) /\ Len(b) \in Nat
      BY <1>3, <1>4, <2>2
    <3>4. QED
      BY <3>2, <3>3
  <2>4. CASE v = 0
    <3>1. s.zeros = 0 => u[Len(o) + 1] = Rest(r, k)
      BY <1>6, <1>9, <2>1, <2>2, <2>4
    <3>2. s.zeros = 1 => u[Len(o)] = <<0>> \o Rest(r, k)
      <4>1. <<0>> \o (<<v>> \o rest) = <<0, v>> \o rest
        BY <1>1, <1>6, TwoInARow
      <4>2. s.zeros = 1 => u[Len(t.out) - 1] = <<0, 0>> \o rest
        BY <1>9, <2>1, <2>4
      <4>3. Len(t.out) - 1 = Len(o)
        BY <1>8, <2>2
      <4>4. QED
        BY <1>6, <2>4, <4>1, <4>2, <4>3
    <3>3. s.zeros # 2
      BY <1>11, <2>4
    <3>4. QED
      BY <3>1, <3>2, <3>3 DEF ReadsOn, s, o, u, b
  <2>5. CASE v # 0
    <3>1. u[Len(o) + 1] = Rest(r, k)
      <4>1. u[Len(o) + 2] = rest
        BY <1>8, <1>9, <2>1, <2>2, <2>5
      <4>2. Len(o) + 1 \in 1..Len(b) /\ (Len(o) + 1) + 1 = Len(o) + 2
        BY <1>8, <2>3
      <4>3. ~PatternAt(b, Len(o) + 1, 3)
        BY <2>3, <2>5 DEF PatternAt
      <4>4. QED
        BY <1>5, <1>6, <2>3, <4>1, <4>2, <4>3
    <3>2. s.zeros >= 1 => u[Len(o)] = <<0>> \o Rest(r, k)
      <4> SUFFICES ASSUME s.zeros >= 1 PROVE u[Len(o)] = <<0>> \o Rest(r, k)
        OBVIOUS
      <4>0. Len(o) \in 1..Len(o) /\ Len(o) \in 1..Len(b)
        BY <1>8, <2>3
      <4>1. Len(o) \in 1..Len(b) /\ b[Len(o)] = 0
        <5>1. b[Len(o)] = o[Len(o)]
          BY <1>4, <4>0
        <5>2. QED
          BY <1>8, <4>0, <5>1
      <4>2. ~PatternAt(b, Len(o), 3)
        BY <2>3, <2>5 DEF PatternAt
      <4>3. QED
        BY <1>5, <3>1, <4>1, <4>2
    <3>3. s.zeros = 2 => u[Len(o) - 1] = <<0, 0>> \o Rest(r, k)
      <4> SUFFICES ASSUME s.zeros = 2 PROVE u[Len(o) - 1] = <<0, 0>> \o Rest(r, k)
        OBVIOUS
      <4>0. /\ Len(o) - 1 \in 1..Len(o) /\ Len(o) - 1 \in 1..Len(b)
            /\ (Len(o) - 1) + 1 = Len(o) /\ (Len(o) - 1) + 2 = Len(o) + 1
        BY <1>8, <2>3
      <4>1. /\ Len(o) - 1 \in 1..Len(b) /\ b[Len(o) - 1] = 0
            /\ (Len(o) - 1) + 1 = Len(o) /\ (Len(o) - 1) + 2 = Len(o) + 1
        <5>1. b[Len(o) - 1] = o[Len(o) - 1]
          BY <1>4, <4>0
        <5>2. QED
          BY <1>8, <4>0, <5>1
      <4>2. ~PatternAt(b, Len(o) - 1, 3)
        BY <1>1, <1>11, <2>3, <4>1 DEF PatternAt
      <4>3. u[Len(o) - 1] = <<0>> \o u[Len(o)]
        BY <1>5, <4>1, <4>2
      <4>4. <<0>> \o (<<0>> \o Rest(r, k)) = <<0, 0>> \o Rest(r, k)
        <5>1. Rest(r, k) \in Seq(Nat) /\ 0 \in Nat
          BY <1>6, <1>7
        <5>2. QED
          BY <5>1, TwoInARow
      <4>5. u[Len(o)] = <<0>> \o Rest(r, k)
        BY <3>2
      <4>6. QED
        BY <4>3, <4>4, <4>5
    <3>4. /\ s.zeros = 0 => u[Len(o) + 1] = Rest(r, k)
          /\ s.zeros = 1 => u[Len(o)] = <<0>> \o Rest(r, k)
          /\ s.zeros = 2 => u[Len(o) - 1] = <<0, 0>> \o Rest(r, k)
      BY <3>1, <3>2, <3>3
    <3>5. QED
      BY <3>4 DEF ReadsOn, s, o, u, b
  <2>6. QED
    BY <2>4, <2>5
<1>12. QED
  BY <1>10, <1>11

\* Emulation prevention, and its inverse: what the viewer reads out of what the child
\* has written, in which no start code occurs.
THEOREM EscapeRoundTrip ==
  ASSUME NEW r \in Seq(Nat)
  PROVE  /\ Escaped(r) \in Seq(Nat) /\ NoCode(Escaped(r))
         /\ Unescape(Escaped(r)) = r
<1> DEFINE T == {k \in 0..Len(r) : ReadsOn(r, k)}
           u == Unescaped(Escaped(r))
<1>0. Len(r) \in Nat
  OBVIOUS
<1>1. Good(Emitted(r)[Len(r)])
  BY <1>0, EmittedGood
<1>2. Escaped(r) \in Seq(Nat) /\ NoCode(Escaped(r))
  BY <1>1 DEF Good, Escaped
<1>3. ReadsOn(r, Len(r))
  <2> DEFINE s == Emitted(r)[Len(r)]
             b == Escaped(r)
  <2>1. s.out = b
    BY DEF Escaped
  <2>2. b \in Seq(Nat) /\ Len(b) \in Nat
    BY <1>2
  <2>3. u[Len(b) + 1] = <<>> /\ Rest(r, Len(r)) = <<>>
    <3>1. u[Len(b) + 1] = <<>>
      BY <2>2, Read
    <3>2. SubSeq(r, Len(r) + 1, Len(r)) = <<>>
      BY <1>0, SubSeqEmpty
    <3>3. QED
      BY <3>1, <3>2 DEF Rest
  <2>4. /\ s.zeros \in 0..2 /\ s.zeros <= Len(b)
        /\ s.zeros >= 1 => b[Len(b)] = 0
        /\ s.zeros = 2 => b[Len(b) - 1] = 0
    BY <1>1, <2>1 DEF Good, Counted
  <2>5. \A i \in 1..Len(b) : u[i] = IF PatternAt(b, i, 3) THEN <<0, 0>> \o u[i + 3]
                                                         ELSE <<b[i]>> \o u[i + 1]
    BY <2>2, Read
  <2> HIDE DEF s, b, u
  <2>6. s.zeros >= 1 => u[Len(b)] = <<0>> \o <<>>
    <3> SUFFICES ASSUME s.zeros >= 1 PROVE u[Len(b)] = <<0>> \o <<>>
      OBVIOUS
    <3>1. Len(b) \in 1..Len(b)
      BY <2>2, <2>4
    <3>2. ~PatternAt(b, Len(b), 3)
      BY <2>2 DEF PatternAt
    <3>3. b[Len(b)] = 0
      BY <2>4
    <3>4. QED
      BY <2>3, <2>5, <3>1, <3>2, <3>3
  <2>7. s.zeros = 2 => u[Len(b) - 1] = <<0, 0>> \o <<>>
    <3> SUFFICES ASSUME s.zeros = 2 PROVE u[Len(b) - 1] = <<0, 0>> \o <<>>
      OBVIOUS
    <3>1. Len(b) - 1 \in 1..Len(b) /\ (Len(b) - 1) + 1 = Len(b)
      BY <2>2, <2>4
    <3>2. ~PatternAt(b, Len(b) - 1, 3)
      BY <2>2 DEF PatternAt
    <3>3. b[Len(b) - 1] = 0
      BY <2>4
    <3>4. u[Len(b) - 1] = <<0>> \o u[Len(b)]
      BY <2>5, <3>1, <3>2, <3>3
    <3>5. <<0>> \o (<<0>> \o <<>>) = <<0, 0>> \o <<>>
      <4>1. <<>> \in Seq(Nat) /\ 0 \in Nat
        OBVIOUS
      <4>2. QED
        BY <4>1, TwoInARow
    <3>6. u[Len(b)] = <<0>> \o <<>>
      BY <2>6
    <3>7. QED
      BY <3>4, <3>5, <3>6
  <2>8. /\ s.zeros = 0 => u[Len(b) + 1] = Rest(r, Len(r))
        /\ s.zeros = 1 => u[Len(b)] = <<0>> \o Rest(r, Len(r))
        /\ s.zeros = 2 => u[Len(b) - 1] = <<0, 0>> \o Rest(r, Len(r))
    BY <2>3, <2>6, <2>7
  <2>9. QED
    BY <2>1, <2>8 DEF ReadsOn, s, b, u
<1>4. ReadsOn(r, 0)
  <2>1. Len(r) \in T
    BY <1>0, <1>3
  <2>2. \A k \in 0..(Len(r) - 1) : k + 1 \in T => k \in T
    <3>1. ASSUME NEW k \in 0..(Len(r) - 1), ReadsOn(r, k + 1) PROVE ReadsOn(r, k)
      BY <3>1, ReadsOnStep
    <3>2. QED
      BY <1>0, <3>1
  <2>3. \A k \in 0..Len(r) : k \in T
    <3> HIDE DEF T
    <3>1. QED
      BY <1>0, <2>1, <2>2, Downward
  <2>4. QED
    BY <1>0, <2>3
<1>5. Unescape(Escaped(r)) = Rest(r, 0)
  <2>1. Emitted(r)[0] = Begin
    BY EmittedGood
  <2>2. Emitted(r)[0].zeros = 0 /\ Len(Emitted(r)[0].out) = 0
    BY <2>1 DEF Begin
  <2>3. u[0 + 1] = Rest(r, 0)
    BY <1>4, <2>2 DEF ReadsOn
  <2>4. QED
    BY <2>3 DEF Unescape
<1>6. Rest(r, 0) = r
  <2>1. SubSeq(r, 1, Len(r)) = r
    BY SubSeqFull
  <2>2. QED
    BY <2>1 DEF Rest
<1>7. QED
  BY <1>2, <1>5, <1>6

-----------------------------------------------------------------------------
(* The units of an access unit                                               *)

\* Two sequences one behind the other, byte for byte.
LEMMA Behind ==
  ASSUME NEW s \in Seq(Nat), NEW t \in Seq(Nat)
  PROVE  /\ s \o t \in Seq(Nat) /\ Len(s) \in Nat /\ Len(t) \in Nat
         /\ Len(s \o t) = Len(s) + Len(t)
         /\ \A i \in 1..Len(s) : (s \o t)[i] = s[i]
         /\ \A i \in 1..Len(t) : (s \o t)[Len(s) + i] = t[i]
<1>1. /\ s \o t \in Seq(Nat) /\ Len(s \o t) = Len(s) + Len(t)
      /\ \A i \in 1..(Len(s) + Len(t)) :
           (s \o t)[i] = IF i <= Len(s) THEN s[i] ELSE t[i - Len(s)]
  BY ConcatProperties
<1>2. Len(s) \in Nat /\ Len(t) \in Nat
  OBVIOUS
<1>3. ASSUME NEW i \in 1..Len(s) PROVE (s \o t)[i] = s[i]
  BY <1>1, <1>2
<1>4. ASSUME NEW i \in 1..Len(t) PROVE (s \o t)[Len(s) + i] = t[i]
  <2>1. /\ Len(s) + i \in 1..(Len(s) + Len(t)) /\ ~(Len(s) + i <= Len(s))
        /\ (Len(s) + i) - Len(s) = i
    BY <1>2
  <2>2. QED
    BY <1>1, <2>1
<1>5. QED
  BY <1>1, <1>2, <1>3, <1>4

\* A stretch of b that equals s byte for byte.
LEMMA Stretch ==
  ASSUME NEW b, NEW s \in Seq(Nat), NEW i \in Nat, \A k \in 1..Len(s) : b[i + k] = s[k]
  PROVE  SubSeq(b, i + 1, i + Len(s)) = s
<1> DEFINE x == SubSeq(b, i + 1, i + Len(s))
<1>1. Len(s) \in Nat /\ \A k \in 1..Len(s) : s[k] \in Nat
  OBVIOUS
<1>2. \A k \in (i + 1)..(i + Len(s)) : b[k] \in Nat
  <2> SUFFICES ASSUME NEW k \in (i + 1)..(i + Len(s)) PROVE b[k] \in Nat
    OBVIOUS
  <2>1. k - i \in 1..Len(s) /\ i + (k - i) = k
    BY <1>1
  <2>2. b[k] = s[k - i]
    BY <2>1
  <2>3. QED
    BY <1>1, <2>1, <2>2
<1>3. i + 1 \in Int /\ i + Len(s) \in Int
  BY <1>1
<1>4. /\ x \in Seq(Nat)
      /\ Len(x) = IF i + 1 <= i + Len(s) THEN (i + Len(s)) - (i + 1) + 1 ELSE 0
      /\ \A k \in 1..((i + Len(s)) - (i + 1) + 1) : x[k] = b[(i + 1) + k - 1]
  BY <1>2, <1>3, SubSeqProperties
<1> HIDE DEF x
<1>5. Len(x) = Len(s)
  BY <1>1, <1>4
<1>6. \A k \in 1..Len(x) : x[k] = s[k]
  <2> SUFFICES ASSUME NEW k \in 1..Len(s) PROVE x[k] = s[k]
    BY <1>5
  <2>1. k \in 1..((i + Len(s)) - (i + 1) + 1) /\ (i + 1) + k - 1 = i + k
    BY <1>1
  <2>2. QED
    BY <1>4, <2>1
<1>7. x = s
  BY <1>4, <1>5, <1>6, SeqEqual
<1>8. QED
  BY <1>7 DEF x

LEMMA MinIs ==
  ASSUME NEW S, S \subseteq Nat, NEW m \in S, \A y \in S : m <= y
  PROVE  Min(S) = m
<1>1. \E x \in S : \A y \in S : x <= y
  OBVIOUS
<1>2. Min(S) \in S /\ \A y \in S : Min(S) <= y
  BY <1>1, Zenon DEF Min
<1>3. Min(S) <= m /\ m <= Min(S) /\ m \in Nat /\ Min(S) \in Nat
  BY <1>2
<1>4. QED
  BY <1>3

LEMMA MaxIs ==
  ASSUME NEW S, S \subseteq Nat, NEW m \in S, \A y \in S : y <= m
  PROVE  Max(S) = m
<1>1. \E x \in S : \A y \in S : x >= y
  OBVIOUS
<1>2. Max(S) \in S /\ \A y \in S : Max(S) >= y
  BY <1>1, Zenon DEF Max
<1>3. Max(S) <= m /\ m <= Max(S) /\ m \in Nat /\ Max(S) \in Nat
  BY <1>2
<1>4. QED
  BY <1>3

\* A unit with nothing but zeros behind it.
LEMMA Trimmed ==
  ASSUME NEW b \in Seq(Nat), NEW m \in 1..Len(b), b[m] # 0,
         \A i \in (m + 1)..Len(b) : b[i] = 0
  PROVE  TrimZeros(b) = SubSeq(b, 1, m)
<1> DEFINE S == {0} \cup {i \in DOMAIN b : b[i] # 0}
<1>1. Len(b) \in Nat /\ DOMAIN b = 1..Len(b)
  OBVIOUS
<1>2. S \subseteq Nat /\ m \in S
  BY <1>1
<1>3. ASSUME NEW y \in S PROVE y <= m
  BY <1>1
<1>4. Max(S) = m
  <2> HIDE DEF S
  <2>1. QED
    BY <1>2, <1>3, MaxIs
<1>5. QED
  BY <1>4 DEF TrimZeros

\* The bytes of a box message before they are escaped, and where they stand.
Rbsp(p) == <<UserData>> \o SizeCode(Len(Uuid) + Len(p)) \o Uuid \o p \o <<Trailing>>
Ffs(p) == (Len(Uuid) + Len(p)) \div Ff

LEMMA Divided ==
  ASSUME NEW n \in Nat
  PROVE  /\ n \div Ff \in Nat /\ n % Ff \in 0..(Ff - 1)
         /\ (n \div Ff) * Ff + (n % Ff) = n
<1>1. Ff \in Nat /\ Ff > 0
  BY FfAssumption
<1>2. n \div Ff \in Int /\ n % Ff \in 0..(Ff - 1) /\ n = Ff * (n \div Ff) + (n % Ff)
  BY <1>1
<1>3. n \div Ff \in Nat
  BY <1>1
<1>4. (n \div Ff) * Ff + (n % Ff) = n
  <2> DEFINE x == n \div Ff
             y == n % Ff
  <2>1. x \in Int /\ y \in Int /\ Ff \in Int /\ n = Ff * x + y
    BY <1>1, <1>2
  <2> HIDE DEF x, y
  <2>2. x * Ff + y = n
    BY <2>1
  <2>3. QED
    BY <2>2 DEF x, y
<1>5. QED
  BY <1>2, <1>3, <1>4

LEMMA SizeCodeBytes ==
  ASSUME NEW n \in Nat
  PROVE  LET c == SizeCode(n)
             q == n \div Ff
         IN /\ c \in Seq(Nat) /\ Len(c) = q + 1
            /\ \A k \in 1..q : c[k] = Ff
            /\ c[q + 1] = n % Ff
<1> DEFINE q == n \div Ff
           f == [i \in 1..q |-> Ff]
           l == <<n % Ff>>
<1>1. q \in Nat /\ n % Ff \in Nat /\ Ff \in Nat
  BY Divided, FfAssumption
<1>2. f \in Seq(Nat) /\ Len(f) = q /\ \A k \in 1..q : f[k] = Ff
  <2> HIDE DEF q
  <2>1. QED
    BY <1>1
<1>3. l \in Seq(Nat) /\ Len(l) = 1 /\ l[1] = n % Ff /\ 1 \in 1..Len(l)
  <2> DEFINE w == n % Ff
  <2>1. w \in Nat
    BY <1>1
  <2> HIDE DEF w
  <2>2. <<w>> \in Seq(Nat) /\ Len(<<w>>) = 1 /\ <<w>>[1] = w
    BY <2>1
  <2>3. QED
    BY <2>2 DEF w
<1>4. SizeCode(n) = f \o l
  BY DEF SizeCode
<1> HIDE DEF f, l, q
<1>5. /\ f \o l \in Seq(Nat) /\ Len(f \o l) = Len(f) + Len(l)
      /\ \A i \in 1..Len(f) : (f \o l)[i] = f[i]
      /\ \A i \in 1..Len(l) : (f \o l)[Len(f) + i] = l[i]
  BY <1>2, <1>3, Behind
<1>6. (f \o l)[q + 1] = n % Ff
  BY <1>2, <1>3, <1>5
<1>7. QED
  BY <1>2, <1>3, <1>4, <1>5, <1>6 DEF q

LEMMA RbspBytes ==
  ASSUME NEW p \in Seq(Nat)
  PROVE  LET r == Rbsp(p)
             q == Ffs(p)
         IN /\ r \in Seq(Nat) /\ q \in Nat /\ Len(Uuid) \in Nat /\ Len(p) \in Nat
            /\ Len(r) = q + Len(Uuid) + Len(p) + 3
            /\ r[1] = UserData
            /\ \A k \in 1..q : r[1 + k] = Ff
            /\ r[q + 2] = (Len(Uuid) + Len(p)) % Ff
            /\ \A k \in 1..Len(Uuid) : r[(q + 2) + k] = Uuid[k]
            /\ \A k \in 1..Len(p) : r[(q + 2 + Len(Uuid)) + k] = p[k]
            /\ r[Len(r)] = Trailing
<1> DEFINE n == Len(Uuid) + Len(p)
           q == n \div Ff
           c == SizeCode(n)
           a1 == <<UserData>>
           a2 == a1 \o c
           a3 == a2 \o Uuid
           a4 == a3 \o p
           z == <<Trailing>>
           r == a4 \o z
<1>1. Uuid \in Seq(Nat) /\ Len(Uuid) \in Nat /\ Len(p) \in Nat /\ n \in Nat
  BY UuidAssumption
<1>2. q \in Nat
  BY <1>1, Divided
<1>3. /\ c \in Seq(Nat) /\ Len(c) = q + 1
      /\ \A k \in 1..q : c[k] = Ff
      /\ c[q + 1] = n % Ff
  BY <1>1, SizeCodeBytes
<1>4. a1 \in Seq(Nat) /\ Len(a1) = 1 /\ a1[1] = UserData
  BY DEF UserData
<1>5. z \in Seq(Nat) /\ Len(z) = 1 /\ z[1] = Trailing
  BY DEF Trailing
<1>6. Rbsp(p) = r /\ Ffs(p) = q
  BY DEF Rbsp, Ffs
<1> HIDE DEF n, q, c, a1, a2, a3, a4, z, r
<1>7. /\ a2 \in Seq(Nat) /\ Len(a2) = q + 2 /\ a2[1] = UserData
      /\ \A k \in 1..(q + 1) : a2[1 + k] = c[k]
  <2>1. /\ a2 \in Seq(Nat) /\ Len(a2) = Len(a1) + Len(c)
        /\ \A i \in 1..Len(a1) : a2[i] = a1[i]
        /\ \A i \in 1..Len(c) : a2[Len(a1) + i] = c[i]
    BY <1>3, <1>4, Behind DEF a2
  <2>2. QED
    BY <1>2, <1>3, <1>4, <2>1
<1>8. /\ a3 \in Seq(Nat) /\ Len(a3) = (q + 2) + Len(Uuid)
      /\ \A i \in 1..(q + 2) : a3[i] = a2[i]
      /\ \A i \in 1..Len(Uuid) : a3[(q + 2) + i] = Uuid[i]
  <2>1. /\ a3 \in Seq(Nat) /\ Len(a3) = Len(a2) + Len(Uuid)
        /\ \A i \in 1..Len(a2) : a3[i] = a2[i]
        /\ \A i \in 1..Len(Uuid) : a3[Len(a2) + i] = Uuid[i]
    BY <1>1, <1>7, Behind DEF a3
  <2>2. Len(a2) = q + 2
    BY <1>7
  <2>3. QED
    BY <2>1, <2>2
<1>9. /\ a4 \in Seq(Nat) /\ Len(a4) = (q + 2 + Len(Uuid)) + Len(p)
      /\ \A i \in 1..(q + 2 + Len(Uuid)) : a4[i] = a3[i]
      /\ \A i \in 1..Len(p) : a4[(q + 2 + Len(Uuid)) + i] = p[i]
  <2>1. /\ a4 \in Seq(Nat) /\ Len(a4) = Len(a3) + Len(p)
        /\ \A i \in 1..Len(a3) : a4[i] = a3[i]
        /\ \A i \in 1..Len(p) : a4[Len(a3) + i] = p[i]
    BY <1>8, Behind DEF a4
  <2>2. Len(a3) = q + 2 + Len(Uuid)
    BY <1>8
  <2>3. QED
    BY <2>1, <2>2
<1>10. /\ r \in Seq(Nat) /\ Len(r) = (q + 2 + Len(Uuid) + Len(p)) + 1
       /\ \A i \in 1..(q + 2 + Len(Uuid) + Len(p)) : r[i] = a4[i]
       /\ r[(q + 2 + Len(Uuid) + Len(p)) + 1] = Trailing
  <2>1. /\ r \in Seq(Nat) /\ Len(r) = Len(a4) + Len(z)
        /\ \A i \in 1..Len(a4) : r[i] = a4[i]
        /\ \A i \in 1..Len(z) : r[Len(a4) + i] = z[i]
    BY <1>5, <1>9, Behind DEF r
  <2>2. 1 \in 1..Len(z)
    BY <1>5
  <2>3. r[Len(a4) + 1] = Trailing
    BY <1>5, <2>1, <2>2
  <2>4. QED
    BY <1>5, <1>9, <2>1, <2>3
<1>11. \A i \in 1..(q + 2) : r[i] = a2[i]
  <2> SUFFICES ASSUME NEW i \in 1..(q + 2) PROVE r[i] = a2[i]
    OBVIOUS
  <2>1. i \in 1..(q + 2 + Len(Uuid)) /\ i \in 1..(q + 2 + Len(Uuid) + Len(p))
    BY <1>1, <1>2
  <2>2. r[i] = a4[i] /\ a4[i] = a3[i] /\ a3[i] = a2[i]
    BY <1>8, <1>9, <1>10, <2>1
  <2>3. QED
    BY <2>2
<1>12. r[1] = UserData
  <2>1. 1 \in 1..(q + 2)
    BY <1>2
  <2>2. QED
    BY <1>7, <1>11, <2>1
<1>13. ASSUME NEW k \in 1..q PROVE r[1 + k] = Ff
  <2>1. 1 + k \in 1..(q + 2) /\ k \in 1..(q + 1)
    BY <1>2
  <2>2. r[1 + k] = a2[1 + k] /\ a2[1 + k] = c[k] /\ c[k] = Ff
    BY <1>3, <1>7, <1>11, <2>1
  <2>3. QED
    BY <2>2
<1>14. r[q + 2] = n % Ff
  <2>1. q + 2 \in 1..(q + 2) /\ q + 1 \in 1..(q + 1) /\ 1 + (q + 1) = q + 2
    BY <1>2
  <2>2. r[q + 2] = a2[q + 2] /\ a2[q + 2] = c[q + 1]
    BY <1>7, <1>11, <2>1
  <2>3. QED
    BY <1>3, <2>2
<1>15. ASSUME NEW k \in 1..Len(Uuid) PROVE r[(q + 2) + k] = Uuid[k]
  <2>1. (q + 2) + k \in 1..(q + 2 + Len(Uuid)) /\ (q + 2) + k \in 1..(q + 2 + Len(Uuid) + Len(p))
    BY <1>1, <1>2
  <2>2. r[(q + 2) + k] = a4[(q + 2) + k] /\ a4[(q + 2) + k] = a3[(q + 2) + k]
    BY <1>9, <1>10, <2>1
  <2>3. QED
    BY <1>8, <2>2
<1>16. ASSUME NEW k \in 1..Len(p) PROVE r[(q + 2 + Len(Uuid)) + k] = p[k]
  <2>1. (q + 2 + Len(Uuid)) + k \in 1..(q + 2 + Len(Uuid) + Len(p))
    BY <1>1, <1>2
  <2>2. r[(q + 2 + Len(Uuid)) + k] = a4[(q + 2 + Len(Uuid)) + k]
    BY <1>10, <2>1
  <2>3. QED
    BY <1>9, <2>2
<1>17. r[Len(r)] = Trailing
  BY <1>10
<1>18. Len(r) = q + Len(Uuid) + Len(p) + 3
  BY <1>1, <1>2, <1>10
<1>19. QED
  BY <1>1, <1>2, <1>6, <1>10, <1>12, <1>13, <1>14, <1>15, <1>16, <1>17, <1>18 DEF n

\* The trailing bits are never escaped away.
LEMMA LastByte ==
  ASSUME NEW r \in Seq(Nat), Len(r) >= 1, r[Len(r)] = Trailing
  PROVE  /\ Escaped(r) \in Seq(Nat) /\ Len(Escaped(r)) \in Nat /\ Len(Escaped(r)) >= 1
         /\ Escaped(r)[Len(Escaped(r))] = Trailing
<1> DEFINE k == Len(r) - 1
           s == Emitted(r)[k]
<1>1. Len(r) \in Nat /\ k \in 0..(Len(r) - 1) /\ k \in 0..Len(r) /\ k + 1 = Len(r)
  OBVIOUS
<1>2. Good(s) /\ Emitted(r)[k + 1] = Emit(s, r[k + 1])
  <2> HIDE DEF k
  <2>1. QED
    BY <1>1, EmittedGood
<1>3. s.out \in Seq(Nat) /\ Len(s.out) \in Nat
  BY <1>2 DEF Good
<1>4. Escaped(r) = Emit(s, Trailing).out
  BY <1>1, <1>2 DEF Escaped
<1>5. Emit(s, Trailing).out = s.out \o <<Trailing>>
  <2>1. Trailing \in Nat /\ ~(Trailing <= 3)
    BY DEF Trailing
  <2>2. QED
    BY <2>1, EmitPlain
<1> HIDE DEF s
<1>6. /\ s.out \o <<Trailing>> \in Seq(Nat) /\ Len(s.out \o <<Trailing>>) = Len(s.out) + 1
      /\ (s.out \o <<Trailing>>)[Len(s.out) + 1] = Trailing
  <2>1. Trailing \in Nat
    BY DEF Trailing
  <2>2. QED
    BY <1>3, <2>1, OneMore
<1>7. QED
  BY <1>3, <1>4, <1>5, <1>6

\* The unit for a payload, byte for byte: no start code is within it but its own.
LEMMA NalBytes ==
  ASSUME NEW p \in Seq(Nat)
  PROVE  LET e == Escaped(Rbsp(p))
             nal == BuildNal(p)
         IN /\ e \in Seq(Nat) /\ Len(e) \in Nat /\ Len(e) >= 1 /\ NoCode(e)
            /\ nal \in Seq(Nat) /\ Len(nal) = 6 + Len(e)
            /\ nal[1] = 0 /\ nal[2] = 0 /\ nal[3] = 0 /\ nal[4] = 1
            /\ nal[5] = 78 /\ nal[6] = 1
            /\ \A i \in 1..Len(e) : nal[6 + i] = e[i]
            /\ nal[Len(nal)] = 128
<1> DEFINE e == Escaped(Rbsp(p))
           h == StartCode \o PrefixSei
           nal == h \o e
<1>1. Rbsp(p) \in Seq(Nat) /\ Len(Rbsp(p)) >= 1 /\ Rbsp(p)[Len(Rbsp(p))] = Trailing
  <2>1. /\ Rbsp(p) \in Seq(Nat) /\ Ffs(p) \in Nat /\ Len(Uuid) \in Nat /\ Len(p) \in Nat
        /\ Len(Rbsp(p)) = Ffs(p) + Len(Uuid) + Len(p) + 3
        /\ Rbsp(p)[Len(Rbsp(p))] = Trailing
    BY RbspBytes
  <2>2. QED
    BY <2>1
<1>2. /\ e \in Seq(Nat) /\ Len(e) \in Nat /\ Len(e) >= 1 /\ e[Len(e)] = Trailing
      /\ NoCode(e)
  BY <1>1, LastByte, EscapeRoundTrip
<1>3. /\ h \in Seq(Nat) /\ Len(h) = 6
      /\ h[1] = 0 /\ h[2] = 0 /\ h[3] = 0 /\ h[4] = 1 /\ h[5] = 78 /\ h[6] = 1
  <2>1. /\ StartCode \in Seq(Nat) /\ Len(StartCode) = 4
        /\ StartCode[1] = 0 /\ StartCode[2] = 0 /\ StartCode[3] = 0 /\ StartCode[4] = 1
    BY DEF StartCode
  <2>2. /\ PrefixSei \in Seq(Nat) /\ Len(PrefixSei) = 2
        /\ PrefixSei[1] = 78 /\ PrefixSei[2] = 1
    BY DEF PrefixSei
  <2>3. /\ h \in Seq(Nat) /\ Len(h) = Len(StartCode) + Len(PrefixSei)
        /\ \A i \in 1..Len(StartCode) : h[i] = StartCode[i]
        /\ \A i \in 1..Len(PrefixSei) : h[Len(StartCode) + i] = PrefixSei[i]
    BY ZenonT(60), <2>1, <2>2, Behind
  <2> HIDE DEF h
  <2>4. h[1] = 0 /\ h[2] = 0 /\ h[3] = 0 /\ h[4] = 1
    BY <2>1, <2>3
  <2>5. h[4 + 1] = 78 /\ h[4 + 2] = 1
    BY <2>1, <2>2, <2>3
  <2>6. QED
    BY <2>1, <2>2, <2>3, <2>4, <2>5
<1>4. BuildNal(p) = nal
  BY DEF BuildNal, Rbsp
<1> HIDE DEF h, e
<1>5. /\ nal \in Seq(Nat) /\ Len(nal) = Len(h) + Len(e)
      /\ \A i \in 1..Len(h) : nal[i] = h[i]
      /\ \A i \in 1..Len(e) : nal[Len(h) + i] = e[i]
  BY ZenonT(60), <1>2, <1>3, Behind
<1> HIDE DEF nal
<1>6. /\ nal[1] = 0 /\ nal[2] = 0 /\ nal[3] = 0 /\ nal[4] = 1
      /\ nal[5] = 78 /\ nal[6] = 1
  BY <1>3, <1>5
<1>7. \A i \in 1..Len(e) : nal[6 + i] = e[i]
  BY <1>3, <1>5
<1>8. Len(e) \in 1..Len(e)
  BY <1>2
<1>9. nal[6 + Len(e)] = 128
  BY <1>2, <1>7, <1>8 DEF Trailing
<1>10. QED
  BY <1>2, <1>3, <1>4, <1>5, <1>6, <1>7, <1>9 DEF e

\* An access unit begins with a start code, of three bytes or of four.
BeginsWithCode(au) ==
  /\ au \in Seq(Nat)
  /\ \/ PatternAt(au, 1, 1)
     \/ Len(au) >= 4 /\ au[1] = 0 /\ PatternAt(au, 2, 1)

\* Behind the unit for a payload the viewer finds the start codes of what follows where
\* they were, and none but its own within it.
LEMMA SentStarts ==
  ASSUME NEW p \in Seq(Nat), NEW au \in Seq(Nat)
  PROVE  Starts(BuildNal(p) \o au) = {5} \cup {Len(BuildNal(p)) + s : s \in Starts(au)}
<1> DEFINE e == Escaped(Rbsp(p))
           nal == BuildNal(p)
           n == Len(nal)
           sent == nal \o au
<1>1. /\ e \in Seq(Nat) /\ Len(e) \in Nat /\ Len(e) >= 1 /\ NoCode(e)
      /\ nal \in Seq(Nat) /\ n = 6 + Len(e)
      /\ nal[1] = 0 /\ nal[2] = 0 /\ nal[3] = 0 /\ nal[4] = 1
      /\ nal[5] = 78 /\ nal[6] = 1
      /\ \A i \in 1..Len(e) : nal[6 + i] = e[i]
      /\ nal[n] = 128
  BY NalBytes
<1>2. /\ sent \in Seq(Nat) /\ n \in Nat /\ Len(au) \in Nat
      /\ Len(sent) = n + Len(au)
      /\ \A i \in 1..n : sent[i] = nal[i]
      /\ \A i \in 1..Len(au) : sent[n + i] = au[i]
  <2>1. nal \in Seq(Nat)
    BY <1>1
  <2> HIDE DEF nal
  <2>2. QED
    BY <2>1, Behind
<1> HIDE DEF e, n, nal, sent
<1>0. n = 6 + Len(e) /\ Len(e) \in Nat /\ Len(e) >= 1 /\ n \in Nat /\ n >= 7
  <2>1. n = 6 + Len(e) /\ Len(e) \in Nat /\ Len(e) >= 1
    BY <1>1, Zenon
  <2>2. QED
    BY <2>1
<1>3. /\ sent[1] = 0 /\ sent[2] = 0 /\ sent[3] = 0 /\ sent[4] = 1
      /\ sent[5] = 78 /\ sent[6] = 1 /\ sent[n] = 128
  <2>1. 1 \in 1..n /\ 2 \in 1..n /\ 3 \in 1..n /\ 4 \in 1..n /\ 5 \in 1..n /\ 6 \in 1..n /\ n \in 1..n
    BY <1>0
  <2>2. /\ sent[1] = nal[1] /\ sent[2] = nal[2] /\ sent[3] = nal[3] /\ sent[4] = nal[4]
        /\ sent[5] = nal[5] /\ sent[6] = nal[6] /\ sent[n] = nal[n]
    BY <1>2, <2>1
  <2>3. QED
    BY <1>1, <2>2
<1>4. \A i \in 1..Len(e) : sent[6 + i] = e[i]
  <2> SUFFICES ASSUME NEW i \in 1..Len(e) PROVE sent[6 + i] = e[i]
    OBVIOUS
  <2>1. 6 + i \in 1..n
    BY <1>1
  <2>2. QED
    BY <1>1, <1>2, <2>1
<1>5. ASSUME NEW i \in 1..n, i # 2 PROVE ~PatternAt(sent, i, 1)
  <2>1. CASE i \in {1, 3, 4, 5, 6}
    <3>1. i = 1 => sent[i + 2] = 0
      BY <1>3
    <3>2. i = 3 => sent[i + 1] = 1
      BY <1>3
    <3>3. i \in {4, 5, 6} => sent[i] # 0
      BY <1>3
    <3>4. QED
      BY <2>1, <3>1, <3>2, <3>3 DEF PatternAt
  <2>2. CASE i \in 7..(n - 2)
    <3>1. i - 6 \in 1..Len(e) /\ i - 5 \in 1..Len(e) /\ i - 4 \in 1..Len(e)
      BY <1>1, <2>2
    <3>2. 6 + (i - 6) = i /\ 6 + (i - 5) = i + 1 /\ 6 + (i - 4) = i + 2
      BY <1>2, <2>2
    <3>3. sent[i] = e[i - 6] /\ sent[i + 1] = e[i - 5] /\ sent[i + 2] = e[i - 4]
      <4>1. sent[6 + (i - 6)] = e[i - 6] /\ sent[6 + (i - 5)] = e[i - 5] /\ sent[6 + (i - 4)] = e[i - 4]
        BY <1>4, <3>1
      <4>2. QED
        BY <3>2, <4>1
    <3>4. ~((i - 6) + 2 <= Len(e) /\ e[i - 6] = 0 /\ e[(i - 6) + 1] = 0 /\ e[(i - 6) + 2] <= 2)
      BY <1>1, <3>1 DEF NoCode
    <3>5. (i - 6) + 1 = i - 5 /\ (i - 6) + 2 = i - 4 /\ i - 4 <= Len(e)
      BY <1>1, <1>2, <2>2, <3>1
    <3>6. ~(e[i - 6] = 0 /\ e[i - 5] = 0 /\ e[i - 4] <= 2)
      BY <3>4, <3>5
    <3>7. QED
      BY <3>3, <3>6 DEF PatternAt
  <2>3. CASE i = n - 1
    <3>1. i + 1 = n
      BY <1>2, <2>3
    <3>2. QED
      BY <1>3, <3>1 DEF PatternAt
  <2>4. CASE i = n
    BY <1>3, <2>4 DEF PatternAt
  <2>5. QED
    <3>1. i \in {1, 3, 4, 5, 6} \/ i \in 7..(n - 2) \/ i = n - 1 \/ i = n
      BY <1>0, <1>5
    <3>2. QED
      BY <2>1, <2>2, <2>3, <2>4, <3>1
<1>6. PatternAt(sent, 2, 1) /\ 5 \in 4..(Len(sent) + 1) /\ 5 - 3 = 2
  <2>1. 2 + 2 <= Len(sent) /\ 5 \in 4..(Len(sent) + 1) /\ 5 - 3 = 2
    BY <1>0, <1>2
  <2>2. 2 + 1 = 3 /\ 2 + 2 = 4
    OBVIOUS
  <2>3. sent[2] = 0 /\ sent[2 + 1] = 0 /\ sent[2 + 2] = 1
    BY <1>3, <2>2
  <2>4. QED
    BY <2>1, <2>3 DEF PatternAt
<1>7. ASSUME NEW i \in 1..Len(au)
      PROVE  PatternAt(sent, n + i, 1) <=> PatternAt(au, i, 1)
  <2>1. n + i + 2 <= Len(sent) <=> i + 2 <= Len(au)
    BY SMTT(40), <1>2
  <2>2. CASE i + 2 <= Len(au)
    <3>1. i \in 1..Len(au) /\ i + 1 \in 1..Len(au) /\ i + 2 \in 1..Len(au)
      BY <1>2, <2>2
    <3>2. n + (i + 1) = (n + i) + 1 /\ n + (i + 2) = (n + i) + 2
      BY <1>2
    <3>3. sent[n + i] = au[i] /\ sent[(n + i) + 1] = au[i + 1] /\ sent[(n + i) + 2] = au[i + 2]
      <4>1. sent[n + i] = au[i] /\ sent[n + (i + 1)] = au[i + 1] /\ sent[n + (i + 2)] = au[i + 2]
        BY <1>2, <3>1
      <4>2. QED
        BY <3>2, <4>1
    <3>4. QED
      BY <2>1, <3>3 DEF PatternAt
  <2>3. CASE ~(i + 2 <= Len(au))
    BY <2>1, <2>3 DEF PatternAt
  <2>4. QED
    BY <2>2, <2>3
<1>8. ASSUME NEW s \in Starts(sent) PROVE s = 5 \/ \E x \in Starts(au) : s = n + x
  <2>1. s \in 4..(Len(sent) + 1) /\ PatternAt(sent, s - 3, 1)
    BY DEF Starts
  <2>2. CASE s - 3 \in 1..n
    <3>1. s - 3 = 2
      BY <1>5, <2>1, <2>2
    <3>2. QED
      BY <2>1, <3>1
  <2>3. CASE s - 3 \notin 1..n
    <3>1. /\ (s - n) - 3 \in 1..Len(au) /\ s - n \in 4..(Len(au) + 1)
          /\ n + ((s - n) - 3) = s - 3 /\ s = n + (s - n)
      <4>1. s - 3 + 2 <= Len(sent)
        BY <2>1 DEF PatternAt
      <4>2. QED
        BY <1>2, <2>1, <2>3, <4>1
    <3>2. PatternAt(au, (s - n) - 3, 1)
      BY <1>7, <2>1, <3>1
    <3>3. s - n \in Starts(au)
      BY <3>1, <3>2 DEF Starts
    <3>4. QED
      BY <3>1, <3>3
  <2>4. QED
    BY <2>2, <2>3
<1>9. 5 \in Starts(sent)
  BY <1>6 DEF Starts
<1>10. ASSUME NEW s \in Starts(au) PROVE n + s \in Starts(sent)
  <2>1. s \in 4..(Len(au) + 1) /\ PatternAt(au, s - 3, 1)
    BY DEF Starts
  <2>2. s - 3 \in 1..Len(au) /\ n + s \in 4..(Len(sent) + 1) /\ n + (s - 3) = (n + s) - 3
    BY <1>2, <2>1
  <2>3. PatternAt(sent, (n + s) - 3, 1)
    BY <1>7, <2>1, <2>2
  <2>4. QED
    BY <2>2, <2>3 DEF Starts
<1>11. Starts(sent) = {5} \cup {n + s : s \in Starts(au)}
  BY <1>8, <1>9, <1>10
<1>12. QED
  BY <1>11 DEF sent, n, nal

\* Where the first unit of what follows begins.
LEMMA FirstStart ==
  ASSUME NEW au, BeginsWithCode(au)
  PROVE  \E s \in {4, 5} : /\ s \in Starts(au)
                           /\ \A x \in Starts(au) : s <= x
                           /\ s = 5 => au[1] = 0 /\ Len(au) >= 1
<1>1. au \in Seq(Nat) /\ Len(au) \in Nat
  BY DEF BeginsWithCode
<1>2. \A x \in Starts(au) : x >= 4 /\ x \in Nat /\ PatternAt(au, x - 3, 1)
  BY <1>1 DEF Starts
<1>3. CASE PatternAt(au, 1, 1)
  <2>1. 4 \in 4..(Len(au) + 1) /\ 4 - 3 = 1
    BY <1>1, <1>3 DEF PatternAt
  <2>2. 4 \in Starts(au)
    BY <1>3, <2>1 DEF Starts
  <2>3. QED
    BY <1>2, <2>2
<1>4. CASE ~PatternAt(au, 1, 1)
  <2>1. Len(au) >= 4 /\ au[1] = 0 /\ PatternAt(au, 2, 1)
    BY <1>4 DEF BeginsWithCode
  <2>2. 5 \in 4..(Len(au) + 1) /\ 5 - 3 = 2
    BY <1>1, <2>1
  <2>3. 5 \in Starts(au)
    BY <2>1, <2>2 DEF Starts
  <2>4. ASSUME NEW x \in Starts(au) PROVE 5 <= x
    <3>1. x # 4
      <4> SUFFICES ASSUME x = 4 PROVE FALSE
        OBVIOUS
      <4>1. x - 3 = 1
        OBVIOUS
      <4>2. QED
        BY <1>2, <1>4, <4>1
    <3>2. QED
      BY <1>2, <3>1
  <2>5. QED
    BY <2>1, <2>3, <2>4
<1>5. QED
  BY <1>3, <1>4

\* The unit for a payload is cut where it ends, whichever start code follows it.
LEMMA FirstUnit ==
  ASSUME NEW p \in Seq(Nat), NEW au, BeginsWithCode(au)
  PROVE  NalAt(BuildNal(p) \o au, 5) = PrefixSei \o Escaped(Rbsp(p))
<1> DEFINE e == Escaped(Rbsp(p))
           nal == BuildNal(p)
           n == Len(nal)
           sent == nal \o au
           x == PrefixSei \o e
           later == {y \in Starts(sent) : y > 5}
<1>1. /\ e \in Seq(Nat) /\ Len(e) \in Nat /\ Len(e) >= 1
      /\ nal \in Seq(Nat) /\ n = 6 + Len(e)
      /\ nal[5] = 78 /\ nal[6] = 1
      /\ \A i \in 1..Len(e) : nal[6 + i] = e[i]
      /\ nal[n] = 128
  BY NalBytes
<1>2. au \in Seq(Nat)
  BY DEF BeginsWithCode
<1>3. Starts(sent) = {5} \cup {n + s : s \in Starts(au)}
  BY <1>2, SentStarts
<1>4. /\ sent \in Seq(Nat) /\ n \in Nat /\ Len(au) \in Nat
      /\ Len(sent) = n + Len(au)
      /\ \A i \in 1..n : sent[i] = nal[i]
      /\ \A i \in 1..Len(au) : sent[n + i] = au[i]
  <2>1. nal \in Seq(Nat)
    BY <1>1
  <2> HIDE DEF nal
  <2>2. QED
    BY <1>2, <2>1, Behind
<1>5. /\ x \in Seq(Nat) /\ Len(x) = 2 + Len(e) /\ x[1] = 78 /\ x[2] = 1
      /\ \A i \in 1..Len(e) : x[2 + i] = e[i]
  <2>1. /\ PrefixSei \in Seq(Nat) /\ Len(PrefixSei) = 2
        /\ PrefixSei[1] = 78 /\ PrefixSei[2] = 1
    BY DEF PrefixSei
  <2>2. e \in Seq(Nat)
    BY <1>1
  <2> HIDE DEF e
  <2>3. /\ x \in Seq(Nat) /\ Len(x) = Len(PrefixSei) + Len(e)
        /\ \A i \in 1..Len(PrefixSei) : x[i] = PrefixSei[i]
        /\ \A i \in 1..Len(e) : x[Len(PrefixSei) + i] = e[i]
    BY ZenonT(60), <2>1, <2>2, Behind
  <2> HIDE DEF x
  <2>4. QED
    BY <2>1, <2>3
<1> HIDE DEF e, nal, n, sent, x
<1>6. n = 6 + Len(e) /\ Len(e) \in Nat /\ Len(e) >= 1 /\ n \in Nat /\ Len(x) = 2 + Len(e)
  BY <1>1, <1>4, <1>5, Zenon
<1>7. Len(x) \in Nat /\ Len(x) >= 3 /\ 4 + Len(x) = n
  BY <1>6
<1>8. \A k \in 1..Len(x) : sent[4 + k] = x[k]
  <2> SUFFICES ASSUME NEW k \in 1..Len(x) PROVE sent[4 + k] = x[k]
    OBVIOUS
  <2>1. 4 + k \in 1..n
    BY <1>7
  <2>2. sent[4 + k] = nal[4 + k]
    BY <1>4, <2>1
  <2>3. CASE k = 1
    BY <1>1, <1>5, <2>2, <2>3
  <2>4. CASE k = 2
    BY <1>1, <1>5, <2>2, <2>4
  <2>5. CASE k >= 3
    <3>1. k - 2 \in 1..Len(e) /\ 6 + (k - 2) = 4 + k /\ 2 + (k - 2) = k
      BY <1>6, <2>5
    <3>2. nal[6 + (k - 2)] = e[k - 2] /\ x[2 + (k - 2)] = e[k - 2]
      BY <1>1, <1>5, <3>1
    <3>3. QED
      BY <2>2, <3>1, <3>2
  <2>6. QED
    BY <2>3, <2>4, <2>5
<1>9. x[Len(x)] = 128
  <2>1. Len(x) \in 1..Len(x) /\ n \in 1..n
    BY <1>6, <1>7
  <2>2. sent[4 + Len(x)] = x[Len(x)] /\ sent[n] = nal[n]
    BY <1>4, <1>8, <2>1
  <2>3. QED
    BY <1>1, <1>7, <2>2
<1>10. PICK s \in {4, 5} : /\ s \in Starts(au)
                           /\ \A y \in Starts(au) : s <= y
                           /\ s = 5 => au[1] = 0 /\ Len(au) >= 1
  BY FirstStart, Zenon
<1>11. Min(later) = n + s /\ later # {}
  <2>1. \A y \in Starts(au) : y \in Nat
    BY <1>4 DEF Starts
  <2>2. later \subseteq Nat /\ n + s \in later
    <3>1. n \in Nat /\ n >= 7 /\ s \in Nat
      BY <1>6
    <3>2. n + s \in Starts(sent) /\ n + s > 5
      BY <1>3, <1>10, <3>1
    <3>3. \A y \in Starts(sent) : y \in Nat
      BY <1>4 DEF Starts
    <3>4. QED
      BY <3>2, <3>3
  <2>3. ASSUME NEW y \in later PROVE n + s <= y
    <3>1. PICK z \in Starts(au) : y = n + z
      BY <1>3
    <3>2. QED
      BY <1>4, <1>10, <2>1, <3>1
  <2> HIDE DEF later
  <2>4. QED
    BY <2>2, <2>3, MinIs
<1>12. NalAt(sent, 5) = TrimZeros(SubSeq(sent, 5, (n + s) - 4))
  BY <1>11 DEF NalAt
<1>13. CASE s = 4
  <2>1. (n + s) - 4 = 4 + Len(x) /\ 4 + 1 = 5
    BY <1>7, <1>6, <1>13
  <2>2. SubSeq(sent, 4 + 1, 4 + Len(x)) = x
    BY <1>5, <1>8, Stretch
  <2>3. TrimZeros(x) = SubSeq(x, 1, Len(x))
    <3>1. Len(x) \in 1..Len(x) /\ x[Len(x)] # 0 /\ \A i \in (Len(x) + 1)..Len(x) : x[i] = 0
      BY <1>7, <1>9
    <3>2. QED
      BY <1>5, <3>1, Trimmed
  <2>4. SubSeq(x, 1, Len(x)) = x
    BY <1>5, SubSeqFull
  <2>5. QED
    BY <1>12, <2>1, <2>2, <2>3, <2>4 DEF sent, x, e, nal
<1>14. CASE s = 5
  <2> DEFINE w == x \o <<0>>
  <2>1. /\ w \in Seq(Nat) /\ Len(w) = Len(x) + 1
        /\ \A i \in 1..Len(x) : w[i] = x[i]
        /\ w[Len(x) + 1] = 0
    BY <1>5, OneMore
  <2> HIDE DEF w
  <2>2. (n + s) - 4 = 4 + Len(w) /\ 4 + 1 = 5 /\ 4 + (Len(x) + 1) = n + 1
    BY <1>7, <1>6, <1>14, <2>1
  <2>3. \A k \in 1..Len(w) : sent[4 + k] = w[k]
    <3> SUFFICES ASSUME NEW k \in 1..Len(w) PROVE sent[4 + k] = w[k]
      OBVIOUS
    <3>1. CASE k \in 1..Len(x)
      BY <1>8, <2>1, <3>1
    <3>2. CASE k = Len(x) + 1
      <4>1. 1 \in 1..Len(au)
        BY <1>4, <1>10, <1>14
      <4>2. sent[n + 1] = 0
        BY <1>4, <1>10, <1>14, <4>1
      <4>3. QED
        BY <2>1, <2>2, <3>2, <4>2
    <3>3. QED
      BY <1>7, <2>1, <3>1, <3>2
  <2>4. SubSeq(sent, 4 + 1, 4 + Len(w)) = w
    <3>1. w \in Seq(Nat) /\ 4 \in Nat
      BY <2>1
    <3>2. QED
      BY <2>3, <3>1, Stretch
  <2>5. TrimZeros(w) = SubSeq(w, 1, Len(x))
    <3>1. Len(x) \in 1..Len(w) /\ Len(x) \in 1..Len(x)
      BY <1>7, <2>1
    <3>2. w[Len(x)] # 0
      BY <1>9, <2>1, <3>1
    <3>3. \A i \in (Len(x) + 1)..Len(w) : w[i] = 0
      BY <1>7, <2>1
    <3>4. QED
      BY <2>1, <3>1, <3>2, <3>3, Trimmed
  <2>6. SubSeq(w, 1, Len(x)) = x
    <3>1. \A k \in 1..Len(x) : w[0 + k] = x[k]
      BY <1>7, <2>1
    <3>2. SubSeq(w, 0 + 1, 0 + Len(x)) = x
      BY <1>5, <3>1, Stretch
    <3>3. 0 + 1 = 1 /\ 0 + Len(x) = Len(x)
      BY <1>7
    <3>4. QED
      BY <3>2, <3>3
  <2>7. QED
    BY <1>12, <2>2, <2>4, <2>5, <2>6 DEF sent, x, e, nal
<1>15. QED
  BY <1>13, <1>14

\* The units behind it are cut as they would be without it.
LEMMA LaterUnits ==
  ASSUME NEW p \in Seq(Nat), NEW au \in Seq(Nat), NEW s \in Starts(au)
  PROVE  NalAt(BuildNal(p) \o au, Len(BuildNal(p)) + s) = NalAt(au, s)
<1> DEFINE nal == BuildNal(p)
           n == Len(nal)
           sent == nal \o au
           there == {y \in Starts(sent) : y > n + s}
           here == {y \in Starts(au) : y > s}
<1>1. nal \in Seq(Nat) /\ n \in Nat /\ n >= 7
  <2> DEFINE e == Escaped(Rbsp(p))
  <2>1. nal \in Seq(Nat) /\ n = 6 + Len(e) /\ Len(e) \in Nat /\ Len(e) >= 1
    BY NalBytes
  <2> HIDE DEF e, n
  <2>2. QED
    BY <2>1
<1>2. Starts(sent) = {5} \cup {n + y : y \in Starts(au)}
  BY SentStarts
<1> HIDE DEF nal
<1>3. /\ sent \in Seq(Nat) /\ Len(au) \in Nat
      /\ Len(sent) = n + Len(au)
      /\ \A i \in 1..Len(au) : sent[n + i] = au[i]
  BY <1>1, Behind
<1> HIDE DEF n, sent
<1>4. \A y \in Starts(au) : y \in 4..(Len(au) + 1)
  BY DEF Starts
<1>5. there = {n + y : y \in here}
  <2>1. \A y \in Starts(au) : n + y > n + s <=> y > s
    BY SMTT(40), <1>1, <1>3, <1>4
  <2>2. ~(5 > n + s)
    BY <1>1, <1>3, <1>4
  <2>3. QED
    BY <1>2, <2>1, <2>2
<1>6. ASSUME NEW E \in 0..Len(au)
      PROVE  SubSeq(sent, n + s, n + E) = SubSeq(au, s, E)
  <2>1. s \in Nat /\ s >= 4 /\ E \in Nat /\ E <= Len(au)
    BY <1>3, <1>4
  <2>2. CASE E < s
    <3>1. n + E < n + s /\ n + E \in Int /\ n + s \in Int /\ E \in Int /\ s \in Int
      BY <1>1, <2>1, <2>2
    <3>2. QED
      BY <2>2, <3>1, SubSeqEmpty
  <2>3. CASE E >= s
    <3> DEFINE x == SubSeq(au, s, E)
               i == (n + s) - 1
    <3>1. \A k \in s..E : au[k] \in Nat
      <4> SUFFICES ASSUME NEW k \in s..E PROVE au[k] \in Nat
        OBVIOUS
      <4>1. k \in 1..Len(au)
        BY <1>3, <2>1
      <4>2. QED
        BY <4>1
    <3>2. /\ x \in Seq(Nat) /\ Len(x) = IF s <= E THEN (E - s) + 1 ELSE 0
          /\ \A k \in 1..((E - s) + 1) : x[k] = au[(s + k) - 1]
      <4>1. s \in Int /\ E \in Int
        BY <2>1
      <4>2. QED
        BY <3>1, <4>1, SubSeqProperties
    <3> HIDE DEF x
    <3>3. Len(x) = (E - s) + 1
      BY <2>1, <2>3, <3>2
    <3>4. i \in Nat /\ i + 1 = n + s /\ i + Len(x) = n + E
      BY <1>1, <2>1, <2>3, <3>3
    <3>5. \A k \in 1..Len(x) : sent[i + k] = x[k]
      <4> SUFFICES ASSUME NEW k \in 1..Len(x) PROVE sent[i + k] = x[k]
        OBVIOUS
      <4>1. (s + k) - 1 \in 1..Len(au) /\ i + k = n + ((s + k) - 1) /\ k \in 1..((E - s) + 1)
        BY <1>1, <1>3, <2>1, <2>3, <3>3
      <4>2. sent[n + ((s + k) - 1)] = au[(s + k) - 1] /\ x[k] = au[(s + k) - 1]
        BY <1>3, <3>2, <4>1
      <4>3. QED
        BY <4>1, <4>2
    <3> HIDE DEF i
    <3>6. SubSeq(sent, i + 1, i + Len(x)) = x
      BY <3>2, <3>4, <3>5, Stretch
    <3>7. QED
      BY <3>4, <3>6 DEF x
  <2>4. E < s \/ E >= s
    BY <2>1
  <2>5. QED
    BY <2>2, <2>3, <2>4
<1>7. CASE here = {}
  <2>1. there = {}
    BY <1>5, <1>7
  <2>2. SubSeq(sent, n + s, n + Len(au)) = SubSeq(au, s, Len(au))
    <3>1. Len(au) \in 0..Len(au)
      BY <1>3
    <3>2. QED
      BY <1>6, <3>1
  <2>3. NalAt(sent, n + s) = TrimZeros(SubSeq(sent, n + s, Len(sent)))
    BY <2>1 DEF NalAt
  <2>4. NalAt(au, s) = TrimZeros(SubSeq(au, s, Len(au)))
    BY <1>7 DEF NalAt
  <2>5. QED
    BY <1>3, <2>2, <2>3, <2>4 DEF sent, n, nal
<1>8. CASE here # {}
  <2>1. here \subseteq Nat
    BY <1>3, <1>4
  <2>2. PICK m \in here : \A y \in here : m <= y
    <3> HIDE DEF here
    <3>1. QED
      BY <1>8, <2>1, LeastNumber
  <2>3. Min(here) = m
    <3> HIDE DEF here
    <3>1. QED
      BY <2>1, <2>2, MinIs
  <2>4. there \subseteq Nat /\ n + m \in there /\ \A y \in there : n + m <= y
    <3> HIDE DEF here, there
    <3>1. QED
      BY <1>1, <1>5, <2>1, <2>2
  <2>5. Min(there) = n + m /\ there # {}
    <3> HIDE DEF there
    <3>1. QED
      BY <2>4, MinIs
  <2>6. NalAt(sent, n + s) = TrimZeros(SubSeq(sent, n + s, (n + m) - 4))
    BY <2>5 DEF NalAt
  <2>7. NalAt(au, s) = TrimZeros(SubSeq(au, s, m - 4))
    BY <1>8, <2>3 DEF NalAt
  <2>8. m - 4 \in 0..Len(au) /\ n + (m - 4) = (n + m) - 4
    <3>1. m \in 4..(Len(au) + 1)
      BY <1>4
    <3>2. QED
      BY <1>1, <1>3, <3>1
  <2>9. SubSeq(sent, n + s, n + (m - 4)) = SubSeq(au, s, m - 4)
    BY <1>6, <2>8
  <2>10. QED
    BY <2>6, <2>7, <2>8, <2>9 DEF sent, n, nal
<1>9. QED
  BY <1>7, <1>8

-----------------------------------------------------------------------------
(* The messages of a unit                                                    *)

\* A type or size code of m continuation bytes and a last one.
Code(b, i, m) ==
  /\ b \in Seq(Nat) /\ i \in Nat /\ m \in Nat /\ i + m <= Len(b)
  /\ \A k \in 0..(m - 1) : b[i + k] = Ff
  /\ b[i + m] # Ff

LEMMA CodeIs ==
  ASSUME NEW b, NEW i, NEW m, Code(b, i, m),
         NEW v, v = m * Ff + b[i + m], NEW x, x = (i + m) + 1
  PROVE  CodeAt(b, i) = {[value |-> v, next |-> x]}
<1> DEFINE K == {k \in i..Len(b) : b[k] # Ff /\ \A j \in i..(k - 1) : b[j] = Ff}
<1>1. /\ Len(b) \in Nat /\ b \in Seq(Nat) /\ i \in Nat /\ m \in Nat /\ i + m <= Len(b)
      /\ \A k \in 0..(m - 1) : b[i + k] = Ff
      /\ b[i + m] # Ff
  BY DEF Code
<1>2. i + m \in K
  <2>1. i + m \in i..Len(b)
    BY <1>1
  <2>2. ASSUME NEW j \in i..((i + m) - 1) PROVE b[j] = Ff
    <3>1. j - i \in 0..(m - 1) /\ i + (j - i) = j
      BY <1>1
    <3>2. QED
      BY <1>1, <3>1
  <2>3. QED
    BY <1>1, <2>1, <2>2
<1>3. ASSUME NEW k \in K PROVE k = i + m
  <2>1. k \in i..Len(b) /\ b[k] # Ff /\ \A j \in i..(k - 1) : b[j] = Ff
    OBVIOUS
  <2>2. ~(k < i + m)
    <3> SUFFICES ASSUME k < i + m PROVE FALSE
      OBVIOUS
    <3>1. k - i \in 0..(m - 1) /\ i + (k - i) = k
      BY <1>1, <2>1
    <3>2. QED
      BY <1>1, <2>1, <3>1
  <2>3. ~(k > i + m)
    <3> SUFFICES ASSUME k > i + m PROVE FALSE
      OBVIOUS
    <3>1. i + m \in i..(k - 1)
      BY <1>1, <2>1
    <3>2. QED
      BY <1>1, <2>1, <3>1
  <2>4. QED
    BY <1>1, <2>1, <2>2, <2>3
<1>4. K = {i + m}
  <2> HIDE DEF K
  <2>1. QED
    BY <1>2, <1>3
<1>5. CodeAt(b, i) = {[value |-> (last - i) * Ff + b[last], next |-> last + 1] : last \in K}
  BY DEF CodeAt
<1>6. CodeAt(b, i) = {[value |-> ((i + m) - i) * Ff + b[i + m], next |-> (i + m) + 1]}
  <2> HIDE DEF K
  <2>1. QED
    BY <1>4, <1>5, Zenon
<1>7. (i + m) - i = m
  BY <1>1
<1>8. QED
  BY <1>6, <1>7

LEMMA TimesNat ==
  ASSUME NEW a \in Nat, NEW c \in Nat
  PROVE  a * c \in Nat
OBVIOUS

\* The viewer always goes forward.
LEMMA CodeAhead ==
  ASSUME NEW b \in Seq(Nat), NEW i \in Nat, i >= 1, NEW c \in CodeAt(b, i)
  PROVE  c.next \in Nat /\ c.next > i /\ c.value \in Nat
<1>1. PICK last \in i..Len(b) :
        c = [value |-> (last - i) * Ff + b[last], next |-> last + 1]
  BY DEF CodeAt
<1>2. Len(b) \in Nat /\ last - i \in Nat /\ Ff \in Nat /\ last \in 1..Len(b)
  BY FfAssumption
<1>3. (last - i) * Ff \in Nat /\ b[last] \in Nat
  BY <1>2, TimesNat
<1>4. (last - i) * Ff + b[last] \in Nat
  <2> DEFINE x == (last - i) * Ff
  <2>1. x \in Nat /\ b[last] \in Nat
    BY <1>3
  <2> HIDE DEF x
  <2>2. x + b[last] \in Nat
    BY <2>1
  <2>3. QED
    BY <2>2 DEF x
<1>5. c.value = (last - i) * Ff + b[last] /\ c.next = last + 1
  BY <1>1
<1>6. c.value \in Nat
  BY <1>4, <1>5, Zenon
<1>7. QED
  BY <1>2, <1>5, <1>6

LEMMA MessageAhead ==
  ASSUME NEW b \in Seq(Nat), NEW i \in Nat, i >= 1, NEW m \in MessageAt(b, i)
  PROVE  m.next \in Nat /\ m.next > i
<1>1. PICK type \in CodeAt(b, i) : \E size \in CodeAt(b, type.next) :
        m = [type |-> type.value, next |-> size.next + size.value,
             body |-> Slice(b, size.next, size.next + size.value - 1)]
  BY Zenon DEF MessageAt
<1>2. PICK size \in CodeAt(b, type.next) :
        m = [type |-> type.value, next |-> size.next + size.value,
             body |-> Slice(b, size.next, size.next + size.value - 1)]
  BY <1>1
<1>3. type.next \in Nat /\ type.next > i
  BY CodeAhead
<1>4. type.next >= 1
  BY <1>3
<1>5. size.next \in Nat /\ size.next > type.next /\ size.value \in Nat
  BY <1>3, <1>4, CodeAhead
<1>6. m.next = size.next + size.value
  BY <1>2
<1>7. QED
  BY <1>3, <1>5, <1>6

MessagesFrom(f, r, i) ==
  UNION {IF Ours(m) THEN {From(m.body, Len(Uuid) + 1)}
         ELSE IF m.next > Len(r) THEN {} ELSE f[m.next] : m \in MessageAt(r, i)}

LEMMA MessagesLookAhead ==
  ASSUME NEW r \in Seq(Nat), NEW i \in 1..(Len(r) + 1), NEW f, NEW g,
         \A j \in (i + 1)..(Len(r) + 1) : f[j] = g[j]
  PROVE  MessagesFrom(f, r, i) = MessagesFrom(g, r, i)
<1> DEFINE one(h, m) == IF Ours(m) THEN {From(m.body, Len(Uuid) + 1)}
                        ELSE IF m.next > Len(r) THEN {} ELSE h[m.next]
<1>1. ASSUME NEW m \in MessageAt(r, i) PROVE one(f, m) = one(g, m)
  <2>1. i \in Nat /\ i >= 1 /\ Len(r) \in Nat
    OBVIOUS
  <2>2. m.next \in Nat /\ m.next > i
    BY <2>1, MessageAhead
  <2>3. ~(m.next > Len(r)) => m.next \in (i + 1)..(Len(r) + 1)
    BY <2>1, <2>2
  <2>4. ~(m.next > Len(r)) => f[m.next] = g[m.next]
    BY <2>3
  <2>5. QED
    BY <2>4, Zenon
<1>2. /\ MessagesFrom(f, r, i) = UNION {one(f, m) : m \in MessageAt(r, i)}
      /\ MessagesFrom(g, r, i) = UNION {one(g, m) : m \in MessageAt(r, i)}
  BY DEF MessagesFrom
<1> HIDE DEF one
<1>3. {one(f, m) : m \in MessageAt(r, i)} = {one(g, m) : m \in MessageAt(r, i)}
  BY <1>1
<1>4. QED
  BY <1>2, <1>3

LEMMA MessagesDownTo ==
  ASSUME NEW r \in Seq(Nat)
  PROVE  \E f : f = [i \in 1..(Len(r) + 1) |-> MessagesFrom(f, r, i)]
<1> DEFINE n == Len(r)
           T == {k \in Nat : \E f : f = [i \in (k + 1)..(n + 1) |-> MessagesFrom(f, r, i)]}
<1>0. n \in Nat
  OBVIOUS
<1>1. n \in T
  <2> DEFINE e == MessagesFrom(<<>>, r, n + 1)
             f == [i \in (n + 1)..(n + 1) |-> e]
  <2>1. ASSUME NEW i \in (n + 1)..(n + 1) PROVE MessagesFrom(f, r, i) = e
    <3>1. i = n + 1 /\ i \in 1..(n + 1) /\ \A j \in (i + 1)..(n + 1) : f[j] = <<>>[j]
      BY <1>0
    <3> HIDE DEF f
    <3>2. MessagesFrom(f, r, i) = MessagesFrom(<<>>, r, i)
      BY <3>1, MessagesLookAhead
    <3>3. QED
      BY <3>1, <3>2
  <2>2. f = [i \in (n + 1)..(n + 1) |-> MessagesFrom(f, r, i)]
    BY <2>1
  <2>3. \E h : h = [i \in (n + 1)..(n + 1) |-> MessagesFrom(h, r, i)]
    <3> HIDE DEF f
    <3>1. QED
      BY <2>2, Zenon
  <2>4. QED
    BY <1>0, <2>3
<1>2. \A k \in 0..(n - 1) : k + 1 \in T => k \in T
  <2> SUFFICES ASSUME NEW k \in 0..(n - 1), NEW f,
                      f = [i \in (k + 2)..(n + 1) |-> MessagesFrom(f, r, i)]
               PROVE  k \in T
    <3>1. \A k \in 0..(n - 1) : (k + 1) + 1 = k + 2
      OBVIOUS
    <3>2. QED
      BY <3>1
  <2> DEFINE g == [i \in (k + 1)..(n + 1) |->
                     IF i = k + 1 THEN MessagesFrom(f, r, k + 1) ELSE f[i]]
  <2>1. \A j \in (k + 2)..(n + 1) : f[j] = g[j]
    OBVIOUS
  <2>2. ASSUME NEW i \in (k + 1)..(n + 1) PROVE g[i] = MessagesFrom(g, r, i)
    <3>1. i \in 1..(n + 1) /\ \A j \in (i + 1)..(n + 1) : f[j] = g[j]
      BY <1>0, <2>1
    <3>2. MessagesFrom(f, r, i) = MessagesFrom(g, r, i)
      <4> HIDE DEF g
      <4>1. QED
        BY <3>1, MessagesLookAhead
    <3>3. CASE i = k + 1
      <4>1. g[i] = MessagesFrom(f, r, i)
        BY <3>3
      <4>2. QED
        BY <3>2, <4>1
    <3>4. CASE i # k + 1
      <4>1. i \in (k + 2)..(n + 1) /\ g[i] = f[i]
        BY <1>0, <3>4
      <4>2. [j \in (k + 2)..(n + 1) |-> MessagesFrom(f, r, j)][i] = MessagesFrom(f, r, i)
        BY <4>1, Zenon
      <4>3. QED
        BY <3>2, <4>1, <4>2, Zenon
    <3>5. QED
      BY <3>3, <3>4
  <2>3. g = [i \in (k + 1)..(n + 1) |-> MessagesFrom(g, r, i)]
    BY <2>2
  <2>4. \E h : h = [i \in (k + 1)..(n + 1) |-> MessagesFrom(h, r, i)]
    <3> HIDE DEF g
    <3>1. QED
      BY <2>3, Zenon
  <2>5. QED
    BY <2>4
<1>3. 0 \in T
  <2> HIDE DEF T, n
  <2>1. \A k \in 0..n : k \in T
    BY <1>0, <1>1, <1>2, Downward
  <2>2. QED
    BY <1>0, <2>1
<1>4. QED
  BY <1>3

LEMMA MessagesDef ==
  ASSUME NEW r \in Seq(Nat)
  PROVE  Messages(r)[1] = MessagesFrom(Messages(r), r, 1)
<1> DEFINE f == Messages(r)
<1>1. f = [i \in 1..(Len(r) + 1) |-> MessagesFrom(f, r, i)]
  BY MessagesDownTo, Zenon DEF Messages, MessagesFrom
<1> HIDE DEF f
<1>2. 1 \in 1..(Len(r) + 1)
  OBVIOUS
<1>3. [i \in 1..(Len(r) + 1) |-> MessagesFrom(f, r, i)][1] = MessagesFrom(f, r, 1)
  BY <1>2, Zenon
<1>4. f[1] = MessagesFrom(f, r, 1)
  BY <1>1, <1>3, Zenon
<1>5. QED
  BY <1>4 DEF f

\* What the child wrote is one message of ours, and the payload is what it holds.
LEMMA RbspMessage ==
  ASSUME NEW p \in Seq(Nat)
  PROVE  Messages(Rbsp(p))[1] = {p}
<1> DEFINE r == Rbsp(p)
           q == Ffs(p)
           n == Len(Uuid) + Len(p)
           a == q + 3
           body == Slice(r, a, a + n - 1)
           msg == [type |-> UserData, next |-> a + n, body |-> body]
<1>1. /\ r \in Seq(Nat) /\ q \in Nat /\ Len(Uuid) \in Nat /\ Len(p) \in Nat
      /\ Len(r) = q + Len(Uuid) + Len(p) + 3
      /\ r[1] = UserData
      /\ \A k \in 1..q : r[1 + k] = Ff
      /\ r[q + 2] = n % Ff
      /\ \A k \in 1..Len(Uuid) : r[(q + 2) + k] = Uuid[k]
      /\ \A k \in 1..Len(p) : r[(q + 2 + Len(Uuid)) + k] = p[k]
  BY RbspBytes
<1>2. n \in Nat /\ n % Ff \in 0..(Ff - 1) /\ q * Ff + (n % Ff) = n
  <2>1. n \in Nat
    BY <1>1
  <2> HIDE DEF n
  <2>2. n \div Ff \in Nat /\ n % Ff \in 0..(Ff - 1) /\ (n \div Ff) * Ff + (n % Ff) = n
    BY <2>1, Divided
  <2>3. QED
    BY <2>1, <2>2 DEF Ffs, n
<1>3. Uuid \in Seq(Nat) /\ Ff \in Nat /\ Ff > 5
  BY UuidAssumption, FfAssumption
<1> DEFINE w == n % Ff
<1>4. w \in Nat /\ w # Ff /\ n \in Nat /\ q * Ff + w = n /\ r[q + 2] = w
  <2>1. n % Ff # Ff /\ n % Ff \in Nat
    BY <1>2, <1>3
  <2>2. QED
    BY <1>1, <1>2, <2>1, Zenon
<1>5. n = Len(Uuid) + Len(p)
  OBVIOUS
<1> HIDE DEF r, q, n, w
<1>6. CodeAt(r, 1) = {[value |-> UserData, next |-> 2]}
  <2>1. 1 + 0 <= Len(r) /\ 1 \in Nat /\ 0 \in Nat /\ 1 + 0 = 1 /\ 1 + 1 = 2
    BY <1>1
  <2>2. \A k \in 0..(0 - 1) : r[1 + k] = Ff
    OBVIOUS
  <2>3. r[1 + 0] # Ff /\ r[1] = 5
    BY <1>1, <1>3, <2>1 DEF UserData
  <2>4. UserData = 0 * Ff + r[1 + 0] /\ 2 = (1 + 0) + 1
    BY <1>3, <2>1, <2>3 DEF UserData
  <2>5. r \in Seq(Nat) /\ 1 \in Nat /\ 0 \in Nat
    BY <1>1
  <2>6. Code(r, 1, 0)
    BY <2>1, <2>2, <2>3, <2>5, Zenon DEF Code
  <2> DEFINE v == UserData
             x == 2
  <2>7. v = 0 * Ff + r[1 + 0]
    BY <2>4, Zenon
  <2>8. x = (1 + 0) + 1
    OBVIOUS
  <2> HIDE DEF v, x
  <2>9. CodeAt(r, 1) = {[value |-> v, next |-> x]}
    BY <2>6, <2>7, <2>8, CodeIs
  <2>10. QED
    BY <2>9 DEF v, x
<1>7. CodeAt(r, 2) = {[value |-> n, next |-> a]}
  <2>1. 2 + q <= Len(r) /\ 2 \in Nat /\ 2 + q = q + 2 /\ (2 + q) + 1 = a
    BY <1>1
  <2>2. \A k \in 0..(q - 1) : r[2 + k] = Ff
    <3> SUFFICES ASSUME NEW k \in 0..(q - 1) PROVE r[2 + k] = Ff
      OBVIOUS
    <3>1. k + 1 \in 1..q /\ 1 + (k + 1) = 2 + k
      BY <1>1
    <3>2. r[1 + (k + 1)] = Ff
      BY <1>1, <3>1
    <3>3. QED
      BY <3>1, <3>2
  <2>3. r[2 + q] = w /\ r[2 + q] # Ff
    BY <1>4, <2>1
  <2>4. r \in Seq(Nat) /\ q \in Nat
    BY <1>1
  <2>5. n = q * Ff + r[2 + q]
    BY <1>4, <2>3, Zenon
  <2>6. Code(r, 2, q)
    BY <2>1, <2>2, <2>3, <2>4, Zenon DEF Code
  <2>7. a = (2 + q) + 1
    BY <1>1
  <2> HIDE DEF a
  <2>8. QED
    BY <2>5, <2>6, <2>7, CodeIs
<1>8. MessageAt(r, 1) = {msg}
  <2> DEFINE one(type, size) ==
               [type |-> type.value, next |-> size.next + size.value,
                body |-> Slice(r, size.next, size.next + size.value - 1)]
             c1 == [value |-> UserData, next |-> 2]
             c2 == [value |-> n, next |-> a]
  <2>1. MessageAt(r, 1) = UNION {{one(type, size) : size \in CodeAt(r, type.next)} :
                                  type \in CodeAt(r, 1)}
    BY DEF MessageAt
  <2>2. c1.next = 2 /\ c1.value = UserData /\ c2.next = a /\ c2.value = n
    OBVIOUS
  <2>3. one(c1, c2) = msg
    BY <2>2
  <2> HIDE DEF one, c1, c2, msg
  <2>4. MessageAt(r, 1) = {one(c1, size) : size \in CodeAt(r, c1.next)}
    BY <1>6, <2>1 DEF c1
  <2>5. MessageAt(r, 1) = {one(c1, c2)}
    BY <1>7, <2>2, <2>4 DEF c2
  <2>6. QED
    BY <2>3, <2>5
<1>9. body = Uuid \o p
  <2> DEFINE x == Uuid \o p
  <2>1. /\ x \in Seq(Nat) /\ Len(x) = Len(Uuid) + Len(p)
        /\ \A i \in 1..Len(Uuid) : x[i] = Uuid[i]
        /\ \A i \in 1..Len(p) : x[Len(Uuid) + i] = p[i]
    BY <1>3, Behind
  <2> HIDE DEF x
  <2>2. /\ ~(a + n - 1 > Len(r)) /\ (q + 2) + 1 = a /\ (q + 2) + Len(x) = a + n - 1
        /\ q + 2 \in Nat
    BY <1>1, <1>5, <2>1
  <2>3. body = SubSeq(r, a, a + n - 1)
    BY <2>2 DEF Slice
  <2>4. ASSUME NEW k \in 1..Len(x) PROVE r[(q + 2) + k] = x[k]
    <3>1. CASE k \in 1..Len(Uuid)
      BY <1>1, <2>1, <3>1
    <3>2. CASE k \notin 1..Len(Uuid)
      <4>1. /\ k - Len(Uuid) \in 1..Len(p) /\ Len(Uuid) + (k - Len(Uuid)) = k
            /\ (q + 2 + Len(Uuid)) + (k - Len(Uuid)) = (q + 2) + k
        BY <1>1, <2>1, <3>2
      <4>2. /\ r[(q + 2 + Len(Uuid)) + (k - Len(Uuid))] = p[k - Len(Uuid)]
            /\ x[Len(Uuid) + (k - Len(Uuid))] = p[k - Len(Uuid)]
        BY <1>1, <2>1, <4>1
      <4>3. QED
        BY <4>1, <4>2
    <3>3. QED
      BY <3>1, <3>2
  <2>5. SubSeq(r, (q + 2) + 1, (q + 2) + Len(x)) = x
    BY <2>1, <2>2, <2>4, Stretch
  <2>6. QED
    BY <2>2, <2>3, <2>5 DEF x
<1>10. Ours(msg) /\ From(msg.body, Len(Uuid) + 1) = p
  <2>1. msg.type = UserData /\ msg.body = Uuid \o p
    BY <1>9
  <2> DEFINE x == Uuid \o p
  <2>2. /\ x \in Seq(Nat) /\ Len(x) = Len(Uuid) + Len(p)
        /\ \A i \in 1..Len(Uuid) : x[i] = Uuid[i]
        /\ \A i \in 1..Len(p) : x[Len(Uuid) + i] = p[i]
    BY <1>3, Behind
  <2> HIDE DEF x, msg
  <2>3. SubSeq(x, 0 + 1, 0 + Len(Uuid)) = Uuid
    <3>1. \A k \in 1..Len(Uuid) : x[0 + k] = Uuid[k]
      BY <2>2
    <3>2. QED
      BY <1>3, <3>1, Stretch
  <2>4. SubSeq(Uuid, 1, Len(Uuid)) = Uuid
    BY <1>3, SubSeqFull
  <2>5. 0 + 1 = 1 /\ 0 + Len(Uuid) = Len(Uuid) /\ Len(Uuid) <= Len(x)
    BY <1>1, <2>2
  <2>6. IsPrefix(Uuid, x)
    BY <2>3, <2>4, <2>5 DEF IsPrefix
  <2>7. SubSeq(x, Len(Uuid) + 1, Len(Uuid) + Len(p)) = p
    BY ZenonT(60), <1>1, <2>2, Stretch
  <2>8. QED
    BY <2>1, <2>2, <2>6, <2>7 DEF Ours, From, x
<1>11. MessagesFrom(Messages(r), r, 1) = {p}
  <2> DEFINE one(f, m) == IF Ours(m) THEN {From(m.body, Len(Uuid) + 1)}
                          ELSE IF m.next > Len(r) THEN {} ELSE f[m.next]
  <2>1. MessagesFrom(Messages(r), r, 1) = UNION {one(Messages(r), m) : m \in MessageAt(r, 1)}
    BY DEF MessagesFrom
  <2> HIDE DEF msg
  <2>2. one(Messages(r), msg) = {p}
    BY <1>10
  <2> HIDE DEF one
  <2>3. QED
    BY <1>8, <2>1, <2>2
<1>12. QED
  BY <1>1, <1>11, MessagesDef DEF r

\* So the viewer finds the payload in the unit that the child made for it.
LEMMA UnitRead ==
  ASSUME NEW p \in Seq(Nat)
  PROVE  PayloadOf(PrefixSei \o Escaped(Rbsp(p))) = {p}
<1> DEFINE e == Escaped(Rbsp(p))
           x == PrefixSei \o e
<1>1. Rbsp(p) \in Seq(Nat)
  BY RbspBytes
<1>2. e \in Seq(Nat) /\ Unescape(e) = Rbsp(p)
  BY <1>1, EscapeRoundTrip
<1>3. PrefixSei \in Seq(Nat) /\ Len(PrefixSei) = 2 /\ PrefixSei[1] = 78
  BY DEF PrefixSei
<1> HIDE DEF e
<1>4. /\ x \in Seq(Nat) /\ Len(e) \in Nat /\ Len(x) = 2 + Len(e) /\ x[1] = 78
      /\ \A i \in 1..Len(e) : x[2 + i] = e[i]
  <2>1. /\ x \in Seq(Nat) /\ Len(e) \in Nat /\ Len(x) = Len(PrefixSei) + Len(e)
        /\ \A i \in 1..Len(PrefixSei) : x[i] = PrefixSei[i]
        /\ \A i \in 1..Len(e) : x[Len(PrefixSei) + i] = e[i]
    BY ZenonT(60), <1>2, <1>3, Behind
  <2> HIDE DEF x
  <2>2. 1 \in 1..2
    OBVIOUS
  <2>3. QED
    BY <1>3, <2>1, <2>2
<1> HIDE DEF x
<1>5. From(x, 3) = e
  <2>1. SubSeq(x, 2 + 1, 2 + Len(e)) = e
    BY <1>2, <1>4, Stretch
  <2>2. QED
    BY <1>4, <2>1 DEF From
<1>6. Len(x) >= 2 /\ (x[1] \div 2) % 64 = PrefixSeiType
  <2>1. (78 \div 2) % 64 = 39
    BY SMT
  <2>2. QED
    BY <1>4, <2>1 DEF PrefixSeiType
<1>7. PayloadOf(x) = Messages(Unescape(From(x, 3)))[1]
  BY <1>6, Zenon DEF PayloadOf
<1>8. QED
  BY <1>2, <1>5, <1>7, RbspMessage DEF x, e

\* Whatever the bytes of the payload and of what follows it.
THEOREM RoundTrip ==
  ASSUME NEW p \in Seq(Nat), NEW au, BeginsWithCode(au)
  PROVE  Survives(p, au)
<1> DEFINE nal == BuildNal(p)
           n == Len(nal)
           sent == nal \o au
           found == {s \in Starts(sent) : PayloadOf(NalAt(sent, s)) # {}}
<1>1. au \in Seq(Nat) /\ Len(au) \in Nat
  BY DEF BeginsWithCode
<1>2. n \in Nat /\ n >= 7
  <2> DEFINE e == Escaped(Rbsp(p))
  <2>1. n = 6 + Len(e) /\ Len(e) \in Nat /\ Len(e) >= 1
    BY NalBytes
  <2> HIDE DEF e, n
  <2>2. QED
    BY <2>1
<1>3. Starts(sent) = {5} \cup {n + s : s \in Starts(au)}
  BY <1>1, SentStarts
<1>4. PayloadOf(NalAt(sent, 5)) = {p}
  BY FirstUnit, UnitRead
<1>5. \A s \in Starts(au) : NalAt(sent, n + s) = NalAt(au, s)
  BY <1>1, LaterUnits
<1>6. \A s \in Starts(au) : s \in Nat /\ s >= 4
  BY <1>1 DEF Starts
<1> HIDE DEF nal, n, sent
<1>7. Min(found) = 5 /\ found # {}
  <2>1. 5 \in found
    BY <1>3, <1>4
  <2>2. found \subseteq Nat /\ \A y \in found : 5 <= y
    BY <1>2, <1>3, <1>6
  <2> HIDE DEF found
  <2>3. QED
    BY <2>1, <2>2, MinIs
<1>8. Parse(sent) = {p}
  BY <1>4, <1>7 DEF Parse
<1>9. {s \in Starts(sent) : s > n} = {n + s : s \in Starts(au)}
  BY <1>2, <1>3, <1>6
<1>10. QED
  BY <1>5, <1>8, <1>9 DEF Survives, sent, n, nal

\* The long start code in front, whatever follows.
Opens(b) == b \in Seq(Nat) /\ Len(b) >= 4 /\ b[1] = 0 /\ b[2] = 0 /\ b[3] = 0 /\ b[4] = 1

LEMMA OpensStill ==
  ASSUME NEW b, Opens(b), NEW t \in Seq(Nat)
  PROVE  Opens(b \o t)
<1>1. /\ b \in Seq(Nat) /\ Len(b) >= 4 /\ Len(b) \in Nat
      /\ b[1] = 0 /\ b[2] = 0 /\ b[3] = 0 /\ b[4] = 1
  BY DEF Opens
<1>2. /\ b \o t \in Seq(Nat) /\ Len(t) \in Nat /\ Len(b \o t) = Len(b) + Len(t)
      /\ \A i \in 1..Len(b) : (b \o t)[i] = b[i]
  BY <1>1, Behind
<1>3. 1 \in 1..Len(b) /\ 2 \in 1..Len(b) /\ 3 \in 1..Len(b) /\ 4 \in 1..Len(b)
  BY <1>1
<1>4. (b \o t)[1] = 0 /\ (b \o t)[2] = 0 /\ (b \o t)[3] = 0 /\ (b \o t)[4] = 1
  BY <1>1, <1>2, <1>3
<1>5. Len(b \o t) >= 4
  BY <1>1, <1>2
<1>6. QED
  BY <1>2, <1>4, <1>5 DEF Opens

LEMMA UnitsBegin ==
  \A au \in Units : BeginsWithCode(au)
<1> DEFINE s == <<0, 0, 1, 2, 1, 9>>
           z == <<4, 1, 9, Trailing>>
           b == ((StartCode \o PrefixSei) \o z) \o s
<1>1. BeginsWithCode(s)
  <2>1. s \in Seq(Nat) /\ Len(s) = 6 /\ s[1] = 0 /\ s[1 + 1] = 0 /\ s[1 + 2] = 1
    OBVIOUS
  <2> HIDE DEF s
  <2>2. QED
    BY <2>1 DEF BeginsWithCode, PatternAt
<1>2. s \in Seq(Nat) /\ z \in Seq(Nat) /\ PrefixSei \in Seq(Nat)
  BY DEF PrefixSei, Trailing
<1>3. Opens(StartCode)
  BY DEF Opens, StartCode
<1>4. Units = {s, b}
  BY DEF Units
<1> HIDE DEF s, z
<1>5. Opens(StartCode \o PrefixSei)
  BY <1>2, <1>3, OpensStill
<1>6. Opens((StartCode \o PrefixSei) \o z)
  BY <1>2, <1>5, OpensStill
<1>7. Opens(b)
  BY <1>2, <1>6, OpensStill
<1> HIDE DEF b
<1>8. BeginsWithCode(b)
  <2>1. 2 + 1 = 3 /\ 2 + 2 = 4
    OBVIOUS
  <2>2. QED
    BY <1>7, <2>1 DEF Opens, BeginsWithCode, PatternAt
<1>9. QED
  BY <1>1, <1>4, <1>8

-----------------------------------------------------------------------------
(* The injection                                                             *)

\* The epochs the probe holds are not from the future.
EpochOrder == /\ probeEpoch <= epoch
              /\ auEpoch <= epoch

\* A copy made after the load is the present payload or its epoch is old.
CopyCurrent == pc = "snap" => /\ probeEpoch = auEpoch
                              /\ snapshot = payload \/ probeEpoch < epoch

\* Outside of an injection the committed epoch tells what is in the stream.
Committed == pc # "snap" =>
  payload = NoBoxes \/ probeEpoch < epoch \/ injected = payload \/ mapFailed

\* The strengthening: EpochIsInjected says nothing of the probe's way from its
\* lock-free load to the injection.
IInv == TypeOK /\ EpochOrder /\ CopyCurrent /\ Committed

USE DetAssumption, SockAssumption
USE DEF NoBoxes, Boxes, Shows

LEMMA InitIInv == Init => IInv
<1> SUFFICES ASSUME Init PROVE IInv
  OBVIOUS
<1>1. sock \in Seq(Boxes) /\ Len(sock) <= SockBound
  BY DEF Init
<1>2. TypeOK
  <2>1. det \in 0..MaxDet
    BY DEF Init
  <2>2. epoch \in Nat /\ auEpoch \in Nat /\ probeEpoch \in Nat
    BY DEF Init
  <2>3. /\ payload \in Boxes \cup {NoBoxes} /\ snapshot \in Boxes \cup {NoBoxes}
        /\ injected \in Boxes \cup {NoBoxes} /\ shown \in Boxes \cup {NoBoxes}
    BY DEF Init
  <2>4. pc \in {"idle", "read", "snap"} /\ isKey \in BOOLEAN /\ mapFailed \in BOOLEAN
    BY DEF Init
  <2>5. QED
    BY <1>1, <2>1, <2>2, <2>3, <2>4 DEF TypeOK
<1>3. EpochOrder /\ CopyCurrent /\ Committed
  BY DEF Init, EpochOrder, CopyCurrent, Committed
<1>4. QED
  BY <1>2, <1>3 DEF IInv

LEMMA NextPreserves ==
  ASSUME IInv, [Next]_vars
  PROVE  IInv'
<1> USE DEF IInv, TypeOK, EpochOrder, CopyCurrent, Committed, sendVars, payloadVars,
            probeVars, streamVars
<1>1. CASE SendBoxes
  <2>1. sock' \in Seq(Boxes) /\ Len(sock') <= SockBound
    <3>1. det \in 0..MaxDet /\ det < MaxDet
      BY <1>1 DEF SendBoxes
    <3>2. det + 1 \in Boxes
      BY <3>1
    <3>3. CASE Len(sock) < SockBound
      <4>1. sock' = Append(sock, det + 1)
        BY <1>1, <3>3 DEF SendBoxes
      <4>2. sock \in Seq(Boxes) /\ Len(sock) \in Nat
        OBVIOUS
      <4>3. sock' \in Seq(Boxes) /\ Len(sock') = Len(sock) + 1
        BY ONLY <3>2, <4>1, <4>2
      <4>4. QED
        BY <3>3, <4>2, <4>3
    <3>4. CASE ~(Len(sock) < SockBound)
      BY <1>1, <3>4 DEF SendBoxes
    <3>5. QED
      BY <3>3, <3>4
  <2>2. QED
    BY <1>1, <2>1 DEF SendBoxes
<1>2. CASE SetPayload
  <2>1. sock' \in Seq(Boxes) /\ Len(sock') <= SockBound /\ Head(sock) \in Boxes
    BY <1>2 DEF SetPayload
  <2>2. CASE Head(sock) = payload
    BY <1>2, <2>1, <2>2 DEF SetPayload
  <2>3. CASE Head(sock) # payload
    BY <1>2, <2>1, <2>3 DEF SetPayload
  <2>4. QED
    BY <2>2, <2>3
<1>3. CASE \E key \in BOOLEAN : ProbeRead(key)
  BY <1>3 DEF ProbeRead
<1>4. CASE ProbeCopy
  BY <1>4 DEF ProbeCopy
<1>5. CASE \E arrives \in BOOLEAN : ProbeInject(arrives)
  <2> PICK arrives \in BOOLEAN : ProbeInject(arrives)
    BY <1>5
  <2>1. shown' \in Boxes \cup {NoBoxes}
    BY DEF ProbeInject
  <2>2. QED
    BY <2>1 DEF ProbeInject
<1>6. CASE ProbeMapFails
  BY <1>6 DEF ProbeMapFails
<1>7. CASE ViewerRestart
  BY <1>7 DEF ViewerRestart
<1>8. CASE UNCHANGED vars
  BY <1>8 DEF vars
<1>9. QED
  BY <1>1, <1>2, <1>3, <1>4, <1>5, <1>6, <1>7, <1>8 DEF Next

\* The state keeps its type.
THEOREM TypeCorrect == Spec => []TypeOK
<1>1. IInv /\ [Next]_vars => IInv'
  BY NextPreserves
<1>2. IInv => TypeOK
  BY DEF IInv
<1>3. QED
  BY <1>1, <1>2, InitIInv, PTL DEF Spec

\* An epoch the probe has committed is one whose payload is in the stream, or
\* could not be mapped (stream_enc.cpp:64, 150, 163), however the box sets
\* interleave with the probe.
THEOREM EpochIsInjectedThm == Spec => []EpochIsInjected
<1>1. IInv /\ [Next]_vars => IInv'
  BY NextPreserves
<1>2. IInv => EpochIsInjected
  BY DEF IInv, TypeOK, EpochOrder, Committed, EpochIsInjected
<1>3. QED
  BY <1>1, <1>2, InitIInv, PTL DEF Spec

-----------------------------------------------------------------------------
(* The order of the boxes                                                    *)

\* From the screen back to the detection the box sets become newer, and those that
\* wait in the socket are in order and newer than all that has left it.
Pipeline ==
  /\ shown <= injected /\ injected <= snapshot /\ snapshot <= payload /\ payload <= det
  /\ \A i \in 1..Len(sock) : payload < sock[i] /\ sock[i] <= det
  /\ \A i, j \in 1..Len(sock) : i < j => sock[i] < sock[j]

\* One more box set is detected: it is newer than all before it, and is appended or
\* dropped.
LEMMA SendPipeline == ASSUME IInv, Pipeline, SendBoxes PROVE Pipeline'
<1> USE DEF IInv, TypeOK, Pipeline
<1>1. UNCHANGED <<payload, snapshot, injected, shown>> /\ det' = det + 1 /\ det \in Nat
  BY DEF SendBoxes, payloadVars, probeVars, streamVars
<1>2. CASE sock' = sock
  BY <1>1, <1>2
<1>3. CASE sock' = Append(sock, det + 1)
  <2>1. /\ Len(sock') = Len(sock) + 1 /\ Len(sock) \in Nat
        /\ \A i \in 1..Len(sock) : sock'[i] = sock[i] /\ sock[i] \in Nat
        /\ sock'[Len(sock) + 1] = det + 1
    BY <1>3
  <2>2. payload \in Nat
    BY DEF Boxes
  <2>3. \A i \in 1..Len(sock') : payload < sock'[i] /\ sock'[i] <= det + 1
    BY SMTT(40), <1>1, <2>1, <2>2
  <2>4. ASSUME NEW i \in 1..Len(sock'), NEW j \in 1..Len(sock'), i < j
        PROVE  sock'[i] < sock'[j]
    <3>1. i \in 1..Len(sock) /\ sock'[i] = sock[i] /\ sock[i] <= det /\ sock[i] \in Nat
      BY <2>1, <2>4
    <3>2. CASE j \in 1..Len(sock)
      BY <2>1, <2>4, <3>1, <3>2
    <3>3. CASE j = Len(sock) + 1
      BY <1>1, <2>1, <3>1, <3>3
    <3> QED BY <2>1, <2>4, <3>2, <3>3
  <2>5. shown <= injected /\ injected <= snapshot /\ snapshot <= payload /\ payload <= det + 1
    BY <1>1, <2>2
  <2> QED BY <1>1, <2>3, <2>4, <2>5
<1> QED BY <1>2, <1>3 DEF SendBoxes

\* The oldest of them becomes the payload.
LEMMA StorePipeline == ASSUME IInv, Pipeline, SetPayload PROVE Pipeline'
<1> USE DEF IInv, TypeOK, Pipeline
<1>1. UNCHANGED <<det, snapshot, injected, shown>> /\ sock # <<>>
      /\ payload' = Head(sock) /\ sock' = Tail(sock)
  BY DEF SetPayload, probeVars, streamVars
<1>2. /\ Len(sock) >= 1 /\ Len(sock) \in Nat /\ Len(sock') = Len(sock) - 1
      /\ payload' = sock[1]
      /\ \A i \in 1..Len(sock') : sock'[i] = sock[i + 1]
  BY <1>1
<1>3. payload < payload' /\ payload' <= det
  BY <1>2
<1>4. ASSUME NEW i \in 1..Len(sock') PROVE payload' < sock'[i] /\ sock'[i] <= det
  <2>1. i + 1 \in 1..Len(sock) /\ 1 \in 1..Len(sock) /\ 1 < i + 1 /\ sock'[i] = sock[i + 1]
    BY <1>2
  <2> QED BY <1>2, <2>1
<1>5. ASSUME NEW i \in 1..Len(sock'), NEW j \in 1..Len(sock'), i < j
      PROVE  sock'[i] < sock'[j]
  <2>1. i + 1 \in 1..Len(sock) /\ j + 1 \in 1..Len(sock) /\ i + 1 < j + 1
        /\ sock'[i] = sock[i + 1] /\ sock'[j] = sock[j + 1]
    BY <1>2, <1>5
  <2> QED BY <2>1
<1>6. snapshot \in Nat /\ payload \in Nat /\ payload' \in Nat
  <2>1. Head(sock) \in Boxes
    BY <1>1
  <2> QED BY <1>1, <2>1
<1>7. snapshot <= payload'
  BY <1>3, <1>6
<1> QED BY <1>1, <1>3, <1>4, <1>5, <1>7

LEMMA PipelineStep == IInv /\ Pipeline /\ [Next]_vars => Pipeline'
<1> SUFFICES ASSUME IInv, Pipeline, [Next]_vars PROVE Pipeline'
  OBVIOUS
<1> USE DEF sendVars, payloadVars, probeVars, streamVars
<1>0. /\ payload \in Nat /\ snapshot \in Nat /\ injected \in Nat /\ shown \in Nat
      /\ det \in Nat
  BY DEF IInv, TypeOK
<1>1. CASE SendBoxes
  BY <1>1, SendPipeline
<1>2. CASE SetPayload
  BY <1>2, StorePipeline
<1>3. CASE \E key \in BOOLEAN : ProbeRead(key)
  BY <1>3 DEF ProbeRead, Pipeline
<1>4. CASE ProbeCopy
  BY <1>0, <1>4 DEF ProbeCopy, Pipeline
<1>5. CASE \E arrives \in BOOLEAN : ProbeInject(arrives)
  BY <1>0, <1>5 DEF ProbeInject, Pipeline
<1>6. CASE ProbeMapFails
  BY <1>6 DEF ProbeMapFails, Pipeline
<1>7. CASE ViewerRestart
  BY <1>0, <1>7 DEF ViewerRestart, Pipeline
<1>8. CASE UNCHANGED vars
  BY <1>8 DEF vars, Pipeline
<1> QED BY <1>1, <1>2, <1>3, <1>4, <1>5, <1>6, <1>7, <1>8 DEF Next

\* The viewer takes every box set for the latest (uav_view.py:197-200 looks at no
\* frame_seq), and it is: whatever is dropped at the full socket, overtaken between load
\* and copy or lost with its unit, the screen never goes back to older boxes, but
\* for a viewer that starts with none.
THEOREM BoxesGoForward == Spec => [][shown' # NoBoxes => shown' >= shown]_shown
<1>1. Init => IInv /\ Pipeline
  <2>1. Init => Pipeline
    BY DEF Init, Pipeline
  <2> QED BY <2>1, InitIInv
<1>2. IInv /\ [Next]_vars => IInv'
  BY NextPreserves
<1>3. IInv /\ Pipeline /\ [Next]_vars => [shown' # NoBoxes => shown' >= shown]_shown
  <2> SUFFICES ASSUME IInv, Pipeline, Next, shown' # shown, shown' # NoBoxes
               PROVE  shown' >= shown
    BY DEF vars, streamVars
  <2>1. PICK arrives \in BOOLEAN : ProbeInject(arrives)
    BY DEF Next, SendBoxes, SetPayload, ProbeRead, ProbeCopy, ProbeMapFails, ViewerRestart,
           sendVars, payloadVars, probeVars, streamVars
  <2>2. shown' = snapshot
    BY <2>1 DEF ProbeInject
  <2>3. shown \in Nat /\ injected \in Nat /\ snapshot \in Nat
    BY DEF IInv, TypeOK
  <2> QED BY <2>2, <2>3 DEF Pipeline
<1> QED BY <1>1, <1>2, <1>3, PipelineStep, PTL DEF Spec

\* The viewer reads back exactly what the child put in, of whatever bytes the boxes
\* are made, whatever the UUID and the continuation byte.
THEOREM NalRoundTripThm == Spec => []NalRoundTrip
<1>1. ASSUME NEW p \in Payloads PROVE p \in Seq(Nat)
  <2>1. PICK m \in 0..MaxPayload : p \in [1..m -> PayloadBytes]
    BY DEF Payloads, BoundedSeq, SeqOf
  <2>2. m \in Nat /\ PayloadBytes \subseteq Nat
    BY BytesAssumption
  <2>3. p \in [1..m -> Nat]
    BY <2>1, <2>2
  <2>4. QED
    BY <2>2, <2>3, SeqDef
<1>2. AllSurvive
  BY <1>1, RoundTrip, UnitsBegin DEF AllSurvive
<1>3. NalRoundTrip
  BY <1>2 DEF NalRoundTrip
<1>4. QED
  BY <1>3, PTL
=============================================================================
