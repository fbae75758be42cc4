-------------------------- MODULE AqcLadder_proofs --------------------------
(***************************************************************************)
(* Proofs about AqcLadder for any ladder and any hold times, with and      *)
(* without the capacity law, and about the parser of its levels for any    *)
(* text whose entries have no blank inside.                                *)
(*                                                                         *)
(* Parser and reference are functions defined by recursion over the places *)
(* of a text, from its end and from its beginning. That they agree is      *)
(* proved by induction over the places where the parser starts an entry,   *)
(* and the induction by the least element of a set of numbers.             *)
(***************************************************************************)
EXTENDS MCAqcLadder, SequenceTheorems, WellFoundedInduction, TLAPS

\* The up-timer counts healthy time only, which is quiet time.
UpTimerIsQuiet == healthyFor <= quiet

\* The up-timer never counts time from before the last change of level.
UpTimerSinceChange == sinceChange # Never => healthyFor <= sinceChange

Timers == UpTimerSinceChange /\ UpTimerIsQuiet

\* The strengthening of UpAfterQuiet: what it says of the step up must hold of
\* the up-timer at all times.
IInv == TypeOK /\ Timers

USE LevelAssumption, HoldAssumption, CapAssumption
USE DEF Never, Unknown, CongHold, Elapsed

-----------------------------------------------------------------------------
(* Induction, for sets of numbers                                            *)
Less == {ss \in Nat \X Nat : ss[1] < ss[2]}

LEMMA LeastNumber ==
  ASSUME NEW T, T \subseteq Nat, T # {}
  PROVE  \E x \in T : \A y \in T : x <= y
<1>1. IsWellFoundedOn(Less, Nat)
  BY NatLessThanWellFounded DEF Less, OpToRel
<1>2. PICK x \in T : \A y \in T : ~ (<<y, x>> \in Less)
  BY <1>1, WFMin
<1>3. ASSUME NEW y \in T PROVE x <= y
  <2>1. x \in Nat /\ y \in Nat /\ <<y, x>> \notin Less
    BY <1>2
  <2>2. ~(y < x)
    BY <2>1 DEF Less
  <2>3. QED
    BY <2>1, <2>2
<1>4. QED
  BY <1>3

LEMMA Upward ==
  ASSUME NEW n \in Nat, NEW T, 0 \in T, \A k \in 0..(n - 1) : k \in T => k + 1 \in T
  PROVE  \A k \in 0..n : k \in T
<1> DEFINE U == (0..n) \ T
<1> SUFFICES ASSUME U # {} PROVE FALSE
  OBVIOUS
<1>1. PICK x \in U : \A y \in U : x <= y
  <2>1. U \subseteq Nat
    OBVIOUS
  <2> HIDE DEF U
  <2>2. QED
    BY <2>1, LeastNumber
<1>2. x # 0 /\ x - 1 \in 0..(n - 1) /\ x - 1 \notin U
  BY <1>1
<1>3. QED
  BY <1>1, <1>2

LEMMA Downward ==
  ASSUME NEW n \in Nat, NEW T, n \in T, \A k \in 0..(n - 1) : k + 1 \in T => k \in T
  PROVE  \A k \in 0..n : k \in T
<1> DEFINE U == {d \in Nat : n - d \in T}
<1>1. 0 \in U
  OBVIOUS
<1>2. \A d \in 0..(n - 1) : d \in U => d + 1 \in U
  <2> SUFFICES ASSUME NEW d \in 0..(n - 1), n - d \in T PROVE n - (d + 1) \in T
    OBVIOUS
  <2>1. n - (d + 1) \in 0..(n - 1) /\ (n - (d + 1)) + 1 = n - d
    OBVIOUS
  <2>2. QED
    BY <2>1
<1>3. \A d \in 0..n : d \in U
  <2> HIDE DEF U
  <2>1. QED
    BY <1>1, <1>2, Upward
<1>4. ASSUME NEW k \in 0..n PROVE k \in T
  <2>1. n - k \in 0..n /\ n - (n - k) = k
    OBVIOUS
  <2>2. n - k \in U
    BY <1>3, <2>1
  <2>3. QED
    BY <2>1, <2>2
<1>5. QED
  BY <1>4
LEMMA MinIs ==
  ASSUME NEW S, S \subseteq Nat, NEW m \in S, \A y \in S : m <= y
  PROVE  Min(S) = m
<1>1. \E x \in S : \A y \in S : x <= y
  OBVIOUS
<1>2. Min(S) \in S /\ \A y \in S : Min(S) <= y
  BY <1>1, Zenon DEF Min
<1>3. Min(S) <= m /\ m <= Min(S) /\ m \in Nat /\ Min(S) \in Nat
  BY <1>2
<1>4. QED
  BY <1>3

LEMMA MaxOfOne ==
  ASSUME NEW m \in Nat
  PROVE  Max({m}) = m
<1>1. \E x \in {m} : \A y \in {m} : x >= y
  OBVIOUS
<1>2. Max({m}) \in {m}
  BY <1>1, Zenon DEF Max
<1>3. QED
  BY <1>2

-----------------------------------------------------------------------------
(* The places of a text                                                      *)

\* FirstOf is what its comment says.
LEMMA FirstOfIs ==
  ASSUME NEW t \in Seq(Tokens), NEW i \in 1..(Len(t) + 1), NEW S
  PROVE  /\ FirstOf(t, i, S) \in i..(Len(t) + 1)
         /\ FirstOf(t, i, S) <= Len(t) => t[FirstOf(t, i, S)] \in S
         /\ \A k \in i..(FirstOf(t, i, S) - 1) : t[k] \notin S
<1> DEFINE n == Len(t)
           P == {j \in i..n : t[j] \in S} \cup {n + 1}
<1>0. n \in Nat /\ i \in 1..(n + 1)
  OBVIOUS
<1> HIDE DEF n
<1>1. P \subseteq Nat /\ n + 1 \in P
  BY <1>0
<1>2. PICK m \in P : \A y \in P : m <= y
  <2> HIDE DEF P
  <2>1. QED
    BY <1>1, LeastNumber
<1>3. FirstOf(t, i, S) = m
  <2>1. Min(P) = m
    <3> HIDE DEF P
    <3>1. QED
      BY <1>1, <1>2, MinIs
  <2>2. QED
    BY <2>1, Zenon DEF FirstOf, P, n
<1>4. m \in i..(n + 1)
  BY <1>0
<1>5. m <= n => t[m] \in S
  BY <1>0
<1>6. ASSUME NEW k \in i..(m - 1) PROVE t[k] \notin S
  <2>1. k \in i..n /\ ~(m <= k)
    BY <1>0, <1>4
  <2>2. QED
    BY <1>2, <2>1
<1>7. QED
  BY <1>3, <1>4, <1>5, <1>6 DEF n

\* Every token of a text is a number, a separator or one of the others.
LEMMA TokenKinds ==
  ASSUME NEW t \in Seq(Tokens), NEW i \in 1..Len(t)
  PROVE  /\ t[i] \in Numbers \cup Separators \cup {At, Junk}
         /\ t[i] \in Numbers => t[i] \in Nat /\ t[i] \notin Separators /\ t[i] # At
         /\ t[i] = At => t[i] \notin Separators /\ t[i] \notin Numbers
         /\ t[i] \in Separators <=> t[i] = Comma \/ t[i] = Blank
         /\ t[i] \in Separators => t[i] \notin Numbers
<1>1. t[i] \in Tokens
  OBVIOUS
<1>2. QED
  BY <1>1, NumbersAssumption, TokensAssumption DEF Tokens, Separators

\* Without a comma behind a token that separates nothing, there is no separator: a
\* blank would follow something that is none.
LEMMA NoBlankInside ==
  ASSUME NEW t \in Seq(Tokens), WellFormed(t), NEW i \in 1..Len(t), t[i] \notin Separators,
         NEW s \in i..(Len(t) + 1), \A k \in i..(s - 1) : t[k] # Comma
  PROVE  \A k \in i..(s - 1) : t[k] \notin Separators
<1> DEFINE n == Len(t)
           B == {k \in i..(s - 1) : t[k] \in Separators}
<1>0. n \in Nat /\ i \in 1..n /\ s \in i..(n + 1)
  OBVIOUS
<1>1. SUFFICES ASSUME B # {} PROVE FALSE
  OBVIOUS
<1>2. PICK k \in B : \A y \in B : k <= y
  <2>1. B \subseteq Nat
    BY <1>0
  <2> HIDE DEF B
  <2>2. QED
    BY <1>1, <2>1, LeastNumber
<1> HIDE DEF n
<1>3. k \in i..(s - 1) /\ t[k] \in Separators /\ k # i
  OBVIOUS
<1>4. k \in 2..n /\ k - 1 \in i..(s - 1)
  BY <1>0, <1>3
<1>5. t[k] = Blank
  BY <1>3 DEF Separators
<1>6. t[k - 1] \in Separators
  BY <1>4, <1>5 DEF WellFormed, n
<1>7. k - 1 \in B /\ ~(k <= k - 1)
  BY <1>0, <1>3, <1>4, <1>6
<1>8. QED
  BY <1>2, <1>7

\* Where the next entry starts: behind a separator, and between there and i nothing
\* begins.
LEMMA NextEntryIs ==
  ASSUME NEW t \in Seq(Tokens), NEW i \in 1..(Len(t) + 1)
  PROVE  /\ NextEntry(t, i) \in i..(Len(t) + 1)
         /\ i <= Len(t) => NextEntry(t, i) > i
         /\ NextEntry(t, i) <= Len(t)
              => /\ NextEntry(t, i) > i
                 /\ t[NextEntry(t, i)] \notin Separators
                 /\ t[NextEntry(t, i) - 1] \in Separators
         /\ WellFormed(t) => \A k \in (i + 1)..(NextEntry(t, i) - 1) :
                               t[k] \in Separators \/ t[k - 1] \notin Separators
<1> DEFINE n == Len(t)
           s == IF i > Len(t) \/ t[i] \in Separators THEN i ELSE FirstOf(t, i, {Comma})
           e == NextEntry(t, i)
<1>0. n \in Nat /\ i \in 1..(n + 1)
  OBVIOUS
<1>1. /\ s \in i..(n + 1)
      /\ s <= n => t[s] \in Separators
      /\ s > i => i <= n /\ t[i] \notin Separators
      /\ \A k \in i..(s - 1) : t[k] # Comma
  <2>1. CASE i > Len(t) \/ t[i] \in Separators
    <3>1. s = i
      BY <2>1
    <3>2. i <= n => t[i] \in Separators
      BY <1>0, <2>1
    <3> HIDE DEF s
    <3>3. QED
      BY <1>0, <3>1, <3>2
  <2>2. CASE ~(i > Len(t) \/ t[i] \in Separators)
    <3>1. s = FirstOf(t, i, {Comma})
      BY <2>2
    <3> HIDE DEF s
    <3>2. /\ s \in i..(Len(t) + 1)
          /\ s <= Len(t) => t[s] \in {Comma}
          /\ \A k \in i..(s - 1) : t[k] \notin {Comma}
      BY <3>1, FirstOfIs
    <3>3. QED
      BY <1>0, <2>2, <3>2 DEF Separators
  <2>3. QED
    BY <2>1, <2>2
<1>2. e = FirstOf(t, s, Tokens \ Separators)
  BY DEF NextEntry
<1> HIDE DEF s, e
<1>3. /\ e \in s..(n + 1)
      /\ e <= n => t[e] \notin Separators
      /\ \A k \in s..(e - 1) : t[k] \notin Tokens \ Separators
  <2>1. s \in 1..(Len(t) + 1)
    BY <1>0, <1>1
  <2>2. QED
    BY <1>2, <2>1, FirstOfIs
<1>4. \A k \in s..(e - 1) : t[k] \in Separators
  <2>1. \A k \in s..(e - 1) : k \in 1..Len(t)
    BY <1>0, <1>1, <1>3
  <2>2. \A k \in s..(e - 1) : t[k] \in Tokens
    BY <2>1
  <2>3. QED
    BY <1>3, <2>2
<1>5. e \in i..(n + 1)
  BY <1>0, <1>1, <1>3
<1>6. e <= n => e > s
  BY <1>0, <1>1, <1>3
<1>7. i <= n => e > i
  BY <1>0, <1>1, <1>3, <1>6
<1>8. ASSUME e <= n PROVE e > i /\ t[e] \notin Separators /\ t[e - 1] \in Separators
  <2>1. e > i /\ e - 1 \in s..(e - 1)
    BY <1>0, <1>1, <1>3, <1>6, <1>8
  <2>2. QED
    BY <1>3, <1>4, <1>8, <2>1
<1>9. ASSUME WellFormed(t), NEW k \in (i + 1)..(e - 1)
      PROVE  t[k] \in Separators \/ t[k - 1] \notin Separators
  <2>1. CASE k >= s
    <3>1. k \in s..(e - 1)
      BY <1>0, <1>1, <1>3, <2>1
    <3>2. QED
      BY <1>4, <3>1
  <2>2. CASE k < s
    <3>1. s > i /\ k - 1 \in i..(s - 1)
      BY <1>0, <1>1, <1>3, <2>2
    <3>2. i \in 1..Len(t) /\ t[i] \notin Separators
      BY <1>0, <1>1, <3>1
    <3>3. s \in i..(Len(t) + 1)
      BY <1>1
    <3>4. \A j \in i..(s - 1) : t[j] \notin Separators
      BY <1>1, <1>9, <3>2, <3>3, NoBlankInside
    <3>5. QED
      BY <3>1, <3>4
  <2>3. QED
    BY <1>0, <1>1, <1>3, <2>1, <2>2
<1>10. QED
  BY <1>5, <1>7, <1>8, <1>9 DEF e, n

\* The number an entry starts with, behind its blanks.
LEMMA NumberIs ==
  ASSUME NEW t \in Seq(Tokens), NEW i \in 1..(Len(t) + 1)
  PROVE  \E f \in i..(Len(t) + 1) :
           /\ \A k \in i..(f - 1) : t[k] = Blank
           /\ f <= Len(t) => t[f] # Blank
           /\ f <= Len(t) /\ t[f] \in Numbers => NumberAt(t, i) = {f}
           /\ ~(f <= Len(t) /\ t[f] \in Numbers) => NumberAt(t, i) = {}
<1> DEFINE f == FirstOf(t, i, Tokens \ {Blank})
<1>1. NumberAt(t, i) = {f} \cap {j \in DOMAIN t : t[j] \in Numbers}
  BY DEF NumberAt
<1>2. /\ f \in i..(Len(t) + 1)
      /\ f <= Len(t) => t[f] \in Tokens \ {Blank}
      /\ \A k \in i..(f - 1) : t[k] \notin Tokens \ {Blank}
  BY FirstOfIs
<1> HIDE DEF f
<1>3. \A k \in i..(f - 1) : t[k] = Blank
  <2>1. \A k \in i..(f - 1) : k \in 1..Len(t)
    BY <1>2
  <2>2. QED
    BY <1>2, <2>1
<1>4. DOMAIN t = 1..Len(t) /\ (f <= Len(t) <=> f \in 1..Len(t))
  BY <1>2
<1>5. QED
  BY <1>1, <1>2, <1>3, <1>4

\* How far the suffix goes.
LEMMA SuffixEnds ==
  ASSUME NEW t \in Seq(Tokens), NEW i \in 1..(Len(t) + 1)
  PROVE  SuffixAt(t, i).next \in i..(Len(t) + 1)
<1>0. Len(t) \in Nat
  OBVIOUS
<1>1. CASE i > Len(t) \/ t[i] # At
  BY <1>0, <1>1 DEF SuffixAt
<1>2. CASE ~(i > Len(t) \/ t[i] # At)
  <2>1. i + 1 \in 1..(Len(t) + 1)
    BY <1>0, <1>2
  <2>2. PICK f \in (i + 1)..(Len(t) + 1) :
          /\ f <= Len(t) /\ t[f] \in Numbers => NumberAt(t, i + 1) = {f}
          /\ ~(f <= Len(t) /\ t[f] \in Numbers) => NumberAt(t, i + 1) = {}
    BY <2>1, NumberIs
  <2>3. SuffixAt(t, i).next = IF NumberAt(t, i + 1) = {} THEN i + 1 ELSE Max(NumberAt(t, i + 1)) + 1
    BY <1>2 DEF SuffixAt
  <2>4. CASE f <= Len(t) /\ t[f] \in Numbers
    <3>1. NumberAt(t, i + 1) = {f} /\ f \in Nat
      BY <2>2, <2>4
    <3>2. Max({f}) = f
      BY <3>1, MaxOfOne
    <3>3. SuffixAt(t, i).next = f + 1
      BY <2>3, <3>1, <3>2
    <3>4. QED
      BY <1>0, <2>4, <3>3
  <2>5. CASE ~(f <= Len(t) /\ t[f] \in Numbers)
    BY <2>1, <2>2, <2>3, <2>5
  <2>6. QED
    BY <2>4, <2>5
<1>3. QED
  BY <1>1, <1>2

-----------------------------------------------------------------------------
(* The recursion of the parser                                               *)
EntriesFrom(f, t, i) ==
  LET number == NumberAt(t, i)
      j == Max(number)
  IN IF i > Len(t) THEN <<>>
     ELSE IF number = {} THEN f[NextEntry(t, i)]
     ELSE LevelAt(t, j) \o f[NextEntry(t, SuffixAt(t, j + 1).next)]

\* One turn, on an entry with a number at j and on one without.
LEMMA TurnIs ==
  ASSUME NEW t \in Seq(Tokens), NEW i \in 1..Len(t)
  PROVE  \/ /\ NumberAt(t, i) = {}
            /\ NextEntry(t, i) \in (i + 1)..(Len(t) + 1)
            /\ \A f : EntriesFrom(f, t, i) = f[NextEntry(t, i)]
         \/ \E j \in i..Len(t) :
              /\ NumberAt(t, i) = {j}
              /\ SuffixAt(t, j + 1).next \in (j + 1)..(Len(t) + 1)
              /\ NextEntry(t, SuffixAt(t, j + 1).next) \in (i + 1)..(Len(t) + 1)
              /\ \A f : EntriesFrom(f, t, i)
                          = LevelAt(t, j) \o f[NextEntry(t, SuffixAt(t, j + 1).next)]
<1>0. Len(t) \in Nat /\ i \in 1..(Len(t) + 1) /\ ~(i > Len(t)) /\ i \in Nat
  OBVIOUS
<1>1. PICK j \in i..(Len(t) + 1) :
        /\ j <= Len(t) /\ t[j] \in Numbers => NumberAt(t, i) = {j}
        /\ ~(j <= Len(t) /\ t[j] \in Numbers) => NumberAt(t, i) = {}
  BY <1>0, NumberIs
<1>2. CASE j <= Len(t) /\ t[j] \in Numbers
  <2>1. NumberAt(t, i) = {j} /\ j \in Nat /\ j + 1 \in 1..(Len(t) + 1) /\ j \in i..Len(t)
    BY <1>0, <1>1, <1>2
  <2>2. Max({j}) = j
    BY <2>1, MaxOfOne
  <2>3. SuffixAt(t, j + 1).next \in (j + 1)..(Len(t) + 1)
    BY <2>1, SuffixEnds
  <2> DEFINE m == SuffixAt(t, j + 1).next
  <2>4. NextEntry(t, m) \in m..(Len(t) + 1)
    <3> HIDE DEF m
    <3>1. m \in 1..(Len(t) + 1)
      BY <1>0, <2>1, <2>3 DEF m
    <3>2. QED
      BY <3>1, NextEntryIs
  <2>5. NextEntry(t, m) \in (i + 1)..(Len(t) + 1)
    <3>1. m \in (i + 1)..(Len(t) + 1)
      <4>1. m \in (j + 1)..(Len(t) + 1) /\ j >= i
        BY <2>1, <2>3
      <4> HIDE DEF m
      <4>2. QED
        BY <1>0, <2>1, <4>1
    <3> HIDE DEF m
    <3>2. QED
      BY <1>0, <2>4, <3>1
  <2>6. NumberAt(t, i) # {} /\ Max(NumberAt(t, i)) = j
    BY <2>1, <2>2
  <2>7. \A f : EntriesFrom(f, t, i) = LevelAt(t, j) \o f[NextEntry(t, m)]
    BY <1>0, <2>6, Zenon DEF EntriesFrom
  <2>8. QED
    BY <2>1, <2>3, <2>5, <2>7, Zenon
<1>3. CASE ~(j <= Len(t) /\ t[j] \in Numbers)
  <2>1. NumberAt(t, i) = {}
    BY <1>1, <1>3
  <2>2. NextEntry(t, i) \in i..(Len(t) + 1) /\ NextEntry(t, i) > i
    BY <1>0, NextEntryIs
  <2>3. NextEntry(t, i) \in (i + 1)..(Len(t) + 1)
    BY <1>0, <2>2
  <2>4. \A f : EntriesFrom(f, t, i) = f[NextEntry(t, i)]
    BY <1>0, <2>1, Zenon DEF EntriesFrom
  <2>5. QED
    BY <2>1, <2>3, <2>4, Zenon
<1>4. QED
  BY <1>2, <1>3

LEMMA EntriesLookAhead ==
  ASSUME NEW t \in Seq(Tokens), NEW i \in 1..(Len(t) + 1), NEW f, NEW g,
         \A j \in (i + 1)..(Len(t) + 1) : f[j] = g[j]
  PROVE  EntriesFrom(f, t, i) = EntriesFrom(g, t, i)
<1>1. CASE i > Len(t)
  BY <1>1, Zenon DEF EntriesFrom
<1>2. CASE i <= Len(t)
  <2>1. i \in 1..Len(t)
    BY <1>2
  <2>2. CASE /\ NextEntry(t, i) \in (i + 1)..(Len(t) + 1)
             /\ \A h : EntriesFrom(h, t, i) = h[NextEntry(t, i)]
    BY <2>2, Zenon
  <2>3. ASSUME NEW j \in i..Len(t),
               NextEntry(t, SuffixAt(t, j + 1).next) \in (i + 1)..(Len(t) + 1),
               \A h : EntriesFrom(h, t, i) = LevelAt(t, j) \o h[NextEntry(t, SuffixAt(t, j + 1).next)]
        PROVE  EntriesFrom(f, t, i) = EntriesFrom(g, t, i)
    BY <2>3, Zenon
  <2>4. QED
    BY <2>1, <2>2, <2>3, TurnIs, Zenon
<1>3. QED
  BY <1>1, <1>2

LEMMA EntriesDownTo ==
  ASSUME NEW t \in Seq(Tokens)
  PROVE  \E f : f = [i \in 1..(Len(t) + 1) |-> EntriesFrom(f, t, i)]
<1> DEFINE n == Len(t)
           T == {k \in Nat : \E f : f = [i \in (k + 1)..(n + 1) |-> EntriesFrom(f, t, i)]}
<1>0. n \in Nat
  OBVIOUS
<1>1. n \in T
  <2> DEFINE f == [i \in (n + 1)..(n + 1) |-> <<>>]
  <2>1. ASSUME NEW i \in (n + 1)..(n + 1) PROVE EntriesFrom(f, t, i) = <<>>
    BY <1>0 DEF EntriesFrom
  <2>2. f = [i \in (n + 1)..(n + 1) |-> EntriesFrom(f, t, i)]
    BY <2>1
  <2>3. QED
    BY <1>0, <2>2
<1>2. \A k \in 0..(n - 1) : k + 1 \in T => k \in T
  <2> SUFFICES ASSUME NEW k \in 0..(n - 1), NEW f,
                      f = [i \in (k + 2)..(n + 1) |-> EntriesFrom(f, t, i)]
               PROVE  k \in T
    <3>1. \A k \in 0..(n - 1) : (k + 1) + 1 = k + 2
      OBVIOUS
    <3>2. QED
      BY <3>1
  <2> DEFINE g == [i \in (k + 1)..(n + 1) |->
                     IF i = k + 1 THEN EntriesFrom(f, t, k + 1) ELSE f[i]]
  <2>1. \A j \in (k + 2)..(n + 1) : f[j] = g[j]
    OBVIOUS
  <2>2. ASSUME NEW i \in (k + 1)..(n + 1) PROVE g[i] = EntriesFrom(g, t, i)
    <3>1. i \in 1..(n + 1) /\ \A j \in (i + 1)..(n + 1) : f[j] = g[j]
      BY <1>0, <2>1
    <3>2. EntriesFrom(f, t, i) = EntriesFrom(g, t, i)
      <4> HIDE DEF g
      <4>1. QED
        BY <3>1, EntriesLookAhead
    <3>3. CASE i = k + 1
      <4>1. g[i] = EntriesFrom(f, t, i)
        BY <3>3
      <4>2. QED
        BY <3>2, <4>1
    <3>4. CASE i # k + 1
      <4>1. i \in (k + 2)..(n + 1) /\ g[i] = f[i]
        BY <1>0, <3>4
      <4>2. [j \in (k + 2)..(n + 1) |-> EntriesFrom(f, t, j)][i] = EntriesFrom(f, t, i)
        BY <4>1, Zenon
      <4>3. QED
        BY <3>2, <4>1, <4>2, Zenon
    <3>5. QED
      BY <3>3, <3>4
  <2>3. g = [i \in (k + 1)..(n + 1) |-> EntriesFrom(g, t, i)]
    BY <2>2
  <2>4. \E h : h = [i \in (k + 1)..(n + 1) |-> EntriesFrom(h, t, i)]
    <3> HIDE DEF g
    <3>1. QED
      BY <2>3, Zenon
  <2>5. QED
    BY <2>4
<1>3. 0 \in T
  <2> HIDE DEF T, n
  <2>1. \A k \in 0..n : k \in T
    BY <1>0, <1>1, <1>2, Downward
  <2>2. QED
    BY <1>0, <2>1
<1>4. QED
  BY <1>3

LEMMA EntriesDef ==
  ASSUME NEW t \in Seq(Tokens)
  PROVE  \E f : /\ f = [i \in 1..(Len(t) + 1) |-> EntriesFrom(f, t, i)]
               /\ Entries(t) = f[1]
<1> DEFINE F == CHOOSE f : f = [i \in 1..(Len(t) + 1) |-> EntriesFrom(f, t, i)]
<1>1. F = [i \in 1..(Len(t) + 1) |-> EntriesFrom(F, t, i)]
  BY EntriesDownTo, Zenon
<1>2. Entries(t) = F[1]
  BY Zenon DEF Entries, EntriesFrom
<1>3. QED
  <2> HIDE DEF F
  <2>1. QED
    BY <1>1, <1>2, Zenon

-----------------------------------------------------------------------------
(* The reference                                                             *)
Levels == [kbps : Nat, div : {1, 2}]

LEMMA MeantType ==
  ASSUME NEW t \in Seq(Tokens), NEW i \in 1..Len(t)
  PROVE  MeantAt(t, i) \in Seq(Levels)
<1>1. CASE BeginsLevel(t, i)
  <2> DEFINE l == [kbps |-> t[i], div |-> IF Halved(t, i) THEN 2 ELSE 1]
  <2>1. t[i] \in Nat
    BY <1>1, NumbersAssumption DEF BeginsLevel
  <2>2. l \in Levels
    BY <2>1 DEF Levels
  <2>3. MeantAt(t, i) = <<l>>
    BY <1>1 DEF MeantAt
  <2> HIDE DEF l
  <2>4. QED
    BY <2>2, <2>3
<1>2. CASE ~BeginsLevel(t, i)
  BY <1>2 DEF MeantAt
<1>3. QED
  BY <1>1, <1>2

FlatFrom(f, ss, i) == IF i = 1 THEN ss[i] ELSE f[i - 1] \o ss[i]

LEMMA FlattenUpTo ==
  ASSUME NEW ss, NEW n \in Nat
  PROVE  \E f : f = [i \in 1..n |-> FlatFrom(f, ss, i)]
<1> DEFINE T == {m \in Nat : \E f : f = [i \in 1..m |-> FlatFrom(f, ss, i)]}
<1>1. 0 \in T
  <2> DEFINE f == [i \in 1..0 |-> 0]
  <2>1. f = [i \in 1..0 |-> FlatFrom(f, ss, i)]
    OBVIOUS
  <2>2. QED
    BY <2>1
<1>2. \A m \in 0..(n - 1) : m \in T => m + 1 \in T
  <2> SUFFICES ASSUME NEW m \in 0..(n - 1), NEW f,
                      f = [i \in 1..m |-> FlatFrom(f, ss, i)]
               PROVE  m + 1 \in T
    OBVIOUS
  <2> DEFINE g == [i \in 1..(m + 1) |-> IF i <= m THEN f[i] ELSE FlatFrom(f, ss, m + 1)]
  <2>1. ASSUME NEW i \in 1..(m + 1) PROVE g[i] = FlatFrom(g, ss, i)
    <3>1. CASE i = 1 /\ i <= m
      <4>1. g[i] = f[i] /\ i \in 1..m
        BY <3>1
      <4>2. [k \in 1..m |-> FlatFrom(f, ss, k)][i] = FlatFrom(f, ss, i)
        BY <4>1, Zenon
      <4> HIDE DEF g
      <4>3. QED
        BY <3>1, <4>1, <4>2, Zenon DEF FlatFrom
    <3>2. CASE i # 1 /\ i <= m
      <4>1. g[i] = f[i] /\ i \in 1..m /\ g[i - 1] = f[i - 1]
        BY <3>2
      <4>2. [k \in 1..m |-> FlatFrom(f, ss, k)][i] = FlatFrom(f, ss, i)
        BY <4>1, Zenon
      <4> HIDE DEF g
      <4>3. QED
        BY <3>2, <4>1, <4>2, Zenon DEF FlatFrom
    <3>3. CASE i = m + 1 /\ i # 1
      <4>1. g[i] = FlatFrom(f, ss, i) /\ g[i - 1] = f[i - 1]
        BY <3>3
      <4> HIDE DEF g
      <4>2. QED
        BY <3>3, <4>1, Zenon DEF FlatFrom
    <3>4. CASE i = m + 1 /\ i = 1
      <4>1. g[i] = FlatFrom(f, ss, i)
        BY <3>4
      <4> HIDE DEF g
      <4>2. QED
        BY <3>4, <4>1, Zenon DEF FlatFrom
    <3>5. i <= m \/ i = m + 1
      OBVIOUS
    <3>6. QED
      BY <3>1, <3>2, <3>3, <3>4, <3>5
  <2>2. g = [i \in 1..(m + 1) |-> FlatFrom(g, ss, i)]
    BY <2>1
  <2>3. \E h : h = [i \in 1..(m + 1) |-> FlatFrom(h, ss, i)]
    <3> HIDE DEF g
    <3>1. QED
      BY <2>2, Zenon
  <2>4. QED
    BY <2>3
<1>3. QED
  <2> HIDE DEF T
  <2>1. \A m \in 0..n : m \in T
    BY <1>1, <1>2, Upward
  <2>2. n \in T
    BY <2>1
  <2>3. QED
    BY <2>2 DEF T

\* What is meant by the first k tokens, for every k.
IsMeant(F, t) ==
  /\ F[0] = <<>>
  /\ \A k \in 1..Len(t) : F[k] = F[k - 1] \o MeantAt(t, k)
  /\ \A k \in 0..Len(t) : F[k] \in Seq(Levels)

LEMMA MeantDef ==
  ASSUME NEW t \in Seq(Tokens)
  PROVE  \E F : IsMeant(F, t) /\ MeantEntries(t) = F[Len(t)]
<1> DEFINE n == Len(t)
           ss == [i \in DOMAIN t |-> MeantAt(t, i)]
<1>0. n \in Nat /\ DOMAIN t = 1..n
  OBVIOUS
<1>1. /\ ss \in Seq(Seq(Levels)) /\ Len(ss) = n
      /\ \A i \in 1..n : ss[i] = MeantAt(t, i) /\ ss[i] \in Seq(Levels)
  <2>1. ss \in [1..n -> Seq(Levels)]
    BY <1>0, MeantType
  <2>2. \A i \in 1..n : ss[i] = MeantAt(t, i)
    BY <1>0
  <2> HIDE DEF ss
  <2>3. ss \in Seq(Seq(Levels)) /\ Len(ss) = n
    <3> HIDE DEF n
    <3>1. QED
      BY ONLY <1>0, <2>1
  <2>4. \A i \in 1..n : ss[i] \in Seq(Levels)
    BY ONLY <2>1, Zenon
  <2>5. QED
    BY ONLY <2>2, <2>3, <2>4, Zenon
<1>2. MeantEntries(t) = FlattenSeq(ss)
  BY DEF MeantEntries
<1> HIDE DEF ss
<1>3. CASE n = 0
  <2> DEFINE F == [k \in 0..0 |-> <<>>]
  <2>1. F[0] = <<>> /\ <<>> \in Seq(Levels)
    OBVIOUS
  <2>2. ss = <<>>
    BY <1>1, <1>3
  <2>3. MeantEntries(t) = <<>>
    BY <1>1, <1>2, <1>3, <2>2 DEF FlattenSeq
  <2> HIDE DEF F
  <2>4. IsMeant(F, t)
    <3>1. \A k \in 0..Len(t) : k = 0
      BY <1>3
    <3>2. \A k \in 1..Len(t) : FALSE
      BY <1>3
    <3>3. QED
      BY <2>1, <3>1, <3>2, Zenon DEF IsMeant
  <2>5. QED
    BY <1>3, <2>1, <2>3, <2>4
<1>4. CASE n # 0
  <2> DEFINE f == CHOOSE h : h = [i \in 1..n |-> FlatFrom(h, ss, i)]
  <2>1. f = [i \in 1..n |-> FlatFrom(f, ss, i)]
    BY <1>0, FlattenUpTo, Zenon
  <2>2. FlattenSeq(ss) = f[n]
    <3>1. Len(ss) # 0 /\ Len(ss) = n
      BY <1>1, <1>4
    <3> HIDE DEF n
    <3>2. QED
      BY <3>1, Zenon DEF FlattenSeq, FlatFrom
  <2> HIDE DEF f
  <2>3. \A i \in 1..n : f[i] = FlatFrom(f, ss, i)
    <3> SUFFICES ASSUME NEW i \in 1..n PROVE f[i] = FlatFrom(f, ss, i)
      OBVIOUS
    <3>1. [k \in 1..n |-> FlatFrom(f, ss, k)][i] = FlatFrom(f, ss, i)
      BY Zenon
    <3>2. QED
      BY <2>1, <3>1, Zenon
  <2> DEFINE F == [k \in 0..n |-> IF k = 0 THEN <<>> ELSE f[k]]
             T == {k \in Nat : F[k] \in Seq(Levels)}
  <2>4. F[0] = <<>> /\ \A k \in 1..n : F[k] = f[k]
    BY <1>0
  <2> HIDE DEF F
  <2>5. F[1] = ss[1] /\ ss[1] \in Seq(Levels)
    BY <1>0, <1>1, <1>4, <2>3, <2>4 DEF FlatFrom
  <2>6. ASSUME NEW k \in 1..n PROVE F[k] = F[k - 1] \o ss[k]
    <3>1. CASE k = 1
      <4>1. <<>> \o ss[1] = ss[1]
        BY <2>5
      <4>2. F[k - 1] = <<>>
        BY <2>4, <3>1
      <4>3. QED
        BY <2>5, <3>1, <4>1, <4>2
    <3>2. CASE k # 1
      <4>1. F[k] = f[k] /\ F[k - 1] = f[k - 1]
        BY <1>0, <2>4, <3>2
      <4>2. f[k] = f[k - 1] \o ss[k]
        BY <2>3, <3>2, Zenon DEF FlatFrom
      <4>3. QED
        BY <4>1, <4>2, Zenon
    <3>3. QED
      BY <3>1, <3>2
  <2>7. \A k \in 0..n : k \in T
    <3>1. 0 \in T
      <4>1. <<>> \in Seq(Levels)
        OBVIOUS
      <4>2. F[0] \in Seq(Levels)
        BY <2>4, <4>1, Zenon
      <4>3. QED
        BY <4>2
    <3>2. \A k \in 0..(n - 1) : k \in T => k + 1 \in T
      <4> SUFFICES ASSUME NEW k \in 0..(n - 1), F[k] \in Seq(Levels) PROVE k + 1 \in T
        OBVIOUS
      <4>1. k + 1 \in 1..n /\ (k + 1) - 1 = k
        BY <1>0
      <4>2. F[k + 1] = F[k] \o ss[k + 1] /\ ss[k + 1] \in Seq(Levels)
        BY <1>1, <2>6, <4>1
      <4>3. F[k + 1] \in Seq(Levels)
        BY <4>2
      <4>4. QED
        BY <4>1, <4>3
    <3> HIDE DEF T
    <3>3. QED
      BY <1>0, <3>1, <3>2, Upward
  <2>8. IsMeant(F, t)
    BY <1>1, <2>4, <2>6, <2>7 DEF IsMeant
  <2>9. MeantEntries(t) = F[n]
    BY <1>0, <1>2, <1>4, <2>2, <2>4
  <2>10. QED
    BY <2>8, <2>9
<1>5. QED
  BY <1>3, <1>4

\* One place of a stretch gives levels, the others none.
LEMMA StretchMeans ==
  ASSUME NEW t \in Seq(Tokens), NEW F, IsMeant(F, t),
         NEW a \in 1..Len(t), NEW b \in (a + 1)..(Len(t) + 1), NEW j \in a..(b - 1),
         \A k \in a..(b - 1) : k # j => MeantAt(t, k) = <<>>
  PROVE  F[b - 1] = F[a - 1] \o MeantAt(t, j)
<1> DEFINE n == Len(t)
           whole == F[a - 1] \o MeantAt(t, j)
           T == {d \in Nat : F[a - 1 + d] = IF a - 1 + d < j THEN F[a - 1] ELSE whole}
<1>0. n \in Nat /\ a \in 1..n /\ b \in (a + 1)..(n + 1) /\ j \in a..(b - 1) /\ j \in 1..n
  OBVIOUS
<1>1. /\ \A k \in 1..n : F[k] = F[k - 1] \o MeantAt(t, k)
      /\ \A k \in 0..n : F[k] \in Seq(Levels)
  BY DEF IsMeant
<1>2. MeantAt(t, j) \in Seq(Levels) /\ whole \in Seq(Levels)
  <2>1. MeantAt(t, j) \in Seq(Levels)
    BY <1>0, MeantType
  <2>2. F[a - 1] \in Seq(Levels)
    BY <1>0, <1>1
  <2>3. QED
    BY <2>1, <2>2
<1> HIDE DEF n, whole
<1>3. 0 \in T
  BY <1>0
<1>4. \A d \in 0..(b - a - 1) : d \in T => d + 1 \in T
  <2> SUFFICES ASSUME NEW d \in 0..(b - a - 1),
                      F[a - 1 + d] = IF a - 1 + d < j THEN F[a - 1] ELSE whole
               PROVE  F[a - 1 + (d + 1)] = IF a - 1 + (d + 1) < j THEN F[a - 1] ELSE whole
    OBVIOUS
  <2>1. /\ a - 1 + (d + 1) = a + d /\ (a + d) - 1 = a - 1 + d
        /\ a + d \in a..(b - 1) /\ a + d \in 1..n
    BY <1>0
  <2>2. F[a + d] = F[a - 1 + d] \o MeantAt(t, a + d)
    BY <1>1, <2>1
  <2>3. CASE a + d = j
    <3>1. F[a - 1 + d] = F[a - 1]
      BY <1>0, <2>3
    <3>2. F[a + d] = whole
      BY <2>2, <2>3, <3>1 DEF whole
    <3>3. ~(a + d < j)
      BY <1>0, <2>3
    <3>4. QED
      BY <2>1, <3>2, <3>3
  <2>4. CASE a + d # j
    <3>1. MeantAt(t, a + d) = <<>>
      BY <2>1, <2>4
    <3>2. F[a - 1 + d] \in Seq(Levels)
      BY <1>0, <1>1, <2>1
    <3>3. F[a + d] = F[a - 1 + d]
      <4> DEFINE before == F[a - 1 + d]
      <4>1. before \in Seq(Levels) /\ F[a + d] = before \o <<>>
        BY <2>2, <3>1, <3>2
      <4> HIDE DEF before
      <4>2. before \o <<>> = before
        BY <4>1
      <4>3. QED
        BY <4>1, <4>2 DEF before
    <3>4. a - 1 + d < j <=> a + d < j
      BY <1>0, <2>4
    <3>5. QED
      BY <2>1, <3>3, <3>4
  <2>5. QED
    BY <2>3, <2>4
<1>5. \A d \in 0..(b - a) : d \in T
  <2>1. b - a \in Nat
    BY <1>0
  <2> HIDE DEF T
  <2>2. QED
    BY <1>3, <1>4, <2>1, Upward
<1>6. b - a \in 0..(b - a) /\ a - 1 + (b - a) = b - 1 /\ ~(b - 1 < j)
  BY <1>0
<1>7. F[b - 1] = whole
  BY <1>5, <1>6
<1>8. QED
  BY <1>7 DEF whole

-----------------------------------------------------------------------------
(* Parser and reference agree                                                *)

\* A place the parser starts an entry at.
Turn(t, i) ==
  \/ i = 1 \/ i = Len(t) + 1
  \/ i \in 2..Len(t) /\ t[i] \notin Separators /\ t[i - 1] \in Separators

LEMMA NextIsTurn ==
  ASSUME NEW t \in Seq(Tokens), NEW i \in 1..(Len(t) + 1)
  PROVE  Turn(t, NextEntry(t, i))
<1> DEFINE e == NextEntry(t, i)
<1>1. /\ e \in i..(Len(t) + 1)
      /\ e <= Len(t) => e > i /\ t[e] \notin Separators /\ t[e - 1] \in Separators
  BY NextEntryIs
<1> HIDE DEF e
<1>2. CASE e = Len(t) + 1
  BY <1>2 DEF Turn, e
<1>3. CASE e # Len(t) + 1
  <2>1. e \in 2..Len(t)
    BY <1>1, <1>3
  <2>2. QED
    BY <1>1, <2>1 DEF Turn, e
<1>4. QED
  BY <1>2, <1>3

\* A suffix of "@30" halves, any other does not, and none begins a level.
LEMMA SuffixMeans ==
  ASSUME NEW t \in Seq(Tokens), WellFormed(t), NEW j \in 1..Len(t), t[j] \in Numbers
  PROVE  /\ SuffixAt(t, j + 1).div = IF Halved(t, j) THEN 2 ELSE 1
         /\ \A k \in (j + 1)..SuffixAt(t, j + 1).next :
              k <= Len(t) => t[k] \in Separators \/ t[k - 1] \notin Separators
<1> DEFINE n == Len(t)
<1>0. n \in Nat /\ j \in 1..n /\ j \in Nat
  OBVIOUS
<1>1. t[j] \notin Separators
  BY TokenKinds
<1> HIDE DEF n
<1>2. CASE j + 1 > n \/ t[j + 1] # At
  <2>1. SuffixAt(t, j + 1) = [div |-> 1, next |-> j + 1]
    BY <1>2, Zenon DEF SuffixAt, n
  <2>2. ~Halved(t, j)
    BY <1>0, <1>2 DEF Halved, n
  <2>3. \A k \in (j + 1)..(j + 1) : k - 1 = j
    BY <1>0
  <2>4. QED
    BY <1>1, <2>1, <2>2, <2>3
<1>3. CASE ~(j + 1 > n \/ t[j + 1] # At)
  <2>1. /\ j + 1 \in 1..Len(t) /\ (j + 1) + 1 = j + 2 /\ j + 2 \in 1..(Len(t) + 1)
        /\ t[j + 1] = At
    BY <1>0, <1>3 DEF n
  <2>2. t[j + 1] \notin Separators
    BY <2>1, TokenKinds
  <2>3. PICK f \in (j + 2)..(Len(t) + 1) :
          /\ \A k \in (j + 2)..(f - 1) : t[k] = Blank
          /\ f <= Len(t) /\ t[f] \in Numbers => NumberAt(t, j + 2) = {f}
          /\ ~(f <= Len(t) /\ t[f] \in Numbers) => NumberAt(t, j + 2) = {}
    BY <2>1, NumberIs
  <2>4. f = j + 2
    <3> SUFFICES ASSUME f # j + 2 PROVE FALSE
      OBVIOUS
    <3>1. j + 2 \in (j + 2)..(f - 1) /\ j + 2 \in 2..Len(t) /\ (j + 2) - 1 = j + 1
      BY <1>0, <2>1, <2>3 DEF n
    <3>2. t[j + 2] = Blank
      BY <2>3, <3>1
    <3>3. QED
      BY <2>2, <3>1, <3>2 DEF WellFormed
  <2> DEFINE fps == NumberAt(t, j + 2)
             dv == IF \E k \in fps : t[k] = HalfRate THEN 2 ELSE 1
             nx == IF fps = {} THEN j + 2 ELSE Max(fps) + 1
  <2>5. SuffixAt(t, j + 1).div = dv /\ SuffixAt(t, j + 1).next = nx
    <3>1. ~(j + 1 > Len(t) \/ t[j + 1] # At)
      BY <1>3 DEF n
    <3>2. SuffixAt(t, j + 1) = [div |-> dv, next |-> nx]
      BY <2>1, <3>1, Zenon DEF SuffixAt
    <3> HIDE DEF dv, nx
    <3>3. QED
      BY <3>2
  <2>6. CASE j + 2 <= n /\ t[j + 2] \in Numbers
    <3>1. NumberAt(t, j + 2) = {j + 2} /\ j + 2 \in Nat
      BY <1>0, <2>3, <2>4, <2>6 DEF n
    <3>2. Max({j + 2}) = j + 2
      BY <3>1, MaxOfOne
    <3>3. /\ SuffixAt(t, j + 1).next = j + 3
          /\ SuffixAt(t, j + 1).div = IF t[j + 2] = HalfRate THEN 2 ELSE 1
      <4>0. {j + 2} # {}
        OBVIOUS
      <4>1. SuffixAt(t, j + 1).next = Max({j + 2}) + 1
        <5>1. nx = Max({j + 2}) + 1
          BY <3>1, <4>0, Zenon
        <5>2. QED
          BY <2>5, <5>1, Zenon
      <4>2. SuffixAt(t, j + 1).div = IF \E k \in {j + 2} : t[k] = HalfRate THEN 2 ELSE 1
        BY <2>5, <3>1
      <4>3. (\E k \in {j + 2} : t[k] = HalfRate) <=> t[j + 2] = HalfRate
        OBVIOUS
      <4>4. QED
        BY <1>0, <3>2, <4>1, <4>2, <4>3
    <3>4. Halved(t, j) <=> t[j + 2] = HalfRate
      BY <2>1, <2>6 DEF Halved, n
    <3>5. t[j + 2] \notin Separators
      BY <1>0, <2>6, TokenKinds DEF n
    <3>6. ASSUME NEW k \in (j + 1)..(j + 3) PROVE t[k - 1] \notin Separators
      <4>1. k - 1 = j \/ k - 1 = j + 1 \/ k - 1 = j + 2
        BY <1>0
      <4>2. QED
        BY <1>1, <2>2, <3>5, <4>1
    <3>7. QED
      BY <3>3, <3>4, <3>6
  <2>7. CASE ~(j + 2 <= n /\ t[j + 2] \in Numbers)
    <3>1. NumberAt(t, j + 2) = {}
      BY <2>3, <2>4, <2>7 DEF n
    <3>2. SuffixAt(t, j + 1).next = j + 2 /\ SuffixAt(t, j + 1).div = 1
      BY <2>5, <3>1
    <3>3. ~Halved(t, j)
      BY <2>7, NumbersAssumption DEF Halved, n
    <3>4. ASSUME NEW k \in (j + 1)..(j + 2) PROVE t[k - 1] \notin Separators
      <4>1. k - 1 = j \/ k - 1 = j + 1
        BY <1>0
      <4>2. QED
        BY <1>1, <2>2, <4>1
    <3>5. QED
      BY <3>2, <3>3, <3>4
  <2>8. QED
    BY <2>6, <2>7
<1>4. QED
  BY <1>2, <1>3

\* A place in an entry, and one that holds no number, gives no level.
LEMMA NothingMeant ==
  ASSUME NEW t \in Seq(Tokens), NEW k \in 1..Len(t),
         t[k] \in Separators \/ t[k] \notin Numbers \/ (k # 1 /\ t[k - 1] \notin Separators)
  PROVE  MeantAt(t, k) = <<>>
BY TokenKinds DEF MeantAt, BeginsLevel

\* What one turn of the parser adds is what the places it passes give.
LEMMA OneTurn ==
  ASSUME NEW t \in Seq(Tokens), WellFormed(t), NEW i \in 1..Len(t), Turn(t, i)
  PROVE  \E next \in (i + 1)..(Len(t) + 1) : \E j \in i..(next - 1) :
           /\ Turn(t, next)
           /\ \A k \in i..(next - 1) : k # j => MeantAt(t, k) = <<>>
           /\ \A f : f[next] \in Seq(Levels) => EntriesFrom(f, t, i) = MeantAt(t, j) \o f[next]
<1> DEFINE n == Len(t)
<1>0. n \in Nat /\ i \in 1..n /\ i \in 1..(Len(t) + 1)
  OBVIOUS
<1>1. PICK g \in i..(Len(t) + 1) :
        /\ \A k \in i..(g - 1) : t[k] = Blank
        /\ g <= Len(t) => t[g] # Blank
        /\ g <= Len(t) /\ t[g] \in Numbers => NumberAt(t, i) = {g}
        /\ ~(g <= Len(t) /\ t[g] \in Numbers) => NumberAt(t, i) = {}
  BY <1>0, NumberIs
<1>2. CASE /\ NumberAt(t, i) = {}
           /\ NextEntry(t, i) \in (i + 1)..(Len(t) + 1)
           /\ \A f : EntriesFrom(f, t, i) = f[NextEntry(t, i)]
  <2> DEFINE e == NextEntry(t, i)
  <2>1. Turn(t, e)
    BY <1>0, NextIsTurn
  <2>2. \A k \in (i + 1)..(e - 1) : t[k] \in Separators \/ t[k - 1] \notin Separators
    BY <1>0, NextEntryIs
  <2>3. e \in (i + 1)..(Len(t) + 1)
    BY <1>2
  <2>4. \A f : EntriesFrom(f, t, i) = f[e]
    BY <1>2
  <2> HIDE DEF e
  <2>5. t[i] \notin Numbers
    <3> SUFFICES ASSUME t[i] \in Numbers PROVE FALSE
      OBVIOUS
    <3>1. t[i] # Blank
      BY TokenKinds DEF Separators
    <3>2. g = i
      BY <1>0, <1>1, <3>1
    <3>3. QED
      BY <1>0, <1>1, <1>2, <3>2
  <2>6. ASSUME NEW k \in i..(e - 1) PROVE MeantAt(t, k) = <<>>
    <3>1. k \in 1..Len(t)
      BY <1>0, <2>3
    <3>2. CASE k = i
      BY <2>5, <3>1, <3>2, NothingMeant
    <3>3. CASE k # i
      <4>1. k \in (i + 1)..(e - 1) /\ k # 1
        BY <1>0, <2>3, <3>3
      <4>2. QED
        BY <2>2, <3>1, <4>1, NothingMeant
    <3>4. QED
      BY <3>2, <3>3
  <2>7. i \in i..(e - 1)
    BY <1>0, <2>3
  <2>8. MeantAt(t, i) = <<>>
    BY <2>6, <2>7
  <2>9. ASSUME NEW f, f[e] \in Seq(Levels) PROVE EntriesFrom(f, t, i) = MeantAt(t, i) \o f[e]
    <3> DEFINE rest == f[e]
    <3>1. rest \in Seq(Levels) /\ EntriesFrom(f, t, i) = rest
      BY <2>4, <2>9, Zenon
    <3> HIDE DEF rest
    <3>2. <<>> \o rest = rest
      BY <3>1
    <3>3. EntriesFrom(f, t, i) = MeantAt(t, i) \o rest
      BY <2>8, <3>1, <3>2
    <3>4. QED
      BY <3>3 DEF rest
  <2>10. QED
    BY <2>1, <2>3, <2>6, <2>7, <2>9, Zenon
<1>3. ASSUME NEW j \in i..Len(t), NumberAt(t, i) = {j},
             SuffixAt(t, j + 1).next \in (j + 1)..(Len(t) + 1),
             NextEntry(t, SuffixAt(t, j + 1).next) \in (i + 1)..(Len(t) + 1),
             \A f : EntriesFrom(f, t, i)
                      = LevelAt(t, j) \o f[NextEntry(t, SuffixAt(t, j + 1).next)]
      PROVE  \E next \in (i + 1)..(Len(t) + 1) : \E jj \in i..(next - 1) :
               /\ Turn(t, next)
               /\ \A k \in i..(next - 1) : k # jj => MeantAt(t, k) = <<>>
               /\ \A f : f[next] \in Seq(Levels) => EntriesFrom(f, t, i) = MeantAt(t, jj) \o f[next]
  <2> DEFINE m == SuffixAt(t, j + 1).next
             e == NextEntry(t, m)
  <2>1. /\ j \in i..n /\ j \in 1..Len(t) /\ t[j] \in Numbers
        /\ \A k \in i..(j - 1) : t[k] = Blank
    <3>1. j = g /\ g <= Len(t) /\ t[g] \in Numbers
      BY <1>1, <1>3
    <3>2. QED
      BY <1>0, <1>1, <3>1
  <2>2. /\ SuffixAt(t, j + 1).div = IF Halved(t, j) THEN 2 ELSE 1
        /\ \A k \in (j + 1)..m :
             k <= Len(t) => t[k] \in Separators \/ t[k - 1] \notin Separators
    BY <2>1, SuffixMeans
  <2>3. m \in (j + 1)..(Len(t) + 1) /\ m \in 1..(Len(t) + 1)
    BY <1>0, <1>3, <2>1
  <2> HIDE DEF m
  <2>4. /\ e \in m..(Len(t) + 1) /\ Turn(t, e)
        /\ \A k \in (m + 1)..(e - 1) : t[k] \in Separators \/ t[k - 1] \notin Separators
    BY <2>3, NextEntryIs, NextIsTurn
  <2>5. \A f : EntriesFrom(f, t, i) = LevelAt(t, j) \o f[e]
    BY <1>3 DEF m
  <2> HIDE DEF e
  <2>6. LevelAt(t, j) = MeantAt(t, j)
    <3>1. j = 1 \/ t[j - 1] \in Separators
      <4>1. CASE j = i
        BY <1>0, <2>1, <4>1 DEF Turn
      <4>2. CASE j # i
        <5>1. j - 1 \in i..(j - 1)
          BY <1>0, <2>1, <4>2
        <5>2. QED
          BY <2>1, <5>1 DEF Separators
      <4>3. QED
        BY <4>1, <4>2
    <3>2. BeginsLevel(t, j) <=> t[j] > 0
      <4>1. t[j] \in Nat
        BY <2>1, NumbersAssumption
      <4>2. t[j] # 0 <=> t[j] > 0
        BY <4>1
      <4>3. QED
        BY <2>1, <3>1, <4>2, Zenon DEF BeginsLevel
    <3>3. CASE t[j] > 0
      <4>1. LevelAt(t, j) = <<[kbps |-> t[j], div |-> SuffixAt(t, j + 1).div]>>
        BY <3>3, Zenon DEF LevelAt
      <4>2. MeantAt(t, j) = <<[kbps |-> t[j], div |-> IF Halved(t, j) THEN 2 ELSE 1]>>
        BY <3>2, <3>3, Zenon DEF MeantAt
      <4>3. QED
        BY <2>2, <4>1, <4>2, Zenon
    <3>4. CASE ~(t[j] > 0)
      BY <3>2, <3>4, Zenon DEF LevelAt, MeantAt
    <3>5. QED
      BY <3>3, <3>4
  <2>7. ASSUME NEW k \in i..(e - 1), k # j PROVE MeantAt(t, k) = <<>>
    <3>1. k \in 1..Len(t)
      BY <1>0, <2>4
    <3>2. CASE k < j
      <4>1. k \in i..(j - 1)
        BY <1>0, <2>1, <3>2
      <4>2. t[k] \in Separators
        BY <2>1, <4>1 DEF Separators
      <4>3. QED
        BY <3>1, <4>2, NothingMeant
    <3>3. CASE k \in (j + 1)..m
      <4>1. k # 1 /\ k <= Len(t)
        BY <1>0, <2>1, <3>1, <3>3
      <4>2. t[k] \in Separators \/ t[k - 1] \notin Separators
        BY <2>2, <3>3, <4>1
      <4>3. QED
        BY <3>1, <4>1, <4>2, NothingMeant
    <3>4. CASE k > m
      <4>1. k \in (m + 1)..(e - 1) /\ k # 1
        BY <2>3, <2>4, <3>4
      <4>2. QED
        BY <2>4, <3>1, <4>1, NothingMeant
    <3>5. QED
      BY <1>0, <2>1, <2>3, <2>7, <3>1, <3>2, <3>3, <3>4
  <2>8. e \in (i + 1)..(Len(t) + 1) /\ j \in i..(e - 1)
    BY <1>0, <2>1, <2>3, <2>4
  <2>9. \A f : f[e] \in Seq(Levels) => EntriesFrom(f, t, i) = MeantAt(t, j) \o f[e]
    BY <2>5, <2>6, Zenon
  <2>10. QED
    BY <2>4, <2>7, <2>8, <2>9, Zenon
<1>4. QED
  BY <1>2, <1>3, TurnIs, Zenon

\* "One bad entry must never eat the rest of the ladder" (uav_enc.cpp:208-209): in a
\* text of any length without blanks inside its entries, the parser reads of every
\* entry what it says on its own.
THEOREM EntriesAreMeant ==
  ASSUME NEW t \in Seq(Tokens), WellFormed(t)
  PROVE  Entries(t) = MeantEntries(t)
<1> DEFINE n == Len(t)
<1>0. n \in Nat
  OBVIOUS
<1>1. PICK F : IsMeant(F, t) /\ MeantEntries(t) = F[n]
  BY MeantDef
<1>2. PICK f : /\ f = [i \in 1..(n + 1) |-> EntriesFrom(f, t, i)]
               /\ Entries(t) = f[1]
  BY EntriesDef
<1>3. ASSUME NEW i \in 1..(n + 1) PROVE f[i] = EntriesFrom(f, t, i)
  <2>1. [k \in 1..(n + 1) |-> EntriesFrom(f, t, k)][i] = EntriesFrom(f, t, i)
    BY Zenon
  <2>2. QED
    BY <1>2, <2>1, Zenon
<1>4. /\ F[0] = <<>>
      /\ \A k \in 0..n : F[k] \in Seq(Levels)
  BY <1>1 DEF IsMeant
<1> DEFINE Agrees(i) == f[i] \in Seq(Levels) /\ F[n] = F[i - 1] \o f[i]
           Bad == {d \in 0..n : Turn(t, n + 1 - d) /\ ~Agrees(n + 1 - d)}
<1>5. Bad = {}
  <2> SUFFICES ASSUME Bad # {} PROVE FALSE
    OBVIOUS
  <2>1. PICK d \in Bad : \A y \in Bad : d <= y
    <3>1. Bad \subseteq Nat
      <4> HIDE DEF Agrees, n
      <4>1. 0..n \subseteq Nat
        BY <1>0
      <4>2. QED
        BY <4>1
    <3> HIDE DEF Bad
    <3>2. QED
      BY <3>1, LeastNumber
  <2> DEFINE i == n + 1 - d
  <2>2. d \in 0..n /\ i \in 1..(n + 1) /\ Turn(t, i)
    BY <1>0
  <2>3. ~Agrees(i)
    OBVIOUS
  <2>4. ASSUME NEW k \in (i + 1)..(n + 1), Turn(t, k) PROVE Agrees(k)
    <3> SUFFICES ASSUME ~Agrees(k) PROVE FALSE
      OBVIOUS
    <3> DEFINE y == n + 1 - k
    <3>1. y \in 0..n /\ n + 1 - y = k /\ ~(d <= y)
      BY <1>0, <2>2
    <3> HIDE DEF y, Agrees, i
    <3>2. y \in Bad
      BY <2>4, <3>1
    <3> HIDE DEF Bad
    <3>3. QED
      BY <2>1, <3>1, <3>2
  <2> HIDE DEF Bad, i
  <2>5. CASE i = n + 1
    <3>1. f[i] = <<>>
      BY <1>0, <1>3, <2>5 DEF EntriesFrom
    <3>2. F[n] \in Seq(Levels) /\ i - 1 = n
      BY <1>0, <1>4, <2>5
    <3> DEFINE all == F[n]
    <3>3. all \in Seq(Levels) /\ F[i - 1] = all
      BY <3>2
    <3> HIDE DEF all
    <3>4. all \o <<>> = all /\ <<>> \in Seq(Levels)
      BY <3>3
    <3>5. Agrees(i)
      BY <3>1, <3>3, <3>4 DEF all
    <3>6. QED
      BY <2>3, <3>5
  <2>6. CASE i \in 1..n
    <3>0. PICK next \in (i + 1)..(n + 1) : \E j \in i..(next - 1) :
            /\ Turn(t, next)
            /\ \A k \in i..(next - 1) : k # j => MeantAt(t, k) = <<>>
            /\ \A h : h[next] \in Seq(Levels) => EntriesFrom(h, t, i) = MeantAt(t, j) \o h[next]
      BY <2>2, <2>6, OneTurn
    <3>1. PICK j \in i..(next - 1) :
            /\ Turn(t, next)
            /\ \A k \in i..(next - 1) : k # j => MeantAt(t, k) = <<>>
            /\ \A h : h[next] \in Seq(Levels) => EntriesFrom(h, t, i) = MeantAt(t, j) \o h[next]
      BY <3>0
    <3>2. f[next] \in Seq(Levels) /\ F[n] = F[next - 1] \o f[next]
      <4>1. Agrees(next)
        BY <2>4, <3>1
      <4>2. QED
        BY <4>1
    <3>3. f[i] = MeantAt(t, j) \o f[next]
      BY <1>3, <2>2, <3>1, <3>2, Zenon
    <3>4. F[next - 1] = F[i - 1] \o MeantAt(t, j)
      BY <1>1, <2>6, <3>1, StretchMeans
    <3> DEFINE x == F[i - 1]
               y == MeantAt(t, j)
               z == f[next]
    <3>5. x \in Seq(Levels) /\ y \in Seq(Levels) /\ z \in Seq(Levels)
      <4>1. i - 1 \in 0..n /\ j \in 1..Len(t)
        BY <1>0, <2>6, <3>1
      <4>2. QED
        BY <1>4, <3>2, <4>1, MeantType
    <3>6. F[n] = (x \o y) \o z /\ f[i] = y \o z
      BY <3>2, <3>3, <3>4, Zenon
    <3> HIDE DEF x, y, z
    <3>7. (x \o y) \o z = x \o (y \o z) /\ y \o z \in Seq(Levels)
      BY <3>5
    <3>8. Agrees(i)
      BY <3>6, <3>7 DEF x
    <3>9. QED
      BY <2>3, <3>8
  <2>7. QED
    BY <1>0, <2>2, <2>5, <2>6
<1>6. Agrees(1)
  <2>1. n \in 0..n /\ n + 1 - n = 1 /\ Turn(t, 1)
    BY <1>0 DEF Turn
  <2> SUFFICES ASSUME ~Agrees(1) PROVE FALSE
    OBVIOUS
  <2> HIDE DEF Agrees, n
  <2>2. Turn(t, n + 1 - n) /\ ~Agrees(n + 1 - n)
    BY <2>1, Zenon
  <2>3. n \in Bad
    BY <2>1, <2>2, Zenon
  <2>4. QED
    BY <1>5, <2>3
<1>7. QED
  <2> DEFINE all == f[1]
  <2>0. 1 - 1 = 0
    OBVIOUS
  <2>1. all \in Seq(Levels) /\ F[n] = <<>> \o all
    BY <1>4, <1>6, <2>0, Zenon
  <2> HIDE DEF all
  <2>2. <<>> \o all = all
    BY <2>1
  <2>3. QED
    BY <1>1, <1>2, <2>1, <2>2 DEF all

LEMMA ShortTexts ==
  ASSUME NEW t \in Short
  PROVE  t \in Seq(Tokens) /\ WellFormed(t)
<1>1. PICK m \in 0..MaxText : t \in [1..m -> Tokens]
  BY DEF Short, BoundedSeq, SeqOf
<1>2. m \in Nat
  BY LimitsAssumption
<1>3. t \in Seq(Tokens)
  BY <1>1, <1>2
<1>4. QED
  BY <1>3 DEF Short

LEMMA BehindGoodEntry ==
  ASSUME NEW t \in Seq(Tokens), WellFormed(t)
  PROVE  <<HalfRate, Comma>> \o t \in Seq(Tokens) /\ WellFormed(<<HalfRate, Comma>> \o t)
<1> DEFINE first == <<HalfRate, Comma>>
           w == first \o t
<1>1. first \in Seq(Tokens) /\ Len(first) = 2 /\ first[1] = HalfRate /\ first[2] = Comma
  BY NumbersAssumption DEF Tokens, Separators
<1>2. Comma \in Separators /\ Comma # Blank /\ Comma \notin Numbers /\ Len(t) \in Nat
  BY TokensAssumption DEF Separators
<1> HIDE DEF first
<1>3. /\ w \in Seq(Tokens) /\ Len(w) = Len(t) + 2
      /\ w[2] = Comma
      /\ \A i \in 1..Len(t) : w[i + 2] = t[i]
  <2>1. /\ w \in Seq(Tokens) /\ Len(w) = 2 + Len(t)
        /\ \A i \in 1..(2 + Len(t)) : w[i] = IF i <= 2 THEN first[i] ELSE t[i - 2]
    <3>1. /\ w \in Seq(Tokens) /\ Len(w) = Len(first) + Len(t)
          /\ \A i \in 1..(Len(first) + Len(t)) :
               w[i] = IF i <= Len(first) THEN first[i] ELSE t[i - Len(first)]
      <4>1. first \in Seq(Tokens)
        BY <1>1
      <4>2. QED
        BY <4>1, ConcatProperties, Zenon
    <3> HIDE DEF w
    <3>2. QED
      BY <1>1, <3>1
  <2> HIDE DEF w
  <2>2. 2 \in 1..(2 + Len(t)) /\ 2 <= 2
    BY <1>2
  <2>3. ASSUME NEW i \in 1..Len(t) PROVE w[i + 2] = t[i]
    <3>1. i + 2 \in 1..(2 + Len(t)) /\ ~(i + 2 <= 2) /\ (i + 2) - 2 = i
      BY <1>2
    <3>2. QED
      BY <2>1, <3>1
  <2>4. QED
    BY <1>1, <1>2, <2>1, <2>2, <2>3
<1> HIDE DEF w
<1>4. ASSUME NEW i \in 2..Len(w)
      PROVE  /\ w[i] = Blank => w[i - 1] \in Separators
             /\ w[i] \in Numbers => w[i - 1] \notin Numbers
  <2>1. CASE i = 2
    BY <1>2, <1>3, <2>1
  <2>2. CASE i = 3
    <3>1. i - 1 = 2
      BY <2>2
    <3>2. QED
      BY <1>2, <1>3, <3>1
  <2>3. CASE i > 3
    <3> DEFINE k == i - 2
    <3>1. k \in 2..Len(t) /\ k \in 1..Len(t) /\ k - 1 \in 1..Len(t) /\ k + 2 = i /\ (k - 1) + 2 = i - 1
      BY <1>2, <1>3, <2>3
    <3> HIDE DEF k
    <3>2. w[i] = t[k] /\ w[i - 1] = t[k - 1]
      BY <1>3, <3>1
    <3>3. QED
      BY <3>1, <3>2 DEF WellFormed
  <2>4. QED
    BY <2>1, <2>2, <2>3
<1>5. WellFormed(w)
  BY <1>4 DEF WellFormed
<1>6. QED
  BY <1>3, <1>5 DEF w, first

LEMMA NothingMisread ==
  ASSUME NEW k \in 1..MaxLevels
  PROVE  MisreadAt[k] = {}
<1>1. ASSUME NEW t \in Texts PROVE Ladder(t) = Accepted(MeantEntries(t))
  <2>1. t \in Seq(Tokens) /\ WellFormed(t)
    BY ShortTexts, BehindGoodEntry DEF Texts
  <2>2. QED
    BY <2>1, EntriesAreMeant, Zenon DEF Ladder
<1> DEFINE Misread(kk, t) == LET meant == Accepted(MeantEntries(t))
                             IN Len(Ladder(t)) # Len(meant)
                                \/ (kk <= Len(meant) /\ Ladder(t)[kk] # meant[kk])
<1>2. MisreadAt = [kk \in 1..MaxLevels |-> {t \in Texts : Misread(kk, t)}]
  BY Zenon DEF MisreadAt
<1>3. \A t \in Texts : ~Misread(k, t)
  BY <1>1, Zenon
<1> HIDE DEF Misread
<1>4. MisreadAt[k] = {t \in Texts : Misread(k, t)}
  BY <1>2, Zenon
<1>5. QED
  BY <1>3, <1>4, Zenon

-----------------------------------------------------------------------------
(* The ladder                                                                *)
LEMMA InitIInv == Init => IInv
<1> SUFFICES ASSUME Init PROVE IInv
  OBVIOUS
<1>1. reading \in Readings
  BY DEF Init, Readings, Grades
<1>2. QED
  BY <1>1 DEF Init, IInv, TypeOK, Timers, UpTimerSinceChange, UpTimerIsQuiet

\* A time that is aged stays in its range and does not shrink.
LEMMA AgedType ==
  ASSUME NEW limit \in Nat, NEW t \in Elapsed(limit), NEW dt \in {0, 1}
  PROVE  /\ Aged(t, dt, limit) \in Elapsed(limit)
         /\ t # Never => Aged(t, dt, limit) \in 0..limit
         /\ t # Never => Aged(t, dt, limit) >= t
BY DEF Aged

LEMMA ReadingType ==
  ASSUME TypeOK, NEW dt \in {0, 1}, Observe(dt)
  PROVE  reading' \in Readings
<1> PICK w \in Grades :
      \/ reading' = [reading EXCEPT !.wifi = w, !.age = Aged(@, dt, DropOut + 1)]
      \/ \E l \in Grades, c \in {Unknown} \cup 0..(LastLevel + 1) :
           reading' = [wifi |-> w, loss |-> l, cap |-> c, age |-> 0]
  BY DEF Observe
<1>1. CASE reading' = [reading EXCEPT !.wifi = w, !.age = Aged(@, dt, DropOut + 1)]
  <2>1. reading \in Readings /\ reading.age \in Elapsed(DropOut + 1)
    BY DEF TypeOK, Readings
  <2>2. Aged(reading.age, dt, DropOut + 1) \in Elapsed(DropOut + 1)
    BY <2>1, AgedType
  <2>3. QED
    BY ONLY <1>1, <2>1, <2>2, w \in Grades DEF Readings
<1>2. CASE \E l \in Grades, c \in {Unknown} \cup 0..(LastLevel + 1) :
             reading' = [wifi |-> w, loss |-> l, cap |-> c, age |-> 0]
  BY <1>2 DEF Readings
<1>3. QED
  BY <1>1, <1>2

\* What the iteration makes of the two hold timers.
LEMMA TimerTypes ==
  ASSUME TypeOK, NEW dt \in {0, 1}
  PROVE  /\ BadFor(dt) \in Elapsed(DownHold)
         /\ GoodFor(dt) \in 0..UpHold
         /\ Aged(sinceChange, dt, CongHold) \in Elapsed(CongHold)
         /\ Aged(sinceCong, dt, CongHold) \in Elapsed(CongHold)
         /\ Aged(quiet, dt, UpHold) \in 0..UpHold
<1>1. BadFor(dt) \in Elapsed(DownHold)
  BY DEF BadFor, Aged, TypeOK
<1>2. GoodFor(dt) \in 0..UpHold
  BY DEF GoodFor, Aged, TypeOK
<1>3. QED
  BY <1>1, <1>2 DEF Aged, TypeOK

\* The up-timer stays within the quiet time.
LEMMA QuietStep ==
  ASSUME IInv, NEW dt \in {0, 1}, History(dt)
  PROVE  GoodFor(dt) <= quiet'
<1>1. CASE Healthy(reading')
  <2>1. ~BadLink(reading')
    BY <1>1 DEF Healthy, BadLink, BadLoss
  <2>2. quiet' = Aged(quiet, dt, UpHold) /\ GoodFor(dt) = Aged(healthyFor, dt, UpHold)
    BY <1>1, <2>1 DEF History, GoodFor
  <2>3. QED
    BY <2>2 DEF Aged, IInv, TypeOK, Timers, UpTimerIsQuiet
<1>2. CASE ~Healthy(reading')
  BY <1>2 DEF GoodFor, History, Aged, IInv, TypeOK
<1>3. QED
  BY <1>1, <1>2

LEMMA NextPreserves == IInv /\ [Next]_vars => IInv'
<1> SUFFICES ASSUME IInv, [Next]_vars PROVE IInv'
  OBVIOUS
<1>1. ASSUME NEW dt \in {0, 1}, Iterate(dt) PROVE IInv'
  <2>1. TypeOK /\ History(dt) /\ Observe(dt)
    BY <1>1 DEF IInv, Iterate, Down, Up, Stay
  <2>2. reading' \in Readings
    BY <2>1, ReadingType
  <2>3. quiet' \in 0..UpHold
    BY <2>1, TimerTypes DEF History
  <2>4. CASE Down(dt)
    BY <2>1, <2>2, <2>3, <2>4, TimerTypes
       DEF Down, GoesDown, IInv, TypeOK, Timers, UpTimerSinceChange, UpTimerIsQuiet
  <2>5. CASE Up(dt)
    BY <2>1, <2>2, <2>3, <2>5, TimerTypes
       DEF Up, GoesUp, IInv, TypeOK, Timers, UpTimerSinceChange, UpTimerIsQuiet
  <2>6. CASE Stay(dt)
    <3>1. TypeOK'
      BY <2>1, <2>2, <2>3, <2>6, TimerTypes DEF Stay, TypeOK
    <3>2. UpTimerSinceChange'
      BY <2>6 DEF Stay, GoodFor, Aged, IInv, TypeOK, Timers, UpTimerSinceChange
    <3>3. UpTimerIsQuiet'
      BY <2>1, <2>6, QuietStep DEF Stay, UpTimerIsQuiet
    <3>4. QED
      BY <3>1, <3>2, <3>3 DEF IInv, Timers
  <2>7. QED
    BY <1>1, <2>4, <2>5, <2>6 DEF Iterate
<1>2. CASE UNCHANGED vars
  BY <1>2 DEF vars, IInv, TypeOK, Timers, UpTimerSinceChange, UpTimerIsQuiet
<1>3. QED
  BY <1>1, <1>2 DEF Next

LEMMA InvariantLemma == Spec => []IInv
BY InitIInv, NextPreserves, PTL DEF Spec

-----------------------------------------------------------------------------
\* The state keeps its type.
THEOREM TypeCorrect == Spec => []TypeOK
<1>1. IInv => TypeOK
  BY DEF IInv
<1>2. QED
  BY <1>1, InvariantLemma, PTL

\* A step up has g_up_hold_s without a bad or stale WiFi or loss reading, and
\* without a change of level, behind it (uav_enc.cpp:105), for any ladder and any
\* hold times.
THEOREM UpAfterQuietThm == Spec => UpAfterQuiet
<1>1. IInv /\ [Next]_vars
        => [lvl' < lvl => /\ quiet' >= UpHold
                          /\ sinceChange = Never \/ sinceChange + 1 >= UpHold]_vars
  <2> SUFFICES ASSUME IInv, NEW dt \in {0, 1}, Iterate(dt), lvl' < lvl
               PROVE  /\ quiet' >= UpHold
                      /\ sinceChange = Never \/ sinceChange + 1 >= UpHold
    BY DEF Next
  <2>1. Up(dt)
    BY DEF Iterate, Down, Stay, IInv, TypeOK
  <2>2. GoodFor(dt) >= UpHold /\ GoodFor(dt) <= quiet'
    BY <2>1, QuietStep DEF Up, GoesUp, Iterate
  <2>3. GoodFor(dt) \in Nat /\ quiet' \in Nat
    BY TimerTypes DEF Iterate, History, IInv
  <2>4. quiet' >= UpHold
    BY <2>2, <2>3
  <2>5. GoodFor(dt) = 0 \/ GoodFor(dt) <= healthyFor + 1
    BY DEF GoodFor, Aged, IInv, TypeOK
  <2>6. healthyFor + 1 >= UpHold
    BY <2>2, <2>3, <2>5 DEF IInv, TypeOK
  <2>7. sinceChange = Never \/ sinceChange + 1 >= UpHold
    BY <2>6 DEF IInv, TypeOK, Timers, UpTimerSinceChange
  <2>8. QED
    BY <2>4, <2>7
<1>2. QED
  BY <1>1, InvariantLemma, PTL DEF Spec, UpAfterQuiet

\* A link that has been unhealthy for g_down_hold_s is left at its level only until
\* g_min_dwell_s have passed since the last change, or at the floor.
NotOverdue ==
  unhealthyFor >= DownHold /\ lvl < LastLevel => sinceChange # Never /\ sinceChange < MinDwell

\* The safety half of Degrades: no reading, no change of the level and no timer can
\* put the step down off any longer than the two holds (uav_enc.cpp:570 and 587-588).
THEOREM NotOverdueThm == Spec => []NotOverdue
<1>1. Init => NotOverdue
  BY DEF Init, NotOverdue
<1>2. IInv /\ NotOverdue /\ [Next]_vars => NotOverdue'
  <2> SUFFICES ASSUME IInv, NotOverdue, [Next]_vars PROVE NotOverdue'
    OBVIOUS
  <2>1. ASSUME NEW dt \in {0, 1}, Stay(dt) PROVE NotOverdue'
    <3> SUFFICES ASSUME unhealthyFor' >= DownHold, lvl < LastLevel
                 PROVE  sinceChange' # Never /\ sinceChange' < MinDwell
      BY <2>1 DEF Stay, NotOverdue
    <3>1. ~DwellOk(dt)
      BY <2>1 DEF Stay, GoesDown
    <3>2. sinceChange \in Nat /\ sinceChange + dt < MinDwell
      BY <3>1 DEF DwellOk, IInv, TypeOK
    <3> QED BY <2>1, <3>2 DEF Stay, Aged
  <2>2. ASSUME NEW dt \in {0, 1}, Down(dt) \/ Up(dt) PROVE NotOverdue'
    BY <2>2 DEF Down, Up, NotOverdue
  <2>3. CASE UNCHANGED vars
    BY <2>3 DEF vars, NotOverdue
  <2> QED BY <2>1, <2>2, <2>3 DEF Next, Iterate
<1> QED BY <1>1, <1>2, InvariantLemma, PTL DEF Spec

\* The level the ladder is on is the one its entry says, whatever stands between the
\* other commas (uav_enc.cpp:208-209), for a table of any size and texts of any length.
THEOREM BadEntryStaysAloneThm == Spec => []BadEntryStaysAlone
<1>1. TypeOK => BadEntryStaysAlone
  <2> SUFFICES ASSUME TypeOK PROVE MisreadAt[lvl + 1] = {}
    BY DEF BadEntryStaysAlone
  <2>1. lvl \in 0..LastLevel /\ MaxLevels \in Nat
    BY LimitsAssumption DEF TypeOK
  <2>2. lvl + 1 \in 1..MaxLevels
    BY <2>1, TableAssumption
  <2>3. QED
    BY <2>2, NothingMisread
<1>2. QED
  BY <1>1, TypeCorrect, PTL
=============================================================================
