----------------------------- MODULE LoopProofs -----------------------------
(***************************************************************************)
(* What the proofs about loops and sequences rest on.  A loop's value for  *)
(* a longer text follows from its value for the text without the last item *)
(* (CarriedGrows); what holds of a whole text is shown for its beginnings, *)
(* one item at a time (Counting, TextInduction).                           *)
(***************************************************************************)
EXTENDS Loops, SequenceTheorems, WellFoundedInduction, TLAPS

\* A nonempty set of indices has a least one.
LEMMA LeastIndex ==
  ASSUME NEW S \in SUBSET Nat, S # {}
  PROVE  \E i \in S : \A j \in S : i <= j
<1>1. PICK i \in S : \A j \in S : ~(<<j, i>> \in OpToRel(<, Nat))
  BY WFMin, NatLessThanWellFounded
<1>2. ASSUME NEW j \in S PROVE i <= j
  <2>1. <<j, i>> \in Nat \X Nat
    OBVIOUS
  <2>2. ~(j < i)
    BY <1>1, <2>1 DEF OpToRel
  <2> QED BY <2>2
<1> QED BY <1>2

-----------------------------------------------------------------------------
\* Counting up from zero reaches every number.
LEMMA Counting ==
  ASSUME NEW S, 0 \in S, \A n \in Nat : n \in S => n + 1 \in S
  PROVE  \A n \in Nat : n \in S
<1> DEFINE T == {n \in Nat : n \notin S}
<1> SUFFICES ASSUME T # {} PROVE FALSE
  OBVIOUS
<1>1. PICK n \in T : \A m \in T : ~(<<m, n>> \in OpToRel(<, Nat))
  BY WFMin, NatLessThanWellFounded
<1>2. n \in Nat \ {0} /\ n \notin S
  BY <1>1
<1>3. n - 1 \in Nat /\ n - 1 < n /\ (n - 1) + 1 = n
  BY <1>2
<1>4. n - 1 \in T
  BY <1>2, <1>3
<1> QED BY <1>1, <1>3, <1>4 DEF OpToRel

\* A text is its beginning with its last character behind it.
LEMMA LastSplits ==
  ASSUME NEW E, NEW t \in Seq(E), NEW n \in Nat, n < Len(t)
  PROVE  /\ t[n + 1] \in E
         /\ SubSeq(t, 1, n) \in Seq(E) /\ Len(SubSeq(t, 1, n)) = n
         /\ SubSeq(t, 1, n + 1) = Append(SubSeq(t, 1, n), t[n + 1])
<1>0. n + 1 \in 1..Len(t) /\ t[n + 1] \in E
  BY LenProperties, ElementOfSeq
<1>1. SubSeq(t, 1, n) \in Seq(E) /\ Len(SubSeq(t, 1, n)) = n
      /\ \A i \in 1..n : SubSeq(t, 1, n)[i] = t[i]
  BY LenProperties, SubSeqProperties
<1>2. SubSeq(t, 1, n + 1) \in Seq(E) /\ Len(SubSeq(t, 1, n + 1)) = n + 1
      /\ \A i \in 1..n + 1 : SubSeq(t, 1, n + 1)[i] = t[i]
  BY LenProperties, SubSeqProperties
<1>3. Append(SubSeq(t, 1, n), t[n + 1]) \in Seq(E)
      /\ Len(Append(SubSeq(t, 1, n), t[n + 1])) = n + 1
      /\ \A i \in 1..n + 1 : Append(SubSeq(t, 1, n), t[n + 1])[i] = t[i]
  BY <1>0, <1>1, AppendProperties
<1> QED BY <1>0, <1>1, <1>2, <1>3, SeqEqual

\* What the loop over t carries when f[i] is its value behind the i-th character.
Solves(f, step, start, t) ==
  f = [i \in 0..Len(t) |-> IF i = 0 THEN start ELSE step[f[i - 1]][t[i]]]

LEMMA SolutionIsCarried ==
  ASSUME NEW step, NEW start, NEW t, NEW f, Solves(f, step, start, t),
         \A g : Solves(g, step, start, t) => g = f
  PROVE  Carried(step, start, t) = f[Len(t)]
<1>1. (CHOOSE g : Solves(g, step, start, t)) = f
  OBVIOUS
<1> QED BY <1>1 DEF Carried, Solves

AtEach(f, step, start, t) ==
  f[0] = start /\ \A i \in 1..Len(t) : f[i] = step[f[i - 1]][t[i]]

LEMMA SolutionAtEach ==
  ASSUME NEW step, NEW start, NEW t, NEW f, Len(t) \in Nat, Solves(f, step, start, t)
  PROVE  AtEach(f, step, start, t)
<1>1. \A i \in 0..Len(t) : f[i] = IF i = 0 THEN start ELSE step[f[i - 1]][t[i]]
  BY Zenon DEF Solves
<1> QED BY <1>1 DEF AtEach

LEMMA EachIsSolution ==
  ASSUME NEW S, NEW step, NEW start, NEW t, Len(t) \in Nat, NEW f \in [0..Len(t) -> S],
         f[0] = start, \A i \in 1..Len(t) : f[i] = step[f[i - 1]][t[i]]
  PROVE  Solves(f, step, start, t)
<1> DEFINE h == [i \in 0..Len(t) |-> IF i = 0 THEN start ELSE step[f[i - 1]][t[i]]]
<1>1. DOMAIN h = 0..Len(t) /\ \A i \in 0..Len(t) : h[i] = f[i]
  OBVIOUS
<1>2. h = [i \in 0..Len(t) |-> h[i]] /\ f = [i \in 0..Len(t) |-> f[i]]
  BY Zenon
<1>3. f = h
  <2> HIDE DEF h
  <2>1. [i \in 0..Len(t) |-> h[i]] = [i \in 0..Len(t) |-> f[i]]
    BY <1>1
  <2> QED BY <1>2, <2>1, Zenon
<1> QED BY <1>3, Zenon DEF Solves

LEMMA SolutionIsUnique ==
  ASSUME NEW E, NEW step, NEW start, NEW t \in Seq(E), NEW f, NEW g,
         Solves(f, step, start, t), Solves(g, step, start, t)
  PROVE  g = f
<1> DEFINE S == {n \in Nat : n <= Len(t) => g[n] = f[n]}
<1>0. Len(t) \in Nat
  BY LenProperties
<1>a. AtEach(f, step, start, t) /\ AtEach(g, step, start, t)
  BY <1>0, SolutionAtEach, Zenon
<1>1. 0 \in S
  BY <1>a DEF AtEach
<1>2. ASSUME NEW n \in Nat, n \in S PROVE n + 1 \in S
  <2>1. CASE n + 1 <= Len(t)
    <3>1. g[n] = f[n] /\ n + 1 \in 1..Len(t) /\ (n + 1) - 1 = n
      BY <1>0, <1>2, <2>1
    <3>2. f[n + 1] = step[f[(n + 1) - 1]][t[n + 1]] /\ g[n + 1] = step[g[(n + 1) - 1]][t[n + 1]]
      BY <1>a, <3>1 DEF AtEach
    <3> QED BY <3>1, <3>2
  <2> QED BY <2>1
<1>3. \A n \in Nat : n \in S
  <2> HIDE DEF S
  <2> QED BY <1>1, <1>2, Counting
<1>4. \A n \in 0..Len(t) : g[n] = f[n]
  BY <1>0, <1>3
<1>5. g = [n \in 0..Len(t) |-> g[n]] /\ f = [n \in 0..Len(t) |-> f[n]]
  BY Zenon DEF Solves
<1>6. [n \in 0..Len(t) |-> g[n]] = [n \in 0..Len(t) |-> f[n]]
  BY <1>4
<1> QED BY <1>5, <1>6, Zenon

LEMMA SolutionGrows ==
  ASSUME NEW S, NEW E, NEW step, NEW start, NEW t \in Seq(E), NEW c \in E,
         NEW f, Solves(f, step, start, t),
         NEW g \in [0..Len(t) + 1 -> S], \A i \in 0..Len(t) : g[i] = f[i],
         g[Len(t) + 1] = step[f[Len(t)]][c]
  PROVE  Solves(g, step, start, Append(t, c))
<1>0. Len(t) \in Nat /\ Len(Append(t, c)) = Len(t) + 1
      /\ Append(t, c)[Len(t) + 1] = c
      /\ \A i \in 1..Len(t) : Append(t, c)[i] = t[i]
  BY LenProperties, AppendProperties
<1>a. AtEach(f, step, start, t)
  BY <1>0, SolutionAtEach, Zenon
<1>1. f[0] = start /\ \A i \in 1..Len(t) : f[i] = step[f[i - 1]][t[i]]
  BY <1>a DEF AtEach
<1>2. g[0] = start
  BY <1>0, <1>1
<1>3. ASSUME NEW i \in 1..Len(Append(t, c))
      PROVE  g[i] = step[g[i - 1]][Append(t, c)[i]]
  <2>1. g[i - 1] = f[i - 1]
    BY <1>0
  <2>2. CASE i \in 1..Len(t)
    BY <1>0, <1>1, <2>1, <2>2
  <2>3. CASE i = Len(t) + 1
    BY <1>0, <2>1, <2>3
  <2> QED BY <1>0, <2>2, <2>3
<1>4. g \in [0..Len(Append(t, c)) -> S] /\ Len(Append(t, c)) \in Nat
  BY <1>0
<1> QED BY <1>2, <1>3, <1>4, EachIsSolution

LEMMA SolutionExists ==
  ASSUME NEW S, NEW E, NEW start \in S, NEW step \in [S -> [E -> S]]
  PROVE  \A t \in Seq(E) : \E f \in [0..Len(t) -> S] : Solves(f, step, start, t)
<1> DEFINE ok(t) == \E f \in [0..Len(t) -> S] : Solves(f, step, start, t)
           T == {n \in Nat : \A t \in Seq(E) : Len(t) = n => ok(t)}
<1>1. 0 \in T
  <2> SUFFICES ASSUME NEW t \in Seq(E), Len(t) = 0 PROVE ok(t)
    OBVIOUS
  <2> DEFINE f == [i \in 0..0 |-> start]
  <2>1. f \in [0..Len(t) -> S] /\ f[0] = start /\ 1..Len(t) = {}
    OBVIOUS
  <2> HIDE DEF f
  <2>2. Len(t) \in Nat /\ \A i \in 1..Len(t) : f[i] = step[f[i - 1]][t[i]]
    BY <2>1
  <2>3. Solves(f, step, start, t)
    BY <2>1, <2>2, EachIsSolution
  <2> QED BY <2>1, <2>3
<1>2. ASSUME NEW n \in Nat, n \in T PROVE n + 1 \in T
  <2> SUFFICES ASSUME NEW t \in Seq(E), Len(t) = n + 1 PROVE ok(t)
    OBVIOUS
  <2> DEFINE u == SubSeq(t, 1, n)
             c == t[n + 1]
  <2>1. u \in Seq(E) /\ Len(u) = n /\ c \in E /\ SubSeq(t, 1, n + 1) = Append(u, c)
    BY LastSplits
  <2>2. t = Append(u, c)
    <3>1. SubSeq(t, 1, Len(t)) = t
      BY SubSeqFull
    <3> QED BY <2>1, <3>1
  <2>3. ok(u)
    BY <1>2, <2>1
  <2> HIDE DEF u, c
  <2>4. PICK f \in [0..Len(u) -> S] : Solves(f, step, start, u)
    BY <2>3
  <2> DEFINE g == [i \in 0..Len(u) + 1 |-> IF i <= Len(u) THEN f[i] ELSE step[f[Len(u)]][c]]
  <2>5. g \in [0..Len(u) + 1 -> S] /\ g[Len(u) + 1] = step[f[Len(u)]][c]
        /\ \A i \in 0..Len(u) : g[i] = f[i]
    BY <2>1, <2>4, SMTT(30)
  <2> HIDE DEF g
  <2>6. Solves(g, step, start, t)
    BY <2>1, <2>2, <2>4, <2>5, SolutionGrows
  <2> QED BY <2>1, <2>5, <2>6
<1>3. \A n \in Nat : n \in T
  <2> HIDE DEF T
  <2> QED BY <1>1, <1>2, Counting
<1> QED BY <1>3, LenProperties

\* A loop over no text carries its start; one character more is one step more.
Unrolls(step, start, S, E) ==
  /\ Carried(step, start, <<>>) = start
  /\ \A t \in Seq(E) : Carried(step, start, t) \in S
  /\ \A t \in Seq(E), c \in E :
       Carried(step, start, Append(t, c)) = step[Carried(step, start, t)][c]

LEMMA CarriedGrows ==
  ASSUME NEW S, NEW E, NEW start \in S, NEW step \in [S -> [E -> S]]
  PROVE  Unrolls(step, start, S, E)
<1>1. ASSUME NEW t \in Seq(E)
      PROVE  \E f \in [0..Len(t) -> S] :
               Solves(f, step, start, t) /\ Carried(step, start, t) = f[Len(t)]
  <2>1. PICK f \in [0..Len(t) -> S] : Solves(f, step, start, t)
    BY SolutionExists
  <2>2. \A g : Solves(g, step, start, t) => g = f
    BY <2>1, SolutionIsUnique
  <2> QED BY <2>1, <2>2, SolutionIsCarried
<1>2. <<>> \in Seq(E) /\ Len(<<>>) = 0
  BY EmptySeq
<1>3. Carried(step, start, <<>>) = start
  <2>1. PICK f \in [0..Len(<<>>) -> S] :
          Solves(f, step, start, <<>>) /\ Carried(step, start, <<>>) = f[Len(<<>>)]
    BY <1>1, <1>2
  <2>2. f[0] = start
    <3>1. Solves(f, step, start, <<>>) /\ Len(<<>>) \in Nat
      BY <1>2, <2>1
    <3>2. AtEach(f, step, start, <<>>)
      BY <3>1, SolutionAtEach, Zenon
    <3> QED BY <3>2, Zenon DEF AtEach
  <2> QED BY <1>2, <2>1, <2>2
<1>4. ASSUME NEW t \in Seq(E) PROVE Carried(step, start, t) \in S
  <2>1. PICK f \in [0..Len(t) -> S] : Carried(step, start, t) = f[Len(t)]
    BY <1>1
  <2> QED BY <2>1, LenProperties
<1>5. ASSUME NEW t \in Seq(E), NEW c \in E
      PROVE  Carried(step, start, Append(t, c)) = step[Carried(step, start, t)][c]
  <2>0. Append(t, c) \in Seq(E) /\ Len(t) \in Nat /\ Len(Append(t, c)) = Len(t) + 1
    BY LenProperties, AppendProperties
  <2>1. PICK f \in [0..Len(t) -> S] :
          Solves(f, step, start, t) /\ Carried(step, start, t) = f[Len(t)]
    BY <1>1
  <2>a. f[Len(t)] \in S
    BY <1>4, <2>1
  <2>b. step[f[Len(t)]][c] \in S
    BY <2>a
  <2>2. PICK h \in [0..Len(Append(t, c)) -> S] :
          /\ Solves(h, step, start, Append(t, c))
          /\ Carried(step, start, Append(t, c)) = h[Len(Append(t, c))]
    BY <1>1, <2>0
  <2> DEFINE g == [i \in 0..Len(t) + 1 |-> IF i <= Len(t) THEN f[i] ELSE step[f[Len(t)]][c]]
  <2>3. g \in [0..Len(t) + 1 -> S] /\ g[Len(t) + 1] = step[f[Len(t)]][c]
        /\ \A i \in 0..Len(t) : g[i] = f[i]
    BY <2>0, <2>1, <2>a, <2>b
  <2> HIDE DEF g
  <2>4. Solves(g, step, start, Append(t, c))
    BY <2>1, <2>3, SolutionGrows
  <2>5. h = g
    BY <2>0, <2>2, <2>4, SolutionIsUnique
  <2> QED BY <2>0, <2>1, <2>2, <2>3, <2>5
<1> QED BY <1>3, <1>4, <1>5 DEF Unrolls

\* What holds of no text, and of a text with one character more whenever it
\* holds of the text, holds of every text.
LEMMA TextInduction ==
  ASSUME NEW E, NEW T, <<>> \in T, \A t \in Seq(E), c \in E : t \in T => Append(t, c) \in T
  PROVE  \A t \in Seq(E) : t \in T
<1> SUFFICES ASSUME NEW t \in Seq(E) PROVE t \in T
  OBVIOUS
<1> DEFINE N == {n \in Nat : n <= Len(t) => SubSeq(t, 1, n) \in T}
<1>0. Len(t) \in Nat
  BY LenProperties
<1>1. 0 \in N
  <2>1. SubSeq(t, 1, 0) = <<>>
    BY <1>0, SubSeqProperties
  <2> QED BY <2>1
<1>2. ASSUME NEW n \in Nat, n \in N PROVE n + 1 \in N
  <2> SUFFICES ASSUME n + 1 <= Len(t) PROVE SubSeq(t, 1, n + 1) \in T
    OBVIOUS
  <2>1. n < Len(t) /\ SubSeq(t, 1, n) \in T
    BY <1>0, <1>2
  <2>2. t[n + 1] \in E /\ SubSeq(t, 1, n) \in Seq(E)
        /\ SubSeq(t, 1, n + 1) = Append(SubSeq(t, 1, n), t[n + 1])
    BY <2>1, LastSplits
  <2>3. Append(SubSeq(t, 1, n), t[n + 1]) \in T
    BY <2>1, <2>2
  <2> QED BY <2>2, <2>3
<1>3. Len(t) \in N
  <2> HIDE DEF N
  <2> QED BY <1>0, <1>1, <1>2, Counting
<1>4. SubSeq(t, 1, Len(t)) \in T
  BY <1>0, <1>3
<1>5. SubSeq(t, 1, Len(t)) = t
  BY SubSeqFull
<1> QED BY <1>4, <1>5
=============================================================================
