-------------------------- MODULE ValidatorsProofs --------------------------
(***************************************************************************)
(* What the checksums reject and what the tables accept, for candidates of *)
(* any length over all characters.                                         *)
(*                                                                         *)
(* The validators are loops over a text: what each of them carries grows   *)
(* with the text as LoopProofs says, and what holds of a whole text is     *)
(* shown for its beginnings, one character at a time.                      *)
(***************************************************************************)
EXTENDS Validators, LoopProofs

-----------------------------------------------------------------------------
(***************************************************************************)
(* Cards.                                                                  *)
(***************************************************************************)
LEMMA TotalGrows ==
  /\ Total(<<>>) = 0
  /\ \A ns \in Seq(Nat) : Total(ns) \in Nat
  /\ \A ns \in Seq(Nat), m \in Nat : Total(Append(ns, m)) = Total(ns) + m
<1> DEFINE step == [n \in Nat |-> [m \in Nat |-> n + m]]
<1>1. step \in [Nat -> [Nat -> Nat]] /\ \A n, m \in Nat : step[n][m] = n + m
  OBVIOUS
<1>2. \A ns : Total(ns) = Carried(step, 0, ns)
  BY DEF Total
<1> HIDE DEF step
<1>3. Unrolls(step, 0, Nat, Nat)
  BY <1>1, CarriedGrows
<1> QED BY <1>1, <1>2, <1>3 DEF Unrolls

LEMMA DigitsAreKept ==
  /\ digitsOnly(<<>>) = <<>>
  /\ \A t \in Seq(Char) : digitsOnly(t) \in Seq(Digit)
<1> DEFINE step == [ds \in Seq(Digit) |-> [c \in Char |-> IF c \in Digit THEN Append(ds, c) ELSE ds]]
<1>0. \A ds \in Seq(Digit), c \in Digit : Append(ds, c) \in Seq(Digit)
  BY AppendProperties
<1>1. step \in [Seq(Digit) -> [Char -> Seq(Digit)]]
  BY <1>0
<1>2. \A t : digitsOnly(t) = Carried(step, <<>>, t)
  BY DEF digitsOnly
<1>3. <<>> \in Seq(Digit)
  BY EmptySeq
<1> HIDE DEF step
<1>4. Unrolls(step, <<>>, Seq(Digit), Char)
  BY <1>1, <1>3, CarriedGrows
<1> QED BY <1>1, <1>2, <1>4 DEF Unrolls

\* Two sums of equally many numbers that differ in two neighbouring numbers (or
\* in the last number) at most.
LEMMA TotalsDiffer ==
  ASSUME NEW ns \in Seq(Nat), NEW ms \in Seq(Nat), Len(ms) = Len(ns),
         NEW i \in 1..Len(ns), \A j \in 1..Len(ns) : j \notin {i, i + 1} => ms[j] = ns[j]
  PROVE  Total(ms) - Total(ns) =
           IF i = Len(ns) THEN ms[i] - ns[i] ELSE (ms[i] - ns[i]) + (ms[i + 1] - ns[i + 1])
<1> DEFINE N(k) == Total(SubSeq(ns, 1, k))
           M(k) == Total(SubSeq(ms, 1, k))
           diff(k) == IF k < i THEN 0
                      ELSE IF k = i THEN ms[i] - ns[i]
                      ELSE (ms[i] - ns[i]) + (ms[i + 1] - ns[i + 1])
           S == {k \in Nat : k <= Len(ns) => M(k) - N(k) = diff(k)}
<1>0. Len(ns) \in Nat /\ i \in Nat \ {0}
      /\ (\A j \in 1..Len(ns) : ns[j] \in Nat /\ ms[j] \in Nat)
  BY LenProperties, ElementOfSeq
<1>1. 0 \in S
  <2>1. SubSeq(ns, 1, 0) = <<>> /\ SubSeq(ms, 1, 0) = <<>>
    BY <1>0, SubSeqProperties
  <2>2. M(0) = 0 /\ N(0) = 0
    BY <2>1, TotalGrows
  <2> HIDE DEF M, N
  <2> QED BY <1>0, <2>2
<1>2. ASSUME NEW k \in Nat, k \in S PROVE k + 1 \in S
  <2> SUFFICES ASSUME k + 1 <= Len(ns) PROVE M(k + 1) - N(k + 1) = diff(k + 1)
    OBVIOUS
  <2>1. N(k + 1) = N(k) + ns[k + 1] /\ N(k) \in Nat
    <3>1. k < Len(ns) /\ k + 1 \in 1..Len(ns)
      BY <1>0
    <3>2. SubSeq(ns, 1, k) \in Seq(Nat) /\ ns[k + 1] \in Nat
          /\ SubSeq(ns, 1, k + 1) = Append(SubSeq(ns, 1, k), ns[k + 1])
      BY <3>1, LastSplits
    <3>3. Total(Append(SubSeq(ns, 1, k), ns[k + 1])) = Total(SubSeq(ns, 1, k)) + ns[k + 1]
      BY <3>2, TotalGrows
    <3>4. Total(SubSeq(ns, 1, k)) \in Nat
      BY <3>2, TotalGrows
    <3> QED BY <3>2, <3>3, <3>4
  <2>2. M(k + 1) = M(k) + ms[k + 1] /\ M(k) \in Nat
    <3>1. k < Len(ms) /\ k + 1 \in 1..Len(ns)
      BY <1>0
    <3>2. SubSeq(ms, 1, k) \in Seq(Nat) /\ ms[k + 1] \in Nat
          /\ SubSeq(ms, 1, k + 1) = Append(SubSeq(ms, 1, k), ms[k + 1])
      BY <3>1, LastSplits
    <3>3. Total(Append(SubSeq(ms, 1, k), ms[k + 1])) = Total(SubSeq(ms, 1, k)) + ms[k + 1]
      BY <3>2, TotalGrows
    <3>4. Total(SubSeq(ms, 1, k)) \in Nat
      BY <3>2, TotalGrows
    <3> QED BY <3>2, <3>3, <3>4
  <2>3. M(k) - N(k) = diff(k)
    BY <1>0, <1>2
  <2>4. ns[k + 1] \in Nat /\ ms[k + 1] \in Nat
    BY <1>0
  <2> HIDE DEF N, M
  <2>a. M(k + 1) - N(k + 1) = (M(k) - N(k)) + (ms[k + 1] - ns[k + 1])
    <3>1. \A m, n, a, b \in Nat : (m + a) - (n + b) = (m - n) + (a - b)
      OBVIOUS
    <3> QED BY <2>1, <2>2, <2>4, <3>1, SMTT(30)
  <2>5. CASE k + 1 < i
    <3>1. ms[k + 1] = ns[k + 1]
      BY <1>0, <2>5
    <3> QED BY <1>0, <2>3, <2>4, <2>a, <2>5, <3>1
  <2>6. CASE k + 1 = i
    <3>1. M(k) - N(k) = 0
      BY <1>0, <2>3, <2>6
    <3>2. M(k + 1) - N(k + 1) = ms[k + 1] - ns[k + 1]
      BY <2>4, <2>a, <3>1
    <3> QED BY <2>6, <3>2
  <2>7. CASE k = i
    <3>1. M(k) - N(k) = ms[k] - ns[k]
      BY <2>3, <2>7
    <3>2. M(k + 1) - N(k + 1) = (ms[k] - ns[k]) + (ms[k + 1] - ns[k + 1])
      BY <2>a, <3>1
    <3> QED BY <2>7, <3>2
  <2>8. CASE k > i
    <3>1. ms[k + 1] - ns[k + 1] = 0
      BY <1>0, <2>4, <2>8
    <3>2. M(k + 1) - N(k + 1) = M(k) - N(k)
      BY <2>1, <2>2, <2>a, <3>1
    <3> QED BY <1>0, <2>3, <2>8, <3>2
  <2> QED BY <1>0, <2>5, <2>6, <2>7, <2>8
<1>3. Len(ns) \in S
  <2> HIDE DEF S
  <2> QED BY <1>0, <1>1, <1>2, Counting
<1>4. M(Len(ns)) = Total(ms) /\ N(Len(ns)) = Total(ns)
  BY SubSeqFull
<1> HIDE DEF N, M
<1> QED BY <1>0, <1>3, <1>4

\* Doubling is one to one on the digits, and what it adds to a digit tells any
\* two digits apart, but for 0 and 9.
LEMMA DoubledDigits ==
  /\ \A d \in Digit : Doubled(d) \in Digit
  /\ \A d, e \in Digit : d # e => Doubled(d) # Doubled(e)
  /\ \A d, e \in Digit : d # e /\ {d, e} # {0, 9} =>
       ((Doubled(d) + e) - (Doubled(e) + d)) % 10 # 0
<1>1. \A d \in Digit : Doubled(d) \in Digit
  BY DEF Doubled, Digit
<1>2. \A d, e \in Digit : d # e => Doubled(d) # Doubled(e)
  BY DEF Doubled, Digit
<1>3. ASSUME NEW d \in Digit, NEW e \in Digit, d # e, {d, e} # {0, 9}
      PROVE  ((Doubled(d) + e) - (Doubled(e) + d)) % 10 # 0
  <2>1. ~(d = 0 /\ e = 9) /\ ~(d = 9 /\ e = 0)
    BY <1>3
  <2>2. CASE 2 * d > 9 /\ 2 * e > 9
    BY <1>3, <2>2 DEF Doubled, Digit
  <2>3. CASE 2 * d > 9 /\ ~(2 * e > 9)
    BY <1>3, <2>1, <2>3 DEF Doubled, Digit
  <2>4. CASE ~(2 * d > 9) /\ 2 * e > 9
    BY <1>3, <2>1, <2>4 DEF Doubled, Digit
  <2>5. CASE ~(2 * d > 9) /\ ~(2 * e > 9)
    BY <1>3, <2>5 DEF Doubled, Digit
  <2> QED BY <2>2, <2>3, <2>4, <2>5
<1> QED BY <1>1, <1>2, <1>3

\* ns are the summands of the digits ds.
SummandsOf(ns, ds) ==
  /\ ns \in Seq(Nat) /\ Len(ns) = Len(ds) /\ Len(ds) \in Nat
  /\ \A i \in 1..Len(ds) :
       /\ ds[i] \in Digit /\ ns[i] \in Digit
       /\ ns[i] = IF (Len(ds) - i) % 2 = 1 THEN Doubled(ds[i]) ELSE ds[i]

LEMMA SummandsOfDigits ==
  ASSUME NEW ds \in Seq(Digit)
  PROVE  SummandsOf(Summands(ds), ds)
<1>0. Len(ds) \in Nat /\ \A i \in 1..Len(ds) : ds[i] \in Digit
  BY LenProperties, ElementOfSeq
<1>1. \A i \in 1..Len(ds) :
        /\ Summands(ds)[i] = IF (Len(ds) - i) % 2 = 1 THEN Doubled(ds[i]) ELSE ds[i]
        /\ Summands(ds)[i] \in Digit
  BY <1>0, DoubledDigits DEF Summands
<1>2. Summands(ds) \in [1..Len(ds) -> Nat]
  <2>1. Digit \subseteq Nat
    BY DEF Digit
  <2> QED BY <1>1, <2>1 DEF Summands
<1>3. Summands(ds) \in Seq(Nat)
  BY <1>0, <1>2
<1>4. Len(Summands(ds)) = Len(ds)
  BY <1>0, <1>2, <1>3, LenProperties
<1> QED BY <1>0, <1>1, <1>3, <1>4 DEF SummandsOf

\* Luhn accepts two numbers of equal length only if their sums differ by a
\* multiple of ten.
LEMMA LuhnDiffers ==
  ASSUME NEW ds \in Seq(Digit), NEW es \in Seq(Digit), validLuhn(ds), validLuhn(es)
  PROVE  (Total(Summands(es)) - Total(Summands(ds))) % 10 = 0
<1>1. Total(Summands(ds)) \in Nat /\ Total(Summands(es)) \in Nat
  BY SummandsOfDigits, TotalGrows DEF SummandsOf
<1>2. Total(Summands(ds)) % 10 = 0 /\ Total(Summands(es)) % 10 = 0
  BY DEF validLuhn
<1> HIDE DEF Total, Summands
<1> QED BY <1>1, <1>2

LEMMA LuhnCatchesWrongDigit ==
  ASSUME NEW ds \in Seq(Digit), validLuhn(ds),
         NEW i \in 1..Len(ds), NEW d \in Digit \ {ds[i]}
  PROVE  ~validLuhn([ds EXCEPT ![i] = d])
<1> DEFINE es == [ds EXCEPT ![i] = d]
<1>0. Len(ds) \in Nat /\ i \in Nat
  BY LenProperties
<1>1. es \in Seq(Digit) /\ Len(es) = Len(ds) /\ es[i] = d
      /\ \A j \in 1..Len(ds) : j # i => es[j] = ds[j]
  BY LenProperties, ExceptSeq
<1> HIDE DEF es
<1> DEFINE a == Summands(ds)
           b == Summands(es)
<1>a. SummandsOf(a, ds) /\ SummandsOf(b, es)
  BY <1>1, SummandsOfDigits
<1> HIDE DEF a, b
<1>2. a \in Seq(Nat) /\ b \in Seq(Nat) /\ Len(b) = Len(a) /\ i \in 1..Len(a) /\ Len(a) = Len(ds)
      /\ \A j \in 1..Len(a) : j # i => a[j] \in Digit /\ b[j] = a[j]
  BY <1>1, <1>a DEF SummandsOf
<1>3. a[i] \in Digit /\ b[i] \in Digit /\ b[i] # a[i]
  <2>1. a[i] = (IF (Len(ds) - i) % 2 = 1 THEN Doubled(ds[i]) ELSE ds[i]) /\ a[i] \in Digit
        /\ ds[i] \in Digit
    BY <1>a DEF SummandsOf
  <2>2. b[i] = (IF (Len(ds) - i) % 2 = 1 THEN Doubled(d) ELSE d) /\ b[i] \in Digit
    BY <1>1, <1>a DEF SummandsOf
  <2> QED BY <2>1, <2>2, DoubledDigits
<1>4. i # Len(a) => a[i + 1] \in Digit /\ b[i + 1] = a[i + 1]
  <2>1. i # Len(a) => i + 1 \in 1..Len(a) /\ i + 1 # i
    BY <1>0, <1>2
  <2> QED BY <1>2, <2>1
<1>5. Total(b) - Total(a) =
        IF i = Len(a) THEN b[i] - a[i] ELSE (b[i] - a[i]) + (b[i + 1] - a[i + 1])
  BY <1>2, TotalsDiffer
<1>6. Total(b) - Total(a) = b[i] - a[i]
  <2>1. \A m, n, k \in Digit : (m - n) + (k - k) = m - n
    BY DEF Digit
  <2> QED BY <1>3, <1>4, <1>5, <2>1
<1>7. (b[i] - a[i]) % 10 # 0
  <2>1. \A m, n \in Digit : m # n => (m - n) % 10 # 0
    BY DEF Digit
  <2> QED BY <1>3, <2>1
<1> QED BY <1>1, <1>6, <1>7, LuhnDiffers DEF a, b, es

LEMMA LuhnCatchesSwap ==
  ASSUME NEW ds \in Seq(Digit), validLuhn(ds), NEW i \in 1..(Len(ds) - 1),
         ds[i] # ds[i + 1], {ds[i], ds[i + 1]} # {0, 9}
  PROVE  ~validLuhn(Swap(ds, i))
<1> DEFINE es == Swap(ds, i)
           x == ds[i]
           y == ds[i + 1]
<1>0. Len(ds) \in Nat /\ i \in Nat /\ i \in 1..Len(ds) /\ i + 1 \in 1..Len(ds) /\ i # i + 1
      /\ x \in Digit /\ y \in Digit
  BY LenProperties, ElementOfSeq
<1>1. es \in Seq(Digit) /\ Len(es) = Len(ds) /\ es[i] = y /\ es[i + 1] = x
      /\ \A j \in 1..Len(ds) : j \notin {i, i + 1} => es[j] = ds[j]
  <2>1. [ds EXCEPT ![i] = y] \in Seq(Digit) /\ Len([ds EXCEPT ![i] = y]) = Len(ds)
    BY <1>0, ExceptSeq
  <2>2. Swap(ds, i) = [[ds EXCEPT ![i] = y] EXCEPT ![i + 1] = x]
    BY DEF Swap
  <2>3. es \in Seq(Digit) /\ Len(es) = Len(ds)
    BY <1>0, <2>1, <2>2, ExceptSeq
  <2>4. DOMAIN ds = 1..Len(ds)
    BY LenProperties
  <2> QED BY <1>0, <2>3, <2>4 DEF Swap
<1> HIDE DEF es
<1> DEFINE a == Summands(ds)
           b == Summands(es)
<1>a. SummandsOf(a, ds) /\ SummandsOf(b, es)
  BY <1>1, SummandsOfDigits
<1> HIDE DEF a, b
<1>2. a \in Seq(Nat) /\ b \in Seq(Nat) /\ Len(b) = Len(a) /\ i \in 1..Len(a) /\ Len(a) = Len(ds)
      /\ \A j \in 1..Len(a) : j \notin {i, i + 1} => b[j] = a[j]
  BY <1>0, <1>1, <1>a DEF SummandsOf
<1>3. \/ a[i] = Doubled(x) /\ b[i] = Doubled(y) /\ a[i + 1] = y /\ b[i + 1] = x
      \/ a[i] = x /\ b[i] = y /\ a[i + 1] = Doubled(y) /\ b[i + 1] = Doubled(x)
  <2> HIDE DEF x, y
  <2>1. /\ a[i] = IF (Len(ds) - i) % 2 = 1 THEN Doubled(x) ELSE x
        /\ a[i + 1] = IF (Len(ds) - (i + 1)) % 2 = 1 THEN Doubled(y) ELSE y
    BY <1>0, <1>a DEF SummandsOf, x, y
  <2>2. /\ b[i] = IF (Len(ds) - i) % 2 = 1 THEN Doubled(y) ELSE y
        /\ b[i + 1] = IF (Len(ds) - (i + 1)) % 2 = 1 THEN Doubled(x) ELSE x
    BY <1>0, <1>1, <1>a DEF SummandsOf
  <2>3. (Len(ds) - i) % 2 = 1 <=> ~((Len(ds) - (i + 1)) % 2 = 1)
    BY <1>0
  <2> QED BY <2>1, <2>2, <2>3
<1>4. Doubled(x) \in Digit /\ Doubled(y) \in Digit
      /\ ((Doubled(x) + y) - (Doubled(y) + x)) % 10 # 0
      /\ ((Doubled(y) + x) - (Doubled(x) + y)) % 10 # 0
  BY <1>0, DoubledDigits
<1>5. Total(b) - Total(a) = (b[i] - a[i]) + (b[i + 1] - a[i + 1])
  <2>1. i # Len(a)
    BY <1>0, <1>2
  <2> QED BY <1>2, <2>1, TotalsDiffer
<1> HIDE DEF x, y
<1>b. \A m, n, k, l \in Digit :
        (m - n) + (k - l) = (m + k) - (n + l) /\ (k - l) + (m - n) = (m + k) - (n + l)
  BY DEF Digit
<1>6. (Total(b) - Total(a)) % 10 # 0
  <2>1. CASE a[i] = Doubled(x) /\ b[i] = Doubled(y) /\ a[i + 1] = y /\ b[i + 1] = x
    <3>1. Total(b) - Total(a) = (Doubled(y) + x) - (Doubled(x) + y)
      BY <1>0, <1>4, <1>5, <1>b, <2>1
    <3> QED BY <1>4, <3>1
  <2>2. CASE a[i] = x /\ b[i] = y /\ a[i + 1] = Doubled(y) /\ b[i + 1] = Doubled(x)
    <3>1. Total(b) - Total(a) = (Doubled(x) + y) - (Doubled(y) + x)
      <4>1. Total(b) - Total(a) = (y - x) + (Doubled(x) - Doubled(y))
        BY <1>5, <2>2
      <4> QED BY <1>0, <1>4, <1>b, <4>1
    <3> QED BY <1>4, <3>1
  <2> QED BY <1>3, <2>1, <2>2
<1> QED BY <1>1, <1>6, LuhnDiffers DEF a, b, es

-----------------------------------------------------------------------------
\* A candidate is made of the characters.
LEMMA CandidateType == Spec => [](text \in Seq(Char))
<1>1. Init => text \in Seq(Char)
  BY EmptySeq DEF Init
<1>2. text \in Seq(Char) /\ [Next]_text => (text \in Seq(Char))'
  <2> SUFFICES ASSUME text \in Seq(Char), [Next]_text PROVE text' \in Seq(Char)
    OBVIOUS
  <2>1. CASE Next
    <3>1. PICK c \in Char : text' = Append(text, c)
      BY <2>1, ValidatorsAssumption DEF Next
    <3> QED BY <3>1, AppendProperties
  <2> QED BY <2>1
<1> QED BY <1>1, <1>2, PTL DEF Spec

\* validLuhn rejects every card number that differs from an accepted one by one
\* wrong digit or two exchanged neighbours, at any length.
THEOREM LuhnCatchesEverySlip == Spec => []LuhnCatchesSlips
<1>1. text \in Seq(Char) => LuhnCatchesSlips
  <2> SUFFICES ASSUME text \in Seq(Char) PROVE LuhnCatchesSlips
    OBVIOUS
  <2> DEFINE ds == digitsOnly(text)
  <2>1. ds \in Seq(Digit)
    BY DigitsAreKept
  <2>2. DOMAIN ds = 1..Len(ds)
    BY <2>1, LenProperties
  <2> HIDE DEF ds
  <2>3. validLuhn(ds) => \A i \in 1..Len(ds) : \A d \in Digit \ {ds[i]} :
                           ~validLuhn([ds EXCEPT ![i] = d])
    BY <2>1, LuhnCatchesWrongDigit
  <2>4. validLuhn(ds) => \A i \in 1..(Len(ds) - 1) :
          ds[i] # ds[i + 1] /\ {ds[i], ds[i + 1]} # {0, 9} => ~validLuhn(Swap(ds, i))
    BY <2>1, LuhnCatchesSwap
  <2> QED BY <2>2, <2>3, <2>4 DEF LuhnCatchesSlips, ds
<1> QED BY <1>1, CandidateType, PTL

-----------------------------------------------------------------------------
\* t begins with the same digits as s, as far as the tables look.
SameLead(s, t) == \A w \in 1..4 : w <= Len(s) => w <= Len(t) /\ SubSeq(t, 1, w) = SubSeq(s, 1, w)

LEMMA SamePrefixes ==
  ASSUME NEW s, NEW t, SameLead(s, t)
  PROVE  /\ Visa(s) => Visa(t)
         /\ Amex(s) => Amex(t)
         /\ Mastercard(s) => Mastercard(t)
         /\ Discover(s) => Discover(t)
<1>1. ASSUME NEW w \in 1..4, NEW low, NEW high, hasPrefixNumberBetween(s, w, low, high)
      PROVE  hasPrefixNumberBetween(t, w, low, high)
  BY <1>1 DEF hasPrefixNumberBetween, SameLead
<1>2. ASSUME NEW p, Len(p) \in 1..4, IsPrefix(p, s) PROVE IsPrefix(p, t)
  BY <1>2 DEF IsPrefix, SameLead
<1>3. Mastercard(s) => Mastercard(t)
  BY <1>1 DEF Mastercard
<1>4. Len(<<4>>) = 1 /\ Len(<<3, 4>>) = 2 /\ Len(<<3, 7>>) = 2
      /\ Len(<<6, 0, 1, 1>>) = 4 /\ Len(<<6, 5>>) = 2
  OBVIOUS
<1>5. Visa(s) => Visa(t)
  BY <1>2, <1>4 DEF Visa
<1>6. Amex(s) => Amex(t)
  BY <1>2, <1>4 DEF Amex
<1>7. Discover(s) => Discover(t)
  BY <1>1, <1>2, <1>4 DEF Discover
<1> QED BY <1>3, <1>5, <1>6, <1>7

\* The digits the tables look at.
LeadLength(ds) == IF Len(ds) < 4 THEN Len(ds) ELSE 4

LEMMA FilledLead ==
  ASSUME NEW ds \in Seq(Digit), NEW n \in 13..19
  PROVE  LET f == Fill(SubSeq(ds, 1, LeadLength(ds)), n)
         IN  /\ f \in Seq(Digit) /\ Len(f) = n
             /\ \A j \in 1..n : f[j] = IF j <= LeadLength(ds) THEN ds[j] ELSE 0
<1> DEFINE m == LeadLength(ds)
           head == SubSeq(ds, 1, m)
           zeros == [i \in 1..(n - m) |-> 0]
<1>0. Len(ds) \in Nat /\ m \in 0..Len(ds) /\ m \in 0..4
  <2>1. Len(ds) \in Nat
    BY LenProperties
  <2>2. \A l \in Nat : LET k == IF l < 4 THEN l ELSE 4 IN k \in 0..l /\ k \in 0..4
    OBVIOUS
  <2> QED BY <2>1, <2>2 DEF LeadLength
<1>1. head \in Seq(Digit) /\ Len(head) = m /\ \A j \in 1..m : head[j] = ds[j]
  BY <1>0, SubSeqProperties
<1>2. n - m \in Nat /\ 0 \in Digit
  BY <1>0 DEF Digit
<1>3. zeros \in Seq(Digit) /\ Len(zeros) = n - m /\ \A j \in 1..(n - m) : zeros[j] = 0
  BY <1>2
<1> HIDE DEF m, head, zeros
<1>4. head \o zeros \in Seq(Digit) /\ Len(head \o zeros) = Len(head) + Len(zeros)
      /\ \A j \in 1..(Len(head) + Len(zeros)) :
           (head \o zeros)[j] = IF j <= Len(head) THEN head[j] ELSE zeros[j - Len(head)]
  BY <1>1, <1>3, ConcatProperties
<1>5. Len(head) + Len(zeros) = n
  BY <1>0, <1>1, <1>3
<1>6. ASSUME NEW j \in 1..n
      PROVE  (head \o zeros)[j] = IF j <= m THEN ds[j] ELSE 0
  <2>1. CASE j <= m
    BY <1>0, <1>1, <1>4, <1>5, <2>1
  <2>2. CASE ~(j <= m)
    <3>1. j - m \in 1..(n - m)
      BY <1>0, <2>2
    <3> QED BY <1>1, <1>3, <1>4, <1>5, <2>2, <3>1
  <2> QED BY <2>1, <2>2
<1>7. Fill(head, n) = head \o zeros
  BY <1>1 DEF Fill, zeros
<1> QED BY <1>4, <1>5, <1>6, <1>7 DEF m, head

LEMMA FilledLeadsAgree ==
  ASSUME NEW ds \in Seq(Digit), NEW n \in 13..19, NEW k \in 13..19
  PROVE  LET head == SubSeq(ds, 1, LeadLength(ds))
         IN  SameLead(Fill(head, n), Fill(head, k)) /\ SameLead(ds, Fill(head, n))
<1> DEFINE head == SubSeq(ds, 1, LeadLength(ds))
           f == Fill(head, n)
           g == Fill(head, k)
<1>0. Len(ds) \in Nat
  BY LenProperties
<1>1. f \in Seq(Digit) /\ Len(f) = n
      /\ \A j \in 1..n : f[j] = IF j <= LeadLength(ds) THEN ds[j] ELSE 0
  BY FilledLead
<1>2. g \in Seq(Digit) /\ Len(g) = k
      /\ \A j \in 1..k : g[j] = IF j <= LeadLength(ds) THEN ds[j] ELSE 0
  BY FilledLead
<1> HIDE DEF head, f, g
<1>3. ASSUME NEW w \in 1..4 PROVE SubSeq(g, 1, w) = SubSeq(f, 1, w)
  <2>1. SubSeq(f, 1, w) \in Seq(Digit) /\ Len(SubSeq(f, 1, w)) = w
        /\ \A j \in 1..w : SubSeq(f, 1, w)[j] = f[j]
    BY <1>1, SubSeqProperties
  <2>2. SubSeq(g, 1, w) \in Seq(Digit) /\ Len(SubSeq(g, 1, w)) = w
        /\ \A j \in 1..w : SubSeq(g, 1, w)[j] = g[j]
    BY <1>2, SubSeqProperties
  <2>3. \A j \in 1..w : f[j] = g[j]
    BY <1>1, <1>2
  <2> QED BY <2>1, <2>2, <2>3, SeqEqual
<1>4. ASSUME NEW w \in 1..4, w <= Len(ds) PROVE SubSeq(f, 1, w) = SubSeq(ds, 1, w)
  <2>1. SubSeq(f, 1, w) \in Seq(Digit) /\ Len(SubSeq(f, 1, w)) = w
        /\ \A j \in 1..w : SubSeq(f, 1, w)[j] = f[j]
    BY <1>1, SubSeqProperties
  <2>2. SubSeq(ds, 1, w) \in Seq(Digit) /\ Len(SubSeq(ds, 1, w)) = w
        /\ \A j \in 1..w : SubSeq(ds, 1, w)[j] = ds[j]
    BY <1>0, <1>4, SubSeqProperties
  <2>3. \A j \in 1..w : f[j] = ds[j]
    BY <1>0, <1>1, <1>4 DEF LeadLength
  <2> QED BY <2>1, <2>2, <2>3, SeqEqual
<1>5. SameLead(f, g)
  BY <1>1, <1>2, <1>3 DEF SameLead
<1>6. SameLead(ds, f)
  BY <1>1, <1>4 DEF SameLead
<1> QED BY <1>5, <1>6 DEF f, g, head

\* The issuer table and the length table accept the same leading digits, for a
\* candidate of any length.
THEOREM CardTablesAgree == Spec => []TablesAgree
<1>1. text \in Seq(Char) => TablesAgree
  <2> SUFFICES ASSUME text \in Seq(Char) PROVE TablesAgree
    OBVIOUS
  <2> DEFINE ds == digitsOnly(text)
             head == SubSeq(ds, 1, LeadLength(ds))
             filled(n) == Fill(head, n)
  <2>1. ds \in Seq(Digit)
    BY DigitsAreKept
  <2> HIDE DEF ds
  <2>2. \A n \in 13..19 : Len(filled(n)) = n /\ SameLead(filled(n), filled(13)) /\ SameLead(ds, filled(n))
    <3> SUFFICES ASSUME NEW n \in 13..19
                 PROVE  /\ Len(filled(n)) = n
                        /\ SameLead(filled(n), filled(13)) /\ SameLead(ds, filled(n))
      OBVIOUS
    <3>1. Len(filled(n)) = n
      BY <2>1, FilledLead
    <3>2. 13 \in 13..19
      OBVIOUS
    <3>3. SameLead(filled(n), filled(13)) /\ SameLead(ds, filled(n))
      BY <2>1, <3>2, FilledLeadsAgree
    <3> QED BY <3>1, <3>3
  <2> HIDE DEF filled
  <2>3. ASSUME NEW n \in 13..19, validPANLength(filled(n)) PROVE validPANIssuer(filled(13))
    BY <2>2, <2>3, SamePrefixes DEF validPANLength, validPANIssuer
  <2>4. ASSUME validPANIssuer(ds) PROVE \E n \in 13..19 : validPANLength(filled(n))
    <3>1. CASE Amex(ds)
      <4>1. Amex(filled(15)) /\ Len(filled(15)) = 15
        BY <2>2, <3>1, SamePrefixes
      <4> QED BY <4>1 DEF validPANLength
    <3>2. CASE Visa(ds) \/ Mastercard(ds) \/ Discover(ds)
      <4>1. Len(filled(16)) = 16 /\ (Visa(filled(16)) \/ Mastercard(filled(16)) \/ Discover(filled(16)))
        BY <2>2, <3>2, SamePrefixes
      <4> QED BY <4>1 DEF validPANLength
    <3> QED BY <2>4, <3>1, <3>2 DEF validPANIssuer
  <2> QED BY <2>3, <2>4 DEF TablesAgree, filled, ds, LeadLength
<1> QED BY <1>1, CandidateType, PTL

-----------------------------------------------------------------------------
(***************************************************************************)
(* IBANs.                                                                  *)
(***************************************************************************)
Letter == Digit \cup Capital

LEMMA NormalGrows ==
  /\ normalizedIBAN(<<>>) = <<>>
  /\ \A t \in Seq(Char) : normalizedIBAN(t) \in Seq(Normal)
  /\ \A t \in Seq(Char), c \in Char :
       normalizedIBAN(Append(t, c)) =
         IF c = SpaceChar THEN normalizedIBAN(t) ELSE Append(normalizedIBAN(t), ToUpper(c))
<1> DEFINE step == [iban \in Seq(Normal) |-> [c \in Char |->
                      IF c = SpaceChar THEN iban ELSE Append(iban, ToUpper(c))]]
<1>0. \A c \in Char : c # SpaceChar => ToUpper(c) \in Normal
  BY DEF Char, SpaceChar, ToUpper, Normal, Small, Digit, Capital, Hyphen
<1>a. \A iban \in Seq(Normal), c \in Normal : Append(iban, c) \in Seq(Normal)
  BY AppendProperties
<1>1. step \in [Seq(Normal) -> [Char -> Seq(Normal)]]
      /\ \A iban \in Seq(Normal), c \in Char :
           step[iban][c] = IF c = SpaceChar THEN iban ELSE Append(iban, ToUpper(c))
  BY <1>0, <1>a
<1>2. \A t : normalizedIBAN(t) = Carried(step, <<>>, t)
  BY DEF normalizedIBAN
<1>3. <<>> \in Seq(Normal)
  BY EmptySeq
<1> HIDE DEF step
<1>4. Unrolls(step, <<>>, Seq(Normal), Char)
  BY <1>1, <1>3, CarriedGrows
<1> QED BY <1>1, <1>2, <1>4, ZenonT(30) DEF Unrolls

\* A text of digits and capitals is normalized already.
LEMMA LettersAreNormal == \A t \in Seq(Letter) : t \in Seq(Char) /\ normalizedIBAN(t) = t
<1> DEFINE T == {t \in Seq(Char) : normalizedIBAN(t) = t}
<1>1. <<>> \in T
  BY EmptySeq, NormalGrows
<1>2. ASSUME NEW t \in Seq(Letter), NEW c \in Letter, t \in T PROVE Append(t, c) \in T
  <2>1. c \in Char /\ c # SpaceChar /\ ToUpper(c) = c
    BY DEF Letter, Char, SpaceChar, ToUpper, Small, Digit, Capital, Hyphen
  <2>2. Append(t, c) \in Seq(Char)
    BY <1>2, <2>1, AppendProperties
  <2>3. normalizedIBAN(Append(t, c)) = Append(t, c)
    BY <1>2, <2>1, NormalGrows
  <2> QED BY <2>2, <2>3
<1> HIDE DEF T
<1>3. \A t \in Seq(Letter) : t \in T
  BY <1>1, <1>2, TextInduction
<1> QED BY <1>3 DEF T

Width(c) == IF c \in Digit THEN 10 ELSE 100

LEMMA RemainderGrows ==
  /\ Remainder(<<>>) = 0
  /\ \A cs \in Seq(Letter) : Remainder(cs) \in 0..96
  /\ \A cs \in Seq(Letter), c \in Letter :
       Remainder(Append(cs, c)) = (Remainder(cs) * Width(c) + c) % 97
<1> DEFINE step == [r \in 0..96 |-> [c \in Normal |->
                      (r * (IF c \in Digit THEN 10 ELSE 100) + c) % 97]]
<1>b. ASSUME NEW r \in 0..96, NEW c \in Normal PROVE (r * Width(c) + c) % 97 \in 0..96
  <2>1. c \in 0..37 /\ (Width(c) = 10 \/ Width(c) = 100)
    BY DEF Width, Normal, Digit, Capital, Hyphen
  <2>2. \A n \in Nat : n % 97 \in 0..96
    OBVIOUS
  <2>3. r * Width(c) + c \in Nat
    BY <2>1
  <2> QED BY <2>2, <2>3
<1>1. step \in [0..96 -> [Normal -> 0..96]]
      /\ \A r \in 0..96, c \in Normal : step[r][c] = (r * Width(c) + c) % 97
  <2> DEFINE value(r, c) == (r * Width(c) + c) % 97
  <2>1. step = [r \in 0..96 |-> [c \in Normal |-> value(r, c)]]
    BY Zenon DEF Width
  <2>2. \A r \in 0..96, c \in Normal : value(r, c) \in 0..96
    BY <1>b
  <2> HIDE DEF step, value
  <2>3. step \in [0..96 -> [Normal -> 0..96]]
        /\ \A r \in 0..96, c \in Normal : step[r][c] = value(r, c)
    BY <2>1, <2>2
  <2> QED BY <2>3 DEF value
<1>2. \A cs : Remainder(cs) = Carried(step, 0, cs)
  BY DEF Remainder
<1> HIDE DEF step
<1>a. 0 \in 0..96
  OBVIOUS
<1>3. Unrolls(step, 0, 0..96, Normal)
  BY <1>1, <1>a, CarriedGrows, Zenon
<1>4. Letter \subseteq Normal
  BY DEF Letter, Normal
<1>5. \A cs \in Seq(Letter) : cs \in Seq(Normal)
  BY <1>4, SeqMonotonic
<1> QED BY <1>1, <1>2, <1>3, <1>4, <1>5, ZenonT(30) DEF Unrolls

LEMMA NumberGrows ==
  /\ Number(<<>>) = 0
  /\ \A ds \in Seq(Digit) : Number(ds) \in Nat
  /\ \A ds \in Seq(Digit), d \in Digit : Number(Append(ds, d)) = 10 * Number(ds) + d
<1> DEFINE step == [n \in Nat |-> [d \in Digit |-> 10 * n + d]]
<1>1. step \in [Nat -> [Digit -> Nat]] /\ \A n \in Nat, d \in Digit : step[n][d] = 10 * n + d
  BY DEF Digit
<1>2. \A ds : Number(ds) = Carried(step, 0, ds)
  BY DEF Number
<1> HIDE DEF step
<1>3. Unrolls(step, 0, Nat, Digit)
  BY <1>1, CarriedGrows
<1> QED BY <1>1, <1>2, <1>3 DEF Unrolls

\* A digit is spelled by itself, a capital by two digits.
LEMMA SpelledGrows ==
  /\ Spelled(<<>>) = <<>>
  /\ \A cs \in Seq(Letter) : Spelled(cs) \in Seq(Digit)
  /\ \A cs \in Seq(Letter), c \in Letter :
       Spelled(Append(cs, c)) =
         IF c \in Digit THEN Append(Spelled(cs), c)
         ELSE Append(Append(Spelled(cs), c \div 10), c % 10)
  /\ \A c \in Letter : c \notin Digit => c \div 10 \in Digit /\ c % 10 \in Digit
<1> DEFINE step == [ds \in Seq(Digit) |-> [c \in Digit \cup Capital |->
                      ds \o (IF c \in Digit THEN <<c>> ELSE <<c \div 10, c % 10>>)]]
<1>0. \A c \in Letter : c \notin Digit => c \div 10 \in Digit /\ c % 10 \in Digit
  BY DEF Letter, Digit, Capital
<1>1. ASSUME NEW ds \in Seq(Digit), NEW c \in Digit
      PROVE  ds \o <<c>> = Append(ds, c) /\ Append(ds, c) \in Seq(Digit)
  BY AppendProperties, AppendIsConcat
<1>2. ASSUME NEW ds \in Seq(Digit), NEW c \in Digit, NEW d \in Digit
      PROVE  ds \o <<c, d>> = Append(Append(ds, c), d) /\ Append(Append(ds, c), d) \in Seq(Digit)
  <2>1. Append(ds, c) \in Seq(Digit) /\ Append(Append(ds, c), d) \in Seq(Digit)
    BY AppendProperties
  <2> QED BY <2>1
<1>3. \A ds \in Seq(Digit), c \in Letter :
        step[ds][c] = IF c \in Digit THEN Append(ds, c) ELSE Append(Append(ds, c \div 10), c % 10)
  BY <1>0, <1>1, <1>2 DEF Letter
<1>4. step \in [Seq(Digit) -> [Letter -> Seq(Digit)]]
  BY <1>0, <1>1, <1>2 DEF Letter
<1>5. \A cs : Spelled(cs) = Carried(step, <<>>, cs)
  BY DEF Spelled
<1>6. <<>> \in Seq(Digit)
  BY EmptySeq
<1> HIDE DEF step
<1>7. Unrolls(step, <<>>, Seq(Digit), Letter)
  BY <1>4, <1>6, CarriedGrows
<1>8. Spelled(<<>>) = <<>> /\ \A cs \in Seq(Letter) : Spelled(cs) \in Seq(Digit)
  BY <1>5, <1>7 DEF Unrolls
<1>9. \A cs \in Seq(Letter), c \in Letter : Spelled(Append(cs, c)) = step[Spelled(cs)][c]
  BY <1>5, <1>7 DEF Unrolls
<1>10. \A cs \in Seq(Letter), c \in Letter :
         Spelled(Append(cs, c)) =
           IF c \in Digit THEN Append(Spelled(cs), c)
           ELSE Append(Append(Spelled(cs), c \div 10), c % 10)
  BY <1>3, <1>8, <1>9
<1> QED BY <1>0, <1>8, <1>10

\* The loop's remainder is the remainder of the number that the text spells.
LEMMA RemainderOfSpelled == \A cs \in Seq(Letter) : Remainder(cs) = Number(Spelled(cs)) % 97
<1> DEFINE T == {cs \in Seq(Letter) : Remainder(cs) = Number(Spelled(cs)) % 97}
<1>1. <<>> \in T
  BY EmptySeq, RemainderGrows, NumberGrows, SpelledGrows
<1>2. ASSUME NEW cs \in Seq(Letter), NEW c \in Letter, cs \in T PROVE Append(cs, c) \in T
  <2> DEFINE ds == Spelled(cs)
             n == Number(ds)
  <2>0. Append(cs, c) \in Seq(Letter)
    BY AppendProperties
  <2>1. ds \in Seq(Digit) /\ n \in Nat /\ Remainder(cs) = n % 97
    BY <1>2, SpelledGrows, NumberGrows
  <2>2. Remainder(Append(cs, c)) = ((n % 97) * Width(c) + c) % 97
    BY <2>1, RemainderGrows
  <2>3. CASE c \in Digit
    <3>1. Number(Spelled(Append(cs, c))) = 10 * n + c
      BY <2>1, <2>3, SpelledGrows, NumberGrows
    <3>2. \A m \in Nat, d \in Digit : ((m % 97) * 10 + d) % 97 = (10 * m + d) % 97
      BY DEF Digit
    <3> QED BY <2>0, <2>1, <2>2, <2>3, <3>1, <3>2 DEF Width
  <2>4. CASE c \notin Digit
    <3>1. c \div 10 \in Digit /\ c % 10 \in Digit
          /\ Spelled(Append(cs, c)) = Append(Append(ds, c \div 10), c % 10)
      BY <2>4, SpelledGrows
    <3>2. Append(ds, c \div 10) \in Seq(Digit)
      BY <2>1, <3>1, AppendProperties
    <3>3. Number(Spelled(Append(cs, c))) = 10 * (10 * n + (c \div 10)) + (c % 10)
      BY <2>1, <3>1, <3>2, NumberGrows
    <3>4. \A m \in Nat, d \in Capital :
            10 * (10 * m + (d \div 10)) + (d % 10) = 100 * m + d
      BY DEF Capital
    <3>5. \A m \in Nat, d \in Capital : ((m % 97) * 100 + d) % 97 = (100 * m + d) % 97
      BY DEF Capital
    <3>6. c \in Capital
      BY <2>4 DEF Letter
    <3> QED BY <2>0, <2>1, <2>2, <2>4, <3>3, <3>4, <3>5, <3>6 DEF Width
  <2> QED BY <2>3, <2>4
<1> HIDE DEF T
<1>3. \A cs \in Seq(Letter) : cs \in T
  BY <1>1, <1>2, TextInduction
<1> QED BY <1>3 DEF T

LEMMA RotatedText ==
  ASSUME NEW iban \in Seq(Letter), Len(iban) >= 4
  PROVE  /\ Rotated(iban) \in Seq(Letter) /\ Len(Rotated(iban)) = Len(iban)
         /\ \A j \in 1..Len(iban) :
              Rotated(iban)[j] = IF j <= Len(iban) - 4 THEN iban[j + 4] ELSE iban[j - (Len(iban) - 4)]
<1> DEFINE n == Len(iban)
           back == SubSeq(iban, 5, n)
           front == SubSeq(iban, 1, 4)
<1>0. n \in Nat
  BY LenProperties
<1>1. back \in Seq(Letter) /\ Len(back) = n - 4 /\ \A j \in 1..(n - 4) : back[j] = iban[j + 4]
  <2>1. CASE n = 4
    <3>1. back = <<>>
      BY <1>0, <2>1, SubSeqProperties
    <3> QED BY <2>1, <3>1, EmptySeq
  <2>2. CASE n > 4
    <3>1. 5 \in 1..n /\ n \in 4..n /\ n - 5 + 1 = n - 4
      BY <1>0, <2>2
    <3>2. back \in Seq(Letter) /\ Len(back) = n - 4
      BY <1>0, <2>2, <3>1, SubSeqProperties
    <3>3. \A j \in 1..(n - 4) : back[j] = iban[5 + j - 1]
      BY <1>0, <2>2, <3>1, SubSeqProperties
    <3> HIDE DEF back
    <3>4. ASSUME NEW j \in 1..(n - 4) PROVE back[j] = iban[j + 4]
      <4>1. 5 + j - 1 = j + 4
        BY <1>0
      <4> QED BY <3>3, <4>1
    <3> QED BY <3>2, <3>4
  <2>3. n = 4 \/ n > 4
    <3>1. \A k \in Nat : k >= 4 => k = 4 \/ k > 4
      OBVIOUS
    <3> QED BY <1>0, <3>1
  <2> HIDE DEF back
  <2> QED BY <2>1, <2>2, <2>3
<1>2. front \in Seq(Letter) /\ Len(front) = 4 /\ \A j \in 1..4 : front[j] = iban[j]
  BY <1>0, SubSeqProperties
<1> HIDE DEF back, front
<1>3. back \o front \in Seq(Letter) /\ Len(back \o front) = Len(back) + Len(front)
      /\ \A j \in 1..(Len(back) + Len(front)) :
           (back \o front)[j] = IF j <= Len(back) THEN back[j] ELSE front[j - Len(back)]
  BY <1>1, <1>2, ConcatProperties
<1>4. Rotated(iban) = back \o front
  BY DEF Rotated, back, front
<1>5. Len(back) + Len(front) = n
  BY <1>0, <1>1, <1>2
<1>6. ASSUME NEW j \in 1..n
      PROVE  (back \o front)[j] = IF j <= n - 4 THEN iban[j + 4] ELSE iban[j - (n - 4)]
  <2>1. CASE j <= n - 4
    BY <1>0, <1>1, <1>3, <1>5, <2>1
  <2>2. CASE ~(j <= n - 4)
    <3>1. j - (n - 4) \in 1..4
      BY <1>0, <2>2
    <3> QED BY <1>0, <1>1, <1>2, <1>3, <1>5, <2>2, <3>1
  <2> QED BY <2>1, <2>2
<1> QED BY <1>3, <1>4, <1>5, <1>6

-----------------------------------------------------------------------------
\* What the loop of validIBANMod97 carries behind the k-th character.
RemainderAt(cs, k) == Remainder(SubSeq(cs, 1, k))

\* A step of the loop.
After(r, c) == (r * Width(c) + c) % 97

LEMMA LettersAreNumbers ==
  ASSUME NEW c \in Letter
  PROVE  c \in 0..35 /\ Width(c) \in {10, 100}
BY DEF Letter, Digit, Capital, Width

LEMMA RemainderSteps ==
  ASSUME NEW cs \in Seq(Letter)
  PROVE  /\ RemainderAt(cs, 0) = 0
         /\ RemainderAt(cs, Len(cs)) = Remainder(cs)
         /\ \A k \in 0..Len(cs) : RemainderAt(cs, k) \in 0..96
         /\ \A k \in Nat : k < Len(cs) =>
              cs[k + 1] \in Letter /\ RemainderAt(cs, k + 1) = After(RemainderAt(cs, k), cs[k + 1])
<1>0. Len(cs) \in Nat
  BY LenProperties
<1>1. RemainderAt(cs, 0) = 0
  <2>1. SubSeq(cs, 1, 0) = <<>>
    BY <1>0, SubSeqProperties
  <2> QED BY <2>1, RemainderGrows DEF RemainderAt
<1>2. RemainderAt(cs, Len(cs)) = Remainder(cs)
  BY SubSeqFull DEF RemainderAt
<1>3. ASSUME NEW k \in 0..Len(cs) PROVE RemainderAt(cs, k) \in 0..96
  <2>1. SubSeq(cs, 1, k) \in Seq(Letter)
    BY <1>0, SubSeqProperties
  <2> QED BY <2>1, RemainderGrows DEF RemainderAt
<1>4. ASSUME NEW k \in Nat, k < Len(cs)
      PROVE  cs[k + 1] \in Letter /\ RemainderAt(cs, k + 1) = After(RemainderAt(cs, k), cs[k + 1])
  <2>1. cs[k + 1] \in Letter /\ SubSeq(cs, 1, k) \in Seq(Letter)
        /\ SubSeq(cs, 1, k + 1) = Append(SubSeq(cs, 1, k), cs[k + 1])
    BY <1>4, LastSplits
  <2>2. Remainder(Append(SubSeq(cs, 1, k), cs[k + 1])) = After(Remainder(SubSeq(cs, 1, k)), cs[k + 1])
    BY <2>1, RemainderGrows DEF After
  <2> QED BY <2>1, <2>2 DEF RemainderAt
<1> QED BY <1>1, <1>2, <1>3, <1>4

\* Two texts that agree so far carry the same remainder.
LEMMA EqualSoFar ==
  ASSUME NEW cs \in Seq(Letter), NEW ds \in Seq(Letter), Len(ds) = Len(cs),
         NEW p \in 0..Len(cs), \A j \in 1..p : ds[j] = cs[j]
  PROVE  RemainderAt(ds, p) = RemainderAt(cs, p)
<1>0. Len(cs) \in Nat
  BY LenProperties
<1>1. SubSeq(cs, 1, p) \in Seq(Letter) /\ Len(SubSeq(cs, 1, p)) = p
      /\ \A j \in 1..p : SubSeq(cs, 1, p)[j] = cs[j]
  BY <1>0, SubSeqProperties
<1>2. SubSeq(ds, 1, p) \in Seq(Letter) /\ Len(SubSeq(ds, 1, p)) = p
      /\ \A j \in 1..p : SubSeq(ds, 1, p)[j] = ds[j]
  BY <1>0, SubSeqProperties
<1>3. SubSeq(ds, 1, p) = SubSeq(cs, 1, p)
  BY <1>1, <1>2, SeqEqual
<1> QED BY <1>3 DEF RemainderAt

LEMMA StepByTen ==
  ASSUME NEW r, NEW c, Width(c) = 10
  PROVE  After(r, c) = (r * 10 + c) % 97
BY DEF After

LEMMA StepByHundred ==
  ASSUME NEW r, NEW c, Width(c) = 100
  PROVE  After(r, c) = (r * 100 + c) % 97
BY DEF After

\* 97 is prime: a step keeps different remainders apart, and tells two characters
\* of one kind apart.
LEMMA StepKeepsApart ==
  ASSUME NEW r \in 0..96, NEW s \in 0..96, r # s, NEW c \in Letter
  PROVE  After(r, c) # After(s, c)
<1>1. c \in 0..35 /\ Width(c) \in {10, 100}
  BY LettersAreNumbers
<1>2. CASE Width(c) = 10
  <2>1. \A x, y \in 0..96, d \in 0..35 : x # y => (x * 10 + d) % 97 # (y * 10 + d) % 97
    OBVIOUS
  <2> QED BY <1>1, <1>2, <2>1 DEF After
<1>3. CASE Width(c) = 100
  <2>1. \A x, y \in 0..96, d \in 0..35 : x # y => (x * 100 + d) % 97 # (y * 100 + d) % 97
    OBVIOUS
  <2> QED BY <1>1, <1>3, <2>1, ZenonT(30) DEF After
<1> QED BY <1>1, <1>2, <1>3

LEMMA StepTells ==
  ASSUME NEW r \in 0..96, NEW c \in Letter, NEW d \in Letter, c # d, Width(c) = Width(d)
  PROVE  After(r, c) # After(r, d)
<1>1. c \in 0..35 /\ d \in 0..35 /\ Width(c) \in {10, 100}
  BY LettersAreNumbers
<1>2. CASE Width(c) = 10
  <2>1. \A x \in 0..96, k, l \in 0..35 : k # l => (x * 10 + k) % 97 # (x * 10 + l) % 97
    OBVIOUS
  <2>2. After(r, c) = (r * 10 + c) % 97 /\ After(r, d) = (r * 10 + d) % 97
    BY <1>2, StepByTen
  <2> QED BY <1>1, <2>1, <2>2, ZenonT(20)
<1>3. CASE Width(c) = 100
  <2>1. \A x \in 0..96, k, l \in 0..35 : k # l => (x * 100 + k) % 97 # (x * 100 + l) % 97
    OBVIOUS
  <2>2. After(r, c) = (r * 100 + c) % 97 /\ After(r, d) = (r * 100 + d) % 97
    BY <1>3, StepByHundred
  <2> QED BY <1>1, <2>1, <2>2, ZenonT(60)
<1> QED BY <1>1, <1>2, <1>3

LEMMA KindTells ==
  ASSUME NEW a \in Letter, NEW b \in Letter, Kind(a) = Kind(b)
  PROVE  /\ (a \in Digit /\ b \in Digit) \/ (a \in Capital /\ b \in Capital)
         /\ Width(a) = Width(b)
<1>1. 0 \in Digit /\ 0 \notin Capital
  BY DEF Digit, Capital
<1>2. a \in Digit <=> b \in Digit
  BY <1>1 DEF Kind
<1> QED BY <1>2 DEF Letter, Width

\* Two exchanged characters of one kind: the difference is 9 or 99 times theirs.
LEMMA StepsTell ==
  ASSUME NEW r \in 0..96, NEW a \in Letter, NEW b \in Letter, a # b, Kind(a) = Kind(b)
  PROVE  After(After(r, b), a) # After(After(r, a), b)
<1>1. CASE a \in Digit /\ b \in Digit
  <2>1. Width(a) = 10 /\ Width(b) = 10 /\ a \in 0..9 /\ b \in 0..9
    BY <1>1 DEF Width, Digit
  <2>2. \A x \in 0..96, c, d \in 0..9 :
          c # d => (((x * 10 + d) % 97) * 10 + c) % 97 # (((x * 10 + c) % 97) * 10 + d) % 97
    OBVIOUS
  <2> QED BY <2>1, <2>2 DEF After
<1>2. CASE a \in Capital /\ b \in Capital
  <2>1. Width(a) = 100 /\ Width(b) = 100 /\ a \in 10..35 /\ b \in 10..35
    BY <1>2 DEF Width, Digit, Capital
  <2>2. \A m \in Nat, c \in 10..35 : ((m % 97) * 100 + c) % 97 = (m * 100 + c) % 97
    OBVIOUS
  <2>3. \A x \in 0..96, c, d \in 10..35 : c # d =>
          ((x * 100 + d) * 100 + c) % 97 # ((x * 100 + c) * 100 + d) % 97
    OBVIOUS
  <2>4. r * 100 + a \in Nat /\ r * 100 + b \in Nat
    BY <2>1
  <2>5. After(After(r, b), a) = ((r * 100 + b) * 100 + a) % 97
    BY <2>1, <2>2, <2>4 DEF After
  <2>6. After(After(r, a), b) = ((r * 100 + a) * 100 + b) % 97
    BY <2>1, <2>2, <2>4 DEF After
  <2>7. ((r * 100 + b) * 100 + a) % 97 # ((r * 100 + a) * 100 + b) % 97
    BY <2>1, <2>3, SMTT(100)
  <2> QED BY <2>5, <2>6, <2>7, ZenonT(20)
<1> QED BY <1>1, <1>2, KindTells

LEMMA DifferenceStays ==
  ASSUME NEW cs \in Seq(Letter), NEW ds \in Seq(Letter), Len(ds) = Len(cs),
         NEW p \in 0..Len(cs), \A j \in p + 1..Len(cs) : ds[j] = cs[j],
         RemainderAt(ds, p) # RemainderAt(cs, p)
  PROVE  Remainder(ds) # Remainder(cs)
<1> DEFINE S == {k \in Nat : p + k <= Len(cs) => RemainderAt(ds, p + k) # RemainderAt(cs, p + k)}
<1>0. Len(cs) \in Nat /\ p \in Nat
  BY LenProperties
<1>1. 0 \in S
  BY <1>0
<1>2. ASSUME NEW k \in Nat, k \in S PROVE k + 1 \in S
  <2> SUFFICES ASSUME p + (k + 1) <= Len(cs)
               PROVE  RemainderAt(ds, p + (k + 1)) # RemainderAt(cs, p + (k + 1))
    OBVIOUS
  <2> DEFINE m == p + k
  <2>1. m \in Nat /\ m < Len(cs) /\ m \in 0..Len(cs) /\ p + (k + 1) = m + 1 /\ m + 1 \in p + 1..Len(cs)
    BY <1>0
  <2>2. RemainderAt(ds, m) # RemainderAt(cs, m)
    BY <1>2, <2>1
  <2> HIDE DEF m
  <2>3. RemainderAt(cs, m) \in 0..96 /\ cs[m + 1] \in Letter
        /\ RemainderAt(cs, m + 1) = After(RemainderAt(cs, m), cs[m + 1])
    BY <2>1, RemainderSteps
  <2>4. RemainderAt(ds, m) \in 0..96
        /\ RemainderAt(ds, m + 1) = After(RemainderAt(ds, m), cs[m + 1])
    BY <2>1, RemainderSteps
  <2>5. RemainderAt(ds, m + 1) # RemainderAt(cs, m + 1)
    BY <2>2, <2>3, <2>4, StepKeepsApart
  <2> QED BY <2>1, <2>5
<1>3. Len(cs) - p \in S
  <2>1. Len(cs) - p \in Nat
    BY <1>0
  <2> HIDE DEF S
  <2> QED BY <1>1, <1>2, <2>1, Counting
<1>4. p + (Len(cs) - p) = Len(cs)
  BY <1>0
<1>5. RemainderAt(ds, Len(cs)) # RemainderAt(cs, Len(cs))
  BY <1>0, <1>3, <1>4
<1> QED BY <1>5, RemainderSteps

-----------------------------------------------------------------------------
\* The character at one place is another one of its kind.
LEMMA OneCharacterTells ==
  ASSUME NEW cs \in Seq(Letter), NEW ds \in Seq(Letter), Len(ds) = Len(cs),
         NEW p \in 1..Len(cs), \A j \in 1..Len(cs) : j # p => ds[j] = cs[j],
         ds[p] # cs[p], Width(ds[p]) = Width(cs[p])
  PROVE  Remainder(ds) # Remainder(cs)
<1>0. Len(cs) \in Nat /\ p - 1 \in Nat /\ p - 1 < Len(cs) /\ (p - 1) + 1 = p
      /\ p - 1 \in 0..Len(cs) /\ p \in 0..Len(cs)
  BY LenProperties
<1>1. RemainderAt(ds, p - 1) = RemainderAt(cs, p - 1)
  <2>1. \A j \in 1..p - 1 : ds[j] = cs[j]
    BY <1>0
  <2> QED BY <1>0, <2>1, EqualSoFar
<1>2. /\ RemainderAt(cs, p - 1) \in 0..96 /\ cs[p] \in Letter /\ ds[p] \in Letter
      /\ RemainderAt(cs, p) = After(RemainderAt(cs, p - 1), cs[p])
      /\ RemainderAt(ds, p) = After(RemainderAt(cs, p - 1), ds[p])
  <2>1. RemainderAt(cs, p - 1) \in 0..96 /\ cs[p] \in Letter
        /\ RemainderAt(cs, p) = After(RemainderAt(cs, p - 1), cs[p])
    BY <1>0, RemainderSteps
  <2>2. ds[p] \in Letter /\ RemainderAt(ds, p) = After(RemainderAt(ds, p - 1), ds[p])
    BY <1>0, RemainderSteps
  <2> QED BY <1>1, <2>1, <2>2
<1>3. RemainderAt(ds, p) # RemainderAt(cs, p)
  BY <1>2, StepTells
<1>4. \A j \in p + 1..Len(cs) : ds[j] = cs[j]
  BY <1>0
<1> QED BY <1>0, <1>3, <1>4, DifferenceStays

\* Two neighbours of one kind are exchanged.
LEMMA NeighboursTell ==
  ASSUME NEW cs \in Seq(Letter), NEW ds \in Seq(Letter), Len(ds) = Len(cs),
         NEW p \in 1..(Len(cs) - 1),
         \A j \in 1..Len(cs) : j \notin {p, p + 1} => ds[j] = cs[j],
         ds[p] = cs[p + 1], ds[p + 1] = cs[p], cs[p] # cs[p + 1],
         Kind(cs[p]) = Kind(cs[p + 1])
  PROVE  Remainder(ds) # Remainder(cs)
<1> DEFINE a == cs[p]
           b == cs[p + 1]
           r == RemainderAt(cs, p - 1)
<1>0. Len(cs) \in Nat /\ p - 1 \in Nat /\ p - 1 < Len(cs) /\ (p - 1) + 1 = p
      /\ p - 1 \in 0..Len(cs) /\ p \in 0..Len(cs) /\ p \in Nat /\ p < Len(cs) /\ p + 1 \in 0..Len(cs)
  BY LenProperties
<1>1. RemainderAt(ds, p - 1) = r
  <2>1. \A j \in 1..p - 1 : ds[j] = cs[j]
    BY <1>0
  <2> QED BY <1>0, <2>1, EqualSoFar
<1>2. r \in 0..96 /\ a \in Letter /\ b \in Letter /\ RemainderAt(cs, p + 1) = After(After(r, a), b)
  <2>1. r \in 0..96 /\ a \in Letter /\ RemainderAt(cs, p) = After(r, a)
    BY <1>0, RemainderSteps
  <2>2. b \in Letter /\ RemainderAt(cs, p + 1) = After(RemainderAt(cs, p), b)
    BY <1>0, RemainderSteps
  <2> QED BY <2>1, <2>2
<1>3. RemainderAt(ds, p + 1) = After(After(r, b), a)
  <2>1. RemainderAt(ds, p) = After(RemainderAt(ds, p - 1), ds[p])
    BY <1>0, RemainderSteps
  <2>2. RemainderAt(ds, p + 1) = After(RemainderAt(ds, p), ds[p + 1])
    BY <1>0, RemainderSteps
  <2> QED BY <1>1, <2>1, <2>2
<1> HIDE DEF r
<1>4. \A j \in p + 2..Len(cs) : ds[j] = cs[j]
  BY <1>0, SMTT(30)
<1>5. a # b /\ Kind(a) = Kind(b)
  OBVIOUS
<1> HIDE DEF a, b
<1>6. After(After(r, b), a) # After(After(r, a), b)
  BY <1>2, <1>5, StepsTell
<1>7. RemainderAt(ds, p + 1) # RemainderAt(cs, p + 1)
  BY <1>2, <1>3, <1>6
<1>8. (p + 1) + 1 = p + 2
  BY <1>0
<1> QED BY <1>0, <1>4, <1>7, <1>8, DifferenceStays

-----------------------------------------------------------------------------
\* The remainders of the powers of ten.
Powers(T) == T \in [Nat -> 0..96] /\ T[0] = 1 /\ \A n \in Nat : T[n + 1] = (10 * T[n]) % 97

LEMMA PowersExist == \E T : Powers(T)
<1> DEFINE step == [r \in 0..96 |-> [c \in {0} |-> (10 * r) % 97]]
           zeros(n) == [i \in 1..n |-> 0]
           T == [n \in Nat |-> Carried(step, 1, zeros(n))]
<1>1. step \in [0..96 -> [{0} -> 0..96]] /\ 1 \in 0..96
      /\ \A r \in 0..96 : step[r][0] = (10 * r) % 97
  OBVIOUS
<1>2. \A n \in Nat : zeros(n) \in Seq({0}) /\ Len(zeros(n)) = n
  OBVIOUS
<1>3. ASSUME NEW n \in Nat PROVE zeros(n + 1) = Append(zeros(n), 0)
  <2>1. zeros(n + 1) \in Seq({0}) /\ Len(zeros(n + 1)) = n + 1
    BY <1>2
  <2>2. Append(zeros(n), 0) \in Seq({0}) /\ Len(Append(zeros(n), 0)) = n + 1
    BY <1>2, AppendProperties
  <2>3. \A i \in 1..n + 1 : zeros(n + 1)[i] = 0 /\ Append(zeros(n), 0)[i] = 0
    BY <2>1, <2>2, ElementOfSeq
  <2> HIDE DEF zeros
  <2> QED BY <2>1, <2>2, <2>3, SeqEqual
<1>4. zeros(0) = <<>>
  OBVIOUS
<1> HIDE DEF step, zeros
<1>5. Unrolls(step, 1, 0..96, {0})
  BY <1>1, CarriedGrows
<1>6. T \in [Nat -> 0..96]
  BY <1>2, <1>5 DEF Unrolls
<1>7. T[0] = 1
  BY <1>4, <1>5 DEF Unrolls
<1>8. ASSUME NEW n \in Nat PROVE T[n + 1] = (10 * T[n]) % 97
  <2>1. Carried(step, 1, zeros(n)) \in 0..96
    BY <1>2, <1>5 DEF Unrolls
  <2>2. Carried(step, 1, zeros(n + 1)) = step[Carried(step, 1, zeros(n))][0]
    BY <1>2, <1>3, <1>5 DEF Unrolls
  <2> DEFINE r == Carried(step, 1, zeros(n))
  <2>3. T[n] = r /\ T[n + 1] = Carried(step, 1, zeros(n + 1))
    OBVIOUS
  <2> HIDE DEF r, T
  <2> QED BY <1>1, <2>1, <2>2, <2>3 DEF r
<1> HIDE DEF T
<1> QED BY <1>6, <1>7, <1>8 DEF Powers

\* No positive power of ten up to the 62nd leaves the remainder 1.
LEMMA PowersAreNotOne ==
  ASSUME NEW T, Powers(T)
  PROVE  \A e \in 1..62 : T[e] \in 2..96
<1>0. T[0] = 1 /\ \A n \in Nat : T[n + 1] = (10 * T[n]) % 97
  BY DEF Powers
<1>1. T[1] = 10 /\ T[2] = 3 /\ T[3] = 30 /\ T[4] = 9 /\ T[5] = 90 /\ T[6] = 27
  BY <1>0
<1>2. T[7] = 76 /\ T[8] = 81 /\ T[9] = 34 /\ T[10] = 49 /\ T[11] = 5 /\ T[12] = 50
  BY <1>0, <1>1
<1>3. T[13] = 15 /\ T[14] = 53 /\ T[15] = 45 /\ T[16] = 62 /\ T[17] = 38 /\ T[18] = 89
  BY <1>0, <1>2
<1>4. T[19] = 17 /\ T[20] = 73 /\ T[21] = 51 /\ T[22] = 25 /\ T[23] = 56 /\ T[24] = 75
  BY <1>0, <1>3
<1>5. T[25] = 71 /\ T[26] = 31 /\ T[27] = 19 /\ T[28] = 93 /\ T[29] = 57 /\ T[30] = 85
  BY <1>0, <1>4
<1>6. T[31] = 74 /\ T[32] = 61 /\ T[33] = 28 /\ T[34] = 86 /\ T[35] = 84 /\ T[36] = 64
  BY <1>0, <1>5
<1>7. T[37] = 58 /\ T[38] = 95 /\ T[39] = 77 /\ T[40] = 91 /\ T[41] = 37 /\ T[42] = 79
  BY <1>0, <1>6
<1>8. T[43] = 14 /\ T[44] = 43 /\ T[45] = 42 /\ T[46] = 32 /\ T[47] = 29 /\ T[48] = 96
  BY <1>0, <1>7
<1>9. T[49] = 87 /\ T[50] = 94 /\ T[51] = 67 /\ T[52] = 88 /\ T[53] = 7 /\ T[54] = 70
  BY <1>0, <1>8
<1>10. T[55] = 21 /\ T[56] = 16 /\ T[57] = 63 /\ T[58] = 48 /\ T[59] = 92 /\ T[60] = 47
  BY <1>0, <1>9
<1>11. T[61] = 82 /\ T[62] = 44
  BY <1>0, <1>10
<1> QED BY <1>1, <1>2, <1>3, <1>4, <1>5, <1>6, <1>7, <1>8, <1>9, <1>10, <1>11

-----------------------------------------------------------------------------
\* 97 is prime: it divides no product of smaller factors.
LEMMA NinetySevenIsPrime ==
  ASSUME NEW z \in -25..25, z # 0, NEW s \in 1..95, NEW q \in Int
  PROVE  z * s # 97 * q
<1>1. ASSUME NEW y \in 1..25, NEW p \in Int PROVE y * s # 97 * p
  <2>1. 1 * s # 97 * p /\ 2 * s # 97 * p /\ 3 * s # 97 * p /\ 4 * s # 97 * p /\ 5 * s # 97 * p
    OBVIOUS
  <2>2. 6 * s # 97 * p /\ 7 * s # 97 * p /\ 8 * s # 97 * p /\ 9 * s # 97 * p /\ 10 * s # 97 * p
    OBVIOUS
  <2>3. 11 * s # 97 * p /\ 12 * s # 97 * p /\ 13 * s # 97 * p /\ 14 * s # 97 * p /\ 15 * s # 97 * p
    OBVIOUS
  <2>4. 16 * s # 97 * p /\ 17 * s # 97 * p /\ 18 * s # 97 * p /\ 19 * s # 97 * p /\ 20 * s # 97 * p
    OBVIOUS
  <2>5. 21 * s # 97 * p /\ 22 * s # 97 * p /\ 23 * s # 97 * p /\ 24 * s # 97 * p /\ 25 * s # 97 * p
    OBVIOUS
  <2>6. \/ y \in 1..5 \/ y \in 6..10 \/ y \in 11..15 \/ y \in 16..20 \/ y \in 21..25
    OBVIOUS
  <2>7. CASE y \in 1..5
    <3>1. y = 1 \/ y = 2 \/ y = 3 \/ y = 4 \/ y = 5
      BY <2>7
    <3> QED BY <2>1, <3>1
  <2>8. CASE y \in 6..10
    <3>1. y = 6 \/ y = 7 \/ y = 8 \/ y = 9 \/ y = 10
      BY <2>8
    <3> QED BY <2>2, <3>1
  <2>9. CASE y \in 11..15
    <3>1. y = 11 \/ y = 12 \/ y = 13 \/ y = 14 \/ y = 15
      BY <2>9
    <3> QED BY <2>3, <3>1
  <2>10. CASE y \in 16..20
    <3>1. y = 16 \/ y = 17 \/ y = 18 \/ y = 19 \/ y = 20
      BY <2>10
    <3> QED BY <2>4, <3>1
  <2>11. CASE y \in 21..25
    <3>1. y = 21 \/ y = 22 \/ y = 23 \/ y = 24 \/ y = 25
      BY <2>11
    <3> QED BY <2>5, <3>1
  <2> QED BY <2>6, <2>7, <2>8, <2>9, <2>10, <2>11
<1>2. CASE z \in 1..25
  BY <1>1, <1>2
<1>3. CASE -z \in 1..25
  <2>1. (-z) * s # 97 * (-q)
    BY <1>1, <1>3
  <2> QED BY <2>1
<1> QED BY <1>2, <1>3

\* r and s differ by z times t, as remainders of 97.
Gap(r, s, z, t) == \E q \in Int : r - s = z * t + 97 * q

\* x and y leave the same remainder.
Alike(x, y) == \E u \in Int : x = y + 97 * u

\* A difference that is z times a power of ten stays one.
LEMMA DifferenceGrows ==
  ASSUME NEW r \in Int, NEW s \in Int, NEW z \in Int, NEW t \in Int, Gap(r, s, z, t),
         NEW c \in Letter, NEW v \in Int, Alike(Width(c) * t, v)
  PROVE  Gap(After(r, c), After(s, c), z, v)
<1> DEFINE w == Width(c)
<1>w. w \in {10, 100} /\ c \in Int /\ Alike(w * t, v)
  BY LettersAreNumbers
<1> HIDE DEF w
<1>0. PICK q \in Int, u \in Int : r - s = z * t + 97 * q /\ w * t = v + 97 * u
  BY <1>w DEF Gap, Alike
<1>1. PICK m \in Int : r * w + c = 97 * m + ((r * w + c) % 97)
  <2>1. \A x \in Int : x = 97 * (x \div 97) + (x % 97) /\ x \div 97 \in Int
    OBVIOUS
  <2>2. r * w + c \in Int
    BY <1>w
  <2> QED BY <2>1, <2>2
<1>2. PICK n \in Int : s * w + c = 97 * n + ((s * w + c) % 97)
  <2>1. \A x \in Int : x = 97 * (x \div 97) + (x % 97) /\ x \div 97 \in Int
    OBVIOUS
  <2>2. s * w + c \in Int
    BY <1>w
  <2> QED BY <2>1, <2>2
<1>3. (r * w + c) - (s * w + c) = w * (r - s)
  BY <1>w
<1>4. w * (r - s) = z * (w * t) + 97 * (w * q)
  <2>1. w = 10 \/ w = 100
    BY <1>w
  <2> QED BY <1>0, <2>1
<1>5. z * (w * t) = z * v + 97 * (z * u)
  BY <1>0
<1> DEFINE p == z * u + w * q - m + n
           d == ((r * w + c) % 97) - ((s * w + c) % 97)
<1>6. d = (z * v + 97 * (z * u) + 97 * (w * q)) - 97 * m + 97 * n
  <2> DEFINE x == (r * w + c) % 97
             y == (s * w + c) % 97
  <2>1. x \in Int /\ y \in Int /\ r * w + c \in Int /\ s * w + c \in Int
        /\ z * v \in Int /\ z * u \in Int /\ w * q \in Int
    BY <1>w
  <2>2. (r * w + c) - (s * w + c) = z * v + 97 * (z * u) + 97 * (w * q)
    BY <1>3, <1>4, <1>5
  <2>3. \A a, b, e, f, g : a \in Int /\ b \in Int /\ e \in Int /\ f \in Int /\ g \in Int
          /\ a = 97 * m + e /\ b = 97 * n + f /\ a - b = g => e - f = g - 97 * m + 97 * n
    OBVIOUS
  <2>4. z * v + 97 * (z * u) + 97 * (w * q) \in Int
    BY <2>1
  <2>5. r * w + c = 97 * m + x /\ s * w + c = 97 * n + y
    BY <1>1, <1>2
  <2> HIDE DEF x, y
  <2>6. x - y = (z * v + 97 * (z * u) + 97 * (w * q)) - 97 * m + 97 * n
    BY <2>1, <2>2, <2>3, <2>4, <2>5
  <2> QED BY <2>6 DEF x, y
<1>7. p \in Int /\ z * v + 97 * p = (z * v + 97 * (z * u) + 97 * (w * q)) - 97 * m + 97 * n
  BY <1>w
<1> HIDE DEF p, d
<1>8. d = z * v + 97 * p
  BY <1>6, <1>7
<1> QED BY <1>7, <1>8 DEF d, w, Gap, After

LEMMA AfterType ==
  ASSUME NEW r \in 0..96, NEW c \in Letter
  PROVE  After(r, c) \in 0..96
<1>1. c \in Nat /\ (Width(c) = 10 \/ Width(c) = 100)
  BY LettersAreNumbers
<1>2. \A n \in Nat : n % 97 \in 0..96
  OBVIOUS
<1>3. r * Width(c) + c \in Nat
  BY <1>1
<1> QED BY <1>2, <1>3 DEF After

LEMMA StepFromNought ==
  ASSUME NEW c \in Letter
  PROVE  After(0, c) = c
<1>1. \A x \in 0..35 : (0 * 10 + x) % 97 = x /\ (0 * 100 + x) % 97 = x
  OBVIOUS
<1> QED BY <1>1, LettersAreNumbers DEF After

LEMMA KindIsNear ==
  ASSUME NEW a \in Letter, NEW b \in Letter, Kind(a) = Kind(b)
  PROVE  a \in Int /\ b \in Int /\ a - b \in Int /\ a - b \in -25..25
<1>1. (a \in Digit /\ b \in Digit) \/ (a \in Capital /\ b \in Capital)
  BY KindTells
<1> QED BY <1>1 DEF Digit, Capital

LEMMA Division ==
  ASSUME NEW x \in Int
  PROVE  (x % 97) \in Int /\ Alike(x, x % 97)
<1>1. x = (x % 97) + 97 * (x \div 97) /\ (x \div 97) \in Int /\ (x % 97) \in Int
  OBVIOUS
<1> QED BY <1>1 DEF Alike

LEMMA TwoTens ==
  ASSUME NEW t \in 0..96, NEW v \in 0..96, NEW w \in 0..96,
         v = (10 * t) % 97, w = (10 * v) % 97
  PROVE  Alike(10 * t, v) /\ Alike(100 * t, w)
<1>1. PICK k \in Int : 10 * t = v + 97 * k
  <2>1. 10 * t \in Int
    OBVIOUS
  <2> QED BY <2>1, Division DEF Alike
<1>2. PICK l \in Int : 10 * v = w + 97 * l
  <2>1. 10 * v \in Int
    OBVIOUS
  <2> QED BY <2>1, Division DEF Alike
<1>3. 100 * t = w + 97 * (10 * k + l) /\ 10 * k + l \in Int
  BY <1>1, <1>2
<1> QED BY <1>1, <1>3 DEF Alike

\* A step multiplies the gap by ten or by a hundred: the power is the next one
\* or the one after it.
LEMMA GapGrows ==
  ASSUME NEW T, Powers(T), NEW e \in Nat, NEW z \in Int,
         NEW r \in 0..96, NEW s \in 0..96, NEW c \in Letter, Gap(r, s, z, T[e])
  PROVE  \E f \in {e + 1, e + 2} : Gap(After(r, c), After(s, c), z, T[f])
<1>1. T[e] \in 0..96 /\ T[e + 1] \in 0..96 /\ T[e + 2] \in 0..96
  BY DEF Powers
<1>2. T[e + 1] = (10 * T[e]) % 97
  BY DEF Powers
<1>3. T[e + 2] = (10 * T[e + 1]) % 97
  <2>1. e + 1 \in Nat /\ (e + 1) + 1 = e + 2
    OBVIOUS
  <2> QED BY <2>1 DEF Powers
<1>4. Alike(10 * T[e], T[e + 1]) /\ Alike(100 * T[e], T[e + 2])
  BY <1>1, <1>2, <1>3, TwoTens, Zenon
<1>5. Width(c) = 10 \/ Width(c) = 100
  BY LettersAreNumbers
<1>6. ASSUME NEW t \in 0..96, NEW v \in 0..96, Gap(r, s, z, t), Alike(Width(c) * t, v)
      PROVE  Gap(After(r, c), After(s, c), z, v)
  <2>1. r \in Int /\ s \in Int /\ t \in Int /\ v \in Int
    OBVIOUS
  <2> QED BY <1>6, <2>1, DifferenceGrows
<1>7. CASE Width(c) = 10
  <2>1. Alike(Width(c) * T[e], T[e + 1])
    BY <1>4, <1>7
  <2>2. Gap(After(r, c), After(s, c), z, T[e + 1])
    BY <1>1, <1>6, <2>1
  <2> QED BY <2>2
<1>8. CASE Width(c) = 100
  <2>1. Alike(Width(c) * T[e], T[e + 2])
    BY <1>4, <1>8
  <2>2. Gap(After(r, c), After(s, c), z, T[e + 2])
    BY <1>1, <1>6, <2>1
  <2> QED BY <2>2
<1> QED BY <1>5, <1>7, <1>8

\* The gap behind the first character is that of the two; if it is multiplied by
\* any power but the 0th, the last step does not close it.
LEMMA GapStays ==
  ASSUME NEW r \in 0..96, NEW s \in 0..96, NEW a \in Letter, NEW b \in Letter,
         a # b, Width(a) = Width(b), a - b \in -25..25, NEW t \in 2..96,
         Gap(After(r, b), After(s, b), a - b, t)
  PROVE  After(s, a) # After(r, b)
<1>1. a \in Int /\ b \in Int /\ (Width(a) = 10 \/ Width(a) = 100)
  BY LettersAreNumbers
<1>2. After(r, b) \in 0..96 /\ After(s, b) \in 0..96 /\ After(s, a) \in 0..96
  BY AfterType
<1>3. After(r, b) \in Int /\ After(s, b) \in Int /\ After(s, a) \in Int
  BY <1>2
<1>4. \E m \in Int : After(s, a) = After(s, b) + (a - b) + 97 * m
  <2>1. ASSUME NEW x \in Int, NEW y \in Int
        PROVE  \E m \in Int : (x % 97) = (y % 97) + (x - y) + 97 * m
    <3>1. PICK k \in Int : x = (x % 97) + 97 * k
      BY Division DEF Alike
    <3>2. PICK l \in Int : y = (y % 97) + 97 * l
      BY Division DEF Alike
    <3>3. (x % 97) \in Int /\ (y % 97) \in Int
      BY Division
    <3>4. (x % 97) = (y % 97) + (x - y) + 97 * (l - k) /\ l - k \in Int
      BY <3>1, <3>2, <3>3
    <3> QED BY <3>4
  <2>2. CASE Width(a) = 10
    <3>1. After(s, a) = (s * 10 + a) % 97 /\ After(s, b) = (s * 10 + b) % 97
      BY <2>2, StepByTen
    <3>2. s * 10 + a \in Int /\ s * 10 + b \in Int /\ (s * 10 + a) - (s * 10 + b) = a - b
      BY <1>1
    <3> DEFINE x == s * 10 + a
               y == s * 10 + b
    <3>3. x \in Int /\ y \in Int /\ x - y = a - b /\ After(s, a) = x % 97 /\ After(s, b) = y % 97
      BY <3>1, <3>2
    <3> HIDE DEF x, y
    <3>4. \E m \in Int : (x % 97) = (y % 97) + (x - y) + 97 * m
      BY <2>1, <3>3, ZenonT(30)
    <3> QED BY <3>3, <3>4
  <2>3. CASE Width(a) = 100
    <3>1. After(s, a) = (s * 100 + a) % 97 /\ After(s, b) = (s * 100 + b) % 97
      BY <2>3, StepByHundred
    <3>2. s * 100 + a \in Int /\ s * 100 + b \in Int /\ (s * 100 + a) - (s * 100 + b) = a - b
      BY <1>1
    <3> DEFINE x == s * 100 + a
               y == s * 100 + b
    <3>3. x \in Int /\ y \in Int /\ x - y = a - b /\ After(s, a) = x % 97 /\ After(s, b) = y % 97
      BY <3>1, <3>2
    <3> HIDE DEF x, y
    <3>4. \E m \in Int : (x % 97) = (y % 97) + (x - y) + 97 * m
      BY <2>1, <3>3, ZenonT(30)
    <3> QED BY <3>3, <3>4
  <2> QED BY <1>1, <2>2, <2>3
<1>5. PICK m \in Int : After(s, a) = After(s, b) + (a - b) + 97 * m
  BY <1>4
<1>6. PICK p \in Int : After(r, b) - After(s, b) = (a - b) * t + 97 * p
  BY DEF Gap
<1>7. SUFFICES ASSUME After(s, a) = After(r, b) PROVE FALSE
  OBVIOUS
<1>8. \A x, y, z, k : x \in Int /\ y \in Int /\ z \in Int /\ k \in Int
        /\ x = y + z + 97 * m /\ x - y = k + 97 * p => k - z = 97 * (m - p)
  OBVIOUS
<1>9. (a - b) \in Int /\ (a - b) * t \in Int
  OBVIOUS
<1>10. (a - b) * t - (a - b) = 97 * (m - p)
  BY <1>3, <1>5, <1>6, <1>7, <1>8, <1>9
<1>11. (a - b) * (t - 1) = (a - b) * t - (a - b)
  OBVIOUS
<1>12. (a - b) * (t - 1) = 97 * (m - p)
  BY <1>10, <1>11
<1>13. t - 1 \in 1..95 /\ m - p \in Int /\ a - b # 0
  BY <1>1
<1> QED BY <1>12, <1>13, NinetySevenIsPrime

\* The first and the last character of a rotated text are of one kind and are
\* exchanged: what they stand for differs by a factor that is a power of ten.
LEMMA EndsTell ==
  ASSUME NEW cs \in Seq(Letter), NEW ds \in Seq(Letter), NEW L \in 2..LongestIBAN,
         Len(cs) = L, Len(ds) = L,
         \A j \in 2..(L - 1) : ds[j] = cs[j],
         ds[1] = cs[L], ds[L] = cs[1], cs[1] # cs[L], Kind(cs[1]) = Kind(cs[L])
  PROVE  Remainder(ds) # Remainder(cs)
<1>0. L \in 2..32 /\ L \in Nat
  BY DEF LongestIBAN
<1>1. PICK T : Powers(T)
  BY PowersExist
<1>2. PICK a \in Letter, b \in Letter : a = cs[1] /\ b = cs[L] /\ ds[1] = b /\ ds[L] = a
  <2>1. cs[1] \in Letter /\ cs[L] \in Letter
    BY <1>0, ElementOfSeq
  <2> QED BY <2>1
<1>3. a # b /\ Kind(a) = Kind(b)
  BY <1>2
<1>4. Width(a) = Width(b)
  BY <1>3, KindTells
<1>5. a - b \in -25..25
  BY <1>3, KindIsNear
<1>6. a - b \in Int
  BY <1>3, KindIsNear
<1> DEFINE Apart(k) == \E e \in 0..2 * k :
                         Gap(RemainderAt(cs, k + 1), RemainderAt(ds, k + 1), a - b, T[e])
           S == {k \in Nat : k + 1 < L => Apart(k)}
<1>7. 0 \in S
  <2>1. RemainderAt(cs, 0) = 0 /\ RemainderAt(ds, 0) = 0 /\ 0 < L
    BY <1>0, RemainderSteps
  <2>2. RemainderAt(cs, 0 + 1) = After(0, a)
    BY <1>2, <2>1, RemainderSteps
  <2>3. RemainderAt(ds, 0 + 1) = After(0, b)
    BY <1>2, <2>1, RemainderSteps
  <2>5. After(0, a) = a
    BY StepFromNought
  <2>6. After(0, b) = b
    BY StepFromNought
  <2>7. T[0] = 1
    BY <1>1 DEF Powers
  <2>8. a - b = (a - b) * 1 + 97 * 0 /\ 0 \in Int
    BY <1>6
  <2>9. Gap(a, b, a - b, T[0])
    BY <2>7, <2>8 DEF Gap
  <2>10. 0 \in 0..2 * 0
    OBVIOUS
  <2>11. Apart(0)
    BY <2>2, <2>3, <2>5, <2>6, <2>9, <2>10
  <2> HIDE DEF Apart
  <2> QED BY <2>11
<1>8. ASSUME NEW k \in Nat, k \in S PROVE k + 1 \in S
  <2> SUFFICES ASSUME (k + 1) + 1 < L PROVE Apart(k + 1)
    OBVIOUS
  <2>1. k + 1 \in Nat /\ k + 1 < L /\ k + 1 \in 0..L /\ (k + 1) + 1 \in 2..(L - 1)
    BY <1>0
  <2>2. PICK e \in 0..2 * k : Gap(RemainderAt(cs, k + 1), RemainderAt(ds, k + 1), a - b, T[e])
    BY <1>8, <2>1
  <2>3. RemainderAt(cs, k + 1) \in 0..96 /\ cs[(k + 1) + 1] \in Letter
        /\ RemainderAt(cs, (k + 1) + 1) = After(RemainderAt(cs, k + 1), cs[(k + 1) + 1])
    BY <2>1, RemainderSteps
  <2>4. RemainderAt(ds, k + 1) \in 0..96
        /\ RemainderAt(ds, (k + 1) + 1) = After(RemainderAt(ds, k + 1), ds[(k + 1) + 1])
    BY <2>1, RemainderSteps
  <2>5. ds[(k + 1) + 1] = cs[(k + 1) + 1]
    BY <2>1
  <2>6. PICK f \in {e + 1, e + 2} :
          Gap(After(RemainderAt(cs, k + 1), cs[(k + 1) + 1]),
              After(RemainderAt(ds, k + 1), cs[(k + 1) + 1]), a - b, T[f])
    <3>1. e \in Nat
      OBVIOUS
    <3> QED BY <1>1, <1>6, <2>2, <2>3, <2>4, <3>1, GapGrows
  <2>7. f \in 0..2 * (k + 1)
    OBVIOUS
  <2> QED BY <2>3, <2>4, <2>5, <2>6, <2>7
<1>9. Apart(L - 2)
  <2>1. L - 2 \in Nat /\ (L - 2) + 1 < L
    BY <1>0
  <2>2. L - 2 \in S
    <3> HIDE DEF S
    <3> QED BY <1>7, <1>8, <2>1, Counting
  <2> HIDE DEF Apart
  <2> QED BY <2>1, <2>2
<1>10. (L - 2) + 1 = L - 1 /\ L - 1 \in Nat /\ L - 1 < L /\ (L - 1) + 1 = L /\ L - 1 \in 0..L
  BY <1>0
<1>11. PICK e \in 0..60 : Gap(RemainderAt(cs, L - 1), RemainderAt(ds, L - 1), a - b, T[e])
  <2>1. \A e \in 0..2 * (L - 2) : e \in 0..60
    BY <1>0
  <2> QED BY <1>9, <1>10, <2>1
<1>12. RemainderAt(cs, L - 1) \in 0..96 /\ Remainder(cs) = After(RemainderAt(cs, L - 1), b)
  BY <1>2, <1>10, RemainderSteps
<1>13. RemainderAt(ds, L - 1) \in 0..96 /\ Remainder(ds) = After(RemainderAt(ds, L - 1), a)
  BY <1>2, <1>10, RemainderSteps
<1>14. PICK f \in {e + 1, e + 2} :
         Gap(After(RemainderAt(cs, L - 1), b), After(RemainderAt(ds, L - 1), b), a - b, T[f])
  <2>1. e \in Nat
    OBVIOUS
  <2> QED BY <1>1, <1>6, <1>11, <1>12, <1>13, <2>1, GapGrows
<1>15. f \in 1..62
  OBVIOUS
<1>16. T[f] \in 2..96
  BY <1>1, <1>15, PowersAreNotOne
<1>17. After(RemainderAt(ds, L - 1), a) # After(RemainderAt(cs, L - 1), b)
  BY <1>3, <1>4, <1>5, <1>12, <1>13, <1>14, <1>16, GapStays, ZenonT(30)
<1> QED BY <1>12, <1>13, <1>17
-----------------------------------------------------------------------------
\* Where the j-th character of a rotated text of n comes from, and where the i-th
\* of the text goes.
Source(n, j) == IF j <= n - 4 THEN j + 4 ELSE j - (n - 4)
Place(n, i) == IF i <= 4 THEN i + (n - 4) ELSE i - 4

LEMMA Places ==
  ASSUME NEW n \in Nat, n >= 4
  PROVE  /\ \A j \in 1..n : Source(n, j) \in 1..n /\ Place(n, Source(n, j)) = j
         /\ \A i \in 1..n : Place(n, i) \in 1..n /\ Source(n, Place(n, i)) = i
BY DEF Source, Place

LEMMA RotatedFrom ==
  ASSUME NEW iban \in Seq(Letter), NEW n \in Nat, n >= 4, Len(iban) = n
  PROVE  /\ Rotated(iban) \in Seq(Letter) /\ Len(Rotated(iban)) = n
         /\ \A j \in 1..n : Rotated(iban)[j] = iban[Source(n, j)]
<1>1. /\ Rotated(iban) \in Seq(Letter) /\ Len(Rotated(iban)) = n
      /\ \A j \in 1..n : Rotated(iban)[j] = IF j <= n - 4 THEN iban[j + 4] ELSE iban[j - (n - 4)]
  BY RotatedText
<1> QED BY <1>1 DEF Source

LEMMA WrongCharacterIsCaught ==
  ASSUME NEW iban \in Seq(Letter), NEW other \in Seq(Letter), NEW n \in Nat, n >= 4,
         Len(iban) = n, Len(other) = n, NEW i \in 1..n,
         \A j \in 1..n : j # i => other[j] = iban[j],
         other[i] # iban[i], Width(other[i]) = Width(iban[i])
  PROVE  Remainder(Rotated(other)) # Remainder(Rotated(iban))
<1> DEFINE cs == Rotated(iban)
           ds == Rotated(other)
           p == Place(n, i)
<1>1. cs \in Seq(Letter) /\ Len(cs) = n /\ \A j \in 1..n : cs[j] = iban[Source(n, j)]
  BY RotatedFrom
<1>2. ds \in Seq(Letter) /\ Len(ds) = n /\ \A j \in 1..n : ds[j] = other[Source(n, j)]
  BY RotatedFrom
<1>3. p \in 1..n /\ Source(n, p) = i /\ \A j \in 1..n : j # p => Source(n, j) \in 1..n /\ Source(n, j) # i
  BY Places
<1> HIDE DEF cs, ds, p
<1>4. \A j \in 1..n : j # p => ds[j] = cs[j]
  BY <1>1, <1>2, <1>3, ZenonT(30)
<1>5. cs[p] = iban[i] /\ ds[p] = other[i]
  BY <1>1, <1>2, <1>3
<1>6. Remainder(ds) # Remainder(cs)
  BY <1>1, <1>2, <1>3, <1>4, <1>5, OneCharacterTells
<1> QED BY <1>6 DEF cs, ds

LEMMA ExchangeIsCaught ==
  ASSUME NEW iban \in Seq(Letter), NEW other \in Seq(Letter), NEW n \in 4..LongestIBAN,
         Len(iban) = n, Len(other) = n, NEW i \in 1..(n - 1),
         \A j \in 1..n : j \notin {i, i + 1} => other[j] = iban[j],
         other[i] = iban[i + 1], other[i + 1] = iban[i],
         iban[i] # iban[i + 1], Kind(iban[i]) = Kind(iban[i + 1])
  PROVE  Remainder(Rotated(other)) # Remainder(Rotated(iban))
<1> DEFINE cs == Rotated(iban)
           ds == Rotated(other)
           p == Place(n, i)
           q == Place(n, i + 1)
<1>0. n \in Nat /\ n >= 4 /\ i + 1 \in 1..n /\ i \in 1..n
  BY DEF LongestIBAN
<1>1. cs \in Seq(Letter) /\ Len(cs) = n /\ \A j \in 1..n : cs[j] = iban[Source(n, j)]
  BY <1>0, RotatedFrom
<1>2. ds \in Seq(Letter) /\ Len(ds) = n /\ \A j \in 1..n : ds[j] = other[Source(n, j)]
  BY <1>0, RotatedFrom
<1>3. p \in 1..n /\ Source(n, p) = i /\ q \in 1..n /\ Source(n, q) = i + 1
      /\ \A j \in 1..n : j # p /\ j # q =>
           Source(n, j) \in 1..n /\ Source(n, j) # i /\ Source(n, j) # i + 1
  BY <1>0, Places
<1>4. (i # 4 /\ q = p + 1) \/ (i = 4 /\ p = n /\ q = 1)
  BY <1>0 DEF Place
<1> HIDE DEF cs, ds, p, q
<1>5. \A j \in 1..n : j # p /\ j # q => ds[j] = cs[j]
  BY <1>1, <1>2, <1>3
<1>6. cs[p] = iban[i] /\ cs[q] = iban[i + 1] /\ ds[p] = iban[i + 1] /\ ds[q] = iban[i]
  BY <1>1, <1>2, <1>3
<1>7. Remainder(ds) # Remainder(cs)
  <2>1. CASE q = p + 1
    <3>1. p \in 1..(Len(cs) - 1)
      BY <1>0, <1>1, <1>3, <2>1
    <3>2. \A j \in 1..Len(cs) : j \notin {p, p + 1} => ds[j] = cs[j]
      BY <1>1, <1>5, <2>1
    <3>3. ds[p] = cs[p + 1] /\ ds[p + 1] = cs[p] /\ cs[p] # cs[p + 1]
          /\ Kind(cs[p]) = Kind(cs[p + 1])
      BY <1>6, <2>1
    <3>4. Len(ds) = Len(cs)
      BY <1>1, <1>2
    <3> QED BY <1>1, <1>2, <3>1, <3>2, <3>3, <3>4, NeighboursTell
  <2>2. CASE p = n /\ q = 1
    <3>1. \A j \in 2..(n - 1) : ds[j] = cs[j]
      BY <1>0, <1>5, <2>2
    <3>2. ds[1] = cs[n] /\ ds[n] = cs[1] /\ cs[1] # cs[n] /\ Kind(cs[1]) = Kind(cs[n])
      BY <1>6, <2>2
    <3>3. n \in 2..LongestIBAN
      BY DEF LongestIBAN
    <3> QED BY <1>1, <1>2, <3>1, <3>2, <3>3, EndsTell
  <2> QED BY <1>4, <2>1, <2>2
<1> QED BY <1>7 DEF cs, ds

-----------------------------------------------------------------------------
\* Whatever passes the mod-97 check is a text of digits and capitals.
LEMMA OnlyLetters ==
  ASSUME NEW iban \in Seq(Normal), \A i \in DOMAIN iban : iban[i] \in Letter
  PROVE  iban \in Seq(Letter)
<1>1. iban \in [1..Len(iban) -> Letter] /\ Len(iban) \in Nat
  BY LenProperties
<1> QED BY <1>1, SeqDef

LEMMA PassesIf ==
  ASSUME NEW t \in Seq(Char), NEW iban \in Seq(Letter), normalizedIBAN(t) = iban
  PROVE  validIBANMod97(t) <=> Len(iban) >= 4 /\ Remainder(Rotated(iban)) = 1
<1>1. \A i \in DOMAIN iban : iban[i] \in Digit \cup Capital
  BY ElementOfSeq, LenProperties DEF Letter
<1> QED BY <1>1 DEF validIBANMod97

\* For every candidate the loop of validIBANMod97 decides by the remainder of
\* the whole number that the rotated text spells.
THEOREM RemainderIsTheNumbers == Spec => []RemainderIsOfWholeNumber
<1>1. text \in Seq(Char) => RemainderIsOfWholeNumber
  <2> SUFFICES ASSUME text \in Seq(Char), NEW iban, iban = normalizedIBAN(text),
                      Len(iban) >= 4, \A i \in DOMAIN iban : iban[i] # Hyphen
               PROVE  validIBANMod97(text) <=> Number(Spelled(Rotated(iban))) % 97 = 1
    BY DEF RemainderIsOfWholeNumber
  <2>1. iban \in Seq(Normal)
    BY NormalGrows
  <2>2. iban \in Seq(Letter)
    <3>1. \A i \in DOMAIN iban : iban[i] \in Normal
      BY <2>1, ElementOfSeq, LenProperties
    <3>2. \A i \in DOMAIN iban : iban[i] \in Letter
      BY <3>1 DEF Normal, Letter
    <3> QED BY <2>1, <3>2, OnlyLetters
  <2>3. Remainder(Rotated(iban)) = Number(Spelled(Rotated(iban))) % 97
    BY <2>2, RotatedText, RemainderOfSpelled
  <2> QED BY <2>2, <2>3, PassesIf
<1> QED BY <1>1, CandidateType, PTL

\* validIBANMod97 rejects every text, no longer than the longest IBAN, that differs
\* from an accepted one by one wrong character of the same kind or two exchanged
\* neighbours of one kind.
THEOREM IBANCatchesEverySlip == Spec => []IBANCatchesSlips
<1>1. text \in Seq(Char) => IBANCatchesSlips
  <2> SUFFICES ASSUME text \in Seq(Char), NEW iban, iban = normalizedIBAN(text),
                      validIBANMod97(text), Len(iban) <= LongestIBAN
               PROVE  /\ \A i \in DOMAIN iban : \A c \in Kind(iban[i]) \ {iban[i]} :
                           ~validIBANMod97([iban EXCEPT ![i] = c])
                      /\ \A i \in 1..(Len(iban) - 1) :
                           Kind(iban[i]) = Kind(iban[i + 1]) /\ iban[i] # iban[i + 1]
                             => ~validIBANMod97(Swap(iban, i))
    BY DEF IBANCatchesSlips
  <2>1. iban \in Seq(Letter)
    <3>1. iban \in Seq(Normal)
      BY NormalGrows
    <3>2. \A i \in DOMAIN iban : iban[i] \in Letter
      BY DEF validIBANMod97, Letter
    <3> QED BY <3>1, <3>2, OnlyLetters
  <2>2. Len(iban) >= 4 /\ Remainder(Rotated(iban)) = 1
    BY <2>1, PassesIf
  <2> DEFINE n == Len(iban)
  <2>3. n \in Nat /\ n >= 4 /\ n \in 4..LongestIBAN /\ DOMAIN iban = 1..n
    <3>1. n \in Nat /\ DOMAIN iban = 1..n
      BY <2>1, LenProperties
    <3>0. n >= 4 /\ n <= LongestIBAN
      BY <2>2
    <3> HIDE DEF n
    <3>2. n \in 4..LongestIBAN
      BY <3>0, <3>1 DEF LongestIBAN
    <3> QED BY <3>0, <3>1, <3>2
  <2>4. ASSUME NEW other \in Seq(Letter), Remainder(Rotated(other)) # 1
        PROVE  ~validIBANMod97(other)
    <3>1. other \in Seq(Char) /\ normalizedIBAN(other) = other
      BY LettersAreNormal
    <3> QED BY <2>4, <3>1, PassesIf
  <2>5. ASSUME NEW i \in DOMAIN iban, NEW c \in Kind(iban[i]) \ {iban[i]}
        PROVE  ~validIBANMod97([iban EXCEPT ![i] = c])
    <3> DEFINE other == [iban EXCEPT ![i] = c]
    <3>1. i \in 1..n /\ iban[i] \in Letter
      BY <2>1, <2>3, ElementOfSeq
    <3>2. c \in Letter /\ Width(c) = Width(iban[i]) /\ c # iban[i]
      <4>1. 0 \in Digit /\ \A d \in Digit : d \notin Capital
        BY DEF Digit, Capital
      <4> QED BY <3>1, <4>1 DEF Kind, Letter, Width
    <3>3. other \in Seq(Letter) /\ Len(other) = n /\ other[i] = c
          /\ \A j \in 1..n : j # i => other[j] = iban[j]
      BY <2>1, <3>1, <3>2, ExceptSeq
    <3> HIDE DEF other
    <3>4. Remainder(Rotated(other)) # Remainder(Rotated(iban))
      BY <2>1, <2>3, <3>1, <3>2, <3>3, WrongCharacterIsCaught
    <3>5. ~validIBANMod97(other)
      BY <2>2, <2>4, <3>3, <3>4
    <3> QED BY <3>5 DEF other
  <2>6. ASSUME NEW i \in 1..(n - 1), Kind(iban[i]) = Kind(iban[i + 1]), iban[i] # iban[i + 1]
        PROVE  ~validIBANMod97(Swap(iban, i))
    <3> DEFINE other == Swap(iban, i)
    <3>1. i \in 1..n /\ i + 1 \in 1..n /\ i # i + 1
      BY <2>3
    <3>2. iban[i] \in Letter /\ iban[i + 1] \in Letter
      BY <2>1, <3>1, ElementOfSeq
    <3>3. other \in Seq(Letter) /\ Len(other) = n /\ other[i] = iban[i + 1] /\ other[i + 1] = iban[i]
          /\ \A j \in 1..n : j \notin {i, i + 1} => other[j] = iban[j]
      <4> DEFINE once == [iban EXCEPT ![i] = iban[i + 1]]
      <4>1. once \in Seq(Letter) /\ Len(once) = n /\ once[i] = iban[i + 1]
            /\ \A j \in 1..n : j # i => once[j] = iban[j]
        BY <2>1, <3>1, <3>2, ExceptSeq
      <4>2. other = [once EXCEPT ![i + 1] = iban[i]]
        BY <3>1 DEF Swap
      <4> HIDE DEF once, other
      <4>3. other \in Seq(Letter) /\ Len(other) = n /\ other[i + 1] = iban[i]
            /\ \A j \in 1..n : j # i + 1 => other[j] = once[j]
        BY <3>1, <3>2, <4>1, <4>2, ExceptSeq
      <4> QED BY <3>1, <4>1, <4>3
    <3> HIDE DEF other
    <3>4. Remainder(Rotated(other)) # Remainder(Rotated(iban))
      BY <2>1, <2>3, <2>6, <3>3, ExchangeIsCaught, SMTT(30)
    <3>5. ~validIBANMod97(other)
      BY <2>2, <2>4, <3>3, <3>4
    <3> QED BY <3>5 DEF other
  <2> QED BY <2>5, <2>6
<1> QED BY <1>1, CandidateType, PTL
=============================================================================
