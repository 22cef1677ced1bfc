------------------------ MODULE RequestMaskingProofs ------------------------
(***************************************************************************)
(* From the JSON text of a request to its masked bytes: for a string of    *)
(* any length, of any characters, with JSON nested in it or not, and for   *)
(* any findings, a finding covers in the body exactly the characters that  *)
(* spell it, none is lost, and no character is starred in part.            *)
(*                                                                         *)
(* Where a span begins and ends is no invariant of one state variable: it  *)
(* follows from the ranges of the first and the last byte of a character   *)
(* (OuterEdges), for the nested string from the outer characters at the    *)
(* edges of each of its own (LeafEdges), and both hold because a parser    *)
(* only ever stands between two characters.  The parser's invariant and    *)
(* the one of maskBody (MaskInv) meet in scanRequestBody, which turns      *)
(* matches into spans.                                                     *)
(***************************************************************************)
EXTENDS RequestMasking, FiniteSetTheorems, SequenceTheorems, TLAPS

-----------------------------------------------------------------------------
(***************************************************************************)
(* maskBody stars out exactly the covered bytes, for a body and a list of  *)
(* findings of any size, and never slices the body out of order.           *)
(***************************************************************************)
Spans == [start : Nat, end : Nat]

\* The merged spans are apart, and none that is still to come starts before
\* the last of them.
Apart == \A i, j \in 1..Len(merged) : i < j => merged[i].end < merged[j].start

StillToCome ==
  \A i \in 1..Len(spans) : taken < i => merged[Len(merged)].start <= spans[i].start

\* What has been written is the masked prefix of the body.
Prefix ==
  /\ Len(out) = pos
  /\ \A p \in 1..pos : out[p] = IF Covered(merged, Len(merged), p) THEN 0 ELSE p

MaskTypes ==
  /\ size \in Nat
  /\ spans \in Seq(Spans) /\ merged \in Seq(Spans)
  /\ Len(spans) \in Nat /\ Len(merged) \in Nat \ {0}
  /\ taken \in 1..Len(spans) /\ written \in 0..Len(merged)
  /\ out \in Seq(Nat) /\ done \in BOOLEAN
  /\ \A i \in 1..Len(spans) : InBody(spans[i], size)
  /\ \A i \in 1..Len(merged) : InBody(merged[i], size)
  /\ \A i, j \in 1..Len(spans) : i < j => spans[i].start <= spans[j].start

\* The inductive invariant.
MaskInv ==
  /\ MaskTypes
  /\ Apart /\ StillToCome /\ MergeKeepsCover
  /\ written > 0 => taken = Len(spans)
  /\ pos = IF written = 0 THEN 0 ELSE merged[written].end
  /\ ~done => Prefix
  /\ done => written = Len(merged) /\ taken = Len(spans)
  /\ MasksExactly

-----------------------------------------------------------------------------
\* The merge loop as maskBody enters it, with the findings sorted.
Entered ==
  /\ size \in Nat /\ spans \in Seq(Spans) /\ Len(spans) \in Nat \ {0}
  /\ \A i \in 1..Len(spans) : InBody(spans[i], size)
  /\ SortedByStart(spans)
  /\ taken = 1 /\ merged = <<spans[1]>>
  /\ written = 0 /\ pos = 0 /\ out = <<>> /\ done = FALSE

LEMMA MaskEnter == Entered => MaskInv
<1> SUFFICES ASSUME Entered PROVE MaskInv
  OBVIOUS
<1>1. spans[1] \in Spans /\ InBody(spans[1], size)
  BY DEF Entered
<1>2. merged \in Seq(Spans) /\ Len(merged) = 1 /\ merged[1] = spans[1]
  BY <1>1 DEF Entered
<1>3. \A i, j \in 1..Len(spans) : i < j => spans[i].start <= spans[j].start
  <2>1. DOMAIN spans = 1..Len(spans)
    BY LenProperties DEF Entered
  <2> QED BY <2>1 DEF Entered, SortedByStart
<1>4. \A i \in 1..Len(merged) : InBody(merged[i], size)
  BY <1>1, <1>2
<1>5. out \in Seq(Nat)
  BY EmptySeq DEF Entered
<1>6. MaskTypes
  <2>1. Len(spans) \in Nat \ {0} /\ taken = 1 /\ written = 0 /\ done = FALSE
    BY DEF Entered
  <2>2. taken \in 1..Len(spans) /\ written \in 0..Len(merged) /\ Len(merged) \in Nat \ {0}
    BY <1>2, <2>1
  <2>3. done \in BOOLEAN
    BY <2>1
  <2>4. size \in Nat /\ spans \in Seq(Spans) /\ \A i \in 1..Len(spans) : InBody(spans[i], size)
    BY DEF Entered
  <2> QED BY <1>2, <1>3, <1>4, <1>5, <2>1, <2>2, <2>3, <2>4 DEF MaskTypes
<1>7. Apart /\ StillToCome /\ MergeKeepsCover
  <2>1. taken = 1 /\ Len(spans) \in Nat \ {0}
    BY DEF Entered
  <2>2. Apart
    BY <1>2 DEF Apart
  <2>3. StillToCome
    BY <1>2, <1>3, <2>1 DEF StillToCome
  <2>4. MergeKeepsCover
    BY <1>2, <2>1 DEF MergeKeepsCover, Covered
  <2> QED BY <2>2, <2>3, <2>4
<1>8. Prefix /\ MasksExactly
  BY DEF Entered, Prefix, MasksExactly
<1> QED BY <1>6, <1>7, <1>8 DEF Entered, MaskInv

LEMMA MaskInit == Init => MaskInv
<1> SUFFICES ASSUME Init PROVE Entered
  BY MaskEnter
<1>1. PICK n \in 1..MaxSpans : spans \in [1..n -> {s \in Span : InBody(s, size)}]
  BY DEF Init
<1>2. /\ size \in Nat /\ n \in Nat \ {0} /\ \A i \in 1..n : spans[i] \in Spans
      /\ \A i \in 1..n : InBody(spans[i], size)
  BY <1>1, MaskingAssumption DEF Init, Span, Spans
<1>3. spans \in Seq(Spans) /\ Len(spans) = n
  BY <1>1, <1>2
<1>4. \A i \in 1..Len(spans) : InBody(spans[i], size)
  BY <1>2, <1>3
<1> QED BY <1>2, <1>3, <1>4 DEF Init, Entered

\* The merge loop.
LEMMA MaskTake ==
  ASSUME MaskInv, Take
  PROVE  MaskInv'
<1> DEFINE s == spans[taken + 1]
           last == Len(merged)
<1>0. /\ MaskTypes /\ Apart /\ StillToCome /\ MergeKeepsCover
      /\ written = 0 /\ pos = 0 /\ ~done /\ Prefix
      /\ taken < Len(spans) /\ taken' = taken + 1
      /\ size' = size /\ spans' = spans /\ written' = written /\ pos' = pos
      /\ out' = out /\ done' = done
  BY DEF MaskInv, Take, MaskTypes
<1>1. /\ s \in Spans /\ InBody(s, size) /\ taken + 1 \in 1..Len(spans)
      /\ last \in Nat \ {0} /\ merged[last] \in Spans /\ InBody(merged[last], size)
      /\ merged[last].start <= s.start /\ size \in Nat
  BY <1>0 DEF MaskTypes, StillToCome
<1>a. /\ s.start \in Nat /\ s.end \in Nat /\ s.start < s.end /\ s.end <= size
      /\ merged[last].start \in Nat /\ merged[last].end \in Nat
      /\ merged[last].start < merged[last].end /\ merged[last].end <= size
  BY <1>1 DEF Spans, InBody
<1>2. \A p : Covered(spans, taken + 1, p) <=>
               Covered(spans, taken, p) \/ (s.start < p /\ p <= s.end)
  BY <1>0, <1>1 DEF Covered, MaskTypes
<1>3. ASSUME /\ merged' \in Seq(Spans) /\ Len(merged') \in Nat \ {0}
             /\ \A i \in 1..Len(merged') : InBody(merged'[i], size)
             /\ Apart' /\ merged'[Len(merged')].start <= s.start
             /\ \A p \in 1..size : Covered(merged', Len(merged'), p) <=>
                  Covered(merged, last, p) \/ (s.start < p /\ p <= s.end)
      PROVE  MaskInv'
  <2>1. MaskTypes'
    BY <1>0, <1>1, <1>3 DEF MaskTypes
  <2>2. StillToCome'
    <3> SUFFICES ASSUME NEW i \in 1..Len(spans), taken + 1 < i
                 PROVE  merged'[Len(merged')].start <= spans[i].start
      BY <1>0 DEF StillToCome
    <3>1. s.start <= spans[i].start
      BY <1>0, <1>1 DEF MaskTypes
    <3>2. spans[i] \in Spans /\ merged'[Len(merged')] \in Spans
      BY <1>0, <1>3 DEF MaskTypes
    <3>3. spans[i].start \in Nat /\ merged'[Len(merged')].start \in Nat
      BY <3>2 DEF Spans
    <3>4. merged'[Len(merged')].start <= s.start /\ s.start \in Nat
      BY <1>a, <1>3
    <3> QED BY <3>1, <3>3, <3>4
  <2>3. MergeKeepsCover'
    BY <1>0, <1>2, <1>3 DEF MergeKeepsCover
  <2>4. Prefix' /\ MasksExactly'
    BY <1>0 DEF Prefix, MasksExactly
  <2> QED BY <1>0, <1>3, <2>1, <2>2, <2>3, <2>4 DEF MaskInv
<1>4. CASE s.start > merged[last].end
  <2>1. merged' = Append(merged, s)
    BY <1>4 DEF Take
  <2>2. /\ merged' \in Seq(Spans) /\ Len(merged') = last + 1
        /\ \A i \in 1..last : merged'[i] = merged[i]
        /\ merged'[last + 1] = s
    BY <1>0, <1>1, <2>1 DEF MaskTypes
  <2>3. \A i \in 1..last : merged[i].end <= merged[last].end
    <3> SUFFICES ASSUME NEW i \in 1..last PROVE merged[i].end <= merged[last].end
      OBVIOUS
    <3>1. merged[i] \in Spans
      BY <1>0 DEF MaskTypes
    <3>2. CASE i = last BY <1>1, <3>2 DEF Spans
    <3>3. CASE i < last
      <4>1. merged[i].end < merged[last].start
        BY <1>0, <1>1, <3>3 DEF Apart
      <4> QED BY <1>1, <3>1, <4>1 DEF Spans, InBody
    <3> QED BY <1>1, <3>2, <3>3
  <2>4. Apart'
    <3> SUFFICES ASSUME NEW i \in 1..(last + 1), NEW j \in 1..(last + 1), i < j
                 PROVE  merged'[i].end < merged'[j].start
      BY <2>2 DEF Apart
    <3>1. CASE j = last + 1
      <4>1. i \in 1..last /\ merged[i] \in Spans /\ merged'[i] = merged[i] /\ merged'[j] = s
        BY <1>0, <1>1, <2>2, <3>1 DEF MaskTypes
      <4>2. merged[i].end <= merged[last].end /\ merged[i].end \in Nat
        BY <2>3, <4>1 DEF Spans
      <4>3. merged[i].end < s.start
        BY <1>a, <1>4, <4>2
      <4> QED BY <4>1, <4>3
    <3>2. CASE j # last + 1
      <4>1. i \in 1..last /\ j \in 1..last
        BY <1>1, <3>2
      <4>2. merged'[i] = merged[i] /\ merged'[j] = merged[j]
        BY <2>2, <4>1
      <4> QED BY <1>0, <4>1, <4>2 DEF Apart
    <3> QED BY <3>1, <3>2
  <2>5. \A i \in 1..Len(merged') : InBody(merged'[i], size)
    <3>1. \A i \in 1..last : InBody(merged[i], size)
      BY <1>0 DEF MaskTypes
    <3>2. \A i \in 1..(last + 1) : i \in 1..last \/ i = last + 1
      BY <1>1
    <3> QED BY <1>1, <2>2, <3>1, <3>2
  <2>6. \A p : Covered(merged', last + 1, p) <=>
                 Covered(merged, last, p) \/ (s.start < p /\ p <= s.end)
    BY <1>1, <2>2 DEF Covered
  <2>7. merged'[Len(merged')].start <= s.start
    BY <1>1, <2>2 DEF Spans
  <2> QED BY <1>1, <1>3, <2>2, <2>4, <2>5, <2>6, <2>7
<1>5. CASE ~(s.start > merged[last].end) /\ s.end > merged[last].end
  <2> DEFINE wide == [merged[last] EXCEPT !.end = s.end]
  <2>1. merged' = [merged EXCEPT ![last] = wide]
    BY <1>5 DEF Take
  <2>2. wide \in Spans /\ wide.start = merged[last].start /\ wide.end = s.end
    BY <1>1 DEF Spans
  <2> HIDE DEF wide
  <2>3. /\ merged' \in Seq(Spans) /\ Len(merged') = last
        /\ \A i \in 1..last : merged'[i] = IF i = last THEN wide ELSE merged[i]
    BY <1>0, <1>1, <2>1, <2>2 DEF MaskTypes
  <2>4. Apart'
    <3> SUFFICES ASSUME NEW i \in 1..last, NEW j \in 1..last, i < j
                 PROVE  merged'[i].end < merged'[j].start
      BY <2>3 DEF Apart
    <3>1. merged'[i] = merged[i] /\ merged'[j].start = merged[j].start
      BY <1>1, <2>2, <2>3
    <3> QED BY <1>0, <3>1 DEF Apart
  <2>5. \A i \in 1..Len(merged') : InBody(merged'[i], size)
    <3> SUFFICES ASSUME NEW i \in 1..last PROVE InBody(merged'[i], size)
      BY <2>3
    <3>1. CASE i = last
      <4>1. merged'[i] = wide
        BY <1>1, <2>3, <3>1
      <4>2. wide.start < wide.end /\ wide.end <= size
        BY <1>1, <1>5, <1>a, <2>2
      <4> QED BY <4>1, <4>2 DEF InBody
    <3>2. CASE i # last
      BY <1>0, <2>3, <3>2 DEF MaskTypes
    <3> QED BY <3>1, <3>2
  <2>6. ASSUME NEW p \in 1..size
        PROVE  Covered(merged', last, p) <=> Covered(merged, last, p) \/ (s.start < p /\ p <= s.end)
    <3>1. merged[last].start < p /\ p <= s.end <=>
            \/ merged[last].start < p /\ p <= merged[last].end
            \/ s.start < p /\ p <= s.end
      BY <1>1, <1>5, <1>a
    <3>2. Covered(merged', last, p) <=>
            \/ \E i \in 1..last : i # last /\ merged[i].start < p /\ p <= merged[i].end
            \/ merged[last].start < p /\ p <= s.end
      BY <1>1, <2>2, <2>3 DEF Covered
    <3>3. Covered(merged, last, p) <=>
            \/ \E i \in 1..last : i # last /\ merged[i].start < p /\ p <= merged[i].end
            \/ merged[last].start < p /\ p <= merged[last].end
      BY <1>1 DEF Covered
    <3> QED BY <3>1, <3>2, <3>3
  <2>7. merged'[Len(merged')].start <= s.start
    BY <1>1, <2>2, <2>3
  <2> QED BY <1>1, <1>3, <2>3, <2>4, <2>5, <2>6, <2>7
<1>6. CASE ~(s.start > merged[last].end) /\ ~(s.end > merged[last].end)
  <2>1. merged' = merged
    BY <1>6 DEF Take
  <2>2. ASSUME NEW p \in 1..size
        PROVE  Covered(merged', last, p) <=> Covered(merged, last, p) \/ (s.start < p /\ p <= s.end)
    <3>1. s.start < p /\ p <= s.end => merged[last].start < p /\ p <= merged[last].end
      BY <1>1, <1>6, <1>a
    <3> QED BY <1>1, <2>1, <3>1 DEF Covered
  <2> QED BY <1>0, <1>1, <1>3, <2>1, <2>2 DEF MaskTypes, Apart
<1> QED BY <1>4, <1>5, <1>6

\* The write loop.
LEMMA MergedFacts ==
  ASSUME MaskInv, NEW i \in 1..Len(merged)
  PROVE  /\ merged[i].start \in Nat /\ merged[i].end \in Nat
         /\ merged[i].start < merged[i].end /\ merged[i].end <= size
<1>1. merged[i] \in Spans /\ InBody(merged[i], size)
  BY DEF MaskInv, MaskTypes
<1> QED BY <1>1 DEF InBody, Spans

\* A byte between two merged spans is covered by none, one inside a span is.
LEMMA GapFacts ==
  ASSUME MaskInv, NEW w \in 0..Len(merged), NEW p \in Nat,
         w > 0 => merged[w].end < p
  PROVE  /\ w < Len(merged) /\ p <= merged[w + 1].start => ~Covered(merged, Len(merged), p)
         /\ w = Len(merged) => ~Covered(merged, Len(merged), p)
<1>0. Len(merged) \in Nat \ {0}
  BY DEF MaskInv, MaskTypes
<1>1. ASSUME NEW i \in 1..Len(merged), i <= w PROVE ~(p <= merged[i].end)
  <2>1. w \in 1..Len(merged) /\ merged[w].end < p
    BY <1>0, <1>1
  <2>2. merged[i].end <= merged[w].end
    <3>1. CASE i = w
      BY <2>1, <3>1, MergedFacts
    <3>2. CASE i < w
      <4>1. merged[i].end < merged[w].start
        BY <2>1, <3>2 DEF MaskInv, Apart
      <4>2. /\ merged[i].end \in Nat /\ merged[w].start \in Nat /\ merged[w].end \in Nat
            /\ merged[w].start < merged[w].end
        BY <2>1, MergedFacts
      <4> QED BY <4>1, <4>2
    <3> QED BY <1>0, <1>1, <2>1, <3>1, <3>2
  <2>3. merged[i].end \in Nat /\ merged[w].end \in Nat
    BY <2>1, MergedFacts
  <2> QED BY <2>1, <2>2, <2>3
<1>2. ASSUME NEW i \in 1..Len(merged), w < i, w < Len(merged), p <= merged[w + 1].start
      PROVE  ~(merged[i].start < p)
  <2>1. w + 1 \in 1..Len(merged)
    BY <1>0, <1>2
  <2>2. merged[w + 1].start <= merged[i].start
    <3>1. CASE i = w + 1
      BY <2>1, <3>1, MergedFacts
    <3>2. CASE w + 1 < i
      <4>1. merged[w + 1].end < merged[i].start
        BY <2>1, <3>2 DEF MaskInv, Apart
      <4>2. /\ merged[w + 1].end \in Nat /\ merged[w + 1].start \in Nat /\ merged[i].start \in Nat
            /\ merged[w + 1].start < merged[w + 1].end
        BY <2>1, MergedFacts
      <4> QED BY <4>1, <4>2
    <3> QED BY <1>0, <1>2, <3>1, <3>2
  <2>3. merged[w + 1].start \in Nat /\ merged[i].start \in Nat
    BY <2>1, MergedFacts
  <2> QED BY <1>2, <2>2, <2>3
<1> QED BY <1>0, <1>1, <1>2 DEF Covered

\* A concatenation, position by position.
LEMMA Joined ==
  ASSUME NEW a \in Seq(Nat), NEW b \in Seq(Nat)
  PROVE  /\ a \o b \in Seq(Nat) /\ Len(a \o b) = Len(a) + Len(b)
         /\ \A p \in 1..Len(a) : (a \o b)[p] = a[p]
         /\ \A p \in (Len(a) + 1)..(Len(a) + Len(b)) : (a \o b)[p] = b[p - Len(a)]
  BY ConcatProperties

LEMMA BytesFacts ==
  ASSUME NEW from \in Nat, NEW to \in Nat, from <= to
  PROVE  /\ Bytes(from, to) \in Seq(Nat) /\ Len(Bytes(from, to)) = to - from
         /\ \A i \in 1..(to - from) : Bytes(from, to)[i] = from + i
  BY DEF Bytes

LEMMA StarsFacts ==
  ASSUME NEW n \in Nat
  PROVE  /\ Stars(n) \in Seq(Nat) /\ Len(Stars(n)) = n
         /\ \A i \in 1..n : Stars(n)[i] = 0
  BY DEF Stars

\* What out is after body[from:to] was appended.
LEMMA Copied ==
  ASSUME NEW o \in Seq(Nat), NEW to \in Nat, Len(o) <= to
  PROVE  /\ o \o Bytes(Len(o), to) \in Seq(Nat) /\ Len(o \o Bytes(Len(o), to)) = to
         /\ \A p \in 1..Len(o) : (o \o Bytes(Len(o), to))[p] = o[p]
         /\ \A p \in (Len(o) + 1)..to : (o \o Bytes(Len(o), to))[p] = p
<1> DEFINE b == Bytes(Len(o), to)
<1>1. b \in Seq(Nat) /\ Len(b) = to - Len(o)
  BY BytesFacts
<1>2. \A i \in 1..(to - Len(o)) : b[i] = Len(o) + i
  BY BytesFacts
<1> HIDE DEF b
<1>3. /\ o \o b \in Seq(Nat) /\ Len(o \o b) = Len(o) + Len(b)
      /\ \A p \in 1..Len(o) : (o \o b)[p] = o[p]
      /\ \A p \in (Len(o) + 1)..(Len(o) + Len(b)) : (o \o b)[p] = b[p - Len(o)]
  BY <1>1, Joined
<1>4. Len(o) + Len(b) = to
  BY <1>1
<1>5. \A p \in (Len(o) + 1)..to : p - Len(o) \in 1..(to - Len(o)) /\ Len(o) + (p - Len(o)) = p
  OBVIOUS
<1>6. \A p \in (Len(o) + 1)..to : (o \o b)[p] = p
  BY <1>2, <1>3, <1>4, <1>5
<1> QED BY <1>3, <1>4, <1>6 DEF b

\* What out is after a run of stars was appended.
LEMMA Starred ==
  ASSUME NEW o \in Seq(Nat), NEW n \in Nat
  PROVE  /\ o \o Stars(n) \in Seq(Nat) /\ Len(o \o Stars(n)) = Len(o) + n
         /\ \A p \in 1..Len(o) : (o \o Stars(n))[p] = o[p]
         /\ \A p \in (Len(o) + 1)..(Len(o) + n) : (o \o Stars(n))[p] = 0
<1> DEFINE s == Stars(n)
<1>1. s \in Seq(Nat) /\ Len(s) = n /\ \A i \in 1..n : s[i] = 0
  BY StarsFacts
<1> HIDE DEF s
<1>2. /\ o \o s \in Seq(Nat) /\ Len(o \o s) = Len(o) + n
      /\ \A p \in 1..Len(o) : (o \o s)[p] = o[p]
      /\ \A p \in (Len(o) + 1)..(Len(o) + n) : (o \o s)[p] = s[p - Len(o)]
  BY <1>1, Joined
<1>3. \A p \in (Len(o) + 1)..(Len(o) + n) : p - Len(o) \in 1..n
  OBVIOUS
<1>4. \A p \in (Len(o) + 1)..(Len(o) + n) : (o \o s)[p] = 0
  BY <1>1, <1>2, <1>3
<1> QED BY <1>2, <1>4 DEF s

\* The offset the write loop stands at never passes the next span.
LEMMA SlicesFollow == MaskInv => SlicesInOrder
<1> SUFFICES ASSUME MaskInv PROVE SlicesInOrder
  OBVIOUS
<1>0. Len(merged) \in Nat \ {0} /\ written \in 0..Len(merged) /\ size \in Nat
      /\ pos = IF written = 0 THEN 0 ELSE merged[written].end
  BY DEF MaskInv, MaskTypes
<1>1. pos <= size /\ pos \in Nat
  BY <1>0, MergedFacts
<1>2. ASSUME written < Len(merged) PROVE pos <= merged[written + 1].start
  <2>1. written + 1 \in 1..Len(merged) /\ merged[written + 1].start \in Nat
    BY <1>0, <1>2, MergedFacts
  <2>2. CASE written = 0
    BY <1>0, <2>1, <2>2
  <2>3. CASE written # 0
    <3>1. merged[written].end < merged[written + 1].start /\ merged[written].end \in Nat
      BY <1>0, <2>1, <2>3, MergedFacts DEF MaskInv, Apart
    <3> QED BY <1>0, <2>1, <2>3, <3>1
  <2> QED BY <2>2, <2>3
<1> QED BY <1>1, <1>2 DEF SlicesInOrder

LEMMA MaskStar ==
  ASSUME MaskInv, Star
  PROVE  MaskInv'
<1> DEFINE s == merged[written + 1]
           v == out \o Bytes(pos, s.start)
           k == s.end - s.start
<1>0. /\ MaskTypes /\ Apart /\ StillToCome /\ MergeKeepsCover
      /\ taken = Len(spans) /\ written < Len(merged) /\ ~done
      /\ Prefix /\ pos = IF written = 0 THEN 0 ELSE merged[written].end
      /\ size' = size /\ spans' = spans /\ taken' = taken /\ merged' = merged /\ done' = done
      /\ out' = v \o Stars(k) /\ pos' = s.end /\ written' = written + 1
  BY DEF MaskInv, Star
<1>1. /\ Len(merged) \in Nat \ {0} /\ written \in Nat /\ written + 1 \in 1..Len(merged)
      /\ out \in Seq(Nat) /\ Len(out) = pos
  BY <1>0 DEF MaskTypes, Prefix
<1>2. /\ s.start \in Nat /\ s.end \in Nat /\ s.start < s.end /\ s.end <= size
  BY <1>1, MergedFacts
<1>3. pos \in Nat /\ pos <= s.start
  BY <1>0, <1>1, SlicesFollow DEF SlicesInOrder
<1> HIDE DEF s
<1>4. /\ v \in Seq(Nat) /\ Len(v) = s.start
      /\ \A p \in 1..pos : v[p] = out[p]
      /\ \A p \in (pos + 1)..s.start : v[p] = p
  <2> DEFINE to == s.start
  <2>1. out \in Seq(Nat) /\ to \in Nat /\ Len(out) <= to
    BY <1>1, <1>2, <1>3
  <2> HIDE DEF to
  <2>2. /\ out \o Bytes(Len(out), to) \in Seq(Nat) /\ Len(out \o Bytes(Len(out), to)) = to
        /\ \A p \in 1..Len(out) : (out \o Bytes(Len(out), to))[p] = out[p]
        /\ \A p \in (Len(out) + 1)..to : (out \o Bytes(Len(out), to))[p] = p
    BY <2>1, Copied
  <2>3. v = out \o Bytes(Len(out), to) /\ to = s.start /\ Len(out) = pos
    BY <1>1 DEF to
  <2> HIDE DEF v
  <2> QED BY <2>2, <2>3
<1> HIDE DEF v
<1>5. k \in Nat /\ s.start + k = s.end
  BY <1>2
<1> HIDE DEF k
<1>6. /\ out' \in Seq(Nat) /\ Len(out') = s.end
      /\ \A p \in 1..s.start : out'[p] = v[p]
      /\ \A p \in (s.start + 1)..s.end : out'[p] = 0
  <2>1. /\ v \o Stars(k) \in Seq(Nat) /\ Len(v \o Stars(k)) = Len(v) + k
        /\ \A p \in 1..Len(v) : (v \o Stars(k))[p] = v[p]
        /\ \A p \in (Len(v) + 1)..(Len(v) + k) : (v \o Stars(k))[p] = 0
    BY <1>4, <1>5, Starred
  <2>2. out' = v \o Stars(k) /\ Len(v) = s.start /\ Len(v) + k = s.end
    BY <1>0, <1>4, <1>5
  <2> QED BY <2>1, <2>2
<1>7. \A p \in (pos + 1)..s.start : ~Covered(merged, Len(merged), p)
  <2> SUFFICES ASSUME NEW p \in (pos + 1)..s.start
               PROVE  ~Covered(merged, Len(merged), p)
    OBVIOUS
  <2>1. p \in Nat /\ p <= s.start /\ pos < p
    BY <1>2, <1>3
  <2>2. written > 0 => merged[written].end < p
    BY <1>0, <1>1, <2>1
  <2>3. written \in 0..Len(merged)
    BY <1>0, <1>1
  <2> QED BY <1>0, <2>1, <2>2, <2>3, GapFacts DEF s
<1>8. \A p \in (s.start + 1)..s.end : Covered(merged, Len(merged), p)
  <2> SUFFICES ASSUME NEW p \in (s.start + 1)..s.end
               PROVE  Covered(merged, Len(merged), p)
    OBVIOUS
  <2>1. s.start < p /\ p <= s.end
    BY <1>2
  <2> QED BY <1>1, <2>1 DEF Covered, s
<1>9. Prefix'
  <2> SUFFICES ASSUME NEW p \in 1..s.end
               PROVE  out'[p] = IF Covered(merged, Len(merged), p) THEN 0 ELSE p
    BY <1>0, <1>6 DEF Prefix
  <2>1. CASE p <= pos
    <3>1. p \in 1..pos /\ p \in 1..s.start
      BY <1>2, <1>3, <2>1
    <3> QED BY <1>0, <1>4, <1>6, <3>1 DEF Prefix
  <2>2. CASE pos < p /\ p <= s.start
    <3>1. p \in (pos + 1)..s.start /\ p \in 1..s.start
      BY <1>2, <1>3, <2>2
    <3> QED BY <1>4, <1>6, <1>7, <3>1
  <2>3. CASE s.start < p
    <3>1. p \in (s.start + 1)..s.end
      BY <1>2, <2>3
    <3> QED BY <1>6, <1>8, <3>1
  <2> QED BY <1>2, <1>3, <2>1, <2>2, <2>3
<1>10. MaskTypes'
  <2>1. written' \in 0..Len(merged)
    BY <1>0, <1>1
  <2> QED BY <1>0, <1>6, <2>1 DEF MaskTypes
<1>11. Apart' /\ StillToCome' /\ MergeKeepsCover' /\ MasksExactly'
  BY <1>0 DEF Apart, StillToCome, MergeKeepsCover, MasksExactly
<1>12. pos' = IF written' = 0 THEN 0 ELSE merged'[written'].end
  BY <1>0, <1>1 DEF s
<1> QED BY <1>0, <1>9, <1>10, <1>11, <1>12 DEF MaskInv

LEMMA MaskFinish ==
  ASSUME MaskInv, Finish
  PROVE  MaskInv'
<1>0. /\ MaskTypes /\ Apart /\ StillToCome /\ MergeKeepsCover
      /\ taken = Len(spans) /\ written = Len(merged) /\ ~done
      /\ Prefix /\ pos = IF written = 0 THEN 0 ELSE merged[written].end
      /\ UNCHANGED <<size, spans, taken, merged, written, pos>>
      /\ done' = TRUE /\ out' = out \o Bytes(pos, size)
  BY DEF MaskInv, Finish
<1>1. /\ Len(merged) \in Nat \ {0} /\ size \in Nat /\ written \in 0..Len(merged)
      /\ out \in Seq(Nat) /\ Len(out) = pos
  BY <1>0 DEF MaskTypes, Prefix
<1>2. pos \in Nat /\ pos <= size
  BY <1>1, SlicesFollow, LenProperties DEF SlicesInOrder
<1>3. /\ out' \in Seq(Nat) /\ Len(out') = size
      /\ \A p \in 1..pos : out'[p] = out[p]
      /\ \A p \in (pos + 1)..size : out'[p] = p
  <2>1. out \in Seq(Nat) /\ size \in Nat /\ Len(out) <= size
    BY <1>1, <1>2
  <2>2. /\ out \o Bytes(Len(out), size) \in Seq(Nat) /\ Len(out \o Bytes(Len(out), size)) = size
        /\ \A p \in 1..Len(out) : (out \o Bytes(Len(out), size))[p] = out[p]
        /\ \A p \in (Len(out) + 1)..size : (out \o Bytes(Len(out), size))[p] = p
    BY <2>1, Copied
  <2>3. out' = out \o Bytes(Len(out), size) /\ Len(out) = pos
    BY <1>0, <1>1
  <2> QED BY <2>2, <2>3
<1>4. \A p \in (pos + 1)..size : ~Covered(merged, Len(merged), p)
  <2> SUFFICES ASSUME NEW p \in (pos + 1)..size
               PROVE  ~Covered(merged, Len(merged), p)
    OBVIOUS
  <2>1. p \in Nat /\ pos < p
    BY <1>1, <1>2
  <2>2. written > 0 => merged[written].end < p
    BY <1>0, <1>1, <2>1
  <2> QED BY <1>0, <1>1, <2>1, <2>2, GapFacts
<1>5. \A p \in 1..size : out'[p] = IF Covered(merged, Len(merged), p) THEN 0 ELSE p
  <2> SUFFICES ASSUME NEW p \in 1..size
               PROVE  out'[p] = IF Covered(merged, Len(merged), p) THEN 0 ELSE p
    OBVIOUS
  <2>1. CASE p <= pos
    <3>1. p \in 1..pos
      BY <1>1, <1>2, <2>1
    <3> QED BY <1>0, <1>3, <3>1 DEF Prefix
  <2>2. CASE pos < p
    <3>1. p \in (pos + 1)..size
      BY <1>1, <1>2, <2>2
    <3> QED BY <1>3, <1>4, <3>1
  <2> QED BY <1>1, <1>2, <2>1, <2>2
<1>6. MasksExactly'
  BY <1>0, <1>3, <1>5 DEF MasksExactly, MergeKeepsCover
<1>7. MaskTypes'
  <2>1. done' \in BOOLEAN
    BY <1>0
  <2> QED BY <1>0, <1>3, <2>1 DEF MaskTypes
<1>8. Apart' /\ StillToCome' /\ MergeKeepsCover'
  BY <1>0 DEF Apart, StillToCome, MergeKeepsCover
<1> QED BY <1>0, <1>6, <1>7, <1>8 DEF MaskInv

\* maskBody's loops keep the invariant: the merged spans stay apart and cover
\* what was taken, and out is the masked prefix of the body.
THEOREM MaskInvariant == Spec => []MaskInv
<1>1. MaskInv /\ [Next]_vars => MaskInv'
  <2> SUFFICES ASSUME MaskInv, [Next]_vars PROVE MaskInv'
    OBVIOUS
  <2>1. CASE Take
    BY <2>1, MaskTake
  <2>2. CASE Star
    BY <2>2, MaskStar
  <2>3. CASE Finish
    BY <2>3, MaskFinish
  <2>4. CASE UNCHANGED vars
    BY <2>4 DEF vars, MaskInv, MaskTypes, Apart, StillToCome, MergeKeepsCover, Prefix, MasksExactly
  <2> QED BY <2>1, <2>2, <2>3, <2>4 DEF Next
<1> QED BY <1>1, MaskInit, PTL DEF Spec

\* A body of any length, masked for any findings, keeps its length, has stars
\* exactly where a finding covers it and its other bytes in place (maskBody).
THEOREM MaskingIsExact == Spec => []MasksExactly
<1>1. MaskInv => MasksExactly
  BY DEF MaskInv
<1> QED BY <1>1, MaskInvariant, PTL

\* The write loop of maskBody never slices the body with crossed bounds.
THEOREM SlicesAreInOrder == Spec => []SlicesInOrder
  BY SlicesFollow, MaskInvariant, PTL

\* At every turn of the merge loop the merged spans cover what the spans taken
\* so far cover.
THEOREM MergingKeepsCover == Spec => []MergeKeepsCover
<1>1. MaskInv => MergeKeepsCover
  BY DEF MaskInv
<1> QED BY <1>1, MaskInvariant, PTL

-----------------------------------------------------------------------------
(***************************************************************************)
(* The parsers of the JSON text, and scanRequestBody.                      *)
(***************************************************************************)
\* The outer string: what its parser has kept.
OuterTypes ==
  /\ rawPos \in Nat \ {0}
  /\ starts \in Seq(Nat) /\ text \in Seq(Nat) /\ ranges \in Seq(Spans)
  /\ Len(starts) \in Nat /\ Len(text) \in Nat /\ Len(ranges) = Len(text)
  /\ \A b \in 1..Len(text) : text[b] \in 1..Len(starts)
  /\ single \subseteq 1..Len(starts)

\* The characters stand one behind the other in the body, after the quote.
CharsInOrder ==
  /\ \A k \in 1..Len(starts) : 1 <= starts[k] /\ starts[k] < RawEnd(k) /\ RawEnd(k) <= rawPos
  /\ \A k, l \in 1..Len(starts) : k < l => RawEnd(k) <= starts[l]

TextInOrder == \A b, c \in 1..Len(text) : b <= c => text[b] <= text[c]

\* Byte b of the outer text is the first, or the last, of its character.
Begins(b) == b = 1 \/ text[b - 1] # text[b]
Ends(b) == b = Len(text) \/ text[b + 1] # text[b]

\* The range of a character's first byte begins where the character begins in
\* the body, the one of its last byte ends where it ends.
OuterEdges ==
  \A b \in 1..Len(text) : /\ Begins(b) => ranges[b].start = starts[text[b]]
                          /\ Ends(b) => ranges[b].end = RawEnd(text[b])

SingleBytes == \A b \in 1..Len(text) : text[b] \in single => Begins(b) /\ Ends(b)

\* The nested string.
LeafTypes ==
  /\ stage \in {"outer", "nested", "parsed"}
  /\ at \in 0..Len(text) /\ Boundary(text, at)
  /\ leaf \in Seq([from : Nat, to : Nat]) /\ leafRanges \in Seq(Spans)
  /\ Len(leaf) \in Nat /\ Len(leafRanges) = Len(leaf)
  /\ stage = "outer" => leaf = <<>> /\ leafRanges = <<>> /\ at = 0
  /\ \A j \in 1..Len(leaf) : leafRanges[j].start < leafRanges[j].end /\ leafRanges[j].end <= at
  /\ \A i, j \in 1..Len(leaf) : i <= j => leafRanges[i].start <= leafRanges[j].start

\* A nested character begins and ends between two outer characters, the first
\* and the last of those that spell it.
LeafEdges ==
  \A j \in 1..Len(leaf) :
    LET r == leafRanges[j]
    IN  /\ j = 1 \/ leaf[j - 1].from # leaf[j].from =>
             Boundary(text, r.start) /\ text[r.start + 1] = leaf[j].from
        /\ j = Len(leaf) \/ leaf[j + 1].from # leaf[j].from =>
             Boundary(text, r.end) /\ text[r.end] = leaf[j].to

ParseInv ==
  /\ OuterTypes /\ CharsInOrder /\ TextInOrder /\ OuterEdges /\ SingleBytes
  /\ LeafTypes /\ LeafEdges

\* A span of the body that begins and ends with a character.
WholeSpan(s) ==
  \E a, b \in 1..Len(starts) : s = [start |-> starts[a], end |-> RawEnd(b)]

RequestInv ==
  /\ ParseInv
  /\ spans = <<>> => /\ size = 0 /\ taken = 0 /\ merged = <<>> /\ written = 0
                     /\ pos = 0 /\ out = <<>> /\ done = FALSE
  /\ spans # <<>> => /\ stage = "parsed" /\ size = rawPos + 1 /\ MaskInv
                     /\ \A i \in 1..Len(spans) : WholeSpan(spans[i])

-----------------------------------------------------------------------------
\* A concatenation of sequences over any set, position by position.
LEMMA JoinedAny ==
  ASSUME NEW S, NEW a \in Seq(S), NEW b \in Seq(S)
  PROVE  /\ a \o b \in Seq(S) /\ Len(a \o b) = Len(a) + Len(b)
         /\ \A p \in 1..Len(a) : (a \o b)[p] = a[p]
         /\ \A p \in (Len(a) + 1)..(Len(a) + Len(b)) : (a \o b)[p] = b[p - Len(a)]
  BY ConcatProperties

LEMMA RepeatFacts ==
  ASSUME NEW S, NEW x \in S, NEW n \in Nat
  PROVE  /\ Repeat(x, n) \in Seq(S) /\ Len(Repeat(x, n)) = n
         /\ \A i \in 1..n : Repeat(x, n)[i] = x
  BY DEF Repeat

\* The ranges of a character at p: none is empty, they lie in the character in
\* order, the first begins and the last ends where the character does.
CharRangesOf(p, w, t, rs) ==
  /\ rs \in Seq(Spans) /\ Len(rs) = t
  /\ \A i \in 1..t : p <= rs[i].start /\ rs[i].start < rs[i].end /\ rs[i].end <= p + w
  /\ rs[1].start = p /\ rs[t].end = p + w
  /\ \A i, j \in 1..t : i <= j => rs[i].start <= rs[j].start

LEMMA CharRangesFacts ==
  ASSUME NEW p \in Nat, NEW c \in Chars
  PROVE  /\ c.raw \in Nat \ {0} /\ c.text \in Nat \ {0} /\ c.escape \in BOOLEAN
         /\ CharRangesOf(p, c.raw, c.text, CharRanges(p, c))
<1>1. c.raw \in Nat \ {0} /\ c.text \in Nat \ {0} /\ c.escape \in BOOLEAN
  BY JSONAssumption
<1>2. PICK w \in Nat \ {0} : w = c.raw
  BY <1>1
<1>3. PICK t \in Nat \ {0} : t = c.text
  BY <1>1
<1>4. CASE ~c.escape /\ w = t
  <2>1. ASSUME NEW rs, rs = [i \in 1..t |-> [start |-> p + i - 1, end |-> p + i]]
        PROVE  CharRangesOf(p, w, t, rs)
    <3>1. \A i \in 1..t : rs[i].start = p + i - 1 /\ rs[i].end = p + i
      BY <2>1
    <3>2. rs \in Seq(Spans) /\ Len(rs) = t
      <4>1. \A i \in 1..t : [start |-> p + i - 1, end |-> p + i] \in Spans
        BY DEF Spans
      <4>2. rs \in [1..t -> Spans]
        BY <2>1, <4>1
      <4> QED BY <4>2
    <3>3. \A i \in 1..t : p <= rs[i].start /\ rs[i].start < rs[i].end /\ rs[i].end <= p + w
      BY <1>4, <3>1
    <3>4. rs[1].start = p /\ rs[t].end = p + w
      BY <1>4, <3>1
    <3>5. \A i, j \in 1..t : i <= j => rs[i].start <= rs[j].start
      BY <3>1
    <3> QED BY <3>2, <3>3, <3>4, <3>5 DEF CharRangesOf
  <2>2. CharRanges(p, c) = [i \in 1..t |-> [start |-> p + i - 1, end |-> p + i]]
    BY <1>2, <1>3, <1>4 DEF CharRanges
  <2> QED BY <1>1, <1>2, <1>3, <2>1, <2>2
<1>5. CASE ~(~c.escape /\ w = t)
  <2>1. ASSUME NEW whole \in Spans, whole.start = p, whole.end = p + w
        PROVE  CharRangesOf(p, w, t, Repeat(whole, t))
    <3>1. /\ Repeat(whole, t) \in Seq(Spans) /\ Len(Repeat(whole, t)) = t
          /\ \A i \in 1..t : Repeat(whole, t)[i] = whole
      BY RepeatFacts
    <3> QED BY <2>1, <3>1 DEF CharRangesOf
  <2>2. CharRanges(p, c) = Repeat([start |-> p, end |-> p + w], t)
    BY <1>2, <1>3, <1>5 DEF CharRanges
  <2>3. [start |-> p, end |-> p + w] \in Spans
    BY DEF Spans
  <2> QED BY <1>1, <1>2, <1>3, <2>1, <2>2, <2>3
<1> QED BY <1>4, <1>5

LEMMA ParseStarts == ParseInit => ParseInv
<1> SUFFICES ASSUME ParseInit PROVE ParseInv
  OBVIOUS
<1>1. OuterTypes
  BY EmptySeq DEF ParseInit, OuterTypes
<1>2. Len(text) = 0 /\ Len(starts) = 0 /\ Len(leaf) = 0
  BY DEF ParseInit
<1>3. CharsInOrder /\ TextInOrder /\ OuterEdges /\ SingleBytes /\ LeafEdges
  BY <1>2 DEF CharsInOrder, TextInOrder, OuterEdges, SingleBytes, LeafEdges
<1>4. LeafTypes
  <2>1. leaf \in Seq([from : Nat, to : Nat]) /\ leafRanges \in Seq(Spans)
    BY EmptySeq DEF ParseInit
  <2>2. Boundary(text, at)
    BY DEF ParseInit, Boundary
  <2> QED BY <1>2, <2>1, <2>2 DEF ParseInit, LeafTypes
<1> QED BY <1>1, <1>3, <1>4 DEF ParseInv

\* parseString adds one character to the outer string.

LEMMA OuterGrows ==
  ASSUME ParseInv, NEW c \in Chars, ParseChar(c)
  PROVE  ParseInv'
<1>1. PICK n \in Nat : n = Len(starts)
  BY DEF ParseInv, OuterTypes
<1>2. PICK T \in Nat : T = Len(text)
  BY DEF ParseInv, OuterTypes
<1>3. PICK p \in Nat \ {0} : p = rawPos
  BY DEF ParseInv, OuterTypes
<1>4. PICK w \in Nat \ {0} : w = c.raw
  BY JSONAssumption
<1>5. PICK t \in Nat \ {0} : t = c.text
  BY JSONAssumption
<1> DEFINE k == n + 1
           fin(i) == IF i = n + 1 THEN p + w ELSE starts'[i + 1]
<1>6. PICK e : e = CharRanges(p, c) /\ CharRangesOf(p, w, t, e)
  BY <1>4, <1>5, CharRangesFacts
<1>7. PICK r : r = Repeat(k, t) /\ r \in Seq(Nat) /\ Len(r) = t /\ \A i \in 1..t : r[i] = k
  <2>1. k \in Nat /\ t \in Nat
    OBVIOUS
  <2>2. /\ Repeat(k, t) \in Seq(Nat) /\ Len(Repeat(k, t)) = t
        /\ \A i \in 1..t : Repeat(k, t)[i] = k
    BY <2>1, RepeatFacts
  <2> QED BY <2>2
<1>8. /\ OuterTypes /\ CharsInOrder /\ TextInOrder /\ OuterEdges /\ SingleBytes
      /\ LeafTypes /\ stage = "outer" /\ leaf = <<>> /\ leafRanges = <<>> /\ at = 0
      /\ starts' = Append(starts, p) /\ rawPos' = p + w
      /\ text' = text \o r /\ ranges' = ranges \o e
      /\ single' = IF t = 1 THEN single \cup {k} ELSE single
      /\ UNCHANGED <<stage, leafVars>>
  BY <1>1, <1>3, <1>4, <1>5, <1>6, <1>7 DEF ParseInv, ParseChar, LeafTypes
<1>9. /\ starts \in Seq(Nat) /\ text \in Seq(Nat) /\ ranges \in Seq(Spans) /\ Len(ranges) = T
      /\ \A b \in 1..T : text[b] \in 1..n
      /\ single \subseteq 1..n
  BY <1>1, <1>2, <1>8 DEF OuterTypes
<1>10. /\ starts' \in Seq(Nat) /\ Len(starts') = n + 1
       /\ \A i \in 1..n : starts'[i] = starts[i]
       /\ starts'[n + 1] = p
  BY <1>1, <1>8, <1>9, AppendProperties
<1>11. /\ text' \in Seq(Nat) /\ Len(text') = T + t
       /\ \A b \in 1..T : text'[b] = text[b]
       /\ \A b \in (T + 1)..(T + t) : text'[b] = k
  <2>1. /\ text \o r \in Seq(Nat) /\ Len(text \o r) = Len(text) + Len(r)
        /\ \A b \in 1..Len(text) : (text \o r)[b] = text[b]
        /\ \A b \in (Len(text) + 1)..(Len(text) + Len(r)) : (text \o r)[b] = r[b - Len(text)]
    BY <1>7, <1>9, Joined
  <2>2. \A b \in (T + 1)..(T + t) : b - T \in 1..t
    OBVIOUS
  <2> QED BY <1>2, <1>7, <1>8, <2>1, <2>2
<1>12. /\ ranges' \in Seq(Spans) /\ Len(ranges') = T + t
       /\ \A b \in 1..T : ranges'[b] = ranges[b]
       /\ \A b \in (T + 1)..(T + t) : ranges'[b] = e[b - T]
  <2>1. e \in Seq(Spans) /\ Len(e) = t
    BY <1>6 DEF CharRangesOf
  <2>2. /\ ranges \o e \in Seq(Spans) /\ Len(ranges \o e) = Len(ranges) + Len(e)
        /\ \A b \in 1..Len(ranges) : (ranges \o e)[b] = ranges[b]
        /\ \A b \in (Len(ranges) + 1)..(Len(ranges) + Len(e)) : (ranges \o e)[b] = e[b - Len(ranges)]
    BY <1>9, <2>1, JoinedAny
  <2> QED BY <1>8, <1>9, <2>1, <2>2
<1>13. /\ \A i \in 1..n : fin(i) = RawEnd(i) /\ RawEnd(i) \in Nat /\ RawEnd(i) <= p
       /\ fin(k) = p + w
  <2>1. ASSUME NEW i \in 1..n PROVE fin(i) = RawEnd(i) /\ RawEnd(i) \in Nat /\ RawEnd(i) <= p
    <3>1. fin(i) = starts'[i + 1]
      OBVIOUS
    <3>2. CASE i = n
      BY <1>1, <1>3, <1>10, <3>1, <3>2 DEF RawEnd
    <3>3. CASE i # n
      <4>1. i + 1 \in 1..n
        BY <3>3
      <4>2. RawEnd(i) = starts[i + 1] /\ starts[i + 1] \in Nat
        BY <1>1, <1>9, <3>3, <4>1 DEF RawEnd
      <4>3. RawEnd(i) <= p
        BY <1>1, <1>3, <1>8 DEF CharsInOrder
      <4> QED BY <1>10, <3>1, <4>1, <4>2, <4>3
    <3> QED BY <3>2, <3>3
  <2> QED BY <2>1
<1>14. \A i \in 1..(n + 1) : (RawEnd(i)' = fin(i)) /\ fin(i) \in Nat
  <2>1. \A i : RawEnd(i)' = fin(i)
    BY <1>8, <1>10 DEF RawEnd
  <2> QED BY <1>13, <2>1
<1> HIDE DEF fin
<1>15. OuterTypes'
  <2>1. \A b \in 1..Len(text') : text'[b] \in 1..Len(starts')
    <3> SUFFICES ASSUME NEW b \in 1..(T + t) PROVE text'[b] \in 1..(n + 1)
      BY <1>10, <1>11
    <3>1. CASE b \in 1..T
      <4>1. text'[b] = text[b] /\ text[b] \in 1..n
        BY <1>9, <1>11, <3>1
      <4> QED BY <4>1
    <3>2. CASE b \in (T + 1)..(T + t)
      BY <1>11, <3>2
    <3> QED BY <3>1, <3>2
  <2>2. rawPos' \in Nat \ {0} /\ Len(starts') \in Nat /\ Len(text') \in Nat
    BY <1>8, <1>10, <1>11
  <2>3. single' \subseteq 1..Len(starts')
    BY <1>8, <1>9, <1>10
  <2>4. Len(ranges') = Len(text')
    BY <1>11, <1>12
  <2> QED BY <1>10, <1>11, <1>12, <2>1, <2>2, <2>3, <2>4 DEF OuterTypes
<1>16. CharsInOrder'
  <2>1. ASSUME NEW i \in 1..(n + 1)
        PROVE  1 <= starts'[i] /\ starts'[i] < fin(i) /\ fin(i) <= p + w
    <3>1. CASE i = n + 1
      BY <1>10, <1>13, <3>1
    <3>2. CASE i \in 1..n
      <4>1. 1 <= starts[i] /\ starts[i] < RawEnd(i) /\ RawEnd(i) <= p
        BY <1>1, <1>3, <1>8, <3>2 DEF CharsInOrder
      <4> QED BY <1>10, <1>13, <3>2, <4>1
    <3> QED BY <3>1, <3>2
  <2>2. ASSUME NEW i \in 1..(n + 1), NEW l \in 1..(n + 1), i < l
        PROVE  fin(i) <= starts'[l]
    <3>1. i \in 1..n
      BY <2>2
    <3>2. CASE l = n + 1
      BY <1>10, <1>13, <3>1, <3>2
    <3>3. CASE l \in 1..n
      <4>1. RawEnd(i) <= starts[l]
        BY <1>1, <1>8, <2>2, <3>1, <3>3 DEF CharsInOrder
      <4> QED BY <1>10, <1>13, <3>1, <3>3, <4>1
    <3> QED BY <3>2, <3>3
  <2> QED BY <1>8, <1>10, <1>14, <2>1, <2>2 DEF CharsInOrder
<1>17. TextInOrder'
  <2> SUFFICES ASSUME NEW b \in 1..(T + t), NEW d \in 1..(T + t), b <= d
               PROVE  text'[b] <= text'[d]
    BY <1>11 DEF TextInOrder
  <2>1. CASE d <= T
    <3>1. b \in 1..T /\ d \in 1..T
      BY <2>1
    <3> QED BY <1>2, <1>8, <1>11, <3>1 DEF TextInOrder
  <2>2. CASE T < d /\ b <= T
    <3>1. d \in (T + 1)..(T + t) /\ b \in 1..T
      BY <2>2
    <3>2. text'[d] = k /\ text'[b] = text[b] /\ text[b] \in 1..n
      BY <1>9, <1>11, <3>1
    <3> QED BY <3>2
  <2>3. CASE T < b
    <3>1. b \in (T + 1)..(T + t) /\ d \in (T + 1)..(T + t)
      BY <2>3
    <3> QED BY <1>11, <3>1
  <2> QED BY <2>1, <2>2, <2>3
<1>19. ASSUME NEW b \in 1..T
       PROVE  (Begins(b)' <=> Begins(b)) /\ (Ends(b)' <=> Ends(b))
  <2>1. Begins(b)' <=> Begins(b)
    <3>1. b # 1 => b - 1 \in 1..T
      OBVIOUS
    <3> QED BY <1>11, <3>1 DEF Begins
  <2>2. CASE b = T
    <3>1. text'[b + 1] = k
      BY <1>11, <2>2
    <3>2. text'[b] = text[b] /\ text[b] \in 1..n
      BY <1>9, <1>11
    <3>3. text'[b + 1] # text'[b]
      BY <3>1, <3>2
    <3> QED BY <1>2, <2>1, <2>2, <3>3 DEF Ends
  <2>3. CASE b # T
    <3>1. b + 1 \in 1..T /\ b # T + t
      BY <2>3
    <3> QED BY <1>2, <1>11, <2>1, <2>3, <3>1 DEF Ends
  <2> QED BY <2>2, <2>3
<1>20. ASSUME NEW b \in (T + 1)..(T + t)
       PROVE  (Begins(b)' <=> b = T + 1) /\ (Ends(b)' <=> b = T + t)
  <2>1. text'[b] = k
    BY <1>11
  <2>2. ASSUME b = T + 1 PROVE Begins(b)'
    <3>1. CASE T = 0
      BY <2>2, <3>1 DEF Begins
    <3>2. CASE T # 0
      <4>1. T \in 1..T /\ b - 1 = T
        BY <2>2, <3>2
      <4>2. text'[T] = text[T] /\ text[T] \in 1..n
        BY <1>9, <1>11, <4>1
      <4>3. text'[T] # k
        BY <4>2
      <4> QED BY <2>1, <4>1, <4>3 DEF Begins
    <3> QED BY <3>1, <3>2
  <2>3. ASSUME b # T + 1 PROVE ~Begins(b)'
    <3>1. b - 1 \in (T + 1)..(T + t) /\ b # 1
      BY <2>3
    <3>2. text'[b - 1] = k
      BY <1>11, <3>1
    <3> QED BY <2>1, <3>1, <3>2 DEF Begins
  <2>4. Ends(b)' <=> b = T + t
    <3>1. b # T + t => b + 1 \in (T + 1)..(T + t)
      OBVIOUS
    <3> QED BY <1>11, <2>1, <3>1 DEF Ends
  <2> QED BY <2>2, <2>3, <2>4
<1>21. OuterEdges'
  <2>1. ASSUME NEW b \in 1..(T + t), NEW j \in 1..(n + 1), j = text'[b]
        PROVE  /\ Begins(b)' => ranges'[b].start = starts'[j]
               /\ Ends(b)' => ranges'[b].end = fin(j)
    <3>1. CASE b \in 1..T
      <4>1. j \in 1..n /\ text[b] = j /\ ranges'[b] = ranges[b]
        BY <1>9, <1>11, <1>12, <2>1, <3>1
      <4>2. (Begins(b) => ranges[b].start = starts[j]) /\ (Ends(b) => ranges[b].end = RawEnd(j))
        BY <1>2, <1>8, <3>1, <4>1 DEF OuterEdges
      <4> QED BY <1>10, <1>13, <1>19, <3>1, <4>1, <4>2
    <3>2. CASE b \in (T + 1)..(T + t)
      <4>1. j = k /\ ranges'[b] = e[b - T] /\ b - T \in 1..t
        BY <1>11, <1>12, <2>1, <3>2
      <4>2. e[1].start = p /\ e[t].end = p + w
        BY <1>6 DEF CharRangesOf
      <4>3. Begins(b)' => b - T = 1
        BY <1>20, <3>2
      <4>4. Ends(b)' => b - T = t
        BY <1>20, <3>2
      <4> QED BY <1>10, <1>13, <4>1, <4>2, <4>3, <4>4
    <3> QED BY <3>1, <3>2
  <2>2. \A b \in 1..(T + t) : text'[b] \in 1..(n + 1)
    BY <1>10, <1>11, <1>15 DEF OuterTypes
  <2>3. \A b \in 1..(T + t) : /\ Begins(b)' => ranges'[b].start = starts'[text'[b]]
                              /\ Ends(b)' => ranges'[b].end = fin(text'[b])
    BY <2>1, <2>2
  <2>4. \A i : fin(i) = IF i = Len(starts') THEN rawPos' ELSE starts'[i + 1]
    BY <1>8, <1>10 DEF fin
  <2> QED BY <1>11, <2>3, <2>4 DEF OuterEdges, RawEnd
<1>22. SingleBytes'
  <2> SUFFICES ASSUME NEW b \in 1..(T + t), text'[b] \in single'
               PROVE  Begins(b)' /\ Ends(b)'
    BY <1>11 DEF SingleBytes
  <2>1. CASE b \in 1..T
    <3>1. text[b] \in single
      <4>1. text'[b] = text[b] /\ text[b] \in 1..n
        BY <1>9, <1>11, <2>1
      <4>2. text[b] # k
        BY <4>1
      <4> QED BY <1>8, <4>1, <4>2
    <3>2. Begins(b) /\ Ends(b)
      BY <1>2, <1>8, <2>1, <3>1 DEF SingleBytes
    <3> QED BY <1>19, <2>1, <3>2
  <2>2. CASE b \in (T + 1)..(T + t)
    <3>1. t = 1
      BY <1>8, <1>9, <1>11, <2>2
    <3> QED BY <1>20, <2>2, <3>1
  <2> QED BY <2>1, <2>2
<1>23. LeafTypes' /\ LeafEdges'
  <2>1. leaf' = <<>> /\ leafRanges' = <<>> /\ at' = 0 /\ stage' = "outer"
    BY <1>8 DEF leafVars
  <2>2. Len(leaf') = 0 /\ Len(leafRanges') = 0 /\ leaf' \in Seq([from : Nat, to : Nat])
        /\ leafRanges' \in Seq(Spans)
    BY <2>1, EmptySeq
  <2>3. at' \in 0..Len(text') /\ Boundary(text', at')
    BY <1>11, <2>1 DEF Boundary
  <2> QED BY <2>1, <2>2, <2>3 DEF LeafTypes, LeafEdges
<1> QED BY <1>15, <1>16, <1>17, <1>21, <1>22, <1>23 DEF ParseInv

\* parseString adds one character to the nested string.
LEMMA NestedGrows ==
  ASSUME ParseInv, NEW c \in Chars, ParseNested(c)
  PROVE  ParseInv'
<1> DEFINE Leaves == [from : Nat, to : Nat]
<1>1. PICK T \in Nat : T = Len(text)
  BY DEF ParseInv, OuterTypes
<1>2. PICK m \in Nat : m = Len(leaf)
  BY DEF ParseInv, LeafTypes
<1>3. PICK p \in 0..T : p = at
  BY <1>1 DEF ParseInv, LeafTypes
<1>4. PICK w \in Nat \ {0} : w = c.raw
  BY JSONAssumption
<1>5. PICK t \in Nat \ {0} : t = c.text
  BY JSONAssumption
<1>6. PICK e : e = CharRanges(p, c) /\ CharRangesOf(p, w, t, e)
  BY <1>4, <1>5, CharRangesFacts
<1>7. /\ OuterTypes /\ CharsInOrder /\ TextInOrder /\ OuterEdges /\ SingleBytes
      /\ LeafTypes /\ LeafEdges
      /\ stage = "nested" /\ UNCHANGED <<stage, outerVars, open>>
      /\ at' = p + w
      /\ leaf' = leaf \o Repeat([from |-> text[p + 1], to |-> text[p + w]], t)
      /\ leafRanges' = leafRanges \o e
  BY <1>3, <1>4, <1>5, <1>6 DEF ParseInv, ParseNested
<1>8. /\ text \in Seq(Nat) /\ \A b \in 1..T : text[b] \in Nat
      /\ leaf \in Seq(Leaves) /\ leafRanges \in Seq(Spans) /\ Len(leafRanges) = m
      /\ Boundary(text, p)
      /\ \A j \in 1..m : leafRanges[j].start < leafRanges[j].end /\ leafRanges[j].end <= p
      /\ \A i, j \in 1..m : i <= j => leafRanges[i].start <= leafRanges[j].start
  BY <1>1, <1>2, <1>3, <1>7 DEF OuterTypes, LeafTypes
<1>9. p + w <= T /\ Boundary(text, p + w)
  <2>1. p + w <= T
    BY <1>1, <1>3, <1>4 DEF ParseNested, Spelled
  <2>2. CASE c.escape
    <3>1. text[p + w] \in single
      BY <1>3, <1>4, <2>2 DEF ParseNested, Spelled
    <3>2. p + w \in 1..T
      BY <2>1
    <3>3. Ends(p + w)
      BY <1>1, <1>7, <3>1, <3>2 DEF SingleBytes
    <3> QED BY <1>1, <2>1, <3>3 DEF Ends, Boundary
  <2>3. CASE ~c.escape
    <3>1. Boundary(text, at + c.raw)
      BY <2>3 DEF ParseNested, Spelled
    <3> QED BY <1>3, <1>4, <2>1, <3>1
  <2> QED BY <2>1, <2>2, <2>3
<1>10. PICK x \in Leaves : x = [from |-> text[p + 1], to |-> text[p + w]]
  <2>1. text[p + 1] \in Nat /\ text[p + w] \in Nat
    BY <1>8, <1>9
  <2> QED BY <2>1
<1>11. x.from = text[p + 1] /\ x.to = text[p + w]
  BY <1>10
<1>12. PICK r : r = Repeat(x, t) /\ r \in Seq(Leaves) /\ Len(r) = t /\ \A i \in 1..t : r[i] = x
  <2>1. t \in Nat
    OBVIOUS
  <2>2. /\ Repeat(x, t) \in Seq(Leaves) /\ Len(Repeat(x, t)) = t
        /\ \A i \in 1..t : Repeat(x, t)[i] = x
    BY <2>1, RepeatFacts
  <2> QED BY <2>2
<1> HIDE DEF Leaves
<1>13. /\ leaf' \in Seq(Leaves) /\ Len(leaf') = m + t
       /\ \A j \in 1..m : leaf'[j] = leaf[j]
       /\ \A j \in (m + 1)..(m + t) : leaf'[j] = x
  <2>1. /\ leaf \o r \in Seq(Leaves) /\ Len(leaf \o r) = Len(leaf) + Len(r)
        /\ \A j \in 1..Len(leaf) : (leaf \o r)[j] = leaf[j]
        /\ \A j \in (Len(leaf) + 1)..(Len(leaf) + Len(r)) : (leaf \o r)[j] = r[j - Len(leaf)]
    <3>1. leaf \in Seq(Leaves) /\ r \in Seq(Leaves)
      BY <1>8, <1>12
    <3> QED BY <3>1, JoinedAny, Zenon
  <2>2. \A j \in (m + 1)..(m + t) : j - m \in 1..t
    OBVIOUS
  <2>3. leaf' = leaf \o r
    BY <1>7, <1>10, <1>12
  <2>4. \A j \in (m + 1)..(m + t) : r[j - m] = x
    BY <1>12, <2>2
  <2> QED BY <1>2, <1>12, <2>1, <2>3, <2>4
<1>14. /\ leafRanges' \in Seq(Spans) /\ Len(leafRanges') = m + t
       /\ \A j \in 1..m : leafRanges'[j] = leafRanges[j]
       /\ \A j \in (m + 1)..(m + t) : leafRanges'[j] = e[j - m]
  <2>1. e \in Seq(Spans) /\ Len(e) = t
    BY <1>6 DEF CharRangesOf
  <2>2. /\ leafRanges \o e \in Seq(Spans) /\ Len(leafRanges \o e) = Len(leafRanges) + Len(e)
        /\ \A j \in 1..Len(leafRanges) : (leafRanges \o e)[j] = leafRanges[j]
        /\ \A j \in (Len(leafRanges) + 1)..(Len(leafRanges) + Len(e)) :
             (leafRanges \o e)[j] = e[j - Len(leafRanges)]
    BY <1>8, <2>1, JoinedAny
  <2> QED BY <1>7, <1>8, <2>1, <2>2
<1>15. /\ \A i \in 1..t : e[i] \in Spans /\ p <= e[i].start /\ e[i].start < e[i].end /\ e[i].end <= p + w
       /\ e[1].start = p /\ e[t].end = p + w
       /\ \A i, j \in 1..t : i <= j => e[i].start <= e[j].start
  BY <1>6 DEF CharRangesOf
<1>16. \A j \in 1..m : leafRanges[j] \in Spans
  BY <1>8
<1>17. LeafTypes'
  <2>1. ASSUME NEW j \in 1..(m + t)
        PROVE  leafRanges'[j].start < leafRanges'[j].end /\ leafRanges'[j].end <= p + w
    <3>1. CASE j \in 1..m
      <4>1. leafRanges[j].start < leafRanges[j].end /\ leafRanges[j].end <= p
            /\ leafRanges[j].end \in Nat
        BY <1>8, <1>16, <3>1 DEF Spans
      <4> QED BY <1>14, <3>1, <4>1
    <3>2. CASE j \in (m + 1)..(m + t)
      <4>1. j - m \in 1..t
        BY <3>2
      <4> QED BY <1>14, <1>15, <3>2, <4>1
    <3> QED BY <3>1, <3>2
  <2>2. ASSUME NEW i \in 1..(m + t), NEW j \in 1..(m + t), i <= j
        PROVE  leafRanges'[i].start <= leafRanges'[j].start
    <3>1. CASE j \in 1..m
      <4>1. i \in 1..m
        BY <2>2, <3>1
      <4> QED BY <1>8, <1>14, <2>2, <3>1, <4>1
    <3>2. CASE i \in 1..m /\ j \in (m + 1)..(m + t)
      <4>1. j - m \in 1..t /\ leafRanges'[j] = e[j - m] /\ leafRanges'[i] = leafRanges[i]
        BY <1>14, <3>2
      <4>2. leafRanges[i].start < leafRanges[i].end /\ leafRanges[i].end <= p
            /\ leafRanges[i].end \in Nat /\ leafRanges[i].start \in Nat
        BY <1>8, <1>16, <3>2 DEF Spans
      <4>3. p <= e[j - m].start /\ e[j - m].start \in Nat
        BY <1>15, <4>1 DEF Spans
      <4> QED BY <4>1, <4>2, <4>3
    <3>3. CASE i \in (m + 1)..(m + t)
      <4>1. i - m \in 1..t /\ j - m \in 1..t /\ i - m <= j - m /\ j \in (m + 1)..(m + t)
        BY <2>2, <3>3
      <4>2. leafRanges'[i] = e[i - m] /\ leafRanges'[j] = e[j - m]
        BY <1>14, <3>3, <4>1
      <4> QED BY <1>15, <4>1, <4>2
    <3> QED BY <3>1, <3>2, <3>3
  <2>3. text' = text /\ Len(text) = T /\ at' \in 0..T /\ stage' = "nested"
    BY <1>1, <1>7, <1>9 DEF outerVars
  <2>4. Boundary(text', at')
    BY <1>7, <1>9, <2>3
  <2>5. at' = p + w /\ stage' # "outer" /\ Len(text') = T /\ m + t \in Nat
    BY <1>7, <2>3
  <2> QED BY <1>13, <1>14, <2>1, <2>2, <2>3, <2>4, <2>5 DEF LeafTypes, Leaves
<1>18. LeafEdges'
  <2> SUFFICES ASSUME NEW j \in 1..(m + t)
               PROVE  /\ j = 1 \/ leaf'[j - 1].from # leaf'[j].from =>
                           /\ Boundary(text, leafRanges'[j].start)
                           /\ text[leafRanges'[j].start + 1] = leaf'[j].from
                      /\ j = m + t \/ leaf'[j + 1].from # leaf'[j].from =>
                           /\ Boundary(text, leafRanges'[j].end)
                           /\ text[leafRanges'[j].end] = leaf'[j].to
    <3>1. text' = text /\ Len(leaf') = m + t /\ m + t \in Nat
      BY <1>7, <1>13 DEF outerVars
    <3>2. \A k \in Int : Boundary(text, k)' <=> Boundary(text, k)
      BY <3>1 DEF Boundary
    <3> QED BY <3>1 DEF LeafEdges, Boundary
  <2>1. CASE j \in 1..m
    <3>1. leaf'[j] = leaf[j] /\ leafRanges'[j] = leafRanges[j]
      BY <1>13, <1>14, <2>1
    <3>2. j # 1 => leaf'[j - 1] = leaf[j - 1]
      BY <1>13, <2>1
    <3>3. j # m => leaf'[j + 1] = leaf[j + 1]
      BY <1>13, <2>1
    <3>4. /\ j = 1 \/ leaf[j - 1].from # leaf[j].from =>
               /\ Boundary(text, leafRanges[j].start)
               /\ text[leafRanges[j].start + 1] = leaf[j].from
          /\ j = m \/ leaf[j + 1].from # leaf[j].from =>
               /\ Boundary(text, leafRanges[j].end)
               /\ text[leafRanges[j].end] = leaf[j].to
      BY <1>2, <1>7, <2>1 DEF LeafEdges
    <3> QED BY <2>1, <3>1, <3>2, <3>3, <3>4
  <2>2. CASE j \in (m + 1)..(m + t)
    <3>1. leaf'[j] = x /\ leafRanges'[j] = e[j - m]
      BY <1>13, <1>14, <2>2
    <3>2. j # m + 1 => ~(j = 1 \/ leaf'[j - 1].from # leaf'[j].from)
      <4> SUFFICES ASSUME j # m + 1 PROVE j # 1 /\ leaf'[j - 1] = x
        BY <3>1
      <4>1. j - 1 \in (m + 1)..(m + t)
        BY <2>2
      <4> QED BY <1>13, <4>1
    <3>3. j # m + t => ~(j = m + t \/ leaf'[j + 1].from # leaf'[j].from)
      <4> SUFFICES ASSUME j # m + t PROVE leaf'[j + 1] = x
        BY <3>1
      <4>1. j + 1 \in (m + 1)..(m + t)
        BY <2>2
      <4> QED BY <1>13, <4>1
    <3>4. j = m + 1 => leafRanges'[j].start = p
      BY <1>15, <3>1
    <3>5. j = m + t => leafRanges'[j].end = p + w
      BY <1>15, <3>1
    <3> QED BY <1>8, <1>9, <1>11, <3>1, <3>2, <3>3, <3>4, <3>5
  <2> QED BY <2>1, <2>2
<1>19. (OuterTypes /\ CharsInOrder /\ TextInOrder /\ OuterEdges /\ SingleBytes)'
  BY <1>7 DEF OuterTypes, CharsInOrder, TextInOrder, OuterEdges, SingleBytes, outerVars,
              RawEnd, Begins, Ends
<1> QED BY <1>17, <1>18, <1>19 DEF ParseInv

\* Every step of the parser keeps its invariant.
LEMMA ParseKeeps ==
  ASSUME ParseInv, ParseNext
  PROVE  ParseInv'
<1>1. ASSUME NEW c \in Chars, ParseChar(c) PROVE ParseInv'
  BY <1>1, OuterGrows
<1>2. ASSUME NEW c \in Chars, ParseNested(c) PROVE ParseInv'
  BY <1>2, NestedGrows
<1>3. ASSUME UNCHANGED outerVars
      PROVE  (OuterTypes /\ CharsInOrder /\ TextInOrder /\ OuterEdges /\ SingleBytes)'
  BY <1>3 DEF ParseInv, OuterTypes, CharsInOrder, TextInOrder, OuterEdges, SingleBytes,
              outerVars, RawEnd, Begins, Ends
<1>4. CASE NoNested \/ CloseNested
  <2>1. LeafTypes' /\ LeafEdges'
    BY <1>4 DEF NoNested, CloseNested, ParseInv, LeafTypes, LeafEdges, outerVars, leafVars
  <2> QED BY <1>3, <1>4, <2>1 DEF NoNested, CloseNested, ParseInv
<1>5. CASE OpenNested
  <2>1. leaf' = <<>> /\ leafRanges' = <<>> /\ text' = text /\ stage' = "nested"
    BY <1>5 DEF OpenNested, ParseInv, LeafTypes, outerVars
  <2>2. at' \in 0..Len(text) /\ Boundary(text', at')
    BY <1>5, <2>1 DEF OpenNested, ParseInv, OuterTypes
  <2>3. leaf' \in Seq([from : Nat, to : Nat]) /\ leafRanges' \in Seq(Spans)
    BY <2>1, EmptySeq
  <2>4. Len(leaf') = 0 /\ Len(leafRanges') = 0
    BY <2>1
  <2>5. LeafTypes' /\ LeafEdges'
    BY <2>1, <2>2, <2>3, <2>4 DEF LeafTypes, LeafEdges
  <2> QED BY <1>3, <1>5, <2>5 DEF OpenNested, ParseInv
<1> QED BY <1>1, <1>2, <1>4, <1>5 DEF ParseNext

-----------------------------------------------------------------------------
\* A match of a unit spans whole outer characters, a first and a last one.
SpansChars(u, m) ==
  /\ u.from[m.lo + 1] \in 1..Len(starts) /\ u.to[m.hi] \in 1..Len(starts)
  /\ u.from[m.lo + 1] <= u.to[m.hi]
  /\ RawSpan(u, m.lo, m.hi) = [start |-> starts[u.from[m.lo + 1]], end |-> RawEnd(u.to[m.hi])]

\* Two offsets of the outer text between which there are whole characters.
LEMMA OuterCut ==
  ASSUME ParseInv, NEW p \in 0..Len(text), NEW q \in 0..Len(text), p < q,
         Boundary(text, p), Boundary(text, q)
  PROVE  /\ ranges[p + 1].start = starts[text[p + 1]] /\ ranges[q].end = RawEnd(text[q])
         /\ text[p + 1] \in 1..Len(starts) /\ text[q] \in 1..Len(starts)
         /\ text[p + 1] <= text[q]
<1>1. PICK T \in Nat : T = Len(text)
  BY DEF ParseInv, OuterTypes
<1>2. p + 1 \in 1..T /\ q \in 1..T
  BY <1>1
<1>3. text[p + 1] \in 1..Len(starts) /\ text[q] \in 1..Len(starts)
  BY <1>1, <1>2 DEF ParseInv, OuterTypes
<1>4. text[p + 1] <= text[q]
  BY <1>1, <1>2 DEF ParseInv, TextInOrder
<1>5. Begins(p + 1) /\ Ends(q)
  BY <1>1, <1>2 DEF Begins, Ends, Boundary
<1> QED BY <1>1, <1>2, <1>3, <1>4, <1>5 DEF ParseInv, OuterEdges

LEMMA OuterMatches ==
  ASSUME ParseInv, NEW m \in Matches(OuterUnit)
  PROVE  SpansChars(OuterUnit, m)
<1>1. /\ OuterUnit.from = text /\ OuterUnit.to = text /\ OuterUnit.ranges = ranges
  BY DEF OuterUnit
<1>2. /\ m.lo \in 0..Len(text) /\ m.hi \in 0..Len(text) /\ m.lo < m.hi
      /\ Boundary(text, m.lo) /\ Boundary(text, m.hi)
  BY <1>1 DEF Matches
<1>3. /\ ranges[m.lo + 1].start = starts[text[m.lo + 1]] /\ ranges[m.hi].end = RawEnd(text[m.hi])
      /\ text[m.lo + 1] \in 1..Len(starts) /\ text[m.hi] \in 1..Len(starts)
      /\ text[m.lo + 1] <= text[m.hi]
  BY <1>2, OuterCut
<1>4. Len(ranges) = Len(text)
  BY DEF ParseInv, OuterTypes
<1> QED BY <1>1, <1>3, <1>4 DEF SpansChars, RawSpan

LEMMA LeafRangeFacts ==
  ASSUME ParseInv, NEW j \in 1..Len(leaf)
  PROVE  /\ leafRanges[j].start \in Nat /\ leafRanges[j].end \in Nat
         /\ leafRanges[j].start < leafRanges[j].end /\ leafRanges[j].end <= Len(text)
<1>1. leafRanges[j] \in Spans
  BY DEF ParseInv, LeafTypes
<1>2. leafRanges[j].start \in Nat /\ leafRanges[j].end \in Nat
  BY <1>1 DEF Spans
<1>3. leafRanges[j].start < leafRanges[j].end /\ leafRanges[j].end <= at
  BY DEF ParseInv, LeafTypes
<1>4. at \in 0..Len(text) /\ Len(text) \in Nat
  BY DEF ParseInv, LeafTypes, OuterTypes
<1> QED BY <1>2, <1>3, <1>4

\* The ranges of the nested text are composed with the outer ones: no range
\* leaves the outer text, so every nested byte has one.
LEMMA NestedRanges ==
  ASSUME ParseInv
  PROVE  /\ Len(NestedUnit.from) = Len(leaf) /\ Len(NestedUnit.ranges) = Len(leaf)
         /\ \A j \in 1..Len(leaf) :
              /\ NestedUnit.from[j] = leaf[j].from /\ NestedUnit.to[j] = leaf[j].to
              /\ NestedUnit.ranges[j] = [start |-> ranges[leafRanges[j].start + 1].start,
                                         end |-> ranges[leafRanges[j].end].end]
<1>1. PICK k \in Nat : k = Len(leaf)
  BY DEF ParseInv, LeafTypes
<1>2. /\ leaf \in Seq([from : Nat, to : Nat]) /\ leafRanges \in Seq(Spans) /\ Len(leafRanges) = k
      /\ DOMAIN leaf = 1..k /\ DOMAIN leafRanges = 1..k
  BY <1>1, LenProperties DEF ParseInv, LeafTypes
<1>3. ~(\E j \in DOMAIN leafRanges : \/ leafRanges[j].end <= leafRanges[j].start
                                     \/ leafRanges[j].end > Len(ranges))
  <2> SUFFICES ASSUME NEW j \in 1..k
               PROVE  /\ ~(leafRanges[j].end <= leafRanges[j].start)
                      /\ ~(leafRanges[j].end > Len(ranges))
    BY <1>2
  <2>1. Len(ranges) = Len(text) /\ Len(text) \in Nat
    BY DEF ParseInv, OuterTypes
  <2> QED BY <1>1, <2>1, LeafRangeFacts
<1>4. NestedUnit.ranges = [j \in 1..k |-> [start |-> ranges[leafRanges[j].start + 1].start,
                                           end |-> ranges[leafRanges[j].end].end]]
  BY <1>2, <1>3 DEF NestedUnit, ComposeByteRanges
<1>5. /\ NestedUnit.from = [j \in 1..k |-> leaf[j].from]
      /\ NestedUnit.to = [j \in 1..k |-> leaf[j].to]
  BY <1>2 DEF NestedUnit
<1>6. Len(NestedUnit.from) = k /\ Len(NestedUnit.ranges) = k
  <2>1. ASSUME NEW f, DOMAIN f = 1..k, f = [j \in 1..k |-> f[j]] PROVE Len(f) = k
    BY <2>1
  <2> QED BY <1>4, <1>5, <2>1
<1> QED BY <1>1, <1>4, <1>5, <1>6

LEMMA NestedMatches ==
  ASSUME ParseInv, leaf # <<>>, NEW m \in Matches(NestedUnit)
  PROVE  SpansChars(NestedUnit, m)
<1>1. PICK k \in Nat : k = Len(leaf)
  BY DEF ParseInv, LeafTypes
<1>2. /\ Len(NestedUnit.from) = k /\ Len(NestedUnit.ranges) = k
      /\ \A j \in 1..k :
           /\ NestedUnit.from[j] = leaf[j].from /\ NestedUnit.to[j] = leaf[j].to
           /\ NestedUnit.ranges[j] = [start |-> ranges[leafRanges[j].start + 1].start,
                                      end |-> ranges[leafRanges[j].end].end]
  BY <1>1, NestedRanges
<1>3. PICK lo \in 0..k : lo = m.lo
  BY <1>2 DEF Matches
<1>4. PICK hi \in 1..k : hi = m.hi
  BY <1>2 DEF Matches
<1>5. lo < hi /\ Boundary(NestedUnit.from, lo) /\ Boundary(NestedUnit.from, hi)
  BY <1>3, <1>4 DEF Matches
<1>6. lo + 1 \in 1..k
  BY <1>5
<1>7. PICK f : f = NestedUnit.from /\ Len(f) = k /\ \A j \in 1..k : f[j] = leaf[j].from
  BY <1>2
<1>8. /\ lo + 1 = 1 \/ leaf[lo].from # leaf[lo + 1].from
      /\ hi = k \/ leaf[hi + 1].from # leaf[hi].from
  <2>1. Boundary(f, lo) /\ Boundary(f, hi)
    BY <1>5, <1>7
  <2>2. ASSUME lo # 0 PROVE leaf[lo].from # leaf[lo + 1].from
    <3>1. f[lo] # f[lo + 1] /\ lo \in 1..k
      BY <1>5, <1>7, <2>1, <2>2 DEF Boundary
    <3> QED BY <1>6, <1>7, <3>1
  <2>3. ASSUME hi # k PROVE leaf[hi + 1].from # leaf[hi].from
    <3>1. f[hi] # f[hi + 1] /\ hi + 1 \in 1..k
      BY <1>7, <2>1, <2>3 DEF Boundary
    <3> QED BY <1>7, <3>1
  <2> QED BY <2>2, <2>3
<1>9. PICK p \in Nat : p = leafRanges[lo + 1].start
  BY <1>1, <1>6, LeafRangeFacts
<1>10. PICK q \in Nat : q = leafRanges[hi].end
  BY <1>1, LeafRangeFacts
<1>11. p < q /\ p \in 0..Len(text) /\ q \in 0..Len(text)
  <2>1. leafRanges[lo + 1].start <= leafRanges[hi].start
    <3>1. lo + 1 <= hi
      BY <1>5
    <3>2. \A i, j \in 1..Len(leaf) : i <= j => leafRanges[i].start <= leafRanges[j].start
      BY DEF ParseInv, LeafTypes
    <3> QED BY <1>1, <1>6, <3>1, <3>2
  <2>2. /\ leafRanges[hi].start < leafRanges[hi].end /\ leafRanges[hi].end <= Len(text)
        /\ leafRanges[hi].start \in Nat
    BY <1>1, LeafRangeFacts
  <2>3. Len(text) \in Nat
    BY DEF ParseInv, OuterTypes
  <2>4. p < q /\ q <= Len(text)
    BY <1>9, <1>10, <2>1, <2>2
  <2> QED BY <2>3, <2>4
<1>12. Boundary(text, p) /\ text[p + 1] = leaf[lo + 1].from
  <2>1. lo + 1 - 1 = lo
    OBVIOUS
  <2> QED BY <1>1, <1>6, <1>8, <1>9, <2>1 DEF ParseInv, LeafEdges
<1>13. Boundary(text, q) /\ text[q] = leaf[hi].to
  BY <1>1, <1>8, <1>10 DEF ParseInv, LeafEdges
<1>14. /\ ranges[p + 1].start = starts[text[p + 1]] /\ ranges[q].end = RawEnd(text[q])
       /\ text[p + 1] \in 1..Len(starts) /\ text[q] \in 1..Len(starts)
       /\ text[p + 1] <= text[q]
  BY <1>11, <1>12, <1>13, OuterCut
<1>15. RawSpan(NestedUnit, lo, hi) = [start |-> ranges[p + 1].start, end |-> ranges[q].end]
  <2>1. /\ NestedUnit.ranges[lo + 1] = [start |-> ranges[leafRanges[lo + 1].start + 1].start,
                                         end |-> ranges[leafRanges[lo + 1].end].end]
        /\ NestedUnit.ranges[hi] = [start |-> ranges[leafRanges[hi].start + 1].start,
                                    end |-> ranges[leafRanges[hi].end].end]
    BY <1>2, <1>6
  <2>2. NestedUnit.ranges[lo + 1].start = ranges[p + 1].start /\ NestedUnit.ranges[hi].end = ranges[q].end
    BY <1>9, <1>10, <2>1
  <2>3. RawSpan(NestedUnit, lo, hi) = [start |-> NestedUnit.ranges[lo + 1].start,
                                       end |-> NestedUnit.ranges[hi].end]
    BY <1>2 DEF RawSpan
  <2> QED BY <2>2, <2>3
<1>16. NestedUnit.from[lo + 1] = text[p + 1] /\ NestedUnit.to[hi] = text[q]
  BY <1>2, <1>6, <1>12, <1>13
<1> QED BY <1>3, <1>4, <1>14, <1>15, <1>16 DEF SpansChars

LEMMA UnitMatches ==
  ASSUME ParseInv, NEW u \in Units, NEW m \in Matches(u)
  PROVE  SpansChars(u, m)
<1>1. CASE u = OuterUnit
  BY <1>1, OuterMatches
<1>2. CASE u = NestedUnit /\ leaf # <<>>
  BY <1>2, NestedMatches
<1> QED BY <1>1, <1>2 DEF Units

\* Where the first and the last character of a match stand in the body.
LEMMA CharSpan ==
  ASSUME ParseInv, NEW a \in 1..Len(starts), NEW b \in 1..Len(starts)
  PROVE  /\ starts[a] \in Nat /\ RawEnd(b) \in Nat /\ 1 <= starts[a] /\ RawEnd(b) <= rawPos
         /\ a <= b => starts[a] < RawEnd(b)
<1>1. PICK n \in Nat : n = Len(starts)
  BY DEF ParseInv, OuterTypes
<1>2. \A k \in 1..n : starts[k] \in Nat /\ RawEnd(k) \in Nat
  <2>1. \A k \in 1..n : starts[k] \in Nat
    BY <1>1 DEF ParseInv, OuterTypes
  <2>2. \A k \in 1..n : k # n => k + 1 \in 1..n
    OBVIOUS
  <2> QED BY <1>1, <2>1, <2>2 DEF RawEnd, ParseInv, OuterTypes
<1>3. \A k \in 1..n : 1 <= starts[k] /\ starts[k] < RawEnd(k) /\ RawEnd(k) <= rawPos
  BY <1>1 DEF ParseInv, CharsInOrder
<1>4. ASSUME a < b PROVE starts[a] < RawEnd(b)
  <2>1. RawEnd(a) <= starts[b]
    BY <1>4 DEF ParseInv, CharsInOrder
  <2> QED BY <1>1, <1>2, <1>3, <2>1
<1>5. a = b \/ a < b \/ ~(a <= b)
  BY <1>1
<1> QED BY <1>1, <1>2, <1>3, <1>4, <1>5

\* A match always has bytes to star out, between the quotes of the string: the
\* spans scanRequestBody drops, empty ones and those that leave the body, are
\* never those of a finding.
MatchesCanBeMasked ==
  stage = "parsed" =>
    \A u \in Units : \A m \in Matches(u) :
      LET s == RawSpan(u, m.lo, m.hi) IN 1 <= s.start /\ s.start < s.end /\ s.end <= rawPos

LEMMA ParseInvImplies ==
  ASSUME ParseInv
  PROVE  SpansAreWholeCharacters /\ MatchesCanBeMasked
<1>1. SpansAreWholeCharacters
  BY UnitMatches DEF SpansAreWholeCharacters, SpansChars
<1>2. ASSUME NEW u \in Units, NEW m \in Matches(u)
      PROVE  LET s == RawSpan(u, m.lo, m.hi)
             IN  1 <= s.start /\ s.start < s.end /\ s.end <= rawPos
  <2>1. SpansChars(u, m)
    BY UnitMatches
  <2>2. PICK a \in 1..Len(starts) : a = u.from[m.lo + 1]
    BY <2>1 DEF SpansChars
  <2>3. PICK b \in 1..Len(starts) : b = u.to[m.hi] /\ a <= b
    BY <2>1, <2>2 DEF SpansChars
  <2>4. RawSpan(u, m.lo, m.hi) = [start |-> starts[a], end |-> RawEnd(b)]
    BY <2>1, <2>2, <2>3 DEF SpansChars
  <2> QED BY <2>3, <2>4, CharSpan
<1> QED BY <1>1, <1>2 DEF MatchesCanBeMasked

-----------------------------------------------------------------------------
\* scanRequestBody leaves maskBody a list it can work on: every span is in the
\* body and covers whole characters.
LEMMA ScanEnters ==
  ASSUME RequestInv, ScanRequestBody
  PROVE  Entered' /\ \A i \in 1..Len(spans') : WholeSpan(spans'[i])
<1>0. ParseInv
  BY DEF RequestInv
<1> DEFINE All == UNION {{RawSpan(u, m.lo, m.hi) : m \in Matches(u)} : u \in Units}
<1>1. PICK found \in SUBSET All :
        LET kept == {s \in found : InBody(s, rawPos + 1)}
        IN  /\ kept # {} /\ Cardinality(kept) <= MaxSpans
            /\ \E order \in SetToSeqs(kept) :
                 /\ SortedByStart(order)
                 /\ spans' = order /\ taken' = 1 /\ merged' = <<order[1]>>
  BY DEF ScanRequestBody
<1> DEFINE kept == {s \in found : InBody(s, rawPos + 1)}
<1>2. /\ kept # {} /\ spans' \in SetToSeqs(kept) /\ SortedByStart(spans')
      /\ taken' = 1 /\ merged' = <<spans'[1]>>
  BY <1>1
<1>3. /\ size' = rawPos + 1 /\ spans = <<>>
      /\ UNCHANGED <<parseVars, written, pos, out, done>>
  BY DEF ScanRequestBody
<1>4. rawPos \in Nat
  BY <1>0 DEF ParseInv, OuterTypes
<1>5. ASSUME NEW s \in All
      PROVE  WholeSpan(s) /\ s.start \in 0..rawPos /\ s.end \in 0..rawPos /\ s \in Spans
             /\ s = [start |-> s.start, end |-> s.end]
  <2>1. PICK u \in Units : \E m \in Matches(u) : s = RawSpan(u, m.lo, m.hi)
    BY <1>5
  <2>2. PICK m \in Matches(u) : s = RawSpan(u, m.lo, m.hi)
    BY <2>1
  <2>3. SpansChars(u, m)
    BY <1>0, UnitMatches
  <2>4. PICK a \in 1..Len(starts) : a = u.from[m.lo + 1]
    BY <2>3 DEF SpansChars
  <2>5. PICK b \in 1..Len(starts) : b = u.to[m.hi] /\ a <= b
    BY <2>3, <2>4 DEF SpansChars
  <2>6. s = [start |-> starts[a], end |-> RawEnd(b)]
    BY <2>2, <2>3, <2>4, <2>5 DEF SpansChars
  <2>7. /\ starts[a] \in Nat /\ RawEnd(b) \in Nat /\ RawEnd(b) <= rawPos
        /\ starts[a] < RawEnd(b)
    BY <1>0, <2>5, CharSpan
  <2> QED BY <1>4, <2>6, <2>7 DEF WholeSpan, Spans
<1> HIDE DEF All
<1>6. \A s \in kept : s \in All /\ InBody(s, rawPos + 1)
  OBVIOUS
<1> HIDE DEF kept
<1>7. IsFiniteSet(kept)
  <2> DEFINE Pairs == (0..rawPos) \X (0..rawPos)
             f == [s \in kept |-> <<s.start, s.end>>]
  <2>1. IsFiniteSet(Pairs)
    <3>1. IsFiniteSet(0..rawPos)
      BY <1>4, FS_Interval
    <3> QED BY <3>1, FS_Product
  <2>2. f \in [kept -> Pairs]
    BY <1>5, <1>6
  <2>3. \A s, r \in kept : f[s] = f[r] => s = r
    <3> SUFFICES ASSUME NEW s \in kept, NEW r \in kept, f[s] = f[r] PROVE s = r
      OBVIOUS
    <3>1. s.start = r.start /\ s.end = r.end
      OBVIOUS
    <3>2. s = [start |-> s.start, end |-> s.end] /\ r = [start |-> r.start, end |-> r.end]
      BY <1>5, <1>6
    <3> QED BY <3>1, <3>2
  <2> HIDE DEF f, Pairs
  <2>4. f \in Injection(kept, Pairs)
    BY <2>2, <2>3 DEF Injection, IsInjective
  <2> QED BY <2>1, <2>4, FS_Injection
<1>8. PICK N \in Nat \ {0} : N = Cardinality(kept)
  BY <1>2, <1>7, FS_CardinalityType, FS_EmptySet
<1>9. spans' \in [1..N -> kept]
  BY <1>2, <1>8 DEF SetToSeqs
<1>10. \A i \in 1..N : spans'[i] \in kept
  BY <1>9
<1>11. \A i \in 1..N : spans'[i] \in Spans /\ InBody(spans'[i], rawPos + 1) /\ WholeSpan(spans'[i])
  BY <1>5, <1>6, <1>10
<1>12. spans' \in Seq(Spans) /\ Len(spans') = N
  <2>1. spans' \in [1..N -> Spans]
    BY <1>9, <1>11
  <2> QED BY <2>1
<1>13. \A i \in 1..Len(spans') : InBody(spans'[i], size')
  BY <1>3, <1>11, <1>12
<1>14. written' = 0 /\ pos' = 0 /\ out' = <<>> /\ done' = FALSE
  BY <1>3 DEF RequestInv
<1>15. size' \in Nat
  BY <1>3, <1>4
<1> QED BY <1>2, <1>11, <1>12, <1>13, <1>14, <1>15 DEF Entered, SortedByStart

LEMMA EnteredMasks == Entered' => MaskInv'
  BY MaskEnter, PTL

LEMMA RequestStarts == RequestInit => RequestInv
<1> SUFFICES ASSUME RequestInit PROVE RequestInv
  OBVIOUS
<1>1. ParseInv
  BY ParseStarts DEF RequestInit
<1> QED BY <1>1 DEF RequestInit, RequestInv

LEMMA RequestKeeps ==
  ASSUME RequestInv, [RequestNext]_requestVars
  PROVE  RequestInv'
<1>1. CASE Decode
  <2>1. ParseInv' /\ spans' = spans /\ spans = <<>> /\ UNCHANGED vars
    BY <1>1, ParseKeeps DEF Decode, RequestInv, vars
  <2> QED BY <2>1 DEF RequestInv, vars
<1>2. ASSUME UNCHANGED parseVars
      PROVE  /\ ParseInv' /\ stage' = stage /\ rawPos' = rawPos /\ starts' = starts
             /\ \A s : WholeSpan(s)' <=> WholeSpan(s)
  <2>1. UNCHANGED <<stage, rawPos, text, single, escaped, starts, ranges, at, open, leaf, leafRanges>>
    BY <1>2 DEF parseVars, outerVars, leafVars
  <2>2. (OuterTypes /\ CharsInOrder /\ TextInOrder /\ OuterEdges /\ SingleBytes)'
    BY <2>1 DEF RequestInv, ParseInv, OuterTypes, CharsInOrder, TextInOrder, OuterEdges,
                SingleBytes, RawEnd, Begins, Ends
  <2>3. (LeafTypes /\ LeafEdges)'
    BY <2>1 DEF RequestInv, ParseInv, LeafTypes, LeafEdges
  <2>4. \A s : WholeSpan(s)' <=> WholeSpan(s)
    BY <2>1 DEF WholeSpan, RawEnd
  <2> QED BY <2>1, <2>2, <2>3, <2>4 DEF ParseInv
<1>3. CASE ScanRequestBody
  <2>1. /\ Entered' /\ \A i \in 1..Len(spans') : WholeSpan(spans'[i])
    BY <1>3, ScanEnters
  <2>2. UNCHANGED parseVars /\ size' = rawPos + 1 /\ stage = "parsed"
    BY <1>3 DEF ScanRequestBody
  <2>3. MaskInv'
    BY <2>1, EnteredMasks
  <2>4. spans' # <<>>
    BY <2>1 DEF Entered
  <2>5. \A i \in 1..Len(spans') : WholeSpan(spans[i])'
    <3>1. starts' = starts /\ rawPos' = rawPos
      BY <2>2 DEF parseVars, outerVars
    <3> QED BY <2>1, <3>1 DEF WholeSpan, RawEnd
  <2> QED BY <1>2, <2>2, <2>3, <2>4, <2>5 DEF RequestInv
<1>4. CASE Mask
  <2>1. /\ spans # <<>> /\ UNCHANGED parseVars /\ (Take \/ Star \/ Finish) /\ MaskInv
    BY <1>4 DEF Mask, Next, RequestInv
  <2>2. MaskInv'
    BY <2>1, MaskTake, MaskStar, MaskFinish
  <2>3. spans' = spans /\ size' = size
    BY <2>1 DEF Take, Star, Finish
  <2>4. \A i \in 1..Len(spans') : WholeSpan(spans[i])'
    <3>1. starts' = starts /\ rawPos' = rawPos
      BY <2>1 DEF parseVars, outerVars
    <3>2. \A i \in 1..Len(spans) : WholeSpan(spans[i])
      BY <2>1 DEF RequestInv
    <3>3. \A i \in 1..Len(spans) : WholeSpan(spans[i])'
      BY <2>3, <3>1, <3>2 DEF WholeSpan, RawEnd
    <3> QED BY <2>3, <3>3
  <2>5. ParseInv' /\ stage' = "parsed" /\ size' = rawPos' + 1
    BY <1>2, <2>1, <2>3 DEF RequestInv
  <2> QED BY <2>1, <2>2, <2>3, <2>4, <2>5 DEF RequestInv
<1>5. CASE UNCHANGED requestVars
  <2>1. UNCHANGED parseVars /\ UNCHANGED vars
    BY <1>5 DEF requestVars
  <2>2. UNCHANGED <<size, spans, taken, merged, written, pos, out, done>>
    BY <2>1 DEF vars
  <2>3. MaskInv => MaskInv'
    BY <2>2 DEF MaskInv, MaskTypes, Apart, StillToCome, MergeKeepsCover, Prefix, MasksExactly
  <2>4. spans # <<>> => \A i \in 1..Len(spans') : WholeSpan(spans[i])'
    <3>1. starts' = starts /\ rawPos' = rawPos
      BY <2>1 DEF parseVars, outerVars
    <3>2. spans # <<>> => \A i \in 1..Len(spans) : WholeSpan(spans[i])
      BY DEF RequestInv
    <3>3. \A i \in 1..Len(spans) : WholeSpan(spans[i])' <=> WholeSpan(spans[i])
      BY <2>2, <3>1 DEF WholeSpan, RawEnd
    <3>4. spans' = spans
      BY <2>2
    <3> QED BY <3>2, <3>3, <3>4
  <2> QED BY <1>2, <2>1, <2>2, <2>3, <2>4 DEF RequestInv
<1> QED BY <1>1, <1>3, <1>4, <1>5 DEF RequestNext

\* A span of whole characters covers all bytes of a character or none.
LEMMA WholeOrNot ==
  ASSUME ParseInv, NEW s, WholeSpan(s), NEW k \in 1..Len(starts),
         NEW p \in (starts[k] + 1)..RawEnd(k), NEW q \in (starts[k] + 1)..RawEnd(k),
         s.start < p, p <= s.end
  PROVE  s.start < q /\ q <= s.end
<1>1. PICK a \in 1..Len(starts) : \E b \in 1..Len(starts) :
        s = [start |-> starts[a], end |-> RawEnd(b)]
  BY DEF WholeSpan
<1>2. PICK b \in 1..Len(starts) : s = [start |-> starts[a], end |-> RawEnd(b)]
  BY <1>1
<1>3. s.start = starts[a] /\ s.end = RawEnd(b)
  BY <1>2
<1>4. PICK n \in Nat : n = Len(starts)
  BY DEF ParseInv, OuterTypes
<1>5. \A i \in 1..n : starts[i] \in Nat /\ RawEnd(i) \in Nat /\ starts[i] < RawEnd(i)
  BY <1>4, CharSpan
<1>6. \A i, j \in 1..n : i < j => RawEnd(i) <= starts[j]
  BY <1>4 DEF ParseInv, CharsInOrder
<1>7. starts[a] <= starts[k]
  <2>1. CASE a <= k
    BY <1>4, <1>5, <1>6, <2>1
  <2>2. CASE k < a
    <3>1. RawEnd(k) <= starts[a]
      BY <1>4, <1>6, <2>2
    <3> QED BY <1>3, <1>4, <1>5, <3>1
  <2> QED BY <1>4, <2>1, <2>2
<1>8. RawEnd(k) <= RawEnd(b)
  <2>1. CASE k <= b
    BY <1>4, <1>5, <1>6, <2>1
  <2>2. CASE b < k
    <3>1. RawEnd(b) <= starts[k]
      BY <1>4, <1>6, <2>2
    <3> QED BY <1>3, <1>4, <1>5, <3>1
  <2> QED BY <1>4, <2>1, <2>2
<1> QED BY <1>3, <1>4, <1>5, <1>7, <1>8

LEMMA RequestInvImplies ==
  ASSUME RequestInv
  PROVE  EscapesAreNeverSplit /\ MasksExactly /\ SlicesInOrder
<1>1. CASE spans = <<>>
  <2>1. /\ ~done /\ taken = 0 /\ Len(spans) = 0 /\ written = 0 /\ Len(merged) = 0
        /\ pos = 0 /\ size = 0
    BY <1>1 DEF RequestInv
  <2> QED BY <2>1 DEF EscapesAreNeverSplit, MasksExactly, SlicesInOrder
<1>2. CASE spans # <<>>
  <2>1. MaskInv /\ ParseInv /\ size = rawPos + 1 /\ \A i \in 1..Len(spans) : WholeSpan(spans[i])
    BY <1>2 DEF RequestInv
  <2>2. MasksExactly /\ SlicesInOrder
    BY <2>1, SlicesFollow DEF MaskInv
  <2>3. PICK L \in Nat : L = Len(spans)
    BY <2>1 DEF MaskInv, MaskTypes
  <2>4. rawPos \in Nat \ {0}
    BY <2>1 DEF ParseInv, OuterTypes
  <2>5. ASSUME NEW i \in 1..L
        PROVE  ~(spans[i].start < 1) /\ ~(size <= spans[i].end)
    <3>1. PICK a \in 1..Len(starts) : \E b \in 1..Len(starts) :
            spans[i] = [start |-> starts[a], end |-> RawEnd(b)]
      BY <2>1, <2>3 DEF WholeSpan
    <3>2. PICK b \in 1..Len(starts) : spans[i] = [start |-> starts[a], end |-> RawEnd(b)]
      BY <3>1
    <3>3. /\ starts[a] \in Nat /\ RawEnd(b) \in Nat /\ 1 <= starts[a] /\ RawEnd(b) <= rawPos
      BY <2>1, CharSpan
    <3> QED BY <2>1, <2>4, <3>2, <3>3
  <2>6. ASSUME done PROVE out[1] = 1 /\ out[size] = size
    <3>1. ~Covered(spans, L, 1) /\ ~Covered(spans, L, size)
      BY <2>5 DEF Covered
    <3>2. 1 \in 1..size /\ size \in 1..size
      BY <2>1, <2>4
    <3> QED BY <2>2, <2>3, <2>6, <3>1, <3>2 DEF MasksExactly
  <2>7. ASSUME done, NEW k \in 1..Len(starts),
               NEW p \in (starts[k] + 1)..RawEnd(k), NEW q \in (starts[k] + 1)..RawEnd(k),
               out[p] = 0
        PROVE  out[q] = 0
    <3>1. starts[k] \in Nat /\ RawEnd(k) \in Nat /\ RawEnd(k) <= rawPos
      BY <2>1, CharSpan
    <3>2. p \in 1..size /\ q \in 1..size
      BY <2>1, <2>4, <3>1
    <3>3. p # 0 /\ Covered(spans, L, p)
      BY <2>2, <2>3, <2>7, <3>2 DEF MasksExactly
    <3>4. PICK i \in 1..L : spans[i].start < p /\ p <= spans[i].end
      BY <3>3 DEF Covered
    <3>5. WholeSpan(spans[i])
      BY <2>1, <2>3
    <3>6. spans[i].start < q /\ q <= spans[i].end
      BY <2>1, <3>4, <3>5, WholeOrNot
    <3>7. Covered(spans, L, q)
      BY <3>6 DEF Covered
    <3> QED BY <2>2, <2>3, <2>7, <3>2, <3>7 DEF MasksExactly
  <2>8. DOMAIN starts = 1..Len(starts)
    BY <2>1, LenProperties DEF ParseInv, OuterTypes
  <2> QED BY <2>2, <2>6, <2>7, <2>8 DEF EscapesAreNeverSplit
<1> QED BY <1>1, <1>2

\* The parser's and the mask's invariants hold together along a whole request.
THEOREM RequestInvariant == RequestSpec => []RequestInv
  BY RequestStarts, RequestKeeps, PTL DEF RequestSpec

\* A match in the decoded string, or in the JSON nested in it, is located in the
\* body exactly at the characters that spell it (parseString,
\* composeByteRanges), for strings of any length.
THEOREM SpansKeepCharactersWhole == RequestSpec => []SpansAreWholeCharacters
<1>1. RequestInv => SpansAreWholeCharacters
  BY ParseInvImplies DEF RequestInv
<1> QED BY <1>1, RequestInvariant, PTL

\* No match is lost on its way to maskBody: scanRequestBody drops none.
THEOREM NoMatchIsDropped == RequestSpec => []MatchesCanBeMasked
<1>1. RequestInv => MatchesCanBeMasked
  BY ParseInvImplies DEF RequestInv
<1> QED BY <1>1, RequestInvariant, PTL

\* A masked request body is still JSON: the quotes stay, and no escape and no
\* multi-byte character is starred in part.
THEOREM NoEscapeIsSplit == RequestSpec => []EscapesAreNeverSplit
<1>1. RequestInv => EscapesAreNeverSplit
  BY RequestInvImplies
<1> QED BY <1>1, RequestInvariant, PTL

\* The exactness of the mask holds of the spans scanRequestBody finds, too.
THEOREM RequestMaskingIsExact == RequestSpec => [](MasksExactly /\ SlicesInOrder)
<1>1. RequestInv => MasksExactly /\ SlicesInOrder
  BY RequestInvImplies
<1> QED BY <1>1, RequestInvariant, PTL
=============================================================================
