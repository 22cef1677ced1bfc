--------------------------- MODULE ExchangeProofs ---------------------------
(***************************************************************************)
(* Proofs about the two readers of provider JSON: for every way of reading *)
(* any stream, the tokens are its frames; for every token and every set of *)
(* starred offsets, a masked token is one token that reads as the one it   *)
(* came from, with just those offsets starred when its names are spelt     *)
(* exactly; and for every path through a request body, what is not scanned *)
(* is reported and nothing scanned is.                                     *)
(***************************************************************************)
EXTENDS Exchange, LoopProofs

-----------------------------------------------------------------------------
(***************************************************************************)
(* Sequences put one behind the other.                                     *)
(***************************************************************************)
Flattens(f, ss) ==
  f = [i \in 1..Len(ss) |-> IF i = 1 THEN ss[i] ELSE f[i - 1] \o ss[i]]

LEMMA FlattenedIs ==
  ASSUME NEW ss, Len(ss) # 0, NEW f, Flattens(f, ss), \A g : Flattens(g, ss) => g = f
  PROVE  FlattenSeq(ss) = f[Len(ss)]
<1>1. (CHOOSE g : Flattens(g, ss)) = f
  OBVIOUS
<1> QED BY <1>1 DEF FlattenSeq, Flattens

LEMMA FlattensAtEach ==
  ASSUME NEW ss, Len(ss) \in Nat, NEW f, Flattens(f, ss)
  PROVE  \A i \in 1..Len(ss) : f[i] = IF i = 1 THEN ss[i] ELSE f[i - 1] \o ss[i]
BY Zenon DEF Flattens

LEMMA FlattensOnce ==
  ASSUME NEW ss, Len(ss) \in Nat, NEW f, NEW g, Flattens(f, ss), Flattens(g, ss)
  PROVE  g = f
<1> DEFINE S == {n \in Nat : n + 1 <= Len(ss) => g[n + 1] = f[n + 1]}
<1>1. \A i \in 1..Len(ss) : f[i] = IF i = 1 THEN ss[i] ELSE f[i - 1] \o ss[i]
  BY FlattensAtEach, Zenon
<1>2. \A i \in 1..Len(ss) : g[i] = IF i = 1 THEN ss[i] ELSE g[i - 1] \o ss[i]
  BY FlattensAtEach, Zenon
<1>3. 0 \in S
  <2> SUFFICES ASSUME 1 <= Len(ss) PROVE g[1] = f[1]
    OBVIOUS
  <2>1. 1 \in 1..Len(ss)
    OBVIOUS
  <2> QED BY <1>1, <1>2, <2>1
<1>4. ASSUME NEW n \in Nat, n \in S PROVE n + 1 \in S
  <2> SUFFICES ASSUME (n + 1) + 1 <= Len(ss) PROVE g[(n + 1) + 1] = f[(n + 1) + 1]
    OBVIOUS
  <2>1. (n + 1) + 1 \in 1..Len(ss) /\ (n + 1) + 1 # 1 /\ ((n + 1) + 1) - 1 = n + 1 /\ n + 1 <= Len(ss)
    OBVIOUS
  <2>2. g[n + 1] = f[n + 1]
    BY <1>4, <2>1
  <2> QED BY <1>1, <1>2, <2>1, <2>2
<1>5. \A n \in Nat : n \in S
  <2> HIDE DEF S
  <2> QED BY <1>3, <1>4, Counting
<1>6. ASSUME NEW i \in 1..Len(ss) PROVE g[i] = f[i]
  <2>1. i - 1 \in Nat /\ (i - 1) + 1 = i /\ i <= Len(ss)
    OBVIOUS
  <2> QED BY <1>5, <2>1
<1>7. g = [i \in 1..Len(ss) |-> g[i]] /\ f = [i \in 1..Len(ss) |-> f[i]]
  BY Zenon DEF Flattens
<1>8. [i \in 1..Len(ss) |-> g[i]] = [i \in 1..Len(ss) |-> f[i]]
  BY <1>6
<1> QED BY <1>7, <1>8, Zenon

\* Sequences flattened are a sequence; one more sequence comes at the end.
FlattenGrowsIn(B) ==
  /\ FlattenSeq(<<>>) = <<>>
  /\ \A ss \in Seq(Seq(B)) : FlattenSeq(ss) \in Seq(B)
  /\ \A ss \in Seq(Seq(B)), s \in Seq(B) : FlattenSeq(Append(ss, s)) = FlattenSeq(ss) \o s

LEMMA FlattenGrows == \A B : FlattenGrowsIn(B)
<1> SUFFICES ASSUME NEW B PROVE FlattenGrowsIn(B)
  OBVIOUS
<1> DEFINE cat == [t \in Seq(B) |-> [s \in Seq(B) |-> t \o s]]
<1>1. cat \in [Seq(B) -> [Seq(B) -> Seq(B)]] /\ \A t, s \in Seq(B) : cat[t][s] = t \o s
  <2>1. \A t, s \in Seq(B) : t \o s \in Seq(B)
    BY ConcatProperties
  <2> QED BY <2>1
<1>2. <<>> \in Seq(B) /\ <<>> \in Seq(Seq(B)) /\ Len(<<>>) = 0
  BY EmptySeq
<1> HIDE DEF cat
<1>3. Unrolls(cat, <<>>, Seq(B), Seq(B))
  BY <1>1, <1>2, CarriedGrows
<1>4. ASSUME NEW ss \in Seq(Seq(B)) PROVE FlattenSeq(ss) = Carried(cat, <<>>, ss)
  <2>0. Len(ss) \in Nat
    BY LenProperties
  <2>1. CASE Len(ss) = 0
    <3>1. ss = <<>>
      BY <2>1, EmptySeq
    <3> QED BY <1>2, <1>3, <3>1 DEF FlattenSeq, Unrolls
  <2>2. CASE Len(ss) # 0
    <3> DEFINE F(i) == Carried(cat, <<>>, SubSeq(ss, 1, i))
               f == [i \in 1..Len(ss) |-> F(i)]
    <3>1. ASSUME NEW i \in 1..Len(ss) PROVE F(i) = IF i = 1 THEN ss[i] ELSE F(i - 1) \o ss[i]
      <4>1. i - 1 \in Nat /\ i - 1 < Len(ss) /\ (i - 1) + 1 = i
        BY <2>0
      <4>2. ss[i] \in Seq(B) /\ SubSeq(ss, 1, i - 1) \in Seq(Seq(B))
            /\ SubSeq(ss, 1, i) = Append(SubSeq(ss, 1, i - 1), ss[i])
        <5> DEFINE n == i - 1
        <5>1. n \in Nat /\ n < Len(ss) /\ n + 1 = i
          BY <4>1
        <5> HIDE DEF n
        <5>2. ss[n + 1] \in Seq(B) /\ SubSeq(ss, 1, n) \in Seq(Seq(B))
              /\ SubSeq(ss, 1, n + 1) = Append(SubSeq(ss, 1, n), ss[n + 1])
          BY <5>1, LastSplits
        <5> QED BY <5>1, <5>2 DEF n
      <4>3. F(i - 1) \in Seq(B) /\ F(i) = cat[F(i - 1)][ss[i]]
        BY <1>3, <4>2 DEF Unrolls
      <4>4. F(i) = F(i - 1) \o ss[i]
        BY <1>1, <4>2, <4>3
      <4>5. CASE i = 1
        <5>1. SubSeq(ss, 1, 0) = <<>>
          BY <2>0, SubSeqProperties
        <5>a. Carried(cat, <<>>, <<>>) = <<>> /\ i - 1 = 0
          BY <1>3, <4>5 DEF Unrolls
        <5>2. F(i - 1) = <<>>
          BY <5>1, <5>a
        <5>3. <<>> \o ss[i] = ss[i]
          BY <4>2, ConcatEmptySeq
        <5> QED BY <4>4, <4>5, <5>2, <5>3
      <4>6. CASE i # 1
        BY <4>4, <4>6
      <4> QED BY <4>5, <4>6
    <3> HIDE DEF F
    <3>2. Flattens(f, ss)
      <4>1. \A i \in 1..Len(ss) : i # 1 => i - 1 \in 1..Len(ss)
        BY <2>0
      <4>2. \A i \in 1..Len(ss) : F(i) = IF i = 1 THEN ss[i] ELSE f[i - 1] \o ss[i]
        BY <3>1, <4>1
      <4> QED BY <4>2 DEF Flattens
    <3> HIDE DEF f
    <3>3. FlattenSeq(ss) = f[Len(ss)]
      BY <2>0, <2>2, <3>2, FlattensOnce, FlattenedIs
    <3>4. f[Len(ss)] = F(Len(ss))
      BY <2>0, <2>2 DEF f
    <3>5. SubSeq(ss, 1, Len(ss)) = ss
      BY SubSeqFull
    <3> QED BY <3>3, <3>4, <3>5 DEF F
  <2> QED BY <2>1, <2>2
<1>5. FlattenSeq(<<>>) = <<>>
  BY <1>2, <1>3, <1>4 DEF Unrolls
<1>6. \A ss \in Seq(Seq(B)) : FlattenSeq(ss) \in Seq(B)
  BY <1>3, <1>4 DEF Unrolls
<1>7. ASSUME NEW ss \in Seq(Seq(B)), NEW s \in Seq(B)
      PROVE  FlattenSeq(Append(ss, s)) = FlattenSeq(ss) \o s
  <2>1. Append(ss, s) \in Seq(Seq(B))
    BY AppendProperties
  <2>2. Carried(cat, <<>>, Append(ss, s)) = cat[Carried(cat, <<>>, ss)][s]
        /\ Carried(cat, <<>>, ss) \in Seq(B)
    BY <1>3 DEF Unrolls
  <2> QED BY <1>1, <1>4, <2>1, <2>2
<1> QED BY <1>5, <1>6, <1>7 DEF FlattenGrowsIn

-----------------------------------------------------------------------------
(***************************************************************************)
(* readSSEChunks: the stream is cut into its frames.                       *)
(***************************************************************************)
LEMMA WireIsBytes == \A s \in Streams : s \in Seq(Byte)
<1>1. LineContents \subseteq LineByte
  BY SSEAssumption DEF LineContents, LineByte, Whole, Head1, Tail2, Event, Comment, Ignored, CR
<1>2. NL \in Byte /\ CR \in Byte /\ LineByte \subseteq Byte
  BY DEF Byte, LineByte
<1>3. <<NL>> \in Seq(Byte) /\ <<CR, NL>> \in Seq(Byte) /\ <<>> \in Seq(Byte)
  BY <1>2
<1>4. \A l \in LineContents : <<l>> \in Seq(Byte)
  BY <1>1, <1>2
<1>5. ASSUME NEW max \in Nat, NEW n \in 1..max, NEW c \in [1..n -> {<<>>} \cup {<<l>> : l \in LineContents}],
             NEW eol \in {<<NL>>, <<CR, NL>>}
      PROVE  FlattenSeq([k \in DOMAIN c |-> c[k] \o eol]) \in Seq(Byte)
  <2> DEFINE ls == [k \in DOMAIN c |-> c[k] \o eol]
  <2>1. \A k \in 1..n : c[k] \in Seq(Byte)
    BY <1>3, <1>4
  <2>2. \A k \in 1..n : c[k] \o eol \in Seq(Byte)
    BY <1>3, <2>1, ConcatProperties
  <2>3. DOMAIN c = 1..n /\ n \in Nat
    OBVIOUS
  <2>4. ls \in Seq(Seq(Byte))
    <3>1. ls \in [1..n -> Seq(Byte)]
      BY <2>2, <2>3
    <3> HIDE DEF ls
    <3> QED BY <2>3, <3>1, SeqDef
  <2> HIDE DEF ls
  <2>5. FlattenSeq(ls) \in Seq(Byte)
    BY <2>4, FlattenGrows DEF FlattenGrowsIn
  <2> QED BY <2>5 DEF ls
<1> SUFFICES ASSUME NEW s \in Streams PROVE s \in Seq(Byte)
  OBVIOUS
<1>0. PICK max \in Nat : \E c \in Contents(max) : \E eol \in {<<NL>>, <<CR, NL>>} : s = Wire(c, eol)
  BY SSEAssumption DEF Streams
<1>6. PICK c \in Contents(max), eol \in {<<NL>>, <<CR, NL>>} : s = Wire(c, eol)
  BY <1>0
<1>7. PICK n \in 1..max : c \in [1..n -> {<<>>} \cup {<<l>> : l \in LineContents}]
  BY DEF Contents
<1> QED BY <1>5, <1>6, <1>7, Zenon DEF Wire

\* No blank line ends before the last byte of t.
Framed(t) == \A i \in 1..(Len(t) - 1) : ~BlankAt(t, i)

FrameInv ==
  /\ sent \in Seq(Byte) /\ wire \in Seq(Byte) /\ buf \in Seq(Byte) /\ tokens \in Seq(Seq(Byte))
  /\ FlattenSeq(tokens) \o buf \o wire = sent
  /\ \A k \in 1..Len(tokens) :
       /\ tokens[k] # <<>> /\ Framed(tokens[k])
       /\ BlankAt(tokens[k], Len(tokens[k])) \/ (k = Len(tokens) /\ wire = <<>> /\ buf = <<>>)
  /\ fate # "answered" => sent = <<>> /\ wire = <<>> /\ buf = <<>> /\ tokens = <<>> /\ over = FALSE

\* The first blank line of b, if it has one, ends at FrameEnd.
LEMMA FrameEndIsFirst ==
  ASSUME NEW b \in Seq(Byte), HasFrame(b)
  PROVE  /\ FrameEnd(b) \in 1..Len(b) /\ BlankAt(b, FrameEnd(b))
         /\ \A j \in 1..(FrameEnd(b) - 1) : ~BlankAt(b, j)
<1> DEFINE S == {i \in 1..Len(b) : BlankAt(b, i)}
<1>1. DOMAIN b = 1..Len(b) /\ Len(b) \in Nat
  BY LenProperties
<1>2. S \in SUBSET Nat /\ S # {}
  BY <1>1 DEF HasFrame
<1>3. PICK i \in S : \A j \in S : i <= j
  <2> HIDE DEF S
  <2> QED BY <1>2, LeastIndex
<1>4. \A j \in 1..(i - 1) : ~BlankAt(b, j)
  <2>1. \A j \in 1..(i - 1) : j \in 1..Len(b) /\ ~(i <= j)
    BY <1>1, <1>3
  <2> QED BY <1>3, <2>1
<1>5. i \in DOMAIN b /\ BlankAt(b, i) /\ \A j \in 1..(i - 1) : ~BlankAt(b, j)
  BY <1>1, <1>3, <1>4
<1> QED BY <1>1, <1>5 DEF FrameEnd

\* A beginning of b without what follows.
LEMMA CutInTwo ==
  ASSUME NEW B, NEW b \in Seq(B), NEW n \in 0..Len(b)
  PROVE  /\ SubSeq(b, 1, n) \in Seq(B) /\ SubSeq(b, n + 1, Len(b)) \in Seq(B)
         /\ Len(SubSeq(b, 1, n)) = n /\ Len(SubSeq(b, n + 1, Len(b))) = Len(b) - n
         /\ \A i \in 1..n : SubSeq(b, 1, n)[i] = b[i]
         /\ SubSeq(b, 1, n) \o SubSeq(b, n + 1, Len(b)) = b
<1>0. Len(b) \in Nat /\ n \in Nat
  BY LenProperties
<1>1. SubSeq(b, 1, n) \in Seq(B) /\ Len(SubSeq(b, 1, n)) = n
      /\ \A i \in 1..n : SubSeq(b, 1, n)[i] = b[i]
  BY <1>0, SubSeqProperties
<1>2. SubSeq(b, n + 1, Len(b)) \in Seq(B) /\ Len(SubSeq(b, n + 1, Len(b))) = Len(b) - n
      /\ \A i \in 1..(Len(b) - n) : SubSeq(b, n + 1, Len(b))[i] = b[n + i]
  <2> DEFINE u == SubSeq(b, n + 1, Len(b))
  <2>1. CASE n = Len(b)
    <3>1. u = <<>>
      BY <1>0, <2>1, SubSeqEmpty
    <3>2. Len(b) - n = 0 /\ u \in Seq(B) /\ Len(u) = 0
      BY <1>0, <2>1, <3>1, EmptySeq
    <3> QED BY <3>2
  <2>2. CASE n # Len(b)
    <3>1. n + 1 \in Int /\ Len(b) \in Int /\ n + 1 <= Len(b) /\ Len(b) - (n + 1) + 1 = Len(b) - n
      BY <1>0, <2>2
    <3>a. \A i \in n + 1..Len(b) : b[i] \in B
      BY <1>0, ElementOfSeq
    <3>2. u \in Seq(B) /\ Len(u) = Len(b) - (n + 1) + 1
          /\ \A i \in 1..(Len(b) - (n + 1) + 1) : u[i] = b[(n + 1) + i - 1]
      <4> DEFINE m == n + 1
      <4>1. m \in Int /\ Len(b) \in Int /\ m <= Len(b) /\ \A i \in m..Len(b) : b[i] \in B
        BY <3>1, <3>a
      <4> HIDE DEF m
      <4>2. u = SubSeq(b, m, Len(b))
        BY DEF m
      <4> HIDE DEF u
      <4>3. u \in Seq(B) /\ Len(u) = Len(b) - m + 1
            /\ \A i \in 1..(Len(b) - m + 1) : u[i] = b[m + i - 1]
        BY <4>1, <4>2, SubSeqProperties
      <4> QED BY <4>3 DEF m
    <3> HIDE DEF u
    <3>3. \A i \in 1..(Len(b) - n) : (n + 1) + i - 1 = n + i
      BY <1>0
    <3>4. \A i \in 1..(Len(b) - n) : u[i] = b[n + i]
      BY <3>1, <3>2, <3>3
    <3> QED BY <3>1, <3>2, <3>4 DEF u
  <2> QED BY <2>1, <2>2
<1>3. SubSeq(b, 1, n) \o SubSeq(b, n + 1, Len(b)) = b
  <2>1. 1 \in 1..Len(b) + 1 /\ n \in 1 - 1..Len(b) /\ Len(b) \in n..Len(b)
    BY <1>0
  <2>2. SubSeq(b, 1, n) \o SubSeq(b, n + 1, Len(b)) = SubSeq(b, 1, Len(b))
    BY <2>1, ConcatAdjacentSubSeq
  <2> QED BY <2>2, SubSeqFull
<1> QED BY <1>1, <1>2, <1>3

Grouped(f, b, w, r) == (f \o (b \o w)) \o r = (f \o b) \o (w \o r)

LEMMA Regroups == \A B : \A f, b, w, r \in Seq(B) : Grouped(f, b, w, r)
<1> SUFFICES ASSUME NEW B, NEW f \in Seq(B), NEW b \in Seq(B), NEW w \in Seq(B), NEW r \in Seq(B)
             PROVE  Grouped(f, b, w, r)
  OBVIOUS
<1>1. f \o b \in Seq(B)
  BY ConcatProperties
<1>2. (f \o b) \o w = f \o (b \o w)
  BY ConcatAssociative, SMTT(60)
<1>3. ((f \o b) \o w) \o r = (f \o b) \o (w \o r)
  BY <1>1, ConcatAssociative, SMTT(60)
<1> QED BY <1>2, <1>3 DEF Grouped

LEMMA AReadKeepsFrames == FrameInv /\ fate = "answered" /\ Read /\ UNCHANGED <<path, walkVars>> => FrameInv'
<1> SUFFICES ASSUME FrameInv, fate = "answered", Read, UNCHANGED <<path, walkVars>> PROVE FrameInv'
  OBVIOUS
<1>0. FlattenSeq(tokens) \in Seq(Byte) /\ Len(wire) \in Nat
  BY FlattenGrows DEF FrameInv, FlattenGrowsIn
<1>1. PICK n \in 1..Len(wire) : buf' = buf \o SubSeq(wire, 1, n) /\ wire' = SubSeq(wire, n + 1, Len(wire))
  BY DEF Read
<1>2. UNCHANGED <<sent, tokens, over, fate>>
  BY DEF Read, walkVars
<1> DEFINE w == SubSeq(wire, 1, n)
           r == SubSeq(wire, n + 1, Len(wire))
<1>3. n \in 0..Len(wire) /\ wire # <<>>
  BY <1>0
<1>4. w \in Seq(Byte) /\ r \in Seq(Byte) /\ w \o r = wire
  BY <1>3, CutInTwo DEF FrameInv
<1> HIDE DEF w, r
<1>5. buf' = buf \o w /\ wire' = r
  BY <1>1 DEF w, r
<1>6. buf \o w \in Seq(Byte)
  BY <1>4, ConcatProperties DEF FrameInv
<1>7. (FlattenSeq(tokens) \o (buf \o w)) \o r = (FlattenSeq(tokens) \o buf) \o wire
  <2>1. buf \in Seq(Byte) /\ FlattenSeq(tokens) \in Seq(Byte) /\ w \in Seq(Byte) /\ r \in Seq(Byte)
    BY <1>0, <1>4 DEF FrameInv
  <2>2. Grouped(FlattenSeq(tokens), buf, w, r)
    BY <2>1, Regroups
  <2> QED BY <1>4, <2>2 DEF Grouped
<1>8. \A k \in 1..Len(tokens) : tokens[k] # <<>> /\ Framed(tokens[k]) /\ BlankAt(tokens[k], Len(tokens[k]))
  BY <1>3, Zenon DEF FrameInv
<1> QED BY <1>2, <1>4, <1>5, <1>6, <1>7, <1>8 DEF FrameInv

\* A token that ends at the first blank line of b, and what is left.
LEMMA TheTokenIsAFrame ==
  ASSUME NEW b \in Seq(Byte), HasFrame(b)
  PROVE  LET t == SubSeq(b, 1, FrameEnd(b))
             r == SubSeq(b, FrameEnd(b) + 1, Len(b))
         IN  /\ t \in Seq(Byte) /\ r \in Seq(Byte) /\ t \o r = b
             /\ t # <<>> /\ Framed(t) /\ BlankAt(t, Len(t))
<1> DEFINE n == FrameEnd(b)
           t == SubSeq(b, 1, n)
           r == SubSeq(b, n + 1, Len(b))
<1>1. n \in 1..Len(b) /\ BlankAt(b, n) /\ \A j \in 1..(n - 1) : ~BlankAt(b, j)
  BY FrameEndIsFirst
<1>2. Len(b) \in Nat /\ n \in 0..Len(b) /\ n \in Nat
  <2> HIDE DEF n
  <2> QED BY <1>1, LenProperties
<1> HIDE DEF n
<1>3. t \in Seq(Byte) /\ r \in Seq(Byte) /\ t \o r = b /\ Len(t) = n /\ \A i \in 1..n : t[i] = b[i]
  BY <1>2, CutInTwo
<1> HIDE DEF t, r
<1>4. \A i \in 1..n : BlankAt(t, i) <=> BlankAt(b, i)
  <2> SUFFICES ASSUME NEW i \in 1..n PROVE BlankAt(t, i) <=> BlankAt(b, i)
    OBVIOUS
  <2>1. t[i] = b[i]
    BY <1>3
  <2>2. i > 1 => t[i - 1] = b[i - 1]
    BY <1>2, <1>3
  <2> QED BY <2>1, <2>2 DEF BlankAt
<1>5. n \in 1..n /\ \A i \in 1..(n - 1) : i \in 1..n
  BY <1>1, <1>2
<1>6. t # <<>> /\ Framed(t) /\ BlankAt(t, Len(t))
  <2>1. t # <<>>
    BY <1>1, <1>3, EmptySeq
  <2> QED BY <1>1, <1>3, <1>4, <1>5, <2>1 DEF Framed
<1> QED BY <1>3, <1>6 DEF n, t, r

LEMMA ATokenKeepsFrames ==
  FrameInv /\ fate = "answered" /\ (NextToken \/ LastToken) /\ UNCHANGED <<path, walkVars>> => FrameInv'
<1> SUFFICES ASSUME FrameInv, fate = "answered", NextToken \/ LastToken, UNCHANGED <<path, walkVars>>
             PROVE  FrameInv'
  OBVIOUS
<1>0. FlattenSeq(tokens) \in Seq(Byte) /\ Len(tokens) \in Nat
  BY FlattenGrows DEF FrameInv, FlattenGrowsIn
<1>1. UNCHANGED <<wire, sent, over, fate>>
  BY DEF NextToken, LastToken, walkVars
<1>2. \E t, r \in Seq(Byte) :
        /\ tokens' = Append(tokens, t) /\ buf' = r /\ t \o r = buf /\ buf # <<>>
        /\ t # <<>> /\ Framed(t)
        /\ BlankAt(t, Len(t)) \/ (wire = <<>> /\ r = <<>>)
  <2>1. CASE NextToken
    <3>1. HasFrame(buf) /\ buf \in Seq(Byte) /\ tokens' = Append(tokens, SubSeq(buf, 1, FrameEnd(buf)))
          /\ buf' = SubSeq(buf, FrameEnd(buf) + 1, Len(buf))
      BY <2>1 DEF NextToken, FrameInv
    <3> DEFINE t == SubSeq(buf, 1, FrameEnd(buf))
               r == SubSeq(buf, FrameEnd(buf) + 1, Len(buf))
    <3>2. /\ t \in Seq(Byte) /\ r \in Seq(Byte) /\ t \o r = buf
          /\ t # <<>> /\ Framed(t) /\ BlankAt(t, Len(t))
      BY <3>1, TheTokenIsAFrame
    <3>3. tokens' = Append(tokens, t) /\ buf' = r
      BY <3>1
    <3> HIDE DEF t, r
    <3>4. buf # <<>>
      BY <3>1, EmptySeq DEF HasFrame
    <3> QED BY <3>2, <3>3, <3>4
  <2>2. CASE LastToken
    <3>1. buf \o <<>> = buf /\ <<>> \in Seq(Byte)
      BY ConcatEmptySeq, EmptySeq DEF FrameInv
    <3>2. Framed(buf)
      <4>1. Len(buf) \in Nat /\ DOMAIN buf = 1..Len(buf)
        BY DEF FrameInv
      <4>2. \A i \in 1..(Len(buf) - 1) : i \in DOMAIN buf
        BY <4>1
      <4> QED BY <2>2, <4>2 DEF LastToken, HasFrame, Framed
    <3> QED BY <2>2, <3>1, <3>2 DEF LastToken, FrameInv
  <2> QED BY <2>1, <2>2
<1>3. PICK t \in Seq(Byte), r \in Seq(Byte) :
        /\ tokens' = Append(tokens, t) /\ buf' = r /\ t \o r = buf /\ buf # <<>>
        /\ t # <<>> /\ Framed(t)
        /\ BlankAt(t, Len(t)) \/ (wire = <<>> /\ r = <<>>)
  BY <1>2
<1>4. Append(tokens, t) \in Seq(Seq(Byte)) /\ Len(Append(tokens, t)) = Len(tokens) + 1
      /\ (\A i \in 1..Len(tokens) : Append(tokens, t)[i] = tokens[i])
      /\ Append(tokens, t)[Len(tokens) + 1] = t
  BY AppendProperties DEF FrameInv
<1>5. FlattenSeq(Append(tokens, t)) \o r \o wire = FlattenSeq(tokens) \o buf \o wire
  <2>1. FlattenSeq(Append(tokens, t)) = FlattenSeq(tokens) \o t
    BY FlattenGrows DEF FrameInv, FlattenGrowsIn
  <2> DEFINE F == FlattenSeq(tokens)
  <2> HIDE DEF F
  <2>2. (F \o t) \o r = F \o (t \o r)
    BY <1>0, ConcatAssociative, SMTT(60) DEF F
  <2> QED BY <1>3, <2>1, <2>2 DEF F
<1>6. \A k \in 1..Len(tokens) : tokens[k] # <<>> /\ Framed(tokens[k]) /\ BlankAt(tokens[k], Len(tokens[k]))
  BY <1>3, Zenon DEF FrameInv
<1>7. ASSUME NEW k \in 1..Len(tokens')
      PROVE  /\ tokens'[k] # <<>> /\ Framed(tokens'[k])
             /\ BlankAt(tokens'[k], Len(tokens'[k])) \/ (k = Len(tokens') /\ wire' = <<>> /\ buf' = <<>>)
  <2>0. Len(tokens') = Len(tokens) + 1
    BY <1>3, <1>4
  <2>1. k \in 1..Len(tokens) \/ k = Len(tokens) + 1
    BY <1>0, <2>0
  <2>2. CASE k \in 1..Len(tokens)
    <3>1. tokens'[k] = tokens[k]
      BY <1>3, <1>4, <2>2
    <3> QED BY <1>6, <2>2, <3>1
  <2>3. CASE k = Len(tokens) + 1
    BY <1>1, <1>3, <1>4, <2>3
  <2> QED BY <2>1, <2>2, <2>3
<1> QED BY <1>1, <1>3, <1>4, <1>5, <1>7 DEF FrameInv

LEMMA FramesHold == ExchangeSpec => []FrameInv
<1>1. ExchangeInit => FrameInv
  <2>1. FlattenSeq(<<>>) = <<>> /\ <<>> \in Seq(Byte) /\ <<>> \in Seq(Seq(Byte)) /\ Len(<<>>) = 0
    BY FlattenGrows, EmptySeq DEF FlattenGrowsIn
  <2>2. <<>> \o <<>> \o <<>> = <<>>
    BY <2>1, ConcatEmptySeq
  <2> QED BY <2>1, <2>2 DEF ExchangeInit, FrameInv
<1>2. FrameInv /\ [ExchangeNext]_exchangeVars => FrameInv'
  <2> SUFFICES ASSUME FrameInv, [ExchangeNext]_exchangeVars PROVE FrameInv'
    OBVIOUS
  <2>1. CASE RequestStep
    <3>1. UNCHANGED sseVars /\ fate # "answered"
      BY <2>1 DEF RequestStep
    <3> QED BY <3>1 DEF FrameInv, sseVars
  <2>2. CASE Respond
    <3>1. fate # "answered" /\ fate' = "answered" /\ UNCHANGED <<buf, tokens, over>> /\ wire' = sent' /\ sent' \in Seq(Byte)
      BY <2>2, WireIsBytes DEF Respond
    <3>2. FlattenSeq(<<>>) = <<>> /\ Len(<<>>) = 0 /\ tokens = <<>> /\ buf = <<>>
      BY <3>1, FlattenGrows, EmptySeq DEF FlattenGrowsIn, FrameInv
    <3>3. <<>> \o <<>> \o wire' = sent'
      BY <3>1, ConcatEmptySeq
    <3> QED BY <3>1, <3>2, <3>3 DEF FrameInv
  <2>3. CASE ResponseStep
    <3>1. CASE StopReading
      BY <2>3, <3>1 DEF ResponseStep, StopReading, FrameInv, walkVars
    <3> QED BY <2>3, <3>1, AReadKeepsFrames, ATokenKeepsFrames DEF ResponseStep
  <2>4. CASE UNCHANGED exchangeVars
    BY <2>4 DEF exchangeVars, sseVars, walkVars, FrameInv
  <2> QED BY <2>1, <2>2, <2>3, <2>4 DEF ExchangeNext
<1> QED BY <1>1, <1>2, PTL DEF ExchangeSpec

\* readSSEChunks: however the reads cut the stream, tokens put together with what
\* is left are what the upstream sent, and each is one frame (SSE.TokensAreTheFrames).
THEOREM TokensAreFramesOfEveryStream == ExchangeSpec => []TokensAreTheFrames
<1>1. FrameInv => TokensAreTheFrames
  <2> SUFFICES ASSUME FrameInv PROVE TokensAreTheFrames
    OBVIOUS
  <2>1. DOMAIN tokens = 1..Len(tokens)
    BY DEF FrameInv
  <2> QED BY <2>1 DEF FrameInv, TokensAreTheFrames, Framed
<1> QED BY <1>1, FramesHold, PTL

-----------------------------------------------------------------------------
(***************************************************************************)
(* bytes.Split and bytes.Join: a text is its lines joined, and lines that  *)
(* are joined are split again as they were.                                *)
(***************************************************************************)
LEMMA LinesAreBytes == NL \in Byte /\ (\A c \in Byte : c # NL => c \in LineByte) /\ \A l \in Line : l \in Seq(Byte)
<1>1. NL \in Byte /\ (\A c \in Byte : c # NL => c \in LineByte) /\ LineByte \subseteq Byte
  BY DEF Byte
<1>2. ASSUME NEW l \in Line PROVE l \in Seq(Byte)
  <2>1. l \in [1..Len(l) -> LineByte] /\ Len(l) \in Nat
    BY LenProperties DEF Line
  <2>2. l \in [1..Len(l) -> Byte]
    BY <1>1, <2>1
  <2> QED BY <2>1, <2>2, SeqDef
<1> QED BY <1>1, <1>2

Scan == [ended : Seq(Line), open : Line]

\* One byte more: a newline ends the open line, any other byte lengthens it.
SplitGrowsBy(t, c) ==
  Split(Append(t, c)) =
    IF c = NL THEN [ended |-> Append(Split(t).ended, Split(t).open), open |-> <<>>]
              ELSE [ended |-> Split(t).ended, open |-> Append(Split(t).open, c)]

LEMMA SplitGrows ==
  /\ Split(<<>>) = [ended |-> <<>>, open |-> <<>>]
  /\ \A t \in Seq(Byte) : Split(t) \in Scan /\ Split(t).ended \in Seq(Line) /\ Split(t).open \in Line
  /\ \A t \in Seq(Byte), c \in Byte : SplitGrowsBy(t, c)
<1> DEFINE start == [ended |-> <<>>, open |-> <<>>]
           step == [s \in [ended : Seq(Line), open : Line] |-> [c \in Byte |->
                      IF c = NL THEN [ended |-> Append(s.ended, s.open), open |-> <<>>]
                                ELSE [ended |-> s.ended, open |-> Append(s.open, c)]]]
<1>0. <<>> \in Line /\ <<>> \in Seq(Line)
  BY EmptySeq DEF Line
<1>1. start \in Scan
  BY <1>0 DEF Scan
<1>2. ASSUME NEW s \in Scan, NEW c \in Byte
      PROVE  (IF c = NL THEN [ended |-> Append(s.ended, s.open), open |-> <<>>]
                        ELSE [ended |-> s.ended, open |-> Append(s.open, c)]) \in Scan
  <2>1. s.ended \in Seq(Line) /\ s.open \in Line
    BY DEF Scan
  <2>2. Append(s.ended, s.open) \in Seq(Line)
    BY <2>1, AppendProperties
  <2>3. c # NL => Append(s.open, c) \in Line
    BY <2>1, LinesAreBytes, AppendProperties DEF Line
  <2> QED BY <1>0, <2>1, <2>2, <2>3 DEF Scan
<1>3. step \in [Scan -> [Byte -> Scan]]
  BY <1>2 DEF Scan
<1>4. \A s \in Scan, c \in Byte :
        step[s][c] = IF c = NL THEN [ended |-> Append(s.ended, s.open), open |-> <<>>]
                               ELSE [ended |-> s.ended, open |-> Append(s.open, c)]
  BY DEF Scan
<1>5. \A t : Split(t) = Carried(step, start, t)
  BY Zenon DEF Split
<1> HIDE DEF step, start
<1>6. Unrolls(step, start, Scan, Byte)
  BY <1>1, <1>3, CarriedGrows
<1>7. \A t \in Seq(Byte) : Split(t) \in Scan
  BY <1>5, <1>6 DEF Unrolls
<1>8. Split(<<>>) = start
  BY <1>5, <1>6 DEF Unrolls
<1>9. ASSUME NEW t \in Seq(Byte), NEW c \in Byte PROVE SplitGrowsBy(t, c)
  <2>1. Carried(step, start, Append(t, c)) = step[Carried(step, start, t)][c]
    BY <1>6, Zenon DEF Unrolls
  <2>2. Split(Append(t, c)) = step[Split(t)][c]
    BY <1>5, <2>1, Zenon
  <2> QED BY <1>4, <1>7, <2>2 DEF SplitGrowsBy
<1>10. \A t \in Seq(Byte) : Split(t).ended \in Seq(Line) /\ Split(t).open \in Line
  BY <1>7 DEF Scan
<1> QED BY <1>7, <1>8, <1>9, <1>10 DEF start

LEMMA LinesOf == \A t \in Seq(Byte) : Lines(t) \in Seq(Line) /\ Lines(t) # <<>>
BY SplitGrows, AppendProperties DEF Lines

\* A text that goes on in the same line.
GoesOn(u, l) == Split(u \o l) = [ended |-> Split(u).ended, open |-> Split(u).open \o l]

LEMMA SplitGoesOn == \A u \in Seq(Byte), l \in Line : GoesOn(u, l)
<1> SUFFICES ASSUME NEW u \in Seq(Byte) PROVE \A l \in Line : GoesOn(u, l)
  OBVIOUS
<1> DEFINE T == {l \in Line : GoesOn(u, l)}
<1>0. Split(u).ended \in Seq(Line) /\ Split(u).open \in Line /\ <<>> \in Line
      /\ Split(u) = [ended |-> Split(u).ended, open |-> Split(u).open]
  BY SplitGrows, EmptySeq DEF Line, Scan
<1>1. <<>> \in T
  <2>1. u \o <<>> = u /\ Split(u).open \o <<>> = Split(u).open
    BY <1>0, ConcatEmptySeq DEF Line
  <2> QED BY <1>0, <2>1 DEF GoesOn
<1>2. ASSUME NEW l \in Line, NEW c \in LineByte, GoesOn(u, l) PROVE GoesOn(u, Append(l, c))
  <2>1. l \in Seq(Byte) /\ c \in Byte /\ c # NL
    BY LinesAreBytes DEF Byte, LineByte, NL, Comment, Ignored, CR
  <2>2. u \o l \in Seq(Byte) /\ u \o Append(l, c) = Append(u \o l, c)
    <3>1. u \o l \in Seq(Byte) /\ Append(l, c) = l \o <<c>> /\ Append(u \o l, c) = (u \o l) \o <<c>>
      BY <2>1, ConcatProperties, AppendIsConcat
    <3>2. (u \o l) \o <<c>> = u \o (l \o <<c>>)
      BY <2>1, ConcatAssociative
    <3> QED BY <3>1, <3>2
  <2>3. Split(u).open \o Append(l, c) = Append(Split(u).open \o l, c)
    <3> DEFINE o == Split(u).open
    <3>0. o \in Seq(LineByte) /\ l \in Seq(LineByte)
      BY <1>0 DEF Line
    <3> HIDE DEF o
    <3>1. o \o l \in Seq(LineByte) /\ Append(l, c) = l \o <<c>> /\ Append(o \o l, c) = (o \o l) \o <<c>>
      BY <3>0, ConcatProperties, AppendIsConcat
    <3>2. (o \o l) \o <<c>> = o \o (l \o <<c>>)
      BY <3>0, ConcatAssociative
    <3>3. o \o Append(l, c) = Append(o \o l, c)
      BY <3>1, <3>2
    <3> QED BY <3>3 DEF o
  <2>4. SplitGrowsBy(u \o l, c)
    BY <2>1, <2>2, SplitGrows
  <2>5. Split(Append(u \o l, c)) = [ended |-> Split(u \o l).ended, open |-> Append(Split(u \o l).open, c)]
    BY <2>1, <2>4 DEF SplitGrowsBy
  <2> QED BY <1>2, <2>2, <2>3, <2>5 DEF GoesOn
<1>3. \A l \in Seq(LineByte) : l \in T
  <2>1. \A l \in Seq(LineByte), c \in LineByte : l \in T => Append(l, c) \in T
    BY <1>2, AppendProperties DEF Line
  <2> HIDE DEF T
  <2> QED BY <1>1, <2>1, TextInduction
<1> QED BY <1>3 DEF Line

\* A text that goes on with a new line; a text of one line.
LinesGoOn(u, l) == Lines((u \o <<NL>>) \o l) = Append(Lines(u), l)

LEMMA NewLineSplits == \A u \in Seq(Byte), l \in Line : LinesGoOn(u, l)
<1> SUFFICES ASSUME NEW u \in Seq(Byte), NEW l \in Line PROVE LinesGoOn(u, l)
  OBVIOUS
<1>1. NL \in Byte /\ u \o <<NL>> \in Seq(Byte) /\ u \o <<NL>> = Append(u, NL)
  BY LinesAreBytes, AppendIsConcat, AppendProperties
<1>2. SplitGrowsBy(u, NL)
  BY <1>1, SplitGrows
<1>3. Split(u \o <<NL>>) = [ended |-> Append(Split(u).ended, Split(u).open), open |-> <<>>]
  BY <1>1, <1>2 DEF SplitGrowsBy
<1>4. GoesOn(u \o <<NL>>, l)
  BY <1>1, SplitGoesOn
<1>5. <<>> \o l = l
  BY ConcatEmptySeq DEF Line
<1>6. Split((u \o <<NL>>) \o l) = [ended |-> Append(Split(u).ended, Split(u).open), open |-> l]
  <2>1. Split(u \o <<NL>>).ended = Append(Split(u).ended, Split(u).open) /\ Split(u \o <<NL>>).open = <<>>
    BY <1>3
  <2>2. Split((u \o <<NL>>) \o l) = [ended |-> Split(u \o <<NL>>).ended, open |-> Split(u \o <<NL>>).open \o l]
    BY <1>4, Zenon DEF GoesOn
  <2> QED BY <1>5, <2>1, <2>2, Zenon
<1> QED BY <1>6 DEF LinesGoOn, Lines

LEMMA OneLine == \A l \in Line : Lines(l) = <<l>>
<1> SUFFICES ASSUME NEW l \in Line PROVE Lines(l) = <<l>>
  OBVIOUS
<1>1. <<>> \in Seq(Byte) /\ <<>> \o l = l
  BY EmptySeq, ConcatEmptySeq DEF Line
<1>2. GoesOn(<<>>, l)
  BY <1>1, SplitGoesOn
<1>3. Split(l) = [ended |-> <<>>, open |-> l]
  <2>1. Split(<<>>) = [ended |-> <<>>, open |-> <<>>]
    BY SplitGrows, Zenon
  <2>2. Split(<<>>).ended = <<>> /\ Split(<<>>).open = <<>>
    BY <2>1
  <2>3. Split(<<>> \o l) = [ended |-> Split(<<>>).ended, open |-> Split(<<>>).open \o l]
    BY <1>2, Zenon DEF GoesOn
  <2> QED BY <1>1, <2>2, <2>3, Zenon
<1> QED BY <1>3 DEF Lines

\* bytes.Join: one line more comes behind a newline.
Marked(ls) == [k \in DOMAIN ls |-> <<NL>> \o ls[k]]

LEMMA MarkedGrows ==
  ASSUME NEW ls \in Seq(Line)
  PROVE  /\ Marked(ls) \in Seq(Seq(Byte))
         /\ \A l \in Line : Marked(Append(ls, l)) = Append(Marked(ls), <<NL>> \o l)
<1>0. \A l \in Line : <<NL>> \o l \in Seq(Byte)
  BY LinesAreBytes, ConcatProperties
<1>1. Len(ls) \in Nat /\ DOMAIN ls = 1..Len(ls) /\ \A k \in 1..Len(ls) : ls[k] \in Line
  BY LenProperties, ElementOfSeq
<1>2. Marked(ls) \in [1..Len(ls) -> Seq(Byte)]
  BY <1>0, <1>1 DEF Marked
<1>3. Marked(ls) \in Seq(Seq(Byte)) /\ Len(Marked(ls)) = Len(ls)
  <2>1. Marked(ls) \in Seq(Seq(Byte))
    BY <1>1, <1>2, SeqDef
  <2> QED BY <1>1, <1>2, <2>1, LenProperties
<1>4. ASSUME NEW l \in Line PROVE Marked(Append(ls, l)) = Append(Marked(ls), <<NL>> \o l)
  <2>1. Append(ls, l) \in Seq(Line) /\ Len(Append(ls, l)) = Len(ls) + 1
        /\ (\A i \in 1..Len(ls) : Append(ls, l)[i] = ls[i]) /\ Append(ls, l)[Len(ls) + 1] = l
    BY AppendProperties
  <2> DEFINE m == Append(Marked(ls), <<NL>> \o l)
             w == Append(ls, l)
  <2>2. m \in Seq(Seq(Byte)) /\ Len(m) = Len(ls) + 1
        /\ (\A i \in 1..Len(ls) : m[i] = Marked(ls)[i]) /\ m[Len(ls) + 1] = <<NL>> \o l
    BY <1>0, <1>3, AppendProperties
  <2> HIDE DEF m, w
  <2>3. DOMAIN w = 1..Len(ls) + 1 /\ w \in Seq(Line)
    BY <2>1, LenProperties DEF w
  <2>4. \A k \in 1..Len(ls) + 1 : m[k] = <<NL>> \o w[k]
    <3> SUFFICES ASSUME NEW k \in 1..Len(ls) + 1 PROVE m[k] = <<NL>> \o w[k]
      OBVIOUS
    <3>1. CASE k \in 1..Len(ls)
      BY <1>1, <2>1, <2>2, <3>1 DEF w, Marked
    <3>2. CASE k = Len(ls) + 1
      BY <2>1, <2>2, <3>2 DEF w
    <3> QED BY <1>1, <3>1, <3>2
  <2>5. m = [k \in 1..Len(ls) + 1 |-> m[k]]
    BY <1>1, <2>2
  <2>6. Marked(w) = [k \in 1..Len(ls) + 1 |-> <<NL>> \o w[k]]
    BY <2>3, Zenon DEF Marked
  <2> QED BY <2>4, <2>5, <2>6 DEF m, w
<1> QED BY <1>3, <1>4

JoinedWith(ls, l) == JoinLines(Append(ls, l)) = (JoinLines(ls) \o <<NL>>) \o l

LEMMA JoinGrows ==
  /\ \A l \in Line : JoinLines(<<l>>) = l
  /\ \A ls \in Seq(Line) : ls # <<>> => JoinLines(ls) \in Seq(Byte)
  /\ \A ls \in Seq(Line), l \in Line : ls # <<>> => JoinedWith(ls, l)
<1> DEFINE F(ls) == FlattenSeq(Marked(ls))
<1>0. NL \in Byte /\ (\A l \in Line : l \in Seq(Byte)) /\ <<NL>> \in Seq(Byte)
  BY LinesAreBytes
<1>1. ASSUME NEW ls \in Seq(Line), NEW l \in Line
      PROVE  F(ls) \in Seq(Byte) /\ F(Append(ls, l)) = F(ls) \o (<<NL>> \o l)
  <2>1. Marked(ls) \in Seq(Seq(Byte)) /\ Marked(Append(ls, l)) = Append(Marked(ls), <<NL>> \o l)
    BY MarkedGrows
  <2>2. <<NL>> \o l \in Seq(Byte)
    BY <1>0, ConcatProperties
  <2> QED BY <2>1, <2>2, FlattenGrows DEF FlattenGrowsIn
<1>2. ASSUME NEW l \in Line
      PROVE  (<<NL>> \o l) \in Seq(Byte) /\ (<<NL>> \o l) # <<>> /\ Tail(<<NL>> \o l) = l
  <2>1. (<<NL>> \o l) \in Seq(Byte) /\ Len(<<NL>> \o l) = 1 + Len(l) /\ l \in Seq(Byte) /\ Len(l) \in Nat
        /\ \A i \in 1..Len(l) : (<<NL>> \o l)[i + 1] = l[i]
    BY <1>0, ConcatProperties, LenProperties
  <2> DEFINE m == <<NL>> \o l
  <2> HIDE DEF m
  <2>2. m # <<>>
    BY <2>1, EmptySeq DEF m
  <2>3. Tail(m) \in Seq(Byte) /\ Len(Tail(m)) = Len(l) /\ \A i \in 1..Len(l) : Tail(m)[i] = m[i + 1]
    BY <2>1, <2>2, HeadTailProperties DEF m
  <2>4. Tail(m) = l
    BY <2>1, <2>3, SeqEqual DEF m
  <2> QED BY <2>1, <2>2, <2>4 DEF m
<1>3. F(<<>>) = <<>> /\ <<>> \in Seq(Line) /\ <<>> \in Seq(Byte)
  <2>1. DOMAIN <<>> = {} /\ Marked(<<>>) = <<>>
    BY DEF Marked
  <2> QED BY <2>1, FlattenGrows, EmptySeq DEF FlattenGrowsIn
<1> HIDE DEF F
<1>4. ASSUME NEW ls \in Seq(Line), ls # <<>> PROVE F(ls) \in Seq(Byte) /\ F(ls) # <<>>
  <2>1. PICK s \in Seq(Line), l \in Line : ls = Append(s, l)
    BY <1>4, SequenceEmptyOrAppend
  <2>2. F(s) \in Seq(Byte) /\ F(ls) = F(s) \o (<<NL>> \o l)
    BY <1>1, <2>1
  <2>3. (<<NL>> \o l) \in Seq(Byte) /\ (<<NL>> \o l) # <<>>
    BY <1>2
  <2> QED BY <2>2, <2>3, ConcatProperties, ConcatSimplifications
<1>5. \A ls : JoinLines(ls) = Tail(F(ls))
  BY Zenon DEF JoinLines, F, Marked
<1>6. ASSUME NEW l \in Line PROVE JoinLines(<<l>>) = l
  <2>1. <<l>> = Append(<<>>, l)
    OBVIOUS
  <2>2. F(<<l>>) = <<>> \o (<<NL>> \o l)
    BY <1>1, <1>3, <2>1
  <2>3. F(<<l>>) = <<NL>> \o l
    BY <1>2, <2>2, ConcatEmptySeq
  <2> QED BY <1>2, <1>5, <2>3
<1>7. ASSUME NEW ls \in Seq(Line), ls # <<>> PROVE JoinLines(ls) \in Seq(Byte)
  BY <1>4, <1>5, <1>7, HeadTailProperties
<1>8. ASSUME NEW ls \in Seq(Line), NEW l \in Line, ls # <<>> PROVE JoinedWith(ls, l)
  <2> DEFINE f == F(ls)
             m == <<NL>> \o l
  <2>0. f \in Seq(Byte) /\ f # <<>> /\ m \in Seq(Byte) /\ F(Append(ls, l)) = f \o m
    BY <1>1, <1>2, <1>4, <1>8
  <2>a. JoinLines(ls) = Tail(f)
    BY <1>5
  <2> HIDE DEF f
  <2>1. Tail(f \o m) = Tail(f) \o m
    <3> HIDE DEF m
    <3>1. Len(f) \in Nat /\ Len(f) >= 1 /\ Len(m) \in Nat
      BY <2>0, LenProperties, EmptySeq
    <3>2. Tail(f) \in Seq(Byte) /\ Len(Tail(f)) = Len(f) - 1 /\ \A i \in 1..Len(f) - 1 : Tail(f)[i] = f[i + 1]
      BY <2>0, HeadTailProperties
    <3>3. f \o m \in Seq(Byte) /\ Len(f \o m) = Len(f) + Len(m)
          /\ \A i \in 1..Len(f) + Len(m) : (f \o m)[i] = IF i <= Len(f) THEN f[i] ELSE m[i - Len(f)]
      BY <2>0, ConcatProperties
    <3>4. f \o m # <<>>
      BY <3>1, <3>3, EmptySeq
    <3>5. Tail(f \o m) \in Seq(Byte) /\ Len(Tail(f \o m)) = Len(f \o m) - 1
          /\ \A i \in 1..Len(f \o m) - 1 : Tail(f \o m)[i] = (f \o m)[i + 1]
      BY <3>3, <3>4, HeadTailProperties
    <3>6. Tail(f) \o m \in Seq(Byte) /\ Len(Tail(f) \o m) = Len(Tail(f)) + Len(m)
          /\ \A i \in 1..Len(Tail(f)) + Len(m) :
               (Tail(f) \o m)[i] = IF i <= Len(Tail(f)) THEN Tail(f)[i] ELSE m[i - Len(Tail(f))]
      BY <2>0, <3>2, ConcatProperties
    <3> DEFINE p == Len(f)
               q == Len(m)
    <3> HIDE DEF p, q
    <3>7. p \in Nat /\ p >= 1 /\ q \in Nat
      BY <3>1 DEF p, q
    <3>8. Len(Tail(f \o m)) = (p + q) - 1 /\ Len(Tail(f) \o m) = (p - 1) + q
      BY <3>2, <3>3, <3>5, <3>6 DEF p, q
    <3>9. ASSUME NEW i \in 1..(p + q) - 1 PROVE Tail(f \o m)[i] = (Tail(f) \o m)[i]
      <4>1. Tail(f \o m)[i] = IF i + 1 <= p THEN f[i + 1] ELSE m[(i + 1) - p]
        <5>1. i \in 1..Len(f \o m) - 1 /\ i + 1 \in 1..Len(f) + Len(m)
          BY <3>3, <3>7, <3>9 DEF p, q
        <5> QED BY <3>3, <3>5, <5>1 DEF p
      <4>2. (Tail(f) \o m)[i] = IF i <= p - 1 THEN Tail(f)[i] ELSE m[i - (p - 1)]
        <5>1. i \in 1..Len(Tail(f)) + Len(m)
          BY <3>2, <3>7, <3>9 DEF p, q
        <5> QED BY <3>2, <3>6, <5>1 DEF p
      <4>3. i <= p - 1 => Tail(f)[i] = f[i + 1]
        BY <3>2, <3>7, <3>9 DEF p
      <4>4. (i + 1) - p = i - (p - 1) /\ (i + 1 <= p <=> i <= p - 1)
        BY <3>7, <3>9
      <4> QED BY <4>1, <4>2, <4>3, <4>4
    <3>10. (p + q) - 1 = (p - 1) + q
      BY <3>7
    <3> QED BY <3>5, <3>6, <3>8, <3>9, <3>10, SeqEqual
  <2>2. JoinLines(Append(ls, l)) = Tail(f) \o (<<NL>> \o l)
    BY <1>5, <2>0, <2>1
  <2>3. Tail(f) \in Seq(Byte) /\ l \in Seq(Byte)
    BY <1>0, <2>0, HeadTailProperties
  <2>4. Tail(f) \o (<<NL>> \o l) = (Tail(f) \o <<NL>>) \o l
    BY <1>0, <2>3, ConcatAssociative
  <2> QED BY <2>a, <2>2, <2>4 DEF JoinedWith
<1> QED BY <1>6, <1>7, <1>8

\* Joined lines are split as they were.
LEMMA JoinedSplitAgain == \A ls \in Seq(Line) : ls # <<>> => Lines(JoinLines(ls)) = ls
<1> DEFINE T == {ls \in Seq(Line) : ls # <<>> => Lines(JoinLines(ls)) = ls}
<1>1. <<>> \in T
  OBVIOUS
<1>2. ASSUME NEW ls \in Seq(Line), NEW l \in Line, ls \in T PROVE Append(ls, l) \in T
  <2>1. Append(ls, l) \in Seq(Line)
    BY AppendProperties
  <2>2. CASE ls = <<>>
    <3>1. Append(ls, l) = <<l>>
      BY <2>2
    <3>2. JoinLines(<<l>>) = l /\ Lines(l) = <<l>>
      BY JoinGrows, OneLine
    <3> QED BY <2>1, <3>1, <3>2
  <2>3. CASE ls # <<>>
    <3>1. JoinLines(ls) \in Seq(Byte) /\ JoinedWith(ls, l)
      BY <2>3, JoinGrows
    <3>2. LinesGoOn(JoinLines(ls), l)
      BY <3>1, NewLineSplits
    <3>3. Lines(JoinLines(Append(ls, l))) = Append(ls, l)
      BY <1>2, <2>3, <3>1, <3>2 DEF JoinedWith, LinesGoOn
    <3> QED BY <2>1, <3>3
  <2> QED BY <2>2, <2>3
<1>3. \A ls \in Seq(Line) : ls \in T
  <2> HIDE DEF T
  <2> QED BY <1>1, <1>2, TextInduction
<1> QED BY <1>3

\* A text is its lines joined.
LEMMA LinesJoined == \A t \in Seq(Byte) : JoinLines(Lines(t)) = t
<1> DEFINE T == {t \in Seq(Byte) : JoinLines(Lines(t)) = t}
<1>0. <<>> \in Line /\ <<>> \in Seq(Line) /\ <<>> \in Seq(Byte)
  BY EmptySeq DEF Line
<1>1. <<>> \in T
  <2>1. Lines(<<>>) = <<<<>>>>
    BY <1>0, OneLine
  <2> QED BY <1>0, <2>1, JoinGrows
<1>2. ASSUME NEW t \in Seq(Byte), NEW c \in Byte, t \in T PROVE Append(t, c) \in T
  <2> DEFINE e == Split(t).ended
             o == Split(t).open
  <2>0. e \in Seq(Line) /\ o \in Line /\ Lines(t) = Append(e, o) /\ Append(e, o) \in Seq(Line) /\ Append(e, o) # <<>>
    BY SplitGrows, AppendProperties DEF Lines
  <2>a. SplitGrowsBy(t, c) /\ Append(t, c) \in Seq(Byte) /\ Append(t, c) = t \o <<c>>
    BY SplitGrows, AppendProperties, AppendIsConcat
  <2>b. JoinLines(Append(e, o)) = t
    BY <1>2, <2>0
  <2>1. CASE c = NL
    <3>1. Lines(Append(t, c)) = Append(Append(e, o), <<>>)
      BY <2>a, <2>1 DEF SplitGrowsBy, Lines
    <3> HIDE DEF e, o
    <3>2. JoinedWith(Append(e, o), <<>>)
      BY <1>0, <2>0, JoinGrows
    <3>3. (t \o <<NL>>) \o <<>> = t \o <<c>>
      BY <2>1, <2>a, ConcatEmptySeq
    <3> QED BY <2>a, <2>b, <3>1, <3>2, <3>3 DEF JoinedWith
  <2>2. CASE c # NL
    <3>0. c \in LineByte /\ Append(o, c) \in Line /\ Append(o, c) = o \o <<c>>
      BY <2>0, <2>2, LinesAreBytes, AppendProperties, AppendIsConcat DEF Line
    <3>1. Lines(Append(t, c)) = Append(e, Append(o, c))
      BY <2>a, <2>2 DEF SplitGrowsBy, Lines
    <3> HIDE DEF e, o
    <3>2. CASE e = <<>>
      <4>1. Append(e, o) = <<o>> /\ Append(e, Append(o, c)) = <<Append(o, c)>>
        BY <3>2
      <4>2. t = o /\ JoinLines(<<Append(o, c)>>) = Append(o, c)
        BY <2>0, <2>b, <3>0, <4>1, JoinGrows
      <4> QED BY <2>a, <3>1, <4>1, <4>2
    <3>3. CASE e # <<>>
      <4>1. JoinLines(e) \in Seq(Byte) /\ JoinedWith(e, o) /\ JoinedWith(e, Append(o, c))
        BY <2>0, <3>0, <3>3, JoinGrows
      <4> DEFINE u == JoinLines(e) \o <<NL>>
      <4>2. u \in Seq(Byte) /\ o \in Seq(Byte) /\ <<c>> \in Seq(Byte)
        BY <2>0, <4>1, LinesAreBytes, ConcatProperties
      <4>3. t = u \o o /\ JoinLines(Append(e, Append(o, c))) = u \o (o \o <<c>>)
        BY <2>b, <3>0, <4>1 DEF JoinedWith
      <4> HIDE DEF u
      <4>4. (u \o o) \o <<c>> = u \o (o \o <<c>>)
        BY <4>2, ConcatAssociative
      <4> QED BY <2>a, <3>1, <4>3, <4>4
    <3> QED BY <3>2, <3>3
  <2> QED BY <2>1, <2>2
<1>3. \A t \in Seq(Byte) : t \in T
  <2> HIDE DEF T
  <2> QED BY <1>1, <1>2, TextInduction
<1> QED BY <1>3

-----------------------------------------------------------------------------
(***************************************************************************)
(* parseSSEToken and the rewriting of a token's lines.                     *)
(***************************************************************************)
FieldsOf(l) ==
  /\ Is(l, "data") \in BOOLEAN /\ Is(l, "event") \in BOOLEAN /\ Is(l, "comment") \in BOOLEAN
  /\ Is(l, "data") => l # <<>> /\ ~Is(l, "event") /\ ~Is(l, "comment") /\ l[1] \in LineByte
                        /\ l[1].field = "data" /\ l[1].doc \in Document
  /\ Is(l, "event") => l[1].type \in {"delta", "other"}

LEMMA LineFields == \A l \in Line : FieldsOf(l)
<1> SUFFICES ASSUME NEW l \in Line PROVE FieldsOf(l)
  OBVIOUS
<1>1. l # <<>> => l[1] \in LineByte
  <2>1. l \in Seq(LineByte) /\ Len(l) \in Nat /\ (l # <<>> => 1 \in 1..Len(l))
    BY LenProperties, EmptySeq DEF Line
  <2> QED BY <2>1, ElementOfSeq
<1>2. \A c \in LineByte : c.field = "data" => c.doc \in Document
  BY DEF LineByte, Comment, Ignored, CR
<1>3. \A c \in LineByte : c.field = "event" => c.type \in {"delta", "other"}
  BY DEF LineByte, Comment, Ignored, CR
<1> QED BY <1>1, <1>2, <1>3 DEF FieldsOf, Is

LEMMA WholeLine ==
  ASSUME NEW d \in Document
  PROVE  /\ Whole(d) \in LineByte /\ <<Whole(d)>> \in Line /\ <<Whole(d)>> # <<>>
         /\ Is(<<Whole(d)>>, "data") /\ ~Is(<<Whole(d)>>, "event") /\ ~Is(<<Whole(d)>>, "comment")
<1>1. Whole(d) \in LineByte /\ Whole(d).field = "data"
  BY DEF Whole, LineByte
<1> QED BY <1>1 DEF Is, Line

\* What a token's fields are after one line more.
NextFields(token, l) ==
  [event |-> IF Is(l, "event") THEN l[1].type ELSE token.event,
   data |-> IF Is(l, "data") THEN Append(token.data, l[1]) ELSE token.data,
   hasComment |-> token.hasComment \/ Is(l, "comment")]
NoFields == [event |-> "none", data |-> <<>>, hasComment |-> FALSE]
Parsed(ls) ==
  Carried([token \in Fields |-> [l \in Line |->
             [event |-> IF Is(l, "event") THEN l[1].type ELSE token.event,
              data |-> IF Is(l, "data") THEN Append(token.data, l[1]) ELSE token.data,
              hasComment |-> token.hasComment \/ Is(l, "comment")]]],
          [event |-> "none", data |-> <<>>, hasComment |-> FALSE], ls)

LEMMA ParsedGrows ==
  /\ Parsed(<<>>) = NoFields
  /\ \A ls \in Seq(Line) : Parsed(ls) \in Fields
  /\ \A ls \in Seq(Line), l \in Line : Parsed(Append(ls, l)) = NextFields(Parsed(ls), l)
<1> DEFINE step == [token \in Fields |-> [l \in Line |->
             [event |-> IF Is(l, "event") THEN l[1].type ELSE token.event,
              data |-> IF Is(l, "data") THEN Append(token.data, l[1]) ELSE token.data,
              hasComment |-> token.hasComment \/ Is(l, "comment")]]]
<1>1. NoFields \in Fields
  BY EmptySeq DEF NoFields, Fields
<1>2. ASSUME NEW token \in Fields, NEW l \in Line PROVE NextFields(token, l) \in Fields
  <2>1. token.event \in {"none", "delta", "other"} /\ token.data \in Seq(LineByte) /\ token.hasComment \in BOOLEAN
    BY DEF Fields
  <2>2. FieldsOf(l)
    BY LineFields
  <2>3. Is(l, "data") => Append(token.data, l[1]) \in Seq(LineByte)
    BY <2>1, <2>2, AppendProperties DEF FieldsOf
  <2>4. (token.hasComment \/ Is(l, "comment")) \in BOOLEAN
    OBVIOUS
  <2> QED BY <2>1, <2>2, <2>3, <2>4 DEF FieldsOf, NextFields, Fields
<1>3. step = [token \in Fields |-> [l \in Line |-> NextFields(token, l)]]
  BY DEF NextFields
<1>4. \A ls : Parsed(ls) = Carried(step, NoFields, ls)
  BY Zenon DEF Parsed, NoFields
<1> HIDE DEF step
<1>5. step \in [Fields -> [Line -> Fields]]
  BY <1>2, <1>3
<1>6. Unrolls(step, NoFields, Fields, Line)
  BY <1>1, <1>5, CarriedGrows
<1>7. \A ls \in Seq(Line) : Parsed(ls) \in Fields
  BY <1>4, <1>6 DEF Unrolls
<1>8. ASSUME NEW ls \in Seq(Line), NEW l \in Line
      PROVE  Parsed(Append(ls, l)) = NextFields(Parsed(ls), l)
  <2>1. Parsed(Append(ls, l)) = step[Parsed(ls)][l]
    BY <1>4, <1>6 DEF Unrolls
  <2> QED BY <1>3, <1>7, <2>1
<1> QED BY <1>4, <1>6, <1>7, <1>8 DEF Unrolls

LEMMA HasDataGrows ==
  \A ls \in Seq(Line), l \in Line : HasData(Append(ls, l)) <=> HasData(ls) \/ Is(l, "data")
<1> SUFFICES ASSUME NEW ls \in Seq(Line), NEW l \in Line
             PROVE  HasData(Append(ls, l)) <=> HasData(ls) \/ Is(l, "data")
  OBVIOUS
<1>1. Append(ls, l) \in Seq(Line) /\ Len(Append(ls, l)) = Len(ls) + 1
      /\ (\A i \in 1..Len(ls) : Append(ls, l)[i] = ls[i]) /\ Append(ls, l)[Len(ls) + 1] = l
  BY AppendProperties
<1>2. Len(ls) \in Nat /\ DOMAIN ls = 1..Len(ls)
  BY LenProperties
<1> DEFINE m == Append(ls, l)
<1> HIDE DEF m
<1>3. DOMAIN m = 1..Len(ls) + 1
  BY <1>1, LenProperties DEF m
<1>4. 1..Len(ls) + 1 = (1..Len(ls)) \cup {Len(ls) + 1}
  BY <1>2
<1>5. (\A i \in 1..Len(ls) : m[i] = ls[i]) /\ m[Len(ls) + 1] = l
  BY <1>1 DEF m
<1>6. HasData(m) <=> HasData(ls) \/ Is(l, "data")
  BY <1>2, <1>3, <1>4, <1>5 DEF HasData
<1> QED BY <1>6 DEF m

NextRewritten(out, l, doc) ==
  IF ~Is(l, "data") THEN Append(out, l)
  ELSE IF HasData(out) THEN out ELSE Append(out, <<Whole(doc)>>)
RewriteGrowsBy(ls, l, d) == RewriteLines(Append(ls, l), d) = NextRewritten(RewriteLines(ls, d), l, d)

LEMMA RewriteGrows ==
  ASSUME NEW d \in Document
  PROVE  /\ RewriteLines(<<>>, d) = <<>>
         /\ \A ls \in Seq(Line) : RewriteLines(ls, d) \in Seq(Line)
         /\ \A ls \in Seq(Line), l \in Line : RewriteGrowsBy(ls, l, d)
<1> DEFINE step == [out \in Seq(Line) |-> [l \in Line |->
             IF ~Is(l, "data") THEN Append(out, l)
             ELSE IF HasData(out) THEN out ELSE Append(out, <<Whole(d)>>)]]
<1>1. <<>> \in Seq(Line)
  BY EmptySeq
<1>2. ASSUME NEW out \in Seq(Line), NEW l \in Line PROVE NextRewritten(out, l, d) \in Seq(Line)
  <2>1. Append(out, l) \in Seq(Line) /\ Append(out, <<Whole(d)>>) \in Seq(Line)
    BY WholeLine, AppendProperties
  <2> QED BY <2>1 DEF NextRewritten
<1>3. step = [out \in Seq(Line) |-> [l \in Line |-> NextRewritten(out, l, d)]]
  BY DEF NextRewritten
<1>4. \A ls : RewriteLines(ls, d) = Carried(step, <<>>, ls)
  BY Zenon DEF RewriteLines
<1> HIDE DEF step
<1>5. step \in [Seq(Line) -> [Line -> Seq(Line)]]
  BY <1>2, <1>3
<1>6. Unrolls(step, <<>>, Seq(Line), Line)
  BY <1>1, <1>5, CarriedGrows
<1>7. \A ls \in Seq(Line) : RewriteLines(ls, d) \in Seq(Line)
  BY <1>4, <1>6 DEF Unrolls
<1>8. ASSUME NEW ls \in Seq(Line), NEW l \in Line PROVE RewriteGrowsBy(ls, l, d)
  <2>1. RewriteLines(Append(ls, l), d) = step[RewriteLines(ls, d)][l]
    BY <1>4, <1>6 DEF Unrolls
  <2>2. step[RewriteLines(ls, d)][l] = NextRewritten(RewriteLines(ls, d), l, d)
    BY <1>3, <1>7
  <2> QED BY <2>1, <2>2 DEF RewriteGrowsBy
<1> QED BY <1>4, <1>6, <1>7, <1>8 DEF Unrolls

\* A rewritten token keeps event and comment; its data are the one new document.
ReadsAs(ls, d) ==
  LET was == Parsed(ls)
      now == Parsed(RewriteLines(ls, d))
  IN  /\ now.event = was.event /\ now.hasComment = was.hasComment
      /\ now.data = IF was.data = <<>> THEN <<>> ELSE <<Whole(d)>>
      /\ HasData(RewriteLines(ls, d)) <=> was.data # <<>>

LEMMA RewrittenReads == \A d \in Document, ls \in Seq(Line) : ReadsAs(ls, d)
<1> SUFFICES ASSUME NEW d \in Document PROVE \A ls \in Seq(Line) : ReadsAs(ls, d)
  OBVIOUS
<1> DEFINE T == {ls \in Seq(Line) : ReadsAs(ls, d)}
<1>1. <<>> \in T
  <2>1. RewriteLines(<<>>, d) = <<>> /\ Parsed(<<>>) = NoFields /\ NoFields.data = <<>> /\ <<>> \in Seq(Line)
    BY RewriteGrows, ParsedGrows, EmptySeq DEF NoFields
  <2>2. ~HasData(<<>>)
    BY DEF HasData
  <2> QED BY <2>1, <2>2 DEF ReadsAs
<1>2. ASSUME NEW ls \in Seq(Line), NEW l \in Line, ReadsAs(ls, d) PROVE ReadsAs(Append(ls, l), d)
  <2> DEFINE R == RewriteLines(ls, d)
             was == Parsed(ls)
             now == Parsed(R)
             w == <<Whole(d)>>
  <2>0. R \in Seq(Line) /\ was \in Fields /\ now \in Fields /\ Parsed(Append(ls, l)) = NextFields(was, l)
    BY RewriteGrows, ParsedGrows
  <2>1. RewriteLines(Append(ls, l), d) = NextRewritten(R, l, d)
    BY RewriteGrows DEF RewriteGrowsBy
  <2>2. now.event = was.event /\ now.hasComment = was.hasComment
        /\ now.data = (IF was.data = <<>> THEN <<>> ELSE w)
        /\ (HasData(R) <=> was.data # <<>>)
    BY <1>2 DEF ReadsAs
  <2>3. FieldsOf(l) /\ w \in Line /\ Is(w, "data") /\ ~Is(w, "event") /\ ~Is(w, "comment") /\ w[1] = Whole(d)
    BY LineFields, WholeLine
  <2>4. was.data \in Seq(LineByte) /\ was.hasComment \in BOOLEAN
    BY <2>0 DEF Fields
  <2>5. Parsed(Append(R, l)) = NextFields(now, l) /\ Parsed(Append(R, w)) = NextFields(now, w)
        /\ (HasData(Append(R, l)) <=> HasData(R) \/ Is(l, "data")) /\ HasData(Append(R, w))
    BY <2>0, <2>3, ParsedGrows, HasDataGrows
  <2>a. now = Parsed(R)
    OBVIOUS
  <2> HIDE DEF R, was, now, w
  <2>6. Is(l, "data") => NextFields(was, l).data # <<>>
    BY <2>3, <2>4, AppendProperties DEF FieldsOf, NextFields
  <2>7. ~Is(l, "data") => NextFields(was, l).data = was.data
    BY DEF NextFields
  <2> DEFINE R2 == NextRewritten(R, l, d)
             was2 == NextFields(was, l)
             now2 == Parsed(R2)
  <2>8. now2.event = was2.event /\ now2.hasComment = was2.hasComment
        /\ now2.data = (IF was2.data = <<>> THEN <<>> ELSE w)
        /\ (HasData(R2) <=> was2.data # <<>>)
    <3>1. CASE ~Is(l, "data")
      <4>1. R2 = Append(R, l) /\ now2 = NextFields(now, l)
        BY <2>5, <3>1 DEF NextRewritten
      <4>2. was2.data = was.data /\ NextFields(now, l).data = now.data
        BY <3>1 DEF NextFields
      <4>3. NextFields(now, l).event = was2.event /\ NextFields(now, l).hasComment = was2.hasComment
        BY <2>2 DEF NextFields
      <4>4. HasData(R2) <=> HasData(R)
        BY <2>5, <3>1, <4>1
      <4> HIDE DEF R2, was2, now2
      <4> QED BY <2>2, <4>1, <4>2, <4>3, <4>4
    <3>2. CASE Is(l, "data") /\ HasData(R)
      <4>1. R2 = R /\ now2 = now
        BY <2>a, <3>2 DEF NextRewritten
      <4>2. was2.event = was.event /\ was2.hasComment = was.hasComment
        BY <2>3, <2>4, <3>2 DEF NextFields, FieldsOf
      <4>3. was2.data # <<>>
        BY <2>6, <3>2
      <4> HIDE DEF R2, was2, now2
      <4> QED BY <2>2, <3>2, <4>1, <4>2, <4>3
    <3>3. CASE Is(l, "data") /\ ~HasData(R)
      <4>1. R2 = Append(R, w) /\ now2 = NextFields(now, w)
        BY <2>5, <3>3 DEF NextRewritten, w
      <4>2. was2.event = was.event /\ was2.hasComment = was.hasComment
        BY <2>3, <2>4, <3>3 DEF NextFields, FieldsOf
      <4>3. was2.data # <<>>
        BY <2>6, <3>3
      <4>a. now.data = <<>> /\ now.hasComment \in BOOLEAN
        BY <2>2, <2>4, <3>3
      <4>4. NextFields(now, w).event = now.event /\ NextFields(now, w).hasComment = now.hasComment
        BY <2>3, <4>a DEF NextFields
      <4>5. NextFields(now, w).data = w
        <5>1. NextFields(now, w).data = Append(<<>>, w[1])
          BY <2>3, <4>a DEF NextFields
        <5>2. Append(<<>>, w[1]) = <<Whole(d)>>
          BY <2>3
        <5> QED BY <5>1, <5>2 DEF w
      <4>6. HasData(R2)
        BY <2>5, <4>1
      <4> HIDE DEF R2, was2, now2
      <4> QED BY <2>2, <4>1, <4>2, <4>3, <4>4, <4>5, <4>6
    <3> QED BY <3>1, <3>2, <3>3
  <2> QED BY <2>0, <2>1, <2>8 DEF ReadsAs, w
<1>3. \A ls \in Seq(Line) : ls \in T
  <2>1. \A ls \in Seq(Line), l \in Line : ls \in T => Append(ls, l) \in T
    BY <1>2, AppendProperties
  <2> HIDE DEF T
  <2> QED BY <1>1, <2>1, TextInduction
<1> QED BY <1>3

\* Data of a token are data lines: each has a document.
LEMMA DataHaveDocuments ==
  \A ls \in Seq(Line) : \A k \in 1..Len(Parsed(ls).data) : Parsed(ls).data[k].doc \in Document
<1> DEFINE Good(ls) == \A k \in 1..Len(Parsed(ls).data) : Parsed(ls).data[k].doc \in Document
           T == {ls \in Seq(Line) : Good(ls)}
<1>1. <<>> \in T
  <2>1. Parsed(<<>>).data = <<>> /\ Len(<<>>) = 0 /\ <<>> \in Seq(Line)
    BY ParsedGrows, EmptySeq DEF NoFields
  <2> QED BY <2>1
<1>2. ASSUME NEW ls \in Seq(Line), NEW l \in Line, Good(ls) PROVE Good(Append(ls, l))
  <2> DEFINE p == Parsed(ls).data
             q == Parsed(Append(ls, l)).data
  <2>1. p \in Seq(LineByte) /\ q = IF Is(l, "data") THEN Append(p, l[1]) ELSE p
    <3>1. Parsed(ls) \in Fields /\ Parsed(Append(ls, l)) = NextFields(Parsed(ls), l)
      BY ParsedGrows
    <3>2. p \in Seq(LineByte)
      BY <3>1 DEF Fields
    <3> QED BY <3>1, <3>2 DEF NextFields
  <2>2. FieldsOf(l)
    BY LineFields
  <2>3. \A k \in 1..Len(p) : p[k].doc \in Document
    BY <1>2
  <2> HIDE DEF p, q
  <2>4. CASE Is(l, "data")
    <3>1. q = Append(p, l[1]) /\ l[1] \in LineByte /\ l[1].doc \in Document
      BY <2>1, <2>2, <2>4 DEF FieldsOf
    <3>2. Len(q) = Len(p) + 1 /\ (\A k \in 1..Len(p) : q[k] = p[k]) /\ q[Len(p) + 1] = l[1] /\ Len(p) \in Nat
      BY <2>1, <3>1, AppendProperties, LenProperties
    <3>3. \A k \in 1..Len(q) : q[k].doc \in Document
      <4>1. 1..Len(q) = (1..Len(p)) \cup {Len(p) + 1}
        BY <3>2
      <4> QED BY <2>3, <3>1, <3>2, <4>1
    <3> QED BY <3>3 DEF q
  <2>5. CASE ~Is(l, "data")
    <3>1. q = p
      BY <2>1, <2>5
    <3>2. \A k \in 1..Len(q) : q[k].doc \in Document
      BY <2>3, <3>1
    <3> QED BY <3>2 DEF q
  <2> QED BY <2>2, <2>4, <2>5 DEF FieldsOf
<1>3. \A ls \in Seq(Line) : ls \in T
  <2>1. \A ls \in Seq(Line), l \in Line : ls \in T => Append(ls, l) \in T
    BY <1>2, AppendProperties
  <2> HIDE DEF T
  <2> QED BY <1>1, <2>1, TextInduction
<1> QED BY <1>3

-----------------------------------------------------------------------------
(***************************************************************************)
(* Blank lines: one ends where a new line begins behind a newline.         *)
(***************************************************************************)
AnyBlank(t) == \E i \in 1..Len(t) : BlankAt(t, i)
EndsNL(t) == Len(t) >= 1 /\ t[Len(t)] = NL

BlanksOf(u, l) ==
  LET w == (u \o <<NL>>) \o l
  IN  /\ w \in Seq(Byte) /\ Len(w) = (Len(u) + 1) + Len(l)
      /\ \A i \in 1..Len(w) :
           BlankAt(w, i) <=> (i <= Len(u) /\ BlankAt(u, i)) \/ (i = Len(u) + 1 /\ EndsNL(u))
      /\ EndsNL(w) <=> l = <<>>
      /\ AnyBlank(w) <=> AnyBlank(u) \/ EndsNL(u)

LEMMA NoNewlineInALine == \A l \in Line : ~AnyBlank(l) /\ ~EndsNL(l) /\ \A i \in 1..Len(l) : l[i] # NL
<1> SUFFICES ASSUME NEW l \in Line PROVE ~AnyBlank(l) /\ ~EndsNL(l) /\ \A i \in 1..Len(l) : l[i] # NL
  OBVIOUS
<1>1. \A c \in LineByte : c # NL
  BY DEF LineByte, NL, Comment, Ignored, CR
<1>2. Len(l) \in Nat /\ \A i \in 1..Len(l) : l[i] # NL
  BY <1>1, LenProperties, ElementOfSeq DEF Line
<1>3. ~EndsNL(l)
  BY <1>2 DEF EndsNL
<1> QED BY <1>2, <1>3 DEF AnyBlank, BlankAt

LEMMA BlanksOfALineMore == \A u \in Seq(Byte), l \in Line : BlanksOf(u, l)
<1> SUFFICES ASSUME NEW u \in Seq(Byte), NEW l \in Line PROVE BlanksOf(u, l)
  OBVIOUS
<1> DEFINE w == (u \o <<NL>>) \o l
           p == Len(u)
           q == Len(l)
<1>1. p \in Nat /\ q \in Nat /\ NL \in Byte /\ l \in Seq(Byte) /\ (l = <<>> <=> q = 0)
  BY LenProperties, LinesAreBytes, EmptySeq
<1>2. u \o <<NL>> = Append(u, NL) /\ Append(u, NL) \in Seq(Byte) /\ Len(Append(u, NL)) = p + 1
      /\ (\A i \in 1..p : Append(u, NL)[i] = u[i]) /\ Append(u, NL)[p + 1] = NL
  BY <1>1, AppendIsConcat, AppendProperties
<1>3. w \in Seq(Byte) /\ Len(w) = (p + 1) + q
      /\ \A i \in 1..(p + 1) + q : w[i] = IF i <= p + 1 THEN (u \o <<NL>>)[i] ELSE l[i - (p + 1)]
  BY <1>1, <1>2, ConcatProperties
<1>4. \A i \in 1..q : l[i] # NL
  BY NoNewlineInALine
<1> HIDE DEF w, p, q
<1>5. \A i \in 1..p : w[i] = u[i]
  <2> SUFFICES ASSUME NEW i \in 1..p PROVE w[i] = u[i]
    OBVIOUS
  <2>1. i \in 1..(p + 1) + q /\ i <= p + 1
    BY <1>1
  <2> QED BY <1>2, <1>3, <2>1
<1>6. w[p + 1] = NL
  <2>1. p + 1 \in 1..(p + 1) + q /\ p + 1 <= p + 1
    BY <1>1
  <2> QED BY <1>2, <1>3, <2>1
<1>7. ASSUME NEW i \in 1..(p + 1) + q, i > p + 1 PROVE w[i] # NL
  <2>1. i - (p + 1) \in 1..q /\ ~(i <= p + 1)
    BY <1>1, <1>7
  <2>2. w[i] = l[i - (p + 1)]
    BY <1>3, <2>1
  <2> QED BY <1>4, <2>1, <2>2
<1>8. ASSUME NEW i \in 1..(p + 1) + q
      PROVE  BlankAt(w, i) <=> (i <= p /\ BlankAt(u, i)) \/ (i = p + 1 /\ p >= 1 /\ u[p] = NL)
  <2>1. CASE i <= p
    <3>1. i \in 1..p /\ (i > 1 => i - 1 \in 1..p) /\ i # p + 1
      BY <1>1, <2>1
    <3> QED BY <1>5, <2>1, <3>1 DEF BlankAt
  <2>2. CASE i = p + 1
    <3>1. ~(i <= p) /\ (i > 1 <=> p >= 1) /\ i - 1 = p /\ (p >= 1 => p \in 1..p)
      BY <1>1, <2>2
    <3> QED BY <1>5, <1>6, <2>2, <3>1 DEF BlankAt
  <2>3. CASE i > p + 1
    <3>1. ~(i <= p) /\ i # p + 1
      BY <1>1, <2>3
    <3> QED BY <1>7, <2>3, <3>1 DEF BlankAt
  <2>4. i <= p \/ i = p + 1 \/ i > p + 1
    BY <1>1
  <2> QED BY <2>1, <2>2, <2>3, <2>4
<1>9. EndsNL(w) <=> l = <<>>
  <2>1. (p + 1) + q >= 1 /\ (p + 1) + q \in 1..(p + 1) + q /\ (q = 0 => (p + 1) + q = p + 1)
        /\ (q # 0 => (p + 1) + q > p + 1)
    BY <1>1
  <2>2. CASE q = 0
    BY <1>1, <1>3, <1>6, <2>1, <2>2 DEF EndsNL
  <2>3. CASE q # 0
    BY <1>1, <1>3, <1>7, <2>1, <2>3 DEF EndsNL
  <2> QED BY <2>2, <2>3
<1>10. \A i \in 1..Len(w) : BlankAt(w, i) <=> (i <= p /\ BlankAt(u, i)) \/ (i = p + 1 /\ EndsNL(u))
  BY <1>3, <1>8 DEF EndsNL, p
<1>11. AnyBlank(w) <=> AnyBlank(u) \/ EndsNL(u)
  <2>1. (\A i \in 1..p : i \in 1..Len(w) /\ i <= p) /\ p + 1 \in 1..Len(w)
        /\ \A i \in 1..Len(w) : i <= p => i \in 1..p
    BY <1>1, <1>3
  <2>2. AnyBlank(u) <=> \E i \in 1..p : BlankAt(u, i)
    BY DEF AnyBlank, p
  <2>3. CASE AnyBlank(w)
    BY <1>10, <2>1, <2>2, <2>3 DEF AnyBlank
  <2>4. CASE AnyBlank(u)
    BY <1>10, <2>1, <2>2, <2>4 DEF AnyBlank
  <2>5. CASE EndsNL(u)
    BY <1>10, <2>1, <2>5 DEF AnyBlank
  <2> QED BY <2>3, <2>4, <2>5
<1> QED BY <1>3, <1>9, <1>10, <1>11 DEF BlanksOf, w, p, q

\* Rewriting lines brings up no blank line.
BlanksKept(ls, d) ==
  ls # <<>> =>
    /\ RewriteLines(ls, d) # <<>>
    /\ ~AnyBlank(JoinLines(ls)) =>
         /\ ~AnyBlank(JoinLines(RewriteLines(ls, d)))
         /\ EndsNL(JoinLines(RewriteLines(ls, d))) <=> EndsNL(JoinLines(ls))

\* The line that l becomes, if it is not dropped.
NewLine(l, d) == IF Is(l, "data") THEN <<Whole(d)>> ELSE l

\* l is dropped, or comes as it is or as the new document.
LEMMA LineDroppedOrNot ==
  ASSUME NEW d \in Document, NEW ls \in Seq(Line), NEW l \in Line
  PROVE  /\ NewLine(l, d) \in Line /\ (NewLine(l, d) = <<>> <=> l = <<>>)
         /\ \/ RewriteLines(Append(ls, l), d) = Append(RewriteLines(ls, d), NewLine(l, d))
            \/ RewriteLines(Append(ls, l), d) = RewriteLines(ls, d) /\ l # <<>> /\ ls # <<>>
<1>1. FieldsOf(l) /\ RewriteGrowsBy(ls, l, d)
  BY LineFields, RewriteGrows
<1>2. NewLine(l, d) \in Line /\ (NewLine(l, d) = <<>> <=> l = <<>>)
  BY <1>1, WholeLine DEF NewLine, FieldsOf
<1>3. ls = <<>> => ~HasData(RewriteLines(ls, d))
  BY RewriteGrows DEF HasData
<1>4. \/ RewriteLines(Append(ls, l), d) = Append(RewriteLines(ls, d), NewLine(l, d))
      \/ RewriteLines(Append(ls, l), d) = RewriteLines(ls, d) /\ l # <<>> /\ ls # <<>>
  <2>1. CASE ~Is(l, "data")
    BY <1>1, <2>1 DEF RewriteGrowsBy, NextRewritten, NewLine
  <2>2. CASE Is(l, "data") /\ HasData(RewriteLines(ls, d))
    BY <1>1, <1>3, <2>2 DEF RewriteGrowsBy, NextRewritten, FieldsOf
  <2>3. CASE Is(l, "data") /\ ~HasData(RewriteLines(ls, d))
    BY <1>1, <2>3 DEF RewriteGrowsBy, NextRewritten, NewLine
  <2> QED BY <2>1, <2>2, <2>3
<1> QED BY <1>2, <1>4

LEMMA BlanksAreKept == \A d \in Document, ls \in Seq(Line) : BlanksKept(ls, d)
<1> SUFFICES ASSUME NEW d \in Document PROVE \A ls \in Seq(Line) : BlanksKept(ls, d)
  OBVIOUS
<1> DEFINE T == {ls \in Seq(Line) : BlanksKept(ls, d)}
<1>1. <<>> \in T
  BY EmptySeq DEF BlanksKept
<1>2. ASSUME NEW ls \in Seq(Line), NEW l \in Line, BlanksKept(ls, d) PROVE BlanksKept(Append(ls, l), d)
  <2> DEFINE R == RewriteLines(ls, d)
             k == NewLine(l, d)
             R2 == RewriteLines(Append(ls, l), d)
  <2>0. k \in Line /\ (k = <<>> <=> l = <<>>)
        /\ (R2 = Append(R, k) \/ (R2 = R /\ l # <<>> /\ ls # <<>>))
        /\ R \in Seq(Line) /\ Append(R, k) # <<>>
    <3>1. R \in Seq(Line)
      BY RewriteGrows
    <3>2. k \in Line /\ (k = <<>> <=> l = <<>>)
          /\ (R2 = Append(R, k) \/ (R2 = R /\ l # <<>> /\ ls # <<>>))
      BY LineDroppedOrNot
    <3> HIDE DEF R, k
    <3> QED BY <3>1, <3>2, AppendProperties
  <2>1. CASE ls = <<>>
    <3>1. Append(ls, l) = <<l>> /\ R = <<>>
      BY <2>1, RewriteGrows
    <3> HIDE DEF R, k
    <3>2. R2 = <<k>>
      BY <2>0, <2>1, <3>1
    <3>3. JoinLines(<<l>>) = l /\ JoinLines(<<k>>) = k
      BY <2>0, JoinGrows
    <3>4. ~AnyBlank(k) /\ ~EndsNL(k) /\ ~EndsNL(l)
      BY <2>0, NoNewlineInALine
    <3> QED BY <3>1, <3>2, <3>3, <3>4 DEF BlanksKept
  <2>2. CASE ls # <<>>
    <3> DEFINE u == JoinLines(ls)
               v == JoinLines(R)
    <3>1. R # <<>> /\ (~AnyBlank(u) => ~AnyBlank(v) /\ (EndsNL(v) <=> EndsNL(u)))
      BY <1>2, <2>2 DEF BlanksKept
    <3>2. u \in Seq(Byte) /\ v \in Seq(Byte) /\ JoinedWith(ls, l) /\ JoinedWith(R, k)
      BY <2>0, <2>2, <3>1, JoinGrows
    <3>3. BlanksOf(u, l) /\ BlanksOf(v, k)
      BY <2>0, <3>2, BlanksOfALineMore
    <3>4. JoinLines(Append(ls, l)) = (u \o <<NL>>) \o l /\ JoinLines(Append(R, k)) = (v \o <<NL>>) \o k
      BY <3>2, Zenon DEF JoinedWith
    <3>5. (AnyBlank(JoinLines(Append(ls, l))) <=> AnyBlank(u) \/ EndsNL(u))
          /\ (EndsNL(JoinLines(Append(ls, l))) <=> l = <<>>)
          /\ (AnyBlank(JoinLines(Append(R, k))) <=> AnyBlank(v) \/ EndsNL(v))
          /\ (EndsNL(JoinLines(Append(R, k))) <=> k = <<>>)
      BY <3>3, <3>4, Zenon DEF BlanksOf
    <3>6. R2 # <<>>
      BY <2>0, <3>1
    <3>7. ASSUME ~AnyBlank(JoinLines(Append(ls, l)))
          PROVE  ~AnyBlank(JoinLines(R2)) /\ (EndsNL(JoinLines(R2)) <=> EndsNL(JoinLines(Append(ls, l))))
      <4>1. ~AnyBlank(v) /\ ~EndsNL(v)
        BY <3>1, <3>5, <3>7
      <4> HIDE DEF R, k, R2, u
      <4>2. CASE R2 = Append(R, k)
        BY <2>0, <3>5, <4>1, <4>2, Zenon
      <4>3. CASE R2 = R /\ l # <<>>
        BY <3>5, <4>1, <4>3, Zenon
      <4> QED BY <2>0, <4>2, <4>3
    <3> QED BY <3>6, <3>7 DEF BlanksKept
  <2> QED BY <2>1, <2>2
<1>3. \A ls \in Seq(Line) : ls \in T
  <2>1. \A ls \in Seq(Line), l \in Line : ls \in T => Append(ls, l) \in T
    BY <1>2, AppendProperties
  <2> HIDE DEF T
  <2> QED BY <1>1, <2>1, TextInduction
<1> QED BY <1>3

\* Rewritten, a frame is a frame, and ends as it did.
FrameKept(t, m) ==
  /\ \A i \in 1..Len(m) : BlankAt(m, i) => i = Len(m) /\ BlankAt(t, Len(t))
  /\ BlankAt(t, Len(t)) => BlankAt(m, Len(m))

LEMMA AFrameIsKept ==
  ASSUME NEW d \in Document, NEW t \in Seq(Byte), t # <<>>, Framed(t)
  PROVE  FrameKept(t, JoinLines(RewriteLines(Lines(t), d)))
<1> DEFINE fs == Split(t).ended
           o == Split(t).open
           k == NewLine(o, d)
           R == RewriteLines(fs, d)
           R2 == RewriteLines(Lines(t), d)
           m == JoinLines(R2)
<1>0. fs \in Seq(Line) /\ o \in Line /\ Lines(t) = Append(fs, o) /\ JoinLines(Lines(t)) = t
  BY SplitGrows, LinesJoined DEF Lines
<1>1. k \in Line /\ (k = <<>> <=> o = <<>>) /\ R \in Seq(Line)
      /\ (R2 = Append(R, k) \/ (R2 = R /\ o # <<>> /\ fs # <<>>))
  <2>1. R \in Seq(Line)
    BY <1>0, RewriteGrows
  <2> HIDE DEF fs, o
  <2>2. k \in Line /\ (k = <<>> <=> o = <<>>)
        /\ (R2 = Append(R, k) \/ (R2 = R /\ o # <<>> /\ fs # <<>>))
    BY <1>0, LineDroppedOrNot
  <2> QED BY <2>1, <2>2
<1>2. CASE fs = <<>>
  <2>1. Lines(t) = <<o>> /\ R = <<>>
    <3>1. Append(<<>>, o) = <<o>>
      OBVIOUS
    <3> QED BY <1>0, <1>2, <3>1, RewriteGrows
  <2> HIDE DEF o, k, R, fs
  <2>2. R2 = <<k>>
    BY <1>1, <1>2, <2>1
  <2>3. t = o /\ m = k
    BY <1>0, <1>1, <2>1, <2>2, JoinGrows
  <2>4. ~AnyBlank(k) /\ ~EndsNL(o) /\ Len(o) \in Nat
    BY <1>0, <1>1, NoNewlineInALine, LenProperties DEF Line
  <2>5. ~BlankAt(t, Len(t))
    BY <2>3, <2>4 DEF BlankAt, EndsNL
  <2> QED BY <2>3, <2>4, <2>5 DEF FrameKept, AnyBlank
<1>3. CASE fs # <<>>
  <2> DEFINE u == JoinLines(fs)
             v == JoinLines(R)
  <2>1. BlanksKept(fs, d)
    BY <1>0, BlanksAreKept
  <2>2. R # <<>> /\ (~AnyBlank(u) => ~AnyBlank(v) /\ (EndsNL(v) <=> EndsNL(u)))
    BY <1>3, <2>1 DEF BlanksKept
  <2> HIDE DEF fs, o, k, R, R2
  <2>3. u \in Seq(Byte) /\ v \in Seq(Byte) /\ JoinedWith(fs, o) /\ JoinedWith(R, k)
    BY <1>0, <1>1, <1>3, <2>2, JoinGrows
  <2>4. BlanksOf(u, o) /\ BlanksOf(v, k)
    BY <1>0, <1>1, <2>3, BlanksOfALineMore
  <2>5. t = (u \o <<NL>>) \o o /\ JoinLines(Append(R, k)) = (v \o <<NL>>) \o k
    BY <1>0, <2>3, Zenon DEF JoinedWith
  <2> HIDE DEF u, v
  <2>6. Len(u) \in Nat /\ Len(v) \in Nat /\ Len(o) \in Nat /\ Len(k) \in Nat
        /\ (o = <<>> <=> Len(o) = 0) /\ (k = <<>> <=> Len(k) = 0)
    BY <1>0, <1>1, <2>3, LenProperties, EmptySeq DEF Line
  <2>7. Len(t) = (Len(u) + 1) + Len(o)
        /\ (\A i \in 1..Len(t) : BlankAt(t, i) <=> (i <= Len(u) /\ BlankAt(u, i)) \/ (i = Len(u) + 1 /\ EndsNL(u)))
        /\ (EndsNL(t) <=> o = <<>>)
    BY <2>4, <2>5, Zenon DEF BlanksOf
  <2>8. ~AnyBlank(u)
    <3> SUFFICES ASSUME NEW i \in 1..Len(u), BlankAt(u, i) PROVE FALSE
      BY DEF AnyBlank
    <3>1. i \in 1..Len(t) /\ i \in 1..(Len(t) - 1) /\ i <= Len(u)
      BY <2>6, <2>7
    <3> QED BY <2>7, <3>1 DEF Framed
  <2>9. ~AnyBlank(v) /\ (EndsNL(v) <=> EndsNL(u))
    BY <2>2, <2>8
  <2>10. EndsNL(u) => o = <<>>
    <3> SUFFICES ASSUME EndsNL(u), o # <<>> PROVE FALSE
      OBVIOUS
    <3>1. Len(u) + 1 \in 1..Len(t) /\ Len(u) + 1 \in 1..(Len(t) - 1)
      BY <2>6, <2>7
    <3> QED BY <2>7, <3>1 DEF Framed
  <2>11. BlankAt(t, Len(t)) <=> EndsNL(u)
    <3>1. Len(t) \in 1..Len(t) /\ (o = <<>> => Len(t) = Len(u) + 1) /\ (Len(t) <= Len(u) => FALSE)
      BY <2>6, <2>7
    <3>2. BlankAt(t, Len(t)) => Len(t) = Len(u) + 1 /\ EndsNL(u)
      BY <2>7, <3>1
    <3> QED BY <2>7, <2>10, <3>1, <3>2
  <2>12. CASE R2 = R /\ o # <<>>
    <3>1. m = v
      BY <2>12 DEF v
    <3> HIDE DEF m
    <3>2. FrameKept(t, m)
      BY <2>9, <2>10, <2>11, <2>12, <3>1 DEF FrameKept, AnyBlank
    <3> QED BY <3>2 DEF m, R2
  <2>13. CASE R2 = Append(R, k)
    <3>1. m = (v \o <<NL>>) \o k
      BY <2>5, <2>13
    <3> HIDE DEF m
    <3>2. Len(m) = (Len(v) + 1) + Len(k)
          /\ (\A i \in 1..Len(m) : BlankAt(m, i) <=> (i <= Len(v) /\ BlankAt(v, i)) \/ (i = Len(v) + 1 /\ EndsNL(v)))
      BY <2>4, <3>1, Zenon DEF BlanksOf
    <3>3. ASSUME NEW i \in 1..Len(m), BlankAt(m, i) PROVE i = Len(v) + 1 /\ EndsNL(v)
      <4>1. i <= Len(v) => i \in 1..Len(v)
        BY <2>6
      <4> QED BY <2>9, <3>2, <3>3, <4>1 DEF AnyBlank
    <3>4. EndsNL(u) => Len(m) = Len(v) + 1 /\ Len(m) \in 1..Len(m)
      BY <1>1, <2>6, <2>10, <3>2
    <3>5. EndsNL(u) => BlankAt(m, Len(m))
      BY <2>9, <3>2, <3>4
    <3>6. FrameKept(t, m)
      BY <2>9, <2>11, <3>3, <3>4, <3>5 DEF FrameKept
    <3> QED BY <3>6 DEF m, R2
  <2> QED BY <1>1, <2>12, <2>13
<1> QED BY <1>2, <1>3

-----------------------------------------------------------------------------
(***************************************************************************)
(* maskStringOffsets: stars shared out over the carriers star their text.  *)
(***************************************************************************)
StarredFrom(s, n, stars) == [i \in DOMAIN s |-> IF n + i \in stars THEN 0 ELSE s[i]]
Starred(s, stars) == [i \in DOMAIN s |-> IF i \in stars THEN 0 ELSE s[i]]

LEMMA StarringKeepsLength ==
  ASSUME NEW s \in Seq(Nat), NEW n \in Nat, NEW stars
  PROVE  /\ StarredFrom(s, n, stars) \in Seq(Nat) /\ Len(StarredFrom(s, n, stars)) = Len(s)
         /\ Starred(s, stars) \in Seq(Nat) /\ Len(Starred(s, stars)) = Len(s)
<1>1. Len(s) \in Nat /\ DOMAIN s = 1..Len(s) /\ \A i \in 1..Len(s) : s[i] \in Nat
  BY LenProperties, ElementOfSeq
<1>2. StarredFrom(s, n, stars) \in [1..Len(s) -> Nat] /\ Starred(s, stars) \in [1..Len(s) -> Nat]
  BY <1>1 DEF StarredFrom, Starred
<1>3. StarredFrom(s, n, stars) \in Seq(Nat) /\ Starred(s, stars) \in Seq(Nat)
  BY <1>1, <1>2, SeqDef
<1> QED BY <1>1, <1>2, <1>3, LenProperties

LEMMA StarringAConcatenation ==
  ASSUME NEW f \in Seq(Nat), NEW x \in Seq(Nat), NEW stars
  PROVE  Starred(f \o x, stars) = Starred(f, stars) \o StarredFrom(x, Len(f), stars)
<1> DEFINE a == Starred(f \o x, stars)
           b == Starred(f, stars)
           c == StarredFrom(x, Len(f), stars)
           p == Len(f)
           q == Len(x)
<1>1. p \in Nat /\ q \in Nat /\ DOMAIN f = 1..p /\ DOMAIN x = 1..q
  BY LenProperties
<1>2. f \o x \in Seq(Nat) /\ Len(f \o x) = p + q /\ DOMAIN (f \o x) = 1..p + q
      /\ \A i \in 1..p + q : (f \o x)[i] = IF i <= p THEN f[i] ELSE x[i - p]
  BY ConcatProperties, LenProperties
<1>3. a \in Seq(Nat) /\ Len(a) = p + q
  BY <1>1, <1>2, StarringKeepsLength
<1>4. b \in Seq(Nat) /\ Len(b) = p /\ c \in Seq(Nat) /\ Len(c) = q
  BY <1>1, StarringKeepsLength
<1>5. \A i \in 1..p + q : a[i] = IF i \in stars THEN 0 ELSE (f \o x)[i]
  BY <1>2 DEF Starred
<1>6. (\A i \in 1..p : b[i] = IF i \in stars THEN 0 ELSE f[i])
      /\ \A i \in 1..q : c[i] = IF p + i \in stars THEN 0 ELSE x[i]
  BY <1>1 DEF Starred, StarredFrom
<1> HIDE DEF a, b, c, p, q
<1>7. b \o c \in Seq(Nat) /\ Len(b \o c) = p + q
      /\ \A i \in 1..p + q : (b \o c)[i] = IF i <= p THEN b[i] ELSE c[i - p]
  BY <1>4, ConcatProperties
<1>8. ASSUME NEW i \in 1..p + q PROVE a[i] = (b \o c)[i]
  <2>1. CASE i <= p
    <3>1. i \in 1..p
      BY <1>1, <2>1
    <3> QED BY <1>2, <1>5, <1>6, <1>7, <2>1, <3>1
  <2>2. CASE ~(i <= p)
    <3>1. i - p \in 1..q /\ p + (i - p) = i
      BY <1>1, <2>2
    <3> QED BY <1>2, <1>5, <1>6, <1>7, <2>2, <3>1
  <2> QED BY <2>1, <2>2
<1>9. a = b \o c
  BY <1>3, <1>7, <1>8, SeqEqual
<1> QED BY <1>9 DEF a, b, c, p

LEMMA BeginningOfALonger ==
  ASSUME NEW B, NEW s \in Seq(B), NEW x \in B, NEW n \in 0..Len(s)
  PROVE  SubSeq(Append(s, x), 1, n) = SubSeq(s, 1, n)
<1>1. Append(s, x) \in Seq(B) /\ Len(Append(s, x)) = Len(s) + 1 /\ Len(s) \in Nat /\ n \in Nat
      /\ \A i \in 1..Len(s) : Append(s, x)[i] = s[i]
  BY AppendProperties, LenProperties
<1>2. n \in 0..Len(Append(s, x)) /\ \A i \in 1..n : i \in 1..Len(s)
  BY <1>1
<1>3. SubSeq(s, 1, n) \in Seq(B) /\ Len(SubSeq(s, 1, n)) = n /\ \A i \in 1..n : SubSeq(s, 1, n)[i] = s[i]
  BY CutInTwo
<1> DEFINE m == Append(s, x)
<1> HIDE DEF m
<1>4. m \in Seq(B) /\ n \in 0..Len(m)
  BY <1>1, <1>2 DEF m
<1>5. SubSeq(m, 1, n) \in Seq(B) /\ Len(SubSeq(m, 1, n)) = n /\ \A i \in 1..n : SubSeq(m, 1, n)[i] = m[i]
  BY <1>4, CutInTwo
<1>6. \A i \in 1..n : m[i] = s[i]
  BY <1>1, <1>2 DEF m
<1>7. SubSeq(m, 1, n) = SubSeq(s, 1, n)
  BY <1>3, <1>5, <1>6, SeqEqual
<1> QED BY <1>7 DEF m

LEMMA AFunctionIsASeq ==
  ASSUME NEW S, NEW n \in Nat, NEW f \in [1..n -> S]
  PROVE  f \in Seq(S) /\ Len(f) = n
<1>1. f \in Seq(S)
  BY SeqDef
<1> QED BY <1>1, LenProperties

MaskGrowsBy(cs, x, stars) ==
  MaskStrings(Append(cs, x), stars) =
    Append(MaskStrings(cs, stars), StarredFrom(x, Len(FlattenSeq(cs)), stars))

LEMMA MaskGrows ==
  ASSUME NEW cs \in Seq(Seq(Nat)), NEW stars
  PROVE  /\ MaskStrings(cs, stars) \in Seq(Seq(Nat)) /\ Len(MaskStrings(cs, stars)) = Len(cs)
         /\ \A x \in Seq(Nat) : MaskGrowsBy(cs, x, stars)
<1> DEFINE M(ds) == [k \in DOMAIN ds |-> StarredFrom(ds[k], Before(ds, k), stars)]
<1>0. \A ds : MaskStrings(ds, stars) = M(ds)
  BY Zenon DEF MaskStrings, StarredFrom
<1>1. ASSUME NEW ds \in Seq(Seq(Nat))
      PROVE  M(ds) \in Seq(Seq(Nat)) /\ Len(M(ds)) = Len(ds) /\ DOMAIN ds = 1..Len(ds)
             /\ \A k \in 1..Len(ds) : M(ds)[k] = StarredFrom(ds[k], Before(ds, k), stars)
  <2>1. Len(ds) \in Nat /\ DOMAIN ds = 1..Len(ds)
    BY LenProperties
  <2>2. ASSUME NEW k \in 1..Len(ds) PROVE StarredFrom(ds[k], Before(ds, k), stars) \in Seq(Nat)
    <3>1. k - 1 \in 0..Len(ds) /\ ds[k] \in Seq(Nat)
      BY <2>1, ElementOfSeq
    <3>2. SubSeq(ds, 1, k - 1) \in Seq(Seq(Nat))
      BY <3>1, CutInTwo
    <3>3. Before(ds, k) \in Nat
      BY <3>2, FlattenGrows, LenProperties DEF Before, FlattenGrowsIn
    <3> QED BY <3>1, <3>3, StarringKeepsLength
  <2>3. M(ds) \in [1..Len(ds) -> Seq(Nat)]
    BY <2>1, <2>2
  <2>4. M(ds) \in Seq(Seq(Nat)) /\ Len(M(ds)) = Len(ds)
    <3> DEFINE m == M(ds)
               n == Len(ds)
    <3>1. m \in [1..n -> Seq(Nat)] /\ n \in Nat
      BY <2>1, <2>3
    <3> HIDE DEF m, n
    <3>2. m \in Seq(Seq(Nat)) /\ Len(m) = n
      BY <3>1, AFunctionIsASeq
    <3> QED BY <3>2 DEF m, n
  <2> QED BY <2>1, <2>4
<1>2. ASSUME NEW x \in Seq(Nat) PROVE MaskGrowsBy(cs, x, stars)
  <2> DEFINE ds == Append(cs, x)
             y == StarredFrom(x, Len(FlattenSeq(cs)), stars)
             n == Len(cs)
  <2>0. n \in Nat
    BY LenProperties
  <2>1. ds \in Seq(Seq(Nat)) /\ Len(ds) = n + 1 /\ (\A i \in 1..n : ds[i] = cs[i]) /\ ds[n + 1] = x /\ n \in Nat
    BY AppendProperties, LenProperties
  <2>2. Len(FlattenSeq(cs)) \in Nat
    BY FlattenGrows, LenProperties DEF FlattenGrowsIn
  <2>3. y \in Seq(Nat)
    BY <2>2, StarringKeepsLength
  <2>4. ASSUME NEW k \in 1..n PROVE Before(ds, k) = Before(cs, k)
    <3>1. k - 1 \in 0..Len(cs)
      BY <2>1
    <3>2. SubSeq(Append(cs, x), 1, k - 1) = SubSeq(cs, 1, k - 1)
      BY <3>1, BeginningOfALonger
    <3> QED BY <3>2 DEF Before
  <2>5. Before(ds, n + 1) = Len(FlattenSeq(cs))
    <3>1. n \in 0..Len(cs) /\ (n + 1) - 1 = n
      BY <2>1
    <3>2. SubSeq(Append(cs, x), 1, n) = SubSeq(cs, 1, n)
      BY <3>1, BeginningOfALonger
    <3>3. SubSeq(cs, 1, n) = cs
      BY SubSeqFull
    <3> QED BY <3>1, <3>2, <3>3 DEF Before
  <2> HIDE DEF ds, y, M
  <2>6. M(cs) \in Seq(Seq(Nat)) /\ Len(M(cs)) = n
        /\ \A k \in 1..n : M(cs)[k] = StarredFrom(cs[k], Before(cs, k), stars)
    BY <1>1
  <2>7. M(ds) \in Seq(Seq(Nat)) /\ Len(M(ds)) = n + 1
        /\ \A k \in 1..n + 1 : M(ds)[k] = StarredFrom(ds[k], Before(ds, k), stars)
    BY <1>1, <2>1
  <2> HIDE DEF n
  <2>8. Append(M(cs), y) \in Seq(Seq(Nat)) /\ Len(Append(M(cs), y)) = n + 1
        /\ (\A k \in 1..n : Append(M(cs), y)[k] = M(cs)[k]) /\ Append(M(cs), y)[n + 1] = y
    BY <2>3, <2>6, AppendProperties
  <2>9. ASSUME NEW k \in 1..n + 1 PROVE M(ds)[k] = Append(M(cs), y)[k]
    <3>1. CASE k \in 1..n
      BY <2>1, <2>4, <2>6, <2>7, <2>8, <3>1
    <3>2. CASE k = n + 1
      BY <2>1, <2>5, <2>7, <2>8, <3>2 DEF y
    <3>3. k \in 1..n \/ k = n + 1
      BY <2>0
    <3> QED BY <3>1, <3>2, <3>3
  <2>10. M(ds) = Append(M(cs), y)
    BY <2>7, <2>8, <2>9, SeqEqual
  <2> QED BY <1>0, <2>10 DEF MaskGrowsBy, ds, y
<1>3. M(cs) \in Seq(Seq(Nat)) /\ Len(M(cs)) = Len(cs)
  BY <1>1
<1> QED BY <1>0, <1>2, <1>3

\* The text of masked carriers is their text with the stars.
LEMMA MaskedTextIsStarred ==
  ASSUME NEW stars
  PROVE  \A cs \in Seq(Seq(Nat)) : FlattenSeq(MaskStrings(cs, stars)) = Starred(FlattenSeq(cs), stars)
<1> DEFINE Good(cs) == FlattenSeq(MaskStrings(cs, stars)) = Starred(FlattenSeq(cs), stars)
           T == {cs \in Seq(Seq(Nat)) : Good(cs)}
<1>0. <<>> \in Seq(Seq(Nat)) /\ FlattenSeq(<<>>) = <<>> /\ <<>> \in Seq(Nat)
  BY FlattenGrows, EmptySeq DEF FlattenGrowsIn
<1>1. <<>> \in T
  <2>1. MaskStrings(<<>>, stars) = <<>>
    <3>1. DOMAIN <<>> = {}
      OBVIOUS
    <3> QED BY <3>1 DEF MaskStrings
  <2>2. Starred(<<>>, stars) = <<>>
    BY DEF Starred
  <2> QED BY <1>0, <2>1, <2>2
<1>2. ASSUME NEW cs \in Seq(Seq(Nat)), NEW x \in Seq(Nat), Good(cs) PROVE Good(Append(cs, x))
  <2> DEFINE f == FlattenSeq(cs)
             m == MaskStrings(cs, stars)
             y == StarredFrom(x, Len(f), stars)
  <2>1. f \in Seq(Nat) /\ FlattenSeq(Append(cs, x)) = f \o x /\ Len(f) \in Nat
    BY FlattenGrows, LenProperties DEF FlattenGrowsIn
  <2>2. y \in Seq(Nat) /\ m \in Seq(Seq(Nat)) /\ MaskGrowsBy(cs, x, stars)
    BY <2>1, StarringKeepsLength, MaskGrows
  <2>3. MaskStrings(Append(cs, x), stars) = Append(m, y)
    BY <2>2, Zenon DEF MaskGrowsBy
  <2>4. FlattenSeq(m) = Starred(f, stars)
    BY <1>2
  <2> HIDE DEF f, m, y
  <2>5. FlattenSeq(Append(m, y)) = FlattenSeq(m) \o y
    BY <2>2, FlattenGrows DEF FlattenGrowsIn
  <2>6. Starred(f \o x, stars) = Starred(f, stars) \o y
    BY <2>1, StarringAConcatenation DEF y
  <2> QED BY <2>1, <2>3, <2>4, <2>5, <2>6
<1>3. \A cs \in Seq(Seq(Nat)) : cs \in T
  <2>1. \A cs \in Seq(Seq(Nat)), x \in Seq(Nat) : cs \in T => Append(cs, x) \in T
    BY <1>2, AppendProperties
  <2> HIDE DEF T
  <2> QED BY <1>1, <2>1, TextInduction
<1> QED BY <1>3

\* Masking finds the carriers that are spelt exactly, and keeps the others.
LEMMA CarriersFound ==
  ASSUME NEW d \in Document
  PROVE  /\ Found(d) \in Seq(Seq(Nat)) /\ Len(Found(d)) = Len(d.carriers)
         /\ DOMAIN d.carriers \subseteq d.exact => Found(d) = d.carriers
<1> DEFINE cs == d.carriers
           n == Len(cs)
           f == Found(d)
<1>1. cs \in Seq(Seq(Nat)) /\ n \in Nat /\ DOMAIN cs = 1..n /\ \A k \in 1..n : cs[k] \in Seq(Nat)
  <2>1. cs \in Seq(Seq(Nat))
    BY DEF Document
  <2> HIDE DEF cs
  <2> QED BY <2>1, LenProperties, ElementOfSeq
<1>2. f = [k \in 1..n |-> IF k \in d.exact THEN cs[k] ELSE <<>>]
  BY <1>1 DEF Found
<1> HIDE DEF cs, n, f
<1>3. f \in [1..n -> Seq(Nat)]
  BY <1>1, <1>2, EmptySeq
<1>4. f \in Seq(Seq(Nat)) /\ Len(f) = n
  BY <1>1, <1>3, AFunctionIsASeq
<1>5. ASSUME DOMAIN cs \subseteq d.exact PROVE f = cs
  <2>1. \A k \in 1..n : f[k] = cs[k]
    BY <1>1, <1>2, <1>5
  <2> QED BY <1>1, <1>4, <2>1, SeqEqual DEF n
<1> QED BY <1>4, <1>5 DEF cs, n, f

LEMMA CarriersMasked ==
  ASSUME NEW d \in Document, NEW stars
  PROVE  /\ MaskCarriers(d, stars) \in Seq(Seq(Nat))
         /\ Len(MaskCarriers(d, stars)) = Len(d.carriers)
         /\ DOMAIN d.carriers \subseteq d.exact =>
              MaskCarriers(d, stars) = MaskStrings(d.carriers, stars)
<1> DEFINE cs == d.carriers
           n == Len(cs)
           ms == MaskStrings(Found(d), stars)
           m == MaskCarriers(d, stars)
<1>1. cs \in Seq(Seq(Nat)) /\ n \in Nat /\ DOMAIN cs = 1..n /\ \A k \in 1..n : cs[k] \in Seq(Nat)
  <2>1. cs \in Seq(Seq(Nat))
    BY DEF Document
  <2> HIDE DEF cs
  <2> QED BY <2>1, LenProperties, ElementOfSeq
<1>2. ms \in Seq(Seq(Nat)) /\ Len(ms) = n
  BY CarriersFound, MaskGrows
<1>3. DOMAIN cs \subseteq d.exact => ms = MaskStrings(cs, stars)
  BY CarriersFound
<1>4. m = [k \in 1..n |-> IF k \in d.exact THEN ms[k] ELSE cs[k]]
  BY <1>1 DEF MaskCarriers
<1> HIDE DEF cs, n, ms, m
<1>5. \A k \in 1..n : ms[k] \in Seq(Nat)
  BY <1>2, ElementOfSeq
<1>6. m \in [1..n -> Seq(Nat)]
  BY <1>1, <1>4, <1>5
<1>7. m \in Seq(Seq(Nat)) /\ Len(m) = n
  BY <1>1, <1>6, AFunctionIsASeq
<1>8. ASSUME DOMAIN cs \subseteq d.exact PROVE m = ms
  <2>1. \A k \in 1..n : m[k] = ms[k]
    BY <1>1, <1>4, <1>8
  <2> QED BY <1>2, <1>7, <2>1, SeqEqual
<1> QED BY <1>3, <1>7, <1>8 DEF cs, n, m

-----------------------------------------------------------------------------
(***************************************************************************)
(* A token the handler has masked is read as it should be.                 *)
(***************************************************************************)

Exactly(d) == DOMAIN d.carriers \subseteq d.exact

\* What extraction reads of a token is no text, or the text of the carriers.
LEMMA TextIsCarriers ==
  ASSUME NEW format, NEW event, NEW p
  PROVE  LET text == StreamDelta(format, event, p).text
         IN  text = <<>> \/ (Decodes(p) /\ text = FlattenSeq(p[1].doc.carriers))
BY DEF StreamDelta, TextOf

\* Not rewritten, a token has no text to be starred, or no star falls on it.
LEMMA NothingStarred ==
  ASSUME NEW format, NEW event, NEW p, NEW stars,
         Decodes(p) => p[1].doc \in Document /\ Exactly(p[1].doc),
         stars = {} \/ ~Decodes(p) \/ ~Applied(p[1].doc, stars)
  PROVE  Starred(StreamDelta(format, event, p).text, stars) = StreamDelta(format, event, p).text
<1> DEFINE text == StreamDelta(format, event, p).text
           cs == p[1].doc.carriers
<1>1. text = <<>> \/ (Decodes(p) /\ text = FlattenSeq(cs))
  BY TextIsCarriers
<1> HIDE DEF text
<1>2. Starred(<<>>, stars) = <<>>
  BY DEF Starred
<1>3. ASSUME Decodes(p), text = FlattenSeq(cs) PROVE Starred(text, stars) = text
  <2>1. cs \in Seq(Seq(Nat)) /\ Found(p[1].doc) = cs
    BY <1>3, CarriersFound DEF Document, Exactly
  <2>2. \A o \in stars : o \notin DOMAIN FlattenSeq(cs)
    BY <1>3, <2>1 DEF Applied
  <2> HIDE DEF cs
  <2>3. FlattenSeq(cs) \in Seq(Nat)
    BY <2>1, FlattenGrows DEF FlattenGrowsIn
  <2>4. text = [i \in DOMAIN text |-> text[i]]
    BY <1>3, <2>3, LenProperties
  <2>5. \A i \in DOMAIN text : i \notin stars
    BY <1>3, <2>2
  <2> QED BY <2>4, <2>5 DEF Starred
<1> QED BY <1>1, <1>2, <1>3 DEF text

\* The document applyMaskToEvent writes, and what is read of its event.
Rewritten(d, stars) == [d EXCEPT !.carriers = MaskCarriers(d, stars)]
ReadsStarred(format, event, p, stars) ==
  LET was == StreamDelta(format, event, p)
      now == StreamDelta(format, event, <<Whole(Rewritten(p[1].doc, stars))>>)
  IN  /\ Rewritten(p[1].doc, stars) \in Document
      /\ now.fields = was.fields
      /\ Exactly(p[1].doc) => now.text = Starred(was.text, stars)

\* Rewritten, a document is one still, of the same fields, and if its names are
\* spelt exactly its text is starred.
LEMMA TextStarred ==
  ASSUME NEW format, NEW event, NEW p, NEW stars, Decodes(p), p[1].doc \in Document
  PROVE  ReadsStarred(format, event, p, stars)
<1> DEFINE d == p[1].doc
           d2 == Rewritten(d, stars)
           p2 == <<Whole(d2)>>
<1>1. d \in Document /\ d.carriers \in Seq(Seq(Nat))
  BY DEF Document
<1>2. /\ d2 \in Document /\ d2.typed = d.typed /\ d2.extra = d.extra /\ d2.textDelta = d.textDelta
      /\ d2.carriers = MaskCarriers(d, stars)
  <2> DEFINE mc == MaskCarriers(d, stars)
  <2>1. mc \in Seq(Seq(Nat)) /\ d2 = [d EXCEPT !.carriers = mc]
    BY <1>1, CarriersMasked DEF Rewritten
  <2> HIDE DEF mc, d2, d
  <2>2. d2 \in Document /\ d2.typed = d.typed /\ d2.extra = d.extra /\ d2.textDelta = d.textDelta
        /\ d2.carriers = mc
    BY <1>1, <2>1 DEF Document
  <2> QED BY <2>2 DEF mc
<1>3. Len(d2.carriers) = Len(d.carriers) /\ ExtraFields(d2) = ExtraFields(d)
  BY <1>1, <1>2, CarriersMasked DEF ExtraFields
<1>4. Decodes(p2) /\ p2[1].doc = d2
  BY DEF Decodes, Whole
<1>5. ASSUME Exactly(d) PROVE TextOf(format, d2) = Starred(TextOf(format, d), stars)
  <2>1. d2.carriers = MaskStrings(d.carriers, stars)
    BY <1>1, <1>2, <1>5, CarriersMasked DEF Exactly
  <2>2. FlattenSeq(d2.carriers) = Starred(FlattenSeq(d.carriers), stars)
    BY <1>1, <2>1, MaskedTextIsStarred
  <2>3. Starred(<<>>, stars) = <<>>
    BY DEF Starred
  <2> HIDE DEF d, d2
  <2> QED BY <1>2, <1>3, <2>2, <2>3 DEF TextOf
<1>6. Starred(<<>>, stars) = <<>>
  BY DEF Starred
<1> HIDE DEF d2
<1>7. StreamDelta(format, event, p2).fields = StreamDelta(format, event, p).fields
  <2> HIDE DEF p2
  <2> QED BY <1>2, <1>3, <1>4 DEF StreamDelta
<1>8. ASSUME Exactly(d)
      PROVE  StreamDelta(format, event, p2).text = Starred(StreamDelta(format, event, p).text, stars)
  <2> HIDE DEF p2
  <2> QED BY <1>4, <1>5, <1>6, <1>8 DEF StreamDelta
<1> QED BY <1>2, <1>7, <1>8 DEF d2, ReadsStarred

ReadsMasked(format, t, stars) ==
  LET m == ApplyMask(t, stars)
      text == Extracted(format, t).text
  IN  /\ Extracted(format, m).fields = Extracted(format, t).fields
      /\ parseSSEToken(m).event = parseSSEToken(t).event
      /\ SpeltExactly(t) =>
           Extracted(format, m).text = [i \in DOMAIN text |-> IF i \in stars THEN 0 ELSE text[i]]
      /\ \A i \in DOMAIN m : BlankAt(m, i) => i = Len(m) /\ BlankAt(t, Len(t))
      /\ BlankAt(t, Len(t)) => BlankAt(m, Len(m))

\* What of a token the handler takes: its event, its comment's flag, its delta.
SameToken(format, t, m, stars) ==
  LET was == StreamDelta(format, parseSSEToken(t).event, parseSSEToken(t).data)
      now == StreamDelta(format, parseSSEToken(m).event, parseSSEToken(m).data)
  IN  /\ parseSSEToken(m).event = parseSSEToken(t).event
      /\ parseSSEToken(m).hasComment = parseSSEToken(t).hasComment
      /\ now.fields = was.fields
      /\ SpeltExactly(t) => now.text = Starred(was.text, stars)

\* The handler takes the text of the delta and its fields, with a comment's flag.
LEMMA ExtractedFrom ==
  ASSUME NEW format, NEW t
  PROVE  LET token == parseSSEToken(t)
             delta == StreamDelta(format, token.event, token.data)
         IN  /\ Extracted(format, t).text = delta.text
             /\ Extracted(format, t).fields =
                  IF token.hasComment THEN delta.fields \cup {"sse:comment"} ELSE delta.fields
<1> DEFINE token == parseSSEToken(t)
           delta == StreamDelta(format, token.event, token.data)
           u == delta.text
           f == delta.fields
           g == f \cup {"sse:comment"}
<1>1. delta = [text |-> u, fields |-> f]
  BY DEF StreamDelta
<1>2. Extracted(format, t) = IF token.hasComment THEN [delta EXCEPT !.fields = g] ELSE delta
  BY DEF Extracted
<1> HIDE DEF token, delta, u, f, g
<1>3. [delta EXCEPT !.fields = g] = [text |-> u, fields |-> g]
  BY <1>1
<1>4. Extracted(format, t).text = u /\ Extracted(format, t).fields = IF token.hasComment THEN g ELSE f
  BY <1>1, <1>2, <1>3
<1> QED BY <1>4 DEF token, delta, u, f, g

LEMMA SameTokenReadsMasked ==
  ASSUME NEW format, NEW stars, NEW t \in Seq(Byte), NEW m \in Seq(Byte),
         m = ApplyMask(t, stars), SameToken(format, t, m, stars), FrameKept(t, m)
  PROVE  ReadsMasked(format, t, stars)
<1> DEFINE was == StreamDelta(format, parseSSEToken(t).event, parseSSEToken(t).data)
           now == StreamDelta(format, parseSSEToken(m).event, parseSSEToken(m).data)
<1>1. /\ Extracted(format, t).text = was.text /\ Extracted(format, m).text = now.text
      /\ Extracted(format, t).fields =
           IF parseSSEToken(t).hasComment THEN was.fields \cup {"sse:comment"} ELSE was.fields
      /\ Extracted(format, m).fields =
           IF parseSSEToken(m).hasComment THEN now.fields \cup {"sse:comment"} ELSE now.fields
  BY ExtractedFrom
<1>2. /\ parseSSEToken(m).event = parseSSEToken(t).event
      /\ parseSSEToken(m).hasComment = parseSSEToken(t).hasComment
      /\ now.fields = was.fields
      /\ SpeltExactly(t) => now.text = Starred(was.text, stars)
  BY Zenon DEF SameToken
<1> HIDE DEF was, now
<1>3. Extracted(format, m).fields = Extracted(format, t).fields
  BY <1>1, <1>2
<1>4. SpeltExactly(t) => Extracted(format, m).text = Starred(Extracted(format, t).text, stars)
  BY <1>1, <1>2
<1>5. DOMAIN m = 1..Len(m)
  BY LenProperties
<1> QED BY <1>2, <1>3, <1>4, <1>5 DEF ReadsMasked, FrameKept, Starred

LEMMA MaskedTokenIsTheSame ==
  ASSUME NEW format, NEW stars, NEW t \in Seq(Byte), t # <<>>, Framed(t)
  PROVE  ReadsMasked(format, t, stars)
<1> DEFINE ls == Lines(t)
           p == parseSSEToken(t).data
           d2 == Rewritten(p[1].doc, stars)
           R == RewriteLines(ls, d2)
<1>1. ls \in Seq(Line) /\ ls # <<>> /\ JoinLines(ls) = t
  BY LinesOf, LinesJoined
<1>2. \A u : parseSSEToken(u) = Parsed(Lines(u))
  BY Zenon DEF parseSSEToken, Parsed
<1>3. Decodes(p) => p[1].doc \in Document /\ p # <<>>
  <2>1. p \in Seq(LineByte) /\ \A k \in 1..Len(p) : p[k].doc \in Document
    <3>1. Parsed(ls) \in Fields /\ \A k \in 1..Len(Parsed(ls).data) : Parsed(ls).data[k].doc \in Document
      BY <1>1, ParsedGrows, DataHaveDocuments
    <3>2. Parsed(ls).data \in Seq(LineByte)
      BY <3>1 DEF Fields
    <3> QED BY <1>2, <3>1, <3>2
  <2> HIDE DEF p
  <2>2. Decodes(p) => Len(p) \in Nat /\ Len(p) >= 1
    BY DEF Decodes
  <2> QED BY <2>1, <2>2, EmptySeq
<1>4. CASE stars = {} \/ ~Decodes(p) \/ ~Applied(p[1].doc, stars)
  <2>1. ApplyMask(t, stars) = t
    BY <1>4 DEF ApplyMask
  <2>2. SameToken(format, t, t, stars)
    <3>1. SpeltExactly(t) => (Decodes(p) => Exactly(p[1].doc))
      BY DEF SpeltExactly, Exactly
    <3> HIDE DEF p
    <3>2. SpeltExactly(t) =>
            Starred(StreamDelta(format, parseSSEToken(t).event, p).text, stars) =
              StreamDelta(format, parseSSEToken(t).event, p).text
      BY <1>3, <1>4, <3>1, NothingStarred
    <3> QED BY <3>2 DEF SameToken, p
  <2>3. FrameKept(t, t)
    <3>1. Len(t) \in Nat /\ \A i \in 1..Len(t) : i = Len(t) \/ i \in 1..(Len(t) - 1)
      BY LenProperties
    <3> QED BY <3>1 DEF FrameKept, Framed
  <2> QED BY <2>1, <2>2, <2>3, SameTokenReadsMasked
<1>5. CASE ~(stars = {} \/ ~Decodes(p) \/ ~Applied(p[1].doc, stars))
  <2>1. ApplyMask(t, stars) = JoinLines(R)
    BY <1>5, Zenon DEF ApplyMask, Rewritten
  <2>2. LET was == StreamDelta(format, parseSSEToken(t).event, p)
            now == StreamDelta(format, parseSSEToken(t).event, <<Whole(d2)>>)
        IN  /\ d2 \in Document
            /\ now.fields = was.fields
            /\ SpeltExactly(t) => now.text = Starred(was.text, stars)
    <3>1. SpeltExactly(t) => Exactly(p[1].doc)
      BY <1>5 DEF SpeltExactly, Exactly
    <3> HIDE DEF p
    <3>2. Decodes(p) /\ p[1].doc \in Document
      BY <1>3, <1>5
    <3>3. ReadsStarred(format, parseSSEToken(t).event, p, stars)
      BY <3>2, TextStarred
    <3> QED BY <3>1, <3>3, Zenon DEF ReadsStarred
  <2> HIDE DEF d2, ls
  <2>3. R \in Seq(Line) /\ R # <<>>
    BY <1>1, <2>2, RewriteGrows, BlanksAreKept DEF BlanksKept
  <2>4. JoinLines(R) \in Seq(Byte) /\ Lines(JoinLines(R)) = R
    <3> HIDE DEF R
    <3> QED BY <2>3, JoinGrows, JoinedSplitAgain
  <2>5. FrameKept(t, JoinLines(R))
    BY <2>2, AFrameIsKept DEF ls
  <2>6. ReadsAs(ls, d2)
    BY <1>1, <2>2, RewrittenReads
  <2>7. parseSSEToken(t) = Parsed(ls) /\ parseSSEToken(JoinLines(R)) = Parsed(R)
    BY <1>2, <2>4 DEF ls
  <2>8. Parsed(R).event = Parsed(ls).event /\ Parsed(R).hasComment = Parsed(ls).hasComment
        /\ Parsed(R).data = IF Parsed(ls).data = <<>> THEN <<>> ELSE <<Whole(d2)>>
    BY <2>6, Zenon DEF ReadsAs
  <2>9. p # <<>> /\ p = Parsed(ls).data
    BY <1>3, <1>5, <2>7
  <2>10. SameToken(format, t, JoinLines(R), stars)
    <3> HIDE DEF R
    <3>1. parseSSEToken(JoinLines(R)).event = parseSSEToken(t).event
          /\ parseSSEToken(JoinLines(R)).hasComment = parseSSEToken(t).hasComment
          /\ parseSSEToken(JoinLines(R)).data = <<Whole(d2)>>
      BY <2>7, <2>8, <2>9
    <3> QED BY <2>2, <3>1 DEF SameToken
  <2> HIDE DEF R
  <2> QED BY <2>1, <2>4, <2>5, <2>10, SameTokenReadsMasked
<1> QED BY <1>4, <1>5

\* applyMaskToEvent on the handler's own output: whatever is starred, a rewritten
\* token is still one token with the event, comment and reported fields it had;
\* and when its names are spelt as masking looks them up, its text is the text
\* before with exactly those offsets starred (Exchange.MaskingReadsBack).
THEOREM MaskedTokensReadBack == ExchangeSpec => []MaskingReadsBack
<1>1. FrameInv => MaskingReadsBack
  <2> SUFFICES ASSUME FrameInv PROVE MaskingReadsBack
    OBVIOUS
  <2> DEFINE format == StreamFormat(path)
             t == Last(tokens)
  <2>1. ASSUME tokens # <<>>
        PROVE  \A stars \in SUBSET DOMAIN Extracted(format, t).text : ReadsMasked(format, t, stars)
    <3>1. tokens \in Seq(Seq(Byte)) /\ Len(tokens) \in 1..Len(tokens)
      BY <2>1, LenProperties, EmptySeq DEF FrameInv
    <3>2. t = tokens[Len(tokens)]
      BY DEF Last
    <3> HIDE DEF t
    <3>3. t \in Seq(Byte) /\ t # <<>> /\ Framed(t)
      BY <3>1, <3>2, ElementOfSeq, Zenon DEF FrameInv
    <3> HIDE DEF format
    <3> QED BY <3>3, MaskedTokenIsTheSame
  <2> QED BY <2>1, Zenon DEF MaskingReadsBack, MaskedTokenReadsMasked, ReadsMasked
<1> QED BY <1>1, FramesHold, PTL

-----------------------------------------------------------------------------
(***************************************************************************)
(* Extract: the visitors and the names they let pass.                      *)
(***************************************************************************)
VisitorNames ==
  {"text", "strings", "scalars", "json", "nested", "tool_output", "content", "part",
   "image_url", "tool_calls", "tool_call", "function_call", "chat", "messages", "message",
   "chat_tools", "chat_tool", "functions", "definition", "responses", "items", "item",
   "response_tools", "response_tool", "anthropic", "turns", "turn", "blocks", "block",
   "source_text", "source_data", "anthropic_tools", "anthropic_tool"}

\* A function that reports names reports all it does not visit, and a new one too;
\* of the others only an image_url and a source visit members of their own.
Fits(v, f) ==
  /\ f.flags => DOMAIN f.members \subseteq f.fields /\ NewName \notin f.fields /\ f.others = "none"
  /\ f.flags \/ DOMAIN f.members = {} \/ v \in {"image_url", "source_text"}
  /\ f.item \in VisitorNames \cup {"none"} /\ f.others \in VisitorNames \cup {"none"}
  /\ \A n \in DOMAIN f.members : f.members[n] \subseteq VisitorNames

LEMMA MembersAre ==
  ASSUME NEW rules, NEW F, NEW V, \A r \in rules : r.names \subseteq F /\ r.next \in V
  PROVE  DOMAIN Members(rules) \subseteq F /\ \A n \in DOMAIN Members(rules) : Members(rules)[n] \subseteq V
<1>1. DOMAIN Members(rules) = UNION {r.names : r \in rules}
  BY DEF Members
<1>2. \A n \in DOMAIN Members(rules) :
        Members(rules)[n] = {r.next : r \in {q \in rules : n \in q.names}}
  BY DEF Members
<1>3. DOMAIN Members(rules) \subseteq F
  BY <1>1
<1>4. \A n : {r.next : r \in {q \in rules : n \in q.names}} \subseteq V
  OBVIOUS
<1> QED BY <1>2, <1>3, <1>4

LEMMA VisitsFit ==
  ASSUME NEW v, NEW string, NEW number, NEW item \in VisitorNames \cup {"none"},
         NEW others \in VisitorNames \cup {"none"}
  PROVE  Fits(v, Visits(string, number, item, {}, others))
<1>1. DOMAIN Members({}) \subseteq {}
  BY MembersAre
<1>2. DOMAIN Members({}) = {}
  BY <1>1
<1> QED BY <1>2 DEF Visits, Fits

LEMMA OwnMembersFit ==
  ASSUME NEW v \in {"image_url", "source_text"}, NEW rules, NEW F,
         \A r \in rules : r.names \subseteq F /\ r.next \in VisitorNames
  PROVE  Fits(v, Visits(FALSE, FALSE, "none", rules, "none"))
<1>1. \A n \in DOMAIN Members(rules) : Members(rules)[n] \subseteq VisitorNames
  BY MembersAre
<1> QED BY <1>1 DEF Visits, Fits

\* The rules of an object visit only what its table lists.
RulesFit(rules, fields) ==
  (\A r \in rules : r.names \subseteq fields /\ r.next \in VisitorNames) /\ NewName \notin fields

LEMMA ObjectFits ==
  ASSUME NEW v, NEW rules, NEW fields, RulesFit(rules, fields)
  PROVE  Fits(v, Object(rules, fields))
<1>1. DOMAIN Members(rules) \subseteq fields
      /\ \A n \in DOMAIN Members(rules) : Members(rules)[n] \subseteq VisitorNames
  BY MembersAre DEF RulesFit
<1> DEFINE m == Members(rules)
           o == Object(rules, fields)
<1>2. o.members = m /\ o.fields = fields /\ o.flags = TRUE /\ o.item = "none" /\ o.others = "none"
  BY DEF Object, Visits
<1> HIDE DEF o, m
<1>3. Fits(v, o)
  BY <1>1, <1>2 DEF Fits, RulesFit, m
<1> QED BY <1>3 DEF o

\* What scans strings too, or goes on to items, has the same members.
LEMMA OrStringFits ==
  ASSUME NEW v, NEW rules, NEW fields, RulesFit(rules, fields), NEW item \in VisitorNames
  PROVE  /\ Fits(v, OrString(Object(rules, fields)))
         /\ Fits(v, OrString(OrItems(Object(rules, fields), item)))
<1> DEFINE o == Object(rules, fields)
<1>1. DOMAIN o = {"string", "number", "item", "members", "others", "fields", "flags"}
  BY DEF Object, Visits
<1>2. Fits(v, o)
  BY ObjectFits
<1> HIDE DEF o
<1>3. Fits(v, OrString(o))
  BY <1>1, <1>2 DEF OrString, Fits
<1>4. Fits(v, OrString(OrItems(o, item)))
  BY <1>1, <1>2 DEF OrString, OrItems, Fits
<1> QED BY <1>3, <1>4 DEF o

LEMMA ArrayFits ==
  ASSUME NEW v, NEW item \in VisitorNames
  PROVE  Fits(v, Array(item)) /\ Fits(v, OrString(Array(item)))
<1> DEFINE a == Array(item)
<1>1. DOMAIN a = {"string", "number", "item", "members", "others", "fields", "flags"}
  BY DEF Array, Visits
<1>2. Fits(v, a)
  BY VisitsFit DEF Array
<1> HIDE DEF a
<1>3. Fits(v, OrString(a))
  BY <1>1, <1>2 DEF OrString, Fits
<1> QED BY <1>2, <1>3 DEF a

GroupFits(g) == \A v \in DOMAIN g : v \in VisitorNames /\ Fits(v, g[v])

LEMMA LeavesFit == GroupFits(Leaves)
<1>1. "none" \in VisitorNames \cup {"none"} /\ "strings" \in VisitorNames /\ "scalars" \in VisitorNames
      /\ "nested" \in VisitorNames
  BY DEF VisitorNames
<1>2. DOMAIN Leaves = {"text", "strings", "scalars", "json", "nested", "tool_output"}
  BY DEF Leaves
<1>3. Fits("text", Leaves.text) /\ Fits("json", Leaves.json)
  BY <1>1, VisitsFit DEF Leaves
<1>4. Fits("strings", Leaves.strings) /\ Fits("scalars", Leaves.scalars)
  BY <1>1, VisitsFit DEF Leaves
<1>5. Fits("nested", Leaves.nested) /\ Fits("tool_output", Leaves.tool_output)
  BY <1>1, VisitsFit DEF Leaves
<1>6. {"text", "strings", "scalars", "json", "nested", "tool_output"} \subseteq VisitorNames
  BY DEF VisitorNames
<1> QED BY <1>2, <1>3, <1>4, <1>5, <1>6 DEF GroupFits

LEMMA ContentFits == GroupFits(Content)
<1> DEFINE part == {To({"text", "input_text", "output_text", "refusal"}, "text"), To({"image_url"}, "image_url")}
           url == {To({"url"}, "text")}
           call == {To({"function"}, "function_call"), To({"output"}, "tool_output")}
           function == {To({"arguments"}, "json")}
<1>1. RulesFit(part, PartFields)
  BY DEF RulesFit, To, PartFields, VisitorNames, NewName
<1>2. \A r \in url : r.names \subseteq {"url"} /\ r.next \in VisitorNames
  BY DEF To, VisitorNames
<1>3. RulesFit(call, {"function", "id", "index", "output", "type"})
  BY DEF RulesFit, To, VisitorNames, NewName
<1>4. RulesFit(function, {"arguments", "name"})
  BY DEF RulesFit, To, VisitorNames, NewName
<1>5. DOMAIN Content = {"content", "part", "image_url", "tool_calls", "tool_call", "function_call"}
  BY DEF Content
<1>6. DOMAIN Content \subseteq VisitorNames /\ {"part", "tool_call"} \subseteq VisitorNames
  BY <1>5 DEF VisitorNames
<1>7. /\ Content.content = OrString(Array("part"))
      /\ Content.part = OrString(Object(part, PartFields))
      /\ Content.image_url = Visits(FALSE, FALSE, "none", url, "none")
      /\ Content.tool_calls = Array("tool_call")
      /\ Content.tool_call = Object(call, {"function", "id", "index", "output", "type"})
      /\ Content.function_call = Object(function, {"arguments", "name"})
  BY DEF Content
<1> HIDE DEF part, url, call, function
<1>8. Fits("content", Content.content) /\ Fits("tool_calls", Content.tool_calls)
  BY <1>6, <1>7, ArrayFits
<1>9. Fits("part", Content.part)
  BY <1>1, <1>6, <1>7, OrStringFits
<1>10. Fits("image_url", Content.image_url)
  BY <1>2, <1>7, OwnMembersFit
<1>11. Fits("tool_call", Content.tool_call) /\ Fits("function_call", Content.function_call)
  BY <1>3, <1>4, <1>7, ObjectFits
<1> QED BY <1>5, <1>6, <1>8, <1>9, <1>10, <1>11 DEF GroupFits

LEMMA ChatFit == GroupFits(Chat)
<1> DEFINE body == {To({"messages"}, "messages"), To({"tools"}, "chat_tools"), To({"functions"}, "functions")}
           message == {To({"content"}, "content"), To({"tool_calls"}, "tool_calls"),
                       To({"function_call"}, "function_call")}
<1>1. RulesFit(body, ChatFields)
  BY DEF RulesFit, To, ChatFields, VisitorNames, NewName
<1>2. RulesFit(message, MessageFields)
  BY DEF RulesFit, To, MessageFields, VisitorNames, NewName
<1>3. DOMAIN Chat = {"chat", "messages", "message"}
  BY DEF Chat
<1>4. DOMAIN Chat \subseteq VisitorNames
  BY <1>3 DEF VisitorNames
<1>5. /\ Chat.chat = Object(body, ChatFields)
      /\ Chat.messages = Array("message")
      /\ Chat.message = Object(message, MessageFields)
  BY DEF Chat
<1> HIDE DEF body, message
<1>6. Fits("chat", Chat.chat) /\ Fits("message", Chat.message)
  BY <1>1, <1>2, <1>5, ObjectFits
<1>7. Fits("messages", Chat.messages)
  BY <1>3, <1>4, <1>5, ArrayFits
<1> QED BY <1>3, <1>4, <1>6, <1>7 DEF GroupFits

LEMMA ChatToolsFit == GroupFits(ChatTools)
<1> DEFINE tool == {To({"function"}, "definition")}
<1>1. RulesFit(tool, {"function", "type"})
  BY DEF RulesFit, To, VisitorNames, NewName
<1>2. DOMAIN ChatTools = {"chat_tools", "chat_tool", "functions"}
  BY DEF ChatTools
<1>3. DOMAIN ChatTools \subseteq VisitorNames /\ "definition" \in VisitorNames
  BY <1>2 DEF VisitorNames
<1>4. /\ ChatTools.chat_tools = Array("chat_tool")
      /\ ChatTools.chat_tool = Object(tool, {"function", "type"})
      /\ ChatTools.functions = Array("definition")
  BY DEF ChatTools
<1> HIDE DEF tool
<1>5. Fits("chat_tool", ChatTools.chat_tool)
  BY <1>1, <1>4, ObjectFits
<1>6. Fits("chat_tools", ChatTools.chat_tools) /\ Fits("functions", ChatTools.functions)
  BY <1>2, <1>3, <1>4, ArrayFits
<1> QED BY <1>2, <1>3, <1>5, <1>6 DEF GroupFits

LEMMA DefinitionFits == GroupFits(Definition)
<1> DEFINE rules == {To({"description"}, "text"), To({"parameters"}, "strings")}
<1>1. RulesFit(rules, {"description", "name", "parameters", "strict"})
  BY DEF RulesFit, To, VisitorNames, NewName
<1>2. DOMAIN Definition = {"definition"} /\ "definition" \in VisitorNames
  BY DEF Definition, VisitorNames
<1>3. Definition.definition = Object(rules, {"description", "name", "parameters", "strict"})
  BY DEF Definition
<1> HIDE DEF rules
<1> QED BY <1>1, <1>2, <1>3, ObjectFits DEF GroupFits

LEMMA ResponsesFit == GroupFits(Responses)
<1> DEFINE body == {To({"instructions"}, "text"), To({"input", "output"}, "items"), To({"tools"}, "response_tools")}
           tool == {To({"description"}, "text"), To({"parameters"}, "strings")}
<1>1. RulesFit(body, ResponsesFields)
  BY DEF RulesFit, To, ResponsesFields, VisitorNames, NewName
<1>2. RulesFit(tool, ResponseToolFields)
  BY DEF RulesFit, To, ResponseToolFields, VisitorNames, NewName
<1>3. RulesFit(ItemMembers, ItemFields)
  BY DEF RulesFit, To, ItemMembers, ItemFields, VisitorNames, NewName
<1>4. DOMAIN Responses = {"responses", "items", "item", "response_tools", "response_tool"}
  BY DEF Responses
<1>5. DOMAIN Responses \subseteq VisitorNames
  BY <1>4 DEF VisitorNames
<1>6. /\ Responses.responses = Object(body, ResponsesFields)
      /\ Responses.items = OrString(OrItems(Object(ItemMembers, ItemFields), "item"))
      /\ Responses.item = OrString(Object(ItemMembers, ItemFields))
      /\ Responses.response_tools = Array("response_tool")
      /\ Responses.response_tool = Object(tool, ResponseToolFields)
  BY DEF Responses
<1> HIDE DEF body, tool
<1>7. Fits("responses", Responses.responses) /\ Fits("response_tool", Responses.response_tool)
  BY <1>1, <1>2, <1>6, ObjectFits
<1>8. Fits("items", Responses.items) /\ Fits("item", Responses.item)
  BY <1>3, <1>4, <1>5, <1>6, OrStringFits
<1>9. Fits("response_tools", Responses.response_tools)
  BY <1>4, <1>5, <1>6, ArrayFits
<1> QED BY <1>4, <1>5, <1>7, <1>8, <1>9 DEF GroupFits

LEMMA AnthropicFits == GroupFits(Anthropic)
<1> DEFINE body == {To({"system"}, "blocks"), To({"messages"}, "turns"), To({"tools"}, "anthropic_tools")}
           turn == {To({"content"}, "blocks")}
           data == {To({"data"}, "text")}
           tool == {To({"description"}, "text"), To({"input_schema"}, "strings")}
           toolFields == {"cache_control", "description", "input_schema", "name", "type"}
<1>1. RulesFit(body, AnthropicFields)
  BY DEF RulesFit, To, AnthropicFields, VisitorNames, NewName
<1>2. RulesFit(turn, {"content", "role"})
  BY DEF RulesFit, To, VisitorNames, NewName
<1>3. RulesFit(tool, toolFields)
  BY DEF RulesFit, To, VisitorNames, NewName
<1>4. RulesFit(BlockMembers, BlockFields)
  BY DEF RulesFit, To, BlockMembers, BlockFields, VisitorNames, NewName
<1>5. \A r \in data : r.names \subseteq {"data"} /\ r.next \in VisitorNames
  BY DEF To, VisitorNames
<1>6. DOMAIN Anthropic = {"anthropic", "turns", "turn", "blocks", "block", "source_text", "source_data",
                          "anthropic_tools", "anthropic_tool"}
  BY DEF Anthropic
<1>7. DOMAIN Anthropic \subseteq VisitorNames
  BY <1>6 DEF VisitorNames
<1>8. /\ Anthropic.anthropic = Object(body, AnthropicFields)
      /\ Anthropic.turns = Array("turn")
      /\ Anthropic.turn = Object(turn, {"content", "role"})
      /\ Anthropic.blocks = OrString(OrItems(Object(BlockMembers, BlockFields), "block"))
      /\ Anthropic.block = OrString(Object(BlockMembers, BlockFields))
      /\ Anthropic.source_text = Visits(FALSE, FALSE, "none", data, "none")
      /\ Anthropic.source_data = Visits(FALSE, FALSE, "none", {}, "none")
      /\ Anthropic.anthropic_tools = Array("anthropic_tool")
      /\ Anthropic.anthropic_tool = Object(tool, toolFields)
  BY DEF Anthropic
<1> HIDE DEF body, turn, data, tool, toolFields
<1>9. Fits("anthropic", Anthropic.anthropic) /\ Fits("turn", Anthropic.turn)
      /\ Fits("anthropic_tool", Anthropic.anthropic_tool)
  BY <1>1, <1>2, <1>3, <1>8, ObjectFits
<1>10. Fits("blocks", Anthropic.blocks) /\ Fits("block", Anthropic.block)
  <2>1. "block" \in VisitorNames
    BY DEF VisitorNames
  <2>2. /\ Fits("blocks", OrString(OrItems(Object(BlockMembers, BlockFields), "block")))
        /\ Fits("block", OrString(Object(BlockMembers, BlockFields)))
    BY <1>4, <2>1, OrStringFits
  <2> QED BY <1>8, <2>2
<1>11. Fits("turns", Anthropic.turns) /\ Fits("anthropic_tools", Anthropic.anthropic_tools)
  BY <1>6, <1>7, <1>8, ArrayFits
<1>12. Fits("source_text", Anthropic.source_text)
  <2>1. Fits("source_text", Visits(FALSE, FALSE, "none", data, "none"))
    BY <1>5, OwnMembersFit
  <2> QED BY <1>8, <2>1
<1>13. Fits("source_data", Anthropic.source_data)
  <2>1. Fits("source_data", Visits(FALSE, FALSE, "none", {}, "none"))
    BY VisitsFit
  <2> QED BY <1>8, <2>1
<1> QED BY <1>6, <1>7, <1>9, <1>10, <1>11, <1>12, <1>13 DEF GroupFits

\* Every visitor fits, and every name that is visited next is a visitor.
LEMMA VisitorsFit ==
  /\ DOMAIN Visitor = VisitorNames
  /\ \A v \in VisitorNames : Fits(v, Visitor[v])
<1>1. \A g \in Groups : GroupFits(g)
  BY LeavesFit, ContentFits, ChatFit, ChatToolsFit, DefinitionFits, ResponsesFit, AnthropicFits DEF Groups
<1>2. DOMAIN Visitor = UNION {DOMAIN g : g \in Groups}
  BY DEF Visitor
<1>3. ASSUME NEW v \in DOMAIN Visitor PROVE v \in VisitorNames /\ Fits(v, Visitor[v])
  <2> DEFINE G == CHOOSE g \in Groups : v \in DOMAIN g
  <2>1. \E g \in Groups : v \in DOMAIN g
    BY <1>2
  <2>2. G \in Groups /\ v \in DOMAIN G
    BY <2>1
  <2>3. Visitor[v] = G[v]
    BY DEF Visitor
  <2> HIDE DEF G
  <2> QED BY <1>1, <2>2, <2>3 DEF GroupFits
<1>4. VisitorNames \subseteq DOMAIN Visitor
  <2>1. DOMAIN Leaves = {"text", "strings", "scalars", "json", "nested", "tool_output"}
    BY DEF Leaves
  <2>2. DOMAIN Content = {"content", "part", "image_url", "tool_calls", "tool_call", "function_call"}
    BY DEF Content
  <2>3. DOMAIN Chat = {"chat", "messages", "message"}
    BY DEF Chat
  <2>4. DOMAIN ChatTools = {"chat_tools", "chat_tool", "functions"} /\ DOMAIN Definition = {"definition"}
    BY DEF ChatTools, Definition
  <2>5. DOMAIN Responses = {"responses", "items", "item", "response_tools", "response_tool"}
    BY DEF Responses
  <2>6. DOMAIN Anthropic = {"anthropic", "turns", "turn", "blocks", "block", "source_text", "source_data",
                            "anthropic_tools", "anthropic_tool"}
    BY DEF Anthropic
  <2>7. DOMAIN Visitor = DOMAIN Leaves \cup DOMAIN Content \cup DOMAIN Chat \cup DOMAIN ChatTools
                          \cup DOMAIN Definition \cup DOMAIN Responses \cup DOMAIN Anthropic
    BY <1>2 DEF Groups
  <2> QED BY <2>1, <2>2, <2>3, <2>4, <2>5, <2>6, <2>7 DEF VisitorNames
<1>5. DOMAIN Visitor = VisitorNames
  BY <1>3, <1>4
<1> QED BY <1>3, <1>5

\* Only a value that is not visited lies under a reported name, and wherever the
\* path went through a new name of an object, that name is reported.
WalkInv ==
  /\ path \in Paths /\ visitor \in VisitorNames
  /\ flagged => fate \notin {"unread", "walking", "scanned"}
  /\ new \cap Objects # {} => flagged

LEMMA AMemberKeepsWalkInv ==
  ASSUME NEW name, WalkInv, Member(name)
  PROVE  WalkInv'
<1> DEFINE f == Visitor[visitor]
           next == IF name \in DOMAIN f.members THEN f.members[name] ELSE {f.others} \ {"none"}
<1>1. Fits(visitor, f) /\ visitor \in VisitorNames /\ path \in Paths
  BY VisitorsFit DEF WalkInv
<1>2. /\ fate = "walking" /\ ~flagged /\ path' = path
      /\ flagged' = (flagged \/ (f.flags /\ name \notin f.fields))
      /\ new' = IF name = NewName THEN new \cup {visitor} ELSE new
      /\ IF next = {} THEN fate' = "skipped" /\ visitor' = visitor
                      ELSE visitor' \in next /\ fate' = fate
  BY DEF Member, WalkInv
<1>3. visitor \in Objects => f.flags /\ NewName \notin f.fields
  <2>1. visitor \in Objects => DOMAIN f.members # {} /\ visitor \notin {"image_url", "source_text"}
    BY DEF Objects
  <2> QED BY <1>1, <2>1 DEF Fits
<1>4. next \subseteq VisitorNames
  <2>1. f.others \in VisitorNames \cup {"none"} /\ \A n \in DOMAIN f.members : f.members[n] \subseteq VisitorNames
    BY <1>1 DEF Fits
  <2> HIDE DEF f
  <2> QED BY <2>1
<1>5. f.flags /\ name \notin f.fields => next = {}
  BY <1>1 DEF Fits
<1>6. new \cap Objects = {}
  BY <1>2 DEF WalkInv
<1>7. Objects' = Objects
  BY DEF Objects
<1> HIDE DEF f, next
<1>8. CASE f.flags /\ name \notin f.fields
  BY <1>1, <1>2, <1>5, <1>8 DEF WalkInv
<1>9. CASE ~(f.flags /\ name \notin f.fields)
  <2>1. flagged' = FALSE
    BY <1>2, <1>9
  <2>2. name = NewName => visitor \notin Objects
    BY <1>3, <1>9
  <2>3. new' \cap Objects = {}
    BY <1>2, <1>6, <2>2
  <2>4. visitor' \in VisitorNames
    BY <1>1, <1>2, <1>4
  <2> QED BY <1>1, <1>2, <1>7, <2>1, <2>3, <2>4 DEF WalkInv
<1> QED BY <1>8, <1>9

LEMMA WalkInvHolds == ExchangeSpec => []WalkInv
<1>1. ExchangeInit => WalkInv
  BY DEF ExchangeInit, WalkInit, WalkInv, VisitorNames
<1>2. WalkInv /\ [ExchangeNext]_exchangeVars => WalkInv'
  <2> SUFFICES ASSUME WalkInv, [ExchangeNext]_exchangeVars PROVE WalkInv'
    OBVIOUS
  <2>0. Objects' = Objects
    BY DEF Objects
  <2>1. CASE RequestStep
    <3>1. CASE Extract
      <4>1. path \in Paths /\ path' = path /\ new' = new
        BY <3>1 DEF Extract, WalkInv
      <4>2. path.api \in {"chat", "responses", "messages", "other"}
        BY <4>1, PathsAssumption
      <4>3. \A api \in {"chat", "responses", "messages"} : Root[api] \in VisitorNames
        BY DEF Root, VisitorNames
      <4>4. visitor' \in VisitorNames
        BY <3>1, <4>2, <4>3 DEF Extract, DetectFormat, WalkInv
      <4> QED BY <2>0, <3>1, <4>1, <4>4 DEF Extract, WalkInv
    <3>2. CASE \E name \in Names : Member(name)
      BY <3>2, AMemberKeepsWalkInv
    <3>3. CASE Item
      <4>1. Fits(visitor, Visitor[visitor])
        BY VisitorsFit DEF WalkInv
      <4>2. Visitor[visitor].item \in VisitorNames \cup {"none"}
        BY <4>1 DEF Fits
      <4> QED BY <2>0, <3>3, <4>2 DEF Item, WalkInv
    <3>4. CASE Leaf
      BY <2>0, <3>4 DEF Leaf, WalkInv
    <3>5. CASE Nested
      BY <2>0, <3>5 DEF Nested, WalkInv, VisitorNames
    <3> QED BY <2>1, <3>1, <3>2, <3>3, <3>4, <3>5 DEF RequestStep, WalkNext
  <2>2. CASE Respond
    BY <2>0, <2>2 DEF Respond, WalkInv, VisitorNames
  <2>3. CASE ResponseStep
    BY <2>0, <2>3 DEF ResponseStep, WalkInv, walkVars
  <2>4. CASE UNCHANGED exchangeVars
    BY <2>0, <2>4 DEF exchangeVars, WalkInv, walkVars
  <2> QED BY <2>1, <2>2, <2>3, <2>4 DEF ExchangeNext
<1> QED BY <1>1, <1>2, PTL DEF ExchangeSpec

\* Extract, on every path through every body: no extractor looks into a member
\* that the field table of the same object leaves out (Extraction.ScannedIsNotFlagged).
THEOREM NothingScannedIsFlagged == ExchangeSpec => []ScannedIsNotFlagged
<1>1. WalkInv => ScannedIsNotFlagged
  BY DEF WalkInv, ScannedIsNotFlagged
<1> QED BY <1>1, WalkInvHolds, PTL

\* Extract, on every path through every body: a field added to any object of an
\* API is reported when it is not scanned, with all below it, however deep the
\* object lies (Extraction.NewFieldsAreVisible).
THEOREM NewFieldsAreReported == ExchangeSpec => []NewFieldsAreVisible
<1>1. WalkInv => NewFieldsAreVisible
  BY DEF WalkInv, NewFieldsAreVisible
<1> QED BY <1>1, WalkInvHolds, PTL
=============================================================================
