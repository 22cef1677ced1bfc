-------------------------- MODULE AutomatonProofs --------------------------
(***************************************************************************)
(* Proofs about the Aho-Corasick automaton, for any set of bytes and any   *)
(* number and length of keywords and texts.                                *)
(*                                                                         *)
(* The code stores no words: what a node stands for is the word spelt on   *)
(* the way to it.  The invariant says that such a labelling exists, that   *)
(* its words are exactly the beginnings of the keywords, and that links    *)
(* and outputs are right for every node build has linked so far; since     *)
(* build goes breadth first, the search for a link only meets nodes whose  *)
(* own links are done.  The labelling is hidden: AutomatonInv quantifies   *)
(* over it, and an added word extends it.                                  *)
(***************************************************************************)
EXTENDS Prefilter, FiniteSetTheorems, SequenceTheorems, NaturalsInduction, TLAPS

\* u is a suffix of t.
Suffix(u, t) ==
  Len(u) <= Len(t) /\ \A i \in 1..Len(u) : u[i] = t[Len(t) - Len(u) + i]

Node == DOMAIN nodes
NodeType == [next : UNION {[bytes -> Nat] : bytes \in SUBSET Byte}, fail : Nat, depth : Nat,
             out : SUBSET [rule : Nat, length : Nat]]

\* The trie: label says which word leads to a node.
Trie(label) ==
  /\ \E size \in Nat \ {0} : nodes \in [0..(size - 1) -> NodeType]
  /\ label \in [Node -> Seq(Byte)] /\ label[0] = <<>>
  /\ \A m, n \in Node : label[m] = label[n] => m = n
  /\ \A n \in Node : nodes[n].depth = Len(label[n])
  /\ \A n \in Node : \A b \in DOMAIN nodes[n].next :
       nodes[n].next[b] \in Node /\ label[nodes[n].next[b]] = Append(label[n], b)
  /\ \A m \in Node \ {0} : \E n \in Node : \E b \in DOMAIN nodes[n].next : nodes[n].next[b] = m

\* Its words are the beginnings of the keywords.
Prefixes(label) ==
  /\ added \in Seq(Seq(Byte))
  /\ \A n \in Node \ {0} : \E i \in DOMAIN added : \E k \in 1..Len(added[i]) :
       label[n] = SubSeq(added[i], 1, k)
  /\ \A i \in DOMAIN added : \A k \in 1..Len(added[i]) : \E n \in Node :
       label[n] = SubSeq(added[i], 1, k)

\* The keywords that are a word, and those that end it.
Hit(i) == [rule |-> i, length |-> Len(added[i])]
Own(w) == {Hit(i) : i \in {i \in DOMAIN added : added[i] # <<>> /\ added[i] = w}}
Ending(w) == {Hit(i) : i \in {i \in DOMAIN added : added[i] # <<>> /\ Suffix(added[i], w)}}

\* n is the node of the longest word of the trie that t ends with.
Longest(label, n, t) ==
  /\ n \in Node /\ Suffix(label[n], t)
  /\ \A m \in Node : Suffix(label[m], t) => Len(label[m]) <= Len(label[n])

Linked == {queue[i] : i \in DOMAIN queue}

Links(label) ==
  \A n \in Node :
    IF n \in Linked
    THEN Longest(label, nodes[n].fail, Tail(label[n])) /\ nodes[n].out = Ending(label[n])
    ELSE nodes[n].fail = 0 /\ nodes[n].out = Own(label[n])

\* build goes through the trie breadth first.
Depth(i) == nodes[queue[i]].depth

Breadth ==
  /\ queue \in Seq(Node \ {0}) /\ head \in Nat \ {0}
  /\ Children(0) \subseteq Linked
  /\ queue = <<>> => todo = {} /\ head = 1
  /\ queue # <<>> =>
       /\ head <= Len(queue) /\ todo \subseteq DOMAIN nodes[queue[head]].next
       /\ \A b \in DOMAIN nodes[queue[head]].next \ todo : nodes[queue[head]].next[b] \in Linked
       /\ \A i \in 1..(head - 1) : Children(queue[i]) \subseteq Linked
       /\ \A i, j \in 1..Len(queue) : i <= j => Depth(i) <= Depth(j)
       /\ \A i \in 1..Len(queue) : Depth(i) <= Depth(head) + 1
       /\ \A n \in Node \ {0} : nodes[n].depth <= Depth(head) => n \in Linked

Phases(label) ==
  /\ phase \in {"add", "build", "run"}
  /\ phase = "add" => queue = <<>> /\ head = 1 /\ todo = {}
  /\ phase # "run" => state = 0 /\ text = <<>>
  /\ phase = "build" => Breadth
  /\ phase = "run" => /\ Linked = Node \ {0}
                      /\ text \in Seq(Byte) /\ Longest(label, state, text)

InvOf(label) == Trie(label) /\ Prefixes(label) /\ Links(label) /\ Phases(label)

AutomatonInv == \E label : InvOf(label)

-----------------------------------------------------------------------------
\* A nonempty set of numbers has a least one.
LEMMA LeastNumber ==
  ASSUME NEW S \in SUBSET Nat, S # {}
  PROVE  \E i \in S : \A j \in S : i <= j
<1>1. PICK i \in S : \A j \in S : ~(<<j, i>> \in OpToRel(<, Nat))
  BY WFMin, NatLessThanWellFounded
<1>2. ASSUME NEW j \in S PROVE i <= j
  <2>1. <<j, i>> \in Nat \X Nat
    OBVIOUS
  <2>2. ~(j < i)
    BY <1>1, <2>1 DEF OpToRel
  <2> QED BY <2>2
<1> QED BY <1>2

\* Words and their suffixes.
LEMMA SuffixOfSelf ==
  ASSUME NEW t \in Seq(Byte)
  PROVE  Suffix(t, t) /\ Suffix(<<>>, t)
<1>1. Len(t) \in Nat /\ Len(<<>>) = 0
  BY LenProperties
<1> QED BY <1>1 DEF Suffix

LEMMA SuffixIsTransitive ==
  ASSUME NEW u \in Seq(Byte), NEW v \in Seq(Byte), NEW t \in Seq(Byte),
         Suffix(u, v), Suffix(v, t)
  PROVE  Suffix(u, t)
<1>1. Len(u) \in Nat /\ Len(v) \in Nat /\ Len(t) \in Nat
  BY LenProperties
<1>2. Len(u) <= Len(t)
  BY <1>1 DEF Suffix
<1>3. ASSUME NEW i \in 1..Len(u) PROVE u[i] = t[Len(t) - Len(u) + i]
  <2> DEFINE j == Len(v) - Len(u) + i
  <2>1. u[i] = v[j]
    BY DEF Suffix
  <2>2. j \in 1..Len(v) /\ Len(t) - Len(v) + j = Len(t) - Len(u) + i
    BY <1>1 DEF Suffix
  <2>3. v[j] = t[Len(t) - Len(v) + j]
    BY <2>2 DEF Suffix
  <2> QED BY <2>1, <2>2, <2>3
<1> QED BY <1>2, <1>3 DEF Suffix

\* Of two suffixes the shorter is a suffix of the longer.
LEMMA SuffixesAreNested ==
  ASSUME NEW u \in Seq(Byte), NEW v \in Seq(Byte), NEW t \in Seq(Byte),
         Suffix(u, t), Suffix(v, t), Len(u) <= Len(v)
  PROVE  Suffix(u, v)
<1>1. Len(u) \in Nat /\ Len(v) \in Nat /\ Len(t) \in Nat
  BY LenProperties
<1>2. ASSUME NEW i \in 1..Len(u) PROVE u[i] = v[Len(v) - Len(u) + i]
  <2> DEFINE j == Len(v) - Len(u) + i
  <2>1. u[i] = t[Len(t) - Len(u) + i]
    BY DEF Suffix
  <2>2. j \in 1..Len(v) /\ Len(t) - Len(v) + j = Len(t) - Len(u) + i
    BY <1>1
  <2>3. v[j] = t[Len(t) - Len(v) + j]
    BY <2>2 DEF Suffix
  <2> QED BY <2>1, <2>2, <2>3
<1> QED BY <1>2 DEF Suffix

\* A suffix of full length is the word.
LEMMA LongestSuffix ==
  ASSUME NEW u \in Seq(Byte), NEW v \in Seq(Byte), Suffix(u, v), Len(u) = Len(v)
  PROVE  u = v
<1>1. Len(u) \in Nat
  BY LenProperties
<1>2. \A i \in 1..Len(u) : u[i] = v[i]
  BY <1>1 DEF Suffix
<1> QED BY <1>2, SeqEqual

LEMMA SuffixAppend ==
  ASSUME NEW u \in Seq(Byte), NEW t \in Seq(Byte), NEW a \in Byte, NEW b \in Byte
  PROVE  Suffix(Append(u, a), Append(t, b)) <=> a = b /\ Suffix(u, t)
<1> DEFINE ua == Append(u, a)
           tb == Append(t, b)
<1>1. Len(u) \in Nat /\ Len(t) \in Nat
  BY LenProperties
<1>2. /\ Len(ua) = Len(u) + 1 /\ ua[Len(u) + 1] = a
      /\ \A i \in 1..Len(u) : ua[i] = u[i]
  BY AppendProperties
<1>3. /\ Len(tb) = Len(t) + 1 /\ tb[Len(t) + 1] = b
      /\ \A i \in 1..Len(t) : tb[i] = t[i]
  BY AppendProperties
<1> HIDE DEF ua, tb
<1>4. ASSUME Suffix(ua, tb) PROVE a = b /\ Suffix(u, t)
  <2>1. Len(u) <= Len(t)
    BY <1>1, <1>2, <1>3, <1>4 DEF Suffix
  <2>2. ua[Len(u) + 1] = tb[Len(tb) - Len(ua) + (Len(u) + 1)]
    <3>1. Len(u) + 1 \in 1..Len(ua)
      BY <1>1, <1>2
    <3> QED BY <1>4, <3>1 DEF Suffix
  <2>3. Len(tb) - Len(ua) + (Len(u) + 1) = Len(t) + 1
    BY <1>1, <1>2, <1>3
  <2>4. ASSUME NEW i \in 1..Len(u) PROVE u[i] = t[Len(t) - Len(u) + i]
    <3>1. i \in 1..Len(ua) /\ Len(tb) - Len(ua) + i = Len(t) - Len(u) + i
          /\ Len(t) - Len(u) + i \in 1..Len(t)
      BY <1>1, <1>2, <1>3, <2>1
    <3>2. ua[i] = tb[Len(tb) - Len(ua) + i]
      BY <1>4, <3>1 DEF Suffix
    <3> QED BY <1>2, <1>3, <3>1, <3>2
  <2> QED BY <1>2, <1>3, <2>1, <2>2, <2>3, <2>4 DEF Suffix
<1>5. ASSUME a = b, Suffix(u, t) PROVE Suffix(ua, tb)
  <2>1. Len(u) <= Len(t)
    BY <1>5 DEF Suffix
  <2>2. ASSUME NEW i \in 1..Len(ua) PROVE ua[i] = tb[Len(tb) - Len(ua) + i]
    <3>1. CASE i = Len(u) + 1
      BY <1>1, <1>2, <1>3, <1>5, <3>1
    <3>2. CASE i \in 1..Len(u)
      <4>1. u[i] = t[Len(t) - Len(u) + i]
        BY <1>5, <3>2 DEF Suffix
      <4>2. Len(tb) - Len(ua) + i = Len(t) - Len(u) + i /\ Len(t) - Len(u) + i \in 1..Len(t)
        BY <1>1, <1>2, <1>3, <2>1, <3>2
      <4> QED BY <1>2, <1>3, <3>2, <4>1, <4>2
    <3> QED BY <1>1, <1>2, <3>1, <3>2
  <2> QED BY <1>1, <1>2, <1>3, <2>1, <2>2 DEF Suffix
<1> QED BY <1>4, <1>5 DEF ua, tb

LEMMA AppendedWords ==
  ASSUME NEW u \in Seq(Byte), NEW v \in Seq(Byte), NEW a \in Byte, NEW b \in Byte,
         Append(u, a) = Append(v, b)
  PROVE  u = v /\ a = b
BY AppendInjective

\* A nonempty suffix of a word and a byte is a suffix of the word and the byte.
LEMMA SuffixOfAppend ==
  ASSUME NEW u \in Seq(Byte), NEW t \in Seq(Byte), NEW b \in Byte, u # <<>>,
         Suffix(u, Append(t, b))
  PROVE  \E v \in Seq(Byte) : u = Append(v, b) /\ Suffix(v, t)
<1>1. PICK v \in Seq(Byte), a \in Byte : u = Append(v, a)
  BY SequenceEmptyOrAppend
<1> QED BY <1>1, SuffixAppend

\* A suffix of a nonempty word is the word, or a suffix of its tail.
LEMMA SuffixOfTail ==
  ASSUME NEW u \in Seq(Byte), NEW t \in Seq(Byte), t # <<>>
  PROVE  Suffix(u, t) <=> u = t \/ Suffix(u, Tail(t))
<1>1. Len(u) \in Nat /\ Len(t) \in Nat \ {0}
  BY LenProperties, EmptySeq
<1>2. /\ Tail(t) \in Seq(Byte) /\ Len(Tail(t)) = Len(t) - 1
      /\ \A i \in 1..Len(Tail(t)) : Tail(t)[i] = t[i + 1]
  BY HeadTailProperties
<1> DEFINE tail == Tail(t)
<1>3. /\ tail \in Seq(Byte) /\ Len(tail) = Len(t) - 1 /\ \A i \in 1..Len(tail) : tail[i] = t[i + 1]
  BY <1>2
<1> HIDE DEF tail
<1>4. Suffix(tail, t)
  <2>1. \A i \in 1..Len(tail) : tail[i] = t[Len(t) - Len(tail) + i]
    BY <1>1, <1>3
  <2> QED BY <1>1, <1>3, <2>1 DEF Suffix
<1>5. ASSUME Suffix(u, t), u # t PROVE Suffix(u, tail)
  <2>1. Len(u) # Len(t)
    BY <1>5, LongestSuffix
  <2>2. Len(u) <= Len(tail)
    BY <1>1, <1>3, <1>5, <2>1 DEF Suffix
  <2> QED BY <1>3, <1>4, <1>5, <2>2, SuffixesAreNested
<1>6. ASSUME Suffix(u, tail) PROVE Suffix(u, t)
  BY <1>3, <1>4, <1>6, SuffixIsTransitive
<1>7. Suffix(t, t)
  BY SuffixOfSelf
<1> QED BY <1>5, <1>6, <1>7 DEF tail

\* EndsWith says the same as Suffix.
LEMMA EndsWithIsSuffix ==
  ASSUME NEW u \in Seq(Byte), NEW t \in Seq(Byte)
  PROVE  EndsWith(t, u) <=> Suffix(u, t)
<1>1. Len(u) \in Nat /\ Len(t) \in Nat
  BY LenProperties
<1> DEFINE from == Len(t) - Len(u) + 1
           end == SubSeq(t, from, Len(t))
<1>2. ASSUME Len(u) <= Len(t)
      PROVE  end = u <=> \A i \in 1..Len(u) : u[i] = t[Len(t) - Len(u) + i]
  <2>1. from \in Int /\ Len(t) \in Int /\ \A i \in from..Len(t) : t[i] \in Byte
    <3>1. \A i \in from..Len(t) : i \in 1..Len(t)
      BY <1>1, <1>2
    <3> QED BY <1>1, <3>1, ElementOfSeq
  <2>2. /\ end \in Seq(Byte)
        /\ Len(end) = IF from <= Len(t) THEN Len(t) - from + 1 ELSE 0
        /\ \A i \in 1..(Len(t) - from + 1) : end[i] = t[from + i - 1]
    BY <2>1, SubSeqProperties
  <2>3. Len(end) = Len(u) /\ Len(t) - from + 1 = Len(u)
        /\ \A i \in 1..Len(u) : from + i - 1 = Len(t) - Len(u) + i
    BY <1>1, <1>2, <2>2
  <2> HIDE DEF end, from
  <2>4. \A i \in 1..Len(u) : end[i] = t[Len(t) - Len(u) + i]
    BY <2>2, <2>3
  <2>5. end = u <=> \A i \in 1..Len(u) : u[i] = end[i]
    BY <2>2, <2>3, SeqEqual
  <2> QED BY <2>4, <2>5
<1> HIDE DEF end
<1>3. CASE Len(u) <= Len(t)
  BY <1>2, <1>3 DEF EndsWith, Suffix, end
<1>4. CASE ~(Len(u) <= Len(t))
  BY <1>4 DEF EndsWith, Suffix
<1> QED BY <1>3, <1>4

-----------------------------------------------------------------------------
LEMMA TrieFacts ==
  ASSUME NEW label, Trie(label)
  PROVE  /\ 0 \in Node /\ Node \subseteq Nat
         /\ \A n \in Node :
              /\ nodes[n] \in NodeType /\ label[n] \in Seq(Byte)
              /\ Len(label[n]) \in Nat /\ nodes[n].depth = Len(label[n])
              /\ \A b \in DOMAIN nodes[n].next :
                   /\ b \in Byte /\ nodes[n].next[b] \in Node
                   /\ label[nodes[n].next[b]] = Append(label[n], b)
         /\ label[0] = <<>> /\ \A n \in Node \ {0} : label[n] # <<>>
<1>1. PICK size \in Nat \ {0} : nodes \in [0..(size - 1) -> NodeType]
  BY DEF Trie
<1>2. Node = 0..(size - 1)
  BY <1>1 DEF Node
<1>3. 0 \in Node /\ Node \subseteq Nat
  BY <1>2
<1>4. ASSUME NEW n \in Node
      PROVE  /\ nodes[n] \in NodeType /\ label[n] \in Seq(Byte)
             /\ Len(label[n]) \in Nat /\ nodes[n].depth = Len(label[n])
             /\ \A b \in DOMAIN nodes[n].next :
                  /\ b \in Byte /\ nodes[n].next[b] \in Node
                  /\ label[nodes[n].next[b]] = Append(label[n], b)
  <2>1. nodes[n] \in NodeType
    BY <1>1, <1>2
  <2>2. label[n] \in Seq(Byte)
    BY DEF Trie
  <2>3. \A b \in DOMAIN nodes[n].next : b \in Byte
    BY <2>1 DEF NodeType
  <2>4. \A b \in DOMAIN nodes[n].next :
          nodes[n].next[b] \in Node /\ label[nodes[n].next[b]] = Append(label[n], b)
    BY DEF Trie
  <2>5. nodes[n].depth = Len(label[n])
    BY DEF Trie
  <2> QED BY <2>1, <2>2, <2>3, <2>4, <2>5, LenProperties
<1>5. label[0] = <<>> /\ \A n \in Node \ {0} : label[n] # <<>>
  BY <1>3 DEF Trie
<1> QED BY <1>3, <1>4, <1>5

\* A child's word is its parent's and the byte between them.
LEMMA ChildWord ==
  ASSUME NEW label, Trie(label), NEW n \in Node, NEW b \in DOMAIN nodes[n].next
  PROVE  b \in Byte /\ nodes[n].next[b] \in Node /\ label[nodes[n].next[b]] = Append(label[n], b)
<1>1. \A a \in DOMAIN nodes[n].next :
        /\ a \in Byte /\ nodes[n].next[a] \in Node
        /\ label[nodes[n].next[a]] = Append(label[n], a)
  BY TrieFacts
<1> QED BY <1>1

\* A node whose word is another's and a byte is its child.
LEMMA ChildIsFound ==
  ASSUME NEW label, Trie(label), NEW n \in Node, NEW m \in Node, NEW b \in Byte,
         label[m] = Append(label[n], b)
  PROVE  b \in DOMAIN nodes[n].next /\ nodes[n].next[b] = m
<1>1. label[n] \in Seq(Byte) /\ label[0] = <<>>
  BY TrieFacts
<1>2. m # 0
  BY <1>1, AppendProperties
<1>3. PICK p \in Node : \E a \in DOMAIN nodes[p].next : nodes[p].next[a] = m
  BY <1>2 DEF Trie
<1>4. PICK a \in DOMAIN nodes[p].next : nodes[p].next[a] = m
  BY <1>3
<1>5. label[p] \in Seq(Byte) /\ a \in Byte /\ label[m] = Append(label[p], a)
  <2>1. label[p] \in Seq(Byte)
    BY <1>3, TrieFacts
  <2>2. a \in Byte /\ label[nodes[p].next[a]] = Append(label[p], a)
    BY <1>3, <1>4, ChildWord
  <2> QED BY <1>4, <2>1, <2>2
<1>6. label[p] = label[n] /\ a = b
  <2> DEFINE u == label[p]
             v == label[n]
  <2>1. u \in Seq(Byte) /\ v \in Seq(Byte) /\ a \in Byte /\ Append(u, a) = Append(v, b)
    BY <1>1, <1>5
  <2> HIDE DEF u, v
  <2>2. u = v /\ a = b
    BY <2>1, AppendedWords
  <2> QED BY <2>2 DEF u, v
<1>7. p = n
  BY <1>6 DEF Trie
<1> QED BY <1>4, <1>6, <1>7

LEMMA LongestExists ==
  ASSUME NEW label, Trie(label), NEW t \in Seq(Byte)
  PROVE  \E n : Longest(label, n, t)
<1> DEFINE ends == {m \in Node : Suffix(label[m], t)}
           rest == {Len(t) - Len(label[m]) : m \in ends}
<1>1. Len(t) \in Nat
  BY LenProperties
<1>2. \A m \in Node : Len(label[m]) \in Nat
  BY TrieFacts
<1>3. rest \in SUBSET Nat
  <2>1. \A m \in ends : Len(t) - Len(label[m]) \in Nat
    BY <1>1, <1>2 DEF Suffix
  <2> HIDE DEF ends
  <2> QED BY <2>1
<1>4. 0 \in ends
  BY TrieFacts, SuffixOfSelf
<1>5. PICK i \in rest : \A j \in rest : i <= j
  <2>1. rest # {}
    BY <1>4
  <2> HIDE DEF rest
  <2> QED BY <1>3, <2>1, LeastNumber
<1>6. PICK n \in ends : i = Len(t) - Len(label[n])
  BY <1>5
<1>7. \A m \in ends : Len(t) - Len(label[n]) <= Len(t) - Len(label[m])
  BY <1>5, <1>6
<1>8. \A m \in ends : Len(label[m]) <= Len(label[n])
  BY <1>1, <1>2, <1>7
<1> QED BY <1>8 DEF Longest

LEMMA LongestIsUnique ==
  ASSUME NEW label, Trie(label), NEW t \in Seq(Byte), NEW m, NEW n,
         Longest(label, m, t), Longest(label, n, t)
  PROVE  m = n
<1>1. /\ m \in Node /\ n \in Node /\ label[m] \in Seq(Byte) /\ label[n] \in Seq(Byte)
      /\ Len(label[m]) \in Nat /\ Len(label[n]) \in Nat
  BY TrieFacts DEF Longest
<1>2. Len(label[m]) = Len(label[n])
  BY <1>1 DEF Longest
<1>3. Suffix(label[m], label[n])
  BY <1>1, <1>2, SuffixesAreNested DEF Longest
<1>4. label[m] = label[n]
  BY <1>1, <1>2, <1>3, LongestSuffix
<1> QED BY <1>1, <1>4 DEF Trie

\* What the longest word of the text grows to by a byte is the longest word of
\* the longer text: nothing else of the text matters.
LEMMA LongestExtends ==
  ASSUME NEW label, Trie(label), NEW t \in Seq(Byte), NEW b \in Byte, NEW s, NEW r,
         Longest(label, s, t), Longest(label, r, Append(label[s], b))
  PROVE  Longest(label, r, Append(t, b))
<1>1. s \in Node /\ label[s] \in Seq(Byte) /\ Suffix(label[s], t)
  BY TrieFacts DEF Longest
<1>2. r \in Node /\ label[r] \in Seq(Byte) /\ Suffix(label[r], Append(label[s], b))
  BY TrieFacts DEF Longest
<1>3. Append(label[s], b) \in Seq(Byte) /\ Append(t, b) \in Seq(Byte)
  BY <1>1, AppendProperties
<1>4. Suffix(Append(label[s], b), Append(t, b))
  BY <1>1, SuffixAppend
<1>5. Suffix(label[r], Append(t, b))
  BY <1>2, <1>3, <1>4, SuffixIsTransitive
<1>6. ASSUME NEW m \in Node, Suffix(label[m], Append(t, b))
      PROVE  Len(label[m]) <= Len(label[r])
  <2>1. label[m] \in Seq(Byte) /\ Len(label[m]) \in Nat /\ Len(label[r]) \in Nat
    BY <1>2, TrieFacts
  <2>2. CASE label[m] = <<>>
    BY <2>1, <2>2, EmptySeq
  <2>3. CASE label[m] # <<>>
    <3>1. PICK v \in Seq(Byte) : label[m] = Append(v, b) /\ Suffix(v, t)
      BY <1>6, <2>1, <2>3, SuffixOfAppend
    <3>2. PICK p \in Node : label[p] = v
      <4>1. m # 0
        BY <2>3, TrieFacts
      <4>2. PICK p \in Node : \E a \in DOMAIN nodes[p].next : nodes[p].next[a] = m
        BY <4>1 DEF Trie
      <4>3. PICK a \in DOMAIN nodes[p].next : nodes[p].next[a] = m
        BY <4>2
      <4>4. label[p] \in Seq(Byte) /\ a \in Byte /\ label[m] = Append(label[p], a)
        <5>1. label[p] \in Seq(Byte)
          BY <4>2, TrieFacts
        <5>2. a \in Byte /\ label[nodes[p].next[a]] = Append(label[p], a)
          BY <4>2, <4>3, ChildWord
        <5> QED BY <4>3, <5>1, <5>2
      <4>5. label[p] = v
        BY <3>1, <4>4, AppendedWords
      <4> QED BY <4>5
    <3>3. Len(v) <= Len(label[s])
      BY <3>1, <3>2 DEF Longest
    <3>4. Suffix(v, label[s])
      BY <1>1, <3>1, <3>3, SuffixesAreNested
    <3>5. Suffix(label[m], Append(label[s], b))
      BY <1>1, <3>1, <3>4, SuffixAppend
    <3> QED BY <3>5 DEF Longest
  <2> QED BY <2>2, <2>3
<1> QED BY <1>2, <1>5, <1>6 DEF Longest

\* The three ways of a step: to the child, on from the link, or to the root.
LEMMA LongestIsChild ==
  ASSUME NEW label, Trie(label), NEW s \in Node, NEW b \in DOMAIN nodes[s].next
  PROVE  Longest(label, nodes[s].next[b], Append(label[s], b))
<1> DEFINE r == nodes[s].next[b]
<1>1. r \in Node /\ label[r] = Append(label[s], b) /\ label[r] \in Seq(Byte)
  BY TrieFacts
<1>2. Suffix(label[r], Append(label[s], b))
  BY <1>1, SuffixOfSelf
<1> QED BY <1>1, <1>2 DEF Longest, Suffix

LEMMA LongestIsRoot ==
  ASSUME NEW label, Trie(label), NEW b \in Byte, b \notin DOMAIN nodes[0].next
  PROVE  Longest(label, 0, Append(label[0], b))
<1>1. 0 \in Node /\ label[0] = <<>> /\ <<>> \in Seq(Byte)
  BY TrieFacts, EmptySeq
<1>2. Suffix(label[0], Append(label[0], b))
  <2>1. Append(label[0], b) \in Seq(Byte)
    BY <1>1, AppendProperties
  <2> QED BY <1>1, <2>1, SuffixOfSelf
<1>3. ASSUME NEW m \in Node, Suffix(label[m], Append(label[0], b))
      PROVE  Len(label[m]) <= Len(label[0])
  <2>1. CASE label[m] # <<>>
    <3>1. label[m] \in Seq(Byte)
      BY TrieFacts
    <3>2. PICK v \in Seq(Byte) : label[m] = Append(v, b) /\ Suffix(v, label[0])
      BY <1>1, <1>3, <2>1, <3>1, SuffixOfAppend
    <3>3. v = <<>>
      BY <1>1, <3>2, EmptySeq DEF Suffix
    <3>4. label[m] = Append(label[0], b)
      BY <1>1, <3>2, <3>3
    <3>5. b \in DOMAIN nodes[0].next
      BY <1>1, <3>4, ChildIsFound
    <3> QED BY <3>5
  <2>2. CASE label[m] = <<>>
    BY <1>1, <2>2, EmptySeq
  <2> QED BY <2>1, <2>2
<1> QED BY <1>1, <1>2, <1>3 DEF Longest

LEMMA LongestIsLinked ==
  ASSUME NEW label, Trie(label), NEW s \in Node \ {0}, NEW b \in Byte,
         b \notin DOMAIN nodes[s].next, NEW f, Longest(label, f, Tail(label[s])),
         NEW r, Longest(label, r, Append(label[f], b))
  PROVE  Longest(label, r, Append(label[s], b))
<1> DEFINE t == Append(label[s], b)
<1>1. label[s] \in Seq(Byte) /\ label[s] # <<>>
  BY TrieFacts
<1>2. /\ Tail(label[s]) \in Seq(Byte) /\ t \in Seq(Byte) /\ t # <<>>
      /\ Tail(t) = Append(Tail(label[s]), b)
  BY <1>1, HeadTailProperties, AppendProperties, HeadTailAppend
<1>3. Longest(label, r, Tail(t))
  BY <1>2, LongestExtends
<1>4. r \in Node /\ label[r] \in Seq(Byte) /\ Suffix(label[r], Tail(t))
  BY <1>3, TrieFacts DEF Longest
<1> HIDE DEF t
<1>5. Suffix(label[r], t)
  BY <1>2, <1>4, SuffixOfTail
<1>6. ASSUME NEW m \in Node, Suffix(label[m], t) PROVE Len(label[m]) <= Len(label[r])
  <2>1. label[m] \in Seq(Byte)
    BY TrieFacts
  <2>2. label[m] # t
    BY ChildIsFound DEF t
  <2>3. Suffix(label[m], Tail(t))
    BY <1>2, <1>6, <2>1, <2>2, SuffixOfTail
  <2> QED BY <1>3, <2>3 DEF Longest
<1> QED BY <1>4, <1>5, <1>6 DEF Longest, t

-----------------------------------------------------------------------------
\* Links lead to linked nodes, or to the root.
Closed == \A n \in Node : nodes[n].fail \in Linked \cup {0}

Onward == Linked \cup {0}

\* The turns of Step's loop: what a function that satisfies its equation returns.
Turns(go, b) ==
  go = [s \in Node |-> IF b \in DOMAIN nodes[s].next THEN nodes[s].next[b]
                       ELSE IF s = 0 THEN 0 ELSE go[nodes[s].fail]]

\* The loop comes to an end, whatever the node: what it should return satisfies
\* the equation.
LEMMA TurnsExist ==
  ASSUME NEW label, Trie(label), Links(label), Closed, Linked \subseteq Node \ {0},
         NEW b \in Byte
  PROVE  \E go : Turns(go, b)
<1> DEFINE best(s) == CHOOSE r : Longest(label, r, Append(label[s], b))
           go == [s \in Node |-> IF s \in Onward THEN best(s)
                                 ELSE IF b \in DOMAIN nodes[s].next THEN nodes[s].next[b]
                                 ELSE best(0)]
           turn(s) == IF b \in DOMAIN nodes[s].next THEN nodes[s].next[b]
                      ELSE IF s = 0 THEN 0 ELSE go[nodes[s].fail]
<1>1. 0 \in Node /\ Onward \subseteq Node /\ \A s \in Node : nodes[s].fail \in Onward
  BY TrieFacts DEF Onward, Closed
<1>2. ASSUME NEW s \in Node PROVE Longest(label, best(s), Append(label[s], b))
  <2>1. Append(label[s], b) \in Seq(Byte)
    BY TrieFacts, AppendProperties
  <2> QED BY <2>1, LongestExists
<1>3. ASSUME NEW s \in Node, NEW r, Longest(label, r, Append(label[s], b)) PROVE r = best(s)
  <2>1. Append(label[s], b) \in Seq(Byte)
    BY TrieFacts, AppendProperties
  <2> HIDE DEF best
  <2> QED BY <1>2, <1>3, <2>1, LongestIsUnique
<1> HIDE DEF best
<1>4. ASSUME NEW s \in Node PROVE go[s] = turn(s)
  <2>1. CASE b \in DOMAIN nodes[s].next
    <3>1. nodes[s].next[b] = best(s)
      BY <1>3, <2>1, LongestIsChild
    <3> QED BY <2>1, <3>1
  <2>2. CASE s = 0 /\ b \notin DOMAIN nodes[s].next
    <3>1. best(0) = 0
      BY <1>1, <1>3, <2>2, LongestIsRoot
    <3> QED BY <2>2, <3>1 DEF Onward
  <2>3. CASE s \notin Onward /\ b \notin DOMAIN nodes[s].next
    <3>1. nodes[s].fail = 0 /\ s # 0
      BY <2>3 DEF Onward, Links
    <3>2. go[0] = best(0)
      BY <1>1 DEF Onward
    <3> QED BY <2>3, <3>1, <3>2
  <2>4. CASE s \in Linked /\ b \notin DOMAIN nodes[s].next
    <3>1. s # 0 /\ nodes[s].fail \in Onward
      BY <1>1, <2>4
    <3>2. Longest(label, nodes[s].fail, Tail(label[s]))
      BY <2>4 DEF Links
    <3>3. Longest(label, best(nodes[s].fail), Append(label[nodes[s].fail], b))
      BY <1>1, <1>2, <3>1
    <3>4. best(nodes[s].fail) = best(s)
      <4>1. s \in Node \ {0}
        BY <2>4
      <4>2. Longest(label, best(nodes[s].fail), Append(label[s], b))
        BY <2>4, <3>2, <3>3, <4>1, LongestIsLinked
      <4> QED BY <1>3, <4>2
    <3>5. go[nodes[s].fail] = best(nodes[s].fail) /\ go[s] = best(s)
      BY <1>1, <2>4, <3>1 DEF Onward
    <3> QED BY <2>4, <3>1, <3>4, <3>5
  <2> QED BY <2>1, <2>2, <2>3, <2>4 DEF Onward
<1>5. go = [s \in Node |-> turn(s)]
  BY <1>4
<1> QED BY <1>5 DEF Turns

\* Step finds the node of the longest word that the node's word and the byte end
\* with.
LEMMA StepIsLongest ==
  ASSUME NEW label, Trie(label), Links(label), Closed, Linked \subseteq Node \ {0},
         NEW b \in Byte, NEW n \in Onward
  PROVE  Longest(label, Step(n, b), Append(label[n], b))
<1> DEFINE go == CHOOSE go : Turns(go, b)
           right(s) == Longest(label, go[s], Append(label[s], b))
           wrong == {Len(label[s]) : s \in {s \in Onward : ~right(s)}}
<1>1. Turns(go, b)
  BY TurnsExist
<1>2. 0 \in Node /\ Onward \subseteq Node /\ \A s \in Node : nodes[s].fail \in Onward
  BY TrieFacts DEF Onward, Closed
<1> HIDE DEF go
<1>3. ASSUME NEW s \in Node
      PROVE  go[s] = IF b \in DOMAIN nodes[s].next THEN nodes[s].next[b]
                     ELSE IF s = 0 THEN 0 ELSE go[nodes[s].fail]
  BY <1>1 DEF Turns
<1>4. ASSUME NEW s \in Onward,
             \A f \in Onward : Len(label[f]) < Len(label[s]) => right(f)
      PROVE  right(s)
  <2>1. CASE b \in DOMAIN nodes[s].next
    BY <1>2, <1>3, <2>1, LongestIsChild
  <2>2. CASE s = 0 /\ b \notin DOMAIN nodes[s].next
    BY <1>2, <1>3, <2>2, LongestIsRoot
  <2>3. CASE s \in Linked /\ b \notin DOMAIN nodes[s].next
    <3> DEFINE f == nodes[s].fail
    <3>1. s \in Node \ {0} /\ f \in Onward
      BY <1>2, <2>3
    <3>2. Longest(label, f, Tail(label[s]))
      BY <1>2, <2>3 DEF Links
    <3>3. Len(label[f]) < Len(label[s])
      <4>1. label[s] \in Seq(Byte) /\ label[s] # <<>> /\ Len(label[s]) \in Nat
            /\ Len(label[f]) \in Nat
        BY <1>2, <3>1, TrieFacts
      <4>2. Len(Tail(label[s])) = Len(label[s]) - 1
        BY <4>1, HeadTailProperties
      <4>3. Len(label[f]) <= Len(Tail(label[s]))
        BY <3>2 DEF Longest, Suffix
      <4> QED BY <4>1, <4>2, <4>3
    <3>4. Longest(label, go[f], Append(label[f], b))
      BY <1>4, <3>1, <3>3
    <3>5. go[s] = go[f]
      BY <1>3, <2>3, <3>1
    <3> QED BY <2>3, <3>1, <3>2, <3>4, <3>5, LongestIsLinked
  <2> QED BY <2>1, <2>2, <2>3 DEF Onward
<1>5. wrong = {}
  <2> SUFFICES ASSUME wrong # {} PROVE FALSE
    OBVIOUS
  <2>1. wrong \in SUBSET Nat
    BY <1>2, TrieFacts
  <2> HIDE DEF wrong
  <2>2. PICK k \in wrong : \A j \in wrong : k <= j
    BY <2>1, LeastNumber
  <2>3. PICK s \in Onward : ~right(s) /\ k = Len(label[s])
    BY <2>2 DEF wrong
  <2>4. ASSUME NEW f \in Onward, Len(label[f]) < Len(label[s]), ~right(f) PROVE FALSE
    <3>1. Len(label[f]) \in wrong
      BY <2>4 DEF wrong
    <3>2. k <= Len(label[f]) /\ k \in Nat /\ Len(label[f]) \in Nat
      BY <2>1, <2>2, <3>1
    <3> QED BY <2>3, <2>4, <3>2
  <2> QED BY <1>4, <2>3, <2>4
<1>6. right(n)
  BY <1>5
<1>7. Step(n, b) = go[n]
  BY DEF Step, Turns, go, Node
<1> QED BY <1>6, <1>7

-----------------------------------------------------------------------------
\* Every keyword is the word of a node, so what ends the text ends the longest
\* word of the trie that the text ends with.
LEMMA KeywordHasNode ==
  ASSUME NEW label, Trie(label), Prefixes(label), NEW i \in DOMAIN added, added[i] # <<>>
  PROVE  /\ added[i] \in Seq(Byte) /\ Len(added[i]) \in Nat
         /\ \E n \in Node : label[n] = added[i]
<1>1. added[i] \in Seq(Byte)
  BY LenProperties, ElementOfSeq DEF Prefixes
<1>2. Len(added[i]) \in Nat \ {0}
  BY <1>1, EmptySeq
<1>3. SubSeq(added[i], 1, Len(added[i])) = added[i]
  BY <1>1, SubSeqFull
<1>4. Len(added[i]) \in 1..Len(added[i])
  BY <1>2
<1>5. \E n \in Node : label[n] = SubSeq(added[i], 1, Len(added[i]))
  BY <1>4 DEF Prefixes
<1> QED BY <1>1, <1>2, <1>3, <1>5

LEMMA EndingOfLongest ==
  ASSUME NEW label, Trie(label), Prefixes(label), NEW t \in Seq(Byte), NEW n,
         Longest(label, n, t)
  PROVE  Ending(label[n]) = Ending(t)
<1>1. n \in Node /\ label[n] \in Seq(Byte) /\ Suffix(label[n], t)
  BY TrieFacts DEF Longest
<1>2. ASSUME NEW i \in DOMAIN added, added[i] # <<>>
      PROVE  Suffix(added[i], label[n]) <=> Suffix(added[i], t)
  <2>1. added[i] \in Seq(Byte)
    BY <1>2, KeywordHasNode
  <2>2. ASSUME Suffix(added[i], label[n]) PROVE Suffix(added[i], t)
    BY <1>1, <2>1, <2>2, SuffixIsTransitive
  <2>3. ASSUME Suffix(added[i], t) PROVE Suffix(added[i], label[n])
    <3>1. PICK m \in Node : label[m] = added[i]
      BY <1>2, KeywordHasNode
    <3>2. Len(added[i]) <= Len(label[n])
      BY <2>3, <3>1 DEF Longest
    <3> QED BY <1>1, <2>1, <2>3, <3>2, SuffixesAreNested
  <2> QED BY <2>2, <2>3
<1> QED BY <1>2 DEF Ending

LEMMA EndingSplits ==
  ASSUME NEW label, Trie(label), Prefixes(label), NEW n \in Node \ {0}, NEW f,
         Longest(label, f, Tail(label[n]))
  PROVE  Ending(label[n]) = Own(label[n]) \cup Ending(label[f])
<1>1. label[n] \in Seq(Byte) /\ label[n] # <<>>
  BY TrieFacts
<1>2. Tail(label[n]) \in Seq(Byte)
  BY <1>1, HeadTailProperties
<1>3. Ending(label[f]) = Ending(Tail(label[n]))
  BY <1>2, EndingOfLongest
<1>4. ASSUME NEW i \in DOMAIN added, added[i] # <<>>
      PROVE  Suffix(added[i], label[n]) <=>
               added[i] = label[n] \/ Suffix(added[i], Tail(label[n]))
  <2>1. added[i] \in Seq(Byte)
    BY <1>4, KeywordHasNode
  <2> QED BY <1>1, <2>1, SuffixOfTail
<1> QED BY <1>3, <1>4 DEF Ending, Own

LEMMA NothingEndsTheEmptyWord ==
  ASSUME NEW label, Trie(label), Prefixes(label)
  PROVE  Ending(<<>>) = {} /\ Own(<<>>) = {}
<1>1. ASSUME NEW i \in DOMAIN added, added[i] # <<>> PROVE ~Suffix(added[i], <<>>)
  <2>1. Len(added[i]) \in Nat \ {0} /\ Len(<<>>) = 0
    BY <1>1, KeywordHasNode, EmptySeq
  <2> QED BY <2>1 DEF Suffix
<1> QED BY <1>1 DEF Ending, Own

-----------------------------------------------------------------------------
\* While build runs, links are closed: they lead upwards, where all is linked.
LEMMA BuildFacts ==
  ASSUME NEW label, Trie(label), Links(label), Breadth
  PROVE  /\ Linked \subseteq Node \ {0} /\ Closed
         /\ \A n \in Node : queue # <<>> /\ Len(label[n]) <= Depth(head) => n \in Onward
         /\ Len(queue) \in Nat /\ DOMAIN queue = 1..Len(queue)
<1>1. queue \in Seq(Node \ {0})
  BY DEF Breadth
<1>2. Len(queue) \in Nat /\ DOMAIN queue = 1..Len(queue)
  BY <1>1, LenProperties
<1>3. Linked \subseteq Node \ {0}
  BY <1>1, <1>2, ElementOfSeq DEF Linked
<1>4. ASSUME NEW n \in Node, queue # <<>>, Len(label[n]) <= Depth(head) PROVE n \in Onward
  <2>1. nodes[n].depth <= Depth(head)
    BY <1>4, TrieFacts
  <2>2. \A m \in Node \ {0} : nodes[m].depth <= Depth(head) => m \in Linked
    BY <1>4 DEF Breadth
  <2> QED BY <2>1, <2>2 DEF Onward
<1>5. ASSUME NEW n \in Linked PROVE nodes[n].fail \in Onward
  <2> DEFINE f == nodes[n].fail
  <2>1. PICK i \in 1..Len(queue) : n = queue[i]
    BY <1>2 DEF Linked
  <2>2. queue # <<>>
    BY <1>2, <2>1, EmptySeq
  <2>3. n \in Node \ {0}
    BY <1>3
  <2>4. Longest(label, f, Tail(label[n]))
    BY <2>3 DEF Links
  <2>5. /\ label[n] \in Seq(Byte) /\ label[n] # <<>> /\ Len(label[n]) \in Nat
        /\ f \in Node /\ Len(label[f]) \in Nat
    BY <2>3, <2>4, TrieFacts DEF Longest
  <2>6. Len(label[f]) <= Len(label[n]) - 1
    BY <2>4, <2>5, HeadTailProperties DEF Longest, Suffix
  <2>7. Len(label[n]) <= Depth(head) + 1
    BY <2>1, <2>2, <2>3, TrieFacts DEF Breadth, Depth
  <2>8. Depth(head) \in Nat
    <3>1. head \in 1..Len(queue)
      BY <1>2, <2>2 DEF Breadth
    <3>2. queue[head] \in Node
      BY <1>1, <3>1, ElementOfSeq
    <3> QED BY <3>2, TrieFacts DEF Depth
  <2> QED BY <1>4, <2>2, <2>5, <2>6, <2>7, <2>8
<1>6. Closed
  BY <1>5 DEF Closed, Links, Onward
<1> QED BY <1>2, <1>3, <1>4, <1>6

LEMMA SameTrie ==
  ASSUME NEW label, Trie(label), Node' = Node,
         \E size \in Nat \ {0} : nodes' \in [0..(size - 1) -> NodeType],
         \A n \in Node : nodes'[n].next = nodes[n].next /\ nodes'[n].depth = nodes[n].depth
  PROVE  Trie(label)'
<1>1. \A n \in Node : nodes'[n].depth = Len(label[n])
  BY DEF Trie
<1>2. ASSUME NEW n \in Node, NEW b \in DOMAIN nodes'[n].next
      PROVE  nodes'[n].next[b] \in Node /\ label[nodes'[n].next[b]] = Append(label[n], b)
  <2>1. nodes'[n].next = nodes[n].next
    OBVIOUS
  <2> QED BY <2>1 DEF Trie
<1>3. ASSUME NEW m \in Node \ {0}
      PROVE  \E n \in Node : \E b \in DOMAIN nodes'[n].next : nodes'[n].next[b] = m
  <2>1. PICK n \in Node : \E b \in DOMAIN nodes[n].next : nodes[n].next[b] = m
    BY DEF Trie
  <2>2. nodes'[n].next = nodes[n].next
    OBVIOUS
  <2> QED BY <2>1, <2>2
<1>4. /\ label \in [Node -> Seq(Byte)] /\ label[0] = <<>>
      /\ \A m, n \in Node : label[m] = label[n] => m = n
  BY DEF Trie
<1> QED BY <1>1, <1>2, <1>3, <1>4 DEF Trie

\* A step that only sets fail and out leaves the trie alone.
LEMMA TrieKeeps ==
  ASSUME NEW label, Trie(label), Prefixes(label), added' = added,
         NEW child \in Node, NEW fail \in Node,
         nodes' = [nodes EXCEPT ![child].fail = fail,
                                ![child].out = @ \cup nodes[fail].out]
  PROVE  /\ Trie(label)' /\ Prefixes(label)' /\ Node' = Node
         /\ \A n \in Node : nodes'[n].next = nodes[n].next /\ nodes'[n].depth = nodes[n].depth
         /\ \A n \in Node \ {child} : nodes'[n].fail = nodes[n].fail /\ nodes'[n].out = nodes[n].out
         /\ nodes'[child].fail = fail /\ nodes'[child].out = nodes[child].out \cup nodes[fail].out
<1>1. PICK size \in Nat \ {0} : nodes \in [0..(size - 1) -> NodeType]
  BY DEF Trie
<1>2. Node = 0..(size - 1) /\ child \in 0..(size - 1) /\ fail \in 0..(size - 1) /\ fail \in Nat
  BY <1>1 DEF Node
<1> DEFINE N == UNION {[bytes -> Nat] : bytes \in SUBSET Byte}
           O == SUBSET [rule : Nat, length : Nat]
           T == [next : N, fail : Nat, depth : Nat, out : O]
           D == 0..(size - 1)
<1>3. nodes \in [D -> T] /\ child \in D /\ fail \in D
  BY <1>1, <1>2 DEF NodeType
<1> HIDE DEF N, D
<1>4. /\ DOMAIN nodes' = D
      /\ \A n \in D : nodes'[n].next = nodes[n].next /\ nodes'[n].depth = nodes[n].depth
      /\ \A n \in D \ {child} : nodes'[n].fail = nodes[n].fail /\ nodes'[n].out = nodes[n].out
      /\ nodes'[child].fail = fail /\ nodes'[child].out = nodes[child].out \cup nodes[fail].out
  BY <1>3
<1>5. nodes' \in [D -> T]
  <2>1. nodes[child].out \cup nodes[fail].out \in O
    BY <1>3
  <2> HIDE DEF O
  <2> QED BY <1>2, <1>3, <2>1
<1>6. \E s \in Nat \ {0} : nodes' \in [0..(s - 1) -> NodeType]
  BY <1>5 DEF NodeType, N, O, T, D
<1>7. Node' = Node /\ Node = D
  BY <1>2, <1>4 DEF Node, D
<1>8. /\ \A n \in Node : nodes'[n].next = nodes[n].next /\ nodes'[n].depth = nodes[n].depth
      /\ \A n \in Node \ {child} : nodes'[n].fail = nodes[n].fail /\ nodes'[n].out = nodes[n].out
      /\ nodes'[child].fail = fail /\ nodes'[child].out = nodes[child].out \cup nodes[fail].out
  BY <1>4, <1>7
<1>9. Trie(label)'
  BY <1>6, <1>7, <1>8, SameTrie
<1>10. Prefixes(label)'
  BY <1>7 DEF Prefixes
<1> QED BY <1>7, <1>8, <1>9, <1>10

\* What linking a child changes, and what it finds.
LEMMA LinkedChild ==
  ASSUME NEW label, Trie(label), Prefixes(label), Links(label), Breadth,
         NEW b \in Byte, LinkChild(b)
  PROVE  \E child \in Node \ {0}, fail \in Onward :
           /\ queue # <<>> /\ b \in todo /\ todo' = todo \ {b}
           /\ child = nodes[queue[head]].next[b] /\ queue' = Append(queue, child)
           /\ UNCHANGED <<added, head, phase, state, text>>
           /\ Trie(label)' /\ Prefixes(label)' /\ Node' = Node
           /\ \A n \in Node : nodes'[n].next = nodes[n].next /\ nodes'[n].depth = nodes[n].depth
           /\ \A n \in Node \ {child} :
                nodes'[n].fail = nodes[n].fail /\ nodes'[n].out = nodes[n].out
           /\ nodes'[child].fail = fail /\ nodes'[child].out = Ending(label[child])
           /\ label[child] = Append(label[queue[head]], b)
           /\ Longest(label, fail, Tail(label[child]))
<1> DEFINE parent == queue[head]
           child == nodes[parent].next[b]
           fail == Fail(parent, b)
<1>1. /\ b \in todo /\ todo' = todo \ {b} /\ queue' = Append(queue, child)
      /\ UNCHANGED <<added, head, phase, state, text>> /\ added' = added
  BY DEF LinkChild
<1>0. nodes' = [nodes EXCEPT ![child].fail = fail, ![child].out = @ \cup nodes[fail].out]
  BY DEF LinkChild
<1>2. queue # <<>> /\ b \in DOMAIN nodes[parent].next /\ head \in 1..Len(queue)
  BY <1>1, BuildFacts DEF Breadth
<1>3. parent \in Linked /\ parent \in Node \ {0}
  BY <1>2, BuildFacts DEF Linked
<1> HIDE DEF parent
<1>4. /\ label[parent] \in Seq(Byte) /\ label[parent] # <<>> /\ Len(label[parent]) \in Nat
      /\ child \in Node /\ label[child] = Append(label[parent], b)
  BY <1>2, <1>3, TrieFacts
<1>5. /\ label[child] # <<>> /\ Len(label[child]) = Len(label[parent]) + 1
      /\ Tail(label[child]) = Append(Tail(label[parent]), b)
      /\ Tail(label[parent]) \in Seq(Byte) /\ Len(Tail(label[parent])) = Len(label[parent]) - 1
  BY <1>4, AppendProperties, HeadTailAppend, HeadTailProperties
<1>6. child \in Node \ {0}
  BY <1>4, <1>5, TrieFacts
<1>7. nodes[parent].fail \in Onward /\ Longest(label, nodes[parent].fail, Tail(label[parent]))
  <2>1. Closed
    BY BuildFacts
  <2>2. nodes[parent].fail \in Onward
    BY <1>3, <2>1 DEF Closed, Onward
  <2> QED BY <1>3, <2>2 DEF Links
<1>8. Longest(label, fail, Append(label[nodes[parent].fail], b))
  BY <1>7, BuildFacts, StepIsLongest DEF Fail
<1>9. Longest(label, fail, Tail(label[child]))
  BY <1>5, <1>7, <1>8, LongestExtends
<1> HIDE DEF fail, child
<1>10. fail \in Onward
  <2>1. fail \in Node /\ Len(label[fail]) <= Len(Tail(label[child]))
    BY <1>9 DEF Longest, Suffix
  <2>2. Len(Tail(label[child])) = Len(label[parent])
    BY <1>4, <1>5, AppendProperties
  <2>3. Len(label[fail]) <= Depth(head)
    BY <1>3, <2>1, <2>2, TrieFacts DEF Depth, parent
  <2> QED BY <1>2, <2>1, <2>3, BuildFacts
<1>11. Ending(label[child]) = Own(label[child]) \cup Ending(label[fail])
  BY <1>6, <1>9, EndingSplits
<1>12. nodes[fail].out = Ending(label[fail])
  <2>1. CASE fail \in Linked
    BY <2>1, BuildFacts DEF Links
  <2>2. CASE fail = 0 /\ fail \notin Linked
    BY <2>2, TrieFacts, NothingEndsTheEmptyWord DEF Links
  <2> QED BY <1>10, <2>1, <2>2 DEF Onward
<1>13. nodes[child].out \in {Own(label[child]), Ending(label[child])}
  BY <1>6 DEF Links
<1>14. nodes[child].out \cup nodes[fail].out = Ending(label[child])
  BY <1>11, <1>12, <1>13
<1>15. added' = added /\ child \in Node /\ fail \in Node
  BY <1>1, <1>6, <1>9 DEF Longest
<1>16. /\ Trie(label)' /\ Prefixes(label)' /\ Node' = Node
       /\ \A n \in Node : nodes'[n].next = nodes[n].next /\ nodes'[n].depth = nodes[n].depth
       /\ \A n \in Node \ {child} :
            nodes'[n].fail = nodes[n].fail /\ nodes'[n].out = nodes[n].out
       /\ nodes'[child].fail = fail /\ nodes'[child].out = nodes[child].out \cup nodes[fail].out
  BY <1>0, <1>15, TrieKeeps
<1>17. nodes'[child].out = Ending(label[child])
  BY <1>14, <1>16
<1>18. child = nodes[queue[head]].next[b] /\ label[child] = Append(label[queue[head]], b)
  BY <1>4 DEF child, parent
<1> QED BY <1>1, <1>2, <1>6, <1>9, <1>10, <1>16, <1>17, <1>18

LEMMA LinkKeeps ==
  ASSUME NEW label, InvOf(label), NEW b \in Byte, LinkChild(b)
  PROVE  InvOf(label)'
<1>1. Trie(label) /\ Prefixes(label) /\ Links(label) /\ Breadth /\ phase = "build"
  BY DEF InvOf, Phases, LinkChild
<1>2. PICK child \in Node \ {0}, fail \in Onward :
        /\ queue # <<>> /\ b \in todo /\ todo' = todo \ {b}
        /\ child = nodes[queue[head]].next[b] /\ queue' = Append(queue, child)
        /\ UNCHANGED <<added, head, phase, state, text>>
        /\ Trie(label)' /\ Prefixes(label)' /\ Node' = Node
        /\ \A n \in Node : nodes'[n].next = nodes[n].next /\ nodes'[n].depth = nodes[n].depth
        /\ \A n \in Node \ {child} :
             nodes'[n].fail = nodes[n].fail /\ nodes'[n].out = nodes[n].out
        /\ nodes'[child].fail = fail /\ nodes'[child].out = Ending(label[child])
        /\ label[child] = Append(label[queue[head]], b)
        /\ Longest(label, fail, Tail(label[child]))
  BY <1>1, LinkedChild
<1>4. /\ Trie(label)' /\ Prefixes(label)' /\ Node' = Node
      /\ \A n \in Node : nodes'[n].next = nodes[n].next /\ nodes'[n].depth = nodes[n].depth
      /\ \A n \in Node \ {child} : nodes'[n].fail = nodes[n].fail /\ nodes'[n].out = nodes[n].out
      /\ nodes'[child].fail = fail /\ nodes'[child].out = Ending(label[child])
  BY <1>2
<1>5. PICK last \in Nat \ {0} : last = Len(queue)
  BY <1>1, <1>2, BuildFacts, EmptySeq DEF Breadth
<1>6. PICK h \in 1..last : h = head
  <2>1. head \in Nat \ {0} /\ head <= Len(queue)
    BY <1>1, <1>2 DEF Breadth
  <2> QED BY <1>5, <2>1
<1>7. PICK parent \in Node : parent = queue[h]
  BY <1>1, <1>5, <1>6, BuildFacts DEF Linked
<1>8. /\ queue \in Seq(Node \ {0}) /\ queue' \in Seq(Node \ {0}) /\ queue' # <<>>
      /\ Len(queue') = last + 1 /\ queue'[last + 1] = child
      /\ \A i \in 1..last : queue'[i] = queue[i] /\ queue[i] \in Node
      /\ DOMAIN queue = 1..last /\ DOMAIN queue' = 1..(last + 1)
  <2>1. queue \in Seq(Node \ {0})
    BY <1>1 DEF Breadth
  <2>2. queue' = Append(queue, child)
    BY <1>2
  <2>3. /\ queue' \in Seq(Node \ {0}) /\ queue' # <<>>
        /\ Len(queue') = last + 1 /\ queue'[last + 1] = child
        /\ \A i \in 1..last : queue'[i] = queue[i]
    BY <1>5, <2>1, <2>2, AppendProperties
  <2>4. \A i \in 1..last : queue[i] \in Node
    BY <1>5, <2>1, ElementOfSeq
  <2> QED BY <1>5, <2>1, <2>3, <2>4, LenProperties
<1>9. Linked' = Linked \cup {child}
  BY <1>5, <1>8 DEF Linked
<1>10. Links(label)'
  <2>1. ASSUME NEW n \in Node, n # child
        PROVE  IF n \in Linked'
               THEN Longest(label, nodes'[n].fail, Tail(label[n])) /\ nodes'[n].out = Ending(label[n])
               ELSE nodes'[n].fail = 0 /\ nodes'[n].out = Own(label[n])
    <3>1. nodes'[n].fail = nodes[n].fail /\ nodes'[n].out = nodes[n].out
      BY <1>4, <2>1
    <3> QED BY <1>1, <1>9, <2>1, <3>1 DEF Links
  <2>2. ASSUME NEW n \in Node, n = child
        PROVE  Longest(label, nodes'[n].fail, Tail(label[n])) /\ nodes'[n].out = Ending(label[n])
    BY <1>2, <1>4, <2>2
  <2>3. ASSUME NEW w PROVE Ending(w)' = Ending(w) /\ Own(w)' = Own(w)
    <3>1. added' = added
      BY <1>2
    <3> QED BY <3>1 DEF Ending, Own, Hit
  <2>4. ASSUME NEW n \in Node
        PROVE  Longest(label, nodes[n].fail, Tail(label[n]))'
                 <=> Longest(label, nodes'[n].fail, Tail(label[n]))
    <3>1. Node' = Node
      BY <1>4
    <3> QED BY <3>1 DEF Longest
  <2> QED BY <1>4, <1>9, <2>1, <2>2, <2>3, <2>4 DEF Links
<1>11. /\ \A i \in 1..last : Depth(i)' = Depth(i) /\ Depth(i) \in Nat
       /\ Depth(last + 1)' = Depth(h) + 1
  <2>1. ASSUME NEW i \in 1..last PROVE Depth(i)' = Depth(i) /\ Depth(i) \in Nat
    <3>1. PICK n \in Node : n = queue[i] /\ n = queue'[i]
      BY <1>8
    <3>2. nodes'[n].depth = nodes[n].depth /\ nodes[n].depth \in Nat
      BY <1>1, <1>4, TrieFacts
    <3> QED BY <3>1, <3>2 DEF Depth
  <2>2. Depth(last + 1)' = nodes[child].depth
    BY <1>4, <1>8 DEF Depth
  <2>3. nodes[child].depth = Len(label[child]) /\ Depth(h) = Len(label[parent])
        /\ label[parent] \in Seq(Byte)
    BY <1>1, <1>7, TrieFacts DEF Depth
  <2>4. Len(label[child]) = Len(label[parent]) + 1
    <3>1. label[child] = Append(label[parent], b)
      BY <1>2, <1>6, <1>7
    <3> QED BY <2>3, <3>1, AppendProperties
  <2> QED BY <2>1, <2>2, <2>3, <2>4
<1>12. /\ Children(0) \subseteq Linked /\ todo \subseteq DOMAIN nodes[parent].next
       /\ \A c \in DOMAIN nodes[parent].next \ todo : nodes[parent].next[c] \in Linked
       /\ \A i \in 1..(h - 1) : Children(queue[i]) \subseteq Linked
       /\ \A i, j \in 1..last : i <= j => Depth(i) <= Depth(j)
       /\ \A i \in 1..last : Depth(i) <= Depth(h) + 1
       /\ \A n \in Node \ {0} : nodes[n].depth <= Depth(h) => n \in Linked
  BY <1>1, <1>2, <1>5, <1>6, <1>7 DEF Breadth
<1>13. /\ head' = h /\ queue'[h] = parent /\ parent \in Node /\ h \in 1..(last + 1)
       /\ nodes'[parent].next = nodes[parent].next /\ h \in Nat \ {0}
  <2>1. head' = h
    BY <1>2, <1>6
  <2>2. h \in 1..(last + 1) /\ h \in Nat \ {0}
    BY <1>5, <1>6
  <2>3. queue'[h] = parent
    BY <1>6, <1>7, <1>8
  <2>4. nodes'[parent].next = nodes[parent].next
    BY <1>4, <1>7
  <2> QED BY <1>7, <2>1, <2>2, <2>3, <2>4
<1>14. todo' \subseteq DOMAIN nodes[parent].next
       /\ \A c \in DOMAIN nodes[parent].next \ todo' : nodes[parent].next[c] \in Linked'
  BY <1>2, <1>6, <1>7, <1>9, <1>12
<1>15. ASSUME NEW n \in Node PROVE Children(n)' = Children(n)
  BY <1>4 DEF Children
<1>16. /\ Children(0)' \subseteq Linked'
       /\ \A i \in 1..(h - 1) : Children(queue[i])' \subseteq Linked'
  <2>1. Children(0)' \subseteq Linked'
    BY <1>1, <1>9, <1>12, <1>15, TrieFacts
  <2>2. ASSUME NEW i \in 1..(h - 1) PROVE Children(queue[i])' \subseteq Linked'
    <3>1. i \in 1..last
      BY <1>6
    <3>2. PICK n \in Node : n = queue[i] /\ n = queue'[i]
      BY <1>8, <3>1
    <3>3. Children(n)' = Children(n) /\ Children(queue[i])' = Children(n)'
      BY <1>15, <3>2 DEF Children
    <3> QED BY <1>9, <1>12, <3>2, <3>3
  <2> QED BY <2>1, <2>2
<1>17. /\ \A i, j \in 1..(last + 1) : i <= j => Depth(i)' <= Depth(j)'
       /\ \A i \in 1..(last + 1) : Depth(i)' <= Depth(h)' + 1
       /\ \A n \in Node \ {0} : nodes'[n].depth <= Depth(h)' => n \in Linked'
  <2>1. Depth(h)' = Depth(h) /\ Depth(h) \in Nat
    BY <1>6, <1>11
  <2>2. ASSUME NEW i \in 1..(last + 1) PROVE Depth(i)' <= Depth(h) + 1 /\ Depth(i)' \in Nat
    <3>1. CASE i \in 1..last
      BY <1>11, <1>12, <3>1
    <3>2. CASE i = last + 1
      BY <1>11, <2>1, <3>2
    <3> QED BY <1>5, <3>1, <3>2
  <2>3. ASSUME NEW i \in 1..(last + 1), NEW j \in 1..(last + 1), i <= j
        PROVE  Depth(i)' <= Depth(j)'
    <3>1. CASE j = last + 1
      BY <1>11, <2>2, <3>1
    <3>2. CASE j \in 1..last
      <4>1. i \in 1..last
        BY <1>5, <2>3, <3>2
      <4> QED BY <1>11, <1>12, <2>3, <3>2, <4>1
    <3> QED BY <1>5, <3>1, <3>2
  <2>4. ASSUME NEW n \in Node \ {0}, nodes'[n].depth <= Depth(h)' PROVE n \in Linked'
    BY <1>4, <1>9, <1>12, <2>1, <2>4
  <2> QED BY <2>1, <2>2, <2>3, <2>4
<1>18. Breadth'
  <2>1. queue' \in Seq(Node' \ {0}) /\ head' \in Nat \ {0} /\ queue' # <<>>
    BY <1>4, <1>8, <1>13
  <2>2. head' <= Len(queue')
    BY <1>8, <1>13
  <2> QED BY <1>4, <1>8, <1>13, <1>14, <1>16, <1>17, <2>1, <2>2 DEF Breadth
<1>19. Phases(label)'
  BY <1>1, <1>2, <1>18 DEF Phases, InvOf
<1> QED BY <1>4, <1>10, <1>19 DEF InvOf

\* Every node but the root is the child of a node one level above.
LEMMA ParentOf ==
  ASSUME NEW label, Trie(label), NEW n \in Node \ {0}
  PROVE  \E p \in Node : n \in Children(p) /\ Len(label[n]) = Len(label[p]) + 1
<1>1. PICK p \in Node : \E b \in DOMAIN nodes[p].next : nodes[p].next[b] = n
  BY DEF Trie
<1>2. PICK b \in DOMAIN nodes[p].next : nodes[p].next[b] = n
  BY <1>1
<1>3. b \in Byte /\ label[p] \in Seq(Byte) /\ label[n] = Append(label[p], b)
  <2>1. label[p] \in Seq(Byte)
    BY <1>1, TrieFacts
  <2>2. b \in Byte /\ label[nodes[p].next[b]] = Append(label[p], b)
    BY <1>1, <1>2, ChildWord
  <2> QED BY <1>2, <2>1, <2>2
<1>4. Len(label[n]) = Len(label[p]) + 1
  BY <1>3, AppendProperties
<1> QED BY <1>2, <1>4 DEF Children

\* When the last node of the queue is done, every node is linked.
LEMMA AllAreLinked ==
  ASSUME NEW label, Trie(label), Links(label), Breadth, todo = {}, ~(head < Len(queue))
  PROVE  Linked = Node \ {0}
<1>1. Linked \subseteq Node \ {0} /\ Len(queue) \in Nat /\ DOMAIN queue = 1..Len(queue)
  BY BuildFacts
<1>2. ASSUME NEW p \in Onward PROVE Children(p) \subseteq Linked
  <2>1. CASE p = 0
    BY <2>1 DEF Breadth
  <2>2. CASE p \in Linked
    <3>1. PICK i \in 1..Len(queue) : p = queue[i]
      BY <1>1, <2>2 DEF Linked
    <3>2. queue # <<>>
      BY <3>1, EmptySeq
    <3>3. head \in Nat \ {0} /\ head = Len(queue)
      <4>1. head \in Nat \ {0} /\ head <= Len(queue)
        BY <3>2 DEF Breadth
      <4>2. Len(queue) \in Nat /\ ~(head < Len(queue))
        BY <1>1
      <4> QED BY <4>1, <4>2
    <3>4. CASE i = head
      <4>1. \A b \in DOMAIN nodes[queue[head]].next : nodes[queue[head]].next[b] \in Linked
        BY <3>2 DEF Breadth
      <4> QED BY <3>1, <3>4, <4>1 DEF Children
    <3>5. CASE i \in 1..(head - 1)
      BY <3>1, <3>2, <3>5 DEF Breadth
    <3>6. i = head \/ i \in 1..(head - 1)
      <4>1. i \in 1..head /\ head \in Nat
        BY <3>3
      <4> QED BY <4>1
    <3> QED BY <3>4, <3>5, <3>6
  <2> QED BY <2>1, <2>2 DEF Onward
<1> DEFINE left == (Node \ {0}) \ Linked
           levels == {Len(label[n]) : n \in left}
<1>3. left = {}
  <2> SUFFICES ASSUME left # {} PROVE FALSE
    OBVIOUS
  <2>1. levels \in SUBSET Nat /\ levels # {}
    BY TrieFacts
  <2> HIDE DEF levels
  <2>2. PICK k \in levels : \A j \in levels : k <= j
    BY <2>1, LeastNumber
  <2>3. PICK n \in left : k = Len(label[n])
    BY <2>2 DEF levels
  <2>4. PICK p \in Node : n \in Children(p) /\ Len(label[n]) = Len(label[p]) + 1
    BY <2>3, ParentOf
  <2>5. Len(label[p]) \in Nat /\ Len(label[p]) < k
    BY <2>3, <2>4, TrieFacts
  <2>6. p \notin left
    <3>1. ASSUME p \in left PROVE FALSE
      <4>1. Len(label[p]) \in levels
        BY <3>1 DEF levels
      <4>2. k <= Len(label[p]) /\ k \in Nat
        BY <2>1, <2>2, <4>1
      <4> QED BY <2>5, <4>2
    <3> QED BY <3>1
  <2> QED BY <1>2, <2>3, <2>4, <2>6 DEF Onward
<1> QED BY <1>1, <1>3

LEMMA LongestOfNothing ==
  ASSUME NEW label, Trie(label)
  PROVE  Longest(label, 0, <<>>)
<1>1. 0 \in Node /\ label[0] = <<>> /\ <<>> \in Seq(Byte) /\ Len(<<>>) = 0
  BY TrieFacts, EmptySeq
<1> QED BY <1>1 DEF Longest, Suffix

\* Going to the next node of the queue: its level is complete, because the level
\* above it is done.
LEMMA NextLevel ==
  ASSUME NEW label, Trie(label), Links(label), Breadth, todo = {}, head < Len(queue),
         NEW n \in Node \ {0}, nodes[n].depth <= Depth(head + 1)
  PROVE  n \in Linked
<1>1. PICK last \in Nat : last = Len(queue) /\ DOMAIN queue = 1..last
  BY BuildFacts
<1>2. PICK h \in Nat \ {0} : h = head /\ h \in 1..last /\ h + 1 \in 1..last
  BY <1>1 DEF Breadth
<1>3. queue # <<>>
  BY <1>1, <1>2, EmptySeq
<1>4. queue \in Seq(Node \ {0}) /\ \A i \in 1..last : queue[i] \in Node \ {0}
  BY <1>1, ElementOfSeq DEF Breadth
<1>5. \A i \in 1..last : Depth(i) \in Nat /\ Depth(i) = Len(label[queue[i]])
  BY <1>4, TrieFacts DEF Depth
<1>6. nodes[n].depth = Len(label[n]) /\ Len(label[n]) \in Nat
  BY TrieFacts
<1>7. /\ \A i, j \in 1..last : i <= j => Depth(i) <= Depth(j)
      /\ \A i \in 1..last : Depth(i) <= Depth(h) + 1
      /\ \A m \in Node \ {0} : nodes[m].depth <= Depth(h) => m \in Linked
      /\ \A i \in 1..(h - 1) : Children(queue[i]) \subseteq Linked
      /\ Children(queue[h]) \subseteq Linked /\ Children(0) \subseteq Linked
  <2>1. Children(queue[h]) \subseteq Linked
    <3>1. \A b \in DOMAIN nodes[queue[h]].next : nodes[queue[h]].next[b] \in Linked
      BY <1>2, <1>3 DEF Breadth
    <3> QED BY <3>1 DEF Children
  <2> QED BY <1>1, <1>2, <1>3, <2>1 DEF Breadth
<1>8. CASE nodes[n].depth <= Depth(h)
  BY <1>7, <1>8
<1>9. CASE ~(nodes[n].depth <= Depth(h))
  <2>1. Depth(h + 1) = Depth(h) + 1 /\ Len(label[n]) = Depth(h) + 1
    <3>1. Depth(h + 1) <= Depth(h) + 1 /\ Depth(h + 1) \in Nat /\ Depth(h) \in Nat
      BY <1>2, <1>5, <1>7
    <3>2. Len(label[n]) <= Depth(h + 1) /\ ~(Len(label[n]) <= Depth(h))
      BY <1>2, <1>6, <1>9
    <3> QED BY <1>6, <3>1, <3>2
  <2>2. PICK p \in Node : n \in Children(p) /\ Len(label[n]) = Len(label[p]) + 1
    BY ParentOf
  <2>3. Len(label[p]) = Depth(h) /\ nodes[p].depth = Len(label[p]) /\ Depth(h) \in Nat
    BY <1>2, <1>5, <2>1, <2>2, TrieFacts
  <2>4. CASE p = 0
    BY <1>7, <2>2, <2>4
  <2>5. CASE p # 0
    <3>1. p \in Linked
      BY <1>7, <2>3, <2>5
    <3>2. PICK i \in 1..last : p = queue[i]
      BY <1>1, <3>1 DEF Linked
    <3>3. Depth(i) = Depth(h)
      BY <2>3, <3>2 DEF Depth
    <3>4. i <= h
      <4>1. ASSUME h + 1 <= i PROVE FALSE
        <5>1. Depth(h + 1) <= Depth(i)
          BY <1>2, <1>7, <4>1
        <5> QED BY <2>1, <2>3, <3>3, <5>1
      <4> QED BY <1>2, <4>1
    <3>5. Children(queue[i]) \subseteq Linked
      <4>1. CASE i = h
        BY <1>7, <4>1
      <4>2. CASE i \in 1..(h - 1)
        BY <1>7, <4>2
      <4> QED BY <1>2, <3>4, <4>1, <4>2
    <3> QED BY <2>2, <3>2, <3>5
  <2> QED BY <2>4, <2>5
<1> QED BY <1>8, <1>9

\* What does not touch the nodes.
LEMMA SameNodes ==
  ASSUME NEW label, Trie(label), Prefixes(label), UNCHANGED <<nodes, added>>
  PROVE  /\ Trie(label)' /\ Prefixes(label)' /\ Node' = Node
         /\ \A n, t : Longest(label, n, t)' <=> Longest(label, n, t)
         /\ \A w : Ending(w)' = Ending(w) /\ Own(w)' = Own(w)
<1>1. Node' = Node
  BY DEF Node
<1>2. /\ \A n, t : Longest(label, n, t)' <=> Longest(label, n, t)
      /\ \A w : Ending(w)' = Ending(w) /\ Own(w)' = Own(w)
  BY <1>1 DEF Longest, Ending, Own, Hit
<1>3. Trie(label)' /\ Prefixes(label)'
  <2>1. \E size \in Nat \ {0} : nodes' \in [0..(size - 1) -> NodeType]
    BY DEF Trie
  <2>2. Trie(label)'
    BY <1>1, <2>1, SameTrie
  <2> QED BY <1>1, <2>2 DEF Prefixes
<1> QED BY <1>1, <1>2, <1>3

LEMMA SameLinks ==
  ASSUME NEW label, Trie(label), Prefixes(label), Links(label),
         UNCHANGED <<nodes, added, queue>>
  PROVE  Links(label)' /\ Linked' = Linked
<1>1. Linked' = Linked
  BY DEF Linked
<1>2. Node' = Node /\ \A w : Ending(w)' = Ending(w) /\ Own(w)' = Own(w)
  BY SameNodes
<1>3. \A n \in Node : Longest(label, nodes[n].fail, Tail(label[n]))'
                        <=> Longest(label, nodes[n].fail, Tail(label[n]))
  BY <1>2 DEF Longest
<1> QED BY <1>1, <1>2, <1>3 DEF Links

LEMMA NextNodeKeeps ==
  ASSUME NEW label, InvOf(label), NextNode
  PROVE  InvOf(label)'
<1>1. /\ Trie(label) /\ Prefixes(label) /\ Links(label) /\ Breadth
      /\ phase = "build" /\ todo = {} /\ state = 0 /\ text = <<>>
      /\ UNCHANGED <<nodes, added, queue, state, text>>
  BY DEF InvOf, Phases, NextNode
<1>2. Trie(label)' /\ Prefixes(label)' /\ Links(label)' /\ Linked' = Linked /\ Node' = Node
  BY <1>1, SameNodes, SameLinks
<1>3. CASE ~(head < Len(queue))
  <2>1. phase' = "run" /\ UNCHANGED <<head, todo>>
    BY <1>3 DEF NextNode
  <2>2. Linked = Node \ {0} /\ Longest(label, 0, <<>>) /\ <<>> \in Seq(Byte)
    BY <1>1, <1>3, AllAreLinked, LongestOfNothing, EmptySeq
  <2>3. Longest(label, state, text)'
    BY <1>1, <1>2, <2>2 DEF Longest
  <2> QED BY <1>1, <1>2, <2>1, <2>2, <2>3 DEF InvOf, Phases
<1>4. CASE head < Len(queue)
  <2>1. /\ phase' = "build" /\ head' = head + 1
        /\ todo' = DOMAIN nodes[queue[head + 1]].next
    BY <1>1, <1>4 DEF NextNode
  <2>2. PICK last \in Nat : last = Len(queue) /\ DOMAIN queue = 1..last
    BY <1>1, BuildFacts
  <2>3. PICK h \in Nat \ {0} : h = head /\ h \in 1..last /\ h + 1 \in 1..last /\ head' = h + 1
    BY <1>1, <1>4, <2>1, <2>2 DEF Breadth
  <2>4. queue # <<>>
    BY <2>2, <2>3, EmptySeq
  <2>5. /\ Children(0) \subseteq Linked
        /\ \A b \in DOMAIN nodes[queue[h]].next : nodes[queue[h]].next[b] \in Linked
        /\ \A i \in 1..(h - 1) : Children(queue[i]) \subseteq Linked
        /\ \A i, j \in 1..last : i <= j => Depth(i) <= Depth(j)
        /\ \A i \in 1..last : Depth(i) <= Depth(h) + 1
        /\ \A i \in 1..last : Depth(i) \in Nat
    <3>1. \A i \in 1..last : queue[i] \in Node
      BY <1>1, <2>2, ElementOfSeq DEF Breadth
    <3>2. \A i \in 1..last : Depth(i) \in Nat
      BY <1>1, <3>1, TrieFacts DEF Depth
    <3> QED BY <1>1, <2>2, <2>3, <2>4, <3>2 DEF Breadth
  <2>6. \A i \in 1..h : Children(queue[i]) \subseteq Linked
    <3>1. Children(queue[h]) \subseteq Linked
      BY <2>5 DEF Children
    <3>2. \A i \in 1..h : i = h \/ i \in 1..(h - 1)
      BY <2>3
    <3> QED BY <2>5, <3>1, <3>2
  <2>7. \A i \in 1..last : Depth(i) <= Depth(h + 1) + 1
    BY <2>3, <2>5
  <2>8. \A n \in Node \ {0} : nodes[n].depth <= Depth(h + 1) => n \in Linked
    BY <1>1, <1>4, <2>3, NextLevel
  <2>9. /\ \A i : Depth(i)' = Depth(i)
        /\ \A n : Children(n)' = Children(n)
    BY <1>1 DEF Depth, Children
  <2>10. Breadth'
    <3>1. /\ queue' \in Seq(Node' \ {0}) /\ head' \in Nat \ {0} /\ Len(queue') = last
          /\ head' <= Len(queue') /\ queue' # <<>>
      BY <1>1, <1>2, <2>2, <2>3, <2>4 DEF Breadth
    <3>2. /\ todo' = DOMAIN nodes'[queue'[head']].next
          /\ Children(0)' \subseteq Linked'
          /\ \A i \in 1..(head' - 1) : Children(queue[i])' \subseteq Linked'
      <4>1. \A i \in 1..(head' - 1) : i \in 1..h
        BY <2>3
      <4>2. \A i : Children(queue[i])' = Children(queue[i])
        BY <1>1 DEF Children
      <4> QED BY <1>1, <1>2, <2>1, <2>5, <2>6, <2>9, <4>1, <4>2
    <3>3. Depth(head)' = Depth(h + 1)
      BY <1>1, <2>3 DEF Depth
    <3>4. /\ \A i, j \in 1..Len(queue') : i <= j => Depth(i)' <= Depth(j)'
          /\ \A i \in 1..Len(queue') : Depth(i)' <= Depth(head)' + 1
          /\ \A n \in Node' \ {0} : nodes'[n].depth <= Depth(head)' => n \in Linked'
      BY <1>1, <1>2, <2>5, <2>7, <2>8, <2>9, <3>1, <3>3
    <3> QED BY <3>1, <3>2, <3>4 DEF Breadth
  <2>11. Phases(label)'
    BY <1>1, <2>1, <2>10 DEF Phases
  <2> QED BY <1>2, <2>11 DEF InvOf
<1> QED BY <1>3, <1>4

\* build begins with the root's children, which fall back to the root.
LEMMA StartKeeps ==
  ASSUME NEW label, InvOf(label), StartBuild
  PROVE  InvOf(label)'
<1>1. /\ Trie(label) /\ Prefixes(label) /\ Links(label) /\ phase = "add" /\ phase' = "build"
      /\ queue = <<>> /\ head = 1 /\ state = 0 /\ text = <<>>
      /\ UNCHANGED <<nodes, added, head, state, text>>
      /\ todo' = IF queue' = <<>> THEN {} ELSE DOMAIN nodes[queue'[1]].next
  BY DEF InvOf, Phases, StartBuild
<1>2. /\ Trie(label)' /\ Prefixes(label)' /\ Node' = Node
      /\ \A w : Ending(w)' = Ending(w) /\ Own(w)' = Own(w)
  BY <1>1, SameNodes
<1> DEFINE C == Children(0)
<1>3. /\ C \subseteq Node \ {0}
      /\ \A n \in C : \E b \in Byte : label[n] = <<b>>
      /\ \A n \in Node \ {0} : Len(label[n]) <= 1 => n \in C
  <2>1. ASSUME NEW n \in C PROVE n \in Node \ {0} /\ \E b \in Byte : label[n] = <<b>>
    <3>1. PICK b \in DOMAIN nodes[0].next : n = nodes[0].next[b]
      BY DEF Children
    <3>2. b \in Byte /\ n \in Node /\ label[n] = Append(label[0], b) /\ label[0] = <<>>
      BY <1>1, <3>1, TrieFacts
    <3>3. label[n] = <<b>>
      BY <3>2
    <3>4. n # 0
      BY <3>2, <3>3
    <3> QED BY <3>2, <3>3, <3>4
  <2>2. ASSUME NEW n \in Node \ {0}, Len(label[n]) <= 1 PROVE n \in C
    <3>1. PICK p \in Node : n \in Children(p) /\ Len(label[n]) = Len(label[p]) + 1
      BY <1>1, ParentOf
    <3>2. label[p] \in Seq(Byte) /\ Len(label[p]) \in Nat
      BY <1>1, TrieFacts
    <3>3. Len(label[p]) = 0
      BY <2>2, <3>1, <3>2
    <3>4. label[p] = <<>>
      BY <3>2, <3>3, EmptySeq
    <3>5. p = 0
      BY <1>1, <3>4, TrieFacts
    <3> QED BY <3>1, <3>5
  <2> QED BY <2>1, <2>2
<1>4. IsFiniteSet(C)
  <2>1. PICK size \in Nat \ {0} : nodes \in [0..(size - 1) -> NodeType]
    BY <1>1 DEF Trie
  <2>2. IsFiniteSet(Node)
    <3>1. Node = 0..(size - 1) /\ 0 \in Int /\ size - 1 \in Int
      BY <2>1 DEF Node
    <3> QED BY <3>1, FS_Interval
  <2> QED BY <1>3, <2>2, FS_Subset
<1>5. PICK last \in Nat : last = Cardinality(C)
  BY <1>4, FS_CardinalityType
<1>6. queue' \in [1..last -> C] /\ \A i, j \in 1..last : queue'[i] = queue'[j] => i = j
  BY <1>5 DEF StartBuild
<1>7. \A n \in C : \E i \in 1..last : queue'[i] = n
  <2>1. queue' \in Injection(1..last, C)
    <3>1. DOMAIN queue' = 1..last
      BY <1>6
    <3> QED BY <1>6, <3>1 DEF Injection, IsInjective
  <2>2. Cardinality(1..last) = last
    BY FS_Interval
  <2>3. queue' \in Surjection(1..last, C)
    BY <1>4, <1>5, <2>1, <2>2, FS_Injection
  <2> QED BY <2>3 DEF Surjection
<1> HIDE DEF C
<1>8. Linked' = C /\ queue' \in Seq(C) /\ Len(queue') = last
  <2>1. DOMAIN queue' = 1..last
    BY <1>6
  <2>2. Linked' = C
    BY <1>6, <1>7, <2>1 DEF Linked
  <2>3. queue' \in Seq(C)
    BY <1>6, SeqDef
  <2>4. Len(queue') = last
    BY <2>1, <2>3, LenProperties
  <2> QED BY <2>2, <2>3, <2>4
<1>9. Links(label)'
  <2>1. Linked = {}
    BY <1>1 DEF Linked
  <2>2. ASSUME NEW n \in Node PROVE nodes[n].fail = 0 /\ nodes[n].out = Own(label[n])
    BY <1>1, <2>1 DEF Links
  <2>3. ASSUME NEW n \in C
        PROVE  Longest(label, 0, Tail(label[n])) /\ Own(label[n]) = Ending(label[n])
    <3>1. PICK b \in Byte : label[n] = <<b>>
      BY <1>3
    <3>2. Tail(label[n]) = <<>>
      BY <3>1
    <3>3. Longest(label, 0, Tail(label[n]))
      BY <1>1, <3>2, LongestOfNothing
    <3>4. Ending(label[n]) = Own(label[n]) \cup Ending(label[0])
      <4>1. n \in Node \ {0}
        BY <1>3
      <4> QED BY <1>1, <3>3, <4>1, EndingSplits
    <3>5. Ending(label[0]) = {}
      BY <1>1, TrieFacts, NothingEndsTheEmptyWord
    <3> QED BY <3>3, <3>4, <3>5
  <2>4. ASSUME NEW n \in Node
        PROVE  Longest(label, nodes[n].fail, Tail(label[n]))'
                 <=> Longest(label, nodes[n].fail, Tail(label[n]))
    BY <1>1, <1>2 DEF Longest
  <2> QED BY <1>1, <1>2, <1>8, <2>2, <2>3, <2>4 DEF Links
<1>10. Breadth'
  <2>1. queue' \in Seq(Node' \ {0})
    BY <1>2, <1>3, <1>8, SeqMonotonic
  <2>2. \A i \in 1..last : queue'[i] \in C /\ Depth(i)' = 1
    <3>1. ASSUME NEW i \in 1..last PROVE queue'[i] \in C /\ Depth(i)' = 1
      <4>1. PICK n \in C : n = queue'[i]
        BY <1>6
      <4>2. nodes[n].depth = Len(label[n])
        BY <1>1, <1>3, <4>1, TrieFacts
      <4>3. Len(label[n]) = 1
        <5>1. PICK b \in Byte : label[n] = <<b>>
          BY <1>3, <4>1
        <5> QED BY <5>1
      <4> QED BY <1>1, <4>1, <4>2, <4>3 DEF Depth
    <3> QED BY <3>1
  <2>3. Children(0)' = C
    BY <1>1 DEF Children, C
  <2>4. CASE queue' = <<>>
    BY <1>1, <1>8, <2>1, <2>3, <2>4 DEF Breadth
  <2>5. CASE queue' # <<>>
    <3>1. 1 \in 1..last
      BY <1>8, <2>5, EmptySeq
    <3>2. todo' = DOMAIN nodes'[queue'[1]].next
      BY <1>1, <2>5
    <3>3. \A n \in Node' \ {0} : nodes'[n].depth <= Depth(head)' => n \in Linked'
      <4>1. Depth(head)' = 1
        BY <1>1, <2>2, <3>1 DEF Depth
      <4>2. \A n \in Node \ {0} : nodes[n].depth = Len(label[n])
        BY <1>1, TrieFacts
      <4> QED BY <1>1, <1>2, <1>3, <1>8, <4>1, <4>2
    <3>4. /\ \A i, j \in 1..Len(queue') : i <= j => Depth(i)' <= Depth(j)'
          /\ \A i \in 1..Len(queue') : Depth(i)' <= Depth(head)' + 1
      <4>1. Depth(head)' = 1
        BY <1>1, <2>2, <3>1 DEF Depth
      <4> QED BY <1>8, <2>2, <4>1
    <3>5. head' = 1 /\ head' <= Len(queue') /\ head' \in Nat \ {0} /\ 1..(head' - 1) = {}
      BY <1>1, <1>8, <3>1
    <3> QED BY <1>8, <2>1, <2>3, <2>5, <3>2, <3>3, <3>4, <3>5 DEF Breadth
  <2> QED BY <2>4, <2>5
<1>11. Phases(label)'
  BY <1>1, <1>10 DEF Phases
<1> QED BY <1>2, <1>9, <1>11 DEF InvOf

\* One byte of text.
LEMMA ScanKeeps ==
  ASSUME NEW label, InvOf(label), NEW b \in Byte, Scan(b)
  PROVE  InvOf(label)'
<1>1. /\ Trie(label) /\ Prefixes(label) /\ Links(label)
      /\ phase = "run" /\ Linked = Node \ {0}
      /\ text \in Seq(Byte) /\ Longest(label, state, text)
      /\ state' = Step(state, b) /\ text' = Append(text, b)
      /\ UNCHANGED <<nodes, added, queue, head, todo, phase>>
  BY DEF InvOf, Phases, Scan
<1>2. /\ Trie(label)' /\ Prefixes(label)' /\ Node' = Node /\ Links(label)' /\ Linked' = Linked
      /\ \A n, t : Longest(label, n, t)' <=> Longest(label, n, t)
  BY <1>1, SameNodes, SameLinks
<1>3. Onward = Node /\ 0 \in Node
  BY <1>1, TrieFacts DEF Onward
<1>4. Closed
  <2>1. \A n \in Node : nodes[n].fail \in Node
    BY <1>3, <1>1 DEF Links, Longest
  <2> QED BY <1>3, <2>1 DEF Closed, Onward
<1>5. state \in Onward
  BY <1>1, <1>3 DEF Longest
<1>6. Longest(label, Step(state, b), Append(label[state], b))
  BY <1>1, <1>4, <1>5, StepIsLongest
<1>7. Longest(label, Step(state, b), Append(text, b))
  BY <1>1, <1>6, LongestExtends
<1>8. Longest(label, state, text)'
  BY <1>1, <1>2, <1>7 DEF Longest
<1>9. text' \in Seq(Byte)
  BY <1>1, AppendProperties
<1> QED BY <1>1, <1>2, <1>8, <1>9 DEF InvOf, Phases

-----------------------------------------------------------------------------
\* add: how far a word follows the trie.
LEMMA Beginnings ==
  ASSUME NEW word \in Seq(Byte)
  PROVE  /\ SubSeq(word, 1, 0) = <<>> /\ SubSeq(word, 1, Len(word)) = word
         /\ \A k \in 0..Len(word) :
              SubSeq(word, 1, k) \in Seq(Byte) /\ Len(SubSeq(word, 1, k)) = k
         /\ \A k \in 0..(Len(word) - 1) :
              /\ word[k + 1] \in Byte
              /\ SubSeq(word, 1, k + 1) = Append(SubSeq(word, 1, k), word[k + 1])
<1>1. Len(word) \in Nat
  BY LenProperties
<1>2. \A i \in 1..Len(word) : word[i] \in Byte
  BY ElementOfSeq
<1>3. ASSUME NEW k \in 0..Len(word)
      PROVE  /\ SubSeq(word, 1, k) \in Seq(Byte) /\ Len(SubSeq(word, 1, k)) = k
             /\ \A i \in 1..k : SubSeq(word, 1, k)[i] = word[i]
  <2>1. 1 \in Int /\ k \in Int /\ \A i \in 1..k : word[i] \in Byte
    BY <1>1, <1>2
  <2>2. /\ SubSeq(word, 1, k) \in Seq(Byte)
        /\ Len(SubSeq(word, 1, k)) = IF 1 <= k THEN k - 1 + 1 ELSE 0
        /\ \A i \in 1..(k - 1 + 1) : SubSeq(word, 1, k)[i] = word[1 + i - 1]
    BY <2>1, SubSeqProperties
  <2>3. k - 1 + 1 = k /\ (1 <= k \/ k = 0) /\ \A i \in 1..k : 1 + i - 1 = i
    BY <1>1
  <2> QED BY <2>2, <2>3
<1>4. SubSeq(word, 1, 0) = <<>>
  BY SubSeqEmpty
<1>5. ASSUME NEW k \in 0..(Len(word) - 1)
      PROVE  /\ word[k + 1] \in Byte
             /\ SubSeq(word, 1, k + 1) = Append(SubSeq(word, 1, k), word[k + 1])
  <2> DEFINE u == SubSeq(word, 1, k)
             v == SubSeq(word, 1, k + 1)
  <2>1. k \in 0..Len(word) /\ k + 1 \in 0..Len(word) /\ word[k + 1] \in Byte
    BY <1>1, <1>2
  <2>2. /\ u \in Seq(Byte) /\ Len(u) = k /\ \A i \in 1..k : u[i] = word[i]
        /\ v \in Seq(Byte) /\ Len(v) = k + 1 /\ \A i \in 1..(k + 1) : v[i] = word[i]
    BY <1>3, <2>1
  <2> HIDE DEF u, v
  <2> DEFINE w == Append(u, word[k + 1])
  <2>3. /\ w \in Seq(Byte) /\ Len(w) = k + 1 /\ w[k + 1] = word[k + 1]
        /\ \A i \in 1..k : w[i] = u[i]
    BY <2>1, <2>2, AppendProperties
  <2> HIDE DEF w
  <2>4. \A i \in 1..(k + 1) : v[i] = w[i]
    BY <2>2, <2>3
  <2>5. v = w
    BY <2>2, <2>3, <2>4, SeqEqual
  <2> QED BY <2>1, <2>5 DEF u, v, w
<1> QED BY <1>3, <1>4, <1>5, SubSeqFull

\* The nodes of a word's beginning: one, or none.
Found(label, word, k) == {n \in Node : label[n] = SubSeq(word, 1, k)}

LEMMA FoundGrows ==
  ASSUME NEW label, Trie(label), NEW word \in Seq(Byte), NEW k \in 1..Len(word)
  PROVE  Found(label, word, k) =
           {nodes[n].next[word[k]] :
              n \in {n \in Found(label, word, k - 1) : word[k] \in DOMAIN nodes[n].next}}
<1>1. PICK j \in 0..(Len(word) - 1) : k = j + 1 /\ k - 1 = j
  <2>1. Len(word) \in Nat
    BY LenProperties
  <2> QED BY <2>1
<1>2. /\ word[k] \in Byte /\ SubSeq(word, 1, k) = Append(SubSeq(word, 1, j), word[k])
      /\ SubSeq(word, 1, j) \in Seq(Byte)
  <2>1. j \in 0..Len(word)
    BY <1>1, LenProperties
  <2> QED BY <1>1, <2>1, Beginnings
<1>3. ASSUME NEW n \in Found(label, word, j), word[k] \in DOMAIN nodes[n].next
      PROVE  nodes[n].next[word[k]] \in Found(label, word, k)
  <2>1. n \in Node /\ label[n] = SubSeq(word, 1, j)
    BY DEF Found
  <2>2. /\ nodes[n].next[word[k]] \in Node
        /\ label[nodes[n].next[word[k]]] = Append(label[n], word[k])
    BY <1>3, <2>1, ChildWord
  <2> QED BY <1>2, <2>1, <2>2 DEF Found
<1>4. ASSUME NEW m \in Found(label, word, k)
      PROVE  \E n \in Found(label, word, j) :
               word[k] \in DOMAIN nodes[n].next /\ nodes[n].next[word[k]] = m
  <2> DEFINE u == SubSeq(word, 1, j)
             b == word[k]
  <2>1. m \in Node /\ label[m] = Append(u, b) /\ u \in Seq(Byte) /\ b \in Byte
    BY <1>2 DEF Found
  <2>2. m # 0
    BY <2>1, AppendProperties, TrieFacts
  <2>3. PICK p \in Node : \E a \in DOMAIN nodes[p].next : nodes[p].next[a] = m
    BY <2>1, <2>2 DEF Trie
  <2>6. PICK a \in DOMAIN nodes[p].next : nodes[p].next[a] = m
    BY <2>3
  <2>4. label[p] \in Seq(Byte) /\ a \in Byte /\ label[m] = Append(label[p], a)
    BY <2>6, TrieFacts
  <2>5. label[p] = u /\ a = b
    <3> DEFINE v == label[p]
    <3>1. v \in Seq(Byte) /\ a \in Byte /\ Append(v, a) = Append(u, b)
      BY <2>1, <2>4
    <3> HIDE DEF u, v, b
    <3>2. v = u /\ a = b
      BY <2>1, <3>1, AppendedWords
    <3> QED BY <3>2 DEF v
  <2> QED BY <2>5, <2>6 DEF Found
<1> HIDE DEF Found
<1> QED BY <1>1, <1>3, <1>4

\* The loop of add is where the trie has the word's beginnings.
Walk(ns, word, go) ==
  go = [i \in 0..Len(word) |->
          IF i = 0 THEN {0}
          ELSE {ns[n].next[word[i]] : n \in {n \in go[i - 1] : word[i] \in DOMAIN ns[n].next}}]

LEMMA PathIsFound ==
  ASSUME NEW label, Trie(label), NEW word \in Seq(Byte), NEW k \in 0..Len(word)
  PROVE  Path(nodes, word)[k] = Found(label, word, k)
<1> DEFINE go == CHOOSE go : Walk(nodes, word, go)
           found == [i \in 0..Len(word) |-> Found(label, word, i)]
           wrong == {i \in 0..Len(word) : go[i] # found[i]}
<1>1. Len(word) \in Nat
  BY LenProperties
<1>2. Found(label, word, 0) = {0}
  <2>1. SubSeq(word, 1, 0) = <<>>
    BY Beginnings
  <2>2. 0 \in Node /\ label[0] = <<>> /\ \A n \in Node \ {0} : label[n] # <<>>
    BY TrieFacts
  <2> QED BY <2>1, <2>2 DEF Found
<1>3. Walk(nodes, word, found)
  <2>1. ASSUME NEW i \in 0..Len(word), i # 0
        PROVE  found[i] = {nodes[n].next[word[i]] :
                             n \in {n \in found[i - 1] : word[i] \in DOMAIN nodes[n].next}}
    <3>1. i \in 1..Len(word) /\ i - 1 \in 0..Len(word)
      BY <1>1, <2>1
    <3>2. found[i] = Found(label, word, i) /\ found[i - 1] = Found(label, word, i - 1)
      BY <3>1
    <3> HIDE DEF found
    <3> QED BY <3>1, <3>2, FoundGrows
  <2>2. \A i \in 0..Len(word) : i = 0 => found[i] = {0}
    BY <1>2
  <2>3. found = [i \in 0..Len(word) |-> found[i]]
    OBVIOUS
  <2> HIDE DEF found
  <2> QED BY <2>1, <2>2, <2>3 DEF Walk
<1>4. Walk(nodes, word, go)
  <2>1. \E f : Walk(nodes, word, f)
    BY <1>3
  <2> QED BY <2>1
<1> HIDE DEF go, found
<1>5. /\ \A i \in 0..Len(word) : i = 0 => go[i] = found[i]
      /\ \A i \in 0..Len(word) : i # 0 /\ go[i - 1] = found[i - 1] => go[i] = found[i]
  <2>1. \A i \in 0..Len(word) :
          go[i] = IF i = 0 THEN {0}
                  ELSE {nodes[n].next[word[i]] :
                          n \in {n \in go[i - 1] : word[i] \in DOMAIN nodes[n].next}}
    BY <1>4 DEF Walk
  <2>2. \A i \in 0..Len(word) :
          found[i] = IF i = 0 THEN {0}
                     ELSE {nodes[n].next[word[i]] :
                             n \in {n \in found[i - 1] : word[i] \in DOMAIN nodes[n].next}}
    BY <1>3 DEF Walk
  <2> QED BY <2>1, <2>2
<1>6. wrong = {}
  <2> SUFFICES ASSUME wrong # {} PROVE FALSE
    OBVIOUS
  <2>1. wrong \in SUBSET Nat
    BY <1>1
  <2>2. PICK i \in wrong : \A j \in wrong : i <= j
    BY <2>1, LeastNumber
  <2>3. i \in 0..Len(word) /\ go[i] # found[i]
    BY <2>2
  <2>4. i # 0 /\ i - 1 \in 0..Len(word)
    BY <1>1, <1>5, <2>3
  <2>5. i - 1 \notin wrong
    <3>1. ~(i <= i - 1)
      BY <1>1, <2>3
    <3> QED BY <2>2, <3>1
  <2> QED BY <1>5, <2>3, <2>4, <2>5
<1>7. go[k] = found[k]
  BY <1>6
<1>8. Path(nodes, word) = go
  BY DEF Path, Walk, go
<1> QED BY <1>7, <1>8 DEF found

\* The stem is the node of the longest beginning that the trie has.
LEMMA StemIsLast ==
  ASSUME NEW label, Trie(label), NEW word \in Seq(Byte)
  PROVE  \E size \in Nat \ {0} : \E known \in 0..Len(word) : \E stem \in 0..(size - 1) :
           /\ nodes \in [0..(size - 1) -> NodeType] /\ size = Cardinality(DOMAIN nodes)
           /\ known = Cardinality({i \in 1..Len(word) : Path(nodes, word)[i] # {}})
           /\ stem = CHOOSE n \in Path(nodes, word)[known] : TRUE
           /\ label[stem] = SubSeq(word, 1, known)
           /\ \A k \in 0..Len(word) : Found(label, word, k) # {} <=> k <= known
<1> DEFINE found(k) == Found(label, word, k)
           miss == {i \in 0..Len(word) : found(i) = {}}
<1>1. PICK size \in Nat \ {0} : nodes \in [0..(size - 1) -> NodeType]
  BY DEF Trie
<1>2. Node = 0..(size - 1) /\ size = Cardinality(DOMAIN nodes)
  <2>1. DOMAIN nodes = 0..(size - 1)
    BY <1>1
  <2>2. Cardinality(0..(size - 1)) = IF 0 > size - 1 THEN 0 ELSE size - 1 - 0 + 1
    BY FS_Interval
  <2> QED BY <2>1, <2>2 DEF Node
<1>3. PICK len \in Nat : len = Len(word)
  BY LenProperties
<1>4. 0 \in found(0)
  BY Beginnings, TrieFacts DEF Found
<1>5. ASSUME NEW i \in 1..len, found(i) # {} PROVE found(i - 1) # {}
  <2>1. found(i) = {nodes[n].next[word[i]] :
                      n \in {n \in found(i - 1) : word[i] \in DOMAIN nodes[n].next}}
    BY <1>3, FoundGrows
  <2> HIDE DEF found
  <2> QED BY <1>5, <2>1
<1> HIDE DEF found
<1>6. \E known \in 0..len : \A k \in 0..len : found(k) # {} <=> k <= known
  <2>1. CASE miss = {}
    <3>1. \A k \in 0..len : found(k) # {} <=> k <= len
      BY <1>3, <2>1
    <3>2. len \in 0..len
      OBVIOUS
    <3> QED BY <3>1, <3>2
  <2>2. CASE miss # {}
    <3>1. miss \in SUBSET Nat
      BY <1>3
    <3>2. PICK lo \in miss : \A j \in miss : lo <= j
      BY <2>2, <3>1, LeastNumber
    <3>3. lo \in 1..len /\ found(lo) = {} /\ lo - 1 \in 0..len
      BY <1>3, <1>4, <3>2
    <3>4. \A k \in 0..len : k <= lo - 1 => found(k) # {}
      BY <1>3, <3>2, <3>3
    <3> DEFINE late == {k \in 0..len : lo < k /\ found(k) # {}}
    <3>5. late = {}
      <4> SUFFICES ASSUME late # {} PROVE FALSE
        OBVIOUS
      <4>1. late \in SUBSET Nat
        OBVIOUS
      <4>2. PICK k \in late : \A j \in late : k <= j
        BY <4>1, LeastNumber
      <4>3. k \in 1..len /\ lo < k /\ found(k) # {} /\ k - 1 \in 0..len /\ lo <= k - 1
        BY <3>3, <4>2
      <4>4. found(k - 1) # {}
        BY <1>5, <4>3
      <4>5. k - 1 # lo
        BY <3>3, <4>4
      <4>6. k - 1 \in late
        BY <3>3, <4>3, <4>4, <4>5
      <4>7. k <= k - 1
        BY <4>2, <4>6
      <4> QED BY <4>3, <4>7
    <3>6. \A k \in 0..len : found(k) # {} <=> k <= lo - 1
      BY <3>3, <3>4, <3>5
    <3>7. lo - 1 \in 0..len
      BY <3>3
    <3> QED BY <3>6, <3>7
  <2> QED BY <2>1, <2>2
<1>7. PICK known \in 0..len : \A k \in 0..len : found(k) # {} <=> k <= known
  BY <1>6
<1>8. known = Cardinality({i \in 1..Len(word) : Path(nodes, word)[i] # {}})
  <2>1. \A i \in 1..len : i \in 0..Len(word) /\ Path(nodes, word)[i] = found(i)
    <3>1. \A i \in 1..len : i \in 0..Len(word)
      BY <1>3
    <3> QED BY <3>1, PathIsFound DEF found
  <2>2. {i \in 1..Len(word) : Path(nodes, word)[i] # {}} = 1..known
    <3>1. \A i \in 1..len : i \in 0..len
      OBVIOUS
    <3>2. \A i \in 1..len : Path(nodes, word)[i] # {} <=> i <= known
      BY <1>7, <2>1, <3>1
    <3>3. \A i : i \in 1..known <=> i \in 1..len /\ i <= known
      OBVIOUS
    <3> QED BY <1>3, <3>2, <3>3
  <2>3. Cardinality(1..known) = IF 1 > known THEN 0 ELSE known - 1 + 1
    BY FS_Interval
  <2>4. Cardinality(1..known) = known
    BY <2>3
  <2> QED BY <2>2, <2>4
<1> DEFINE stem == CHOOSE n \in Path(nodes, word)[known] : TRUE
<1>9. stem \in found(known)
  <2>1. found(known) # {}
    BY <1>7
  <2>2. Path(nodes, word)[known] = found(known)
    BY <1>3, PathIsFound DEF found
  <2> QED BY <2>1, <2>2
<1>10. stem \in 0..(size - 1) /\ label[stem] = SubSeq(word, 1, known)
  BY <1>2, <1>9 DEF found, Found
<1>11. \A k \in 0..Len(word) : Found(label, word, k) # {} <=> k <= known
  BY <1>3, <1>7 DEF found
<1> HIDE DEF stem
<1>12. stem = CHOOSE n \in Path(nodes, word)[known] : TRUE
  BY DEF stem
<1> QED BY <1>1, <1>2, <1>3, <1>8, <1>10, <1>11, <1>12

\* What add makes of the trie: size nodes were there, known bytes of the word
\* were found, and the rest hangs from the stem, node after node up to top.
Stub(size, known, n) == IF n < size THEN nodes[n] ELSE NewNode(known + (n - size) + 1)
Reached(size, known, stem, n, k) ==
  IF n < size THEN n = stem /\ k = known ELSE k = known + (n - size) + 1
Growth(word, size, known, stem, n) ==
  {word[k + 1] : k \in {k \in 0..(Len(word) - 1) : Reached(size, known, stem, n, k)}}
Grafted(word, rule, size, known, stem) ==
  [n \in 0..(size + Len(word) - known - 1) |->
     [next |-> [b \in DOMAIN Stub(size, known, n).next \cup Growth(word, size, known, stem, n) |->
                  IF b \notin Growth(word, size, known, stem, n) THEN Stub(size, known, n).next[b]
                  ELSE IF n < size THEN size ELSE n + 1],
      fail |-> Stub(size, known, n).fail,
      depth |-> Stub(size, known, n).depth,
      out |-> Stub(size, known, n).out \cup
              (IF Reached(size, known, stem, n, Len(word))
                 THEN {[rule |-> rule, length |-> Len(word)]} ELSE {})]]

LEMMA AddWordGrafts ==
  ASSUME NEW word, NEW rule, NEW size, NEW known, NEW stem,
         size = Cardinality(DOMAIN nodes),
         known = Cardinality({i \in 1..Len(word) : Path(nodes, word)[i] # {}}),
         stem = CHOOSE n \in Path(nodes, word)[known] : TRUE
  PROVE  AddWord(nodes, word, rule) = Grafted(word, rule, size, known, stem)
<1> DEFINE pick(k) == CHOOSE n \in Path(nodes, word)[k] : TRUE
           first == Cardinality({i \in 1..Len(word) : Path(nodes, word)[i] # {}})
<1>1. AddWord(nodes, word, rule) = Grafted(word, rule, Cardinality(DOMAIN nodes), first, pick(first))
  BY DEF AddWord, Grafted, Stub, Reached, Growth
<1>2. stem = pick(known) /\ known = first
  OBVIOUS
<1> HIDE DEF pick, first
<1> QED BY <1>1, <1>2

GraftedAs(ns, word, rule, len, size, known, stem, top) ==
  /\ ns = [n \in 0..top |-> [next |-> ns[n].next, fail |-> ns[n].fail,
                             depth |-> ns[n].depth, out |-> ns[n].out]]
  /\ \A n \in 0..top : ns[n].next = [b \in DOMAIN ns[n].next |-> ns[n].next[b]]
  /\ \A n \in 0..(size - 1) :
       /\ ns[n].fail = nodes[n].fail /\ ns[n].depth = nodes[n].depth
       /\ ns[n].out = nodes[n].out \cup
            (IF n = stem /\ known = len THEN {[rule |-> rule, length |-> len]} ELSE {})
       /\ DOMAIN ns[n].next = DOMAIN nodes[n].next \cup
            (IF n = stem /\ known < len THEN {word[known + 1]} ELSE {})
       /\ \A b \in DOMAIN ns[n].next :
            ns[n].next[b] = IF n = stem /\ known < len /\ b = word[known + 1] THEN size
                            ELSE nodes[n].next[b]
  /\ \A n \in size..top :
       /\ ns[n].fail = 0 /\ ns[n].depth = known + (n - size) + 1
       /\ ns[n].out = IF n = top THEN {[rule |-> rule, length |-> len]} ELSE {}
       /\ DOMAIN ns[n].next = IF n = top THEN {} ELSE {word[known + (n - size) + 2]}
       /\ \A b \in DOMAIN ns[n].next : ns[n].next[b] = n + 1

LEMMA GraftedNodes ==
  ASSUME NEW word \in Seq(Byte), NEW rule \in Nat, NEW len \in Nat, len = Len(word),
         NEW size \in Nat \ {0}, NEW known \in 0..len, NEW stem \in 0..(size - 1),
         NEW top \in Nat, top = size + len - known - 1,
         NEW ns, ns = Grafted(word, rule, size, known, stem)
  PROVE  GraftedAs(ns, word, rule, len, size, known, stem, top)
<1> DEFINE old(n) == Stub(size, known, n)
           ends(n, k) == Reached(size, known, stem, n, k)
           new(n) == Growth(word, size, known, stem, n)
           link(n) == [b \in DOMAIN old(n).next \cup new(n) |->
                         IF b \notin new(n) THEN old(n).next[b] ELSE IF n < size THEN size ELSE n + 1]
           outs(n) == old(n).out \cup
                        (IF ends(n, len) THEN {[rule |-> rule, length |-> len]} ELSE {})
<1>4. ns = [n \in 0..top |-> [next |-> link(n), fail |-> old(n).fail, depth |-> old(n).depth,
                              out |-> outs(n)]]
  BY DEF Grafted
<1> HIDE DEF old, ends, new, link, outs
<1>5. /\ DOMAIN ns = 0..top
      /\ \A n \in 0..top : /\ ns[n].next = link(n) /\ ns[n].fail = old(n).fail
                           /\ ns[n].depth = old(n).depth /\ ns[n].out = outs(n)
  BY <1>4
<1>6. \A n : /\ DOMAIN link(n) = DOMAIN old(n).next \cup new(n)
             /\ link(n) = [b \in DOMAIN link(n) |-> link(n)[b]]
             /\ \A b \in DOMAIN link(n) :
                  link(n)[b] = IF b \notin new(n) THEN old(n).next[b]
                               ELSE IF n < size THEN size ELSE n + 1
  BY DEF link
<1>7. ASSUME NEW n \in 0..(size - 1)
      PROVE  /\ n \in 0..top /\ n < size /\ old(n) = nodes[n]
             /\ new(n) = IF n = stem /\ known < len THEN {word[known + 1]} ELSE {}
             /\ ends(n, len) <=> n = stem /\ known = len
  <2>1. n \in 0..top /\ n < size /\ old(n) = nodes[n]
    BY DEF old, Stub
  <2>2. \A k \in 0..(len - 1) : ends(n, k) <=> n = stem /\ k = known
    BY <2>1 DEF ends, Reached
  <2>3. CASE n = stem /\ known < len
    <3>1. known \in 0..(len - 1) /\ \A k \in 0..(len - 1) : ends(n, k) <=> k = known
      BY <2>2, <2>3
    <3>2. new(n) = {word[known + 1]}
      BY <3>1 DEF new, Growth, ends
    <3> QED BY <2>1, <2>3, <3>2 DEF ends, Reached
  <2>4. CASE ~(n = stem /\ known < len)
    <3>1. \A k \in 0..(len - 1) : ~ends(n, k)
      BY <2>2, <2>4
    <3>2. new(n) = {}
      BY <3>1 DEF new, Growth, ends
    <3> QED BY <2>1, <2>4, <3>2 DEF ends, Reached
  <2> QED BY <2>3, <2>4
<1>8. ASSUME NEW n \in size..top
      PROVE  /\ n \in 0..top /\ ~(n < size) /\ old(n) = NewNode(known + (n - size) + 1)
             /\ new(n) = IF n = top THEN {} ELSE {word[known + (n - size) + 2]}
             /\ ends(n, len) <=> n = top
  <2>1. n \in 0..top /\ ~(n < size) /\ old(n) = NewNode(known + (n - size) + 1)
    BY DEF old, Stub
  <2>2. ends(n, len) <=> n = top
    BY <2>1 DEF ends, Reached
  <2>3. \A k \in 0..(len - 1) : ends(n, k) <=> k = known + (n - size) + 1
    BY <2>1 DEF ends, Reached
  <2>4. CASE n = top
    <3>1. \A k \in 0..(len - 1) : ~ends(n, k)
      BY <2>3, <2>4
    <3> QED BY <2>1, <2>2, <2>4, <3>1 DEF new, Growth, ends
  <2>5. CASE n # top
    <3>1. PICK j \in 0..(len - 1) : j = known + (n - size) + 1 /\ j + 1 = known + (n - size) + 2
      BY <2>5
    <3>2. \A k \in 0..(len - 1) : ends(n, k) <=> k = j
      BY <2>3, <3>1
    <3>3. new(n) = {word[j + 1]}
      BY <3>2 DEF new, Growth, ends
    <3> QED BY <2>1, <2>2, <2>5, <3>1, <3>3
  <2> QED BY <2>4, <2>5
<1>9. ns = [n \in 0..top |-> [next |-> ns[n].next, fail |-> ns[n].fail,
                              depth |-> ns[n].depth, out |-> ns[n].out]]
  BY <1>4
<1>10. \A n \in 0..top : ns[n].next = [b \in DOMAIN ns[n].next |-> ns[n].next[b]]
  BY <1>5, <1>6
<1>11. ASSUME NEW n \in 0..(size - 1)
       PROVE  /\ ns[n].fail = nodes[n].fail /\ ns[n].depth = nodes[n].depth
              /\ ns[n].out = nodes[n].out \cup
                   (IF n = stem /\ known = len THEN {[rule |-> rule, length |-> len]} ELSE {})
              /\ DOMAIN ns[n].next = DOMAIN nodes[n].next \cup
                   (IF n = stem /\ known < len THEN {word[known + 1]} ELSE {})
              /\ \A b \in DOMAIN ns[n].next :
                   ns[n].next[b] = IF n = stem /\ known < len /\ b = word[known + 1] THEN size
                                   ELSE nodes[n].next[b]
  <2>1. /\ n \in 0..top /\ n < size /\ old(n) = nodes[n]
        /\ new(n) = IF n = stem /\ known < len THEN {word[known + 1]} ELSE {}
        /\ ends(n, len) <=> n = stem /\ known = len
    BY <1>7
  <2>2. ns[n].next = link(n) /\ ns[n].fail = old(n).fail
        /\ ns[n].depth = old(n).depth /\ ns[n].out = outs(n)
    BY <1>5, <2>1
  <2>3. ns[n].out = nodes[n].out \cup
          (IF n = stem /\ known = len THEN {[rule |-> rule, length |-> len]} ELSE {})
    BY <2>1, <2>2 DEF outs
  <2>4. DOMAIN link(n) = DOMAIN old(n).next \cup new(n)
    BY <1>6
  <2>5. \A b \in DOMAIN link(n) :
          link(n)[b] = IF b \notin new(n) THEN old(n).next[b] ELSE IF n < size THEN size ELSE n + 1
    BY <1>6
  <2>6. \A b : b \in new(n) <=> n = stem /\ known < len /\ b = word[known + 1]
    BY <2>1
  <2>7. \A b \in DOMAIN link(n) :
          link(n)[b] = IF n = stem /\ known < len /\ b = word[known + 1] THEN size
                       ELSE nodes[n].next[b]
    BY <2>1, <2>5, <2>6
  <2> QED BY <2>1, <2>2, <2>3, <2>4, <2>7
<1>12. ASSUME NEW n \in size..top
       PROVE  /\ ns[n].fail = 0 /\ ns[n].depth = known + (n - size) + 1
              /\ ns[n].out = IF n = top THEN {[rule |-> rule, length |-> len]} ELSE {}
              /\ DOMAIN ns[n].next = IF n = top THEN {} ELSE {word[known + (n - size) + 2]}
              /\ \A b \in DOMAIN ns[n].next : ns[n].next[b] = n + 1
  <2>1. /\ n \in 0..top /\ ~(n < size) /\ old(n) = NewNode(known + (n - size) + 1)
        /\ new(n) = IF n = top THEN {} ELSE {word[known + (n - size) + 2]}
        /\ ends(n, len) <=> n = top
    BY <1>8
  <2>2. ns[n].next = link(n) /\ ns[n].fail = old(n).fail
        /\ ns[n].depth = old(n).depth /\ ns[n].out = outs(n)
    BY <1>5, <2>1
  <2>3. /\ old(n).fail = 0 /\ old(n).depth = known + (n - size) + 1 /\ old(n).out = {}
        /\ DOMAIN old(n).next = {}
    BY <2>1 DEF NewNode
  <2>4. DOMAIN link(n) = new(n)
    BY <1>6, <2>3
  <2>5. \A b \in DOMAIN link(n) : link(n)[b] = n + 1
    BY <1>6, <2>1, <2>4
  <2>6. ns[n].out = IF n = top THEN {[rule |-> rule, length |-> len]} ELSE {}
    BY <2>1, <2>2, <2>3 DEF outs
  <2> QED BY <2>1, <2>2, <2>3, <2>4, <2>5, <2>6
<1> QED BY <1>9, <1>10, <1>11, <1>12 DEF GraftedAs

\* The words of the nodes once the word is in the trie.
Grown(label, word, size, known, top) ==
  [n \in 0..top |-> IF n < size THEN label[n] ELSE SubSeq(word, 1, known + (n - size) + 1)]

Growing(label, word, len, size, known, stem, top) ==
  /\ word \in Seq(Byte) /\ len \in Nat \ {0} /\ len = Len(word)
  /\ size \in Nat \ {0} /\ known \in 0..len /\ stem \in 0..(size - 1)
  /\ top \in Nat /\ top = size + len - known - 1
  /\ Node = 0..(size - 1) /\ label[stem] = SubSeq(word, 1, known)
  /\ \A k \in 0..len : Found(label, word, k) # {} <=> k <= known

GrownAs(grown, label, word, len, size, known, top) ==
  /\ \A n \in 0..(size - 1) : n \in 0..top /\ n \in Node /\ grown[n] = label[n]
  /\ \A n \in size..top :
       /\ n \in 0..top /\ known + (n - size) + 1 \in (known + 1)..len
       /\ grown[n] = SubSeq(word, 1, known + (n - size) + 1)
       /\ Len(grown[n]) = known + (n - size) + 1
  /\ \A n \in 0..top : grown[n] \in Seq(Byte) /\ (n \in 0..(size - 1) \/ n \in size..top)
  /\ \A n \in Node : \A k \in (known + 1)..len : label[n] # SubSeq(word, 1, k)
  /\ known < len => top \in size..top /\ size \in size..top /\ grown[top] = word
  /\ known = len => top = size - 1
  /\ grown[0] = <<>> /\ 0 \in 0..(size - 1)
  /\ \A m, n \in 0..top : grown[m] = grown[n] => m = n

LEMMA GrownWords ==
  ASSUME NEW label, Trie(label), NEW word, NEW len, NEW size, NEW known, NEW stem, NEW top,
         Growing(label, word, len, size, known, stem, top),
         NEW grown, grown = Grown(label, word, size, known, top)
  PROVE  GrownAs(grown, label, word, len, size, known, top)
<1>1. /\ word \in Seq(Byte) /\ len \in Nat \ {0} /\ len = Len(word)
      /\ size \in Nat \ {0} /\ known \in 0..len /\ stem \in 0..(size - 1)
      /\ top \in Nat /\ top = size + len - known - 1 /\ Node = 0..(size - 1)
  BY DEF Growing
<1>2. ASSUME NEW n \in 0..(size - 1) PROVE n \in 0..top /\ n \in Node /\ grown[n] = label[n]
  <2>1. n \in 0..top /\ n < size
    BY <1>1
  <2> QED BY <1>1, <2>1 DEF Grown
<1>3. ASSUME NEW n \in size..top
      PROVE  /\ n \in 0..top /\ known + (n - size) + 1 \in (known + 1)..len
             /\ grown[n] = SubSeq(word, 1, known + (n - size) + 1)
             /\ Len(grown[n]) = known + (n - size) + 1 /\ grown[n] \in Seq(Byte)
  <2>1. n \in 0..top /\ ~(n < size) /\ known + (n - size) + 1 \in (known + 1)..len
    BY <1>1
  <2>2. grown[n] = SubSeq(word, 1, known + (n - size) + 1)
    BY <2>1 DEF Grown
  <2>3. PICK k \in 0..Len(word) : k = known + (n - size) + 1
    BY <1>1, <2>1
  <2>4. SubSeq(word, 1, k) \in Seq(Byte) /\ Len(SubSeq(word, 1, k)) = k
    BY <1>1, Beginnings
  <2> QED BY <2>1, <2>2, <2>3, <2>4
<1>4. ASSUME NEW n \in 0..top PROVE grown[n] \in Seq(Byte) /\ (n \in 0..(size - 1) \/ n \in size..top)
  <2>1. n \in 0..(size - 1) \/ n \in size..top
    BY <1>1
  <2>2. CASE n \in 0..(size - 1)
    BY <1>2, <2>2, TrieFacts
  <2>3. CASE n \in size..top
    BY <1>3, <2>3
  <2> QED BY <2>1, <2>2, <2>3
<1>5. ASSUME NEW n \in Node, NEW k \in (known + 1)..len PROVE label[n] # SubSeq(word, 1, k)
  <2>1. k \in 0..len /\ ~(k <= known)
    BY <1>1
  <2>2. Found(label, word, k) = {}
    BY <2>1 DEF Growing
  <2> QED BY <2>2 DEF Found
<1>6. ASSUME known < len PROVE top \in size..top /\ size \in size..top /\ grown[top] = word
  <2>1. top \in size..top /\ size \in size..top /\ known + (top - size) + 1 = len
    BY <1>1, <1>6
  <2>2. grown[top] = SubSeq(word, 1, len)
    BY <1>3, <2>1
  <2> QED BY <1>1, <2>1, <2>2, Beginnings
<1>7. known = len => top = size - 1
  BY <1>1
<1>8. grown[0] = <<>> /\ 0 \in 0..(size - 1)
  <2>1. 0 \in 0..(size - 1)
    BY <1>1
  <2> QED BY <1>2, <2>1, TrieFacts
<1>9. ASSUME NEW m \in 0..(size - 1), NEW n \in size..top PROVE grown[m] # grown[n]
  BY <1>2, <1>3, <1>5
<1>10. ASSUME NEW m \in 0..top, NEW n \in 0..top, grown[m] = grown[n] PROVE m = n
  <2>1. CASE m \in 0..(size - 1) /\ n \in 0..(size - 1)
    BY <1>2, <1>10, <2>1 DEF Trie
  <2>2. CASE m \in size..top /\ n \in size..top
    <3>1. known + (m - size) + 1 = known + (n - size) + 1
      BY <1>3, <1>10, <2>2
    <3> QED BY <1>1, <3>1
  <2> QED BY <1>4, <1>9, <1>10, <2>1, <2>2
<1> QED BY <1>2, <1>3, <1>4, <1>5, <1>6, <1>7, <1>8, <1>10 DEF GrownAs

\* What was a trie is one with the word.
LEMMA AddGrowsTrie ==
  ASSUME NEW label, Trie(label), NEW word, NEW len, NEW size, NEW known, NEW stem, NEW top,
         Growing(label, word, len, size, known, stem, top), NEW rule \in Nat,
         nodes' = Grafted(word, rule, size, known, stem)
  PROVE  Trie(Grown(label, word, size, known, top))'
<1>1. PICK grown : grown = Grown(label, word, size, known, top)
  OBVIOUS
<1>2. PICK ns : ns = nodes'
  OBVIOUS
<1>3. /\ word \in Seq(Byte) /\ len \in Nat \ {0} /\ len = Len(word)
      /\ size \in Nat \ {0} /\ known \in 0..len /\ stem \in 0..(size - 1)
      /\ top \in Nat /\ top = size + len - known - 1 /\ Node = 0..(size - 1)
      /\ label[stem] = SubSeq(word, 1, known)
  BY DEF Growing
<1>4. /\ \A n \in 0..(size - 1) : n \in 0..top /\ n \in Node /\ grown[n] = label[n]
      /\ \A n \in size..top :
           /\ n \in 0..top /\ known + (n - size) + 1 \in (known + 1)..len
           /\ grown[n] = SubSeq(word, 1, known + (n - size) + 1)
           /\ Len(grown[n]) = known + (n - size) + 1
      /\ \A n \in 0..top : grown[n] \in Seq(Byte) /\ (n \in 0..(size - 1) \/ n \in size..top)
      /\ \A n \in Node : \A k \in (known + 1)..len : label[n] # SubSeq(word, 1, k)
      /\ known < len => top \in size..top /\ size \in size..top /\ grown[top] = word
      /\ known = len => top = size - 1
      /\ grown[0] = <<>> /\ 0 \in 0..(size - 1)
      /\ \A m, n \in 0..top : grown[m] = grown[n] => m = n
  BY <1>1, GrownWords DEF GrownAs
<1>5. /\ ns = [n \in 0..top |-> [next |-> ns[n].next, fail |-> ns[n].fail,
                                 depth |-> ns[n].depth, out |-> ns[n].out]]
      /\ \A n \in 0..top : ns[n].next = [b \in DOMAIN ns[n].next |-> ns[n].next[b]]
      /\ \A n \in 0..(size - 1) :
           /\ ns[n].fail = nodes[n].fail /\ ns[n].depth = nodes[n].depth
           /\ ns[n].out = nodes[n].out \cup
                (IF n = stem /\ known = len THEN {[rule |-> rule, length |-> len]} ELSE {})
           /\ DOMAIN ns[n].next = DOMAIN nodes[n].next \cup
                (IF n = stem /\ known < len THEN {word[known + 1]} ELSE {})
           /\ \A b \in DOMAIN ns[n].next :
                ns[n].next[b] = IF n = stem /\ known < len /\ b = word[known + 1] THEN size
                                ELSE nodes[n].next[b]
      /\ \A n \in size..top :
           /\ ns[n].fail = 0 /\ ns[n].depth = known + (n - size) + 1
           /\ ns[n].out = IF n = top THEN {[rule |-> rule, length |-> len]} ELSE {}
           /\ DOMAIN ns[n].next = IF n = top THEN {} ELSE {word[known + (n - size) + 2]}
           /\ \A b \in DOMAIN ns[n].next : ns[n].next[b] = n + 1
  <2>1. /\ len \in Nat /\ len = Len(word) /\ word \in Seq(Byte) /\ size \in Nat \ {0}
        /\ known \in 0..len /\ stem \in 0..(size - 1) /\ top \in Nat
        /\ top = size + len - known - 1
    BY <1>3
  <2>2. ns = Grafted(word, rule, size, known, stem)
    BY <1>2
  <2>3. GraftedAs(ns, word, rule, len, size, known, stem, top)
    BY <2>1, <2>2, GraftedNodes
  <2> QED BY <2>3 DEF GraftedAs
<1>6. \A k \in 0..(len - 1) :
        word[k + 1] \in Byte /\ SubSeq(word, 1, k + 1) = Append(SubSeq(word, 1, k), word[k + 1])
  BY <1>3, Beginnings
<1>7. \A k \in 1..len : \A n \in Node : known < k => label[n] # SubSeq(word, 1, k)
  <2>1. \A k \in 1..len : known < k => k \in (known + 1)..len
    BY <1>3
  <2> QED BY <1>4, <2>1
\* The byte that a new child stands for.
<1>8. ASSUME known < len
      PROVE  /\ word[known + 1] \in Byte /\ word[known + 1] \notin DOMAIN nodes[stem].next
             /\ grown[size] = Append(label[stem], word[known + 1]) /\ size \in 0..top
  <2>1. PICK k \in 0..(len - 1) : k = known
    BY <1>3, <1>8
  <2>2. word[k + 1] \in Byte /\ SubSeq(word, 1, k + 1) = Append(SubSeq(word, 1, k), word[k + 1])
    BY <1>6
  <2>3. ASSUME word[k + 1] \in DOMAIN nodes[stem].next PROVE FALSE
    <3>1. stem \in Node
      BY <1>3
    <3>2. /\ nodes[stem].next[word[k + 1]] \in Node
          /\ label[nodes[stem].next[word[k + 1]]] = Append(label[stem], word[k + 1])
      BY <2>3, <3>1, TrieFacts
    <3>3. label[nodes[stem].next[word[k + 1]]] = SubSeq(word, 1, k + 1)
      BY <1>3, <2>1, <2>2, <3>2
    <3>4. k + 1 \in 1..len /\ known < k + 1
      BY <1>3, <2>1
    <3> QED BY <1>7, <3>2, <3>3, <3>4
  <2>4. size \in size..top
    BY <1>4, <1>8
  <2>5. grown[size] = SubSeq(word, 1, known + (size - size) + 1) /\ size \in 0..top
    BY <1>4, <2>4
  <2>6. known + (size - size) + 1 = k + 1
    BY <1>3, <2>1
  <2>7. grown[size] = SubSeq(word, 1, k + 1)
    BY <2>5, <2>6
  <2> QED BY <1>3, <2>1, <2>2, <2>3, <2>5, <2>7
<1>9. ASSUME NEW n \in size..top, n # top
      PROVE  /\ word[known + (n - size) + 2] \in Byte /\ n + 1 \in 0..top
             /\ grown[n + 1] = Append(grown[n], word[known + (n - size) + 2])
  <2>1. PICK k \in 0..(len - 1) : k = known + (n - size) + 1
    <3>1. n \in Nat /\ size <= n /\ n < top
      <4>1. size \in Nat /\ top \in Nat
        BY <1>3
      <4> QED BY <1>9, <4>1
    <3>2. known \in Nat /\ known + (n - size) + 1 < len
      BY <1>3, <3>1
    <3>3. known + (n - size) + 1 \in 0..(len - 1)
      BY <1>3, <3>1, <3>2
    <3> QED BY <3>3
  <2>2. k + 1 = known + (n - size) + 2 /\ n + 1 \in size..top
        /\ k + 1 = known + (n + 1 - size) + 1
    BY <1>3, <1>9, <2>1
  <2>3. grown[n] = SubSeq(word, 1, k)
    BY <1>4, <2>1
  <2>4. PICK m \in size..top : m = n + 1
    BY <2>2
  <2>5. grown[m] = SubSeq(word, 1, known + (m - size) + 1) /\ m \in 0..top
    BY <1>4
  <2>6. word[k + 1] \in Byte /\ SubSeq(word, 1, k + 1) = Append(SubSeq(word, 1, k), word[k + 1])
    BY <1>6
  <2>8. known + (m - size) + 1 = k + 1
    BY <1>3, <2>1, <2>4
  <2>7. grown[n + 1] = SubSeq(word, 1, k + 1) /\ n + 1 \in 0..top
    BY <2>4, <2>5, <2>8
  <2> QED BY <2>2, <2>3, <2>6, <2>7
<1>10. ASSUME NEW n \in 0..top, NEW b \in DOMAIN ns[n].next
       PROVE  /\ b \in Byte /\ ns[n].next[b] \in 0..top
              /\ grown[ns[n].next[b]] = Append(grown[n], b)
  <2>1. CASE n \in 0..(size - 1) /\ ~(n = stem /\ known < len /\ b = word[known + 1])
    <3>1. n \in Node /\ grown[n] = label[n]
      BY <1>4, <2>1
    <3>0. DOMAIN ns[n].next = DOMAIN nodes[n].next \cup
            (IF n = stem /\ known < len THEN {word[known + 1]} ELSE {})
      BY <1>5, <2>1
    <3>2. b \in DOMAIN nodes[n].next
      BY <2>1, <3>0
    <3>3. ns[n].next[b] = nodes[n].next[b]
      BY <1>5, <2>1
    <3>4. /\ b \in Byte /\ nodes[n].next[b] \in Node
          /\ label[nodes[n].next[b]] = Append(label[n], b)
      BY <3>1, <3>2, TrieFacts
    <3>5. nodes[n].next[b] \in 0..(size - 1)
      BY <1>3, <3>4
    <3>6. nodes[n].next[b] \in 0..top /\ grown[nodes[n].next[b]] = label[nodes[n].next[b]]
      BY <1>4, <3>5
    <3> QED BY <3>1, <3>3, <3>4, <3>6
  <2>2. CASE n = stem /\ known < len /\ b = word[known + 1]
    <3>1. ns[n].next[b] = size
      BY <1>3, <1>5, <2>2
    <3>2. grown[n] = label[stem]
      BY <1>3, <1>4, <2>2
    <3> QED BY <1>8, <2>2, <3>1, <3>2
  <2>3. CASE n \in size..top
    <3>1. /\ DOMAIN ns[n].next = IF n = top THEN {} ELSE {word[known + (n - size) + 2]}
          /\ ns[n].next[b] = n + 1
      BY <1>5, <2>3
    <3>2. n # top /\ b = word[known + (n - size) + 2]
      BY <3>1
    <3> QED BY <1>9, <2>3, <3>1, <3>2
  <2> QED BY <1>4, <2>1, <2>2, <2>3
<1>11. ASSUME NEW m \in 0..top, m # 0
       PROVE  \E n \in 0..top : \E b \in DOMAIN ns[n].next : ns[n].next[b] = m
  <2>1. CASE m \in 0..(size - 1)
    <3>1. m \in Node \ {0}
      BY <1>4, <1>11, <2>1
    <3>2. PICK n \in Node : \E b \in DOMAIN nodes[n].next : nodes[n].next[b] = m
      BY <3>1 DEF Trie
    <3>3. PICK b \in DOMAIN nodes[n].next : nodes[n].next[b] = m
      BY <3>2
    <3>4. n \in 0..(size - 1) /\ n \in 0..top
      BY <1>3, <1>4
    <3>5. ~(n = stem /\ known < len /\ b = word[known + 1])
      BY <1>8, <3>3
    <3>6. b \in DOMAIN ns[n].next
      <4>1. \A k \in 0..(size - 1) : DOMAIN ns[k].next = DOMAIN nodes[k].next \cup
              (IF k = stem /\ known < len THEN {word[known + 1]} ELSE {})
        BY <1>5
      <4>2. DOMAIN ns[n].next = DOMAIN nodes[n].next \cup
              (IF n = stem /\ known < len THEN {word[known + 1]} ELSE {})
        BY <3>4, <4>1
      <4> QED BY <3>3, <4>2
    <3>7. ns[n].next[b] = nodes[n].next[b]
      BY <1>5, <3>4, <3>5, <3>6
    <3> QED BY <3>3, <3>4, <3>6, <3>7
  <2>2. CASE m = size /\ m \in size..top
    <3>1. known < len
      BY <1>3, <1>4, <2>2
    <3>4. DOMAIN ns[stem].next = DOMAIN nodes[stem].next \cup
            (IF stem = stem /\ known < len THEN {word[known + 1]} ELSE {})
      BY <1>3, <1>5
    <3>2. stem \in 0..top /\ word[known + 1] \in DOMAIN ns[stem].next
      BY <1>3, <1>4, <3>1, <3>4
    <3>3. ns[stem].next[word[known + 1]] = size
      BY <1>3, <1>5, <3>1, <3>2
    <3> QED BY <2>2, <3>2, <3>3
  <2>3. CASE m # size /\ m \in size..top
    <3>1. PICK n \in size..top : n + 1 = m /\ n # top
      BY <1>3, <2>3
    <3>4. DOMAIN ns[n].next = IF n = top THEN {} ELSE {word[known + (n - size) + 2]}
      BY <1>5
    <3>2. n \in 0..top /\ word[known + (n - size) + 2] \in DOMAIN ns[n].next
      BY <1>4, <3>1, <3>4
    <3>3. ns[n].next[word[known + (n - size) + 2]] = n + 1
      BY <1>5, <3>2
    <3> QED BY <3>1, <3>2, <3>3
  <2> QED BY <1>4, <2>1, <2>2, <2>3
<1>12. ASSUME NEW n \in 0..top PROVE ns[n].depth = Len(grown[n]) /\ ns[n].fail \in Nat
                                     /\ ns[n].out \in SUBSET [rule : Nat, length : Nat]
  <2>1. CASE n \in 0..(size - 1)
    <3>1. n \in Node /\ grown[n] = label[n]
      BY <1>4, <2>1
    <3>2. nodes[n] \in NodeType /\ nodes[n].depth = Len(label[n])
      BY <3>1, TrieFacts
    <3>3. nodes[n].fail \in Nat /\ nodes[n].out \in SUBSET [rule : Nat, length : Nat]
      BY <3>2 DEF NodeType
    <3>6. [rule |-> rule, length |-> len] \in [rule : Nat, length : Nat]
      BY <1>3
    <3>7. ns[n].out = nodes[n].out \cup
            (IF n = stem /\ known = len THEN {[rule |-> rule, length |-> len]} ELSE {})
      BY <1>5, <2>1
    <3>4. ns[n].out \in SUBSET [rule : Nat, length : Nat]
      BY <3>3, <3>6, <3>7
    <3>5. ns[n].fail = nodes[n].fail /\ ns[n].depth = nodes[n].depth
      BY <1>5, <2>1
    <3> QED BY <3>1, <3>2, <3>3, <3>4, <3>5
  <2>2. CASE n \in size..top
    <3>3. /\ ns[n].fail = 0 /\ ns[n].depth = known + (n - size) + 1
          /\ ns[n].out = IF n = top THEN {[rule |-> rule, length |-> len]} ELSE {}
      BY <1>5, <2>2
    <3>4. Len(grown[n]) = known + (n - size) + 1
      BY <1>4, <2>2
    <3>5. [rule |-> rule, length |-> len] \in [rule : Nat, length : Nat]
      BY <1>3
    <3>1. ns[n].depth = Len(grown[n]) /\ ns[n].fail \in Nat
      BY <3>3, <3>4
    <3>2. ns[n].out \in SUBSET [rule : Nat, length : Nat]
      BY <3>3, <3>5
    <3> QED BY <3>1, <3>2
  <2> QED BY <1>4, <2>1, <2>2
<1>13. ASSUME NEW n \in 0..top PROVE ns[n].next \in UNION {[bytes -> Nat] : bytes \in SUBSET Byte}
  <2>1. PICK bytes \in SUBSET Byte : bytes = DOMAIN ns[n].next
    BY <1>10
  <2>2. \A b \in bytes : ns[n].next[b] \in Nat
    BY <1>3, <1>10, <2>1
  <2>3. ns[n].next = [b \in bytes |-> ns[n].next[b]]
    BY <1>5, <2>1
  <2>4. ns[n].next \in [bytes -> Nat]
    BY <2>2, <2>3
  <2> QED BY <2>4
<1>14. ns \in [0..top -> NodeType]
  <2>1. \A n \in 0..top : [next |-> ns[n].next, fail |-> ns[n].fail, depth |-> ns[n].depth,
                           out |-> ns[n].out] \in NodeType
    <3>1. \A n \in 0..top : ns[n].depth \in Nat
      BY <1>4, <1>12, LenProperties
    <3> QED BY <1>12, <1>13, <3>1 DEF NodeType
  <2> QED BY <1>5, <2>1
<1>15. Node' = 0..top
  BY <1>2, <1>14 DEF Node
<1>16. \E s \in Nat \ {0} : nodes' \in [0..(s - 1) -> NodeType]
  <2>1. PICK s \in Nat \ {0} : s - 1 = top
    BY <1>3
  <2>2. nodes' \in [0..(s - 1) -> NodeType]
    BY <1>2, <1>14, <2>1
  <2> QED BY <2>2
<1>17. grown \in [0..top -> Seq(Byte)]
  <2>1. \A n \in 0..top : grown[n] \in Seq(Byte)
    BY <1>4
  <2> QED BY <1>1, <2>1 DEF Grown
<1>18. \A n \in Node' : nodes'[n].depth = Len(grown[n])
  BY <1>2, <1>12, <1>15
<1>19. \A n \in Node' : \A b \in DOMAIN nodes'[n].next :
         nodes'[n].next[b] \in Node' /\ grown[nodes'[n].next[b]] = Append(grown[n], b)
  BY <1>2, <1>10, <1>15
<1>20. \A m \in Node' \ {0} : \E n \in Node' : \E b \in DOMAIN nodes'[n].next :
         nodes'[n].next[b] = m
  BY <1>2, <1>11, <1>15
<1>21. \A m, n \in Node' : grown[m] = grown[n] => m = n
  BY <1>4, <1>15
<1>22. Trie(grown)'
  BY <1>4, <1>15, <1>16, <1>17, <1>18, <1>19, <1>20, <1>21 DEF Trie
<1> QED BY <1>1, <1>22

\* The keywords, once the word is one of them.
LEMMA AddedKeywords ==
  ASSUME added \in Seq(Seq(Byte)), NEW word \in Seq(Byte), added' = Append(added, word)
  PROVE  /\ added' \in Seq(Seq(Byte)) /\ Len(added) \in Nat
         /\ DOMAIN added' = DOMAIN added \cup {Len(added) + 1}
         /\ \A i \in DOMAIN added : added'[i] = added[i] /\ i # Len(added) + 1
         /\ added'[Len(added) + 1] = word
         /\ \A w : Own(w)' = Own(w) \cup
              (IF word # <<>> /\ word = w
                 THEN {[rule |-> Len(added) + 1, length |-> Len(word)]} ELSE {})
<1>1. PICK last \in Nat : last = Len(added)
  BY LenProperties
<1>2. DOMAIN added = 1..last
  BY <1>1, LenProperties
<1>3. /\ added' \in Seq(Seq(Byte)) /\ Len(added') = last + 1
      /\ \A i \in 1..last : added'[i] = added[i]
      /\ added'[last + 1] = word
  BY <1>1, AppendProperties
<1>4. DOMAIN added' = 1..(last + 1)
  BY <1>3, LenProperties
<1>5. DOMAIN added' = DOMAIN added \cup {last + 1}
  BY <1>2, <1>4
<1>6. \A i \in DOMAIN added : added'[i] = added[i] /\ i # last + 1
  BY <1>2, <1>3
<1>7. \A i \in DOMAIN added : Hit(i)' = Hit(i)
  BY <1>6 DEF Hit
<1>8. Hit(last + 1)' = [rule |-> last + 1, length |-> Len(word)]
  BY <1>3 DEF Hit
<1>9. ASSUME NEW w
      PROVE  Own(w)' = Own(w) \cup
               (IF word # <<>> /\ word = w
                  THEN {[rule |-> last + 1, length |-> Len(word)]} ELSE {})
  <2> DEFINE S == {i \in DOMAIN added : added[i] # <<>> /\ added[i] = w}
             T == {i \in DOMAIN added' : added'[i] # <<>> /\ added'[i] = w}
  <2>1. T = S \cup (IF word # <<>> /\ word = w THEN {last + 1} ELSE {})
    BY <1>3, <1>5, <1>6
  <2>2. \A i \in S : Hit(i)' = Hit(i)
    BY <1>7
  <2>3. Own(w)' = {Hit(i)' : i \in T} /\ Own(w) = {Hit(i) : i \in S}
    BY DEF Own
  <2> HIDE DEF S, T
  <2> QED BY <1>8, <2>1, <2>2, <2>3
<1> QED BY <1>1, <1>3, <1>5, <1>6, <1>9

\* The words of the grown trie are the beginnings of the keywords, the new one
\* among them.
LEMMA AddGrowsPrefixes ==
  ASSUME NEW label, Trie(label), Prefixes(label),
         NEW word, NEW len, NEW size, NEW known, NEW stem, NEW top,
         Growing(label, word, len, size, known, stem, top), added' = Append(added, word),
         Node' = 0..top
  PROVE  Prefixes(Grown(label, word, size, known, top))'
<1>1. PICK grown : grown = Grown(label, word, size, known, top)
  OBVIOUS
<1>2. /\ word \in Seq(Byte) /\ len \in Nat \ {0} /\ len = Len(word)
      /\ size \in Nat \ {0} /\ known \in 0..len
      /\ top \in Nat /\ top = size + len - known - 1 /\ Node = 0..(size - 1)
  BY DEF Growing
<1>3. GrownAs(grown, label, word, len, size, known, top)
  BY <1>1, GrownWords
<1>4. PICK new \in Nat : new = Len(added) + 1
  BY AddedKeywords, <1>2 DEF Prefixes
<1>5. /\ added' \in Seq(Seq(Byte)) /\ DOMAIN added' = DOMAIN added \cup {new}
      /\ \A i \in DOMAIN added : added'[i] = added[i]
      /\ added'[new] = word
  BY <1>2, <1>4, AddedKeywords DEF Prefixes
<1>6. ASSUME NEW n \in 0..top, n # 0
      PROVE  \E i \in DOMAIN added' : \E k \in 1..Len(added'[i]) :
               grown[n] = SubSeq(added'[i], 1, k)
  <2>1. CASE n \in 0..(size - 1)
    <3>1. n \in Node \ {0} /\ grown[n] = label[n]
      BY <1>3, <1>6, <2>1 DEF GrownAs
    <3>2. PICK i \in DOMAIN added : \E k \in 1..Len(added[i]) : label[n] = SubSeq(added[i], 1, k)
      BY <3>1 DEF Prefixes
    <3>3. i \in DOMAIN added' /\ added'[i] = added[i]
      BY <1>5
    <3> QED BY <3>1, <3>2, <3>3
  <2>2. CASE n \in size..top
    <3>1. PICK k \in (known + 1)..len : grown[n] = SubSeq(word, 1, k)
      BY <1>3, <2>2 DEF GrownAs
    <3>2. k \in 1..Len(word)
      BY <1>2
    <3> QED BY <1>5, <3>1, <3>2
  <2>3. n \in 0..(size - 1) \/ n \in size..top
    BY <1>3 DEF GrownAs
  <2> QED BY <2>1, <2>2, <2>3
<1>7. ASSUME NEW i \in DOMAIN added', NEW k \in 1..Len(added'[i])
      PROVE  \E n \in 0..top : grown[n] = SubSeq(added'[i], 1, k)
  <2>1. CASE i \in DOMAIN added
    <3>1. added'[i] = added[i]
      BY <1>5, <2>1
    <3>2. PICK n \in Node : label[n] = SubSeq(added[i], 1, k)
      BY <2>1, <3>1 DEF Prefixes
    <3>3. n \in 0..top /\ grown[n] = label[n]
      BY <1>2, <1>3 DEF GrownAs
    <3> QED BY <3>1, <3>2, <3>3
  <2>2. CASE i = new /\ k <= known
    <3>0. added'[i] = word
      BY <1>5, <2>2
    <3>1. k \in 0..len /\ added'[i] = word
      BY <1>2, <3>0
    <3>2. Found(label, word, k) # {}
      BY <2>2, <3>1 DEF Growing
    <3>3. PICK n \in Node : label[n] = SubSeq(word, 1, k)
      BY <3>2 DEF Found
    <3>4. n \in 0..top /\ grown[n] = label[n]
      BY <1>2, <1>3 DEF GrownAs
    <3> QED BY <3>1, <3>3, <3>4
  <2>3. CASE i = new /\ ~(k <= known)
    <3>0. added'[i] = word
      BY <1>5, <2>3
    <3>1. k \in (known + 1)..len /\ added'[i] = word
      BY <1>2, <2>3, <3>0
    <3>2. PICK n \in size..top : known + (n - size) + 1 = k
      BY <1>2, <3>1
    <3>3. n \in 0..top /\ grown[n] = SubSeq(word, 1, known + (n - size) + 1)
      BY <1>3 DEF GrownAs
    <3> QED BY <3>1, <3>2, <3>3
  <2> QED BY <1>5, <2>1, <2>2, <2>3
<1>8. Prefixes(grown)'
  BY <1>5, <1>6, <1>7 DEF Prefixes
<1> QED BY <1>1, <1>8

\* Before build no node has a link, and each reports the keyword it spells.
LEMMA AddGrowsLinks ==
  ASSUME NEW label, Trie(label), Prefixes(label), Links(label), queue = <<>>, queue' = <<>>,
         NEW word, NEW len, NEW size, NEW known, NEW stem, NEW top,
         Growing(label, word, len, size, known, stem, top), added' = Append(added, word),
         nodes' = Grafted(word, Len(added) + 1, size, known, stem), Node' = 0..top
  PROVE  Links(Grown(label, word, size, known, top))'
<1>1. PICK grown : grown = Grown(label, word, size, known, top)
  OBVIOUS
<1>2. PICK ns : ns = nodes'
  OBVIOUS
<1>3. /\ word \in Seq(Byte) /\ len \in Nat \ {0} /\ len = Len(word)
      /\ size \in Nat \ {0} /\ known \in 0..len /\ stem \in 0..(size - 1)
      /\ top \in Nat /\ top = size + len - known - 1 /\ Node = 0..(size - 1)
      /\ label[stem] = SubSeq(word, 1, known)
  BY DEF Growing
<1>4. word # <<>> /\ SubSeq(word, 1, len) = word
  BY <1>3, EmptySeq, Beginnings
<1>5. GrownAs(grown, label, word, len, size, known, top)
  BY <1>1, GrownWords
<1>6. PICK new \in Nat : new = Len(added) + 1
  BY AddedKeywords, <1>3 DEF Prefixes
<1>7. GraftedAs(ns, word, new, len, size, known, stem, top)
  <2>1. /\ len \in Nat /\ len = Len(word) /\ word \in Seq(Byte) /\ size \in Nat \ {0}
        /\ known \in 0..len /\ stem \in 0..(size - 1) /\ top \in Nat
        /\ top = size + len - known - 1
    BY <1>3
  <2>2. ns = Grafted(word, new, size, known, stem)
    BY <1>2, <1>6
  <2> QED BY <2>1, <2>2, GraftedNodes
<1> DEFINE hit == {[rule |-> new, length |-> len]}
<1>8. \A w : Own(w)' = Own(w) \cup (IF word = w THEN hit ELSE {})
  BY <1>3, <1>4, <1>6, AddedKeywords, SMTT(60) DEF Prefixes
<1> HIDE DEF hit
<1>9. Linked = {} /\ Linked' = {}
  BY DEF Linked
<1>10. ASSUME NEW n \in 0..(size - 1)
       PROVE  ns[n].fail = 0 /\ ns[n].out = Own(grown[n])'
  <2>1. n \in Node /\ grown[n] = label[n]
    BY <1>5 DEF GrownAs
  <2>2. nodes[n].fail = 0 /\ nodes[n].out = Own(label[n])
    BY <1>9, <2>1 DEF Links
  <2>3. ns[n].fail = nodes[n].fail
        /\ ns[n].out = nodes[n].out \cup (IF n = stem /\ known = len THEN hit ELSE {})
    BY <1>7 DEF GraftedAs, hit
  <2>4. word = label[n] <=> n = stem /\ known = len
    <3>1. ASSUME word = label[n] PROVE n = stem /\ known = len
      <4>1. n \in Found(label, word, len)
        BY <1>4, <2>1, <3>1 DEF Found
      <4>2. len <= known
        BY <1>3, <4>1 DEF Growing
      <4>3. known = len
        BY <1>3, <4>2
      <4>4. label[n] = label[stem] /\ stem \in Node
        BY <1>3, <1>4, <3>1, <4>3
      <4> QED BY <2>1, <4>3, <4>4 DEF Trie
    <3>2. ASSUME n = stem, known = len PROVE word = label[n]
      BY <1>3, <1>4, <3>2
    <3> QED BY <3>1, <3>2
  <2>5. Own(label[n])' = Own(label[n]) \cup (IF word = label[n] THEN hit ELSE {})
    BY <1>8
  <2>6. Own(grown[n])' = Own(label[n])'
    BY <2>1 DEF Own
  <2> QED BY <2>2, <2>3, <2>4, <2>5, <2>6
<1>11. ASSUME NEW n \in size..top
       PROVE  ns[n].fail = 0 /\ ns[n].out = Own(grown[n])'
  <2>1. PICK k \in (known + 1)..len : k = known + (n - size) + 1 /\ grown[n] = SubSeq(word, 1, k)
    BY <1>5 DEF GrownAs
  <2>2. ns[n].fail = 0 /\ ns[n].out = IF n = top THEN hit ELSE {}
    BY <1>7 DEF GraftedAs, hit
  <2>3. Own(grown[n]) = {}
    <3> SUFFICES ASSUME NEW i \in DOMAIN added, added[i] # <<>>, added[i] = grown[n] PROVE FALSE
      BY DEF Own
    <3>1. PICK m \in Node : label[m] = added[i]
      BY KeywordHasNode
    <3>2. label[m] = SubSeq(word, 1, k)
      BY <2>1, <3>1
    <3> QED BY <1>5, <3>2 DEF GrownAs
  <2>4. word = grown[n] <=> n = top
    <3>1. n = top <=> k = len
      BY <1>3, <2>1
    <3>2. Len(grown[n]) = k
      <4>1. k \in 0..Len(word)
        BY <1>3
      <4> QED BY <1>3, <2>1, <4>1, Beginnings
    <3> QED BY <1>3, <1>4, <2>1, <3>1, <3>2
  <2>5. Own(grown[n])' = Own(grown[n]) \cup (IF word = grown[n] THEN hit ELSE {})
    BY <1>8
  <2> QED BY <2>2, <2>3, <2>4, <2>5
<1>12. \A n \in 0..top : n \in 0..(size - 1) \/ n \in size..top
  BY <1>5 DEF GrownAs
<1>13. \A n \in Node' : nodes'[n].fail = 0 /\ nodes'[n].out = Own(grown[n])'
  BY <1>2, <1>10, <1>11, <1>12
<1>14. Links(grown)'
  BY <1>9, <1>13 DEF Links
<1> QED BY <1>1, <1>14

LEMMA AddKeeps ==
  ASSUME NEW label, InvOf(label), NEW word \in Words, Add(word)
  PROVE  AutomatonInv'
<1>1. /\ Trie(label) /\ Prefixes(label) /\ Links(label) /\ phase = "add"
      /\ queue = <<>> /\ head = 1 /\ todo = {} /\ state = 0 /\ text = <<>>
      /\ added' = Append(added, word) /\ UNCHANGED <<queue, head, todo, phase, state, text>>
      /\ nodes' = IF word = <<>> THEN nodes ELSE AddWord(nodes, word, Len(added) + 1)
  BY DEF InvOf, Phases, Add
<1>2. word \in Seq(Byte)
  <2>1. PICK n \in Nat : word \in [1..n -> Byte]
    BY DEF Words
  <2> QED BY <2>1, SeqDef
<1>3. \A any : Phases(any)'
  BY <1>1 DEF Phases
<1>4. CASE word = <<>>
  <2>1. nodes' = nodes /\ Node' = Node /\ Linked' = Linked /\ Linked = {}
    BY <1>1, <1>4 DEF Node, Linked
  <2>2. /\ added' \in Seq(Seq(Byte)) /\ DOMAIN added' = DOMAIN added \cup {Len(added) + 1}
        /\ \A i \in DOMAIN added : added'[i] = added[i]
        /\ added'[Len(added) + 1] = <<>>
        /\ \A w : Own(w)' = Own(w)
    <3>1. added \in Seq(Seq(Byte))
      BY <1>1 DEF Prefixes
    <3>2. /\ added' \in Seq(Seq(Byte)) /\ DOMAIN added' = DOMAIN added \cup {Len(added) + 1}
          /\ \A i \in DOMAIN added : added'[i] = added[i]
          /\ added'[Len(added) + 1] = word
      BY <1>1, <1>2, <3>1, AddedKeywords
    <3>3. \A w : Own(w)' = Own(w) \cup
            (IF word # <<>> /\ word = w
               THEN {[rule |-> Len(added) + 1, length |-> Len(word)]} ELSE {})
      BY <1>1, <1>2, <3>1, AddedKeywords
    <3>4. \A w : Own(w)' = Own(w)
      BY <1>4, <3>3
    <3> QED BY <1>4, <3>2, <3>4
  <2>3. Trie(label)'
    <3>1. \E size \in Nat \ {0} : nodes' \in [0..(size - 1) -> NodeType]
      BY <1>1, <2>1 DEF Trie
    <3> QED BY <1>1, <2>1, <3>1, SameTrie
  <2>4. Prefixes(label)'
    <3>1. ASSUME NEW n \in Node \ {0}
          PROVE  \E i \in DOMAIN added' : \E k \in 1..Len(added'[i]) :
                   label[n] = SubSeq(added'[i], 1, k)
      <4>1. PICK i \in DOMAIN added : \E k \in 1..Len(added[i]) :
              label[n] = SubSeq(added[i], 1, k)
        BY <1>1 DEF Prefixes
      <4>2. i \in DOMAIN added' /\ added'[i] = added[i]
        BY <2>2
      <4> QED BY <4>1, <4>2
    <3>2. \A i \in DOMAIN added' : \A k \in 1..Len(added'[i]) : \E n \in Node :
            label[n] = SubSeq(added'[i], 1, k)
      <4>1. 1..Len(<<>>) = {}
        BY EmptySeq
      <4> QED BY <1>1, <2>2, <4>1 DEF Prefixes
    <3> QED BY <2>1, <2>2, <3>1, <3>2 DEF Prefixes
  <2>5. Links(label)'
    BY <1>1, <2>1, <2>2 DEF Links
  <2> QED BY <1>3, <2>3, <2>4, <2>5 DEF AutomatonInv, InvOf
<1>5. CASE word # <<>>
  <2>1. PICK size \in Nat \ {0}, known \in 0..Len(word) : \E stem \in 0..(size - 1) :
           /\ nodes \in [0..(size - 1) -> NodeType] /\ size = Cardinality(DOMAIN nodes)
           /\ known = Cardinality({i \in 1..Len(word) : Path(nodes, word)[i] # {}})
           /\ stem = CHOOSE n \in Path(nodes, word)[known] : TRUE
           /\ label[stem] = SubSeq(word, 1, known)
           /\ \A k \in 0..Len(word) : Found(label, word, k) # {} <=> k <= known
    BY <1>1, <1>2, StemIsLast
  <2>2. PICK stem \in 0..(size - 1) :
           /\ nodes \in [0..(size - 1) -> NodeType] /\ size = Cardinality(DOMAIN nodes)
           /\ known = Cardinality({i \in 1..Len(word) : Path(nodes, word)[i] # {}})
           /\ stem = CHOOSE n \in Path(nodes, word)[known] : TRUE
           /\ label[stem] = SubSeq(word, 1, known)
           /\ \A k \in 0..Len(word) : Found(label, word, k) # {} <=> k <= known
    BY <2>1
  <2>3. PICK len \in Nat \ {0} : len = Len(word) /\ known \in 0..len
    BY <1>2, <1>5, EmptySeq
  <2>4. PICK top \in Nat : top = size + len - known - 1
    <3>1. size + len - known - 1 \in Nat
      BY <2>3
    <3> QED BY <3>1
  <2>5. nodes' = Grafted(word, Len(added) + 1, size, known, stem)
    <3>1. AddWord(nodes, word, Len(added) + 1) = Grafted(word, Len(added) + 1, size, known, stem)
      BY <2>2, AddWordGrafts
    <3> QED BY <1>1, <1>5, <3>1
  <2>6. Growing(label, word, len, size, known, stem, top)
    <3>1. Node = 0..(size - 1)
      BY <2>2 DEF Node
    <3> QED BY <1>2, <2>2, <2>3, <2>4, <3>1 DEF Growing
  <2> DEFINE grown == Grown(label, word, size, known, top)
  <2>7. Len(added) + 1 \in Nat
    BY <1>1, <1>2, AddedKeywords DEF Prefixes
  <2>8. Trie(grown)'
    BY <1>1, <2>5, <2>6, <2>7, AddGrowsTrie
  <2>9. Node' = 0..top
    <3>1. DOMAIN Grafted(word, Len(added) + 1, size, known, stem) = 0..(size + Len(word) - known - 1)
      BY DEF Grafted
    <3> QED BY <2>3, <2>4, <2>5, <3>1 DEF Node
  <2>10. Prefixes(grown)'
    BY <1>1, <2>6, <2>9, AddGrowsPrefixes
  <2>11. Links(grown)'
    BY <1>1, <2>5, <2>6, <2>9, AddGrowsLinks
  <2>12. InvOf(grown)'
    BY <1>3, <2>8, <2>10, <2>11 DEF InvOf
  <2> HIDE DEF grown
  <2> QED BY <2>12 DEF AutomatonInv
<1> QED BY <1>4, <1>5

-----------------------------------------------------------------------------
LEMMA InitIsInv == Init => AutomatonInv
<1> SUFFICES ASSUME Init PROVE AutomatonInv
  OBVIOUS
<1> DEFINE label == [n \in {0} |-> <<>>]
<1>1. /\ nodes = [n \in {0} |-> NewNode(0)] /\ added = <<>> /\ queue = <<>> /\ head = 1
      /\ todo = {} /\ phase = "add" /\ state = 0 /\ text = <<>>
  BY DEF Init
<1>2. Node = {0} /\ nodes[0] = NewNode(0)
  BY <1>1 DEF Node
<1>3. DOMAIN nodes[0].next = {} /\ nodes[0].fail = 0 /\ nodes[0].depth = 0 /\ nodes[0].out = {}
  BY <1>2 DEF NewNode
<1>4. label \in [Node -> Seq(Byte)] /\ label[0] = <<>> /\ Len(<<>>) = 0
  <2>1. <<>> \in Seq(Byte)
    BY EmptySeq
  <2> QED BY <1>2, <2>1, EmptySeq
<1>5. NewNode(0) \in NodeType
  <2>1. <<>> \in [{} -> Nat]
    OBVIOUS
  <2>2. <<>> \in UNION {[bytes -> Nat] : bytes \in SUBSET Byte}
    BY <2>1
  <2>3. {} \in SUBSET [rule : Nat, length : Nat]
    OBVIOUS
  <2> QED BY <2>2, <2>3 DEF NewNode, NodeType
<1>6. \E size \in Nat \ {0} : nodes \in [0..(size - 1) -> NodeType]
  <2>1. 0..(1 - 1) = {0} /\ 1 \in Nat \ {0}
    OBVIOUS
  <2>2. nodes \in [0..(1 - 1) -> NodeType]
    BY <1>1, <1>5, <2>1
  <2> QED BY <2>1, <2>2
<1> HIDE DEF label
<1>7. Trie(label)
  BY <1>2, <1>3, <1>4, <1>6 DEF Trie
<1>8. Prefixes(label)
  <2>1. added \in Seq(Seq(Byte)) /\ DOMAIN added = {}
    BY <1>1, EmptySeq
  <2> QED BY <1>2, <2>1 DEF Prefixes
<1>9. Links(label)
  <2>1. Linked = {} /\ Own(label[0]) = {}
    BY <1>1 DEF Linked, Own
  <2> QED BY <1>2, <1>3, <2>1 DEF Links
<1>10. Phases(label)
  BY <1>1 DEF Phases
<1> QED BY <1>7, <1>8, <1>9, <1>10 DEF AutomatonInv, InvOf

LEMMA StutterKeeps ==
  ASSUME NEW label, InvOf(label), UNCHANGED vars
  PROVE  InvOf(label)'
<1>1. /\ Trie(label) /\ Prefixes(label) /\ Links(label) /\ Phases(label)
      /\ UNCHANGED <<nodes, added, queue, head, todo, phase, state, text>>
  BY DEF InvOf, vars
<1>2. /\ Trie(label)' /\ Prefixes(label)' /\ Links(label)' /\ Node' = Node /\ Linked' = Linked
      /\ \A n, t : Longest(label, n, t)' <=> Longest(label, n, t)
  BY <1>1, SameNodes, SameLinks
<1>3. Breadth' <=> Breadth
  <2>1. \A n : Children(n)' = Children(n) /\ Depth(n)' = Depth(n)
    BY <1>1 DEF Children, Depth
  <2>2. Depth(head)' = Depth(head)
    BY <1>1 DEF Depth
  <2>3. \A i : Children(queue[i])' = Children(queue[i])
    BY <1>1 DEF Children
  <2> QED BY <1>1, <1>2, <2>1, <2>2, <2>3 DEF Breadth
<1>4. Longest(label, state, text)' <=> Longest(label, state, text)
  BY <1>1, <1>2 DEF Longest
<1>5. Phases(label)'
  BY <1>1, <1>2, <1>3, <1>4 DEF Phases
<1> QED BY <1>2, <1>5 DEF InvOf

\* The inductive invariant: the words of the nodes are the beginnings of the
\* keywords; a linked node falls back to the longest word that ends its own and
\* reports every keyword that ends there; build links level by level; and the
\* state is the longest word of the trie that ends the text.
THEOREM AutomatonInvariant == Spec => []AutomatonInv
<1>1. ASSUME AutomatonInv, [Next]_vars PROVE AutomatonInv'
  <2>1. PICK label : InvOf(label)
    BY <1>1 DEF AutomatonInv
  <2>2. ASSUME NEW word \in Words, Add(word) PROVE AutomatonInv'
    BY <2>1, <2>2, AddKeeps
  <2>3. CASE StartBuild
    <3>1. InvOf(label)'
      BY <2>1, <2>3, StartKeeps
    <3> QED BY <3>1 DEF AutomatonInv
  <2>4. ASSUME NEW b \in Byte, LinkChild(b) PROVE AutomatonInv'
    <3>1. InvOf(label)'
      BY <2>1, <2>4, LinkKeeps
    <3> QED BY <3>1 DEF AutomatonInv
  <2>5. CASE NextNode
    <3>1. InvOf(label)'
      BY <2>1, <2>5, NextNodeKeeps
    <3> QED BY <3>1 DEF AutomatonInv
  <2>6. ASSUME NEW b \in Byte, Scan(b) PROVE AutomatonInv'
    <3>1. InvOf(label)'
      BY <2>1, <2>6, ScanKeeps
    <3> QED BY <3>1 DEF AutomatonInv
  <2>7. CASE UNCHANGED vars
    <3>1. InvOf(label)'
      BY <2>1, <2>7, StutterKeeps
    <3> QED BY <3>1 DEF AutomatonInv
  <2> QED BY <1>1, <2>2, <2>3, <2>4, <2>5, <2>6, <2>7 DEF Next
<1> QED BY <1>1, InitIsInv, PTL DEF Spec

\* The keywords that end the text, spelt out.
LEMMA HitsAreEnding ==
  ASSUME NEW label, Trie(label), Prefixes(label), NEW t \in Seq(Byte)
  PROVE  Hits(t) = Ending(t)
<1>1. \A i \in DOMAIN added : added[i] # <<>> => (EndsWith(t, added[i]) <=> Suffix(added[i], t))
  <2>1. \A i \in DOMAIN added : added[i] # <<>> => added[i] \in Seq(Byte)
    BY KeywordHasNode
  <2> QED BY <2>1, EndsWithIsSuffix
<1> QED BY <1>1 DEF Hits, Ending, Hit

\* Every keyword that ends at the current byte is reported, for any keywords in
\* any order, any order of the trie's children and any text.
THEOREM EveryKeywordIsReported == Spec => []ReportsEveryKeyword
<1>1. AutomatonInv => ReportsEveryKeyword
  <2> SUFFICES ASSUME AutomatonInv, phase = "run" PROVE nodes[state].out = Hits(text)
    BY DEF ReportsEveryKeyword
  <2>1. PICK label : InvOf(label)
    BY DEF AutomatonInv
  <2>2. /\ Trie(label) /\ Prefixes(label) /\ Links(label) /\ Linked = Node \ {0}
        /\ text \in Seq(Byte) /\ Longest(label, state, text)
    BY <2>1 DEF InvOf, Phases
  <2>3. Ending(label[state]) = Hits(text) /\ state \in Node
    BY <2>2, EndingOfLongest, HitsAreEnding DEF Longest
  <2>4. CASE state \in Linked
    BY <2>2, <2>3, <2>4 DEF Links
  <2>5. CASE state = 0 /\ state \notin Linked
    <3>1. label[state] = <<>>
      BY <2>2, <2>5, TrieFacts
    <3>2. nodes[state].out = Own(<<>>) /\ Own(<<>>) = {} /\ Ending(<<>>) = {}
      BY <2>2, <2>3, <2>5, <3>1, NothingEndsTheEmptyWord DEF Links
    <3> QED BY <2>3, <3>1, <3>2
  <2> QED BY <2>2, <2>3, <2>4, <2>5
<1> QED BY <1>1, AutomatonInvariant, PTL

LEMMA TextIsBytes ==
  ASSUME AutomatonInv, phase = "run"
  PROVE  text \in Seq(Byte)
<1>1. PICK label : InvOf(label)
  BY DEF AutomatonInv
<1> QED BY <1>1 DEF InvOf, Phases

\* The keywords whose first k bytes end the text.
Starting(k) ==
  {i \in DOMAIN added : k <= Len(added[i]) /\ EndsWith(text, SubSeq(added[i], 1, k))}

\* The depth is that of a beginning that ends the text, and none is longer.
DepthFits ==
  /\ nodes[state].depth \in 0..Len(text)
  /\ nodes[state].depth = 0 \/ Starting(nodes[state].depth) # {}
  /\ \A k \in (nodes[state].depth + 1)..Len(text) : Starting(k) = {}

LEMMA DepthIsOfABeginning ==
  ASSUME AutomatonInv, phase = "run"
  PROVE  DepthFits
<1>1. PICK label : InvOf(label)
  BY DEF AutomatonInv
<1>2. /\ Trie(label) /\ Prefixes(label) /\ text \in Seq(Byte) /\ Longest(label, state, text)
  BY <1>1 DEF InvOf, Phases
<1>3. PICK len \in Nat : len = Len(text)
  BY <1>2, LenProperties
<1>4. PICK d \in 0..len : d = Len(label[state]) /\ nodes[state].depth = d
  BY <1>2, <1>3, TrieFacts DEF Longest, Suffix
<1>5. ASSUME NEW k \in 1..len
      PROVE  Starting(k) # {} <=> \E m \in Node : Len(label[m]) = k /\ Suffix(label[m], text)
  <2>1. ASSUME NEW i \in Starting(k)
        PROVE  \E m \in Node : Len(label[m]) = k /\ Suffix(label[m], text)
    <3>1. i \in DOMAIN added /\ k <= Len(added[i]) /\ EndsWith(text, SubSeq(added[i], 1, k))
      BY DEF Starting
    <3>2. added[i] \in Seq(Byte)
      BY <1>2, <3>1, ElementOfSeq, LenProperties DEF Prefixes
    <3>3. k \in 0..Len(added[i]) /\ k \in 1..Len(added[i])
      BY <3>1, <3>2, LenProperties
    <3>4. SubSeq(added[i], 1, k) \in Seq(Byte) /\ Len(SubSeq(added[i], 1, k)) = k
      BY <3>2, <3>3, Beginnings
    <3>5. Suffix(SubSeq(added[i], 1, k), text)
      BY <1>2, <3>1, <3>4, EndsWithIsSuffix
    <3>6. PICK m \in Node : label[m] = SubSeq(added[i], 1, k)
      BY <1>2, <3>1, <3>3 DEF Prefixes
    <3> QED BY <3>4, <3>5, <3>6
  <2>2. ASSUME NEW m \in Node, Len(label[m]) = k, Suffix(label[m], text)
        PROVE  Starting(k) # {}
    <3>1. label[m] \in Seq(Byte)
      BY <1>2, TrieFacts
    <3>2. m # 0
      BY <1>2, <2>2, TrieFacts, EmptySeq
    <3>3. PICK i \in DOMAIN added : \E j \in 1..Len(added[i]) :
            label[m] = SubSeq(added[i], 1, j)
      BY <1>2, <3>2 DEF Prefixes
    <3>4. PICK j \in 1..Len(added[i]) : label[m] = SubSeq(added[i], 1, j)
      BY <3>3
    <3>5. added[i] \in Seq(Byte) /\ Len(added[i]) \in Nat
      BY <1>2, ElementOfSeq, LenProperties DEF Prefixes
    <3>6. j \in 0..Len(added[i]) /\ j <= Len(added[i])
      BY <3>5
    <3>7. j = k
      BY <2>2, <3>4, <3>5, <3>6, Beginnings
    <3>8. EndsWith(text, label[m])
      BY <1>2, <2>2, <3>1, EndsWithIsSuffix
    <3> QED BY <3>4, <3>6, <3>7, <3>8 DEF Starting
  <2> QED BY <2>1, <2>2
<1>6. /\ d = 0 \/ Starting(d) # {}
     /\ \A k \in (d + 1)..len : Starting(k) = {}
  <2>1. d = 0 \/ Starting(d) # {}
    <3>1. CASE d # 0
      <4>1. d \in 1..len
        BY <3>1
      <4> QED BY <1>2, <1>4, <1>5, <4>1 DEF Longest
    <3> QED BY <3>1
  <2>2. ASSUME NEW k \in (d + 1)..len, Starting(k) # {} PROVE FALSE
    <3>1. k \in 1..len /\ ~(k <= d)
      OBVIOUS
    <3>2. PICK m \in Node : Len(label[m]) = k /\ Suffix(label[m], text)
      BY <1>5, <2>2, <3>1
    <3>3. Len(label[m]) <= Len(label[state])
      BY <1>2, <3>2 DEF Longest
    <3> QED BY <1>4, <3>1, <3>2, <3>3
  <2> QED BY <2>1, <2>2
<1> QED BY <1>3, <1>4, <1>6 DEF DepthFits

\* The depth of the state is the length of the longest keyword beginning that the
\* text ends with: what the gateway holds back is neither too little nor too much.
THEOREM DepthIsWhatMayGrow == Spec => []DepthIsLongestPrefix
<1>1. AutomatonInv => DepthIsLongestPrefix
  <2> SUFFICES ASSUME AutomatonInv, phase = "run"
               PROVE  nodes[state].depth = LongestPrefix(text)
    BY DEF DepthIsLongestPrefix
  <2>1. PICK len \in Nat : len = Len(text)
    BY TextIsBytes, LenProperties
  <2>2. PICK d \in 0..len : d = nodes[state].depth
    BY <2>1, DepthIsOfABeginning DEF DepthFits
  <2> DEFINE fits(n) == /\ n = 0 \/ Starting(n) # {}
                        /\ \A k \in (n + 1)..len : Starting(k) = {}
  <2>3. fits(d)
    BY <2>1, <2>2, DepthIsOfABeginning DEF DepthFits
  <2>4. ASSUME NEW n \in 0..len, fits(n) PROVE n = d
    <3>1. CASE n < d
      <4>1. d \in (n + 1)..len /\ d # 0
        BY <3>1
      <4> QED BY <2>3, <2>4, <4>1
    <3>2. CASE d < n
      <4>1. n \in (d + 1)..len /\ n # 0
        BY <3>2
      <4> QED BY <2>3, <2>4, <4>1
    <3> QED BY <3>1, <3>2
  <2> HIDE DEF fits
  <2>5. d = CHOOSE n \in 0..len : fits(n)
    BY <2>3, <2>4
  <2>6. LongestPrefix(text) = CHOOSE n \in 0..len : fits(n)
    BY <2>1 DEF LongestPrefix, fits, Starting
  <2> QED BY <2>2, <2>5, <2>6
<1> QED BY <1>1, AutomatonInvariant, PTL
-----------------------------------------------------------------------------
(***************************************************************************)
(* The automaton and what StreamScan says of it.                           *)
(***************************************************************************)
\* A keyword ends the folded text where StreamScan finds it spelt.
LEMMA SpeltAtTheEnd ==
  ASSUME NEW t, Len(t) \in Nat, NEW k \in Seq(Byte), NEW n \in Nat, n <= Len(t), n <= Len(k),
         Folded(t) \in Seq(Byte)
  PROVE  Matcher!Spells(t, Len(t) - n + 1, k, n) <=> EndsWith(Folded(t), SubSeq(k, 1, n))
<1> DEFINE u == SubSeq(k, 1, n)
           f == Folded(t)
<1>1. Len(k) \in Nat
  BY LenProperties
<1>2. u \in Seq(Byte) /\ Len(u) = n /\ \A i \in 1..n : u[i] = k[i]
  BY <1>1, SubSeqProperties
<1>3. Len(f) = Len(t) /\ \A i \in 1..Len(t) : f[i] = Fold[t[i]]
  BY DEF Folded
<1>4. ASSUME NEW i \in 1..n
      PROVE  Fold[t[(Len(t) - n + 1) + i - 1]] = f[Len(t) - n + i]
  <2>1. Len(t) - n + i \in 1..Len(t) /\ (Len(t) - n + 1) + i - 1 = Len(t) - n + i
    OBVIOUS
  <2> QED BY <1>3, <2>1
<1> HIDE DEF u, f
<1>5. EndsWith(f, u) <=> Suffix(u, f)
  BY <1>2, EndsWithIsSuffix DEF f
<1>6. Suffix(u, f) <=> \A i \in 1..n : u[i] = f[Len(t) - n + i]
  BY <1>2, <1>3 DEF Suffix
<1>7. Matcher!Spells(t, Len(t) - n + 1, k, n) <=> \A i \in 1..n : f[Len(t) - n + i] = k[i]
  BY <1>4 DEF Matcher!Spells
<1>8. EndsWith(f, u) <=> Matcher!Spells(t, Len(t) - n + 1, k, n)
  BY <1>2, <1>5, <1>6, <1>7
<1> QED BY <1>8 DEF u, f

LEMMA KeywordsAreBytes ==
  ASSUME AutomatonInv, NEW i \in DOMAIN added
  PROVE  added[i] \in Seq(Byte) /\ Len(added[i]) \in Nat
<1>1. PICK label : InvOf(label)
  BY DEF AutomatonInv
<1>2. added \in Seq(Seq(Byte))
  BY <1>1 DEF InvOf, Prefixes
<1> QED BY <1>2, ElementOfSeq, LenProperties

\* A folded keyword is not empty.
LEMMA FoldedIsLong ==
  ASSUME NEW r, NEW k \in Matcher!FoldedKeywords(r), Len(k) \in Nat
  PROVE  Len(k) > 0
<1>1. PICK w \in {w \in Keywords[r] : Len(w) > 0} : k = [i \in 1..Len(w) |-> Fold[w[i]]]
  BY DEF Matcher!FoldedKeywords
<1> QED BY <1>1

\* What the state reports is what StreamScan anchors at the last byte.
LEMMA ReportsAreCandidates ==
  ASSUME AutomatonInv, ReportsEveryKeyword, phase = "run", NEW t \in Seq(Char), NEW owner,
         text = Folded(t), Loaded(owner)
  PROVE  Reported(t, owner) = Matcher!KeywordHits(t, {Len(t)})
<1>0. Len(t) \in Nat /\ text \in Seq(Byte) /\ nodes[state].out = Hits(text)
  BY TextIsBytes, LenProperties DEF ReportsEveryKeyword
<1>1. ASSUME NEW i \in DOMAIN added, Len(added[i]) <= Len(t)
      PROVE  Matcher!Spells(t, Len(t) - Len(added[i]) + 1, added[i], Len(added[i]))
               <=> EndsWith(text, added[i])
  <2>1. added[i] \in Seq(Byte) /\ Len(added[i]) \in Nat
    BY KeywordsAreBytes
  <2>2. SubSeq(added[i], 1, Len(added[i])) = added[i]
    BY <2>1, Beginnings
  <2>3. PICK n \in Nat : n = Len(added[i]) /\ n <= Len(t) /\ n <= Len(added[i])
    BY <1>1, <2>1
  <2>4. Matcher!Spells(t, Len(t) - n + 1, added[i], n)
          <=> EndsWith(Folded(t), SubSeq(added[i], 1, n))
    BY <1>0, <2>1, <2>3, SpeltAtTheEnd
  <2> QED BY <2>2, <2>3, <2>4
<1>2. ASSUME NEW c \in Reported(t, owner) PROVE c \in Matcher!KeywordHits(t, {Len(t)})
  <2>1. PICK h \in Hits(text) : c = [rule |-> owner[h.rule], lo |-> Len(t) - h.length + 1]
    BY <1>0, <1>2 DEF Reported
  <2>2. PICK i \in DOMAIN added : /\ added[i] # <<>> /\ EndsWith(text, added[i])
                                  /\ h = [rule |-> i, length |-> Len(added[i])]
    BY <2>1 DEF Hits
  <2> DEFINE n == Len(added[i])
             lo == Len(t) - n + 1
  <2>3. c = [rule |-> owner[i], lo |-> lo]
    BY <2>1, <2>2
  <2>4. added[i] \in Matcher!FoldedKeywords(owner[i]) /\ owner[i] \in Matcher!RulesOf("literal")
    BY <2>2 DEF Loaded
  <2>5. n \in Nat /\ n > 0
    BY <2>4, KeywordsAreBytes, FoldedIsLong
  <2>6. n <= Len(t)
    BY <2>2 DEF EndsWith, Folded
  <2>7. Matcher!Spells(t, lo, added[i], n)
    BY <1>1, <2>2, <2>6
  <2>8. lo \in 1..Len(t) /\ lo + n - 1 = Len(t)
    BY <1>0, <2>5, <2>6
  <2> HIDE DEF n, lo
  <2>9. c \in [rule : Matcher!RulesOf("literal"), lo : 1..Len(t)] /\ c.rule = owner[i] /\ c.lo = lo
    BY <2>3, <2>4, <2>8
  <2>10. \E k \in Matcher!FoldedKeywords(c.rule) :
            c.lo + Len(k) - 1 \in {Len(t)} /\ Matcher!Spells(t, c.lo, k, Len(k))
    BY <2>4, <2>7, <2>8, <2>9 DEF n
  <2> QED BY <2>9, <2>10 DEF Matcher!KeywordHits
<1>3. ASSUME NEW c \in Matcher!KeywordHits(t, {Len(t)}) PROVE c \in Reported(t, owner)
  <2>1. c \in [rule : Matcher!RulesOf("literal"), lo : 1..Len(t)]
    BY <1>3 DEF Matcher!KeywordHits
  <2>2. PICK k \in Matcher!FoldedKeywords(c.rule) :
          c.lo + Len(k) - 1 = Len(t) /\ Matcher!Spells(t, c.lo, k, Len(k))
    BY <1>3 DEF Matcher!KeywordHits
  <2>3. PICK i \in DOMAIN added : owner[i] = c.rule /\ added[i] = k
    BY <2>1, <2>2 DEF Loaded
  <2>4. Len(k) \in Nat /\ Len(k) > 0
    BY <2>2, <2>3, KeywordsAreBytes, FoldedIsLong
  <2>5. Len(k) <= Len(t) /\ c.lo = Len(t) - Len(k) + 1
    BY <1>0, <2>1, <2>2, <2>4
  <2>6. EndsWith(text, added[i])
    BY <1>1, <2>2, <2>3, <2>5
  <2>7. added[i] # <<>>
    BY <2>3, <2>4
  <2>8. PICK h \in Hits(text) : h = [rule |-> i, length |-> Len(k)]
    BY <2>3, <2>6, <2>7 DEF Hits
  <2>9. c = [rule |-> owner[h.rule], lo |-> Len(t) - h.length + 1]
    BY <2>1, <2>3, <2>5, <2>8
  <2> QED BY <1>0, <2>8, <2>9 DEF Reported
<1> QED BY <1>2, <1>3

\* A keyword has begun k bytes before the end of the text when one starts with
\* the last k bytes of the folded text.
LEMMA BegunIsStarting ==
  ASSUME AutomatonInv, phase = "run", NEW t \in Seq(Char), NEW owner,
         text = Folded(t), Loaded(owner), NEW k \in 1..Len(t)
  PROVE  Len(t) - k + 1 \in Matcher!PartialStarts(t) <=> Starting(k) # {}
<1> DEFINE lo == Len(t) - k + 1
<1>0. Len(t) \in Nat /\ text \in Seq(Byte) /\ lo \in 1..Len(t) /\ Len(t) - lo + 1 = k
      /\ k \in Nat /\ k <= Len(t) /\ k > 0
  BY TextIsBytes, LenProperties
<1>1. ASSUME NEW i \in DOMAIN added, k <= Len(added[i])
      PROVE  Matcher!Spells(t, lo, added[i], k) <=> EndsWith(text, SubSeq(added[i], 1, k))
  BY <1>0, <1>1, KeywordsAreBytes, SpeltAtTheEnd
<1> HIDE DEF lo
<1>2. ASSUME lo \in Matcher!PartialStarts(t) PROVE Starting(k) # {}
  <2>1. PICK r \in Matcher!RulesOf("literal") : \E w \in Matcher!FoldedKeywords(r) :
          k <= Len(w) /\ Matcher!Spells(t, lo, w, k)
    BY <1>0, <1>2 DEF Matcher!PartialStarts
  <2>2. PICK w \in Matcher!FoldedKeywords(r) : k <= Len(w) /\ Matcher!Spells(t, lo, w, k)
    BY <2>1
  <2>3. PICK i \in DOMAIN added : added[i] = w
    BY <2>1, <2>2 DEF Loaded
  <2>4. i \in Starting(k)
    BY <1>1, <2>2, <2>3 DEF Starting
  <2> QED BY <2>4
<1>3. ASSUME Starting(k) # {} PROVE lo \in Matcher!PartialStarts(t)
  <2>1. PICK i \in DOMAIN added : k <= Len(added[i]) /\ EndsWith(text, SubSeq(added[i], 1, k))
    BY <1>3 DEF Starting
  <2>2. Len(added[i]) \in Nat
    BY KeywordsAreBytes
  <2>3. added[i] # <<>>
    BY <1>0, <2>1, <2>2
  <2>4. owner[i] \in Matcher!RulesOf("literal") /\ added[i] \in Matcher!FoldedKeywords(owner[i])
    BY <2>3 DEF Loaded
  <2>5. Matcher!Spells(t, lo, added[i], k)
    BY <1>1, <2>1
  <2> QED BY <1>0, <2>1, <2>4, <2>5 DEF Matcher!PartialStarts
<1> QED BY <1>2, <1>3 DEF lo

LEMMA HoldIsOfTheBegun ==
  ASSUME AutomatonInv, phase = "run", NEW t \in Seq(Char), NEW owner,
         text = Folded(t), Loaded(owner)
  PROVE  Held(t) = {p \in 1..Len(t) : \E lo \in Matcher!PartialStarts(t) : lo <= p}
<1>0. Len(t) \in Nat /\ Len(text) = Len(t)
  BY LenProperties DEF Folded
<1>1. PICK d \in 0..Len(t) : d = nodes[state].depth
  BY <1>0, DepthIsOfABeginning DEF DepthFits
<1>2. d = 0 \/ Starting(d) # {}
  BY <1>1, DepthIsOfABeginning DEF DepthFits
<1>3. \A k \in (d + 1)..Len(t) : Starting(k) = {}
  BY <1>0, <1>1, DepthIsOfABeginning DEF DepthFits
<1>4. Held(t) = (Len(t) - d + 1)..Len(t)
  BY <1>1 DEF Held
<1>5. ASSUME NEW p \in (Len(t) - d + 1)..Len(t)
      PROVE  p \in 1..Len(t) /\ \E lo \in Matcher!PartialStarts(t) : lo <= p
  <2>1. d \in 1..Len(t) /\ p \in 1..Len(t) /\ Len(t) - d + 1 <= p
    BY <1>0, <1>1, <1>5
  <2>2. Len(t) - d + 1 \in Matcher!PartialStarts(t)
    BY <1>2, <2>1, BegunIsStarting
  <2> QED BY <2>1, <2>2
<1>6. ASSUME NEW p \in 1..Len(t), NEW lo \in Matcher!PartialStarts(t), lo <= p
      PROVE  p \in (Len(t) - d + 1)..Len(t)
  <2>1. lo \in 1..Len(t)
    BY DEF Matcher!PartialStarts
  <2>a. Len(t) - lo + 1 \in 1..Len(t) /\ lo = Len(t) - (Len(t) - lo + 1) + 1
    BY <1>0, <2>1
  <2>2. PICK k \in 1..Len(t) : k = Len(t) - lo + 1 /\ lo = Len(t) - k + 1
    BY <2>a
  <2>3. Starting(k) # {}
    BY <2>2, BegunIsStarting
  <2>4. k <= d
    BY <1>0, <1>1, <1>3, <2>3
  <2> QED BY <1>0, <1>1, <1>6, <2>1, <2>2, <2>4
<1> QED BY <1>4, <1>5, <1>6

\* StreamScan speaks of keyword ends and live prefixes instead of an automaton;
\* for every rule pack, every order in which its keywords are added and every
\* text, that is what Find and Feed get from the automaton byte by byte.
THEOREM AutomatonIsThePrefilter == Spec => []PrefilterIsExact
<1>1. AutomatonInv /\ ReportsEveryKeyword => PrefilterIsExact
  BY ReportsAreCandidates, HoldIsOfTheBegun DEF PrefilterIsExact
<1> QED BY <1>1, AutomatonInvariant, EveryKeywordIsReported, PTL
=============================================================================
