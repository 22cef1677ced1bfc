----------------------------- MODULE Automaton -----------------------------
(***************************************************************************)
(* The Aho-Corasick automaton of the engine (engine/automaton.go).  Rules  *)
(* add their folded keywords to a trie, build links every node to the      *)
(* longest proper suffix that is a node too and hands down its outputs,    *)
(* and step advances one byte at a time, across chunk boundaries.          *)
(*                                                                         *)
(* Keywords arrive in any order, and build visits the children of a node   *)
(* in any order, as Go's map iteration does.                               *)
(*                                                                         *)
(* Hits and LongestPrefix say what StreamScan relies on when it speaks of  *)
(* KeywordHits and PartialStarts.                                          *)
(***************************************************************************)
EXTENDS Integers, Sequences, FiniteSets

CONSTANTS
  Byte,          \* folded bytes
  MaxKeywords,   \* bound: number of keywords
  MaxKeyword,    \* bound: length of a keyword
  MaxText        \* bound: length of the scanned text

ASSUME AutomatonAssumption ==
  MaxKeywords \in Nat /\ MaxKeyword \in Nat /\ MaxText \in Nat

VARIABLES
  nodes,   \* node id -> [next, fail, depth, out]; 0 is the root
  added,   \* the keywords added so far, in order; the rule is the index
  queue,   \* build: nodes in breadth-first order
  head,    \* build: index of the node whose children are being linked
  todo,    \* build: bytes of that node's children not linked yet
  phase,   \* "add", "build" or "run"
  state,   \* run: current node
  text     \* run: the bytes fed so far

vars == <<nodes, added, queue, head, todo, phase, state, text>>

Words == UNION {[1..n -> Byte] : n \in 0..MaxKeyword}

-----------------------------------------------------------------------------
\* The node that each prefix of word leads to in the trie ns, as far as there
\* is one.
Path(ns, word) ==
  LET go[i \in 0..Len(word)] ==
        IF i = 0 THEN {0}
        ELSE {ns[n].next[word[i]] : n \in {n \in go[i - 1] : word[i] \in DOMAIN ns[n].next}}
  IN  go

NewNode(depth) == [next |-> <<>>, fail |-> 0, depth |-> depth, out |-> {}]

\* add: the word follows the trie as far as it goes, to the stem, and grows one
\* node for every byte after that; spells(n, k) when its first k bytes lead to n.
AddWord(ns, word, rule) ==
  LET path == Path(ns, word)
      known == Cardinality({i \in 1..Len(word) : path[i] # {}})
      size == Cardinality(DOMAIN ns)
      stem == CHOOSE n \in path[known] : TRUE
      node(n) == IF n < size THEN ns[n] ELSE NewNode(known + (n - size) + 1)
      spells(n, k) == IF n < size THEN n = stem /\ k = known ELSE k = known + (n - size) + 1
      grows(n) == {word[k + 1] : k \in {k \in 0..(Len(word) - 1) : spells(n, k)}}
  IN  [n \in 0..(size + Len(word) - known - 1) |->
         [next |-> [b \in DOMAIN node(n).next \cup grows(n) |->
                      IF b \notin grows(n) THEN node(n).next[b]
                      ELSE IF n < size THEN size ELSE n + 1],
          fail |-> node(n).fail,
          depth |-> node(n).depth,
          out |-> node(n).out \cup
                  (IF spells(n, Len(word)) THEN {[rule |-> rule, length |-> Len(word)]} ELSE {})]]

Children(n) == {nodes[n].next[b] : b \in DOMAIN nodes[n].next}

\* The node byte b leads to from node n, along fail links if need be.
Step(n, b) ==
  LET go[s \in DOMAIN nodes] ==
        IF b \in DOMAIN nodes[s].next THEN nodes[s].next[b]
        ELSE IF s = 0 THEN 0 ELSE go[nodes[s].fail]
  IN  go[n]

\* Mutant: the search never follows a link.
FailToRoot(parent, b) == IF nodes[parent].fail = 0 THEN 0 ELSE Step(nodes[parent].fail, b)

\* build: where the child of parent by byte b falls back to.  The root's own
\* children are not linked, so the child found at the root is another node.
Fail(parent, b) == Step(nodes[parent].fail, b)

-----------------------------------------------------------------------------
Init ==
  /\ nodes = [n \in {0} |-> NewNode(0)]
  /\ added = <<>> /\ queue = <<>> /\ head = 1 /\ todo = {}
  /\ phase = "add" /\ state = 0 /\ text = <<>>

\* An empty keyword is ignored.
Add(word) ==
  /\ phase = "add"
  /\ Len(added) < MaxKeywords
  /\ added' = Append(added, word)
  /\ nodes' = IF word = <<>> THEN nodes ELSE AddWord(nodes, word, Len(added) + 1)
  /\ UNCHANGED <<queue, head, todo, phase, state, text>>

\* build starts with the root's children, in any order.
StartBuild ==
  /\ phase = "add"
  /\ phase' = "build"
  /\ queue' \in {q \in [1..Cardinality(Children(0)) -> Children(0)] :
                   \A i, j \in DOMAIN q : q[i] = q[j] => i = j}
  /\ todo' = IF queue' = <<>> THEN {} ELSE DOMAIN nodes[queue'[1]].next
  /\ UNCHANGED <<nodes, added, head, state, text>>

\* Mutant: a child does not inherit the outputs of its link.
LinkChildBare(b) ==
  LET child == nodes[queue[head]].next[b]
  IN  /\ phase = "build" /\ b \in todo
      /\ nodes' = [nodes EXCEPT ![child].fail = Fail(queue[head], b)]
      /\ queue' = Append(queue, child)
      /\ todo' = todo \ {b}
      /\ UNCHANGED <<added, head, phase, state, text>>

\* One turn of the inner loop.
LinkChild(b) ==
  LET child == nodes[queue[head]].next[b]
      fail == Fail(queue[head], b)
  IN  /\ phase = "build" /\ b \in todo
      /\ nodes' = [nodes EXCEPT ![child].fail = fail,
                                ![child].out = @ \cup nodes[fail].out]
      /\ queue' = Append(queue, child)
      /\ todo' = todo \ {b}
      /\ UNCHANGED <<added, head, phase, state, text>>

\* The next node of the queue, or the end of build.
NextNode ==
  /\ phase = "build" /\ todo = {}
  /\ IF head < Len(queue)
     THEN /\ head' = head + 1
          /\ todo' = DOMAIN nodes[queue[head + 1]].next
          /\ UNCHANGED phase
     ELSE /\ phase' = "run"
          /\ UNCHANGED <<head, todo>>
  /\ UNCHANGED <<nodes, added, queue, state, text>>

\* step, as Find and Feed call it for every byte.
Scan(b) ==
  /\ phase = "run"
  /\ Len(text) < MaxText
  /\ state' = Step(state, b)
  /\ text' = Append(text, b)
  /\ UNCHANGED <<nodes, added, queue, head, todo, phase>>

Next ==
  \/ \E word \in Words : Add(word)
  \/ StartBuild
  \/ \E b \in Byte : LinkChild(b)
  \/ NextNode
  \/ \E b \in Byte : Scan(b)

Spec == Init /\ [][Next]_vars

-----------------------------------------------------------------------------
EndsWith(t, word) ==
  Len(word) <= Len(t) /\ SubSeq(t, Len(t) - Len(word) + 1, Len(t)) = word

\* What the automaton has to report: the keywords that end here, and the
\* length of the longest keyword prefix that ends here.
Hits(t) ==
  {[rule |-> i, length |-> Len(added[i])] :
     i \in {i \in DOMAIN added : added[i] # <<>> /\ EndsWith(t, added[i])}}

LongestPrefix(t) ==
  CHOOSE n \in 0..Len(t) :
    LET prefixes(k) == {i \in DOMAIN added : k <= Len(added[i])
                                             /\ EndsWith(t, SubSeq(added[i], 1, k))}
    IN  /\ n = 0 \/ prefixes(n) # {}
        /\ \A k \in (n + 1)..Len(t) : prefixes(k) = {}

\* Every keyword that ends at the current byte is reported, also one that ends
\* inside a longer keyword or begins inside a failed attempt at one.
ReportsEveryKeyword == phase = "run" => nodes[state].out = Hits(text)

\* The depth of the state, which the gateway holds back, is the length of the
\* longest keyword prefix the text ends with.
DepthIsLongestPrefix == phase = "run" => nodes[state].depth = LongestPrefix(text)
=============================================================================
