------------------------------ MODULE Prefilter ------------------------------
(***************************************************************************)
(* The keyword prefilter of the engine (engine/engine.go): the automaton   *)
(* that NewMatcher loads with the keywords of all literal rules, and what  *)
(* StreamScan says of it.                                                  *)
(*                                                                         *)
(* StreamScan has no automaton: KeywordHits and PartialStarts say in terms *)
(* of the text which keywords end at a byte and where one may have begun.  *)
(* PrefilterIsExact says that Find and Feed get exactly that from the node *)
(* they stand at, when they have fed step every byte, folded.              *)
(***************************************************************************)
EXTENDS Automaton

CONSTANTS
  Char, Upper, Digit, AlphaNum, Fold, Rules, Kind, Keywords, MaxLen,
  Match(_, _), Valid(_, _), MaxChunk

\* Of StreamScan only what it says of a text is used here.
Matcher == INSTANCE StreamScan WITH
  text <- <<>>, pendingCandidates <- {}, pendingLiteral <- {},
  deferredIBANStarts <- {}, seen <- {}, drained <- FALSE

\* foldASCII.
Folded(t) == [i \in 1..Len(t) |-> Fold[t[i]]]

\* NewMatcher has added every folded keyword of every literal rule, and nothing
\* else, the i-th under the rule owner[i].
Loaded(owner) ==
  /\ owner \in [DOMAIN added -> Matcher!RulesOf("literal")]
  /\ \A i \in DOMAIN added : added[i] = <<>> \/ added[i] \in Matcher!FoldedKeywords(owner[i])
  /\ \A r \in Matcher!RulesOf("literal") : \A k \in Matcher!FoldedKeywords(r) :
       \E i \in DOMAIN added : owner[i] = r /\ added[i] = k

\* The candidates that Find and Feed take from the node behind the last byte.
Reported(t, owner) ==
  {[rule |-> owner[h.rule], lo |-> Len(t) - h.length + 1] : h \in nodes[state].out}

\* The last bytes of t that statePartialMatchLen keeps from the client.
Held(t) == (Len(t) - nodes[state].depth + 1)..Len(t)

\* Behind every byte of every text, the automaton reports the candidates that
\* StreamScan anchors there, each for its own rule and at its own place, and its
\* depth reaches back to the first byte at which a keyword may have begun and no
\* further.
PrefilterIsExact ==
  phase = "run" =>
    \A t \in Seq(Char) : \A owner \in [DOMAIN added -> Rules] : text = Folded(t) /\ Loaded(owner) =>
      /\ Reported(t, owner) = Matcher!KeywordHits(t, {Len(t)})
      /\ Held(t) = {p \in 1..Len(t) : \E lo \in Matcher!PartialStarts(t) : lo <= p}
=============================================================================
