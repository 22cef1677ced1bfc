----------------------------- MODULE StreamScan -----------------------------
(***************************************************************************)
(* engine.StreamScan: the incremental matcher behind the SSE response path *)
(* (engine/engine.go), and engine.Find, the whole-text matcher it must     *)
(* agree with.                                                             *)
(*                                                                         *)
(* A rule is found in two stages.  A prefilter anchors a candidate: a      *)
(* keyword seen by the Aho-Corasick automaton, the start of a digit run,   *)
(* or the four-character head of an IBAN.  scanRule then confirms the      *)
(* candidate with the rule's regular expression and validators inside a    *)
(* window that reaches one byte left of the candidate and one byte past    *)
(* max_match_len.  Streaming, a candidate whose window is not yet complete *)
(* waits; the caller holds back the bytes that still belong to a waiting   *)
(* candidate or to a keyword prefix.                                       *)
(*                                                                         *)
(* Positions are 1-based: a finding [rule, lo, hi] covers text[lo..hi]     *)
(* (the code's Start = lo - 1, End = hi).  The automaton is represented by *)
(* what it reports: the keywords ending at a position, and the longest     *)
(* keyword prefix that ends the text.                                      *)
(***************************************************************************)
EXTENDS Naturals, Sequences, FiniteSets

CONSTANTS
  Char,         \* the alphabet
  Upper,        \* 'A'..'Z'
  Digit,        \* '0'..'9'
  AlphaNum,     \* letters and digits
  Fold,         \* lowerASCII, a function on Char
  Rules,        \* rule identifiers
  Kind,         \* prefilter of a rule: "literal", "digit" or "iban"
  Keywords,     \* keywords of a literal rule, a set of sequences
  MaxLen,       \* max_match_len of a rule
  Match(_, _),  \* regexp.FindSubmatchIndex: at most one submatch in a window
  Valid(_, _),  \* the rule's validators (Luhn, mod-97, ...) on a value
  MaxText,      \* bound: length of the stream text
  MaxChunk      \* bound: length of one chunk

\* The windows scanRule can hand to the regular expression of rule r: one
\* byte of left context, max_match_len bytes, one byte of right context.
Windows(r) == UNION {[1..n -> Char] : n \in 0..(MaxLen[r] + 2)}

\* validateRule and NewMatcher refuse any other rule.
ASSUME RulesAssumption ==
  /\ Kind \in [Rules -> {"literal", "digit", "iban"}]
  /\ MaxLen \in [Rules -> Nat \ {0}]
  /\ \A r \in Rules : Kind[r] = "literal" =>
       /\ Keywords[r] # {}
       /\ \A k \in Keywords[r] : k \in Seq(Char)

ASSUME CharAssumption ==
  /\ Upper \subseteq AlphaNum /\ Digit \subseteq AlphaNum
  /\ AlphaNum \subseteq Char
  /\ Fold \in [Char -> Char]
  /\ MaxText \in Nat /\ MaxChunk \in Nat

\* A submatch lies inside its window, and the selected capture group inside
\* the whole match, which begins at offset "at".
ASSUME MatchAssumption ==
  \A r \in Rules : \A w \in Windows(r) : \A m \in Match(r, w) :
    /\ m.at \in 1..Len(w)
    /\ m.lo \in m.at..Len(w) + 1
    /\ m.hi \in (m.lo - 1)..Len(w)

VARIABLES
  text,                \* every decoded byte fed so far ("reassembled")
  pendingCandidates,   \* digit and IBAN candidates waiting for their window
  pendingLiteral,      \* keyword candidates waiting for their window
  deferredIBANStarts,  \* positions whose IBAN head is not complete yet
  seen,                \* findings confirmed so far (the dedupe set)
  drained              \* Finalize has run

scanVars == <<text, pendingCandidates, pendingLiteral, deferredIBANStarts,
              seen, drained>>

-----------------------------------------------------------------------------
\* scanRule: confirming one candidate.

WindowFirst(lo) == IF lo > 1 THEN lo - 1 ELSE 1

WindowLast(t, r, lo) ==
  IF lo + MaxLen[r] <= Len(t) THEN lo + MaxLen[r] ELSE Len(t)

Window(t, r, lo) == SubSeq(t, WindowFirst(lo), WindowLast(t, r, lo))

\* A match that begins on the left-context byte, an empty group and a value
\* the validators refuse are no findings.
ScanRule(t, r, lo) ==
  LET w == Window(t, r, lo)
      base == WindowFirst(lo) - 1
      confirmed == {m \in Match(r, w) : /\ base + m.at >= lo
                                        /\ m.lo <= m.hi
                                        /\ Valid(r, SubSeq(w, m.lo, m.hi))}
  IN  {[rule |-> r, lo |-> base + m.lo, hi |-> base + m.hi] : m \in confirmed}

\* Mutants: the right-context byte is not waited for; one byte too many is.
FitsWithoutContext(t, rs, lo) == \A r \in rs : lo + MaxLen[r] - 1 <= Len(t)
FitsLate(t, rs, lo) == \A r \in rs : lo + MaxLen[r] + 1 <= Len(t)

\* Every rule of rs has its whole window in t: max_match_len bytes and the
\* right-context byte.  All the rules of a kind wait for the longest of them.
Fits(t, rs, lo) == \A r \in rs : lo + MaxLen[r] <= Len(t)

RulesOf(kind) == {r \in Rules : Kind[r] = kind}

-----------------------------------------------------------------------------
\* Prefilters.

\* Keywords are folded when the automaton is built; add drops an empty one.
FoldedKeywords(r) ==
  {[i \in 1..Len(k) |-> Fold[k[i]]] : k \in {k \in Keywords[r] : Len(k) > 0}}

\* The first n characters of keyword k stand at position lo of t.
Spells(t, lo, k, n) == \A i \in 1..n : Fold[t[lo + i - 1]] = k[i]

\* Candidates whose keyword ends at one of the positions in ends.
KeywordHits(t, ends) ==
  {c \in [rule : RulesOf("literal"), lo : 1..Len(t)] :
     \E k \in FoldedKeywords(c.rule) :
        /\ c.lo + Len(k) - 1 \in ends
        /\ Spells(t, c.lo, k, Len(k))}

\* The automaton is inside a keyword (or at its end) that began at lo: the
\* longest such suffix is the depth of its state.
PartialStarts(t) ==
  {lo \in 1..Len(t) :
     \E r \in RulesOf("literal") : \E k \in FoldedKeywords(r) :
        /\ Len(t) - lo + 1 <= Len(k)
        /\ Spells(t, lo, k, Len(t) - lo + 1)}

DigitStart(t, p) == t[p] \in Digit /\ (p = 1 \/ t[p - 1] \notin Digit)

\* isIBANCandidateStart; streamIBANCandidateDecision = 1.
IBANStart(t, p) ==
  /\ p + 3 <= Len(t)
  /\ p = 1 \/ t[p - 1] \notin AlphaNum
  /\ t[p] \in Upper /\ t[p + 1] \in Upper
  /\ t[p + 2] \in Digit /\ t[p + 3] \in Digit

\* streamIBANCandidateDecision = 2: so far an IBAN head, but cut off by the
\* end of the text.
IBANUndecided(t, p) ==
  /\ p + 3 > Len(t)
  /\ p = 1 \/ t[p - 1] \notin AlphaNum
  /\ t[p] \in Upper
  /\ p + 1 <= Len(t) => t[p + 1] \in Upper

-----------------------------------------------------------------------------
\* Find: the whole-text matcher.

ScanKind(t, kind, p) == UNION {ScanRule(t, r, p) : r \in RulesOf(kind)}

ScanCandidates(t, cands) == UNION {ScanKind(t, c.kind, c.lo) : c \in cands}
ScanLiterals(t, lits) == UNION {ScanRule(t, c.rule, c.lo) : c \in lits}

DigitStarts(t, positions) == {p \in positions : DigitStart(t, p)}
IBANStarts(t, positions) == {p \in positions : IBANStart(t, p)}

Find(t) ==
  ScanLiterals(t, KeywordHits(t, 1..Len(t)))
    \cup ScanCandidates(t, [kind : {"digit"}, lo : DigitStarts(t, 1..Len(t))])
    \cup ScanCandidates(t, [kind : {"iban"}, lo : IBANStarts(t, 1..Len(t))])

-----------------------------------------------------------------------------
\* holdLen: the gateway holds back the last holdLen bytes.  HeldBytes is the
\* set of those positions.  A deferred IBAN start does not count.

\* Mutants: the hold counts no waiting keyword, or no waiting digit run.
UndecidedWithoutLiterals ==
  PartialStarts(text) \cup {c.lo : c \in pendingCandidates}
UndecidedWithoutCandidates ==
  PartialStarts(text) \cup {c.lo : c \in pendingLiteral}

UndecidedStarts ==
  PartialStarts(text)
    \cup {c.lo : c \in pendingCandidates}
    \cup {c.lo : c \in pendingLiteral}

HeldBytes == {p \in 1..Len(text) : \E lo \in UndecidedStarts : lo <= p}

-----------------------------------------------------------------------------
ScanInit ==
  /\ text = <<>>
  /\ pendingCandidates = {}
  /\ pendingLiteral = {}
  /\ deferredIBANStarts = {}
  /\ seen = {}
  /\ drained = FALSE

\* The candidates Feed(chunk) looks at, t being the text with the chunk:
\* those that were waiting, deferred IBAN heads that are complete now, and
\* those anchored at a position of the chunk.
FedPositions(chunk) == (Len(text) + 1)..(Len(text) + Len(chunk))

\* Mutant: IBAN heads cut by a chunk boundary are not looked at again.
FedCandidatesForgetting(chunk, t) ==
  pendingCandidates
    \cup [kind : {"digit"}, lo : DigitStarts(t, FedPositions(chunk))]
    \cup [kind : {"iban"}, lo : IBANStarts(t, FedPositions(chunk))]

FedCandidates(chunk, t) ==
  pendingCandidates
    \cup [kind : {"digit"}, lo : DigitStarts(t, FedPositions(chunk))]
    \cup [kind : {"iban"}, lo : IBANStarts(t, deferredIBANStarts \cup FedPositions(chunk))]

FedLiterals(chunk, t) == pendingLiteral \cup KeywordHits(t, FedPositions(chunk))

\* The candidates of cands, or of the keyword candidates lits, whose windows
\* are complete in t.
Ready(t, cands) == {c \in cands : Fits(t, RulesOf(c.kind), c.lo)}
ReadyLiterals(t, lits) == {c \in lits : Fits(t, {c.rule}, c.lo)}

\* Feed with an empty chunk (a control event) changes nothing.  Otherwise each
\* candidate whose window is complete is scanned and the others wait.
Feed(chunk) ==
  LET t == text \o chunk
      cands == FedCandidates(chunk, t)
      lits == FedLiterals(chunk, t)
  IN  /\ ~drained
      /\ text' = t
      /\ IF chunk = <<>>
         THEN UNCHANGED <<pendingCandidates, pendingLiteral,
                          deferredIBANStarts, seen>>
         ELSE /\ pendingCandidates' = cands \ Ready(t, cands)
              /\ pendingLiteral' = lits \ ReadyLiterals(t, lits)
              /\ deferredIBANStarts' =
                   {p \in deferredIBANStarts \cup FedPositions(chunk) :
                      IBANUndecided(t, p)}
              /\ seen' = seen \cup ScanCandidates(t, Ready(t, cands))
                              \cup ScanLiterals(t, ReadyLiterals(t, lits))
      /\ UNCHANGED drained

\* Finalize: every waiting candidate is scanned in what text there is.
Finalize ==
  /\ ~drained
  /\ drained' = TRUE
  /\ seen' = seen
       \cup ScanLiterals(text, pendingLiteral)
       \cup ScanCandidates(text, pendingCandidates
              \cup [kind : {"iban"}, lo : IBANStarts(text, deferredIBANStarts)])
  /\ pendingCandidates' = {}
  /\ pendingLiteral' = {}
  /\ deferredIBANStarts' = {}
  /\ UNCHANGED text

Chunks == UNION {[1..n -> Char] : n \in 0..MaxChunk}

ScanFeed ==
  \E chunk \in Chunks : Len(text) + Len(chunk) <= MaxText /\ Feed(chunk)

ScanNext == ScanFeed \/ Finalize

ScanSpec == ScanInit /\ [][ScanNext]_scanVars

-----------------------------------------------------------------------------
Findings == [rule : Rules, lo : Nat \ {0}, hi : Nat \ {0}]

\* The type invariant of the scan state.
ScanTypeOK ==
  /\ text \in Seq(Char)
  /\ pendingCandidates \subseteq [kind : {"digit", "iban"}, lo : 1..Len(text)]
  /\ pendingLiteral \subseteq [rule : RulesOf("literal"), lo : 1..Len(text)]
  /\ deferredIBANStarts \subseteq 1..Len(text)
  /\ seen \subseteq Findings
  /\ drained \in BOOLEAN

\* Chunking never changes the outcome: after Finalize a stream has reported
\* exactly the findings Find reports on the reassembled text, wherever the
\* chunk boundaries fell (the contract of sortFindings, Feed and Finalize).
StreamEqualsFind == drained => seen = Find(text)

\* Feed never confirms on a window that later bytes could still change: what
\* it has reported is at every moment a finding of the text so far.
NothingConfirmedTooEarly == seen \subseteq Find(text)

\* Whatever a whole-text scan of the bytes received so far would report is
\* confirmed already, or lies in the bytes the caller is told to hold.
UnconfirmedIsHeld == \A f \in Find(text) \ seen : drained \/ f.lo \in HeldBytes

\* A step never confirms a finding that reaches into bytes the previous
\* holdLen had released to the client, whatever the pack: only IBAN rules can.
NoLateFinding ==
  [][\A f \in seen' \ seen :
       f.rule \in RulesOf("iban") \/ f.lo \in HeldBytes \/ f.lo > Len(text)]_scanVars

\* Rule r has a candidate at position lo of t.
Anchored(t, r, lo) ==
  \/ [rule |-> r, lo |-> lo] \in KeywordHits(t, 1..Len(t))
  \/ r \in RulesOf("digit") /\ DigitStart(t, lo)
  \/ r \in RulesOf("iban") /\ IBANStart(t, lo)

\* Worst-case hold: what is held from a position on is a keyword still being
\* spelt, or never more than max_match_len bytes of a rule anchored there (the
\* longest of its prefilter).  A rule of the pack that is not anchored at the
\* position, however long, holds nothing, and no text is held without end.
HoldBounded ==
  ~drained =>
    \A lo \in UndecidedStarts \ PartialStarts(text) :
      \E r \in Rules : Anchored(text, r, lo) /\ Len(text) - lo + 1 <= MaxLen[r]
=============================================================================
