-------------------------- MODULE StreamGateProofs --------------------------
(***************************************************************************)
(* Proofs about StreamScan and StreamGate: for every rule pack, policy and *)
(* chunking, what a stream's scanner finds, and what is written to the     *)
(* client of the stream and to the ledger.                                 *)
(*                                                                         *)
(* The events of a stream are its client frames and then its pending       *)
(* events; cutting the sequence at another place is all that a flush does. *)
(* An event released is an event that ends outside the held bytes, and no  *)
(* finding begins outside the held bytes later.                            *)
(***************************************************************************)
EXTENDS StreamGate, LoopProofs

-----------------------------------------------------------------------------
(***************************************************************************)
(* StreamScan: for every rule pack and every way of cutting a text into    *)
(* chunks, streaming reports what Find reports.                            *)
(*                                                                         *)
(* The inductive invariant says that the scan state is a function of the   *)
(* text alone: a candidate of the text whose window is complete has been   *)
(* scanned, every other one waits.                                         *)
(***************************************************************************)
\* Every candidate a text has.
Cands(t) ==
  [kind : {"digit"}, lo : DigitStarts(t, 1..Len(t))]
    \cup [kind : {"iban"}, lo : IBANStarts(t, 1..Len(t))]

Lits(t) == KeywordHits(t, 1..Len(t))

CandFindings(t, c) == ScanKind(t, c.kind, c.lo)
LitFindings(t, c) == ScanRule(t, c.rule, c.lo)

CandFits(t, c) == Fits(t, RulesOf(c.kind), c.lo)
LitFits(t, c) == Fits(t, {c.rule}, c.lo)

Waiting(t) == Cands(t) \ Ready(t, Cands(t))
WaitingLits(t) == Lits(t) \ ReadyLiterals(t, Lits(t))
Undecided(t) == {p \in 1..Len(t) : IBANUndecided(t, p)}

Confirmed(t) ==
  ScanCandidates(t, Ready(t, Cands(t)))
    \cup ScanLiterals(t, ReadyLiterals(t, Lits(t)))

\* The inductive invariant.
ScanInv ==
  /\ text \in Seq(Char)
  /\ drained \in BOOLEAN
  /\ ~drained => /\ pendingCandidates = Waiting(text)
                 /\ pendingLiteral = WaitingLits(text)
                 /\ deferredIBANStarts = Undecided(text)
                 /\ seen = Confirmed(text)
  /\ drained => /\ seen = Find(text)
                /\ pendingCandidates = {} /\ pendingLiteral = {}
                /\ deferredIBANStarts = {}

-----------------------------------------------------------------------------
\* Appending a chunk changes no earlier character.
LEMMA AppendFacts ==
  ASSUME NEW t \in Seq(Char), NEW c \in Seq(Char)
  PROVE  /\ t \o c \in Seq(Char)
         /\ Len(t \o c) = Len(t) + Len(c)
         /\ \A p \in 1..Len(t) : (t \o c)[p] = t[p]
  OBVIOUS

\* Whether a digit run starts at a position depends on that position and the
\* one before it.
LEMMA DigitStartStable ==
  ASSUME NEW t \in Seq(Char), NEW c \in Seq(Char), NEW p \in 1..Len(t)
  PROVE  DigitStart(t \o c, p) <=> DigitStart(t, p)
  BY AppendFacts DEF DigitStart

\* A start that was decided stays decided; one that was not is still a
\* candidate for the longer text.
LEMMA IBANStartStable ==
  ASSUME NEW t \in Seq(Char), NEW c \in Seq(Char), NEW p \in 1..Len(t)
  PROVE  /\ IBANStart(t, p) => IBANStart(t \o c, p)
         /\ IBANStart(t \o c, p) => IBANStart(t, p) \/ IBANUndecided(t, p)
         /\ IBANUndecided(t \o c, p) => IBANUndecided(t, p)
  BY AppendFacts DEF IBANStart, IBANUndecided

\* A folded keyword is a nonempty sequence.
LEMMA KeywordFacts ==
  ASSUME NEW r \in RulesOf("literal"), NEW k \in FoldedKeywords(r)
  PROVE  k \in Seq(Char) /\ Len(k) \in Nat \ {0}
<1>1. PICK j \in Keywords[r] : Len(j) > 0 /\ k = [i \in 1..Len(j) |-> Fold[j[i]]]
  BY DEF FoldedKeywords
<1>2. j \in Seq(Char)
  BY RulesAssumption DEF RulesOf
<1>3. \A i \in 1..Len(j) : Fold[j[i]] \in Char
  BY <1>2, CharAssumption
<1>4. k \in [1..Len(j) -> Char]
  BY <1>1, <1>3
<1> QED BY <1>1, <1>2, <1>4

\* What a position spells inside t does not change with more text.
LEMMA SpellsStable ==
  ASSUME NEW t \in Seq(Char), NEW c \in Seq(Char), NEW lo \in Nat \ {0}, NEW k,
         NEW n \in Nat, lo + n - 1 <= Len(t)
  PROVE  Spells(t \o c, lo, k, n) <=> Spells(t, lo, k, n)
<1>1. \A i \in 1..n : lo + i - 1 \in 1..Len(t)
  OBVIOUS
<1>2. \A i \in 1..n : (t \o c)[lo + i - 1] = t[lo + i - 1]
  BY <1>1, AppendFacts
<1> QED BY <1>2 DEF Spells

\* Keyword hits that end inside t are the hits of t.
LEMMA KeywordHitsStable ==
  ASSUME NEW t \in Seq(Char), NEW c \in Seq(Char)
  PROVE  KeywordHits(t \o c, 1..Len(t \o c))
           = Lits(t) \cup KeywordHits(t \o c, (Len(t) + 1)..(Len(t) + Len(c)))
<1> DEFINE u == t \o c
           new == (Len(t) + 1)..(Len(t) + Len(c))
<1>0. Len(u) = Len(t) + Len(c) /\ Len(t) \in Nat /\ Len(c) \in Nat
  BY AppendFacts
<1>1. ASSUME NEW h \in KeywordHits(u, 1..Len(u)) PROVE h \in Lits(t) \cup KeywordHits(u, new)
  <2>1. h \in [rule : RulesOf("literal"), lo : 1..Len(u)]
    BY DEF KeywordHits
  <2>2. PICK k \in FoldedKeywords(h.rule) : /\ h.lo + Len(k) - 1 \in 1..Len(u)
                                            /\ Spells(u, h.lo, k, Len(k))
    BY DEF KeywordHits
  <2>3. h.rule \in RulesOf("literal") /\ Len(k) \in Nat \ {0} /\ h.lo \in 1..Len(u)
    BY <2>1, <2>2, KeywordFacts
  <2>4. CASE h.lo + Len(k) - 1 <= Len(t)
    <3>1. Spells(t, h.lo, k, Len(k))
      BY <2>2, <2>3, <2>4, <1>0, SpellsStable
    <3>2. h.lo \in 1..Len(t) /\ h.lo + Len(k) - 1 \in 1..Len(t)
      BY <2>2, <2>3, <2>4, <1>0
    <3>3. h \in [rule : RulesOf("literal"), lo : 1..Len(t)]
      BY <2>1, <3>2
    <3> QED BY <3>1, <3>2, <3>3, <2>2 DEF Lits, KeywordHits
  <2>5. CASE h.lo + Len(k) - 1 > Len(t)
    <3>1. h.lo + Len(k) - 1 \in new
      BY <2>2, <2>3, <2>5, <1>0
    <3> QED BY <3>1, <2>1, <2>2 DEF KeywordHits
  <2> QED BY <2>3, <2>4, <2>5, <1>0
<1>2. ASSUME NEW h \in Lits(t) PROVE h \in KeywordHits(u, 1..Len(u))
  <2>1. h \in [rule : RulesOf("literal"), lo : 1..Len(t)]
    BY DEF Lits, KeywordHits
  <2>2. PICK k \in FoldedKeywords(h.rule) : /\ h.lo + Len(k) - 1 \in 1..Len(t)
                                            /\ Spells(t, h.lo, k, Len(k))
    BY DEF Lits, KeywordHits
  <2>3. h.rule \in RulesOf("literal") /\ Len(k) \in Nat \ {0} /\ h.lo \in 1..Len(t)
    BY <2>1, <2>2, KeywordFacts
  <2>4. Spells(u, h.lo, k, Len(k))
    BY <2>2, <2>3, <1>0, SpellsStable
  <2>5. h.lo + Len(k) - 1 \in 1..Len(u) /\ h.lo \in 1..Len(u)
    BY <2>2, <2>3, <1>0
  <2>6. h \in [rule : RulesOf("literal"), lo : 1..Len(u)]
    BY <2>1, <2>5
  <2> QED BY <2>2, <2>4, <2>5, <2>6 DEF KeywordHits
<1>3. KeywordHits(u, new) \subseteq KeywordHits(u, 1..Len(u))
  <2>1. new \subseteq 1..Len(u)
    BY <1>0
  <2> QED BY <2>1 DEF KeywordHits
<1> QED BY <1>1, <1>2, <1>3

\* Enough text for a window is enough text for it for good.
LEMMA FitsStable ==
  ASSUME NEW t \in Seq(Char), NEW c \in Seq(Char), NEW lo \in Nat,
         NEW rs \in SUBSET Rules, Fits(t, rs, lo)
  PROVE  Fits(t \o c, rs, lo)
  BY AppendFacts, RulesAssumption DEF Fits

\* A candidate with a complete window is confirmed or refused for good.
LEMMA ScanRuleStable ==
  ASSUME NEW t \in Seq(Char), NEW c \in Seq(Char), NEW r \in Rules,
         NEW lo \in 1..Len(t), Fits(t, {r}, lo)
  PROVE  ScanRule(t \o c, r, lo) = ScanRule(t, r, lo)
<1>1. MaxLen[r] \in Nat /\ lo + MaxLen[r] <= Len(t)
  BY RulesAssumption DEF Fits
<1>2. WindowLast(t, r, lo) = lo + MaxLen[r] /\ WindowLast(t \o c, r, lo) = lo + MaxLen[r]
  BY <1>1, AppendFacts DEF WindowLast
<1>3. Window(t \o c, r, lo) = Window(t, r, lo)
  <2>1. WindowFirst(lo) \in 1..Len(t)
    BY DEF WindowFirst
  <2> DEFINE hi == lo + MaxLen[r]
  <2>3. hi \in 1..Len(t)
    BY <1>1
  <2> HIDE DEF hi
  <2>2. SubSeq(t \o c, WindowFirst(lo), hi) = SubSeq(t, WindowFirst(lo), hi)
    BY <2>1, <2>3, SubSeqOfConcat1
  <2> QED BY <1>2, <2>2 DEF Window, hi
<1> QED BY <1>3 DEF ScanRule

-----------------------------------------------------------------------------
\* Membership in the sets StreamScan builds.
LEMMA InCands ==
  ASSUME NEW t, NEW c
  PROVE  c \in Cands(t) <=>
           \/ c \in [kind : {"digit"}, lo : 1..Len(t)] /\ DigitStart(t, c.lo)
           \/ c \in [kind : {"iban"}, lo : 1..Len(t)] /\ IBANStart(t, c.lo)
  BY DEF Cands, DigitStarts, IBANStarts

LEMMA InReady ==
  ASSUME NEW t, NEW S, NEW c
  PROVE  /\ c \in Ready(t, S) <=> c \in S /\ CandFits(t, c)
         /\ c \in ReadyLiterals(t, S) <=> c \in S /\ LitFits(t, c)
  BY DEF Ready, ReadyLiterals, CandFits, LitFits

LEMMA InScan ==
  ASSUME NEW t, NEW S, NEW f
  PROVE  /\ f \in ScanCandidates(t, S) <=> \E c \in S : f \in CandFindings(t, c)
         /\ f \in ScanLiterals(t, S) <=> \E c \in S : f \in LitFindings(t, c)
  BY DEF ScanCandidates, ScanLiterals, CandFindings, LitFindings

LEMMA InWaiting ==
  ASSUME NEW t, NEW c
  PROVE  /\ c \in Waiting(t) <=> c \in Cands(t) /\ ~CandFits(t, c)
         /\ c \in WaitingLits(t) <=> c \in Lits(t) /\ ~LitFits(t, c)
  BY InReady DEF Waiting, WaitingLits

-----------------------------------------------------------------------------
\* The candidates Feed looks at: those that waited, and those of the longer
\* text that were not candidates of the shorter one.
LEMMA FedCandidatesAre ==
  ASSUME NEW chunk \in Seq(Char), text \in Seq(Char),
         pendingCandidates = Waiting(text),
         deferredIBANStarts = Undecided(text)
  PROVE  LET t == text \o chunk IN
           Cands(t) = Cands(text) \cup FedCandidates(chunk, t)
<1> DEFINE t == text \o chunk
<1>0. Len(t) = Len(text) + Len(chunk) /\ Len(text) \in Nat /\ Len(chunk) \in Nat
  BY AppendFacts
<1>1. 1..Len(t) = (1..Len(text)) \cup FedPositions(chunk)
  BY <1>0 DEF FedPositions
<1>5. ASSUME NEW c
      PROVE  c \in FedCandidates(chunk, t) <=>
               \/ c \in pendingCandidates
               \/ c \in [kind : {"digit"}, lo : FedPositions(chunk)] /\ DigitStart(t, c.lo)
               \/ /\ c \in [kind : {"iban"}, lo : Undecided(text) \cup FedPositions(chunk)]
                  /\ IBANStart(t, c.lo)
  BY DEF FedCandidates, DigitStarts, IBANStarts
<1>6. Undecided(text) \subseteq 1..Len(text)
  BY DEF Undecided
<1>2. ASSUME NEW c \in Cands(t) PROVE c \in Cands(text) \cup FedCandidates(chunk, t)
  <2>1. CASE c \in [kind : {"digit"}, lo : 1..Len(t)] /\ DigitStart(t, c.lo)
    <3>1. CASE c.lo \in 1..Len(text)
      <4>1. DigitStart(text, c.lo)
        BY <2>1, <3>1, DigitStartStable
      <4>2. c \in [kind : {"digit"}, lo : 1..Len(text)]
        BY <2>1, <3>1
      <4> QED BY <4>1, <4>2, InCands
    <3>2. CASE c.lo \in FedPositions(chunk)
      <4>1. c \in [kind : {"digit"}, lo : FedPositions(chunk)]
        BY <2>1, <3>2
      <4> QED BY <2>1, <4>1, <1>5
    <3> QED BY <2>1, <3>1, <3>2, <1>1
  <2>2. CASE c \in [kind : {"iban"}, lo : 1..Len(t)] /\ IBANStart(t, c.lo)
    <3>1. CASE c.lo \in 1..Len(text)
      <4>1. IBANStart(text, c.lo) \/ IBANUndecided(text, c.lo)
        BY <2>2, <3>1, IBANStartStable
      <4>2. CASE IBANStart(text, c.lo)
        <5>1. c \in [kind : {"iban"}, lo : 1..Len(text)]
          BY <2>2, <3>1
        <5> QED BY <5>1, <4>2, InCands
      <4>3. CASE IBANUndecided(text, c.lo)
        <5>1. c \in [kind : {"iban"}, lo : Undecided(text)]
          BY <2>2, <3>1, <4>3 DEF Undecided
        <5>2. c \in [kind : {"iban"}, lo : Undecided(text) \cup FedPositions(chunk)]
          BY <5>1
        <5> QED BY <2>2, <5>2, <1>5
      <4> QED BY <4>1, <4>2, <4>3
    <3>2. CASE c.lo \in FedPositions(chunk)
      <4>1. c \in [kind : {"iban"}, lo : Undecided(text) \cup FedPositions(chunk)]
        BY <2>2, <3>2
      <4> QED BY <2>2, <4>1, <1>5
    <3> QED BY <2>2, <3>1, <3>2, <1>1
  <2> QED BY <2>1, <2>2, InCands
<1>3. ASSUME NEW c \in Cands(text) PROVE c \in Cands(t)
  <2>1. CASE c \in [kind : {"digit"}, lo : 1..Len(text)] /\ DigitStart(text, c.lo)
    <3>1. DigitStart(t, c.lo)
      BY <2>1, DigitStartStable
    <3>2. c \in [kind : {"digit"}, lo : 1..Len(t)]
      BY <2>1, <1>1
    <3> QED BY <3>1, <3>2, InCands
  <2>2. CASE c \in [kind : {"iban"}, lo : 1..Len(text)] /\ IBANStart(text, c.lo)
    <3>1. IBANStart(t, c.lo)
      BY <2>2, IBANStartStable
    <3>2. c \in [kind : {"iban"}, lo : 1..Len(t)]
      BY <2>2, <1>1
    <3> QED BY <3>1, <3>2, InCands
  <2> QED BY <2>1, <2>2, InCands
<1>4. ASSUME NEW c \in FedCandidates(chunk, t) PROVE c \in Cands(t)
  <2>1. CASE c \in pendingCandidates
    BY <2>1, <1>3, InWaiting
  <2>2. CASE c \in [kind : {"digit"}, lo : FedPositions(chunk)] /\ DigitStart(t, c.lo)
    <3>1. c \in [kind : {"digit"}, lo : 1..Len(t)]
      BY <2>2, <1>1
    <3> QED BY <2>2, <3>1, InCands
  <2>3. CASE /\ c \in [kind : {"iban"}, lo : Undecided(text) \cup FedPositions(chunk)]
             /\ IBANStart(t, c.lo)
    <3>1. c \in [kind : {"iban"}, lo : 1..Len(t)]
      BY <2>3, <1>1, <1>6
    <3> QED BY <2>3, <3>1, InCands
  <2> QED BY <2>1, <2>2, <2>3, <1>5
<1> QED BY <1>2, <1>3, <1>4

\* Shape of candidates.
LEMMA CandidateFacts ==
  ASSUME NEW t \in Seq(Char)
  PROVE  /\ \A c \in Cands(t) : c.lo \in 1..Len(t) /\ RulesOf(c.kind) \subseteq Rules
         /\ \A c \in Lits(t) : c.lo \in 1..Len(t) /\ c.rule \in Rules
  BY InCands DEF Lits, KeywordHits, RulesOf

\* Find scans every candidate of the text.
LEMMA FindScansAll ==
  ASSUME NEW t \in Seq(Char), NEW f
  PROVE  f \in Find(t) <=> \/ \E c \in Cands(t) : f \in CandFindings(t, c)
                           \/ \E c \in Lits(t) : f \in LitFindings(t, c)
<1> DEFINE ds == [kind : {"digit"}, lo : DigitStarts(t, 1..Len(t))]
           bs == [kind : {"iban"}, lo : IBANStarts(t, 1..Len(t))]
<1>1. Find(t) = ScanLiterals(t, Lits(t)) \cup ScanCandidates(t, ds) \cup ScanCandidates(t, bs)
  BY DEF Find, Lits
<1>2. Cands(t) = ds \cup bs
  BY DEF Cands
<1> HIDE DEF ds, bs
<1> QED BY <1>1, <1>2, InScan

\* Membership in the sets of findings.
LEMMA InConfirmed ==
  ASSUME NEW t, NEW f
  PROVE  f \in Confirmed(t) <=>
           \/ \E c \in Cands(t) : CandFits(t, c) /\ f \in CandFindings(t, c)
           \/ \E c \in Lits(t) : LitFits(t, c) /\ f \in LitFindings(t, c)
  BY InScan, InReady DEF Confirmed

\* What a candidate with complete windows yields does not change any more.
LEMMA CandFindingsStable ==
  ASSUME NEW t \in Seq(Char), NEW k \in Seq(Char), NEW c \in Cands(t),
         CandFits(t, c)
  PROVE  CandFindings(t \o k, c) = CandFindings(t, c)
<1>1. c.lo \in 1..Len(t) /\ RulesOf(c.kind) \subseteq Rules
  BY CandidateFacts
<1>2. ASSUME NEW r \in RulesOf(c.kind) PROVE ScanRule(t \o k, r, c.lo) = ScanRule(t, r, c.lo)
  <2>1. Fits(t, {r}, c.lo)
    BY DEF Fits, CandFits
  <2> QED BY <1>1, <2>1, ScanRuleStable
<1> QED BY <1>2 DEF CandFindings, ScanKind

-----------------------------------------------------------------------------
LEMMA InitInv == ScanInit => ScanInv
<1> SUFFICES ASSUME ScanInit PROVE ScanInv
  OBVIOUS
<1>1. text = <<>> /\ Len(text) = 0 /\ text \in Seq(Char)
  BY DEF ScanInit
<1>2. Cands(text) = {}
  BY <1>1, InCands
<1>3. Lits(text) = {}
  BY <1>1 DEF Lits, KeywordHits
<1>4. Undecided(text) = {}
  BY <1>1 DEF Undecided
<1>5. Waiting(text) = {} /\ WaitingLits(text) = {} /\ Confirmed(text) = {}
  BY <1>2, <1>3, InWaiting, InConfirmed
<1> QED BY <1>1, <1>4, <1>5 DEF ScanInit, ScanInv

LEMMA FeedInv ==
  ASSUME ScanInv, NEW chunk \in Seq(Char), Feed(chunk)
  PROVE  ScanInv'
<1> DEFINE t == text \o chunk
<1>0. /\ ~drained /\ ~drained' /\ drained' \in BOOLEAN
      /\ text \in Seq(Char) /\ t \in Seq(Char) /\ text' = t
      /\ pendingCandidates = Waiting(text) /\ pendingLiteral = WaitingLits(text)
      /\ deferredIBANStarts = Undecided(text) /\ seen = Confirmed(text)
  BY AppendFacts DEF Feed, ScanInv
<1>1. CASE chunk = <<>>
  <2>1. t = text
    BY <1>0, <1>1
  <2>2. UNCHANGED scanVars
    BY <1>0, <1>1, <2>1 DEF Feed, scanVars
  <2> QED BY <1>0, <2>1, <2>2 DEF ScanInv, scanVars
<1>2. CASE chunk # <<>>
  <2>1. Cands(t) = Cands(text) \cup FedCandidates(chunk, t)
    BY <1>0, FedCandidatesAre
  <2>2. Lits(t) = Lits(text) \cup FedLiterals(chunk, t)
    <3>1. Lits(t) = Lits(text) \cup KeywordHits(t, FedPositions(chunk))
      BY <1>0, KeywordHitsStable DEF Lits, FedPositions
    <3>2. WaitingLits(text) \subseteq Lits(text)
      BY InWaiting
    <3> QED BY <1>0, <3>1, <3>2 DEF FedLiterals
  <2>3. Waiting(text) \subseteq FedCandidates(chunk, t) /\ WaitingLits(text) \subseteq FedLiterals(chunk, t)
    BY <1>0 DEF FedCandidates, FedLiterals
  <2>4. pendingCandidates' = Waiting(t)
    <3>1. pendingCandidates' = FedCandidates(chunk, t) \ Ready(t, FedCandidates(chunk, t))
      BY <1>2 DEF Feed
    <3>2. ASSUME NEW c \in Cands(text), ~CandFits(t, c)
          PROVE  c \in FedCandidates(chunk, t)
      <4>1. c.lo \in Nat /\ RulesOf(c.kind) \in SUBSET Rules
        BY <1>0, CandidateFacts
      <4>2. ~CandFits(text, c)
        BY <1>0, <3>2, <4>1, FitsStable DEF CandFits, LitFits
      <4> QED BY <4>2, <2>3, InWaiting
    <3> QED BY <3>1, <3>2, <2>1, InWaiting, InReady
  <2>5. pendingLiteral' = WaitingLits(t)
    <3>1. pendingLiteral' = FedLiterals(chunk, t) \ ReadyLiterals(t, FedLiterals(chunk, t))
      BY <1>2 DEF Feed
    <3>2. ASSUME NEW c \in Lits(text), ~LitFits(t, c)
          PROVE  c \in FedLiterals(chunk, t)
      <4>1. c.lo \in Nat /\ {c.rule} \in SUBSET Rules
        BY <1>0, CandidateFacts
      <4>2. ~LitFits(text, c)
        BY <1>0, <3>2, <4>1, FitsStable DEF LitFits
      <4> QED BY <4>2, <2>3, InWaiting
    <3> QED BY <3>1, <3>2, <2>2, InWaiting, InReady
  <2>6. deferredIBANStarts' = Undecided(t)
    <3>1. deferredIBANStarts' = {p \in Undecided(text) \cup FedPositions(chunk) : IBANUndecided(t, p)}
      BY <1>0, <1>2 DEF Feed
    <3>2. 1..Len(t) = (1..Len(text)) \cup FedPositions(chunk)
      BY <1>0, AppendFacts DEF FedPositions
    <3>3. \A p \in 1..Len(text) : IBANUndecided(t, p) => IBANUndecided(text, p)
      BY <1>0, IBANStartStable
    <3> QED BY <3>1, <3>2, <3>3 DEF Undecided
  <2>7. seen' = Confirmed(t)
    <3> DEFINE C == FedCandidates(chunk, t)
               L == FedLiterals(chunk, t)
    <3>1. seen' = Confirmed(text) \cup ScanCandidates(t, Ready(t, C))
                                 \cup ScanLiterals(t, ReadyLiterals(t, L))
      BY <1>0, <1>2 DEF Feed
    <3> HIDE DEF C, L
    <3>9. \A f : f \in seen' <=>
             \/ f \in Confirmed(text)
             \/ \E c \in C : CandFits(t, c) /\ f \in CandFindings(t, c)
             \/ \E c \in L : LitFits(t, c) /\ f \in LitFindings(t, c)
      BY <3>1, InScan, InReady
    <3>2. ASSUME NEW c \in Cands(text), CandFits(text, c)
          PROVE  CandFits(t, c) /\ CandFindings(t, c) = CandFindings(text, c)
      BY <1>0, <3>2, FitsStable, CandidateFacts, CandFindingsStable DEF CandFits
    <3>3. ASSUME NEW c \in Lits(text), LitFits(text, c)
          PROVE  LitFits(t, c) /\ LitFindings(t, c) = LitFindings(text, c)
      <4>1. c.lo \in 1..Len(text) /\ c.rule \in Rules /\ {c.rule} \in SUBSET Rules
        BY <1>0, CandidateFacts
      <4>2. LitFits(t, c)
        BY <1>0, <3>3, <4>1, FitsStable DEF LitFits
      <4>3. ScanRule(t, c.rule, c.lo) = ScanRule(text, c.rule, c.lo)
        BY <1>0, <3>3, <4>1, ScanRuleStable DEF LitFits
      <4> QED BY <4>2, <4>3 DEF LitFindings
    <3>4. ASSUME NEW c \in Cands(text), ~CandFits(text, c)
          PROVE  c \in FedCandidates(chunk, t)
      BY <3>4, <2>3, InWaiting
    <3>5. ASSUME NEW c \in Lits(text), ~LitFits(text, c)
          PROVE  c \in FedLiterals(chunk, t)
      BY <3>5, <2>3, InWaiting
    <3>6. Cands(t) = Cands(text) \cup C /\ Lits(t) = Lits(text) \cup L
      BY <2>1, <2>2 DEF C, L
    <3>10. (\A c \in Cands(text) : ~CandFits(text, c) => c \in C)
           /\ (\A c \in Lits(text) : ~LitFits(text, c) => c \in L)
      BY <3>4, <3>5 DEF C, L
    <3>7. ASSUME NEW f \in seen' PROVE f \in Confirmed(t)
      <4>1. CASE f \in Confirmed(text)
        <5>1. CASE \E c \in Cands(text) : CandFits(text, c) /\ f \in CandFindings(text, c)
          BY <5>1, <3>2, <3>6, InConfirmed
        <5>2. CASE \E c \in Lits(text) : LitFits(text, c) /\ f \in LitFindings(text, c)
          BY <5>2, <3>3, <3>6, InConfirmed
        <5> QED BY <4>1, <5>1, <5>2, InConfirmed
      <4>2. CASE \E c \in C : CandFits(t, c) /\ f \in CandFindings(t, c)
        BY <4>2, <3>6, InConfirmed
      <4>3. CASE \E c \in L : LitFits(t, c) /\ f \in LitFindings(t, c)
        BY <4>3, <3>6, InConfirmed
      <4> QED BY <4>1, <4>2, <4>3, <3>9
    <3>8. ASSUME NEW f \in Confirmed(t) PROVE f \in seen'
      <4>1. CASE \E c \in Cands(t) : CandFits(t, c) /\ f \in CandFindings(t, c)
        <5>1. PICK c \in Cands(t) : CandFits(t, c) /\ f \in CandFindings(t, c)
          BY <4>1
        <5>2. CASE c \in C
          BY <5>1, <5>2, <3>9
        <5>3. CASE c \in Cands(text) /\ CandFits(text, c)
          BY <5>1, <5>3, <3>2, <3>9, InConfirmed
        <5> QED BY <5>2, <5>3, <3>6, <3>10
      <4>2. CASE \E c \in Lits(t) : LitFits(t, c) /\ f \in LitFindings(t, c)
        <5>1. PICK c \in Lits(t) : LitFits(t, c) /\ f \in LitFindings(t, c)
          BY <4>2
        <5>2. CASE c \in L
          BY <5>1, <5>2, <3>9
        <5>3. CASE c \in Lits(text) /\ LitFits(text, c)
          BY <5>1, <5>3, <3>3, <3>9, InConfirmed
        <5> QED BY <5>2, <5>3, <3>6, <3>10
      <4> QED BY <4>1, <4>2, <3>8, InConfirmed
    <3> QED BY <3>7, <3>8
  <2> QED BY <1>0, <2>4, <2>5, <2>6, <2>7 DEF ScanInv
<1> QED BY <1>1, <1>2

LEMMA FinalizeInv ==
  ASSUME ScanInv, Finalize
  PROVE  ScanInv'
<1>0. /\ ~drained /\ drained' /\ drained' \in BOOLEAN
      /\ text \in Seq(Char) /\ text' = text
      /\ pendingCandidates = Waiting(text) /\ pendingLiteral = WaitingLits(text)
      /\ deferredIBANStarts = Undecided(text) /\ seen = Confirmed(text)
  BY DEF Finalize, ScanInv
<1> DEFINE late == [kind : {"iban"}, lo : IBANStarts(text, Undecided(text))]
<1>1. seen' = Confirmed(text) \cup ScanLiterals(text, WaitingLits(text))
                             \cup ScanCandidates(text, Waiting(text) \cup late)
  BY <1>0 DEF Finalize
<1>2. late \subseteq Cands(text)
  BY DEF Cands, Undecided, IBANStarts
<1> HIDE DEF late
<1>3. ASSUME NEW f
      PROVE  f \in seen' <=> \/ f \in Confirmed(text)
                             \/ \E c \in WaitingLits(text) : f \in LitFindings(text, c)
                             \/ \E c \in Waiting(text) \cup late : f \in CandFindings(text, c)
  BY <1>1, InScan
<1>4. Waiting(text) \cup late \subseteq Cands(text) /\ WaitingLits(text) \subseteq Lits(text)
  BY <1>2, InWaiting
<1>5. ASSUME NEW f
      PROVE  f \in seen' <=> \/ \E c \in Cands(text) : f \in CandFindings(text, c)
                             \/ \E c \in Lits(text) : f \in LitFindings(text, c)
  BY <1>3, <1>4, InConfirmed, InWaiting
<1>6. seen' = Find(text)
  BY <1>0, <1>5, FindScansAll
<1>7. pendingCandidates' = {} /\ pendingLiteral' = {} /\ deferredIBANStarts' = {}
  BY DEF Finalize
<1> QED BY <1>0, <1>6, <1>7 DEF ScanInv

\* A chunk is a sequence of characters.
LEMMA ChunkIsSeq == \A chunk \in Chunks : chunk \in Seq(Char)
  BY CharAssumption DEF Chunks

\* The scan state is a function of the text, however it was cut into chunks.
THEOREM ScanInvariant == ScanSpec => []ScanInv
<1>1. ScanInv /\ [ScanNext]_scanVars => ScanInv'
  <2> SUFFICES ASSUME ScanInv, [ScanNext]_scanVars PROVE ScanInv'
    OBVIOUS
  <2>1. CASE ScanFeed
    BY <2>1, FeedInv, ChunkIsSeq DEF ScanFeed
  <2>2. CASE Finalize
    BY <2>2, FinalizeInv
  <2>3. CASE UNCHANGED scanVars
    BY <2>3 DEF ScanInv, scanVars
  <2> QED BY <2>1, <2>2, <2>3 DEF ScanNext
<1> QED BY InitInv, <1>1, PTL DEF ScanSpec

\* Streaming reports exactly what Find reports on the whole text.
THEOREM StreamingIsFind == ScanSpec => []StreamEqualsFind
<1>1. ScanInv => StreamEqualsFind
  BY DEF ScanInv, StreamEqualsFind
<1> QED BY <1>1, ScanInvariant, PTL

\* Nothing is reported that the bytes received so far do not confirm for good.
THEOREM NeverTooEarly == ScanSpec => []NothingConfirmedTooEarly
<1>1. ScanInv => NothingConfirmedTooEarly
  BY FindScansAll, InConfirmed DEF ScanInv, NothingConfirmedTooEarly
<1> QED BY <1>1, ScanInvariant, PTL

-----------------------------------------------------------------------------
LEMMA SeqIsFunction ==
  ASSUME NEW s \in Seq(Char)
  PROVE  s \in [1..Len(s) -> Char]
  OBVIOUS

\* The window of a candidate is one the matcher is defined for, and lies in
\* the text.
LEMMA WindowFacts ==
  ASSUME NEW t \in Seq(Char), NEW r \in Rules, NEW lo \in 1..Len(t)
  PROVE  /\ Window(t, r, lo) \in Windows(r)
         /\ WindowFirst(lo) \in 1..lo
         /\ Len(Window(t, r, lo)) \in Nat
         /\ WindowFirst(lo) - 1 + Len(Window(t, r, lo)) <= Len(t)
<1> DEFINE a == WindowFirst(lo)
           b == WindowLast(t, r, lo)
<1>1. MaxLen[r] \in Nat \ {0} /\ Len(t) \in Nat
  BY RulesAssumption
<1>2. a \in 1..lo /\ a >= lo - 1
  BY DEF WindowFirst
<1>3. b \in lo..Len(t) /\ b <= lo + MaxLen[r]
  BY <1>1 DEF WindowLast
<1> HIDE DEF a, b
<1>4. SubSeq(t, a, b) \in Seq(Char) /\ Len(SubSeq(t, a, b)) = b - a + 1
  BY <1>2, <1>3
<1>5. b - a + 1 \in 0..(MaxLen[r] + 2)
  BY <1>1, <1>2, <1>3
<1>6. SubSeq(t, a, b) \in [1..(b - a + 1) -> Char]
  BY <1>4, SeqIsFunction
<1>7. SubSeq(t, a, b) \in Windows(r)
  BY <1>5, <1>6 DEF Windows
<1>8. Window(t, r, lo) = SubSeq(t, a, b)
  BY DEF Window, a, b
<1>9. a - 1 + (b - a + 1) <= Len(t) /\ b - a + 1 \in Nat
  BY <1>2, <1>3
<1> QED BY <1>2, <1>4, <1>7, <1>8, <1>9 DEF a

\* A finding starts at or after its candidate and ends in the text.
LEMMA ScanRuleFacts ==
  ASSUME NEW t \in Seq(Char), NEW r \in Rules, NEW lo \in 1..Len(t),
         NEW f \in ScanRule(t, r, lo)
  PROVE  f \in Findings /\ lo <= f.lo /\ f.lo <= f.hi /\ f.hi <= Len(t)
<1> DEFINE w == Window(t, r, lo)
           base == WindowFirst(lo) - 1
<1>1. PICK m \in Match(r, w) : /\ base + m.at >= lo /\ m.lo <= m.hi
                               /\ f = [rule |-> r, lo |-> base + m.lo, hi |-> base + m.hi]
  BY DEF ScanRule
<1>2. w \in Windows(r) /\ base \in Nat /\ Len(w) \in Nat /\ base + Len(w) <= Len(t)
  BY WindowFacts
<1>3. m.at \in 1..Len(w) /\ m.lo \in m.at..Len(w) + 1 /\ m.hi \in (m.lo - 1)..Len(w)
  BY <1>1, <1>2, MatchAssumption
<1> HIDE DEF w, base
<1>4. f.rule = r /\ f.lo = base + m.lo /\ f.hi = base + m.hi
  BY <1>1
<1>7. base \in Nat /\ m.lo \in Int /\ m.hi \in Int /\ m.lo >= 1 /\ m.hi >= 1
  <2>1. m.at \in Int /\ m.at >= 1
    BY <1>2, <1>3
  <2>2. m.lo \in Int /\ m.lo >= 1
    BY <1>2, <1>3, <2>1
  <2>3. m.hi \in Int /\ m.hi >= 1
    BY <1>1, <1>2, <1>3, <2>2
  <2> QED BY <1>2, <2>2, <2>3
<1>5. base + m.lo \in Nat \ {0} /\ base + m.hi \in Nat \ {0}
  BY <1>7
<1>6. f \in Findings
  BY <1>1, <1>5 DEF Findings
<1>8. m.lo <= m.hi /\ m.hi <= Len(w) /\ m.at <= m.lo /\ m.at \in Int /\ base + m.at >= lo
  BY <1>1, <1>2, <1>3
<1>9. lo <= base + m.lo /\ base + m.lo <= base + m.hi /\ base + m.hi <= Len(t)
  BY <1>2, <1>7, <1>8
<1> QED BY <1>4, <1>6, <1>9

\* So does what a candidate of either sort yields.
LEMMA CandidateFindingFacts ==
  ASSUME NEW t \in Seq(Char)
  PROVE  /\ \A c \in Cands(t) : \A f \in CandFindings(t, c) :
              f \in Findings /\ c.lo <= f.lo /\ f.lo <= f.hi /\ f.lo <= Len(t)
         /\ \A c \in Lits(t) : \A f \in LitFindings(t, c) :
              f \in Findings /\ c.lo <= f.lo /\ f.lo <= f.hi /\ f.lo <= Len(t)
<1>1. ASSUME NEW c \in Cands(t), NEW f \in CandFindings(t, c)
      PROVE  f \in Findings /\ c.lo <= f.lo /\ f.lo <= f.hi /\ f.lo <= Len(t)
  <2>1. c.lo \in 1..Len(t) /\ RulesOf(c.kind) \subseteq Rules
    BY CandidateFacts
  <2>2. PICK r \in Rules : f \in ScanRule(t, r, c.lo)
    BY <2>1 DEF CandFindings, ScanKind
  <2>3. f \in Findings /\ c.lo <= f.lo /\ f.lo <= f.hi /\ f.hi <= Len(t)
    BY <2>1, <2>2, ScanRuleFacts
  <2> QED BY <2>3 DEF Findings
<1>2. ASSUME NEW c \in Lits(t), NEW f \in LitFindings(t, c)
      PROVE  f \in Findings /\ c.lo <= f.lo /\ f.lo <= f.hi /\ f.lo <= Len(t)
  <2>1. c.lo \in 1..Len(t) /\ c.rule \in Rules
    BY CandidateFacts
  <2>2. f \in ScanRule(t, c.rule, c.lo)
    BY DEF LitFindings
  <2>3. f \in Findings /\ c.lo <= f.lo /\ f.lo <= f.hi /\ f.hi <= Len(t)
    BY <2>1, <2>2, ScanRuleFacts
  <2> QED BY <2>3 DEF Findings
<1> QED BY <1>1, <1>2

\* The type invariant of the scan state.
THEOREM ScanTypeCorrect == ScanSpec => []ScanTypeOK
<1>1. ASSUME ScanInv PROVE ScanTypeOK
  <2>1. text \in Seq(Char) /\ drained \in BOOLEAN
    BY <1>1 DEF ScanInv
  <2>2. Cands(text) \subseteq [kind : {"digit", "iban"}, lo : 1..Len(text)]
    BY DEF Cands, DigitStarts, IBANStarts
  <2>3. Lits(text) \subseteq [rule : RulesOf("literal"), lo : 1..Len(text)]
    BY DEF Lits, KeywordHits
  <2>4. Undecided(text) \subseteq 1..Len(text)
    BY DEF Undecided
  <2>5. Find(text) \subseteq Findings
    BY <2>1, FindScansAll, CandidateFindingFacts
  <2>6. Confirmed(text) \subseteq Findings
    BY <2>1, InConfirmed, CandidateFindingFacts
  <2> QED BY <1>1, <2>1, <2>2, <2>3, <2>4, <2>5, <2>6, InWaiting DEF ScanInv, ScanTypeOK
<1> QED BY <1>1, ScanInvariant, PTL

-----------------------------------------------------------------------------
\* The hold-back.  A candidate that waits is held, with all that follows it.
LEMMA WaitingIsHeld ==
  ASSUME ScanInv, ~drained, NEW p \in 1..Len(text), NEW c,
         c \in Waiting(text) \cup WaitingLits(text), c.lo <= p
  PROVE  p \in HeldBytes
  BY DEF ScanInv, HeldBytes, UndecidedStarts

\* What Find would report on the text received so far is confirmed or held.
THEOREM FindingsAreHeld == ScanSpec => []UnconfirmedIsHeld
<1>1. ASSUME ScanInv PROVE UnconfirmedIsHeld
  <2> SUFFICES ASSUME NEW f \in Find(text), f \notin seen, ~drained PROVE f.lo \in HeldBytes
    BY DEF UnconfirmedIsHeld
  <2>1. text \in Seq(Char) /\ f \notin Confirmed(text)
    BY <1>1 DEF ScanInv
  <2>2. \/ \E c \in Cands(text) : f \in CandFindings(text, c)
        \/ \E c \in Lits(text) : f \in LitFindings(text, c)
    BY <2>1, FindScansAll
  <2>3. PICK c \in Waiting(text) \cup WaitingLits(text) :
          f \in Findings /\ c.lo <= f.lo /\ f.lo <= Len(text)
    BY <2>1, <2>2, InConfirmed, InWaiting, CandidateFindingFacts
  <2>4. f.lo \in 1..Len(text)
    BY <2>1, <2>3 DEF Findings
  <2> QED BY <1>1, <2>3, <2>4, WaitingIsHeld
<1> QED BY <1>1, ScanInvariant, PTL

\* A keyword that ends in the chunk but starts before it is a live prefix.
LEMMA CutKeywordIsPartial ==
  ASSUME NEW t \in Seq(Char), NEW k \in Seq(Char), NEW c \in Lits(t \o k),
         c \notin Lits(t), c.lo <= Len(t)
  PROVE  c.lo \in PartialStarts(t)
<1> DEFINE u == t \o k
<1>1. Len(u) = Len(t) + Len(k) /\ Len(t) \in Nat /\ Len(k) \in Nat
  BY AppendFacts
<1>2. c \in [rule : RulesOf("literal"), lo : 1..Len(u)]
  BY DEF Lits, KeywordHits
<1>3. PICK w \in FoldedKeywords(c.rule) : /\ c.lo + Len(w) - 1 \in 1..Len(u)
                                          /\ Spells(u, c.lo, w, Len(w))
  BY DEF Lits, KeywordHits
<1>4. c.rule \in RulesOf("literal") /\ Len(w) \in Nat \ {0} /\ c.lo \in 1..Len(t)
  BY <1>1, <1>2, <1>3, KeywordFacts
<1>5. c.lo + Len(w) - 1 > Len(t)
  <2> SUFFICES ASSUME c.lo + Len(w) - 1 <= Len(t) PROVE FALSE
    BY <1>1, <1>4
  <2>1. Spells(t, c.lo, w, Len(w))
    BY <1>1, <1>3, <1>4, SpellsStable
  <2>2. c \in [rule : RulesOf("literal"), lo : 1..Len(t)]
    BY <1>2, <1>4
  <2>3. c.lo + Len(w) - 1 \in 1..Len(t)
    BY <1>1, <1>4
  <2> QED BY <1>3, <2>1, <2>2, <2>3 DEF Lits, KeywordHits
<1> DEFINE n == Len(t) - c.lo + 1
<1>6. n \in Nat /\ n <= Len(w) /\ c.lo + n - 1 <= Len(t)
  BY <1>1, <1>4, <1>5
<1> HIDE DEF n
<1>7. Spells(u, c.lo, w, n)
  <2>1. \A i \in 1..n : i \in 1..Len(w)
    BY <1>4, <1>6
  <2> QED BY <1>3, <2>1 DEF Spells
<1>8. Spells(t, c.lo, w, n)
  BY <1>4, <1>6, <1>7, SpellsStable
<1> QED BY <1>3, <1>4, <1>6, <1>8 DEF PartialStarts, n

\* A finding of another rule than an IBAN one in the longer text is one that was
\* confirmed already, one that is held, or one that starts in the chunk.
LEMMA NewCandidateIsHeld ==
  ASSUME ScanInv, ~drained, NEW chunk \in Seq(Char),
         NEW f \in Find(text \o chunk), f \notin seen, f.rule \notin RulesOf("iban")
  PROVE  f.lo \in HeldBytes \/ f.lo > Len(text)
<1> DEFINE t == text \o chunk
<1>0. /\ text \in Seq(Char) /\ t \in Seq(Char) /\ Len(text) \in Nat /\ Len(chunk) \in Nat
      /\ Len(t) = Len(text) + Len(chunk) /\ f \notin Confirmed(text)
  BY AppendFacts DEF ScanInv
<1>1. CASE \E c \in Cands(t) : f \in CandFindings(t, c)
  <2>1. PICK c \in Cands(t) : f \in CandFindings(t, c)
    BY <1>1
  <2>2. f.lo \in Nat /\ c.lo <= f.lo /\ c.lo \in 1..Len(t)
    BY <1>0, <2>1, CandidateFindingFacts, CandidateFacts DEF Findings
  <2>3. c.kind # "iban"
    <3>1. PICK r \in RulesOf(c.kind) : f \in ScanRule(t, r, c.lo)
      BY <2>1 DEF CandFindings, ScanKind
    <3>2. f.rule = r
      BY <3>1 DEF ScanRule
    <3> QED BY <3>1, <3>2
  <2>4. c \in [kind : {"digit"}, lo : 1..Len(t)] /\ DigitStart(t, c.lo)
    <3>1. c \in [kind : {"iban"}, lo : 1..Len(t)] => c.kind = "iban"
      OBVIOUS
    <3> QED BY <2>1, <2>3, <3>1, InCands
  <2>5. CASE c.lo <= Len(text) /\ f.lo <= Len(text)
    <3>1. c.lo \in 1..Len(text) /\ f.lo \in 1..Len(text)
      BY <1>0, <2>2, <2>5
    <3>2. DigitStart(text, c.lo)
      BY <1>0, <2>4, <3>1, DigitStartStable
    <3>3. c \in [kind : {"digit"}, lo : 1..Len(text)]
      BY <2>4, <3>1
    <3>4. c \in Cands(text)
      BY <3>2, <3>3, InCands
    <3>5. ~CandFits(text, c)
      BY <1>0, <2>1, <3>4, CandFindingsStable, InConfirmed
    <3> QED BY <2>2, <3>1, <3>4, <3>5, InWaiting, WaitingIsHeld
  <2> QED BY <1>0, <2>2, <2>5
<1>2. CASE \E c \in Lits(t) : f \in LitFindings(t, c)
  <2>1. PICK c \in Lits(t) : f \in LitFindings(t, c)
    BY <1>2
  <2>2. f.lo \in Nat /\ c.lo <= f.lo /\ c.lo \in 1..Len(t) /\ c.rule \in Rules
    BY <1>0, <2>1, CandidateFindingFacts, CandidateFacts DEF Findings
  <2>3. CASE c.lo <= Len(text) /\ f.lo <= Len(text)
    <3>1. c.lo \in 1..Len(text) /\ f.lo \in 1..Len(text)
      BY <1>0, <2>2, <2>3
    <3>2. CASE c \in Lits(text)
      <4>1. ~LitFits(text, c)
        <5> SUFFICES ASSUME LitFits(text, c) PROVE FALSE
          OBVIOUS
        <5>1. ScanRule(t, c.rule, c.lo) = ScanRule(text, c.rule, c.lo)
          BY <1>0, <2>2, <3>1, ScanRuleStable DEF LitFits
        <5>2. f \in LitFindings(text, c)
          BY <2>1, <5>1 DEF LitFindings
        <5> QED BY <1>0, <3>2, <5>2, InConfirmed
      <4> QED BY <2>2, <3>1, <3>2, <4>1, InWaiting, WaitingIsHeld
    <3>3. CASE c \notin Lits(text)
      <4>1. c.lo \in PartialStarts(text)
        BY <1>0, <2>1, <2>3, <3>3, CutKeywordIsPartial
      <4> QED BY <2>2, <3>1, <4>1 DEF HeldBytes, UndecidedStarts
    <3> QED BY <3>2, <3>3
  <2> QED BY <1>0, <2>2, <2>3
<1> QED BY <1>0, <1>1, <1>2, FindScansAll

\* No step confirms a finding of any rule but an IBAN one in bytes that holdLen
\* had already let go.
THEOREM NothingLate == ScanSpec => NoLateFinding
<1>1. ASSUME ScanInv, ScanInv', [ScanNext]_scanVars
      PROVE  [\A f \in seen' \ seen :
                f.rule \in RulesOf("iban") \/ f.lo \in HeldBytes \/ f.lo > Len(text)]_scanVars
  <2> SUFFICES ASSUME ScanNext, NEW f \in seen', f \notin seen, f.rule \notin RulesOf("iban")
               PROVE  f.lo \in HeldBytes \/ f.lo > Len(text)
    BY <1>1
  <2>1. CASE ScanFeed
    <3>1. PICK chunk \in Seq(Char) : Feed(chunk)
      BY <2>1, ChunkIsSeq DEF ScanFeed
    <3>2. ~drained /\ ~drained' /\ text' = text \o chunk
      BY <3>1, <1>1 DEF Feed
    <3>3. f \in Find(text \o chunk)
      <4>1. text' \in Seq(Char) /\ seen' = Confirmed(text')
        BY <1>1, <3>2 DEF ScanInv
      <4>2. f \in Find(text')
        BY <4>1, FindScansAll, InConfirmed
      <4> QED BY <3>2, <4>2
    <3> QED BY <1>1, <3>2, <3>3, NewCandidateIsHeld
  <2>2. CASE Finalize
    <3>1. ~drained /\ text' = text /\ drained'
      BY <2>2 DEF Finalize
    <3>2. text \in Seq(Char) /\ text \o <<>> = text /\ <<>> \in Seq(Char)
      BY <1>1 DEF ScanInv
    <3>3. f \in Find(text)
      BY <1>1, <3>1 DEF ScanInv
    <3> QED BY <1>1, <3>1, <3>2, <3>3, NewCandidateIsHeld
  <2> QED BY <2>1, <2>2 DEF ScanNext
<1> QED BY <1>1, ScanInvariant, PTL DEF ScanSpec, NoLateFinding

\* Whatever the pack: beyond the keyword being spelt, never more bytes are held
\* than the max_match_len of a rule that is anchored where the hold begins.
THEOREM HoldIsBounded == ScanSpec => []HoldBounded
<1>1. ASSUME ScanInv PROVE HoldBounded
  <2> SUFFICES ASSUME ~drained, NEW lo \in UndecidedStarts, lo \notin PartialStarts(text)
               PROVE  \E r \in Rules : Anchored(text, r, lo) /\ Len(text) - lo + 1 <= MaxLen[r]
    BY DEF HoldBounded
  <2>0. text \in Seq(Char) /\ Len(text) \in Nat
    BY <1>1 DEF ScanInv
  <2>1. CASE \E c \in Waiting(text) : lo = c.lo
    <3>1. PICK c \in Cands(text) : lo = c.lo /\ ~CandFits(text, c)
      BY <2>1, InWaiting
    <3>2. lo \in 1..Len(text) /\ RulesOf(c.kind) \subseteq Rules
      BY <2>0, <3>1, CandidateFacts
    <3>3. PICK r \in RulesOf(c.kind) : ~(lo + MaxLen[r] <= Len(text))
      BY <3>1 DEF CandFits, Fits
    <3>4. r \in Rules /\ MaxLen[r] \in Nat
      BY <3>2, <3>3, RulesAssumption
    <3>5. \/ c.kind = "digit" /\ DigitStart(text, lo)
          \/ c.kind = "iban" /\ IBANStart(text, lo)
      <4>1. /\ c \in [kind : {"digit"}, lo : 1..Len(text)] => c.kind = "digit"
            /\ c \in [kind : {"iban"}, lo : 1..Len(text)] => c.kind = "iban"
        OBVIOUS
      <4> QED BY <3>1, <4>1, InCands
    <3>6. Anchored(text, r, lo)
      BY <3>3, <3>5 DEF Anchored
    <3> QED BY <2>0, <3>2, <3>3, <3>4, <3>6
  <2>2. CASE \E c \in WaitingLits(text) : lo = c.lo
    <3>1. PICK c \in Lits(text) : lo = c.lo /\ ~LitFits(text, c)
      BY <2>2, InWaiting
    <3>2. lo \in 1..Len(text) /\ c.rule \in Rules
      BY <2>0, <3>1, CandidateFacts
    <3>3. ~(lo + MaxLen[c.rule] <= Len(text)) /\ MaxLen[c.rule] \in Nat
      BY <3>1, <3>2, RulesAssumption DEF LitFits, Fits
    <3>4. Anchored(text, c.rule, lo)
      <4>1. c = [rule |-> c.rule, lo |-> lo]
        BY <3>1 DEF Lits, KeywordHits
      <4> QED BY <3>1, <4>1 DEF Anchored, Lits
    <3> QED BY <2>0, <3>2, <3>3, <3>4
  <2> QED BY <1>1, <2>1, <2>2 DEF UndecidedStarts, ScanInv
<1> QED BY <1>1, ScanInvariant, PTL

-----------------------------------------------------------------------------
(***************************************************************************)
(* StreamGate.                                                             *)
(***************************************************************************)

Event == [from : Nat, to : Nat]

\* The i-th event of the stream, released or not.
Total == Len(client) + Len(pendingEvents)
From(i) == IF i <= Len(client) THEN client[i].from ELSE pendingEvents[i - Len(client)].from
To(i) == IF i <= Len(client) THEN client[i].to ELSE pendingEvents[i - Len(client)].to

\* Events follow each other from the first byte of the text to its last.
Chain ==
  /\ \A i \in 1..Total : /\ From(i) \in Nat /\ To(i) \in Nat /\ From(i) <= To(i)
                         /\ From(i) = IF i = 1 THEN 0 ELSE To(i - 1)
  /\ \A i, j \in 1..Total : i <= j => To(i) <= To(j)
  /\ Len(text) = IF Total = 0 THEN 0 ELSE To(Total)

Streaming ==
  /\ ~drained /\ ~blocked /\ ledger = <<>>
  /\ maskSpans = {f \in seen : Masking(f)}
  /\ \A f \in seen : ~Blocking(f)
  /\ client \in Seq(Frame) /\ pendingEvents \in Seq(Event)
  /\ Chain
  /\ pendingEvents # <<>> => pendingEvents[1].to \in HeldBytes

\* The verdict of a record is the policy's verdict on the findings seen.
VerdictOf(record) ==
  /\ record.verdict = "blocked" => \E f \in seen : Blocking(f)
  /\ record.verdict # "blocked" =>
       /\ drained
       /\ \A f \in seen : ~Blocking(f)
       /\ record.verdict = IF \E f \in seen : Masking(f) THEN "masked" ELSE "forwarded"

\* One record, and nothing is left to decide.
Ended ==
  /\ drained \/ blocked
  /\ \E record : /\ ledger = <<record>>
                 /\ VerdictOf(record)
                 /\ record.verdict # "blocked" => drained /\ record.findings = Summary(seen)

\* The invariant of the handler.
GateInv ==
  /\ ScanInv
  /\ phase = "streaming" => Streaming
  /\ phase # "streaming" => Ended /\ phase = "done"
  /\ OnlyFindingsRewritten

-----------------------------------------------------------------------------
\* Writing events to the client.
LEMMA WriteFacts ==
  ASSUME NEW cl \in Seq(Frame), NEW es \in Seq(Event), NEW sp
  PROVE  LET c2 == cl \o MaskAll(es, sp)
         IN  /\ c2 \in Seq(Frame) /\ Len(c2) = Len(cl) + Len(es)
             /\ \A i \in 1..Len(cl) : c2[i] = cl[i]
             /\ \A i \in 1..Len(es) : c2[Len(cl) + i] = Masked(es[i], sp)
<1> DEFINE m == MaskAll(es, sp)
<1>1. ASSUME NEW i \in 1..Len(es) PROVE Masked(es[i], sp) \in Frame
  <2>0. es[i] \in Event
    OBVIOUS
  <2>1. es[i].from \in Nat /\ es[i].to \in Nat
    BY <2>0 DEF Event
  <2>2. Stars(es[i], sp) \in SUBSET (Nat \ {0})
    BY <2>1 DEF Stars
  <2> QED BY <2>1, <2>2 DEF Masked, Frame
<1>2. m \in Seq(Frame) /\ Len(m) = Len(es) /\ \A i \in 1..Len(es) : m[i] = Masked(es[i], sp)
  BY <1>1 DEF MaskAll
<1> HIDE DEF m
<1>3. cl \o m \in Seq(Frame) /\ Len(cl \o m) = Len(cl) + Len(es)
  BY <1>2
<1>4. \A i \in 1..(Len(cl) + Len(m)) :
        (cl \o m)[i] = IF i <= Len(cl) THEN cl[i] ELSE m[i - Len(cl)]
  BY <1>2, ConcatProperties
<1>5. ASSUME NEW i \in 1..Len(es) PROVE (cl \o m)[Len(cl) + i] = m[i]
  <2>1. /\ Len(cl) + i \in 1..(Len(cl) + Len(m)) /\ ~(Len(cl) + i <= Len(cl))
        /\ Len(cl) + i - Len(cl) = i
    BY <1>2
  <2> QED BY <1>4, <2>1
<1>6. ASSUME NEW i \in 1..Len(cl) PROVE (cl \o m)[i] = cl[i]
  BY <1>2, <1>4
<1> QED BY <1>2, <1>3, <1>5, <1>6 DEF m

\* Cutting a sequence of events in two.
LEMMA CutFacts ==
  ASSUME NEW es \in Seq(Event), NEW n \in 0..Len(es)
  PROVE  LET s == SubSeq(es, 1, n)
             p2 == SubSeq(es, n + 1, Len(es))
         IN  /\ s \in Seq(Event) /\ Len(s) = n /\ \A i \in 1..n : s[i] = es[i]
             /\ p2 \in Seq(Event) /\ Len(p2) = Len(es) - n
             /\ \A i \in 1..(Len(es) - n) : p2[i] = es[n + i]
  OBVIOUS

\* What a flush of the first n of the events es makes of the client's frames cl.
FlushResult(cl, es, sp, n, c2, p2) ==
  /\ c2 \in Seq(Frame) /\ Len(c2) = Len(cl) + n
  /\ \A i \in 1..Len(cl) : c2[i] = cl[i]
  /\ \A i \in (Len(cl) + 1)..(Len(cl) + n) : c2[i] = Masked(es[i - Len(cl)], sp)
  /\ p2 \in Seq(Event) /\ Len(p2) = Len(es) - n
  /\ \A i \in 1..(Len(es) - n) : p2[i] = es[n + i]

LEMMA FlushFacts ==
  ASSUME NEW cl \in Seq(Frame), NEW es \in Seq(Event), NEW sp, NEW n \in 0..Len(es)
  PROVE  FlushResult(cl, es, sp, n, cl \o MaskAll(SubSeq(es, 1, n), sp),
                     SubSeq(es, n + 1, Len(es)))
<1> DEFINE s == SubSeq(es, 1, n)
           p2 == SubSeq(es, n + 1, Len(es))
           c2 == cl \o MaskAll(s, sp)
<1>1. /\ s \in Seq(Event) /\ Len(s) = n /\ \A i \in 1..n : s[i] = es[i]
      /\ p2 \in Seq(Event) /\ Len(p2) = Len(es) - n
      /\ \A i \in 1..(Len(es) - n) : p2[i] = es[n + i]
  BY CutFacts
<1> HIDE DEF s, p2
<1>2. /\ c2 \in Seq(Frame) /\ Len(c2) = Len(cl) + Len(s)
      /\ \A i \in 1..Len(cl) : c2[i] = cl[i]
      /\ \A i \in 1..Len(s) : c2[Len(cl) + i] = Masked(s[i], sp)
  BY <1>1, WriteFacts
<1> HIDE DEF c2
<1>3. ASSUME NEW i \in (Len(cl) + 1)..(Len(cl) + n) PROVE c2[i] = Masked(es[i - Len(cl)], sp)
  <2>1. i - Len(cl) \in 1..n /\ Len(cl) + (i - Len(cl)) = i
    OBVIOUS
  <2> QED BY <1>1, <1>2, <2>1
<1> QED BY <1>1, <1>2, <1>3 DEF s, p2, c2, FlushResult

\* The hold only advances: bytes let go are not held again.  An IBAN start can
\* be taken back to, which is why there may be no IBAN rule.
LEMMA HoldAdvances ==
  ASSUME ScanInv, RulesOf("iban") = {}, NEW chunk \in Seq(Char), Feed(chunk),
         NEW p \in 1..Len(text), p \in HeldBytes'
  PROVE  p \in HeldBytes
<1> DEFINE t == text \o chunk
<1>0. /\ ~drained /\ ~drained' /\ text' = t /\ text \in Seq(Char) /\ t \in Seq(Char)
      /\ Len(t) = Len(text) + Len(chunk) /\ Len(text) \in Nat /\ Len(chunk) \in Nat
  BY AppendFacts DEF Feed, ScanInv
<1>1. pendingCandidates' = Waiting(t) /\ pendingLiteral' = WaitingLits(t)
  BY <1>0, FeedInv DEF ScanInv
<1> HIDE DEF t
<1>2. PICK lo \in UndecidedStarts' : lo <= p
  BY DEF HeldBytes
<1>3. \/ lo \in PartialStarts(t)
      \/ \E c \in Waiting(t) : lo = c.lo
      \/ \E c \in WaitingLits(t) : lo = c.lo
  BY <1>0, <1>1 DEF UndecidedStarts
<1>4. CASE lo \in PartialStarts(t)
  <2>0. lo \in 1..Len(text)
    BY <1>0, <1>2, <1>4 DEF PartialStarts
  <2>1. PICK r \in RulesOf("literal") : \E k \in FoldedKeywords(r) :
           Len(t) - lo + 1 <= Len(k) /\ Spells(t, lo, k, Len(t) - lo + 1)
    BY <1>4 DEF PartialStarts
  <2>2. PICK k \in FoldedKeywords(r) :
           Len(t) - lo + 1 <= Len(k) /\ Spells(t, lo, k, Len(t) - lo + 1)
    BY <2>1
  <2> DEFINE n == Len(text) - lo + 1
  <2>3. n \in Nat /\ lo + n - 1 <= Len(text) /\ n <= Len(t) - lo + 1
        /\ Len(t) - lo + 1 \in Nat /\ lo \in Nat \ {0} /\ n <= Len(k)
    BY <1>0, <2>0, <2>2, KeywordFacts
  <2> HIDE DEF n
  <2>4. Spells(t, lo, k, n)
    BY <2>2, <2>3 DEF Spells
  <2>5. Spells(text, lo, k, n)
    BY <1>0, <2>3, <2>4, SpellsStable DEF t
  <2>6. lo \in PartialStarts(text)
    BY <2>0, <2>2, <2>3, <2>5 DEF PartialStarts, n
  <2> QED BY <1>2, <2>6 DEF HeldBytes, UndecidedStarts
<1>5. CASE \E c \in Waiting(t) : lo = c.lo
  <2>1. PICK c \in Cands(t) : lo = c.lo /\ ~CandFits(t, c)
    BY <1>5, InWaiting
  <2>2. c \notin [kind : {"iban"}, lo : 1..Len(t)]
    BY <2>1 DEF CandFits, Fits
  <2>3. c \in [kind : {"digit"}, lo : 1..Len(t)] /\ DigitStart(t, c.lo)
    BY <2>1, <2>2, InCands
  <2>4. c.lo \in 1..Len(text)
    BY <1>0, <1>2, <2>1, <2>3
  <2>5. DigitStart(text, c.lo)
    BY <1>0, <2>3, <2>4, DigitStartStable DEF t
  <2>6. c \in [kind : {"digit"}, lo : 1..Len(text)]
    BY <2>3, <2>4
  <2>7. c \in Cands(text)
    BY <2>5, <2>6, InCands
  <2>8. ~CandFits(text, c)
    <3>1. c.lo \in Nat /\ RulesOf(c.kind) \in SUBSET Rules
      BY <2>4 DEF RulesOf
    <3> QED BY <1>0, <2>1, <3>1, FitsStable DEF CandFits, t
  <2> QED BY <1>0, <1>2, <2>1, <2>7, <2>8, InWaiting, WaitingIsHeld
<1>6. CASE \E c \in WaitingLits(t) : lo = c.lo
  <2>1. PICK c \in Lits(t) : lo = c.lo /\ ~LitFits(t, c)
    BY <1>6, InWaiting
  <2>2. c.lo \in 1..Len(text) /\ c.rule \in Rules
    BY <1>0, <1>2, <2>1, CandidateFacts
  <2>3. CASE c \in Lits(text)
    <3>1. ~LitFits(text, c)
      <4>1. c.lo \in Nat /\ {c.rule} \in SUBSET Rules
        BY <2>2
      <4> QED BY <1>0, <2>1, <4>1, FitsStable DEF LitFits, t
    <3> QED BY <1>0, <1>2, <2>1, <2>3, <3>1, InWaiting, WaitingIsHeld
  <2>4. CASE c \notin Lits(text)
    <3>1. c.lo \in PartialStarts(text)
      BY <1>0, <2>1, <2>2, <2>4, CutKeywordIsPartial DEF t
    <3> QED BY <1>2, <2>1, <3>1 DEF HeldBytes, UndecidedStarts
  <2> QED BY <2>3, <2>4
<1> QED BY <1>3, <1>4, <1>5, <1>6

-----------------------------------------------------------------------------
\* The event that a token with this chunk becomes.
EventOf(chunk) == [from |-> Len(text), to |-> Len(text) + Len(chunk)]

\* The first n of the events es are written, and a flush of them, position by
\* position.
Wrote(c, n, es) ==
  /\ Len(client) = c /\ Len(client') = c + n /\ client' \in Seq(Frame)
  /\ \A i \in 1..c : client'[i] = client[i]
  /\ \A i \in (c + 1)..(c + n) : client'[i] = Masked(es[i - c], maskSpans')

Flushed(c, k, n, es) ==
  /\ Wrote(c, n, es)
  /\ Len(pendingEvents) = k /\ Len(pendingEvents') = k + 1 - n
  /\ pendingEvents' \in Seq(Event)
  /\ \A i \in 1..(k + 1 - n) : pendingEvents'[i] = es[n + i]

LEMMA FlushIsFlushed ==
  ASSUME NEW es \in Seq(Event), client \in Seq(Frame), pendingEvents \in Seq(Event),
         NEW c, c = Len(client), NEW k, k = Len(pendingEvents), Len(es) = k + 1,
         NEW n \in 0..(k + 1),
         client' = client \o MaskAll(SubSeq(es, 1, n), maskSpans'),
         pendingEvents' = SubSeq(es, n + 1, Len(es))
  PROVE  Flushed(c, k, n, es)
<1>1. c \in Nat /\ k \in Nat /\ n \in Nat /\ n \in 0..Len(es)
  OBVIOUS
<1>2. FlushResult(client, es, maskSpans', n, client', pendingEvents')
  BY <1>1, FlushFacts
<1>3. k + 1 - n = Len(es) - n
  OBVIOUS
<1> QED BY <1>1, <1>2, <1>3 DEF Flushed, Wrote, FlushResult

\* A flush moves the cut; it changes no event.
LEMMA FlushMovesTheCut ==
  ASSUME NEW c \in Nat, NEW k \in Nat, NEW n \in 0..(k + 1), NEW es,
         Flushed(c, k, n, es),
         \A i \in 1..k : es[i] = pendingEvents[i]
  PROVE  /\ Total = c + k /\ Total' = c + k + 1
         /\ \A i \in 1..(c + k) : From(i)' = From(i) /\ To(i)' = To(i)
         /\ From(c + k + 1)' = es[k + 1].from /\ To(c + k + 1)' = es[k + 1].to
<1>0. n \in Nat /\ n <= k + 1
  OBVIOUS
<1>1. ASSUME NEW i \in (c + 1)..(c + k + 1)
      PROVE  From(i)' = es[i - c].from /\ To(i)' = es[i - c].to
  <2>1. CASE i <= c + n
    <3>1. i \in (c + 1)..(c + n)
      BY <2>1
    <3>2. client'[i] = Masked(es[i - c], maskSpans') /\ i <= Len(client')
      BY <2>1, <3>1 DEF Flushed, Wrote
    <3>3. From(i)' = client'[i].from /\ To(i)' = client'[i].to
      BY <3>2 DEF From, To
    <3> QED BY <3>2, <3>3 DEF Masked
  <2>2. CASE i > c + n
    <3>1. i - c - n \in 1..(k + 1 - n) /\ n + (i - c - n) = i - c
      BY <2>2
    <3>2. ~(i <= Len(client')) /\ i - Len(client') = i - c - n
      BY <2>2 DEF Flushed, Wrote
    <3>3. From(i)' = pendingEvents'[i - c - n].from /\ To(i)' = pendingEvents'[i - c - n].to
      BY <3>2 DEF From, To
    <3>4. pendingEvents'[i - c - n] = es[n + (i - c - n)]
      BY <3>1 DEF Flushed, Wrote
    <3> QED BY <3>1, <3>3, <3>4
  <2> QED BY <2>1, <2>2
<1>2. ASSUME NEW i \in 1..(c + k) PROVE From(i)' = From(i) /\ To(i)' = To(i)
  <2>1. CASE i <= c
    <3>1. i \in 1..c /\ i <= c + n
      BY <2>1
    <3> QED BY <3>1 DEF From, To, Flushed, Wrote
  <2>2. CASE i > c
    <3>1. i - c \in 1..k /\ i \in (c + 1)..(c + k + 1)
      BY <2>2
    <3>2. es[i - c] = pendingEvents[i - c]
      BY <3>1
    <3>3. ~(i <= Len(client)) /\ i - Len(client) = i - c
      BY <2>2 DEF Flushed, Wrote
    <3>4. From(i) = pendingEvents[i - c].from /\ To(i) = pendingEvents[i - c].to
      BY <3>3 DEF From, To
    <3> QED BY <1>1, <3>1, <3>2, <3>4
  <2> QED BY <2>1, <2>2
<1>3. From(c + k + 1)' = es[k + 1].from /\ To(c + k + 1)' = es[k + 1].to
  <2>1. c + k + 1 \in (c + 1)..(c + k + 1) /\ c + k + 1 - c = k + 1
    OBVIOUS
  <2> QED BY <1>1, <2>1
<1>4. Total = c + k /\ Total' = c + k + 1
  <2>1. c + n + (k + 1 - n) = c + k + 1
    OBVIOUS
  <2> QED BY <2>1 DEF Total, Flushed, Wrote
<1> QED BY <1>2, <1>3, <1>4

\* The chain goes on.
LEMMA ChainGoesOn ==
  ASSUME Chain, NEW m \in Nat, Total = m,
         Len(text) \in Nat, Len(text') \in Nat, Len(text) <= Len(text'),
         Total' = m + 1,
         \A i \in 1..m : From(i)' = From(i) /\ To(i)' = To(i),
         From(m + 1)' = Len(text), To(m + 1)' = Len(text')
  PROVE  /\ Chain'
         /\ \A i \in 1..m : To(i) <= Len(text)
<1>0. /\ \A i \in 1..m : /\ From(i) \in Nat /\ To(i) \in Nat /\ From(i) <= To(i)
                         /\ From(i) = IF i = 1 THEN 0 ELSE To(i - 1)
      /\ \A i, j \in 1..m : i <= j => To(i) <= To(j)
      /\ Len(text) = IF m = 0 THEN 0 ELSE To(m)
  BY DEF Chain
<1>1. \A i \in 1..(m + 1) : i \in 1..m \/ i = m + 1
  OBVIOUS
<1>5. ASSUME NEW i \in 1..m PROVE To(i) <= Len(text)
  <2>1. m \in 1..m /\ i <= m /\ m # 0
    OBVIOUS
  <2> QED BY <1>0, <2>1
<1>2. ASSUME NEW i \in 1..(m + 1)
      PROVE  /\ From(i)' \in Nat /\ To(i)' \in Nat /\ From(i)' <= To(i)'
             /\ From(i)' = IF i = 1 THEN 0 ELSE To(i - 1)'
             /\ To(i)' <= Len(text')
  <2>1. CASE i \in 1..m
    <3>1. From(i)' = From(i) /\ To(i)' = To(i) /\ From(i) \in Nat /\ To(i) \in Nat
          /\ From(i) <= To(i) /\ From(i) = IF i = 1 THEN 0 ELSE To(i - 1)
      BY <1>0, <2>1
    <3>2. i # 1 => i - 1 \in 1..m
      BY <2>1
    <3>3. i # 1 => To(i - 1)' = To(i - 1)
      BY <3>2
    <3> QED BY <1>5, <2>1, <3>1, <3>3
  <2>2. CASE i = m + 1
    <3>1. CASE m = 0
      BY <1>0, <2>2, <3>1
    <3>2. CASE m # 0
      <4>1. m \in 1..m /\ i - 1 = m /\ i # 1
        BY <2>2, <3>2
      <4>2. To(i - 1)' = To(m)
        BY <4>1
      <4> QED BY <1>0, <2>2, <3>2, <4>1, <4>2
    <3> QED BY <3>1, <3>2
  <2> QED BY <1>1, <2>1, <2>2
<1>3. ASSUME NEW i \in 1..(m + 1), NEW j \in 1..(m + 1), i <= j PROVE To(i)' <= To(j)'
  <2>1. CASE j \in 1..m
    <3>1. i \in 1..m
      BY <1>3, <2>1
    <3> QED BY <1>0, <1>3, <2>1, <3>1
  <2>2. CASE j = m + 1
    BY <1>2, <2>2
  <2> QED BY <1>1, <2>1, <2>2
<1>4. Chain'
  <2>1. Len(text') = IF m + 1 = 0 THEN 0 ELSE To(m + 1)'
    OBVIOUS
  <2> QED BY <1>2, <1>3, <2>1 DEF Chain
<1> QED BY <1>4, <1>5

-----------------------------------------------------------------------------
\* ingest keeps the mask spans those of the findings so far.
LEMMA IngestFacts ==
  ASSUME Streaming, seen \subseteq seen', Ingest
  PROVE  /\ maskSpans' \subseteq {f \in seen' : Masking(f)}
         /\ ~blocked' => /\ maskSpans' = {f \in seen' : Masking(f)}
                         /\ \A f \in seen' : ~Blocking(f)
  BY DEF Streaming, Ingest

LEMMA SeenGrows ==
  /\ \A chunk : Feed(chunk) => seen \subseteq seen'
  /\ Finalize => seen \subseteq seen'
  BY DEF Feed, Finalize

\* A token that does not block the stream.
LEMMA TokenFlushes ==
  ASSUME GateInv, NEW chunk \in Seq(Char), NEW fields, Token(chunk, fields), ~blocked'
  PROVE  \E c \in Nat, k \in Nat, es \in Seq(Event) : \E n \in 0..(k + 1) :
           /\ Flushed(c, k, n, es) /\ Len(es) = k + 1
           /\ \A i \in 1..k : es[i] = pendingEvents[i]
           /\ es[k + 1].from = Len(text) /\ es[k + 1].to = Len(text')
           /\ \A i \in 1..n : es[i].to \notin HeldBytes'
           /\ n < k + 1 => es[n + 1].to \in HeldBytes'
<1>1. /\ Streaming /\ text \in Seq(Char) /\ text' = text \o chunk
      /\ client \in Seq(Frame) /\ pendingEvents \in Seq(Event)
  BY DEF GateInv, Token, Feed, ScanInv, Streaming
<1>2. Len(text') = Len(text) + Len(chunk) /\ Len(text) \in Nat /\ Len(text') \in Nat
  BY <1>1, AppendFacts
<1> DEFINE e == EventOf(chunk)
           es == Append(pendingEvents, e)
           c == Len(client)
           k == Len(pendingEvents)
<1>3. FlushSafe(es)
  BY DEF Token, EndBlocked, EventOf
<1>4. e \in Event /\ e.from = Len(text) /\ e.to = Len(text')
  BY <1>2 DEF EventOf, Event
<1> HIDE DEF e
<1>5. /\ es \in Seq(Event) /\ Len(es) = k + 1 /\ es[k + 1] = e
      /\ \A i \in 1..k : es[i] = pendingEvents[i]
  BY <1>1, <1>4
<1> HIDE DEF es
<1>6. PICK n \in 0..Len(es) :
         /\ SafePrefix(es, HeldBytes', n)
         /\ client' = client \o MaskAll(SubSeq(es, 1, n), maskSpans')
         /\ pendingEvents' = SubSeq(es, n + 1, Len(es))
  BY <1>3 DEF FlushSafe
<1>7. Flushed(c, k, n, es)
  BY <1>1, <1>5, <1>6, FlushIsFlushed
<1>8. c \in Nat /\ k \in Nat /\ n \in 0..(k + 1)
  BY <1>1, <1>5
<1> HIDE DEF c, k
<1> QED BY <1>4, <1>5, <1>6, <1>7, <1>8 DEF SafePrefix

LEMMA FlushedDomain ==
  ASSUME client \in Seq(Frame), NEW c, Len(client) = c, NEW i \in 1..c
  PROVE  i \in DOMAIN client
  OBVIOUS

\* Stars written by a flush belong to findings.
LEMMA FlushStars ==
  ASSUME NEW c \in Nat, NEW n \in Nat, NEW es, Wrote(c, n, es),
         client \in Seq(Frame), OnlyFindingsRewritten, seen \subseteq seen',
         maskSpans' \subseteq {f \in seen' : Masking(f)}
  PROVE  OnlyFindingsRewritten'
<1> SUFFICES ASSUME NEW i \in DOMAIN client', client'[i].type = "event",
                    NEW p \in client'[i].stars
             PROVE  \E f \in seen' : Masking(f) /\ f.lo <= p /\ p <= f.hi
  BY DEF OnlyFindingsRewritten, EventFrames
<1>1. client' \in Seq(Frame) /\ Len(client') = c + n
  BY DEF Flushed, Wrote
<1>2. i \in 1..(c + n)
  BY <1>1
<1>3. CASE i <= c
  <2>1. i \in 1..c /\ client'[i] = client[i]
    BY <1>2, <1>3 DEF Flushed, Wrote
  <2>2. i \in DOMAIN client
    BY <2>1, FlushedDomain DEF Flushed, Wrote
  <2> QED BY <2>1, <2>2 DEF OnlyFindingsRewritten, EventFrames
<1>4. CASE i > c
  <2>1. i \in (c + 1)..(c + n)
    BY <1>2, <1>4
  <2>2. client'[i] = Masked(es[i - c], maskSpans')
    BY <2>1 DEF Flushed, Wrote
  <2>3. \E f \in maskSpans' : f.lo <= p /\ p <= f.hi
    BY <2>2 DEF Masked, Stars
  <2> QED BY <2>3
<1> QED BY <1>2, <1>3, <1>4

\* The block exit: an error frame, a record, nothing else.
LEMMA BlockedInv ==
  ASSUME Streaming, ScanInv', OnlyFindingsRewritten, seen \subseteq seen', Ingest, EndBlocked
  PROVE  GateInv'
<1>1. /\ client \in Seq(Frame) /\ client' = Append(client, BlockFrame)
      /\ phase' = "done" /\ blocked' /\ ledger' = Append(ledger, Record("blocked"))
      /\ ledger = <<>>
  BY DEF Streaming, EndBlocked
<1>2. OnlyFindingsRewritten'
  <2> SUFFICES ASSUME NEW i \in DOMAIN client', client'[i].type = "event",
                      NEW p \in client'[i].stars
               PROVE  \E f \in seen' : Masking(f) /\ f.lo <= p /\ p <= f.hi
    BY DEF OnlyFindingsRewritten, EventFrames
  <2>1. /\ i \in 1..(Len(client) + 1)
        /\ i # Len(client) + 1 => i \in DOMAIN client /\ client'[i] = client[i]
        /\ client'[Len(client) + 1] = BlockFrame
    BY <1>1
  <2>2. i # Len(client) + 1
    BY <2>1 DEF BlockFrame
  <2> QED BY <2>1, <2>2 DEF OnlyFindingsRewritten, EventFrames
<1>3. PICK record : record = Record("blocked")
  OBVIOUS
<1>4. ledger' = <<record>> /\ record.verdict = "blocked" /\ VerdictOf(record)'
  <2>1. \E f \in seen' : Blocking(f)
    BY <1>1 DEF Ingest
  <2>2. record.verdict = "blocked"
    BY <1>3 DEF Record
  <2> QED BY <1>1, <1>3, <2>1, <2>2 DEF VerdictOf
<1>5. Ended'
  BY <1>1, <1>4 DEF Ended
<1> QED BY <1>1, <1>2, <1>5 DEF GateInv

LEMMA TokenInv ==
  ASSUME GateInv, NEW chunk \in Seq(Char), NEW fields, Token(chunk, fields)
  PROVE  GateInv'
<1>1. /\ ScanInv /\ phase = "streaming" /\ Streaming /\ OnlyFindingsRewritten
      /\ Feed(chunk) /\ Ingest
  BY DEF GateInv, Token
<1>2. ScanInv' /\ seen \subseteq seen' /\ ~drained'
  BY <1>1, FeedInv, SeenGrows DEF Feed
<1>3. CASE blocked'
  <2>1. EndBlocked
    BY <1>3 DEF Token, FlushSafe
  <2> QED BY <1>1, <1>2, <2>1, BlockedInv
<1>4. CASE ~blocked'
  <2>1. PICK c \in Nat, k \in Nat, es \in Seq(Event) : \E n \in 0..(k + 1) :
           /\ Flushed(c, k, n, es) /\ Len(es) = k + 1
           /\ \A i \in 1..k : es[i] = pendingEvents[i]
           /\ es[k + 1].from = Len(text) /\ es[k + 1].to = Len(text')
           /\ \A i \in 1..n : es[i].to \notin HeldBytes'
           /\ n < k + 1 => es[n + 1].to \in HeldBytes'
    BY <1>4, TokenFlushes
  <2>2. PICK n \in 0..(k + 1) :
           /\ Flushed(c, k, n, es) /\ Len(es) = k + 1
           /\ \A i \in 1..k : es[i] = pendingEvents[i]
           /\ es[k + 1].from = Len(text) /\ es[k + 1].to = Len(text')
           /\ \A i \in 1..n : es[i].to \notin HeldBytes'
           /\ n < k + 1 => es[n + 1].to \in HeldBytes'
    BY <2>1
  <2>3. maskSpans' = {f \in seen' : Masking(f)} /\ \A f \in seen' : ~Blocking(f)
    BY <1>1, <1>2, <1>4, IngestFacts
  <2>4. Chain'
    <3>1. Len(text) \in Nat /\ Len(text') \in Nat /\ Len(text) <= Len(text')
      BY <1>1, AppendFacts DEF ScanInv, Feed
    <3>2. Flushed(c, k, n, es) /\ \A i \in 1..k : es[i] = pendingEvents[i]
      BY <2>2
    <3>3. /\ Total = c + k /\ Total' = c + k + 1
          /\ \A i \in 1..(c + k) : From(i)' = From(i) /\ To(i)' = To(i)
          /\ From(c + k + 1)' = es[k + 1].from /\ To(c + k + 1)' = es[k + 1].to
      BY <3>2, FlushMovesTheCut
    <3>4. c + k \in Nat
      OBVIOUS
    <3> QED BY <1>1, <2>2, <3>1, <3>3, <3>4, ChainGoesOn DEF Streaming
  <2>5. client' \in Seq(Frame) /\ pendingEvents' \in Seq(Event)
        /\ Len(pendingEvents') = k + 1 - n
        /\ \A i \in 1..(k + 1 - n) : pendingEvents'[i] = es[n + i]
    BY <2>2 DEF Flushed, Wrote
  <2>6. pendingEvents' # <<>> => pendingEvents'[1].to \in HeldBytes'
    <3> SUFFICES ASSUME pendingEvents' # <<>> PROVE pendingEvents'[1].to \in HeldBytes'
      OBVIOUS
    <3>1. Len(pendingEvents') # 0
      BY <2>5
    <3>2. n < k + 1 /\ 1 \in 1..(k + 1 - n)
      BY <2>5, <3>1
    <3> QED BY <2>2, <2>5, <3>2
  <2>7. ledger' = <<>> /\ phase' = "streaming"
    BY <1>1, <1>4 DEF Token, EndBlocked, FlushSafe, Streaming
  <2>8. OnlyFindingsRewritten'
    BY <1>1, <1>2, <2>2, <2>3, FlushStars DEF Streaming, Flushed
  <2>9. Streaming'
    BY <1>2, <1>4, <2>3, <2>4, <2>5, <2>6, <2>7 DEF Streaming
  <2> QED BY <1>2, <2>7, <2>8, <2>9 DEF GateInv
<1> QED BY <1>3, <1>4

\* The end of the stream writes all that is left.
LEMMA EndWrites ==
  ASSUME Streaming, EndStream, ~blocked',
         NEW c, c = Len(client), NEW k, k = Len(pendingEvents)
  PROVE  c \in Nat /\ k \in Nat /\ Wrote(c, k, pendingEvents)
<1>1. /\ client \in Seq(Frame) /\ pendingEvents \in Seq(Event)
      /\ client' = client \o MaskAll(pendingEvents, maskSpans')
  BY DEF Streaming, EndStream, EndBlocked
<1>2. SubSeq(pendingEvents, 1, k) = pendingEvents /\ k \in Nat /\ k \in 0..Len(pendingEvents)
      /\ c \in Nat
  BY <1>1
<1>3. PICK es \in Seq(Event) : es = pendingEvents
  BY <1>1
<1>4. PICK rest : rest = SubSeq(es, k + 1, Len(es))
  OBVIOUS
<1>5. FlushResult(client, es, maskSpans', k, client', rest)
  BY <1>1, <1>2, <1>3, <1>4, FlushFacts
<1> QED BY <1>2, <1>3, <1>5 DEF FlushResult, Wrote

LEMMA EndInv ==
  ASSUME GateInv, EndStream
  PROVE  GateInv'
<1>1. /\ ScanInv /\ Streaming /\ OnlyFindingsRewritten /\ Finalize /\ Ingest
  BY DEF GateInv, EndStream
<1>2. ScanInv' /\ seen \subseteq seen' /\ drained'
  BY <1>1, FinalizeInv, SeenGrows DEF Finalize
<1>3. CASE blocked'
  <2>1. EndBlocked
    BY <1>3 DEF EndStream
  <2> QED BY <1>1, <1>2, <2>1, BlockedInv
<1>4. CASE ~blocked'
  <2>1. PICK c, k : c = Len(client) /\ k = Len(pendingEvents)
    OBVIOUS
  <2>2. c \in Nat /\ k \in Nat /\ Wrote(c, k, pendingEvents)
    BY <1>1, <1>4, <2>1, EndWrites
  <2>3. PICK es : es = pendingEvents
    OBVIOUS
  <2>4. /\ maskSpans' = {f \in seen' : Masking(f)} /\ client \in Seq(Frame)
        /\ \A f \in seen' : ~Blocking(f)
    BY <1>1, <1>2, <1>4, IngestFacts DEF Streaming
  <2>5. OnlyFindingsRewritten'
    BY <1>1, <1>2, <2>2, <2>3, <2>4, FlushStars
  <2>6. PICK verdict : /\ ledger' = Append(ledger, Record(verdict)) /\ phase' = "done"
                       /\ verdict = IF maskSpans' = {} THEN "forwarded" ELSE "masked"
    BY <1>4 DEF EndStream, EndBlocked
  <2>7. PICK record : record = Record(verdict)
    OBVIOUS
  <2>8. Ended'
    <3>1. ledger' = <<record>>
      BY <1>1, <2>6, <2>7 DEF Streaming
    <3>2. record.findings = Summary(seen)' /\ record.verdict = verdict
      BY <2>7 DEF Record, Summary
    <3>3. verdict = IF \E f \in seen' : Masking(f) THEN "masked" ELSE "forwarded"
      BY <2>4, <2>6
    <3>4. VerdictOf(record)'
      BY <1>2, <2>4, <3>2, <3>3 DEF VerdictOf
    <3> QED BY <1>2, <3>1, <3>2, <3>4 DEF Ended
  <2> QED BY <1>2, <2>5, <2>6, <2>8 DEF GateInv
<1> QED BY <1>3, <1>4

LEMMA GateInit == Init => GateInv
<1> SUFFICES ASSUME Init PROVE GateInv
  OBVIOUS
<1>1. ScanInv
  BY InitInv DEF Init
<1>2. /\ text = <<>> /\ seen = {} /\ ~drained /\ ~blocked /\ ledger = <<>>
      /\ maskSpans = {} /\ client = <<>> /\ pendingEvents = <<>> /\ phase = "streaming"
  BY DEF Init, ScanInit
<1>3. Total = 0 /\ Len(text) = 0
  BY <1>2 DEF Total
<1>4. Chain
  BY <1>3 DEF Chain
<1>5. client \in Seq(Frame) /\ pendingEvents \in Seq(Event) /\ DOMAIN client = {}
  BY <1>2
<1>6. OnlyFindingsRewritten
  BY <1>5 DEF OnlyFindingsRewritten, EventFrames
<1> QED BY <1>1, <1>2, <1>4, <1>5, <1>6 DEF GateInv, Streaming

\* The invariant of the streaming handler.
THEOREM GateInvariant == Spec => []GateInv
<1>1. GateInv /\ [Next]_vars => GateInv'
  <2> SUFFICES ASSUME GateInv, [Next]_vars PROVE GateInv'
    OBVIOUS
  <2>1. CASE NextToken
    BY <2>1, TokenInv, ChunkIsSeq DEF NextToken
  <2>2. CASE EndStream
    BY <2>2, EndInv
  <2>3. CASE UNCHANGED vars
    BY <2>3 DEF vars, scanVars, gateVars, GateInv, ScanInv, Streaming, Ended, VerdictOf, Chain, Total,
                From, To, HeldBytes, UndecidedStarts, OnlyFindingsRewritten, EventFrames
  <2> QED BY <2>1, <2>2, <2>3 DEF Next
<1> QED BY GateInit, <1>1, PTL DEF Spec

\* For every rule pack, policy and chunking: bytes of no masked finding pass
\* unchanged.
THEOREM OnlyFindingsAreRewritten == Spec => []OnlyFindingsRewritten
<1>1. GateInv => OnlyFindingsRewritten
  BY DEF GateInv
<1> QED BY <1>1, GateInvariant, PTL

\* The record of a stream that was not cut off counts what Find reports on the
\* whole response.
THEOREM RecordsAreComplete == Spec => []RecordMatchesFind
<1>1. ASSUME GateInv PROVE RecordMatchesFind
  <2>1. phase = "streaming" => ledger = <<>>
    BY <1>1 DEF GateInv, Streaming
  <2>2. phase # "streaming" => Ended
    BY <1>1 DEF GateInv
  <2>3. CASE phase = "streaming"
    BY <2>1, <2>3 DEF RecordMatchesFind
  <2>4. CASE phase # "streaming"
    <3>1. PICK record : /\ ledger = <<record>>
                        /\ record.verdict # "blocked" => drained /\ record.findings = Summary(seen)
      BY <2>2, <2>4 DEF Ended
    <3>2. drained => seen = Find(text)
      BY <1>1 DEF GateInv, ScanInv
    <3> QED BY <3>1, <3>2 DEF RecordMatchesFind
  <2> QED BY <2>3, <2>4
<1> QED BY <1>1, GateInvariant, PTL

\* However the stream is chunked, the verdict recorded is the policy's verdict on
\* the findings of the text received.
THEOREM VerdictsAreOfTheText == Spec => []VerdictIsOfTheText
<1>1. ASSUME GateInv PROVE VerdictIsOfTheText
  <2>1. CASE phase = "streaming"
    BY <1>1, <2>1 DEF GateInv, Streaming, VerdictIsOfTheText
  <2>2. CASE phase # "streaming"
    <3>1. PICK record : ledger = <<record>> /\ VerdictOf(record)
      BY <1>1, <2>2 DEF GateInv, Ended
    <3>2. text \in Seq(Char) /\ seen = IF drained THEN Find(text) ELSE Confirmed(text)
      BY <1>1 DEF GateInv, ScanInv
    <3>3. seen \subseteq Find(text)
      BY <3>2, FindScansAll, InConfirmed
    <3> QED BY <3>1, <3>2, <3>3 DEF VerdictOf, VerdictIsOfTheText
  <2> QED BY <2>1, <2>2
<1> QED BY <1>1, GateInvariant, PTL

-----------------------------------------------------------------------------
\* Without IBAN rules, what was let go is never looked back at.
LetGo == phase = "streaming" => \A i \in 1..Len(client) : client[i].to \notin HeldBytes

SafeInv == GateInv /\ LetGo /\ MaskedNeverClear /\ BlockedNeverDelivered

\* Everything seen after a step is a finding of the text.
LEMMA SeenAreFindings ==
  ASSUME ScanInv', NEW f \in seen'
  PROVE  /\ f \in Find(text') /\ f \in Findings
         /\ f.lo <= f.hi /\ f.lo <= Len(text')
<1>1. text' \in Seq(Char) /\ f \in Find(text')
  BY FindScansAll, InConfirmed DEF ScanInv
<1> QED BY <1>1, FindScansAll, CandidateFindingFacts

\* What follows a held byte is held.
LEMMA HeldIsSuffix ==
  ASSUME ScanInv, ~drained, NEW p \in HeldBytes, NEW q \in 1..Len(text), p <= q
  PROVE  q \in HeldBytes
<1>1. PICK lo \in UndecidedStarts : lo <= p
  BY DEF HeldBytes
<1>2. text \in Seq(Char) /\ pendingCandidates = Waiting(text) /\ pendingLiteral = WaitingLits(text)
  BY DEF ScanInv
<1>3. lo \in 1..Len(text)
  BY <1>1, <1>2, InWaiting, CandidateFacts DEF UndecidedStarts, PartialStarts
<1>4. p \in 1..Len(text)
  BY DEF HeldBytes
<1>5. lo <= q
  BY <1>1, <1>2, <1>3, <1>4
<1> QED BY <1>1, <1>5 DEF HeldBytes

\* No released frame reaches into a finding that is confirmed later.
LEMMA ReleasedIsClear ==
  ASSUME GateInv, LetGo, phase = "streaming", RulesOf("iban") = {},
         NEW chunk \in Seq(Char), text' = text \o chunk, ScanInv',
         NEW f \in seen', f \notin seen,
         NEW i \in 1..Len(client), NEW p \in f.lo..f.hi
  PROVE  ~Covers(client[i], p)
<1>1. ScanInv /\ Streaming /\ ~drained /\ Chain /\ client \in Seq(Frame)
      /\ pendingEvents \in Seq(Event) /\ Len(text) \in Nat
  BY DEF GateInv, Streaming, ScanInv
<1>2. f \in Find(text \o chunk) /\ f \in Findings
  BY SeenAreFindings
<1>3. f.lo \in HeldBytes \/ f.lo > Len(text)
  BY <1>1, <1>2, NewCandidateIsHeld
<1>4. i \in 1..Total /\ To(i) = client[i].to /\ Total \in Nat
  BY <1>1 DEF Total, To
<1>5. To(i) \in Nat /\ To(i) <= Len(text)
  <2>1. Total # 0 /\ Total \in 1..Total /\ i <= Total
    BY <1>4
  <2> QED BY <1>1, <1>4, <2>1 DEF Chain
<1> SUFFICES ASSUME Covers(client[i], p) PROVE FALSE
  OBVIOUS
<1>6. f.lo \in Nat \ {0} /\ f.lo <= To(i) /\ To(i) \in 1..Len(text)
  BY <1>2, <1>4, <1>5 DEF Covers, Findings
<1>7. To(i) \in HeldBytes
  BY <1>1, <1>3, <1>5, <1>6, HeldIsSuffix DEF Findings
<1> QED BY <1>4, <1>7 DEF LetGo

\* Frames written now are overwritten wherever a finding of the stream so far
\* is to be masked.
LEMMA WroteMasked ==
  ASSUME NEW c \in Nat, NEW n \in Nat, NEW es, Wrote(c, n, es), client \in Seq(Frame),
         MaskedNeverClear, maskSpans' = {f \in seen' : Masking(f)},
         \A f \in seen' \ seen : \A i \in 1..c : \A p \in f.lo..f.hi : ~Covers(client[i], p)
  PROVE  MaskedNeverClear'
<1> SUFFICES ASSUME NEW f \in seen', Masking(f), NEW i \in DOMAIN client',
                    client'[i].type = "event", NEW p \in f.lo..f.hi, Covers(client'[i], p)
             PROVE  p \in client'[i].stars
  BY DEF MaskedNeverClear, EventFrames
<1>1. client' \in Seq(Frame) /\ Len(client') = c + n /\ i \in 1..(c + n)
  BY DEF Wrote
<1>2. CASE i <= c
  <2>1. i \in 1..c /\ client'[i] = client[i]
    BY <1>1, <1>2 DEF Wrote
  <2>2. i \in DOMAIN client
    BY <2>1, FlushedDomain DEF Wrote
  <2> QED BY <2>1, <2>2 DEF MaskedNeverClear, EventFrames
<1>3. CASE i > c
  <2>1. i \in (c + 1)..(c + n)
    BY <1>1, <1>3
  <2>2. client'[i] = Masked(es[i - c], maskSpans')
    BY <2>1 DEF Wrote
  <2>3. client'[i].from \in Nat /\ client'[i].to \in Nat
    <3>1. client'[i] \in Frame
      BY <1>1
    <3> QED BY <3>1 DEF Frame
  <2>4. f \in maskSpans' /\ f.lo <= p /\ p <= f.hi /\ p \in Int
    OBVIOUS
  <2> DEFINE e == es[i - c]
  <2>5. e.from \in Nat /\ e.to \in Nat /\ e.from < p /\ p <= e.to
    BY <2>2, <2>3 DEF Masked, Covers
  <2> HIDE DEF e
  <2>6. p \in (e.from + 1)..e.to
    BY <2>4, <2>5
  <2>7. p \in Stars(e, maskSpans')
    BY <2>4, <2>6 DEF Stars
  <2> QED BY <2>2, <2>7 DEF Masked, e
<1> QED BY <1>1, <1>2, <1>3

\* The block exit sends nothing of the text.
LEMMA BlockedSafe ==
  ASSUME Streaming, MaskedNeverClear, BlockedNeverDelivered, EndBlocked,
         \A f \in seen' \ seen : \A i \in 1..Len(client) : \A p \in f.lo..f.hi :
            ~Covers(client[i], p)
  PROVE  MaskedNeverClear' /\ BlockedNeverDelivered' /\ LetGo'
<1>1. client \in Seq(Frame) /\ client' = Append(client, BlockFrame) /\ phase' = "done"
  BY DEF Streaming, EndBlocked
<1>2. ASSUME NEW i \in DOMAIN client', client'[i].type = "event"
      PROVE  i \in 1..Len(client) /\ i \in DOMAIN client /\ client'[i] = client[i]
  <2>1. /\ i \in 1..(Len(client) + 1)
        /\ i # Len(client) + 1 => /\ i \in 1..Len(client) /\ i \in DOMAIN client
                                  /\ client'[i] = client[i]
        /\ client'[Len(client) + 1] = BlockFrame
    BY <1>1
  <2>2. i # Len(client) + 1
    BY <1>2, <2>1 DEF BlockFrame
  <2> QED BY <2>1, <2>2
<1>3. MaskedNeverClear'
  BY <1>2 DEF MaskedNeverClear, EventFrames
<1>4. BlockedNeverDelivered'
  BY <1>2 DEF BlockedNeverDelivered, EventFrames
<1> QED BY <1>1, <1>3, <1>4 DEF LetGo

\* What was released lies in the text.
LEMMA ReleasedInText ==
  ASSUME Streaming, text \in Seq(Char), NEW i \in 1..Len(client)
  PROVE  client[i].to \in Nat /\ client[i].to <= Len(text)
<1>1. Chain /\ client \in Seq(Frame) /\ pendingEvents \in Seq(Event) /\ Len(text) \in Nat
  BY DEF Streaming
<1>2. i \in 1..Total /\ To(i) = client[i].to /\ Total \in Nat
  BY <1>1 DEF Total, To
<1>3. Total # 0 /\ Total \in 1..Total /\ i <= Total
  BY <1>2
<1> QED BY <1>1, <1>2, <1>3 DEF Chain

LEMMA TokenSafe ==
  ASSUME RulesOf("iban") = {}, SafeInv,
         NEW chunk \in Seq(Char), NEW fields, Token(chunk, fields)
  PROVE  SafeInv'
<1>1. /\ GateInv /\ LetGo /\ MaskedNeverClear /\ BlockedNeverDelivered
      /\ ScanInv /\ phase = "streaming" /\ Streaming /\ Feed(chunk) /\ Ingest
      /\ text \in Seq(Char) /\ text' = text \o chunk
  BY DEF SafeInv, GateInv, Token, Feed, ScanInv
<1>2. GateInv' /\ ScanInv' /\ seen \subseteq seen'
  BY <1>1, TokenInv, FeedInv, SeenGrows
<1>3. \A f \in seen' \ seen : \A i \in 1..Len(client) : \A p \in f.lo..f.hi :
         ~Covers(client[i], p)
  BY <1>1, <1>2, ReleasedIsClear
<1>4. CASE blocked'
  <2>1. EndBlocked
    BY <1>4 DEF Token, FlushSafe
  <2> QED BY <1>1, <1>2, <1>3, <2>1, BlockedSafe DEF SafeInv
<1>5. CASE ~blocked'
  <2>1. maskSpans' = {f \in seen' : Masking(f)} /\ \A f \in seen' : ~Blocking(f)
    BY <1>1, <1>2, <1>5, IngestFacts
  <2>2. PICK c \in Nat, k \in Nat, es \in Seq(Event) : \E n \in 0..(k + 1) :
           /\ Flushed(c, k, n, es)
           /\ \A i \in 1..n : es[i].to \notin HeldBytes'
    BY <1>1, <1>5, TokenFlushes
  <2>3. PICK n \in 0..(k + 1) :
           /\ Flushed(c, k, n, es)
           /\ \A i \in 1..n : es[i].to \notin HeldBytes'
    BY <2>2
  <2>4. Wrote(c, n, es) /\ n \in Nat /\ client \in Seq(Frame) /\ Len(client) = c
    BY <1>1, <2>3 DEF Flushed, Wrote, Streaming
  <2>5. MaskedNeverClear'
    BY <1>1, <1>3, <2>1, <2>4, WroteMasked
  <2>6. BlockedNeverDelivered'
    BY <2>1 DEF BlockedNeverDelivered
  <2>7. ASSUME NEW i \in 1..Len(client') PROVE client'[i].to \notin HeldBytes'
    <3>1. i \in 1..(c + n)
      BY <2>4 DEF Wrote
    <3>2. CASE i <= c
      <4>1. i \in 1..c /\ client'[i] = client[i]
        BY <3>1, <3>2, <2>4 DEF Wrote
      <4>2. client[i].to \notin HeldBytes
        BY <1>1, <2>4, <4>1 DEF LetGo
      <4>3. client[i].to \in Nat /\ client[i].to <= Len(text)
        BY <1>1, <2>4, <4>1, ReleasedInText
      <4>4. HeldBytes' \subseteq 1..Len(text')
        BY DEF HeldBytes
      <4>5. Len(text) \in Nat /\ Len(text') \in Nat
        BY <1>1, AppendFacts
      <4>6. client[i].to \in HeldBytes' => client[i].to \in 1..Len(text)
        BY <4>3, <4>4, <4>5
      <4> QED BY <1>1, <4>1, <4>2, <4>6, HoldAdvances
    <3>3. CASE i > c
      <4>1. i \in (c + 1)..(c + n) /\ i - c \in 1..n
        BY <2>4, <3>1, <3>3
      <4>2. client'[i] = Masked(es[i - c], maskSpans')
        BY <2>4, <4>1 DEF Wrote
      <4> QED BY <2>3, <4>1, <4>2 DEF Masked
    <3> QED BY <3>1, <3>2, <3>3
  <2>8. LetGo'
    BY <2>7 DEF LetGo
  <2> QED BY <1>2, <2>5, <2>6, <2>8 DEF SafeInv
<1> QED BY <1>4, <1>5

LEMMA EndSafe ==
  ASSUME RulesOf("iban") = {}, SafeInv, EndStream
  PROVE  SafeInv'
<1>1. /\ GateInv /\ LetGo /\ MaskedNeverClear /\ BlockedNeverDelivered
      /\ ScanInv /\ phase = "streaming" /\ Streaming /\ Finalize /\ Ingest
  BY DEF SafeInv, GateInv, EndStream
<1>2. GateInv' /\ ScanInv' /\ seen \subseteq seen'
  BY <1>1, EndInv, FinalizeInv, SeenGrows
<1>3. \A f \in seen' \ seen : \A i \in 1..Len(client) : \A p \in f.lo..f.hi :
         ~Covers(client[i], p)
  <2>1. PICK chunk \in Seq(Char) : text' = text \o chunk
    <3>1. text \in Seq(Char) /\ text' = text /\ <<>> \in Seq(Char) /\ text \o <<>> = text
      BY <1>1 DEF ScanInv, Finalize
    <3> QED BY <3>1
  <2> QED BY <1>1, <1>2, <2>1, ReleasedIsClear
<1>4. CASE blocked'
  <2>1. EndBlocked
    BY <1>4 DEF EndStream
  <2> QED BY <1>1, <1>2, <1>3, <2>1, BlockedSafe DEF SafeInv
<1>5. CASE ~blocked'
  <2>1. maskSpans' = {f \in seen' : Masking(f)} /\ \A f \in seen' : ~Blocking(f)
    BY <1>1, <1>2, <1>5, IngestFacts
  <2>2. PICK c, k : c = Len(client) /\ k = Len(pendingEvents)
    OBVIOUS
  <2>3. c \in Nat /\ k \in Nat /\ Wrote(c, k, pendingEvents) /\ client \in Seq(Frame)
    BY <1>1, <1>5, <2>2, EndWrites DEF Streaming
  <2>4. PICK es : es = pendingEvents
    OBVIOUS
  <2>5. MaskedNeverClear'
    BY <1>1, <1>3, <2>1, <2>2, <2>3, <2>4, WroteMasked
  <2>6. BlockedNeverDelivered'
    BY <2>1 DEF BlockedNeverDelivered
  <2>7. phase' = "done"
    BY <1>5 DEF EndStream, EndBlocked
  <2> QED BY <1>2, <2>5, <2>6, <2>7 DEF SafeInv, LetGo
<1> QED BY <1>4, <1>5

LEMMA SafeInit == Init => SafeInv
<1> SUFFICES ASSUME Init PROVE SafeInv
  OBVIOUS
<1>1. GateInv /\ seen = {} /\ client = <<>> /\ Len(client) = 0
  BY GateInit DEF Init, ScanInit
<1> QED BY <1>1 DEF SafeInv, LetGo, MaskedNeverClear, BlockedNeverDelivered

LEMMA SafeInvariant ==
  ASSUME RulesOf("iban") = {}
  PROVE  Spec => []SafeInv
<1>1. SafeInv /\ [Next]_vars => SafeInv'
  <2> SUFFICES ASSUME SafeInv, [Next]_vars PROVE SafeInv'
    OBVIOUS
  <2>1. CASE NextToken
    BY <2>1, TokenSafe, ChunkIsSeq DEF NextToken
  <2>2. CASE EndStream
    BY <2>2, EndSafe
  <2>3. CASE UNCHANGED vars
    <3>1. GateInv'
      BY <2>3 DEF SafeInv, vars, scanVars, gateVars, GateInv, ScanInv, Streaming, Ended, VerdictOf, Chain,
                  Total, From, To, HeldBytes, UndecidedStarts, OnlyFindingsRewritten, EventFrames
    <3> QED BY <2>3, <3>1 DEF SafeInv, vars, scanVars, gateVars, LetGo, HeldBytes,
               UndecidedStarts, MaskedNeverClear, BlockedNeverDelivered, EventFrames
  <2> QED BY <2>1, <2>2, <2>3 DEF Next
<1> QED BY SafeInit, <1>1, PTL DEF Spec

\* Without IBAN rules no byte of a finding to mask leaves in the clear, for
\* every pack, policy and chunking.
THEOREM MaskedIsNeverClear ==
  ASSUME RulesOf("iban") = {}
  PROVE  Spec => []MaskedNeverClear
<1>1. SafeInv => MaskedNeverClear
  BY DEF SafeInv
<1> QED BY <1>1, SafeInvariant, PTL

\* Without IBAN rules no byte of a finding to block leaves at all.
THEOREM BlockedIsNeverDelivered ==
  ASSUME RulesOf("iban") = {}
  PROVE  Spec => []BlockedNeverDelivered
<1>1. SafeInv => BlockedNeverDelivered
  BY DEF SafeInv
<1> QED BY <1>1, SafeInvariant, PTL

-----------------------------------------------------------------------------
\* The refinement of SafeStream.
Verdicts == [i \in DOMAIN ledger |-> ledger[i].verdict]

\* Frames 1..n of fs follow each other from the first byte on.
Linked(fs, n) ==
  \A i \in 1..n : /\ fs[i].from = Promise!EndAt(fs, i - 1)
                  /\ fs[i].from <= fs[i].to

\* Frames that were written and follow each other are what SafeStream delivers.
LEMMA WroteExtends ==
  ASSUME NEW c \in Nat, NEW n \in Nat, NEW es, Wrote(c, n, es), Linked(client', c + n)
  PROVE  Promise!Extends
<1>1. /\ Len(client) = c /\ Len(client') = c + n
      /\ \A i \in 1..c : client'[i] = client[i]
  BY DEF Wrote
<1>2. ASSUME NEW i \in (c + 1)..(c + n)
      PROVE  /\ client'[i].type = "event"
             /\ client'[i].from = Promise!EndAt(client', i - 1) /\ client'[i].from <= client'[i].to
             /\ client'[i].stars \subseteq (client'[i].from + 1)..client'[i].to
  <2>1. client'[i] = Masked(es[i - c], maskSpans')
    BY DEF Wrote
  <2>2. i \in 1..(c + n)
    OBVIOUS
  <2>3. client'[i].type = "event"
        /\ client'[i].stars \subseteq (client'[i].from + 1)..client'[i].to
    BY <2>1 DEF Masked, Stars
  <2> QED BY <2>2, <2>3 DEF Linked
<1> QED BY <1>1, <1>2 DEF Promise!Extends

\* The end of the frames, when they are events i of a chain.
LEMMA LinkedByChain ==
  ASSUME Chain', NEW m \in Nat, Len(client') = m, m <= Total', Total' \in Nat
  PROVE  /\ Linked(client', m)
         /\ Promise!EndAt(client', m) <= Len(text')
<1>0. \E t \in Nat : /\ t = Total' /\ m <= t
                     /\ \A i \in 1..t : /\ From(i)' \in Nat /\ To(i)' \in Nat /\ From(i)' <= To(i)'
                                        /\ From(i)' = IF i = 1 THEN 0 ELSE To(i - 1)'
                     /\ \A i, j \in 1..t : i <= j => To(i)' <= To(j)'
                     /\ Len(text') = IF t = 0 THEN 0 ELSE To(t)'
  BY DEF Chain
<1>1. PICK t \in Nat : /\ t = Total' /\ m <= t
                     /\ \A i \in 1..t : /\ From(i)' \in Nat /\ To(i)' \in Nat /\ From(i)' <= To(i)'
                                        /\ From(i)' = IF i = 1 THEN 0 ELSE To(i - 1)'
                     /\ \A a, b \in 1..t : a <= b => To(a)' <= To(b)'
                     /\ Len(text') = IF t = 0 THEN 0 ELSE To(t)'
  BY <1>0
<1>2. \A i \in 1..m : From(i)' = client'[i].from /\ To(i)' = client'[i].to
  BY DEF From, To
<1>3. ASSUME NEW i \in 1..m
      PROVE  client'[i].from = Promise!EndAt(client', i - 1) /\ client'[i].from <= client'[i].to
  <2>1. i \in 1..t /\ (i # 1 => i - 1 \in 1..m /\ i - 1 # 0)
    BY <1>1
  <2>2. From(i)' = client'[i].from /\ To(i)' = client'[i].to /\ From(i)' <= To(i)'
        /\ From(i)' = IF i = 1 THEN 0 ELSE To(i - 1)'
    BY <1>1, <1>2, <2>1
  <2>3. CASE i = 1
    <3>1. i - 1 = 0
      BY <2>3
    <3> QED BY <2>2, <2>3, <3>1 DEF Promise!EndAt
  <2>4. CASE i # 1
    <3>1. To(i - 1)' = client'[i - 1].to /\ i - 1 # 0
      BY <1>2, <2>1, <2>4
    <3> QED BY <2>2, <2>4, <3>1 DEF Promise!EndAt
  <2> QED BY <2>3, <2>4
<1>4. Promise!EndAt(client', m) <= Len(text')
  <2>1. CASE m = 0
    <3>1. Promise!EndAt(client', m) = 0
      BY <2>1 DEF Promise!EndAt
    <3>2. t # 0 => t \in 1..t
      BY <1>1
    <3> QED BY <1>1, <3>1, <3>2
  <2>2. CASE m # 0
    <3>1. m \in 1..m /\ m \in 1..t /\ t \in 1..t /\ t # 0
      BY <1>1, <2>2
    <3>2. Promise!EndAt(client', m) = To(m)'
      BY <1>2, <2>2, <3>1 DEF Promise!EndAt
    <3> QED BY <1>1, <3>1, <3>2
  <2> QED BY <2>1, <2>2
<1> QED BY <1>3, <1>4 DEF Linked

\* Every exit with an error frame is a cut.
LEMMA BlockedIsCut ==
  ASSUME Streaming, EndBlocked, Len(text') >= Len(text)
  PROVE  Promise!Cut
<1>1. ledger = <<>> /\ ledger' = <<Record("blocked")>> /\ Record("blocked").verdict = "blocked"
  BY DEF Streaming, EndBlocked, Record
<1>2. Verdicts = <<>> /\ Verdicts' = <<"blocked">>
  BY <1>1 DEF Verdicts
<1>3. client' = Append(client, [type |-> "error"])
  BY DEF EndBlocked, BlockFrame
<1> QED BY <1>2, <1>3 DEF Promise!Cut, Promise!Open, Verdicts

LEMMA TokenRefines ==
  ASSUME GateInv, NEW chunk \in Seq(Char), NEW fields, Token(chunk, fields)
  PROVE  Promise!Next
<1>1. /\ Streaming /\ text \in Seq(Char) /\ text' = text \o chunk /\ GateInv'
  BY TokenInv DEF GateInv, Token, Feed, ScanInv
<1>2. Len(text) \in Nat /\ Len(text') \in Nat /\ Len(text') >= Len(text)
  BY <1>1, AppendFacts
<1>3. CASE blocked'
  <2>1. EndBlocked
    BY <1>3 DEF Token, FlushSafe
  <2> QED BY <1>1, <1>2, <2>1, BlockedIsCut DEF Promise!Next
<1>4. CASE ~blocked'
  <2>1. PICK c \in Nat, k \in Nat, es \in Seq(Event) : \E n \in 0..(k + 1) : Flushed(c, k, n, es)
    BY <1>4, TokenFlushes
  <2>2. PICK n \in 0..(k + 1) : Flushed(c, k, n, es)
    BY <2>1
  <2>3. Wrote(c, n, es) /\ n \in Nat /\ c + n \in Nat /\ Len(client') = c + n
    BY <2>2 DEF Flushed, Wrote
  <2>4. Streaming' /\ UNCHANGED ledger /\ ledger = <<>>
    BY <1>1, <1>4 DEF GateInv, Token, EndBlocked, FlushSafe, Streaming
  <2>5. Total' \in Nat /\ c + n <= Total' /\ Chain'
    <3>1. Total' = c + n + Len(pendingEvents') /\ Len(pendingEvents') \in Nat
      BY <2>3, <2>4 DEF Total, Streaming
    <3> QED BY <2>3, <2>4, <3>1 DEF Streaming
  <2>6. Linked(client', c + n) /\ Promise!EndAt(client', c + n) <= Len(text')
    BY <2>3, <2>5, LinkedByChain
  <2>7. Promise!Extends
    BY <2>3, <2>6, WroteExtends
  <2>8. Verdicts = <<>> /\ UNCHANGED Verdicts
    BY <2>4 DEF Verdicts
  <2> QED BY <1>2, <2>3, <2>6, <2>7, <2>8
          DEF Promise!Next, Promise!Deliver, Promise!Open, Verdicts
<1> QED BY <1>3, <1>4

\* At the end of the stream every event has been written, in its place.
LEMMA EndChain ==
  ASSUME Streaming, text \in Seq(Char), NEW c \in Nat, NEW k \in Nat, Len(client) = c,
         Len(pendingEvents) = k, Wrote(c, k, pendingEvents)
  PROVE  /\ \A i \in 1..(c + k) : client'[i].from = From(i) /\ client'[i].to = To(i)
         /\ Linked(client', c + k)
         /\ Promise!EndAt(client', c + k) = Len(text)
         /\ \A p \in 1..Len(text) : \E i \in 1..(c + k) : Covers(client'[i], p)
<1>1. /\ Total = c + k /\ Len(text) \in Nat
      /\ \A i \in 1..(c + k) : /\ From(i) \in Nat /\ To(i) \in Nat /\ From(i) <= To(i)
                               /\ From(i) = IF i = 1 THEN 0 ELSE To(i - 1)
      /\ Len(text) = IF c + k = 0 THEN 0 ELSE To(c + k)
  BY DEF Streaming, Chain, Total
<1>2. ASSUME NEW i \in 1..(c + k) PROVE client'[i].from = From(i) /\ client'[i].to = To(i)
  <2>1. CASE i <= c
    <3>1. i \in 1..c
      BY <2>1
    <3> QED BY <2>1, <3>1 DEF Wrote, From, To
  <2>2. CASE i > c
    <3>1. i \in (c + 1)..(c + k) /\ ~(i <= Len(client)) /\ i - Len(client) = i - c
      BY <2>2
    <3>2. client'[i] = Masked(pendingEvents[i - c], maskSpans')
      BY <3>1 DEF Wrote
    <3>3. From(i) = pendingEvents[i - c].from /\ To(i) = pendingEvents[i - c].to
      BY <3>1 DEF From, To
    <3> QED BY <3>2, <3>3 DEF Masked
  <2> QED BY <2>1, <2>2
<1>3. Linked(client', c + k)
  <2> SUFFICES ASSUME NEW i \in 1..(c + k)
               PROVE  client'[i].from = Promise!EndAt(client', i - 1)
                      /\ client'[i].from <= client'[i].to
    BY DEF Linked
  <2>1. CASE i = 1
    <3>1. i - 1 = 0
      BY <2>1
    <3> QED BY <1>1, <1>2, <2>1, <3>1 DEF Promise!EndAt
  <2>2. CASE i # 1
    <3>1. i - 1 \in 1..(c + k) /\ i - 1 # 0
      BY <2>2
    <3>2. client'[i - 1].to = To(i - 1) /\ client'[i].from = To(i - 1)
      BY <1>1, <1>2, <2>2, <3>1
    <3> QED BY <1>1, <1>2, <3>1, <3>2 DEF Promise!EndAt
  <2> QED BY <2>1, <2>2
<1>4. Promise!EndAt(client', c + k) = Len(text)
  <2>1. CASE c + k = 0
    BY <1>1, <2>1 DEF Promise!EndAt
  <2>2. CASE c + k # 0
    <3>1. c + k \in 1..(c + k)
      BY <2>2
    <3> QED BY <1>1, <1>2, <2>2, <3>1 DEF Promise!EndAt
  <2> QED BY <2>1, <2>2
<1>5. ASSUME NEW p \in 1..Len(text) PROVE \E i \in 1..(c + k) : Covers(client'[i], p)
  <2> DEFINE S == {i \in 1..(c + k) : p <= To(i)}
  <2>1. c + k \in S
    <3>1. c + k # 0
      BY <1>1
    <3> QED BY <1>1, <3>1
  <2>2. S \in SUBSET Nat
    OBVIOUS
  <2>3. PICK i \in S : \A j \in S : i <= j
    <3> HIDE DEF S
    <3> QED BY <2>1, <2>2, LeastIndex
  <2>4. From(i) < p
    <3>1. CASE i = 1
      BY <1>1, <3>1
    <3>2. CASE i # 1
      <4>1. i - 1 \in 1..(c + k) /\ i - 1 \notin S
        BY <2>3, <3>2
      <4>2. To(i - 1) < p /\ From(i) = To(i - 1)
        BY <1>1, <3>2, <4>1
      <4> QED BY <4>2
    <3> QED BY <3>1, <3>2
  <2> QED BY <1>2, <2>4 DEF Covers
<1> QED BY <1>2, <1>3, <1>4, <1>5

LEMMA EndRefines ==
  ASSUME RulesOf("iban") = {}, SafeInv, EndStream
  PROVE  Promise!Next
<1>1. /\ Streaming /\ text \in Seq(Char) /\ text' = text /\ GateInv /\ Finalize /\ Ingest
      /\ Len(text) \in Nat
  BY DEF SafeInv, GateInv, EndStream, ScanInv, Finalize
<1>2. SafeInv' /\ ScanInv' /\ OnlyFindingsRewritten' /\ MaskedNeverClear' /\ seen \subseteq seen'
  BY <1>1, EndSafe, SeenGrows DEF SafeInv, GateInv
<1>3. CASE blocked'
  <2>1. EndBlocked
    BY <1>3 DEF EndStream
  <2> QED BY <1>1, <2>1, BlockedIsCut DEF Promise!Next
<1>4. CASE ~blocked'
  <2>1. PICK c, k : c = Len(client) /\ k = Len(pendingEvents)
    OBVIOUS
  <2>2. c \in Nat /\ k \in Nat /\ Wrote(c, k, pendingEvents)
    BY <1>1, <1>4, <2>1, EndWrites
  <2>3. /\ Linked(client', c + k)
        /\ Promise!EndAt(client', c + k) = Len(text)
        /\ \A p \in 1..Len(text) : \E i \in 1..(c + k) : Covers(client'[i], p)
    BY <1>1, <2>1, <2>2, EndChain
  <2>4. PICK es : es = pendingEvents
    OBVIOUS
  <2>5. Promise!Extends /\ Len(client') = c + k /\ client' \in Seq(Frame)
    BY <2>2, <2>3, <2>4, WroteExtends DEF Wrote
  <2>6. maskSpans' = {f \in seen' : Masking(f)}
    BY <1>1, <1>2, <1>4, IngestFacts
  <2>7. \A i \in 1..(c + k) : i \in DOMAIN client' /\ client'[i].type = "event"
    <3>1. \A i \in 1..(c + k) : i \in DOMAIN client' /\ client'[i] \in Frame
      BY <2>2, <2>5
    <3> QED BY <3>1 DEF Frame
  <2>8. (maskSpans' = {}) <=> ~(\E i \in 1..Len(client') : client'[i].stars # {})
    <3>1. ASSUME NEW i \in 1..(c + k), NEW p \in client'[i].stars PROVE maskSpans' # {}
      BY <1>2, <2>6, <2>7 DEF OnlyFindingsRewritten, EventFrames
    <3>2. ASSUME NEW f \in maskSpans'
          PROVE  \E i \in 1..(c + k) : client'[i].stars # {}
      <4>1. f \in seen' /\ Masking(f)
        BY <2>6
      <4>2. f.lo <= f.hi /\ f.lo \in 1..Len(text) /\ f.lo \in f.lo..f.hi
        BY <1>1, <1>2, <4>1, SeenAreFindings DEF Findings
      <4>3. PICK i \in 1..(c + k) : Covers(client'[i], f.lo)
        BY <2>3, <4>2
      <4>4. f.lo \in client'[i].stars
        BY <1>2, <2>7, <4>1, <4>2, <4>3 DEF MaskedNeverClear, EventFrames
      <4> QED BY <4>4
    <3> QED BY <2>5, <3>1, <3>2
  <2> DEFINE ending == IF maskSpans' = {} THEN "forwarded" ELSE "masked"
  <2>9. ledger = <<>> /\ ledger' = <<Record(ending)>> /\ Record(ending).verdict = ending
    BY <1>1, <1>4 DEF EndStream, EndBlocked, Streaming, Record
  <2>10. Verdicts = <<>> /\ Verdicts' = <<ending>>
    <3> HIDE DEF ending
    <3> QED BY <2>9 DEF Verdicts
  <2>11. ending = IF \E i \in 1..Len(client') : client'[i].stars # {}
                   THEN "masked" ELSE "forwarded"
    BY <2>8
  <2> HIDE DEF ending
  <2>12. Promise!EndAt(client', Len(client')) = Len(text) /\ UNCHANGED Len(text)
    BY <1>1, <2>3, <2>5
  <2>13. Promise!Complete
    BY <2>5, <2>10, <2>11, <2>12 DEF Promise!Complete, Promise!Open, Verdicts
  <2> QED BY <2>13 DEF Promise!Next
<1> QED BY <1>3, <1>4

\* Without IBAN rules the hold-back, the masking and the exits implement what
\* SafeStream promises, for every pack, policy and chunking.
THEOREM StreamIsSafe ==
  ASSUME RulesOf("iban") = {}
  PROVE  Spec => DeliversAsPromised
<1>1. Init => Promise!Init
  <2> SUFFICES ASSUME Init PROVE Promise!Init
    OBVIOUS
  <2>1. text = <<>> /\ client = <<>> /\ ledger = <<>>
    BY DEF Init, ScanInit
  <2>2. Verdicts = <<>>
    BY <2>1 DEF Verdicts
  <2> QED BY <2>1, <2>2 DEF Promise!Init, Verdicts
<1>2. SafeInv /\ [Next]_vars => [Promise!Next]_(Promise!vars)
  <2> SUFFICES ASSUME SafeInv, [Next]_vars PROVE Promise!Next \/ UNCHANGED Promise!vars
    OBVIOUS
  <2>1. CASE NextToken
    BY <2>1, TokenRefines, ChunkIsSeq DEF NextToken, SafeInv
  <2>2. CASE EndStream
    BY <2>2, EndRefines
  <2>3. CASE UNCHANGED vars
    BY <2>3 DEF vars, scanVars, gateVars, Promise!vars
  <2> QED BY <2>1, <2>2, <2>3 DEF Next
<1> QED BY <1>1, <1>2, SafeInvariant, PTL DEF Spec, DeliversAsPromised, Promise!Spec
=============================================================================
