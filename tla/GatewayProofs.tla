---------------------------- MODULE GatewayProofs ----------------------------
(***************************************************************************)
(* Proofs about Gateway: for every set of requests, every configuration    *)
(* and every set of findings, with failing ledger writes and a process     *)
(* that may be killed, no forbidden body crosses and the ledger is unique, *)
(* ordered, true and complete.                                             *)
(*                                                                         *)
(* None of these is inductive alone.  Handler says what holds of one       *)
(* handler at each place of ServeHTTP: what it has sent, which of its two  *)
(* records it has attempted, and what the record it is about to append     *)
(* will say.  The ledger properties follow because a record is appended    *)
(* only where the handler's Handler conjuncts make it true.                *)
(***************************************************************************)
EXTENDS Gateway, LoopProofs

-----------------------------------------------------------------------------
(***************************************************************************)
(* What Evaluate decides, for every validated configuration.               *)
(***************************************************************************)
\* FirstRule is the rule with the least index among those that name the class.
LEMMA FirstRuleIsFirst ==
  ASSUME NEW cfg, NEW class, ValidConfig(cfg), RulesNaming(cfg, class) # {}
  PROVE  \E i \in RulesNaming(cfg, class) :
            /\ FirstRule(cfg, class) = cfg.rules[i]
            /\ \A j \in RulesNaming(cfg, class) : i <= j
<1> DEFINE S == RulesNaming(cfg, class)
           least == CHOOSE i \in S : \A j \in S : i <= j
<1>1. S \in SUBSET Nat
  BY DEF RulesNaming, ValidConfig
<1>2. \E i \in S : \A j \in S : i <= j
  BY <1>1, LeastIndex
<1>3. least \in S /\ \A j \in S : least <= j
  BY <1>2
<1> QED BY <1>3 DEF FirstRule

\* Every decision is one of the three actions, and the CHOOSE of the first rule
\* is never left without a witness.
LEMMA EvaluateType ==
  ASSUME NEW cfg, NEW class, NEW dest, NEW conf, ValidConfig(cfg)
  PROVE  Evaluate(cfg, class, dest, conf) \in [action : Actions, exempted : BOOLEAN]
<1>1. RulesNaming(cfg, class) # {} => FirstRule(cfg, class).action \in Actions
  BY FirstRuleIsFirst DEF RulesNaming, ValidConfig
<1>2. RuledAction(cfg, class, conf) \in Actions
  BY <1>1 DEF RuledAction, BelowThreshold, ValidConfig, Actions
<1>3. Exempted(cfg, class, dest) \in BOOLEAN
  BY DEF Exempted
<1> QED BY <1>2, <1>3 DEF Evaluate, Actions

\* Evaluate blocks only where the configuration says so: the finding is not
\* exempted, and either no rule names its class and the default blocks, or the
\* first rule that names it blocks and its confidence reaches the threshold.
THEOREM BlockIsDeclared ==
  ASSUME NEW cfg, NEW class, NEW dest, NEW conf, ValidConfig(cfg),
         Evaluate(cfg, class, dest, conf).action = "block"
  PROVE  /\ <<class, dest>> \notin cfg.exemptions
         /\ \/ RulesNaming(cfg, class) = {} /\ cfg.default = "block"
            \/ \E i \in RulesNaming(cfg, class) :
                 /\ cfg.rules[i].action = "block"
                 /\ ~(conf < cfg.rules[i].minConf)
                 /\ \A j \in RulesNaming(cfg, class) : i <= j
<1>1. ~Exempted(cfg, class, dest) /\ RuledAction(cfg, class, conf) = "block"
  BY DEF Evaluate
<1>2. CASE RulesNaming(cfg, class) = {}
  BY <1>1, <1>2 DEF RuledAction, Exempted
<1>3. CASE RulesNaming(cfg, class) # {}
  <2>1. PICK i \in RulesNaming(cfg, class) :
          /\ FirstRule(cfg, class) = cfg.rules[i]
          /\ \A j \in RulesNaming(cfg, class) : i <= j
    BY <1>3, FirstRuleIsFirst
  <2>2. ~(conf < FirstRule(cfg, class).minConf) /\ FirstRule(cfg, class).action = "block"
    BY <1>1, <1>3 DEF RuledAction, BelowThreshold
  <2> QED BY <1>1, <2>1, <2>2 DEF Exempted
<1> QED BY <1>2, <1>3

\* First match: what stands after the first rule that names a class, and how
\* many rules there are, changes no decision about that class.
THEOREM LaterRulesAreIgnored ==
  ASSUME NEW cfg, NEW other, NEW class, NEW dest, NEW conf,
         ValidConfig(cfg), ValidConfig(other),
         other.default = cfg.default, other.exemptions = cfg.exemptions,
         NEW i \in RulesNaming(cfg, class),
         \A j \in RulesNaming(cfg, class) : i <= j,
         i \in DOMAIN other.rules,
         \A j \in 1..i : other.rules[j] = cfg.rules[j]
  PROVE  Evaluate(other, class, dest, conf) = Evaluate(cfg, class, dest, conf)
<1>0. i \in Nat \ {0} /\ class \in cfg.rules[i].classes
  BY DEF RulesNaming, ValidConfig
<1>1. i \in RulesNaming(other, class)
  BY <1>0 DEF RulesNaming
<1>2. ASSUME NEW j \in RulesNaming(other, class), j < i PROVE FALSE
  <2>1. j \in 1..i /\ j \in DOMAIN cfg.rules
    BY <1>0, <1>2 DEF RulesNaming, ValidConfig
  <2>2. j \in RulesNaming(cfg, class)
    BY <1>2, <2>1 DEF RulesNaming
  <2> QED BY <1>0, <1>2, <2>1, <2>2
<1>3. FirstRule(cfg, class) = cfg.rules[i]
  <2>1. PICK k \in RulesNaming(cfg, class) :
          /\ FirstRule(cfg, class) = cfg.rules[k]
          /\ \A j \in RulesNaming(cfg, class) : k <= j
    BY FirstRuleIsFirst
  <2>2. k \in Nat /\ k <= i /\ i <= k
    BY <2>1 DEF RulesNaming, ValidConfig
  <2> QED BY <1>0, <2>1, <2>2
<1>4. FirstRule(other, class) = other.rules[i]
  <2>1. PICK k \in RulesNaming(other, class) :
          /\ FirstRule(other, class) = other.rules[k]
          /\ \A j \in RulesNaming(other, class) : k <= j
    BY <1>1, FirstRuleIsFirst
  <2>2. k \in Nat /\ k <= i /\ ~(k < i)
    BY <1>1, <1>2, <2>1 DEF RulesNaming, ValidConfig
  <2> QED BY <1>0, <2>1, <2>2
<1>5. other.rules[i] = cfg.rules[i]
  BY <1>0
<1>6. RuledAction(other, class, conf) = RuledAction(cfg, class, conf)
  BY <1>1, <1>3, <1>4, <1>5 DEF RuledAction, BelowThreshold
<1> QED BY <1>6 DEF Evaluate, Exempted

-----------------------------------------------------------------------------
(***************************************************************************)
(* The handlers and the ledger.                                            *)
(***************************************************************************)
\* Neither record attempted, only the request's, both.
NoRecord(r) == ~Evidenced(r, "request") /\ ~Evidenced(r, "response")
RequestOnly(r) == Evidenced(r, "request") /\ ~Evidenced(r, "response")
BothRecords(r) == Evidenced(r, "request") /\ Evidenced(r, "response")

\* The record the handler is about to append describes its body.
RequestOutcome(r) ==
  /\ outcome[r].dir = "request"
  /\ outcome[r].verdict = Verdict(found[r])
  /\ outcome[r].findings = Listed(found[r])
  /\ outcome[r].unscanned = unscanned[r]
  /\ ~Blocked(found[r])

ResponseOutcome(r) ==
  /\ outcome[r].dir = "response"
  /\ outcome[r].verdict = Verdict(respFound[r])
  /\ outcome[r].findings = Listed(respFound[r])
  /\ ~Blocked(respFound[r])

LastOutcome(r) ==
  IF outcome[r].dir = "request"
  THEN /\ outcome[r].verdict = "blocked" /\ crossing[r] = "none"
       /\ outcome[r].findings = Listed(found[r])
       /\ outcome[r].unscanned = unscanned[r]
  ELSE outcome[r].findings = Listed(respFound[r])

\* Response records of r carry the verdict that decides its body.
RecordedAsDecided(r) ==
  \A i \in DOMAIN ledger :
    ledger[i].req = r /\ ledger[i].dir = "response" => ledger[i].verdict = outcome[r].verdict

Closing == {"record_last", "record_error", "reply_error"}
Before == {"read", "decide", "forward", "await", "record_request"}
After == {"record_request", "receive", "stream", "record_response", "reply"}

\* What holds of a handler at each place.
Handler(r) ==
  /\ pc[r] \in {"read", "decide", "forward"} => crossing[r] = "none"
  /\ pc[r] \in {"read", "decide", "forward", "await"} => ~answered[r]
  /\ pc[r] \in After => answered[r]
  /\ pc[r] \in Before => NoRecord(r)
  /\ pc[r] \in {"forward", "await", "record_request"} => RequestOutcome(r)
  /\ pc[r] \in {"await", "record_request"} => crossing[r] = Body(Verdict(found[r]))
  /\ pc[r] \in {"receive", "stream", "record_response"} => RequestOnly(r)
  /\ pc[r] \in {"record_response", "reply"} => ResponseOutcome(r)
  /\ pc[r] = "reply" => BothRecords(r) /\ RecordedAsDecided(r)
  /\ pc[r] \in Closing => (answered[r] <=> outcome[r].dir = "response")
  /\ pc[r] \in {"record_last", "record_error"} =>
       IF outcome[r].dir = "request" THEN NoRecord(r) ELSE RequestOnly(r)
  /\ pc[r] = "record_last" => LastOutcome(r)
  /\ pc[r] = "record_error" => outcome[r].verdict = "error"
  /\ pc[r] \in {"reply_error", "done"} =>
       Evidenced(r, "request") /\ (Evidenced(r, "response") <=> answered[r])
  /\ pc[r] \notin {"done", "killed"} => client[r] \cap {"clear", "masked", "502"} = {}
  /\ pc[r] \in Before => client[r] = {}

LedgerInv ==
  /\ OneRecordPerDirection
  /\ ResponseAfterRequest
  /\ VerdictsAreTrue
  /\ RecordsListFindings

\* The inductive invariant.
GatewayInv ==
  /\ TypeOK
  /\ \A r \in Requests : Handler(r)
  /\ LedgerInv
  /\ NothingForbiddenCrosses
  /\ BytesFollowRecord

-----------------------------------------------------------------------------
\* Constant facts.
LEMMA VerdictFacts ==
  ASSUME NEW F
  PROVE  /\ Verdict(F) \in {"forwarded", "masked", "blocked", "exempted"}
         /\ Verdict(F) = "blocked" <=> Blocked(F)
         /\ Verdict(F) = "masked" <=> ~Blocked(F) /\ MustMask(F)
         /\ StreamVerdict(F) \in {"forwarded", "masked", "blocked"}
         /\ \A v : Body(v) = IF v = "masked" THEN "masked" ELSE "clear"
<1>0. \A v : Body(v) = IF v = "masked" THEN "masked" ELSE "clear"
  BY DEF Body
<1>1. CASE Blocked(F)
  <2>1. Verdict(F) = "blocked"
    BY <1>1 DEF Verdict
  <2>2. StreamVerdict(F) = "blocked"
    BY <1>1 DEF StreamVerdict
  <2> QED BY <1>0, <1>1, <2>1, <2>2
<1>2. CASE ~Blocked(F) /\ MustMask(F)
  <2>1. Verdict(F) = "masked"
    BY <1>2 DEF Verdict
  <2>2. StreamVerdict(F) = "masked"
    BY <1>2 DEF StreamVerdict
  <2> QED BY <1>0, <1>2, <2>1, <2>2
<1>3. CASE ~Blocked(F) /\ ~MustMask(F)
  BY <1>3 DEF Verdict, StreamVerdict, Body
<1> QED BY <1>1, <1>2, <1>3

LEMMA ListedType ==
  ASSUME NEW F \in SUBSET Findings
  PROVE  Listed(F) \in Listings
<1>1. ASSUME NEW f \in F PROVE Result(f).action \in Actions
  BY EvaluateType, GatewayAssumption DEF Result
<1> QED BY <1>1 DEF Listed, Listings

\* A step of one handler leaves the others where they are.
Step(q) == ReadBody(q) \/ Handle(q) \/ Upstream(q) \/ StreamToken(q)

Untouched(r) ==
  /\ pc'[r] = pc[r] /\ found'[r] = found[r] /\ unscanned'[r] = unscanned[r]
  /\ crossing'[r] = crossing[r]
  /\ answered'[r] = answered[r] /\ respFound'[r] = respFound[r]
  /\ client'[r] = client[r] /\ outcome'[r] = outcome[r]

\* Steps that append a record, and those that leave the ledger alone.
Recording(q) ==
  RecordRequest(q) \/ RecordResponse(q) \/ RecordLast(q) \/ RecordError(q)

Silent(q) ==
  \/ ReadBody(q) \/ Decide(q) \/ Forward(q) \/ Await(q) \/ Receive(q)
  \/ Reply(q) \/ StreamToken(q) \/ StreamEnd(q) \/ ReplyError(q)

LEMMA StepCases == ASSUME NEW q PROVE Step(q) <=> Recording(q) \/ Silent(q)
  BY DEF Step, Recording, Silent, Handle, Upstream

LEMMA RecordingFacts ==
  ASSUME NEW q, Recording(q)
  PROVE  /\ AppendRecord(q)
         /\ pc[q] \in {"record_request", "record_response", "record_last", "record_error"}
         /\ UNCHANGED <<found, unscanned, crossing, answered, respFound, client, outcome>>
         /\ \E phase \in {"receive", "stream", "reply", "done", "reply_error"} : Goto(q, phase)
  BY DEF Recording, RecordRequest, RecordResponse, RecordLast, RecordError

LEMMA SilentFacts ==
  ASSUME NEW q, Silent(q)
  PROVE  ledger' = ledger /\ lost' = lost
<1>1. CASE ReadBody(q) BY <1>1 DEF ReadBody
<1>2. CASE Decide(q) BY <1>2 DEF Decide
<1>3. CASE Forward(q) BY <1>3 DEF Forward
<1>4. CASE Await(q) BY <1>4 DEF Await
<1>5. CASE Receive(q) BY <1>5 DEF Receive
<1>6. CASE Reply(q) BY <1>6 DEF Reply
<1>7. CASE StreamToken(q) BY <1>7 DEF StreamToken
<1>8. CASE StreamEnd(q) BY <1>8 DEF StreamEnd
<1>9. CASE ReplyError(q) BY <1>9 DEF ReplyError
<1> QED BY <1>1, <1>2, <1>3, <1>4, <1>5, <1>6, <1>7, <1>8, <1>9 DEF Silent

LEMMA OthersUntouched ==
  ASSUME TypeOK, NEW q \in Requests, NEW r \in Requests, r # q, Step(q)
  PROVE  Untouched(r)
<1> USE DEF Untouched, TypeOK, Goto, Write, Fail, Outcome
<1>1. CASE ReadBody(q) BY <1>1 DEF ReadBody
<1>2. CASE Decide(q) BY <1>2 DEF Decide
<1>3. CASE Forward(q) BY <1>3 DEF Forward
<1>4. CASE Await(q) BY <1>4 DEF Await
<1>5. CASE Receive(q) BY <1>5 DEF Receive
<1>6. CASE Reply(q) BY <1>6 DEF Reply
<1>7. CASE StreamToken(q) BY <1>7 DEF StreamToken
<1>8. CASE StreamEnd(q) BY <1>8 DEF StreamEnd
<1>9. CASE ReplyError(q) BY <1>9 DEF ReplyError
<1>10. CASE Recording(q) BY <1>10, RecordingFacts
<1> QED BY <1>1, <1>2, <1>3, <1>4, <1>5, <1>6, <1>7, <1>8, <1>9, <1>10, StepCases DEF Silent

-----------------------------------------------------------------------------
\* Type correctness.
LEMMA OutcomeType ==
  ASSUME TypeOK, NEW r \in Requests, NEW d \in Directions, NEW v \in Verdicts,
         NEW F \in SUBSET Findings, NEW u \in BOOLEAN, Outcome(r, d, v, F, u)
  PROVE  outcome' \in [Requests -> Outcomes]
<1>1. [dir |-> d, verdict |-> v, unscanned |-> u, findings |-> Listed(F)] \in Outcomes
  BY ListedType DEF Outcomes
<1> QED BY <1>1 DEF Outcome, TypeOK

LEMMA AppendType ==
  ASSUME TypeOK, NEW r \in Requests, AppendRecord(r)
  PROVE  ledger' \in Seq(Records) /\ lost' \subseteq Requests \X Directions
<1>1. outcome[r] \in Outcomes /\ outcome[r].dir \in Directions
  BY DEF TypeOK, Outcomes
<1>2. [req |-> r, dir |-> outcome[r].dir, verdict |-> outcome[r].verdict,
       findings |-> outcome[r].findings, unscanned |-> outcome[r].unscanned] \in Records
  BY <1>1 DEF Outcomes, Records
<1>5. Append(ledger, [req |-> r, dir |-> outcome[r].dir, verdict |-> outcome[r].verdict,
       findings |-> outcome[r].findings, unscanned |-> outcome[r].unscanned]) \in Seq(Records)
  BY <1>2 DEF TypeOK
<1>3. CASE lost' = lost
  BY <1>5, <1>3 DEF AppendRecord, TypeOK
<1>4. CASE lost' = lost \cup {<<r, outcome[r].dir>>} /\ ledger' = ledger
  BY <1>1, <1>4 DEF TypeOK
<1> QED BY <1>3, <1>4 DEF AppendRecord

LEMMA TypeInit == Init => TypeOK
<1> SUFFICES ASSUME Init PROVE TypeOK
  OBVIOUS
<1>1. NoOutcome \in Outcomes
  BY DEF NoOutcome, Outcomes, Directions, Verdicts, Listings
<1> QED BY <1>1 DEF Init, TypeOK, Phases

LEMMA TypeStep ==
  ASSUME TypeOK, NEW q \in Requests, Step(q)
  PROVE  TypeOK'
<1>0. /\ "request" \in Directions /\ "response" \in Directions
      /\ \A F : Verdict(F) \in Verdicts /\ StreamVerdict(F) \in Verdicts
      /\ {"blocked", "error"} \subseteq Verdicts
      /\ found[q] \in SUBSET Findings /\ respFound[q] \in SUBSET Findings
      /\ unscanned[q] \in BOOLEAN /\ FALSE \in BOOLEAN /\ {} \in SUBSET Findings
      /\ \A v : Body(v) \in {"clear", "masked"}
  BY VerdictFacts DEF Directions, Verdicts, TypeOK
<1>a. ASSUME NEW d \in Directions, Fail(q, d)
      PROVE  pc' \in [Requests -> Phases] /\ outcome' \in [Requests -> Outcomes]
  <2>1. Outcome(q, d, "error", {}, FALSE)
    BY <1>a DEF Fail
  <2>2. outcome' \in [Requests -> Outcomes]
    BY <1>0, <2>1, OutcomeType
  <2> QED BY <1>a, <2>2 DEF Fail, Goto, TypeOK, Phases
<1>b. ASSUME NEW p \in Phases, Goto(q, p) PROVE pc' \in [Requests -> Phases]
  BY <1>b DEF Goto, TypeOK
<1>c. ASSUME NEW w \in Writes, Write(q, w) PROVE client' \in [Requests -> SUBSET Writes]
  BY <1>c DEF Write, TypeOK
<1>d. {"read", "decide", "forward", "await", "record_request", "receive", "stream",
       "record_response", "reply", "record_last", "reply_error", "done"} \subseteq Phases
      /\ {"403", "502", "clear", "masked", "events", "error_event"} \subseteq Writes
  BY DEF Phases, Writes
<1>1. CASE ReadBody(q)
  <2>1. found' \in [Requests -> SUBSET Findings] /\ unscanned' \in [Requests -> BOOLEAN]
    BY <1>1 DEF ReadBody, TypeOK
  <2>2. pc' \in [Requests -> Phases] /\ outcome' \in [Requests -> Outcomes]
    BY <1>0, <1>1, <1>a, <1>b, <1>d DEF ReadBody, TypeOK
  <2> QED BY <1>1, <2>1, <2>2 DEF ReadBody, TypeOK
<1>2. CASE Decide(q)
  <2>1. CASE Fail(q, "request") /\ UNCHANGED client
    BY <1>0, <1>2, <2>1, <1>a DEF Decide, TypeOK
  <2>2. CASE Outcome(q, "request", Verdict(found[q]), found[q], unscanned[q])
    <3>1. outcome' \in [Requests -> Outcomes]
      BY <1>0, <2>2, OutcomeType
    <3>2. CASE Write(q, "403") /\ Goto(q, "record_last")
      BY <1>2, <1>b, <1>c, <1>d, <3>1, <3>2 DEF Decide, TypeOK
    <3>3. CASE Goto(q, "forward") /\ UNCHANGED client
      BY <1>2, <1>b, <1>d, <3>1, <3>3 DEF Decide, TypeOK
    <3>4. CASE Fail(q, "request") /\ UNCHANGED client
      BY <2>1, <3>4
    <3> QED BY <1>2, <3>2, <3>3, <3>4 DEF Decide
  <2> QED BY <1>2, <2>1, <2>2 DEF Decide
<1>3. CASE Forward(q)
  <2>1. crossing' \in [Requests -> {"none", "clear", "masked"}]
    BY <1>0, <1>3 DEF Forward, TypeOK
  <2>2. pc' \in [Requests -> Phases] /\ outcome' \in [Requests -> Outcomes]
    BY <1>0, <1>3, <1>a, <1>b, <1>d DEF Forward, TypeOK
  <2> QED BY <1>3, <2>1, <2>2 DEF Forward, TypeOK
<1>4. CASE Await(q)
  <2>1. answered' \in [Requests -> BOOLEAN]
    BY <1>4 DEF Await, TypeOK
  <2>2. pc' \in [Requests -> Phases] /\ outcome' \in [Requests -> Outcomes]
    BY <1>0, <1>4, <1>a, <1>b, <1>d DEF Await, TypeOK
  <2> QED BY <1>4, <2>1, <2>2 DEF Await, TypeOK
<1>5. CASE Receive(q)
  <2>1. CASE Fail(q, "response") /\ UNCHANGED <<respFound, client>>
    BY <1>0, <1>5, <2>1, <1>a DEF Receive, TypeOK
  <2>2. ASSUME NEW F \in SUBSET Findings, respFound' = [respFound EXCEPT ![q] = F],
               Outcome(q, "response", Verdict(F), F, FALSE),
               \/ Write(q, "403") /\ Goto(q, "record_last")
               \/ Goto(q, "record_response") /\ UNCHANGED client
        PROVE  TypeOK'
    <3>1. outcome' \in [Requests -> Outcomes]
      BY <1>0, <2>2, OutcomeType
    <3>2. pc' \in [Requests -> Phases] /\ client' \in [Requests -> SUBSET Writes]
      BY <1>b, <1>c, <1>d, <2>2 DEF TypeOK
    <3>3. respFound' \in [Requests -> SUBSET Findings]
      BY <2>2 DEF TypeOK
    <3> QED BY <1>5, <3>1, <3>2, <3>3 DEF Receive, TypeOK
  <2> QED BY <1>5, <2>1, <2>2 DEF Receive
<1>6. CASE Reply(q)
  <2>1. client' \in [Requests -> SUBSET Writes]
    BY <1>0, <1>6, <1>c, <1>d DEF Reply
  <2> QED BY <1>6, <1>b, <1>d, <2>1 DEF Reply, TypeOK
<1>7. CASE StreamToken(q)
  <2> SUFFICES ASSUME NEW F \in SUBSET Findings,
                      respFound' = [respFound EXCEPT ![q] = respFound[q] \cup F],
                      \/ /\ Write(q, "error_event")
                         /\ Outcome(q, "response", "blocked", respFound[q] \cup F, FALSE)
                         /\ Goto(q, "record_last")
                      \/ Write(q, "events") /\ UNCHANGED <<pc, outcome>>
               PROVE  TypeOK'
    BY <1>7 DEF StreamToken
  <2>0. respFound[q] \cup F \in SUBSET Findings
    BY <1>0
  <2>1. outcome' \in [Requests -> Outcomes]
    BY <1>0, <2>0, OutcomeType DEF TypeOK
  <2>2. pc' \in [Requests -> Phases] /\ client' \in [Requests -> SUBSET Writes]
    BY <1>b, <1>c, <1>d DEF TypeOK
  <2>3. respFound' \in [Requests -> SUBSET Findings]
    BY <2>0 DEF TypeOK
  <2> QED BY <1>7, <2>1, <2>2, <2>3 DEF StreamToken, TypeOK
<1>8. CASE StreamEnd(q)
  <2> SUFFICES ASSUME NEW F \in SUBSET Findings,
                      respFound' = [respFound EXCEPT ![q] = respFound[q] \cup F],
                      \E w \in {"error_event", "events"} : Write(q, w),
                      Outcome(q, "response", StreamVerdict(respFound[q] \cup F),
                              respFound[q] \cup F, FALSE),
                      Goto(q, "record_last")
               PROVE  TypeOK'
    BY <1>8 DEF StreamEnd
  <2>0. respFound[q] \cup F \in SUBSET Findings
    BY <1>0
  <2>1. outcome' \in [Requests -> Outcomes]
    BY <1>0, <2>0, OutcomeType
  <2>2. pc' \in [Requests -> Phases] /\ client' \in [Requests -> SUBSET Writes]
    BY <1>b, <1>c, <1>d
  <2>3. respFound' \in [Requests -> SUBSET Findings]
    BY <2>0 DEF TypeOK
  <2> QED BY <1>8, <2>1, <2>2, <2>3 DEF StreamEnd, TypeOK
<1>9. CASE ReplyError(q)
  BY <1>9, <1>b, <1>c, <1>d DEF ReplyError, TypeOK
<1>10. CASE Recording(q)
  BY <1>10, <1>b, <1>d, RecordingFacts, AppendType DEF TypeOK
<1> QED BY <1>1, <1>2, <1>3, <1>4, <1>5, <1>6, <1>7, <1>8, <1>9, <1>10, StepCases DEF Silent

LEMMA TypeKill == ASSUME TypeOK, Kill PROVE TypeOK'
  BY DEF TypeOK, Kill, Phases

-----------------------------------------------------------------------------
\* What a step does to the evidence.
Appended(q) ==
  LET last == Len(ledger) + 1
  IN  /\ lost' = lost
      /\ DOMAIN ledger = 1..Len(ledger) /\ Len(ledger) \in Nat
      /\ DOMAIN ledger' = 1..last
      /\ \A i \in 1..Len(ledger) : ledger'[i] = ledger[i]
      /\ ledger'[last].req = q
      /\ ledger'[last].dir = outcome[q].dir
      /\ ledger'[last].verdict = outcome[q].verdict
      /\ ledger'[last].findings = outcome[q].findings
      /\ ledger'[last].unscanned = outcome[q].unscanned

LEMMA AppendCases ==
  ASSUME TypeOK, NEW q \in Requests, AppendRecord(q)
  PROVE  Appended(q) \/ (ledger' = ledger /\ lost' = lost \cup {<<q, outcome[q].dir>>})
<1> DEFINE rec == [req |-> q, dir |-> outcome[q].dir, verdict |-> outcome[q].verdict,
                   findings |-> outcome[q].findings, unscanned |-> outcome[q].unscanned]
<1>1. CASE lost' = lost /\ ledger' = Append(ledger, rec)
  <2>1. ledger \in Seq(Records)
    BY DEF TypeOK
  <2>3. /\ rec.req = q /\ rec.dir = outcome[q].dir
        /\ rec.verdict = outcome[q].verdict /\ rec.findings = outcome[q].findings
        /\ rec.unscanned = outcome[q].unscanned
    OBVIOUS
  <2> HIDE DEF rec
  <2>2. /\ DOMAIN ledger' = 1..(Len(ledger) + 1)
        /\ DOMAIN ledger = 1..Len(ledger) /\ Len(ledger) \in Nat
        /\ \A i \in 1..Len(ledger) : ledger'[i] = ledger[i]
        /\ ledger'[Len(ledger) + 1] = rec
    BY <1>1, <2>1
  <2> QED BY <1>1, <2>2, <2>3 DEF Appended
<1> QED BY <1>1 DEF AppendRecord

LEMMA AppendEvidence ==
  ASSUME TypeOK, NEW q \in Requests, AppendRecord(q), NEW r, NEW d
  PROVE  Evidenced(r, d)' <=> Evidenced(r, d) \/ (r = q /\ d = outcome[q].dir)
<1>1. CASE Appended(q)
  <2>1. Recorded(r, d)' <=> Recorded(r, d) \/ (r = q /\ d = outcome[q].dir)
    BY <1>1 DEF Recorded, Appended
  <2> QED BY <1>1, <2>1 DEF Evidenced, Appended
<1>2. CASE ledger' = ledger /\ lost' = lost \cup {<<q, outcome[q].dir>>}
  BY <1>2 DEF Evidenced, Recorded
<1> QED BY <1>1, <1>2, AppendCases

LEMMA SilentEvidence ==
  ASSUME NEW q, Silent(q), NEW r, NEW d
  PROVE  Evidenced(r, d)' <=> Evidenced(r, d)
  BY SilentFacts DEF Evidenced, Recorded

\* A handler that another one's step does not touch keeps its place.
LEMMA OtherHandlers ==
  ASSUME TypeOK, NEW q \in Requests, NEW r \in Requests, r # q, Step(q), Handler(r)
  PROVE  Handler(r)'
<1>1. Untouched(r)
  BY OthersUntouched
<1>2. /\ Evidenced(r, "request")' <=> Evidenced(r, "request")
      /\ Evidenced(r, "response")' <=> Evidenced(r, "response")
  BY StepCases, SilentEvidence, AppendEvidence, RecordingFacts
<1>3. RecordedAsDecided(r) => RecordedAsDecided(r)'
  <2>1. CASE Silent(q)
    BY <1>1, <2>1, SilentFacts DEF RecordedAsDecided, Untouched
  <2>2. CASE Recording(q)
    <3>1. outcome'[r] = outcome[r]
      BY <1>1 DEF Untouched
    <3>2. CASE Appended(q)
      BY <3>1, <3>2 DEF RecordedAsDecided, Appended
    <3>3. CASE ledger' = ledger
      BY <3>1, <3>3 DEF RecordedAsDecided
    <3> QED BY <2>2, <3>2, <3>3, AppendCases, RecordingFacts
  <2> QED BY <2>1, <2>2, StepCases
<1> QED BY <1>1, <1>2, <1>3
  DEF Handler, Untouched, NoRecord, RequestOnly, BothRecords, RequestOutcome,
      ResponseOutcome, LastOutcome

-----------------------------------------------------------------------------
\* The handler that takes the step.
LEMMA FailHandler ==
  ASSUME TypeOK, NEW q \in Requests, NEW d \in Directions, Fail(q, d), Silent(q),
         UNCHANGED <<crossing, client>>, answered'[q] = answered[q],
         answered[q] <=> d = "response",
         IF d = "request" THEN NoRecord(q) ELSE RequestOnly(q),
         client[q] \cap {"clear", "masked", "502"} = {}
  PROVE  Handler(q)'
<1>1. /\ pc'[q] = "record_error" /\ outcome'[q].dir = d /\ outcome'[q].verdict = "error"
  BY DEF Fail, Goto, Outcome, TypeOK
<1>2. /\ Evidenced(q, "request")' <=> Evidenced(q, "request")
      /\ Evidenced(q, "response")' <=> Evidenced(q, "response")
  BY SilentEvidence
<1> QED BY <1>1, <1>2
  DEF Handler, Before, After, Closing, NoRecord, RequestOnly

LEMMA SilentHandler ==
  ASSUME TypeOK, NEW q \in Requests, Silent(q), Handler(q)
  PROVE  Handler(q)'
<1>0. /\ Evidenced(q, "request")' <=> Evidenced(q, "request")
      /\ Evidenced(q, "response")' <=> Evidenced(q, "response")
  BY SilentEvidence
<1> USE DEF Before, After, Closing, NoRecord, RequestOnly, BothRecords, Goto, Write, Outcome
<1>1. CASE ReadBody(q)
  <2>0. pc[q] = "read" /\ NoRecord(q) /\ ~answered[q] /\ client[q] = {} /\ crossing[q] = "none"
    BY <1>1 DEF ReadBody, Handler
  <2>1. CASE Fail(q, "request")
    BY <1>1, <2>0, <2>1, FailHandler DEF ReadBody, Directions
  <2>2. CASE Goto(q, "decide")
    BY <1>0, <1>1, <2>0, <2>2 DEF ReadBody, Handler, TypeOK
  <2> QED BY <1>1, <2>1, <2>2 DEF ReadBody
<1>2. CASE Decide(q)
  <2>0. pc[q] = "decide" /\ NoRecord(q) /\ ~answered[q] /\ client[q] = {} /\ crossing[q] = "none"
    BY <1>2 DEF Decide, Handler
  <2>1. CASE Fail(q, "request") /\ UNCHANGED client
    BY <1>2, <2>0, <2>1, FailHandler DEF Decide, Directions
  <2>2. CASE Outcome(q, "request", Verdict(found[q]), found[q], unscanned[q])
    <3>1. /\ outcome'[q].dir = "request" /\ outcome'[q].verdict = Verdict(found[q])
          /\ outcome'[q].findings = Listed(found[q]) /\ found'[q] = found[q]
          /\ outcome'[q].unscanned = unscanned[q] /\ unscanned'[q] = unscanned[q]
      BY <1>2, <2>2 DEF Decide, TypeOK
    <3>2. CASE Blocked(found[q])
      <4>1. pc'[q] = "record_last" /\ client'[q] = {"403"}
        BY <1>2, <2>0, <3>2, <3>1, VerdictFacts DEF Decide, TypeOK, Fail
      <4> QED BY <1>0, <1>2, <2>0, <3>1, <3>2, <4>1, VerdictFacts DEF Decide, Handler, LastOutcome
    <3>3. CASE ~Blocked(found[q])
      <4>1. pc'[q] = "forward" /\ client'[q] = {}
        BY <1>2, <2>0, <3>3, <3>1, VerdictFacts DEF Decide, TypeOK, Fail
      <4> QED BY <1>0, <1>2, <2>0, <3>1, <3>3, <4>1 DEF Decide, Handler, RequestOutcome
    <3> QED BY <3>2, <3>3
  <2> QED BY <1>2, <2>1, <2>2 DEF Decide
<1>3. CASE Forward(q)
  <2>0. /\ pc[q] = "forward" /\ NoRecord(q) /\ ~answered[q] /\ client[q] = {}
        /\ crossing[q] = "none" /\ RequestOutcome(q)
    BY <1>3 DEF Forward, Handler
  <2>1. CASE Fail(q, "request") /\ UNCHANGED crossing
    BY <1>3, <2>0, <2>1, FailHandler DEF Forward, Directions
  <2>2. CASE Goto(q, "await") /\ UNCHANGED outcome /\ crossing' = [crossing EXCEPT ![q] = Body(outcome[q].verdict)]
    <3>1. pc'[q] = "await" /\ crossing'[q] = Body(Verdict(found[q]))
      BY <2>0, <2>2 DEF TypeOK, RequestOutcome
    <3> QED BY <1>0, <1>3, <2>0, <2>2, <3>1 DEF Forward, Handler, RequestOutcome
  <2> QED BY <1>3, <2>1, <2>2 DEF Forward
<1>4. CASE Await(q)
  <2>0. /\ pc[q] = "await" /\ NoRecord(q) /\ ~answered[q] /\ client[q] = {}
        /\ crossing[q] = Body(Verdict(found[q])) /\ RequestOutcome(q)
    BY <1>4 DEF Await, Handler
  <2>1. CASE Fail(q, "request") /\ UNCHANGED answered
    BY <1>4, <2>0, <2>1, FailHandler DEF Await, Directions
  <2>2. CASE Goto(q, "record_request") /\ UNCHANGED outcome /\ answered' = [answered EXCEPT ![q] = TRUE]
    <3>1. pc'[q] = "record_request" /\ answered'[q]
      BY <2>0, <2>2 DEF TypeOK
    <3> QED BY <1>0, <1>4, <2>0, <2>2, <3>1 DEF Await, Handler, RequestOutcome
  <2> QED BY <1>4, <2>1, <2>2 DEF Await
<1>5. CASE Receive(q)
  <2>0. /\ pc[q] = "receive" /\ RequestOnly(q) /\ answered[q]
        /\ client[q] \cap {"clear", "masked", "502"} = {}
    BY <1>5 DEF Receive, Handler
  <2>1. CASE Fail(q, "response") /\ UNCHANGED <<respFound, client>>
    BY <1>5, <2>0, <2>1, FailHandler DEF Receive, Directions
  <2>2. ASSUME NEW F \in SUBSET Findings, respFound' = [respFound EXCEPT ![q] = F],
               Outcome(q, "response", Verdict(F), F, FALSE),
               IF Blocked(F)
               THEN Write(q, "403") /\ Goto(q, "record_last")
               ELSE Goto(q, "record_response") /\ UNCHANGED client
        PROVE  Handler(q)'
    <3>1. /\ outcome'[q].dir = "response" /\ outcome'[q].verdict = Verdict(F)
          /\ outcome'[q].findings = Listed(F) /\ respFound'[q] = F
      BY <2>2 DEF TypeOK
    <3>2. CASE Blocked(F)
      <4>1. pc'[q] = "record_last" /\ client'[q] = client[q] \cup {"403"}
        BY <2>2, <3>2 DEF TypeOK
      <4>2. client'[q] \cap {"clear", "masked", "502"} = {}
        BY <2>0, <4>1
      <4> QED BY <1>0, <1>5, <2>0, <3>1, <3>2, <4>1, <4>2 DEF Receive, Handler, LastOutcome
    <3>3. CASE ~Blocked(F)
      <4>1. pc'[q] = "record_response" /\ client'[q] = client[q]
        BY <2>2, <3>3 DEF TypeOK
      <4> QED BY <1>0, <1>5, <2>0, <3>1, <3>3, <4>1 DEF Receive, Handler, ResponseOutcome
    <3> QED BY <3>2, <3>3
  <2> QED BY <1>5, <2>1, <2>2 DEF Receive
<1>6. CASE Reply(q)
  <2>0. /\ pc[q] = "reply" /\ BothRecords(q) /\ answered[q]
    BY <1>6 DEF Reply, Handler
  <2>1. pc'[q] = "done" /\ answered'[q] = answered[q]
    BY <1>6 DEF Reply, TypeOK
  <2> QED BY <1>0, <2>0, <2>1 DEF Handler
<1>7. CASE StreamToken(q)
  <2>0. /\ pc[q] = "stream" /\ RequestOnly(q) /\ answered[q] /\ answered'[q] = answered[q]
        /\ client[q] \cap {"clear", "masked", "502"} = {}
    BY <1>7 DEF StreamToken, Handler
  <2> SUFFICES ASSUME NEW F \in SUBSET Findings,
                      respFound' = [respFound EXCEPT ![q] = respFound[q] \cup F],
                      \/ /\ Write(q, "error_event")
                         /\ Outcome(q, "response", "blocked", respFound[q] \cup F, FALSE)
                         /\ Goto(q, "record_last")
                      \/ Write(q, "events") /\ UNCHANGED <<pc, outcome>>
               PROVE  Handler(q)'
    BY <1>7 DEF StreamToken
  <2>1. respFound'[q] = respFound[q] \cup F /\ client'[q] \cap {"clear", "masked", "502"} = {}
    BY <2>0 DEF TypeOK
  <2>2. \/ /\ pc'[q] = "record_last" /\ outcome'[q].dir = "response"
           /\ outcome'[q].findings = Listed(respFound'[q])
        \/ pc'[q] = "stream"
    BY <2>0, <2>1 DEF TypeOK
  <2> QED BY <1>0, <2>0, <2>1, <2>2 DEF Handler, LastOutcome
<1>8. CASE StreamEnd(q)
  <2>0. /\ pc[q] = "stream" /\ RequestOnly(q) /\ answered[q] /\ answered'[q] = answered[q]
        /\ client[q] \cap {"clear", "masked", "502"} = {}
    BY <1>8 DEF StreamEnd, Handler
  <2> SUFFICES ASSUME NEW F \in SUBSET Findings,
                      respFound' = [respFound EXCEPT ![q] = respFound[q] \cup F],
                      \E w \in {"error_event", "events"} : Write(q, w),
                      Outcome(q, "response", StreamVerdict(respFound[q] \cup F),
                              respFound[q] \cup F, FALSE),
                      Goto(q, "record_last")
               PROVE  Handler(q)'
    BY <1>8 DEF StreamEnd
  <2>1. respFound'[q] = respFound[q] \cup F /\ client'[q] \cap {"clear", "masked", "502"} = {}
    BY <2>0 DEF TypeOK
  <2>2. /\ pc'[q] = "record_last" /\ outcome'[q].dir = "response"
        /\ outcome'[q].findings = Listed(respFound'[q])
    BY <2>0, <2>1 DEF TypeOK
  <2> QED BY <1>0, <2>0, <2>1, <2>2 DEF Handler, LastOutcome
<1>9. CASE ReplyError(q)
  <2>0. pc[q] = "reply_error" /\ pc'[q] = "done" /\ answered'[q] = answered[q]
    BY <1>9 DEF ReplyError, TypeOK
  <2> QED BY <1>0, <2>0 DEF Handler
<1> QED BY <1>1, <1>2, <1>3, <1>4, <1>5, <1>6, <1>7, <1>8, <1>9 DEF Silent

\* No record of r in this direction yet means the one that is appended is the
\* only one.
LEMMA RecordingHandler ==
  ASSUME TypeOK, NEW q \in Requests, Recording(q), Handler(q)
  PROVE  Handler(q)'
<1>0. ASSUME NEW d PROVE Evidenced(q, d)' <=> Evidenced(q, d) \/ d = outcome[q].dir
  BY AppendEvidence, RecordingFacts
<1>1. UNCHANGED <<found, unscanned, crossing, answered, respFound, client, outcome>>
  BY RecordingFacts
<1> USE DEF Before, After, Closing, NoRecord, RequestOnly, BothRecords, Goto
<1>2. CASE RecordRequest(q)
  <2>1. pc[q] = "record_request" /\ pc'[q] \in {"receive", "stream"}
    BY <1>2 DEF RecordRequest, TypeOK
  <2>2. RequestOnly(q)'
    BY <1>0, <2>1 DEF Handler, RequestOutcome
  <2> QED BY <1>1, <2>1, <2>2 DEF Handler
<1>3. CASE RecordResponse(q)
  <2>1. pc[q] = "record_response" /\ pc'[q] = "reply" /\ outcome[q].dir = "response"
    BY <1>3 DEF RecordResponse, TypeOK, Handler, ResponseOutcome
  <2>2. BothRecords(q)'
    BY <1>0, <2>1 DEF Handler
  <2>3. \A i \in DOMAIN ledger : ~(ledger[i].req = q /\ ledger[i].dir = "response")
    BY <2>1 DEF Handler, Evidenced, Recorded
  <2>4. RecordedAsDecided(q)'
    <3>1. CASE Appended(q)
      BY <1>1, <2>3, <3>1 DEF Appended, RecordedAsDecided
    <3>2. CASE ledger' = ledger
      BY <2>3, <3>2 DEF RecordedAsDecided
    <3> QED BY <3>1, <3>2, AppendCases, RecordingFacts
  <2> QED BY <1>1, <2>1, <2>2, <2>4 DEF Handler, ResponseOutcome
<1>4. CASE RecordLast(q)
  <2>1. pc[q] = "record_last" /\ pc'[q] = "done"
    BY <1>4 DEF RecordLast, TypeOK
  <2>2. outcome[q].dir \in {"request", "response"}
    BY DEF TypeOK, Outcomes, Directions
  <2> QED BY <1>0, <1>1, <2>1, <2>2 DEF Handler
<1>5. CASE RecordError(q)
  <2>1. pc[q] = "record_error" /\ pc'[q] = "reply_error"
    BY <1>5 DEF RecordError, TypeOK
  <2>2. outcome[q].dir \in {"request", "response"}
    BY DEF TypeOK, Outcomes, Directions
  <2> QED BY <1>0, <1>1, <2>1, <2>2 DEF Handler
<1> QED BY <1>2, <1>3, <1>4, <1>5 DEF Recording

-----------------------------------------------------------------------------
\* The ledger.  A record is true and complete when it is appended.
LEMMA AppendedRecord ==
  ASSUME TypeOK, NEW q \in Requests, Recording(q), Handler(q)
  PROVE  /\ outcome[q].dir \in {"request", "response"}
         /\ ~Evidenced(q, outcome[q].dir)
         /\ outcome[q].dir = "response" =>
              /\ Evidenced(q, "request")
              /\ client[q] \cap {"clear", "masked"} = {}
         /\ outcome[q].dir = "request" =>
              /\ outcome[q].verdict = "blocked" => crossing[q] = "none"
              /\ outcome[q].verdict = "masked" => crossing[q] = "masked"
              /\ outcome[q].verdict \in {"forwarded", "exempted"} => crossing[q] = "clear"
         /\ outcome[q].verdict # "error" =>
              IF outcome[q].dir = "request"
              THEN /\ outcome[q].findings = Listed(found[q])
                   /\ outcome[q].unscanned = unscanned[q]
              ELSE outcome[q].findings = Listed(respFound[q])
<1>0. outcome[q].dir \in {"request", "response"}
  BY DEF TypeOK, Outcomes, Directions
<1> USE DEF Before, After, Closing, NoRecord, RequestOnly
<1>1. CASE RecordRequest(q)
  <2>1. pc[q] = "record_request" /\ RequestOutcome(q) /\ NoRecord(q)
        /\ crossing[q] = Body(Verdict(found[q]))
    BY <1>1 DEF RecordRequest, Handler
  <2> QED BY <2>1, VerdictFacts DEF RequestOutcome
<1>2. CASE RecordResponse(q)
  <2>1. pc[q] = "record_response" /\ ResponseOutcome(q) /\ RequestOnly(q)
        /\ client[q] \cap {"clear", "masked", "502"} = {}
    BY <1>2 DEF RecordResponse, Handler
  <2> QED BY <2>1 DEF ResponseOutcome
<1>3. CASE RecordLast(q)
  <2>1. pc[q] = "record_last" /\ LastOutcome(q)
        /\ (IF outcome[q].dir = "request" THEN NoRecord(q) ELSE RequestOnly(q))
        /\ client[q] \cap {"clear", "masked", "502"} = {}
    BY <1>3 DEF RecordLast, Handler
  <2> QED BY <1>0, <2>1 DEF LastOutcome
<1>4. CASE RecordError(q)
  <2>1. pc[q] = "record_error" /\ outcome[q].verdict = "error"
        /\ (IF outcome[q].dir = "request" THEN NoRecord(q) ELSE RequestOnly(q))
        /\ client[q] \cap {"clear", "masked", "502"} = {}
    BY <1>4 DEF RecordError, Handler
  <2> QED BY <1>0, <2>1
<1> QED BY <1>1, <1>2, <1>3, <1>4 DEF Recording

LEMMA RecordingLedger ==
  ASSUME TypeOK, NEW q \in Requests, Recording(q), Handler(q), LedgerInv
  PROVE  LedgerInv'
<1>0. /\ ~Recorded(q, outcome[q].dir) /\ <<q, outcome[q].dir>> \notin lost
      /\ outcome[q].dir = "response" => Evidenced(q, "request")
      /\ UNCHANGED <<found, unscanned, crossing, respFound, client>>
  BY AppendedRecord, RecordingFacts DEF Evidenced
<1>1. CASE Appended(q)
  <2>1. OneRecordPerDirection'
    <3> DEFINE last == Len(ledger) + 1
    <3>1. /\ lost' = lost /\ Len(ledger) \in Nat
          /\ DOMAIN ledger = 1..Len(ledger) /\ DOMAIN ledger' = 1..last
          /\ \A i \in 1..Len(ledger) : ledger'[i] = ledger[i]
          /\ ledger'[last].req = q /\ ledger'[last].dir = outcome[q].dir
      BY <1>1 DEF Appended
    <3>2. \A i \in DOMAIN ledger : ~(ledger[i].req = q /\ ledger[i].dir = outcome[q].dir)
      BY <1>0 DEF Recorded
    <3>3. ASSUME NEW i \in DOMAIN ledger'
          PROVE  /\ <<ledger'[i].req, ledger'[i].dir>> \notin lost'
                 /\ i = last \/ i \in DOMAIN ledger
      <4>1. CASE i = last
        BY <1>0, <3>1, <4>1
      <4>2. CASE i \in DOMAIN ledger
        BY <3>1, <4>2 DEF LedgerInv, OneRecordPerDirection
      <4> QED BY <3>1, <4>1, <4>2
    <3>4. ASSUME NEW i \in DOMAIN ledger', NEW j \in DOMAIN ledger',
                 ledger'[i].req = ledger'[j].req, ledger'[i].dir = ledger'[j].dir
          PROVE  i = j
      <4>1. CASE i = last /\ j = last
        BY <4>1
      <4>2. CASE i \in DOMAIN ledger /\ j \in DOMAIN ledger
        BY <3>1, <3>4, <4>2 DEF LedgerInv, OneRecordPerDirection
      <4>3. CASE i = last /\ j \in DOMAIN ledger
        BY <3>1, <3>2, <3>4, <4>3
      <4>4. CASE j = last /\ i \in DOMAIN ledger
        BY <3>1, <3>2, <3>4, <4>4
      <4> QED BY <3>3, <4>1, <4>2, <4>3, <4>4
    <3> QED BY <3>3, <3>4 DEF OneRecordPerDirection
  <2>2. ResponseAfterRequest'
    <3> SUFFICES ASSUME NEW i \in DOMAIN ledger', ledger'[i].dir = "response"
                 PROVE  \/ <<ledger'[i].req, "request">> \in lost'
                        \/ \E j \in 1..(i - 1) : /\ ledger'[j].req = ledger'[i].req
                                                 /\ ledger'[j].dir = "request"
      BY DEF ResponseAfterRequest
    <3>1. CASE i \in DOMAIN ledger
      <4>1. \/ <<ledger[i].req, "request">> \in lost
            \/ \E j \in 1..(i - 1) : ledger[j].req = ledger[i].req /\ ledger[j].dir = "request"
        BY <1>1, <3>1 DEF LedgerInv, ResponseAfterRequest, Appended
      <4> QED BY <1>1, <3>1, <4>1 DEF Appended
    <3>2. CASE i = Len(ledger) + 1
      <4>1. Evidenced(q, "request")
        BY <1>0, <1>1, <3>2 DEF Appended
      <4> QED BY <1>1, <3>2, <4>1 DEF Appended, Evidenced, Recorded
    <3> QED BY <1>1, <3>1, <3>2 DEF Appended
  <2>3. VerdictsAreTrue'
    <3> SUFFICES ASSUME NEW i \in DOMAIN ledger'
                 PROVE  LET r == ledger'[i].req
                            v == ledger'[i].verdict
                        IN  IF ledger'[i].dir = "request"
                            THEN /\ v = "blocked" => crossing[r] = "none"
                                 /\ v = "masked" => crossing[r] = "masked"
                                 /\ v \in {"forwarded", "exempted"} => crossing[r] = "clear"
                            ELSE /\ v = "blocked" => client[r] \cap {"clear", "masked"} = {}
                                 /\ v = "masked" => "clear" \notin client[r]
                                 /\ v \in {"forwarded", "exempted"} => "masked" \notin client[r]
      BY <1>0 DEF VerdictsAreTrue
    <3>1. CASE i \in DOMAIN ledger
      BY <1>1, <3>1 DEF LedgerInv, VerdictsAreTrue, Appended
    <3>2. CASE i = Len(ledger) + 1
      <4>1. ledger'[i].req = q /\ ledger'[i].dir = outcome[q].dir
            /\ ledger'[i].verdict = outcome[q].verdict
        BY <1>1, <3>2 DEF Appended
      <4>2. CASE outcome[q].dir = "request"
        BY <4>1, <4>2, AppendedRecord
      <4>3. CASE outcome[q].dir = "response"
        BY <4>1, <4>3, AppendedRecord
      <4> QED BY <4>2, <4>3, AppendedRecord
    <3> QED BY <1>1, <3>1, <3>2 DEF Appended
  <2>4. RecordsListFindings'
    <3> SUFFICES ASSUME NEW i \in DOMAIN ledger', ledger'[i].verdict # "error"
                 PROVE  LET r == ledger'[i].req
                        IN  IF ledger'[i].dir = "request"
                            THEN /\ ledger'[i].findings = Listed(found[r])
                                 /\ ledger'[i].unscanned = unscanned[r]
                            ELSE ledger'[i].findings = Listed(respFound[r])
      BY <1>0 DEF RecordsListFindings
    <3>1. CASE i \in DOMAIN ledger
      BY <1>1, <3>1 DEF LedgerInv, RecordsListFindings, Appended
    <3>2. CASE i = Len(ledger) + 1
      BY <1>1, <3>2, AppendedRecord DEF Appended
    <3> QED BY <1>1, <3>1, <3>2 DEF Appended
  <2> QED BY <2>1, <2>2, <2>3, <2>4 DEF LedgerInv
<1>2. CASE ledger' = ledger /\ lost' = lost \cup {<<q, outcome[q].dir>>}
  <2>1. OneRecordPerDirection'
    BY <1>0, <1>2 DEF LedgerInv, OneRecordPerDirection, Recorded
  <2>2. ResponseAfterRequest'
    BY <1>2 DEF LedgerInv, ResponseAfterRequest
  <2>3. VerdictsAreTrue' /\ RecordsListFindings'
    BY <1>0, <1>2 DEF LedgerInv, VerdictsAreTrue, RecordsListFindings
  <2> QED BY <2>1, <2>2, <2>3 DEF LedgerInv
<1> QED BY <1>1, <1>2, AppendCases, RecordingFacts

\* What a silent step can change of its own handler, and where.
LEMMA SilentEffect ==
  ASSUME TypeOK, NEW q \in Requests, Silent(q)
  PROVE  /\ (found'[q] = found[q] /\ unscanned'[q] = unscanned[q]) \/ pc[q] = "read"
         /\ crossing'[q] = crossing[q] \/ Forward(q)
         /\ respFound'[q] = respFound[q] \/ pc[q] \in {"receive", "stream"}
         /\ answered'[q] = answered[q] \/ pc[q] = "await"
         /\ \A w \in client'[q] \ client[q] :
              \/ w \in {"clear", "masked"} /\ Reply(q)
              \/ w = "502" /\ ReplyError(q)
              \/ w \in {"events", "error_event"} /\ pc[q] = "stream"
              \/ w = "403"
         /\ client[q] \subseteq client'[q]
<1> USE DEF TypeOK, Write
<1>1. CASE ReadBody(q) BY <1>1 DEF ReadBody
<1>2. CASE Decide(q)
  <2>1. client' = client \/ Write(q, "403")
    BY <1>2 DEF Decide
  <2> QED BY <1>2, <2>1 DEF Decide
<1>3. CASE Forward(q) BY <1>3 DEF Forward
<1>4. CASE Await(q) BY <1>4 DEF Await
<1>5. CASE Receive(q)
  <2>1. client' = client \/ Write(q, "403")
    BY <1>5 DEF Receive
  <2> QED BY <1>5, <2>1 DEF Receive
<1>6. CASE Reply(q)
  <2>1. Body(outcome[q].verdict) \in {"clear", "masked"}
    BY VerdictFacts
  <2> QED BY <1>6, <2>1 DEF Reply
<1>7. CASE StreamToken(q)
  <2>1. \E w \in {"events", "error_event"} : Write(q, w)
    BY <1>7 DEF StreamToken
  <2> QED BY <1>7, <2>1 DEF StreamToken
<1>8. CASE StreamEnd(q)
  <2>1. \E w \in {"events", "error_event"} : Write(q, w)
    BY <1>8 DEF StreamEnd
  <2> QED BY <1>8, <2>1 DEF StreamEnd
<1>9. CASE ReplyError(q) BY <1>9 DEF ReplyError
<1> QED BY <1>1, <1>2, <1>3, <1>4, <1>5, <1>6, <1>7, <1>8, <1>9 DEF Silent

\* A silent step never contradicts a record: what it changes of a body is not
\* on record yet, and a reply sends what its record says.
LEMMA SilentLedger ==
  ASSUME TypeOK, NEW q \in Requests, Silent(q), Handler(q), LedgerInv
  PROVE  LedgerInv'
<1>1. ledger' = ledger /\ lost' = lost
  BY SilentFacts
<1>2. OneRecordPerDirection' /\ ResponseAfterRequest'
  BY <1>1 DEF LedgerInv, OneRecordPerDirection, ResponseAfterRequest
<1>3. ASSUME NEW i \in DOMAIN ledger
      PROVE  ledger[i].req \in Requests /\ ledger[i].dir \in {"request", "response"}
             /\ ledger[i].verdict \in Verdicts /\ Evidenced(ledger[i].req, ledger[i].dir)
  <2>1. ledger[i] \in Records
    BY <1>3 DEF TypeOK
  <2> QED BY <1>3, <2>1 DEF Records, Directions, Evidenced, Recorded
<1>4. \A r \in Requests : r # q => Untouched(r)
  BY OthersUntouched, StepCases
<1>5. VerdictsAreTrue'
  <2> SUFFICES ASSUME NEW i \in DOMAIN ledger, NEW r \in Requests, r = ledger[i].req,
                      NEW v, v = ledger[i].verdict
               PROVE  IF ledger[i].dir = "request"
                      THEN /\ v = "blocked" => crossing'[r] = "none"
                           /\ v = "masked" => crossing'[r] = "masked"
                           /\ v \in {"forwarded", "exempted"} => crossing'[r] = "clear"
                      ELSE /\ v = "blocked" => client'[r] \cap {"clear", "masked"} = {}
                           /\ v = "masked" => "clear" \notin client'[r]
                           /\ v \in {"forwarded", "exempted"} => "masked" \notin client'[r]
    BY <1>1, <1>3 DEF VerdictsAreTrue
  <2>1. IF ledger[i].dir = "request"
        THEN /\ v = "blocked" => crossing[r] = "none"
             /\ v = "masked" => crossing[r] = "masked"
             /\ v \in {"forwarded", "exempted"} => crossing[r] = "clear"
        ELSE /\ v = "blocked" => client[r] \cap {"clear", "masked"} = {}
             /\ v = "masked" => "clear" \notin client[r]
             /\ v \in {"forwarded", "exempted"} => "masked" \notin client[r]
    BY DEF LedgerInv, VerdictsAreTrue
  <2>2. CASE r # q
    BY <1>4, <2>1, <2>2 DEF Untouched
  <2>3. CASE r = q /\ ledger[i].dir = "request"
    <3>1. ~Forward(q)
      BY <1>3, <2>3 DEF Forward, Handler, Before, NoRecord
    <3> QED BY <2>1, <2>3, <3>1, SilentEffect
  <2>4. CASE r = q /\ ledger[i].dir = "response"
    <3>1. CASE ~Reply(q)
      <4>1. client'[q] \cap {"clear", "masked"} = client[q] \cap {"clear", "masked"}
        BY <3>1, SilentEffect
      <4> QED BY <2>1, <2>4, <4>1
    <3>2. CASE Reply(q)
      <4>1. /\ pc[q] = "reply" /\ ResponseOutcome(q) /\ RecordedAsDecided(q)
            /\ client[q] \cap {"clear", "masked", "502"} = {}
        BY <3>2 DEF Reply, Handler
      <4>2. v = Verdict(respFound[q]) /\ v # "blocked"
        BY <2>4, <4>1, VerdictFacts DEF RecordedAsDecided, ResponseOutcome
      <4>3. client'[q] = client[q] \cup {Body(v)}
        BY <2>4, <3>2, <4>1 DEF Reply, Write, TypeOK, RecordedAsDecided
      <4> QED BY <2>4, <4>1, <4>2, <4>3, VerdictFacts
    <3> QED BY <3>1, <3>2
  <2> QED BY <1>3, <2>2, <2>3, <2>4
<1>6. RecordsListFindings'
  <2> SUFFICES ASSUME NEW i \in DOMAIN ledger, NEW r \in Requests, r = ledger[i].req,
                      ledger[i].verdict # "error"
               PROVE  IF ledger[i].dir = "request"
                      THEN /\ ledger[i].findings = Listed(found'[r])
                           /\ ledger[i].unscanned = unscanned'[r]
                      ELSE ledger[i].findings = Listed(respFound'[r])
    BY <1>1, <1>3 DEF RecordsListFindings
  <2>1. IF ledger[i].dir = "request"
        THEN ledger[i].findings = Listed(found[r]) /\ ledger[i].unscanned = unscanned[r]
        ELSE ledger[i].findings = Listed(respFound[r])
    BY DEF LedgerInv, RecordsListFindings
  <2>2. CASE r # q
    BY <1>4, <2>1, <2>2 DEF Untouched
  <2>3. CASE r = q /\ ledger[i].dir = "request"
    <3>1. pc[q] # "read"
      BY <1>3, <2>3 DEF Handler, Before, NoRecord
    <3> QED BY <2>1, <2>3, <3>1, SilentEffect
  <2>4. CASE r = q /\ ledger[i].dir = "response"
    <3>1. pc[q] \notin {"receive", "stream"}
      BY <1>3, <2>4 DEF Handler, RequestOnly
    <3>2. respFound'[q] = respFound[q]
      BY <3>1, SilentEffect
    <3> QED BY <2>1, <2>4, <3>2
  <2> QED BY <1>3, <2>2, <2>3, <2>4
<1> QED BY <1>2, <1>5, <1>6 DEF LedgerInv

-----------------------------------------------------------------------------
\* Bodies and bytes.
LEMMA CrossingStep ==
  ASSUME TypeOK, NEW q \in Requests, Step(q), Handler(q), NothingForbiddenCrosses
  PROVE  NothingForbiddenCrosses'
<1> DEFINE Safe(r) ==
             /\ crossing[r] # "none" => ~Blocked(found[r])
             /\ crossing[r] = "clear" => ~MustMask(found[r])
             /\ client[r] \cap {"clear", "masked"} # {} => ~Blocked(respFound[r])
             /\ "clear" \in client[r] => ~MustMask(respFound[r])
<1>1. \A r \in Requests : Safe(r)
  BY DEF NothingForbiddenCrosses
<1>2. ASSUME NEW r \in Requests, r # q PROVE Safe(r)'
  <2>1. Untouched(r)
    BY <1>2, OthersUntouched
  <2> QED BY <1>1, <2>1 DEF Untouched
<1>3. CASE Recording(q)
  BY <1>1, <1>3, RecordingFacts DEF NothingForbiddenCrosses
<1>4. CASE Silent(q)
  <2>1. crossing'[q] # "none" => ~Blocked(found'[q])
    <3>1. CASE Forward(q)
      BY <3>1 DEF Forward, Handler, RequestOutcome
    <3>2. CASE ~Forward(q) /\ found'[q] = found[q]
      BY <1>1, <1>4, <3>2, SilentEffect
    <3>3. CASE ~Forward(q) /\ pc[q] = "read"
      BY <1>4, <3>3, SilentEffect DEF Handler
    <3> QED BY <1>4, <3>1, <3>2, <3>3, SilentEffect
  <2>2. crossing'[q] = "clear" => ~MustMask(found'[q])
    <3>1. CASE Forward(q)
      <4>1. pc[q] = "forward" /\ RequestOutcome(q) /\ crossing[q] = "none" /\ found' = found
        BY <3>1 DEF Forward, Handler
      <4>2. crossing'[q] \in {"none", Body(Verdict(found[q]))}
        BY <3>1, <4>1 DEF Forward, TypeOK, RequestOutcome
      <4> QED BY <4>1, <4>2, VerdictFacts DEF RequestOutcome
    <3>2. CASE ~Forward(q) /\ found'[q] = found[q]
      BY <1>1, <1>4, <3>2, SilentEffect
    <3>3. CASE ~Forward(q) /\ pc[q] = "read"
      BY <1>4, <3>3, SilentEffect DEF Handler
    <3> QED BY <1>4, <3>1, <3>2, <3>3, SilentEffect
  <2>3. CASE ~Reply(q)
    <3>1. client'[q] \cap {"clear", "masked"} = client[q] \cap {"clear", "masked"}
      BY <1>4, <2>3, SilentEffect
    <3>4. Safe(q)'
      <4>1. CASE respFound'[q] = respFound[q]
        BY <1>1, <2>1, <2>2, <3>1, <4>1
      <4>2. CASE pc[q] \in {"receive", "stream"}
        <5>1. client[q] \cap {"clear", "masked", "502"} = {}
          BY <4>2 DEF Handler
        <5> QED BY <2>1, <2>2, <3>1, <5>1
      <4> QED BY <1>4, <4>1, <4>2, SilentEffect
    <3> QED BY <1>2, <3>4 DEF NothingForbiddenCrosses
  <2>4. CASE Reply(q)
    <3>1. /\ pc[q] = "reply" /\ ResponseOutcome(q) /\ respFound' = respFound
          /\ client[q] \cap {"clear", "masked", "502"} = {}
      BY <2>4 DEF Reply, Handler
    <3>2. client'[q] = client[q] \cup {Body(Verdict(respFound[q]))}
      BY <2>4, <3>1 DEF Reply, Write, TypeOK, ResponseOutcome
    <3>3. Safe(q)'
      BY <2>1, <2>2, <3>1, <3>2, VerdictFacts DEF ResponseOutcome
    <3> QED BY <1>2, <3>3 DEF NothingForbiddenCrosses
  <2> QED BY <2>3, <2>4
<1> QED BY <1>3, <1>4, StepCases

LEMMA BytesStep ==
  ASSUME TypeOK, NEW q \in Requests, Step(q), Handler(q), BytesFollowRecord
  PROVE  BytesFollowRecord'
<1> DEFINE Follows(r) ==
             /\ client[r] \cap {"clear", "masked", "events"} # {} => Evidenced(r, "request")
             /\ client[r] \cap {"clear", "masked"} # {} => Evidenced(r, "response")
             /\ "502" \in client[r] =>
                  Evidenced(r, IF answered[r] THEN "response" ELSE "request")
<1>1. \A r \in Requests : Follows(r)
  BY DEF BytesFollowRecord
<1>2. ASSUME NEW r, NEW d, Evidenced(r, d) PROVE Evidenced(r, d)'
  BY <1>2, StepCases, SilentEvidence, AppendEvidence, RecordingFacts
<1>3. ASSUME NEW r \in Requests, UNCHANGED <<client, answered>> PROVE Follows(r)'
  <2>1. Evidenced(r, "request") => Evidenced(r, "request")'
    BY <1>2
  <2>2. Evidenced(r, "response") => Evidenced(r, "response")'
    BY <1>2
  <2>3. CASE answered[r]
    BY <1>1, <1>3, <2>1, <2>2, <2>3
  <2>4. CASE ~answered[r]
    BY <1>1, <1>3, <2>1, <2>2, <2>4
  <2> QED BY <2>3, <2>4
<1>4. CASE Recording(q)
  BY <1>3, <1>4, RecordingFacts DEF BytesFollowRecord
<1>5. CASE Silent(q)
  <2>0. \A r, d : Evidenced(r, d)' <=> Evidenced(r, d)
    BY <1>5, SilentEvidence
  <2>1. ASSUME NEW r \in Requests, r # q PROVE Follows(r)'
    <3>1. client'[r] = client[r] /\ answered'[r] = answered[r]
      BY <2>1, OthersUntouched DEF Untouched
    <3>2. CASE answered[r]
      BY <1>1, <2>0, <3>1, <3>2
    <3>3. CASE ~answered[r]
      BY <1>1, <2>0, <3>1, <3>3
    <3> QED BY <3>2, <3>3
  <2>2. client'[q] \cap {"clear", "masked", "events"} # {} => Evidenced(q, "request")
    <3>1. pc[q] = "reply" => Evidenced(q, "request")
      BY DEF Handler, BothRecords
    <3>2. pc[q] = "stream" => Evidenced(q, "request")
      BY DEF Handler, RequestOnly
    <3>3. Reply(q) => pc[q] = "reply"
      BY DEF Reply
    <3> QED BY <1>1, <1>5, <3>1, <3>2, <3>3, SilentEffect
  <2>3. client'[q] \cap {"clear", "masked"} # {} => Evidenced(q, "response")
    <3>1. Reply(q) => Evidenced(q, "response")
      BY DEF Reply, Handler, BothRecords
    <3> QED BY <1>1, <1>5, <3>1, SilentEffect
  <2>4. "502" \in client'[q] => Evidenced(q, IF answered'[q] THEN "response" ELSE "request")
    <3>1. CASE answered'[q] = answered[q] /\ "502" \in client[q]
      <4>1. CASE answered[q] BY <1>1, <3>1, <4>1
      <4>2. CASE ~answered[q] BY <1>1, <3>1, <4>2
      <4> QED BY <4>1, <4>2
    <3>2. CASE ReplyError(q)
      <4>1. pc[q] = "reply_error" /\ answered'[q] = answered[q]
        BY <3>2 DEF ReplyError
      <4>2. Evidenced(q, "request") /\ (Evidenced(q, "response") <=> answered[q])
        BY <4>1 DEF Handler
      <4> QED BY <4>1, <4>2
    <3>3. CASE pc[q] = "await" /\ ~ReplyError(q)
      <4>1. "502" \notin client[q]
        BY <3>3 DEF Handler
      <4> QED BY <1>5, <3>3, <4>1, SilentEffect
    <3> QED BY <1>5, <3>1, <3>2, <3>3, SilentEffect
  <2>5. Follows(q)'
    <3>1. CASE answered'[q]
      BY <2>0, <2>2, <2>3, <2>4, <3>1
    <3>2. CASE ~answered'[q]
      BY <2>0, <2>2, <2>3, <2>4, <3>2
    <3> QED BY <3>1, <3>2
  <2> QED BY <2>1, <2>5 DEF BytesFollowRecord
<1> QED BY <1>4, <1>5, StepCases

-----------------------------------------------------------------------------
LEMMA InvInit == Init => GatewayInv
<1> SUFFICES ASSUME Init PROVE GatewayInv
  OBVIOUS
<1>1. TypeOK
  BY TypeInit
<1>2. DOMAIN ledger = {} /\ lost = {}
  BY DEF Init
<1>3. ASSUME NEW r \in Requests PROVE Handler(r)
  BY <1>2 DEF Init, Handler, NoRecord, Evidenced, Recorded, Before, After, Closing
<1>4. LedgerInv
  BY <1>2 DEF LedgerInv, OneRecordPerDirection, ResponseAfterRequest, VerdictsAreTrue,
              RecordsListFindings
<1>5. NothingForbiddenCrosses /\ BytesFollowRecord
  BY DEF Init, NothingForbiddenCrosses, BytesFollowRecord
<1> QED BY <1>1, <1>3, <1>4, <1>5 DEF GatewayInv

\* A killed process changes no record and no byte.
LEMMA InvKill ==
  ASSUME GatewayInv, Kill
  PROVE  GatewayInv'
<1>1. UNCHANGED <<found, unscanned, crossing, answered, respFound, client, outcome, ledger, lost>>
  BY DEF Kill
<1>2. TypeOK'
  BY TypeKill DEF GatewayInv
<1>3. ASSUME NEW r \in Requests PROVE Handler(r)'
  <2>1. pc'[r] = IF pc[r] = "done" THEN "done" ELSE "killed"
    BY DEF Kill
  <2>2. Handler(r)
    BY DEF GatewayInv
  <2> QED BY <1>1, <2>1, <2>2 DEF Handler, Evidenced, Recorded, Before, After, Closing
<1>4. LedgerInv' /\ NothingForbiddenCrosses' /\ BytesFollowRecord'
  BY <1>1 DEF GatewayInv, LedgerInv, OneRecordPerDirection, ResponseAfterRequest,
              VerdictsAreTrue, RecordsListFindings, NothingForbiddenCrosses,
              BytesFollowRecord, Evidenced, Recorded
<1> QED BY <1>2, <1>3, <1>4 DEF GatewayInv

LEMMA InvStutter ==
  ASSUME GatewayInv, UNCHANGED vars
  PROVE  GatewayInv'
<1>1. /\ UNCHANGED <<pc, found, unscanned, crossing, answered, respFound, client, outcome>>
      /\ UNCHANGED <<ledger, lost>>
  BY DEF vars
<1>2. TypeOK'
  BY <1>1 DEF GatewayInv, TypeOK
<1>3. ASSUME NEW r \in Requests PROVE Handler(r)'
  <2>1. Handler(r)
    BY DEF GatewayInv
  <2> QED BY <1>1, <2>1
    DEF Handler, NoRecord, RequestOnly, BothRecords, RequestOutcome, ResponseOutcome,
        LastOutcome, RecordedAsDecided, Evidenced, Recorded
<1>4. LedgerInv' /\ NothingForbiddenCrosses' /\ BytesFollowRecord'
  BY <1>1 DEF GatewayInv, LedgerInv, OneRecordPerDirection, ResponseAfterRequest,
              VerdictsAreTrue, RecordsListFindings, NothingForbiddenCrosses,
              BytesFollowRecord, Evidenced, Recorded
<1> QED BY <1>2, <1>3, <1>4 DEF GatewayInv

LEMMA InvStep ==
  ASSUME GatewayInv, NEW q \in Requests, Step(q)
  PROVE  GatewayInv'
<1>1. TypeOK /\ LedgerInv /\ NothingForbiddenCrosses /\ BytesFollowRecord
      /\ \A r \in Requests : Handler(r)
  BY DEF GatewayInv
<1>2. TypeOK'
  BY <1>1, TypeStep
<1>3. ASSUME NEW r \in Requests PROVE Handler(r)'
  <2>1. CASE r # q
    BY <1>1, <2>1, OtherHandlers
  <2>2. CASE r = q
    BY <1>1, <2>2, SilentHandler, RecordingHandler, StepCases
  <2> QED BY <2>1, <2>2
<1>4. LedgerInv'
  BY <1>1, RecordingLedger, SilentLedger, StepCases
<1>5. NothingForbiddenCrosses' /\ BytesFollowRecord'
  BY <1>1, CrossingStep, BytesStep
<1> QED BY <1>2, <1>3, <1>4, <1>5 DEF GatewayInv

\* The inductive invariant, for every number of handlers and every
\* configuration.
THEOREM GatewayInvariant == Spec => []GatewayInv
<1>1. GatewayInv /\ [Next]_vars => GatewayInv'
  <2> SUFFICES ASSUME GatewayInv, [Next]_vars PROVE GatewayInv'
    OBVIOUS
  <2>1. ASSUME NEW q \in Requests, Step(q) PROVE GatewayInv'
    BY <2>1, InvStep
  <2>2. CASE Kill
    BY <2>2, InvKill
  <2>3. CASE UNCHANGED vars
    BY <2>3, InvStutter
  <2> QED BY <2>1, <2>2, <2>3 DEF Next, Step
<1> QED BY InvInit, <1>1, PTL DEF Spec

\* Type correctness.
THEOREM GatewayTypeCorrect == Spec => []TypeOK
<1>1. GatewayInv => TypeOK
  BY DEF GatewayInv
<1> QED BY <1>1, GatewayInvariant, PTL

\* No request or response body that the policy blocks crosses, and none that
\* it masks crosses unmasked.
THEOREM ForbiddenNeverCrosses == Spec => []NothingForbiddenCrosses
<1>1. GatewayInv => NothingForbiddenCrosses
  BY DEF GatewayInv
<1> QED BY <1>1, GatewayInvariant, PTL

\* However handlers interleave and fail, no direction is recorded twice.
THEOREM RecordsAreUnique == Spec => []OneRecordPerDirection
<1>1. GatewayInv => OneRecordPerDirection
  BY DEF GatewayInv, LedgerInv
<1> QED BY <1>1, GatewayInvariant, PTL

\* The response of a request is never on record before the request.
THEOREM RecordsAreOrdered == Spec => []ResponseAfterRequest
<1>1. GatewayInv => ResponseAfterRequest
  BY DEF GatewayInv, LedgerInv
<1> QED BY <1>1, GatewayInvariant, PTL

\* The verdict on record is what happened to the bytes.
THEOREM RecordsAreTrue == Spec => []VerdictsAreTrue
<1>1. GatewayInv => VerdictsAreTrue
  BY DEF GatewayInv, LedgerInv
<1> QED BY <1>1, GatewayInvariant, PTL

\* A record that is not an error lists every finding of its body, and says of
\* a request whether it had unscanned fields.
THEOREM RecordsAreComplete == Spec => []RecordsListFindings
<1>1. GatewayInv => RecordsListFindings
  BY DEF GatewayInv, LedgerInv
<1> QED BY <1>1, GatewayInvariant, PTL

\* Nothing is written to the client before the record that covers it was
\* attempted.
THEOREM RecordsComeFirst == Spec => []BytesFollowRecord
<1>1. GatewayInv => BytesFollowRecord
  BY DEF GatewayInv
<1> QED BY <1>1, GatewayInvariant, PTL

\* No exit of ServeHTTP is without evidence.
THEOREM EveryExitIsEvidenced == Spec => []DoneIsEvidenced
<1>1. GatewayInv => DoneIsEvidenced
  BY DEF GatewayInv, Handler, DoneIsEvidenced
<1> QED BY <1>1, GatewayInvariant, PTL

-----------------------------------------------------------------------------
\* The refinement of EvidenceLog.
Bodies(r) == client[r] \cap {"clear", "masked", "events"}
Delivered == [r \in Requests |-> Bodies(r)]
Entry(i) == [req |-> ledger[i].req, dir |-> ledger[i].dir, says |-> ledger[i].verdict]
Entries == [i \in DOMAIN ledger |-> Entry(i)]

\* Settled in the log is evidenced in the gateway.
LEMMA SettledIsEvidenced ==
  ASSUME NEW r, NEW d
  PROVE  Evidence!Settled(r, d) <=> Evidenced(r, d)
  BY DEF Evidence!Settled, Evidenced, Recorded

\* A write that is no part of a response body is none of the log's business.
LEMMA WrittenBodies ==
  ASSUME TypeOK, NEW q \in Requests, NEW w, Write(q, w)
  PROVE  /\ w \notin {"clear", "masked", "events"} => UNCHANGED Delivered
         /\ w \in {"clear", "masked", "events"} =>
              Delivered' = [Delivered EXCEPT ![q] = @ \cup {w}]
<1>1. client' = [client EXCEPT ![q] = client[q] \cup {w}] /\ DOMAIN client = Requests
  BY DEF Write, TypeOK
<1>2. ASSUME w \notin {"clear", "masked", "events"} PROVE UNCHANGED Delivered
  <2>1. \A r \in Requests : client'[r] \cap {"clear", "masked", "events"}
                              = client[r] \cap {"clear", "masked", "events"}
    BY <1>1, <1>2
  <2> QED BY <2>1 DEF Delivered, Bodies
<1>3. ASSUME w \in {"clear", "masked", "events"}
      PROVE  Delivered' = [Delivered EXCEPT ![q] = @ \cup {w}]
  <2>1. Delivered'[q] = Delivered[q] \cup {w}
    BY <1>1, <1>3 DEF Delivered, Bodies
  <2>2. \A r \in Requests \ {q} : Delivered'[r] = Delivered[r]
    BY <1>1 DEF Delivered, Bodies
  <2> QED BY <2>1, <2>2 DEF Delivered
<1> QED BY <1>2, <1>3

\* A record that is appended is one entry more.
LEMMA AppendedEntry ==
  ASSUME TypeOK, NEW q \in Requests, Appended(q)
  PROVE  Entries' = Append(Entries, [req |-> q, dir |-> outcome[q].dir,
                                     says |-> outcome[q].verdict])
<1> DEFINE entry == [req |-> q, dir |-> outcome[q].dir, says |-> outcome[q].verdict]
           n == Len(ledger)
<1>1. /\ n \in Nat /\ DOMAIN ledger = 1..n /\ DOMAIN ledger' = 1..(n + 1)
      /\ \A i \in 1..n : ledger'[i] = ledger[i]
  BY DEF Appended
<1>2. \A i \in 1..n : Entries'[i] = Entries[i]
  BY <1>1 DEF Entries, Entry
<1>3. Entries'[n + 1] = entry
  BY <1>1 DEF Entries, Entry, Appended
<1>4. DOMAIN Entries = 1..n /\ DOMAIN Entries' = 1..(n + 1)
  BY <1>1 DEF Entries
<1>5. Entries = [i \in 1..n |-> Entries[i]] /\ Entries' = [i \in 1..(n + 1) |-> Entries'[i]]
  BY <1>1 DEF Entries
<1> HIDE DEF entry, n
<1>6. PICK S : Entries \in Seq(S) /\ entry \in S /\ Len(Entries) = n
  <2> DEFINE S == {Entries[i] : i \in 1..n} \cup {entry}
  <2>1. \A i \in 1..n : Entries[i] \in S
    OBVIOUS
  <2>2. entry \in S
    OBVIOUS
  <2> HIDE DEF S
  <2>3. Entries \in Seq(S) /\ Len(Entries) = n
    BY <1>1, <1>4, <1>5, <2>1
  <2> QED BY <2>2, <2>3
<1>7. /\ Append(Entries, entry) = [i \in 1..(n + 1) |-> Append(Entries, entry)[i]]
      /\ \A i \in 1..n : Append(Entries, entry)[i] = Entries[i]
      /\ Append(Entries, entry)[n + 1] = entry
  <2>1. ASSUME NEW es \in Seq(S), NEW k \in Nat, Len(es) = k
        PROVE  /\ Append(es, entry) = [i \in 1..(k + 1) |-> Append(es, entry)[i]]
               /\ \A i \in 1..k : Append(es, entry)[i] = es[i]
               /\ Append(es, entry)[k + 1] = entry
    <3>1. Append(es, entry) \in Seq(S) /\ Len(Append(es, entry)) = k + 1
      BY <1>6, <2>1
    <3>2. Append(es, entry) = [i \in 1..(k + 1) |-> Append(es, entry)[i]]
      <4>1. Append(es, entry) \in [1..(k + 1) -> S]
        BY <3>1, LenProperties
      <4> QED BY <4>1
    <3>3. \A i \in 1..k : Append(es, entry)[i] = es[i]
      BY <1>6, <2>1
    <3> QED BY <1>6, <2>1, <3>2, <3>3
  <2> QED BY <1>1, <1>6, <2>1
<1>8. \A i \in 1..(n + 1) : Entries'[i] = Append(Entries, entry)[i]
  BY <1>1, <1>2, <1>3, <1>7
<1> QED BY <1>5, <1>7, <1>8 DEF entry

\* A step that appends or loses a record settles a direction.
LEMMA RecordingSettles ==
  ASSUME GatewayInv, NEW q \in Requests, Recording(q)
  PROVE  Evidence!Settle(q)
<1> DEFINE d == outcome[q].dir
           v == outcome[q].verdict
<1>1. TypeOK /\ Handler(q) /\ UNCHANGED <<crossing, client>> /\ AppendRecord(q)
  BY RecordingFacts DEF GatewayInv
<1>2. /\ d \in {"request", "response"} /\ v \in Verdicts
      /\ crossing[q] \in {"none", "clear", "masked"}
  BY <1>1 DEF TypeOK, Outcomes, Directions
<1>3. /\ ~Evidence!Settled(q, d)
      /\ d = "response" => Evidence!Settled(q, "request")
  BY <1>1, AppendedRecord, SettledIsEvidenced
<1>4. d = "response" => Delivered[q] \subseteq {"events"}
  BY <1>1, AppendedRecord DEF Delivered, Bodies
<1>5. d = "request" => v \in Evidence!Says(q)
  BY <1>1, <1>2, AppendedRecord DEF Evidence!Says, Verdicts
<1>6. d = "response" => v \in {"forwarded", "masked", "blocked", "exempted", "error"}
  BY <1>2 DEF Verdicts
<1>7. \/ Entries' = Append(Entries, [req |-> q, dir |-> d, says |-> v]) /\ UNCHANGED lost
      \/ lost' = lost \cup {<<q, d>>} /\ UNCHANGED Entries
  <2>1. CASE Appended(q)
    BY <1>1, <2>1, AppendedEntry DEF Appended
  <2>2. CASE ledger' = ledger /\ lost' = lost \cup {<<q, d>>}
    BY <2>2 DEF Entries, Entry
  <2> QED BY <1>1, <2>1, <2>2, AppendCases
<1>8. UNCHANGED <<crossing, Delivered>>
  BY <1>1 DEF Delivered, Bodies
<1> HIDE DEF d, v
<1> QED BY <1>2, <1>3, <1>4, <1>5, <1>6, <1>7, <1>8
        DEF Evidence!Settle, Entries, Entry, Delivered, Bodies

\* The body of a response goes out as its record says.
LEMMA ReplyDelivers ==
  ASSUME GatewayInv, NEW q \in Requests, Reply(q)
  PROVE  Evidence!Deliver(q)
<1>1. /\ TypeOK /\ BothRecords(q) /\ RecordedAsDecided(q) /\ ResponseOutcome(q)
      /\ UNCHANGED <<crossing, ledger, lost>>
      /\ Write(q, Body(outcome[q].verdict))
  BY DEF GatewayInv, Handler, Reply
<1> DEFINE body == Body(outcome[q].verdict)
<1>2. body \in {"clear", "masked"} /\ Delivered' = [Delivered EXCEPT ![q] = @ \cup {body}]
  BY <1>1, WrittenBodies DEF Body
<1>3. outcome[q].verdict \in {"forwarded", "masked", "exempted"}
  BY <1>1, VerdictFacts DEF ResponseOutcome
<1>4. Evidence!Allows(outcome[q].verdict, body)
  BY <1>3 DEF Evidence!Allows, Body
<1>5. \A i \in DOMAIN Entries :
        Entries[i].req = q /\ Entries[i].dir = "response" =>
          Evidence!Allows(Entries[i].says, body)
  BY <1>1, <1>4 DEF RecordedAsDecided, Entries, Entry
<1>6. Evidence!Settled(q, "request") /\ Evidence!Settled(q, "response")
  BY <1>1, SettledIsEvidenced DEF BothRecords
<1>7. UNCHANGED <<crossing, Entries, lost>>
  BY <1>1 DEF Entries, Entry
<1> HIDE DEF body
<1> QED BY <1>2, <1>5, <1>6, <1>7 DEF Evidence!Deliver, Entries, Entry, Delivered, Bodies

\* The request body leaves while nothing of the request is settled.
LEMMA ForwardSends ==
  ASSUME GatewayInv, NEW q \in Requests, Forward(q)
  PROVE  Evidence!Send(q) \/ UNCHANGED <<crossing, Delivered, Entries, lost>>
<1>1. /\ TypeOK /\ NoRecord(q) /\ crossing[q] = "none"
      /\ UNCHANGED <<client, ledger, lost>>
  BY DEF GatewayInv, Handler, Forward, Before
<1>2. UNCHANGED <<Delivered, Entries, lost>>
  BY <1>1 DEF Delivered, Bodies, Entries, Entry
<1>3. CASE crossing' = [crossing EXCEPT ![q] = Body(outcome[q].verdict)]
  <2>1. Body(outcome[q].verdict) \in {"clear", "masked"} /\ ~Evidence!Settled(q, "request")
    BY <1>1, SettledIsEvidenced DEF Body, NoRecord
  <2> QED BY <1>1, <1>2, <1>3, <2>1
          DEF Evidence!Send, Entries, Entry, Delivered, Bodies
<1>4. CASE UNCHANGED crossing
  BY <1>2, <1>4
<1> QED BY <1>3, <1>4 DEF Forward

\* Events go out between the two records of a stream.
LEMMA StreamReleases ==
  ASSUME GatewayInv, NEW q \in Requests, StreamToken(q) \/ StreamEnd(q)
  PROVE  Evidence!Release(q) \/ UNCHANGED <<crossing, Delivered, Entries, lost>>
<1>1. TypeOK /\ RequestOnly(q) /\ UNCHANGED <<crossing, ledger, lost>>
  BY DEF GatewayInv, Handler, StreamToken, StreamEnd
<1>2. PICK w \in {"events", "error_event"} : Write(q, w)
  BY DEF StreamToken, StreamEnd
<1>3. UNCHANGED <<crossing, Entries, lost>>
  BY <1>1 DEF Entries, Entry
<1>4. CASE w = "error_event"
  BY <1>1, <1>2, <1>3, <1>4, WrittenBodies
<1>5. CASE w = "events"
  <2>1. Evidence!Settled(q, "request") /\ ~Evidence!Settled(q, "response")
    BY <1>1, SettledIsEvidenced DEF RequestOnly
  <2>2. Delivered' = [Delivered EXCEPT ![q] = @ \cup {"events"}]
    BY <1>1, <1>2, <1>5, WrittenBodies
  <2> QED BY <1>3, <2>1, <2>2 DEF Evidence!Release, Entries, Entry, Delivered, Bodies
<1> QED BY <1>4, <1>5

\* The other steps change nothing an auditor sees.
LEMMA UnseenSteps ==
  ASSUME TypeOK, NEW q \in Requests,
         ReadBody(q) \/ Decide(q) \/ Await(q) \/ Receive(q) \/ ReplyError(q)
  PROVE  UNCHANGED <<crossing, Delivered, Entries, lost>>
<1>1. UNCHANGED <<crossing, ledger, lost>>
  BY DEF ReadBody, Decide, Await, Receive, ReplyError
<1>2. UNCHANGED client \/ \E w \in {"403", "502"} : Write(q, w)
  BY DEF ReadBody, Decide, Await, Receive, ReplyError
<1>3. UNCHANGED Delivered
  BY <1>2, WrittenBodies DEF Delivered, Bodies
<1> QED BY <1>1, <1>3 DEF Entries, Entry

\* Every step of the gateway is one the evidence log allows: what crossed, what
\* was delivered and what is on record never contradict each other, at any time.
THEOREM GatewayKeepsEvidence == Spec => KeepsEvidence
<1>1. Init => Evidence!Init
  <2> SUFFICES ASSUME Init PROVE Evidence!Init
    OBVIOUS
  <2>1. Entries = <<>> /\ Delivered = [r \in Requests |-> {}]
    BY DEF Init, Entries, Delivered, Bodies
  <2> QED BY <2>1 DEF Init, Evidence!Init, Entries, Entry, Delivered, Bodies
<1>2. GatewayInv /\ [Next]_vars => [Evidence!Next]_(Evidence!vars)
  <2> SUFFICES ASSUME GatewayInv, [Next]_vars
               PROVE  Evidence!Next \/ UNCHANGED <<crossing, Delivered, Entries, lost>>
    BY DEF Evidence!vars, Entries, Entry, Delivered, Bodies
  <2>1. ASSUME NEW q \in Requests, Step(q)
        PROVE  Evidence!Next \/ UNCHANGED <<crossing, Delivered, Entries, lost>>
    <3>1. CASE Recording(q)
      BY <3>1, RecordingSettles DEF Evidence!Next
    <3>2. CASE Reply(q)
      BY <3>2, ReplyDelivers DEF Evidence!Next
    <3>3. CASE Forward(q)
      BY <3>3, ForwardSends DEF Evidence!Next
    <3>4. CASE StreamToken(q) \/ StreamEnd(q)
      BY <3>4, StreamReleases DEF Evidence!Next
    <3>5. CASE ReadBody(q) \/ Decide(q) \/ Await(q) \/ Receive(q) \/ ReplyError(q)
      BY <3>5, UnseenSteps DEF GatewayInv
    <3> QED BY <2>1, <3>1, <3>2, <3>3, <3>4, <3>5, StepCases DEF Silent
  <2>2. CASE Kill \/ UNCHANGED vars
    BY <2>2 DEF Kill, vars, Entries, Entry, Delivered, Bodies
  <2> QED BY <2>1, <2>2 DEF Next, Step
<1> QED BY <1>1, <1>2, GatewayInvariant, PTL DEF Spec, KeepsEvidence, Evidence!Spec
=============================================================================
