------------------------------ MODULE Gateway ------------------------------
(***************************************************************************)
(* Gateway.ServeHTTP (gate/gateway.go): one handler per request, all       *)
(* running concurrently and sharing the ledger writer.  A step is what one *)
(* handler does between two effects another party can observe: bytes that  *)
(* reach the upstream, bytes that reach the client, a ledger record.       *)
(*                                                                         *)
(* What a body contains is chosen when it is read: the set of findings the *)
(* engine makes in it, [class, conf] each, and whether it holds fields     *)
(* nobody scans.  An SSE response is the coarse view of StreamGate: some   *)
(* events are released, more findings turn up, the stream ends.            *)
(*                                                                         *)
(* The process can be killed at any moment (serveConfig returns on SIGTERM *)
(* without waiting for handlers), and an Append can fail: the handler logs *)
(* that and goes on.                                                       *)
(***************************************************************************)
EXTENDS Naturals, Sequences, FiniteSets, Policy

CONSTANTS
  Requests,       \* requests, one handler each
  Findings,       \* findings a body may contain: records [class, conf]
  Config,         \* the loaded shield.yaml, see Policy
  Dest,           \* the selected upstream's host
  LedgerMayFail,  \* environment: Writer.Append may return an error
  MayBeKilled     \* environment: the process may be stopped

ASSUME GatewayAssumption ==
  LedgerMayFail \in BOOLEAN /\ MayBeKilled \in BOOLEAN /\ ValidConfig(Config)

VARIABLES
  pc,             \* where each handler stands
  found,          \* findings in the request body
  unscanned,      \* the request has fields the adapter does not scan
  crossing,       \* what left for the upstream: "none", "clear" or "masked"
  answered,       \* the upstream's response head has arrived
  respFound,      \* findings in the response so far
  client,         \* what has been written to the client
  outcome,        \* the record a handler is about to append
  ledger,         \* records appended
  lost            \* <<request, direction>> whose Append failed

vars == <<pc, found, unscanned, crossing, answered, respFound, client, outcome,
          ledger, lost>>

-----------------------------------------------------------------------------
\* applyActions.

Result(f) == Evaluate(Config, f.class, Dest, f.conf)
Blocked(F) == \E f \in F : Result(f).action = "block"
MustMask(F) == \E f \in F : Result(f).action = "mask"

\* Mutant: a mask hides a block.
VerdictMaskFirst(F) ==
  CASE MustMask(F) -> "masked"
    [] ~MustMask(F) /\ Blocked(F) -> "blocked"
    [] OTHER -> "forwarded"

Verdict(F) ==
  IF Blocked(F) THEN "blocked"
  ELSE IF MustMask(F) THEN "masked"
  ELSE IF F # {} /\ \A f \in F : Result(f).exempted THEN "exempted"
  ELSE "forwarded"

\* finalize: streaming has no "exempted" verdict.
StreamVerdict(F) ==
  CASE Blocked(F) -> "blocked"
    [] ~Blocked(F) /\ MustMask(F) -> "masked"
    [] OTHER -> "forwarded"

\* The classes and actions a record lists.
Listed(F) == {[class |-> f.class, action |-> Result(f).action] : f \in F}

Body(verdict) == IF verdict = "masked" THEN "masked" ELSE "clear"

-----------------------------------------------------------------------------
Phases == {"read", "decide", "forward", "await", "record_request", "receive",
           "stream", "record_response", "reply", "record_last",
           "record_error", "reply_error", "done", "killed"}

NoOutcome == [dir |-> "request", verdict |-> "error", findings |-> {}, unscanned |-> FALSE]

Init ==
  /\ pc = [r \in Requests |-> "read"]
  /\ found = [r \in Requests |-> {}]
  /\ unscanned = [r \in Requests |-> FALSE]
  /\ crossing = [r \in Requests |-> "none"]
  /\ answered = [r \in Requests |-> FALSE]
  /\ respFound = [r \in Requests |-> {}]
  /\ client = [r \in Requests |-> {}]
  /\ outcome = [r \in Requests |-> NoOutcome]
  /\ ledger = <<>>
  /\ lost = {}

Goto(r, phase) == pc' = [pc EXCEPT ![r] = phase]
Write(r, what) == client' = [client EXCEPT ![r] = @ \cup {what}]

\* Mutant: a block returns before the unscanned fields are noted.
OutcomeBlockedEarly(r, dir, verdict, F, uns) ==
  outcome' = [outcome EXCEPT ![r] = [dir |-> dir, verdict |-> verdict, findings |-> Listed(F),
                                     unscanned |-> uns /\ verdict # "blocked"]]

Outcome(r, dir, verdict, F, uns) ==
  outcome' = [outcome EXCEPT ![r] = [dir |-> dir, verdict |-> verdict,
                                     findings |-> Listed(F), unscanned |-> uns]]

\* emitError: a record without findings or unscanned fields, then the 502.
Fail(r, dir) == Goto(r, "record_error") /\ Outcome(r, dir, "error", {}, FALSE)

\* Mutant: a failed Append returns without unlocking the writer.
AppendRecordLocked(r) ==
  LET o == outcome[r]
  IN  /\ lost = {}
      /\ \/ /\ ledger' = Append(ledger, [req |-> r, dir |-> o.dir, verdict |-> o.verdict,
                                         findings |-> o.findings, unscanned |-> o.unscanned])
            /\ UNCHANGED lost
         \/ /\ LedgerMayFail
            /\ lost' = lost \cup {<<r, o.dir>>}
            /\ UNCHANGED ledger

\* emitLedger: Append under the writer's mutex; an error is only logged.
AppendRecord(r) ==
  LET o == outcome[r]
  IN  \/ /\ ledger' = Append(ledger, [req |-> r, dir |-> o.dir, verdict |-> o.verdict,
                                      findings |-> o.findings, unscanned |-> o.unscanned])
         /\ UNCHANGED lost
      \/ /\ LedgerMayFail
         /\ lost' = lost \cup {<<r, o.dir>>}
         /\ UNCHANGED ledger

-----------------------------------------------------------------------------
\* io.ReadAll of the request body.
ReadBody(r) ==
  /\ pc[r] = "read"
  /\ \/ /\ Goto(r, "decide")
        /\ \E F \in SUBSET Findings : found' = [found EXCEPT ![r] = F]
        /\ \E u \in BOOLEAN : unscanned' = [unscanned EXCEPT ![r] = u]
        /\ UNCHANGED outcome
     \/ Fail(r, "request") /\ UNCHANGED <<found, unscanned>>
  /\ UNCHANGED <<crossing, answered, respFound, client, ledger, lost>>

\* Mutants: a refused request is forwarded all the same, or never recorded.
DecideForwarding(r) ==
  /\ pc[r] = "decide"
  /\ \/ Fail(r, "request") /\ UNCHANGED client
     \/ /\ Outcome(r, "request", Verdict(found[r]), found[r], unscanned[r])
        /\ IF Blocked(found[r]) THEN Write(r, "403") ELSE UNCHANGED client
        /\ Goto(r, "forward")
  /\ UNCHANGED <<found, unscanned, crossing, answered, respFound, ledger, lost>>

DecideUnrecorded(r) ==
  /\ pc[r] = "decide"
  /\ \/ Fail(r, "request") /\ UNCHANGED client
     \/ /\ Outcome(r, "request", Verdict(found[r]), found[r], unscanned[r])
        /\ IF Blocked(found[r])
           THEN Write(r, "403") /\ Goto(r, "done")
           ELSE Goto(r, "forward") /\ UNCHANGED client
  /\ UNCHANGED <<found, unscanned, crossing, answered, respFound, ledger, lost>>

\* selectUpstream, scanRequestBody, applyActions: no route and a failed scan
\* both end in a 502; a block writes the 403 before its record.
Decide(r) ==
  /\ pc[r] = "decide"
  /\ \/ Fail(r, "request") /\ UNCHANGED client
     \/ /\ Outcome(r, "request", Verdict(found[r]), found[r], unscanned[r])
        /\ IF Blocked(found[r])
           THEN Write(r, "403") /\ Goto(r, "record_last")
           ELSE Goto(r, "forward") /\ UNCHANGED client
  /\ UNCHANGED <<found, unscanned, crossing, answered, respFound, ledger, lost>>

\* NewRequest and RoundTrip up to the body being sent.  A failed dial sends
\* nothing.
Forward(r) ==
  /\ pc[r] = "forward"
  /\ \/ /\ crossing' = [crossing EXCEPT ![r] = Body(outcome[r].verdict)]
        /\ Goto(r, "await")
        /\ UNCHANGED outcome
     \/ Fail(r, "request") /\ UNCHANGED crossing
  /\ UNCHANGED <<found, unscanned, answered, respFound, client, ledger, lost>>

\* Mutants: the response is read before the request is recorded; an upstream
\* error is answered without a record.
AwaitUnrecorded(r) ==
  /\ pc[r] = "await"
  /\ \/ /\ answered' = [answered EXCEPT ![r] = TRUE]
        /\ Goto(r, "receive")
        /\ UNCHANGED outcome
     \/ Fail(r, "request") /\ UNCHANGED answered
  /\ UNCHANGED <<found, unscanned, crossing, respFound, client, ledger, lost>>

AwaitErrorUnrecorded(r) ==
  /\ pc[r] = "await"
  /\ \/ answered' = [answered EXCEPT ![r] = TRUE] /\ Goto(r, "record_request")
     \/ Goto(r, "reply_error") /\ UNCHANGED answered
  /\ UNCHANGED <<found, unscanned, crossing, respFound, client, outcome, ledger, lost>>

\* RoundTrip returns: a response head, or an error after the body was sent.
Await(r) ==
  /\ pc[r] = "await"
  /\ \/ /\ answered' = [answered EXCEPT ![r] = TRUE]
        /\ Goto(r, "record_request")
        /\ UNCHANGED outcome
     \/ Fail(r, "request") /\ UNCHANGED answered
  /\ UNCHANGED <<found, unscanned, crossing, respFound, client, ledger, lost>>

\* The request record; isStreamingResponse chooses how the body is handled.
RecordRequest(r) ==
  /\ pc[r] = "record_request"
  /\ AppendRecord(r)
  /\ Goto(r, "receive") \/ Goto(r, "stream")
  /\ UNCHANGED <<found, unscanned, crossing, answered, respFound, client, outcome>>

\* Mutants: a failed read is recorded as a request; the reply skips the record.
ReceiveWrongDirection(r) ==
  /\ pc[r] = "receive"
  /\ Fail(r, "request")
  /\ UNCHANGED <<found, unscanned, crossing, answered, respFound, client, ledger, lost>>

ReceiveUnrecorded(r) ==
  /\ pc[r] = "receive"
  /\ \E F \in SUBSET Findings :
       /\ respFound' = [respFound EXCEPT ![r] = F]
       /\ Outcome(r, "response", Verdict(F), F, FALSE)
       /\ Goto(r, "reply")
  /\ UNCHANGED <<found, unscanned, crossing, answered, client, ledger, lost>>

\* io.ReadAll of the response, Find and applyActions.
Receive(r) ==
  /\ pc[r] = "receive"
  /\ \/ Fail(r, "response") /\ UNCHANGED <<respFound, client>>
     \/ \E F \in SUBSET Findings :
          /\ respFound' = [respFound EXCEPT ![r] = F]
          /\ Outcome(r, "response", Verdict(F), F, FALSE)
          /\ IF Blocked(F)
             THEN Write(r, "403") /\ Goto(r, "record_last")
             ELSE Goto(r, "record_response") /\ UNCHANGED client
  /\ UNCHANGED <<found, unscanned, crossing, answered, ledger, lost>>

RecordResponse(r) ==
  /\ pc[r] = "record_response"
  /\ AppendRecord(r)
  /\ Goto(r, "reply")
  /\ UNCHANGED <<found, unscanned, crossing, answered, respFound, client, outcome>>

\* Headers and body; a write error is only logged.
Reply(r) ==
  /\ pc[r] = "reply"
  /\ Write(r, Body(outcome[r].verdict))
  /\ Goto(r, "done")
  /\ UNCHANGED <<found, unscanned, crossing, answered, respFound, outcome, ledger, lost>>

\* One SSE token: the findings it completes may end the stream in an error
\* event; otherwise events go out.
StreamToken(r) ==
  /\ pc[r] = "stream"
  /\ \E F \in SUBSET Findings :
       LET all == respFound[r] \cup F
       IN  /\ respFound' = [respFound EXCEPT ![r] = all]
           /\ IF Blocked(F)
              THEN /\ Write(r, "error_event")
                   /\ Outcome(r, "response", "blocked", all, FALSE)
                   /\ Goto(r, "record_last")
              ELSE /\ Write(r, "events")
                   /\ UNCHANGED <<pc, outcome>>
  /\ UNCHANGED <<found, unscanned, crossing, answered, ledger, lost>>

\* EOF or a read error: finalize may still find something.
StreamEnd(r) ==
  /\ pc[r] = "stream"
  /\ \E F \in SUBSET Findings :
       LET all == respFound[r] \cup F
       IN  /\ respFound' = [respFound EXCEPT ![r] = all]
           /\ Write(r, IF Blocked(all) THEN "error_event" ELSE "events")
           /\ Outcome(r, "response", StreamVerdict(all), all, FALSE)
           /\ Goto(r, "record_last")
  /\ UNCHANGED <<found, unscanned, crossing, answered, ledger, lost>>

\* The last record of a blocked request or response, and of a stream.
RecordLast(r) ==
  /\ pc[r] = "record_last"
  /\ AppendRecord(r)
  /\ Goto(r, "done")
  /\ UNCHANGED <<found, unscanned, crossing, answered, respFound, client, outcome>>

RecordError(r) ==
  /\ pc[r] = "record_error"
  /\ AppendRecord(r)
  /\ Goto(r, "reply_error")
  /\ UNCHANGED <<found, unscanned, crossing, answered, respFound, client, outcome>>

ReplyError(r) ==
  /\ pc[r] = "reply_error"
  /\ Write(r, "502")
  /\ Goto(r, "done")
  /\ UNCHANGED <<found, unscanned, crossing, answered, respFound, outcome, ledger, lost>>

\* The process stops: every handler that is still running dies where it is.
Kill ==
  /\ MayBeKilled
  /\ \E r \in Requests : pc[r] \notin {"done", "killed"}
  /\ pc' = [r \in Requests |-> IF pc[r] = "done" THEN "done" ELSE "killed"]
  /\ UNCHANGED <<found, unscanned, crossing, answered, respFound, client, outcome,
                 ledger, lost>>

\* Steps the handler takes on its own, and those that wait for the upstream.
Handle(r) ==
  \/ Decide(r) \/ Forward(r) \/ RecordRequest(r) \/ RecordResponse(r) \/ Reply(r)
  \/ RecordLast(r) \/ RecordError(r) \/ ReplyError(r)

Upstream(r) == Await(r) \/ Receive(r) \/ StreamEnd(r)

Next == (\E r \in Requests : ReadBody(r) \/ Handle(r) \/ Upstream(r) \/ StreamToken(r))
        \/ Kill

Spec == Init /\ [][Next]_vars

\* A handler that can run runs; FairSpec adds an upstream that answers or
\* fails and a stream that ends.
Fairness == \A r \in Requests : WF_vars(Handle(r))
FairSpec == Spec /\ Fairness /\ \A r \in Requests : WF_vars(Upstream(r))

-----------------------------------------------------------------------------
Recorded(r, dir) == \E i \in DOMAIN ledger : ledger[i].req = r /\ ledger[i].dir = dir

\* The handler has called Append for this direction, successfully or not.
Evidenced(r, dir) == Recorded(r, dir) \/ <<r, dir>> \in lost

Ended(r) == pc[r] \in {"done", "killed"}

Directions == {"request", "response"}
Verdicts == {"forwarded", "masked", "blocked", "exempted", "error"}
Listings == SUBSET [class : {f.class : f \in Findings}, action : Actions]
Outcomes == [dir : Directions, verdict : Verdicts, findings : Listings,
             unscanned : BOOLEAN]
Records == [req : Requests, dir : Directions, verdict : Verdicts,
            findings : Listings, unscanned : BOOLEAN]
Writes == {"403", "502", "clear", "masked", "events", "error_event"}

\* The type invariant of the gateway.
TypeOK ==
  /\ pc \in [Requests -> Phases]
  /\ found \in [Requests -> SUBSET Findings]
  /\ unscanned \in [Requests -> BOOLEAN]
  /\ crossing \in [Requests -> {"none", "clear", "masked"}]
  /\ answered \in [Requests -> BOOLEAN]
  /\ respFound \in [Requests -> SUBSET Findings]
  /\ client \in [Requests -> SUBSET Writes]
  /\ outcome \in [Requests -> Outcomes]
  /\ ledger \in Seq(Records)
  /\ lost \subseteq Requests \X Directions

\* A request body with a blocked finding never reaches the upstream, and one
\* with a masked finding never reaches it unmasked; neither does a response
\* body the client.
NothingForbiddenCrosses ==
  \A r \in Requests :
    /\ crossing[r] # "none" => ~Blocked(found[r])
    /\ crossing[r] = "clear" => ~MustMask(found[r])
    /\ client[r] \cap {"clear", "masked"} # {} => ~Blocked(respFound[r])
    /\ "clear" \in client[r] => ~MustMask(respFound[r])

\* Whatever the interleaving and whichever exit a handler takes, a direction
\* of a request is recorded at most once.
OneRecordPerDirection ==
  \A i \in DOMAIN ledger :
    /\ <<ledger[i].req, ledger[i].dir>> \notin lost
    /\ \A j \in DOMAIN ledger :
         ledger[i].req = ledger[j].req /\ ledger[i].dir = ledger[j].dir => i = j

\* The ledger can be read from top to bottom: the response of a request is
\* never on record before the request.
ResponseAfterRequest ==
  \A i \in DOMAIN ledger : ledger[i].dir = "response" =>
    \/ <<ledger[i].req, "request">> \in lost
    \/ \E j \in 1..(i - 1) : ledger[j].req = ledger[i].req /\ ledger[j].dir = "request"

\* A verdict on record is what happened to the bytes: blocked requests did not
\* leave, masked ones left masked, the others left unchanged; and the client
\* of a blocked response got no body.
VerdictsAreTrue ==
  \A i \in DOMAIN ledger :
    LET r == ledger[i].req
        v == ledger[i].verdict
    IN  IF ledger[i].dir = "request"
        THEN /\ v = "blocked" => crossing[r] = "none"
             /\ v = "masked" => crossing[r] = "masked"
             /\ v \in {"forwarded", "exempted"} => crossing[r] = "clear"
        ELSE /\ v = "blocked" => client[r] \cap {"clear", "masked"} = {}
             /\ v = "masked" => "clear" \notin client[r]
             /\ v \in {"forwarded", "exempted"} => "masked" \notin client[r]

\* Apart from error records, a record lists every finding of its body with the
\* action taken, those logged or exempted included; and a request record says
\* whether the request had fields nobody scanned.
RecordsListFindings ==
  \A i \in DOMAIN ledger : ledger[i].verdict # "error" =>
    LET r == ledger[i].req
    IN  IF ledger[i].dir = "request"
        THEN ledger[i].findings = Listed(found[r]) /\ ledger[i].unscanned = unscanned[r]
        ELSE ledger[i].findings = Listed(respFound[r])

\* No response byte reaches the client before the request was put on record,
\* no response body before the response was, no 502 before the error was.
BytesFollowRecord ==
  \A r \in Requests :
    /\ client[r] \cap {"clear", "masked", "events"} # {} => Evidenced(r, "request")
    /\ client[r] \cap {"clear", "masked"} # {} => Evidenced(r, "response")
    /\ "502" \in client[r] => Evidenced(r, IF answered[r] THEN "response" ELSE "request")

\* A handler that returned has recorded its request, and its response exactly
\* when the upstream answered: no exit of ServeHTTP is without evidence.
DoneIsEvidenced ==
  \A r \in Requests : pc[r] = "done" =>
    Evidenced(r, "request") /\ (Evidenced(r, "response") <=> answered[r])

\* A request body that crossed the boundary gets its ledger record, provided the
\* upstream answers or fails (FairSpec: the code has no timeout that would make a
\* silent one fail) and the process is not killed first.
CrossingIsRecorded ==
  \A r \in Requests : crossing[r] # "none" ~> \/ pc[r] = "killed"
                                               \/ Evidenced(r, "request")

\* Every request that was read is answered: also the one refused with a 403, which
\* is written before its record (DoneIsEvidenced: it gets one).
EveryHandlerEnds == \A r \in Requests : pc[r] = "decide" ~> Ended(r)

\* The handlers together keep an evidence log: what left, what the client has and
\* what is on record change only as EvidenceLog lets them.
Evidence == INSTANCE EvidenceLog WITH
  crossed   <- crossing,
  delivered <- [r \in Requests |-> client[r] \cap {"clear", "masked", "events"}],
  records   <- [i \in DOMAIN ledger |->
                  [req |-> ledger[i].req, dir |-> ledger[i].dir, says |-> ledger[i].verdict]],
  missing   <- lost
KeepsEvidence == Evidence!Spec

-----------------------------------------------------------------------------
\* What the documents say and the code does not do.

\* ARCHITECTURE.md:53, "Emit the request ledger line before forwarding."
RecordBeforeForward ==
  \A r \in Requests : crossing[r] # "none" => Evidenced(r, "request")
=============================================================================
