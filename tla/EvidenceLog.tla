---------------------------- MODULE EvidenceLog ----------------------------
(***************************************************************************)
(* What an auditor may conclude from the ledger, whatever has been and     *)
(* will be done: which bodies crossed the boundary, which reached the      *)
(* client, and which records say so.  Records can go missing, one at a     *)
(* time, and everything can stop at any moment; but a record that is there *)
(* is never contradicted, not even later.  No handlers, no findings and no *)
(* policy.                                                                 *)
(***************************************************************************)
EXTENDS Naturals, Sequences

CONSTANT Requests

VARIABLES
  crossed,    \* how the request body left: "none", "clear" or "masked"
  delivered,  \* what of the response the client has: "clear", "masked", "events"
  records,    \* the log: [req, dir, says]
  missing     \* <<request, direction>> whose record was lost

vars == <<crossed, delivered, records, missing>>

Init ==
  /\ crossed = [r \in Requests |-> "none"]
  /\ delivered = [r \in Requests |-> {}]
  /\ records = <<>>
  /\ missing = {}

Settled(r, dir) ==
  \/ \E i \in DOMAIN records : records[i].req = r /\ records[i].dir = dir
  \/ <<r, dir>> \in missing

\* The body of a request leaves at most once, and only before its record.
Send(r) ==
  /\ crossed[r] = "none" /\ ~Settled(r, "request")
  /\ \E how \in {"clear", "masked"} : crossed' = [crossed EXCEPT ![r] = how]
  /\ UNCHANGED <<delivered, records, missing>>

\* What a record of the request can say of the body.
Says(r) ==
  CASE crossed[r] = "none"   -> {"blocked", "error"}
    [] crossed[r] = "masked" -> {"masked", "error"}
    [] OTHER                 -> {"forwarded", "exempted", "error"}

\* The request is settled first, the response once it is, and each only once.
\* When a response body is settled none of it has been delivered.
Settle(r) ==
  \E dir \in {"request", "response"} :
    /\ ~Settled(r, dir)
    /\ dir = "response" => Settled(r, "request") /\ delivered[r] \subseteq {"events"}
    /\ \/ /\ \E says \in IF dir = "request" THEN Says(r)
                         ELSE {"forwarded", "masked", "blocked", "exempted", "error"} :
               records' = Append(records, [req |-> r, dir |-> dir, says |-> says])
          /\ UNCHANGED missing
       \/ missing' = missing \cup {<<r, dir>>} /\ UNCHANGED records
    /\ UNCHANGED <<crossed, delivered>>

\* What a record of the response lets the client have.
Allows(says, body) ==
  CASE body = "masked" -> says = "masked"
    [] body = "clear"  -> says \in {"forwarded", "exempted"}

\* A response body goes out when both directions are settled, as the record
\* says.
Deliver(r) ==
  /\ Settled(r, "request") /\ Settled(r, "response")
  /\ \E body \in {"clear", "masked"} :
       /\ \A i \in DOMAIN records :
            records[i].req = r /\ records[i].dir = "response" => Allows(records[i].says, body)
       /\ delivered' = [delivered EXCEPT ![r] = @ \cup {body}]
  /\ UNCHANGED <<crossed, records, missing>>

\* Events of a stream go out once the request is settled, and none after the
\* stream is.
Release(r) ==
  /\ Settled(r, "request") /\ ~Settled(r, "response")
  /\ delivered' = [delivered EXCEPT ![r] = @ \cup {"events"}]
  /\ UNCHANGED <<crossed, records, missing>>

Next == \E r \in Requests : Send(r) \/ Settle(r) \/ Deliver(r) \/ Release(r)

Spec == Init /\ [][Next]_vars
=============================================================================
