----------------------------- MODULE SafeStream -----------------------------
(***************************************************************************)
(* What the client of a streamed response and the reader of its ledger     *)
(* line can rely on, without a word of how bytes are held back: events     *)
(* arrive in the order of the text, each once and for good, never ahead of *)
(* the upstream; the stream ends complete or with an error event; and one  *)
(* record, written at the end, tells which of the two it was and whether   *)
(* anything was overwritten.                                               *)
(***************************************************************************)
EXTENDS Naturals, Sequences

VARIABLES
  received,  \* bytes of text the upstream has sent
  client,    \* frames the client has: events [type, from, to, stars], or an error
  records    \* verdicts on record for the response

vars == <<received, client, records>>

EndAt(frames, i) == IF i = 0 THEN 0 ELSE frames[i].to

\* The client gets events only, each beginning where the one before ended.
Extends ==
  /\ Len(client') >= Len(client)
  /\ \A i \in 1..Len(client) : client'[i] = client[i]
  /\ \A i \in (Len(client) + 1)..Len(client') :
       /\ client'[i].type = "event"
       /\ client'[i].from = EndAt(client', i - 1) /\ client'[i].from <= client'[i].to
       /\ client'[i].stars \subseteq (client'[i].from + 1)..client'[i].to

Open == records = <<>>

Init == received = 0 /\ client = <<>> /\ records = <<>>

Deliver ==
  /\ Open
  /\ received' >= received /\ Extends
  /\ EndAt(client', Len(client')) <= received'
  /\ UNCHANGED records

Complete ==
  /\ Open
  /\ UNCHANGED received /\ Extends
  /\ EndAt(client', Len(client')) = received
  /\ records' = <<IF \E i \in 1..Len(client') : client'[i].stars # {}
                  THEN "masked" ELSE "forwarded">>

Cut ==
  /\ Open
  /\ received' >= received
  /\ client' = Append(client, [type |-> "error"])
  /\ records' = <<"blocked">>

Next == Deliver \/ Complete \/ Cut

Spec == Init /\ [][Next]_vars
=============================================================================
