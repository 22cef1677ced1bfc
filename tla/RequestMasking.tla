--------------------------- MODULE RequestMasking ---------------------------
(***************************************************************************)
(* A request body from its JSON text to its masked bytes: the adapter      *)
(* decodes a string and the JSON nested in it (JSONText), scanRequestBody  *)
(* turns the findings in both texts into spans of the body, and maskBody   *)
(* stars them out (Masking).                                               *)
(***************************************************************************)
EXTENDS JSONText, Masking, FiniteSets, SequencesExt

requestVars == <<parseVars, vars>>

RequestInit ==
  /\ ParseInit
  /\ size = 0 /\ spans = <<>> /\ taken = 0 /\ merged = <<>>
  /\ written = 0 /\ pos = 0 /\ out = <<>> /\ done = FALSE

Decode == spans = <<>> /\ ParseNext /\ UNCHANGED vars

\* scanRequestBody: the spans of the findings in every unit, each span once,
\* those that are empty or leave the body dropped; then maskBody sorts them.
ScanRequestBody ==
  /\ stage = "parsed" /\ spans = <<>>
  /\ size' = rawPos + 1
  /\ \E found \in SUBSET UNION {{RawSpan(u, m.lo, m.hi) : m \in Matches(u)} : u \in Units} :
       LET kept == {s \in found : InBody(s, rawPos + 1)}
       IN  /\ kept # {} /\ Cardinality(kept) <= MaxSpans
           /\ \E order \in SetToSeqs(kept) :
                /\ SortedByStart(order)
                /\ spans' = order /\ taken' = 1 /\ merged' = <<order[1]>>
  /\ UNCHANGED <<parseVars, written, pos, out, done>>

Mask == spans # <<>> /\ Next /\ UNCHANGED parseVars

RequestNext == Decode \/ ScanRequestBody \/ Mask

RequestSpec == RequestInit /\ [][RequestNext]_requestVars

-----------------------------------------------------------------------------
\* A character of the outer string is starred out as a whole or left alone:
\* the masked body is still JSON, and the bytes around it (the quotes) stay.
EscapesAreNeverSplit ==
  done => /\ out[1] = 1 /\ out[size] = size
          /\ \A k \in DOMAIN starts : \A p, q \in (starts[k] + 1)..RawEnd(k) :
               out[p] = 0 <=> out[q] = 0
=============================================================================
