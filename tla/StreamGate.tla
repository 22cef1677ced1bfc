----------------------------- MODULE StreamGate -----------------------------
(***************************************************************************)
(* The SSE response path of the gateway (gate/stream.go): one call of      *)
(* handleStreamingResponse.  Every token read from the upstream becomes an *)
(* event whose text delta is appended to the decoded text and fed to the   *)
(* engine; events that end before the held bytes are written to the        *)
(* client, with the mask spans known by then overwritten; a finding whose  *)
(* action is block ends the stream with an error frame; end of stream or a *)
(* read error drains the engine, flushes what is left and writes the       *)
(* ledger record.                                                          *)
(*                                                                         *)
(* The decoded text is StreamScan's text: addEvent and Feed always extend  *)
(* the two together.  A gateway without an engine is the empty rule set,   *)
(* for which Feed confirms and holds nothing.  ss.allFindings is seen.     *)
(***************************************************************************)
EXTENDS StreamScan, Policy

CONSTANTS
  ClassOf,      \* class of a rule
  Confidence,   \* confidence of a rule, in percent
  Config,       \* the loaded shield.yaml, see Policy
  Dest,         \* upstream.Host
  Fields,       \* names that can be reported as unscanned
  MaxEvents     \* bound: number of tokens of the stream

ASSUME GateAssumption == ValidConfig(Config) /\ MaxEvents \in Nat

VARIABLES
  pendingEvents,  \* held events, as [from, to]: decodedStart and decodedEnd
  maskSpans,      \* confirmed findings to overwrite
  blocked,        \* a block verdict has latched
  unscanned,      \* unscanned fields reported by the extraction so far
  client,         \* frames written to the client, in order
  ledger,         \* response records written for this request
  phase           \* "streaming" or "done"

gateVars == <<pendingEvents, maskSpans, blocked, unscanned, client, ledger, phase>>
vars == <<scanVars, gateVars>>

-----------------------------------------------------------------------------
Result(f) == Evaluate(Config, ClassOf[f.rule], Dest, Confidence[f.rule])

Blocking(f) == Result(f).action = "block" /\ ~Result(f).exempted
Masking(f) == Result(f).action = "mask" /\ ~Result(f).exempted

\* Frames: an event with the decoded positions from+1..to, of which stars are
\* overwritten; the provider-shaped error event that ends a blocked stream.
Frame == [type : {"event"}, from : Nat, to : Nat, stars : SUBSET (Nat \ {0})]
BlockFrame == [type |-> "error"]

\* Mutants: the overlap loses its last byte, or starts one byte early.
StarsShort(e, spans) ==
  {p \in (e.from + 1)..e.to : \E s \in spans : s.lo <= p /\ p < s.hi}
StarsEarly(e, spans) ==
  {p \in (e.from + 1)..e.to : \E s \in spans : s.lo <= p + 1 /\ p <= s.hi}

\* applyMaskToEvent: the part of each mask span that falls into the event.  That
\* the event can be rewritten there holds when its names are spelt exactly (SSE).
Stars(e, spans) ==
  {p \in (e.from + 1)..e.to : \E s \in spans : s.lo <= p /\ p <= s.hi}

Masked(e, spans) ==
  [type |-> "event", from |-> e.from, to |-> e.to, stars |-> Stars(e, spans)]

MaskAll(es, spans) == [i \in 1..Len(es) |-> Masked(es[i], spans)]

\* summaryFindings: counts per class and action.
Summary(findings) ==
  LET key(f) == <<ClassOf[f.rule], Result(f).action>>
  IN  {[key |-> k, count |-> Cardinality({f \in findings : key(f) = k})] :
         k \in {key(f) : f \in findings}}

\* Mutant: the record is summarised before the last findings are in.
RecordEarly(verdict) ==
  [verdict |-> verdict, findings |-> Summary(seen), unscanned |-> unscanned']

Record(verdict) ==
  [verdict |-> verdict, findings |-> Summary(seen'), unscanned |-> unscanned']

\* Mutant: a finding that only the drain confirms does not latch a block.
IngestFeedOnly ==
  /\ blocked' = (~drained' /\ \E f \in seen' \ seen : Blocking(f))
  /\ maskSpans' = IF blocked' THEN maskSpans
                  ELSE maskSpans \cup {f \in seen' \ seen : Masking(f)}

\* ingest: the new findings latch a block or extend the mask spans.
Ingest ==
  /\ blocked' = \E f \in seen' \ seen : Blocking(f)
  /\ maskSpans' = IF blocked' THEN maskSpans
                  ELSE maskSpans \cup {f \in seen' \ seen : Masking(f)}

\* popSafeEvents: n is the number of leading events outside the held bytes.
SafePrefix(es, held, n) ==
  /\ n \in 0..Len(es)
  /\ \A i \in 1..n : es[i].to \notin held
  /\ n < Len(es) => es[n + 1].to \in held

\* writeStreamBlockEvent, the ledger record, return; held events stay unsent.
EndBlocked ==
  /\ blocked'
  /\ client' = Append(client, BlockFrame)
  /\ ledger' = Append(ledger, Record("blocked"))
  /\ phase' = "done"

-----------------------------------------------------------------------------
Init ==
  /\ ScanInit
  /\ pendingEvents = <<>> /\ maskSpans = {} /\ blocked = FALSE
  /\ unscanned = {} /\ client = <<>> /\ ledger = <<>>
  /\ phase = "streaming"

\* Mutant: the last event written stays in the queue.
FlushSafeTwice(es) ==
  /\ ~blocked'
  /\ \E n \in 0..Len(es) :
       /\ SafePrefix(es, HeldBytes', n)
       /\ client' = client \o MaskAll(SubSeq(es, 1, n), maskSpans')
       /\ pendingEvents' = SubSeq(es, IF n > 0 THEN n ELSE 1, Len(es))
  /\ UNCHANGED <<ledger, phase>>

\* scanAndFlush after a feed that did not block.
FlushSafe(es) ==
  /\ ~blocked'
  /\ \E n \in 0..Len(es) :
       /\ SafePrefix(es, HeldBytes', n)
       /\ client' = client \o MaskAll(SubSeq(es, 1, n), maskSpans')
       /\ pendingEvents' = SubSeq(es, n + 1, Len(es))
  /\ UNCHANGED <<ledger, phase>>

\* One token: addEvent, scanAndFlush, and the block exit.  chunk is the text
\* delta (empty for a control event), fields what extraction flags.
Token(chunk, fields) ==
  LET es == Append(pendingEvents,
                   [from |-> Len(text), to |-> Len(text) + Len(chunk)])
  IN  /\ phase = "streaming"
      /\ unscanned' = unscanned \cup fields
      /\ Feed(chunk)
      /\ Ingest
      /\ \/ EndBlocked /\ pendingEvents' = es
         \/ FlushSafe(es)

\* EOF or a read error: finalize and the ledger record.
EndStream ==
  /\ phase = "streaming"
  /\ UNCHANGED unscanned
  /\ Finalize
  /\ Ingest
  /\ \/ EndBlocked /\ UNCHANGED pendingEvents
     \/ /\ ~blocked'
        /\ client' = client \o MaskAll(pendingEvents, maskSpans')
        /\ pendingEvents' = <<>>
        /\ ledger' = Append(ledger,
                       Record(IF maskSpans' = {} THEN "forwarded" ELSE "masked"))
        /\ phase' = "done"

EventFrames == {i \in DOMAIN client : client[i].type = "event"}

\* Tokens read so far.
Received == Cardinality(EventFrames) + Len(pendingEvents)

NextToken ==
  \E chunk \in Chunks, fields \in SUBSET Fields :
    /\ Received < MaxEvents
    /\ Len(text) + Len(chunk) <= MaxText
    /\ Token(chunk, fields)

Next == NextToken \/ EndStream

Spec == Init /\ [][Next]_vars
-----------------------------------------------------------------------------
Covers(x, p) == x.from < p /\ p <= x.to

\* The type invariant of the streaming handler.
TypeOK ==
  /\ ScanTypeOK
  /\ pendingEvents \in Seq([from : Nat, to : Nat])
  /\ maskSpans \subseteq seen
  /\ blocked \in BOOLEAN
  /\ unscanned \subseteq Fields
  /\ client \in Seq(Frame \cup {BlockFrame})
  /\ \A i \in DOMAIN ledger : ledger[i].verdict \in {"forwarded", "masked", "blocked"}
  /\ phase \in {"streaming", "done"}

\* No byte of a finding the policy masks has ever left in the clear, also when
\* the finding was confirmed long after its first bytes arrived.
MaskedNeverClear ==
  \A f \in seen : Masking(f) =>
    \A i \in EventFrames : \A p \in f.lo..f.hi :
      Covers(client[i], p) => p \in client[i].stars

\* No byte of a finding the policy blocks has ever left, masked or clear.
BlockedNeverDelivered ==
  \A f \in seen : Blocking(f) =>
    \A i \in EventFrames : \A p \in f.lo..f.hi : ~Covers(client[i], p)

\* Bytes that belong to no masked finding pass unchanged.
OnlyFindingsRewritten ==
  \A i \in EventFrames : \A p \in client[i].stars :
    \E f \in seen : Masking(f) /\ f.lo <= p /\ p <= f.hi

\* The record of a stream that ran to its end counts exactly the findings a
\* whole-text scan of the response would have counted.
RecordMatchesFind ==
  \A i \in DOMAIN ledger :
    ledger[i].verdict # "blocked" => ledger[i].findings = Summary(Find(text))

\* Neither the chunking nor the moment a finding is confirmed changes the verdict:
\* the one recorded is the policy's verdict on the findings of a whole-text scan
\* of what was received, also for findings that only the drain at the end confirms.
VerdictIsOfTheText ==
  \A i \in DOMAIN ledger :
    ledger[i].verdict =
      IF \E f \in Find(text) : Blocking(f) THEN "blocked"
      ELSE IF \E f \in Find(text) : Masking(f) THEN "masked"
      ELSE "forwarded"

\* The hold-back, the masking and every exit of the handler implement SafeStream.
Promise == INSTANCE SafeStream
             WITH received <- Len(text),
                  records <- [i \in DOMAIN ledger |-> ledger[i].verdict]

\* The client reads the upstream's events in order, none lost, doubled or taken
\* back by the hold-back; a stream that was not cut off is complete; and the one
\* record tells what was delivered.
DeliversAsPromised == Promise!Spec
=============================================================================
