# ContextShield: a TLA+ verification development

ContextShield is a self-hosted gateway between applications and model APIs. It
scans what leaves and what comes back with a deterministic rule engine, applies
a policy (block, mask, log) and writes one ledger record per direction. This
directory holds TLA+ modules translated from the Go source under `src/`, TLC
configurations that check them on small instances, and TLAPS proofs.

## The system

| Component | State | Operations | Interacts with |
|---|---|---|---|
| `engine.Matcher.Find` | none (pure) | anchor candidates, confirm with regexp and validators | called by gate, scan, evals |
| `engine.StreamScan` | automaton state, `absoluteOffset`, `pendingCandidates`, `pendingLiteral`, `deferredIBANStarts`, `seen` | `Feed`, `Finalize`, `holdLen` | fed by the streaming handler, which owns the text |
| `engine` automaton | trie nodes with fail links and outputs | `add`, `build`, `step` | read by Find and Feed |
| `engine` validators | none | Luhn, issuer, length, mod-97, SSN ranges, entropy | called by `scanRule` |
| `policy.Evaluator` | the loaded configuration | `Evaluate` | called for each finding |
| `gate` handler (`ServeHTTP`) | per request: body, findings, verdict | read, route, scan, act, forward, record, answer | upstream, client, ledger |
| `gate` streaming handler | decoded text, held events, mask spans, block latch | token loop, `scanAndFlush`, `finalize` | StreamScan, evaluator, client, ledger |
| SSE framing and deltas | buffer of unframed bytes | `readSSEChunks`, `parseSSEToken`, extraction, carrier masking | streaming handler |
| `adapter` | none | JSON with byte ranges, text units, unscanned fields | request scan |
| `ledger.Writer` | mutex, output | `Append` | shared by all handlers |
| `cmd/contextshield` | process | serve, scan, eval | starts and stops the gateway |
| `scan`, `evals` | none | file walk; precision and recall gate | engine |

What is hard here:

* **Streaming.** The same secret can be cut into chunks anywhere. A candidate
  passes through one of three pending lists depending on where the cut falls,
  and bytes are released to the client on a hold length computed from those
  lists. Released bytes cannot be taken back.
* **Two rounds at the end.** A stream that ends drains the engine; findings of
  that drain can still block or mask, and only then is the record written.
* **Two readers of one protocol.** Request and response JSON are read by
  different code with different field tables, and what is scanned has to be found
  again to be masked: through one or two levels of string escapes in a request,
  through event framing and several choices in a stream.
* **Ordering of effects.** Bytes reach the upstream or the client, and records
  reach the ledger, in an order that differs per exit of `ServeHTTP`, while other
  handlers do the same, writes fail and the process can be stopped.

The hazards, each at its source line, are in `PROJECT.json`, with the
properties that watch them.

## Modules

| Module | Models | Source |
|---|---|---|
| `Policy` | class x destination -> action, as operators | `policy/evaluator.go`, `policy/config.go` |
| `Automaton`, `MCAutomaton` | the keyword trie, its fail links and its run | `engine/automaton.go` |
| `Prefilter` | the automaton loaded with a rule pack's keywords, joined to `StreamScan` | `engine/engine.go`, `engine/automaton.go` |
| `Validators`, `MCValidators` | Luhn, card tables, IBAN mod-97 | `engine/validators.go` |
| `StreamScan`, `MCRules`, `MCStreamScan` | Find and the incremental matcher; small rule packs | `engine/engine.go`, `engine/automaton.go` |
| `SafeStream` | what the client and the ledger's reader may rely on | abstract |
| `StreamGate`, `MCStreamGate` | `handleStreamingResponse`, composed with `StreamScan` and `Policy`, implements `SafeStream` | `gate/stream.go` |
| `EvidenceLog` | what an auditor may conclude from the ledger | abstract |
| `Gateway`, `MCGateway` | `ServeHTTP`, concurrent handlers, ledger; implements `EvidenceLog` | `gate/gateway.go`, `ledger/ledger.go` |
| `JSONText` | decoding a JSON string, and the JSON in it, with byte ranges | `adapter/adapter.go` |
| `Masking` | `maskBody`: merging spans and rewriting the body | `gate/gateway.go` |
| `RequestMasking`, `MCRequestMasking` | `JSONText` and `Masking` joined by `scanRequestBody` | `gate/gateway.go` |
| `Extraction` | which values of a request body are scanned, skipped, reported | `adapter/adapter.go` |
| `SSE` | framing of events, delta extraction, carrier masking | `gate/stream.go` |
| `Exchange`, `MCExchange` | `Extraction` and `SSE` over one exchange | `adapter`, `gate` |
| `Evaluation` | counts and thresholds of the eval harness | `evals/eval.go`, `cmd/contextshield/main.go` |
| `Command`, `MCCommand` | a run of the program, from arguments to exit code | `cmd/contextshield/main.go`, `scan/scan.go`, `policy/config.go` |
| `Loops` | a loop over a sequence that carries a value, used by `Validators` and `SSE` | |
| `ValidatorsProofs`, `CommandProofs` | theorems about the module they are named after | |
| `AutomatonProofs` | theorems about `Automaton` and `Prefilter` | |
| `StreamGateProofs` | theorems about `StreamScan` and, on top of them, `StreamGate` | |
| `GatewayProofs` | theorems about `Policy` and `Gateway` | |
| `RequestMaskingProofs` | theorems about `Masking` and `RequestMasking` | |
| `ExchangeProofs` | theorems about `SSE`, `Extraction` and their composition | |
| `LoopProofs` | induction over loops and sequences, for the two modules that need it | |

### Automaton

`nodes` is the slice of trie nodes, `added` the keywords `add` received. `add`
follows the word to the stem, the last node the trie has for it, and hangs the
rest of it there. `build` is the breadth-first loop over `queue`: `LinkChild` is
one turn of its inner loop, over the children in any order because Go iterates
maps in any order. `Scan` is one `step`. The properties say what `StreamScan`
takes from the automaton: every keyword that ends at a byte is reported there,
and the depth of the state is the longest keyword prefix the text ends with.
`Prefilter` states that in `StreamScan`'s own terms: `Loaded` is what `NewMatcher`
has added, `Reported` the candidates that `Find` and `Feed` take from a node, and
both are compared with `KeywordHits` and `PartialStarts`.

### Validators

The candidate `text` grows by one character at a time and the validators are
operators on it; characters are numbers. Each operator is the Go function of its
name, and a `for` loop in it is `Carried`, which says what one turn does to the
value the loop carries. The properties compare them with independent
definitions: the carried mod-97 with the whole number, and the verdicts with the
slips a checksum exists to catch. The two card tables are compared with each
other, because a card must pass both and the code lists the networks twice.

### Masking

`Take` is one turn of `maskBody`'s merge loop, `Star` one turn of its write loop
and `Finish` the rest of the body. A byte is its position and a star is 0, so
that a byte moved, lost or left in the clear shows in `out`. Spans are half-open
and 0-based as in the code, and come in any order `sort.Slice` may leave.

### StreamScan

`text` is the reassembled text (the gateway's `decoded`). `pendingCandidates`,
`pendingLiteral`, `deferredIBANStarts` and `seen` are the fields of the same
name; `drained` says that `Finalize` ran. A finding `[rule, lo, hi]` covers
`text[lo..hi]`, 1-based, so the code's `Start` is `lo - 1` and its `End` is `hi`.

* `Match(r, w)` stands for `regexp.FindSubmatchIndex` of rule `r` on window `w`:
  none or one submatch, with the offset of the whole match and of the selected
  group. `Valid(r, v)` stands for the rule's validators. Both are constants:
  nothing in the module depends on what a rule matches. All that is
  assumed of `Match` is `MatchAssumption`: a match begins in the window, and the
  group begins no earlier and ends in it. Go's regexp promises that, and TLC
  checks it of the packs in `MCRules`.
* `ScanRule` is `Matcher.scanRule`: the window has one byte of left context and
  one of right context; a match that begins on the context byte, an empty group
  and a value the validators refuse are dropped; the `seen` map is a set.
* The automaton is represented by what it reports: `KeywordHits` (keywords that
  end at a position) and `PartialStarts` (the depth of its state).
* `Feed(chunk)` is one call of `Feed`: the candidates that waited, the deferred
  IBAN heads and those anchored in the chunk are collected, the ones whose window
  is complete are scanned, the others wait. The code does this list by list; the
  result does not depend on the order of scanning because `seen` is a set and a
  scan reads nothing but the text.
* `HeldBytes` are the last `holdLen` positions.

`Feed`'s early return for a text shorter than its offset is unreachable: the
gateway always appends to `decoded` before it feeds.

### StreamGate

One call of `handleStreamingResponse`. `Token(chunk, fields)` is one turn of its
loop: `addEvent`, `scanAndFlush` (Feed, `ingest`, `popSafeEvents`,
`flushMasked`) and the block exit. `EndStream` is what follows end of file or a
read error: `finalize`, then the frame of a late block, then the record. An
event is `[from, to]`, the code's `decodedStart` and `decodedEnd`; a frame
written to the client is an event with the positions overwritten by `*`, or the
error event. A gateway without rules (`eng == nil`) is the empty rule set.
The token's text delta and its flagged fields are inputs: `SSE` says how they are
taken from provider JSON. That an event which gave text can be rewritten is taken
for granted here; `SSE` shows it for events whose names are spelt exactly, and
`exchange_raw` that it fails for others. HTTP flushing is left out.

### SafeStream

The abstract stream has three variables: how much text the upstream has sent,
the frames the client has, and the verdicts on record. `Deliver` appends events
in order, `Complete` delivers what is left and records `masked` exactly when
something was overwritten, `Cut` ends with an error event and a `blocked`
record. `StreamGate` maps its text to its length, its ledger to the verdicts, and
its frames to themselves; there is no hold-back, no engine and no policy in the
abstraction. The step of `StreamGate` that only receives bytes and the one that
ends with late findings both have to be steps of it.

### JSONText, Masking and RequestMasking

`JSONText` runs `parseString` over a string of the body and then, if the text is
JSON, over a string or number in that text. A decoded byte is the index of the
character it came from, so that the ranges the code computes can be compared
with where that character really stands. A character is the number of bytes it
takes in the body, the number it decodes to, and whether it is an escape; the
five kinds checked are a letter, a two-byte rune, a short escape, a `\u` escape
and an invalid byte, which decodes to three. `Spelled` says which outer
characters can spell a nested one: a nested escape needs a backslash, which the
outer string has to escape. A match is taken to be whole characters: the engine
hands the regexp a window of bytes, whose ends could cut a rune, and matches
fall on characters as long as the packs match ASCII, as the shipped ones do.
`RequestMasking` turns matches into raw spans as `scanRequestBody` does,
including its fallback and its bounds check, and hands them to `maskBody`.
`MatchesCanBeMasked` (in `RequestMaskingProofs`) says that the bounds check
never drops the span of a match.

### Extraction

A behaviour walks one path through a body. The current value is described by the
function that visits it (`Visitor`): whether it scans a string or a number,
which function visits items and members, and which names `flagUnknownMembers`
lets pass. A visitor is written as in the code: which names lead to which
visitors (`To`), by what an object does with its members (`Object`), and the
tables of the three APIs are put together in `Visitor`. Walking every path is
the same as extracting every body, because the functions keep no state but two
sets that grow. Duplicate members are two paths.

### SSE and Exchange

Bytes are line contents, newlines and carriage returns; the data of an event is a
document on one line or two. `Ignored` stands for the lines the parser has no case
for, such as an event name without a space before it. A document has strings at the
carriers, and `exact` says which of them have every name on the way spelt exactly.
The code finds carriers twice, and so does the model: extraction unmarshals into a
struct, which takes a name in any case (`TextOf`, `StreamDelta`), and masking looks
names up in a map (`Found`, `MaskCarriers`, `Applied`). An event whose starred text
masking does not find is sent raw (`ApplyMask`). A name that is given twice in two
spellings is left out: which of the two the struct takes then depends on their
order. `Read` delivers a piece of any length; `NextToken`,
`LastToken` and `StopReading` are the three exits of the reader. `Split`,
`parseSSEToken` and `RewriteLines` are loops over bytes and lines. `Exchange` puts a
request's walk before the response's stream because both choose their provider
by the path, by different code.

### Evaluation and Command

Percentages are integers and ratios are compared by cross-multiplication, which
gives a ratio without denominator the value 1.0 the code gives it. `Command` has
one action per step that can fail or that changes state: parsing, configuration,
the ledger file, rules, gateway, listener, signal; scanned files; corpus, entries
and the verdict of `eval`. What lies on the disk is chosen when it is read.
`scored` holds the entries evaluated so far with the classes that fired on them;
entries that are alike get a number, so that the set counts them apart.

### Gateway

One handler per request. `pc` names the place in `ServeHTTP`; a step runs from
one effect visible to another party to the next. The set of findings of a body
is chosen when the body is read. `crossing` is what left for the upstream,
`client` what was written to the client, `ledger` the records, `lost` the
records whose `Append` failed. `Forward` and `Await` are two steps because
`RoundTrip` can fail before and after the upstream has the body. `Kill` is
`serveConfig` returning on a signal while handlers run. Streaming appears as
tokens that add findings and release events, in the order `StreamGate` details.

### EvidenceLog

The abstract log knows which bodies left, which bytes the client has, the records
and which of them went missing. A body leaves at most once and before its record;
the request is settled, by a record or by the loss of one, before the response; a
response body goes out only as its record says; and what a record says of a
request is what happened to its body. `Gateway` maps `crossing`, the response
bytes in `client`, the ledger's verdicts and `lost`. Handlers, findings, policy
and kills are not in the abstraction: a killed handler takes no more steps.

## Runs

| Run | Question | Bounds |
|---|---|---|
| `stream_scan` | is streaming the same as `Find`, never too early, never held for more than the `max_match_len` of a rule anchored there, and does the hold cover what is found later? | alphabet of 4 (`A`/`a` fold together, one digit, one separator), all texts up to 6 characters, chunks up to 3; a literal, two digit and an IBAN rule |
| `stream_gate` | can a blocked or masked value leave, do record and verdict depend on the text only, and does the handler implement `SafeStream`? | alphabet of 3, texts up to 6, chunks up to 3, 3 events; policy with block, mask, threshold and default |
| `gateway` | do forbidden bodies cross, are records true, unique and in order, is every exit evidenced, nothing sent before its record, do the handlers together implement `EvidenceLog`, and does every handler end if the upstream answers or fails? | 2 handlers, bodies with any of a blocked and a masked finding, failing ledger, process may be killed |
| `automaton` | does it report every keyword and stand at the longest prefix? | all lists of up to 3 keywords of up to 3 of 2 bytes, all build orders, texts up to 5 |
| `validators` | are slips caught, do the card tables agree, is the carried remainder right? | all texts up to 4 digits or hyphens (filled to 13..19 for the length table) and up to 5 of 8 IBAN characters; the whole number up to 9 decimal digits |
| `request_masking` | are exactly the characters of a match starred, through both decodings? | strings of up to 4 characters of 5 kinds, one nested string in any place of it, 1 or 2 spans |
| `exchange` | is every value scanned or reported, are tokens the frames, does a masked event read back masked if its names are spelt exactly? | every name of every table and one more; streams of up to 4 lines with LF or 2 with CR LF, reads of any length, documents with two carriers, with one, and with a name in another case before one of two; two of them also on two lines |
| `command` | what do exit codes and a running server promise? | 3 rules of 2 classes, shield.yaml files over defaults, two rules, exemption; corpora of up to 5 entries, 3 files |
| `stream_gate_iban`, `gateway_order`, `exchange_silent`, `exchange_raw` | expected violations, see Divergences | |

Why the bounds are enough: the longest rule window is six bytes (one of
context, `MaxLen` 4, one of context), so a six-character text holds a complete
window, a cut at every place inside it, a candidate that waits through two
feeds and one that ends with the text. Chunks of three leave at least two feeds
in such a text. The rule pack has two rules of one prefilter with different
lengths (the shorter waits for the longer), a capture group that starts after
the keyword, a keyword that folds case, a value its validator refuses, and
overlapping findings. In `Gateway` two handlers give every interleaving of two
records and two bodies; a third adds no new pair. Exempted and low-confidence
findings enter a verdict through `Evaluate` only; the theorems cover them, and
any number of handlers. Three keywords of three bytes give a keyword inside
another, one that is another's suffix, and a fail link that is followed twice.
The issuer prefixes have at most four digits; a letter, a digit and the place
where the IBAN is rotated all occur within five characters. Four outer characters
spell a nested escape with a neighbour on both sides; two spans lie apart, touch,
overlap or contain one another, and the theorems remove both bounds, as they do
for the texts of the validators and for streams, tokens and documents. Bodies
have no bound: a path through one may be as long as the visitors allow. Four
lines hold an event with type, two data lines and the blank line, or two events; a
stream framed with CR LF has no blank line and is one token of any length.
Five entries are a positive and a negative of both classes and one that
tips a ratio.

A stream, a handler, a loop or a program that is done stops, and texts and
corpora are bounded, so the runs do not check for deadlock; `EveryHandlerEnds`
says of the concurrent component that none waits for ever.

Each property of a passing run has a mutant in `PROJECT.json`: a changed form of
one definition, written next to it in the module, that breaks the property.

### Fairness

`Gateway!Fairness` asks weak fairness of the steps a handler takes on its own:
each handler is a goroutine, and the Go scheduler runs a goroutine that can run.
`FairSpec` adds that the upstream answers or fails and that a stream ends. The
code has no timeout that would enforce this; without it a handler waits for as
long as the upstream does, and its request has no record for that long.
`CrossingIsRecorded` and `EveryHandlerEnds` therefore hold provided the upstream
answers or fails, and speak of handlers that are not killed. Reading the request
and further stream tokens are not fair: a client may never finish its request, a
stream need not send more.

## Proofs

Every safety invariant of the passing runs and the action property
`NoLateFinding` are theorems, and so are the two refinements.

`StreamGateProofs` proves of `StreamScan`, for every alphabet, rule pack,
matcher, chunk size and text length:

* `ScanInvariant`: the scan state is a function of the text. `Waiting`,
  `WaitingLits`, `Undecided` and `Confirmed` define that function. The property
  to be proved (`StreamEqualsFind`) is not inductive because it says nothing
  before the end; the invariant says what each list holds at every moment.
* `StreamingIsFind` and `NeverTooEarly` follow from it, and `ScanTypeCorrect`.
* `FindingsAreHeld`: what `Find` would report on the text so far and is not
  confirmed yet begins in the held bytes, for every rule pack. (The IBAN
  divergence below is about bytes that `Find` would not report yet.)
* `NothingLate`: no step confirms a finding of any rule but an IBAN one in bytes
  that `holdLen` had let go (IBAN rules do, see Divergences).
* `HoldIsBounded`: from the first held position on, either a keyword is still being
  spelt or never more bytes are held than the `max_match_len` of a rule that is
  anchored there. It needs no assumption on the lengths of keywords, which the rule
  loader does not validate.

The lemmas state that what is decided on a prefix stays decided when text is
appended: where digit runs and IBAN heads start, what a keyword spells, the
window of a candidate once it is complete, and hence what `ScanRule` yields.
Assumptions: `RulesAssumption` (what `NewMatcher` accepts), `CharAssumption`, and
`MatchAssumption`, from which `ScanRuleFacts` has that a finding lies in the text.
Beyond that the proofs use of `Match` and `Valid` only that they are functions of
their arguments.

`GatewayProofs` proves of `Evaluate`, for every configuration that loads, that a
block comes from the first rule that names the class or from the default
(`BlockIsDeclared`) and that later rules change nothing (`LaterRulesAreIgnored`).

`StreamGateProofs` then proves the streaming handler for every rule pack, policy,
chunking and number of events, on top of `ScanInvariant`:

* `GateInvariant`: `GateInv` says that the client's frames and then the waiting
  events tile the text in order, that nothing has been recorded while the stream
  runs, that the mask spans are the confirmed findings to mask, and where things
  stand at the end. `OnlyFindingsAreRewritten`, `RecordsAreComplete` and
  `VerdictsAreOfTheText` follow; the last says that the cuts of the stream change
  the moment a finding is known, never the verdict.
* `MaskedIsNeverClear` and `BlockedIsNeverDelivered`, under `RulesOf("iban") =
  {}`. Neither is inductive: a finding that is confirmed now could lie in bytes
  that left long ago. `SafeInv` adds `LetGo`: no event the client has ends in
  held bytes. The held bytes never move back (`HoldAdvances`), a finding that is
  confirmed later begins in bytes held now (`NoLateFinding`), hence in no event
  that has left (`ReleasedIsClear`). With an IBAN rule the assumption is needed:
  `stream_gate_iban` is the counterexample without it.
* `StreamIsSafe`: `StreamGate` implements `SafeStream`. `SafeInv` is again the
  invariant that is needed, because a `masked` verdict must have a starred byte:
  a span that had been confirmed after all of its bytes were gone would give that
  verdict to a stream delivered clear.

`GatewayProofs` also proves the type invariant and all safety properties of
`Gateway` for every number of handlers, set of findings and configuration, with
a ledger that may fail and a process that may be killed. None of them is
inductive: each says something about records or bytes, and the next step depends
on where the handler stands. `GatewayInv` therefore says, for each place of
`ServeHTTP` (`Handler(r)`), what that handler has sent and appended, or lost, so
far, and of the ledger (`LedgerInv`) that its records are distinct, ordered, and
agree with the handler they name. Handlers share only the ledger, and a step of
one appends at most one record, of its own.

`GatewayKeepsEvidence`: `Gateway` implements `EvidenceLog`, with `GatewayInv` for
the same reason: whether a step of a handler is a `Settle`, a `Deliver` or a
`Release` of the abstract log, and whether the log lets it happen, depends on what
that handler has recorded and lost before.

`RequestMaskingProofs` proves the properties of `maskBody` for bodies and finding
lists of any size. `MaskInv` adds that the merged spans are apart and in order,
that no span still to come begins before the last merged one, and that `out` is
the masked prefix of the body; `SlicesInOrder` follows because the write loop
stands at the end of a merged span.

On top of that it proves all properties of the request path, for strings of any
length and characters of any width, nested once or not, and any number of
matches. `ParseInv` says what the parser's loop has written so far: decoded
bytes and their ranges run in step, every range is that of the character the
byte came from, and characters stand one after the other in the body. For a
nested text the same holds of the inner loop, whose ranges are indices into the
outer ones; the step that matters is that composing the two gives ranges that
still follow one another (`ComposeByteRanges`). `MaskInv` is entered where the
path starts to mask (`MaskEnter`): the spans that `scanRequestBody` hands over
are an input `maskBody` was proved for.

`CommandProofs` proves all properties of `Command`, for every configuration, rule
set, corpus and number of files. `CommandInv` has four parts: the stage fits the
command (`Routed`), the configuration of a server has been validated and a server
without rules has passed `RequiresRules` (`ServeInv`), `results` follows `walked`
(`ScanInv`), and the counts of every class are the cardinalities of the sets of
entries they stand for (`EvalInv`), which is what makes counting inductive.

`AutomatonProofs` proves that the automaton is right for any keywords, added in
any order, any order in which `build` meets children, and any text. The code
stores no words, so `AutomatonInv` says that there is a labelling of the nodes by
words such that

* the words are the beginnings of the keywords, each once (`Trie`, `Prefixes`);
* a node that `build` has linked falls back to the longest word that is a proper
  suffix of its own and reports every keyword that ends there; one that is not
  linked yet has no link and reports the keyword it spells (`Links`);
* `build` links level by level (`Breadth`), so the search for a link only meets
  nodes that are linked, and copies outputs that are complete;
* the state stands for the longest word that ends the text (`Phases`).

`Step` follows links by recursion. `TurnsExist` shows that its equation has a
solution by exhibiting one, and `StepIsLongest` that any solution returns the
longest word, by the least depth at which it would not. `Path` in `add` is
treated the same way (`PathIsFound`). `EveryKeywordIsReported` and
`DepthIsWhatMayGrow` follow, and from them `AutomatonIsThePrefilter`: for every
rule pack and text, what `StreamScan` says of the text is what its caller gets
from the automaton, so the theorems about streams hold of the code's automaton.

`LoopProofs` makes loops fit for proof. `Carried` is a recursive function;
`SolutionIsUnique` and `CarriedGrows` show that it is the only one of its kind and
that its value for a longer text is one turn away from its value for the text
before the last item. Induction is over sets rather than predicates: a set of
numbers with zero in it that is closed under adding one has every number
(`Counting`), which follows from the order of the numbers being well founded.

`ValidatorsProofs` proves of every text of any length:

* `LuhnCatchesEverySlip`: a slip changes the total by the difference of the
  summands it touches, and that is no multiple of ten unless two neighbours are
  0 and 9.
* `RemainderIsTheNumbers`: the carried remainder is that of the number which the
  text spells, since a letter is two decimal places.
* `IBANCatchesEverySlip`: a wrong character changes the remainder where it stands,
  and a difference of remainders is never carried to zero, because 10 and 100 have
  inverses modulo 97 (`DifferenceStays`). Neighbours that are exchanged lie side by
  side in the rotated text too, except the fourth and fifth character: those stand
  at its two ends, and their exchange goes unseen if the places between them make a
  power of ten that is 1 modulo 97. The least such power has 96 places, which is
  why the property speaks of texts up to `LongestIBAN`, the longest a country allows.
* `CardTablesAgree`: neither table looks past the fourth digit.

`ExchangeProofs` proves of every stream, token and path:

* `TokensAreFramesOfEveryStream`. That the tokens are the frames is not inductive,
  for it says nothing of the bytes that are not framed yet. `FrameInv` says that
  tokens, buffer and unread bytes regroup to what was sent, and that only the last
  token may lack its blank line. A cut at the first blank line leaves none inside
  the token (`CutInTwo`).
* `MaskedTokensReadBack`, for every document, whatever its names. `Split` and
  `JoinLines` are inverse to one another (`LinesJoined`, `JoinedSplitAgain`), so
  the masked event is read line by line as it was written. What is rewritten has
  the event and comment lines of the original and a single data line with the
  new document (`RewrittenReads`); it is still one frame, because a line is
  dropped only where another one stays (`BlanksAreKept`, `AFrameIsKept`); and if
  its names are spelt exactly, masking finds every carrier extraction read
  (`Exactly`, `NothingStarred`), and sharing the offsets out over them stars
  exactly those offsets of the text (`MaskedTextIsStarred`, `TextStarred`). For
  other documents frame, event, comment and reported fields stay as they were,
  and no more is claimed.
* `NothingScannedIsFlagged` and `NewFieldsAreReported`, from `WalkInv`: under a
  reported name nothing is walked or scanned, and a new name on the path has been
  reported. What each visitor has to satisfy for that is `Fits`: a name that is
  visited is in the list of known names, and an object that is visited flags the
  others. `VisitorsFit` shows it for every visitor of the three tables.

Assumptions of these modules are the named ones of the constants
(`CommandAssumption`: rules have a class and a confidence up to 100, thresholds
are percentages; `ValidatorsAssumption` and `SSEAssumption`: texts are made of
characters and documents of carriers; `JSONAssumption` and its like: bounds are
numbers). Where a model caps a length (`MaxText`, `MaxSpelled`, `MaxEntries`,
...) the theorems hold for every value of the cap.

Left to TLC: liveness (`CrossingIsRecorded`, `EveryHandlerEnds`), which needs
fairness, and the four runs that expect a violation.

## Divergences between documents and code

* An IBAN cut inside its first four characters waits in `deferredIBANStarts`,
  which `holdLen` does not count: its first characters are released and the
  later mask covers only the rest (`stream_gate_iban`). `NoLateFinding`
  therefore speaks of the other rules.
* ARCHITECTURE.md puts the request record before forwarding; `ServeHTTP` appends
  it after `RoundTrip` returned (`gateway_order`).
* ARCHITECTURE.md says that unscanned traffic is never forwarded silently. A
  tool-call delta on the chat path has no text at the carrier and no unknown name at
  the top level: it is neither scanned nor reported (`exchange_silent`).
* The comment on `applyMaskToEvent` says that an event which falls back to raw is
  flagged at extraction. An event with `Delta` or `Content` for a nested name is
  scanned, because struct decoding ignores case, and sent raw, because masking
  looks for the exact name; nothing is reported (`exchange_raw`).

Seen while modelling, without a run of their own:

* README.md promises a record for every crossing; a failed `Append` is logged and
  the exchange goes on (`gateway.go:318`). `DoneIsEvidenced` therefore counts a
  lost record as evidence attempted.
* An upstream error after the body was sent leaves an error record without the
  unscanned fields (`gateway.go:111`).
* A number in tool input is masked like a string, which leaves stars outside
  quotes (`adapter.go:152`); `\/` and surrogate pairs are valid JSON that
  `strconv.UnquoteChar` refuses, so such a body is refused (`adapter.go:1048`).
* The comment on `applyMaskToEvent` says that events with several choices fall back
  to raw; the code masks each choice (`MaskingReadsBack`).
* The usage text of `scan` promises exit code 2 for errors; a bad flag ends with 1
  through `log.Fatal`. An unreadable file discards what was found before it.
* More text passes a stream unscanned and unreported: delta events of the two typed
  streams report no names, a document of another shape gives nothing, a stream
  framed with CR LF is one token whose data lines do not decode together, and a path
  with a trailing slash is a known API for the request and an unknown one for the
  response.
* The comment of `perClassPrecisionThreshold` says that the strictest rule of a
  class wins (`main.go:320`); the code keeps the smaller threshold (`main.go:336`).
* A value of an unexpected type (an object where a string is expected) is neither
  scanned nor reported when its name is known; `NewFieldsAreVisible` speaks of
  names.
* `on_error` is read by `RequiresRules` only; at run time an error always closes.

## Not modelled

Headers, hashes, timestamps, wording of errors, YAML decoding, flag syntax, the
report renderer, the rule packs and the corpus as data, deployment files. The
regular-expression engine is a parameter. Of the validators, the IBAN length
table and the SSN ranges are data whose only specification is themselves, and
entropy is floating-point arithmetic. The rest of the JSON grammar is left to
`json.Valid`, which the adapter calls first. Routing (`selectUpstream`) is a
lookup without state: the model has its two outcomes. `policy/errors.go` builds
the text of an error body, which is one frame or one 403 here.

## Plan

Open: `StreamGate` with `SSE` in place of the abstract token, over one rule.
