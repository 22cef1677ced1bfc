------------------------------ MODULE Exchange ------------------------------
(***************************************************************************)
(* The two readers of provider JSON over one exchange: the adapter reads   *)
(* the request (Extraction), then the streaming handler reads the response *)
(* on the same path (SSE).                                                 *)
(***************************************************************************)
EXTENDS Extraction, SSE

exchangeVars == <<path, walkVars, sseVars>>

ExchangeInit ==
  /\ WalkInit
  /\ wire = <<>> /\ sent = <<>> /\ buf = <<>> /\ tokens = <<>> /\ over = FALSE

\* handleStreamingResponse chooses the stream's format by the path's suffix.
StreamFormat(p) == IF p.slash THEN "other" ELSE p.api

\* Lines end in LF or, all of them, in CR LF; any line may be blank.
Wire(contents, eol) == FlattenSeq([k \in DOMAIN contents |-> contents[k] \o eol])

Contents(max) == UNION {[1..n -> {<<>>} \cup {<<l>> : l \in LineContents}] : n \in 1..max}
Streams ==
  {Wire(c, <<NL>>) : c \in Contents(MaxLines)}
    \cup {Wire(c, <<CR, NL>>) : c \in Contents(MaxLinesCR)}

RequestStep == fate \in {"unread", "walking"} /\ WalkNext /\ UNCHANGED sseVars

\* The upstream answers with an event stream; the request's walk is forgotten.
Respond ==
  /\ fate \notin {"unread", "walking", "refused", "answered"}
  /\ fate' = "answered" /\ visitor' = "text" /\ flagged' = FALSE /\ new' = {}
  /\ \E s \in Streams : wire' = s /\ sent' = s
  /\ UNCHANGED <<path, buf, tokens, over>>

ResponseStep ==
  /\ fate = "answered"
  /\ Read \/ NextToken \/ LastToken \/ StopReading
  /\ UNCHANGED <<path, walkVars>>

ExchangeNext == RequestStep \/ Respond \/ ResponseStep

ExchangeSpec == ExchangeInit /\ [][ExchangeNext]_exchangeVars

-----------------------------------------------------------------------------
\* MaskedTokenReadsMasked, for the format the handler has chosen.
MaskingReadsBack == MaskedTokenReadsMasked(StreamFormat(path))

\* RawTokenIsFlagged, for the format the handler has chosen.
RawIsFlagged == RawTokenIsFlagged(StreamFormat(path))

\* ARCHITECTURE.md:20, "Unscanned traffic is never forwarded silently": on a path
\* of a supported API, an event whose delta holds text outside the carriers, such
\* as the arguments of a tool call, reports a field.
StreamTextIsScannedOrFlagged ==
  tokens # <<>> /\ StreamFormat(path) # "other" =>
    LET p == parseSSEToken(Last(tokens)).data
    IN  Decodes(p) /\ p[1].doc.typed /\ p[1].doc.other =>
          Extracted(StreamFormat(path), Last(tokens)).fields # {}
=============================================================================
