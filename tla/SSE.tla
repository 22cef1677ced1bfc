-------------------------------- MODULE SSE --------------------------------
(***************************************************************************)
(* Server-sent events (gate/stream.go): readSSEChunks cuts the upstream's  *)
(* bytes into tokens, parseSSEToken and extractStreamDelta take the text   *)
(* of a token, applyMaskToEvent rewrites it.  What the streaming handler   *)
(* does between the last two is StreamGate.                                *)
(*                                                                         *)
(* Bytes are the contents of lines, newlines and carriage returns.  The    *)
(* data of an event is one JSON document, on one line or on two: what      *)
(* counts of it is whether it fits the type it is unmarshalled into, the   *)
(* strings at the carriers (choices[].delta.content, delta.text or delta), *)
(* which of them have all names on the way to them spelt exactly, whether  *)
(* the type of the delta is text_delta, whether text stands elsewhere in   *)
(* a delta, and whether an unknown name stands at the top.  A byte of a    *)
(* carrier is a number, 0 is a star.  A document of one carrier is one of  *)
(* the provider of the path; several carriers are the choices of a chat.   *)
(*                                                                         *)
(* Two readers look for the carriers.  Extraction unmarshals into a Go     *)
(* struct and takes a name in any case; masking looks names up in a map    *)
(* and needs the exact one.  A name that is given twice, in two spellings, *)
(* is left out.                                                            *)
(***************************************************************************)
EXTENDS Naturals, Sequences, FiniteSets, SequencesExt, Loops

CONSTANTS
  Docs,      \* JSON documents a provider sends on one line
  SplitDocs, \* JSON documents a provider sends on two lines
  MaxLines,  \* bound: lines of a stream that end in LF
  MaxLinesCR \* bound: lines of a stream that end in CR LF

Document == [typed : BOOLEAN, carriers : Seq(Seq(Nat)), exact : SUBSET (Nat \ {0}),
             textDelta : BOOLEAN, other : BOOLEAN, extra : BOOLEAN]

ASSUME SSEAssumption ==
  Docs \cup SplitDocs \subseteq Document /\ MaxLines \in Nat /\ MaxLinesCR \in Nat

Whole(d) == [field |-> "data", part |-> "whole", doc |-> d]
Head1(d) == [field |-> "data", part |-> "head", doc |-> d]
Tail2(d) == [field |-> "data", part |-> "tail", doc |-> d]
Event(type) == [field |-> "event", type |-> type]
Comment == [field |-> "comment"]
Ignored == [field |-> "ignored"]
NL == [field |-> "nl"]
CR == [field |-> "cr"]

\* Line contents: an event line, data in one or two parts, a comment with text,
\* and a line the parser has no case for (an id, an event name without a space
\* before it).
LineContents ==
  {Event("delta"), Event("other"), Comment, Ignored}
    \cup {Whole(d) : d \in Docs} \cup UNION {{Head1(d), Tail2(d)} : d \in SplitDocs}

\* What a line is made of, whatever document it spells; and all bytes.
LineByte ==
  [field : {"data"}, part : {"whole", "head", "tail"}, doc : Document]
    \cup [field : {"event"}, type : {"delta", "other"}] \cup {Comment, Ignored, CR}
Line == Seq(LineByte)
Byte == LineByte \cup {NL}

VARIABLES
  wire,    \* bytes sent by the upstream, not read yet
  sent,    \* all bytes it sends (history)
  buf,     \* bytes read, not framed yet
  tokens,  \* tokens returned so far
  over     \* the token loop has ended

sseVars == <<wire, sent, buf, tokens, over>>

-----------------------------------------------------------------------------
\* bytes.Index(b, "\n\n"): whether b holds a blank line, and where the first ends.
BlankAt(b, i) == i > 1 /\ b[i] = NL /\ b[i - 1] = NL
HasFrame(b) == \E i \in DOMAIN b : BlankAt(b, i)
FrameEnd(b) == CHOOSE i \in DOMAIN b : BlankAt(b, i) /\ \A j \in 1..(i - 1) : ~BlankAt(b, j)

\* One Read of the upstream's body, of any length.
Read ==
  /\ ~over /\ ~HasFrame(buf)
  /\ \E n \in 1..Len(wire) :
       /\ buf' = buf \o SubSeq(wire, 1, n)
       /\ wire' = SubSeq(wire, n + 1, Len(wire))
  /\ UNCHANGED <<sent, tokens, over>>

\* Mutant: the second newline of the blank line is left to the next token.
NextTokenShort ==
  /\ ~over /\ HasFrame(buf)
  /\ tokens' = Append(tokens, SubSeq(buf, 1, FrameEnd(buf) - 1))
  /\ buf' = SubSeq(buf, FrameEnd(buf), Len(buf))
  /\ UNCHANGED <<wire, sent, over>>

NextToken ==
  /\ ~over /\ HasFrame(buf)
  /\ tokens' = Append(tokens, SubSeq(buf, 1, FrameEnd(buf)))
  /\ buf' = SubSeq(buf, FrameEnd(buf) + 1, Len(buf))
  /\ UNCHANGED <<wire, sent, over>>

\* End of file: what is left is the last token.
LastToken ==
  /\ ~over /\ ~HasFrame(buf) /\ wire = <<>> /\ buf # <<>>
  /\ tokens' = Append(tokens, buf)
  /\ buf' = <<>>
  /\ UNCHANGED <<wire, sent, over>>

\* Nothing is left, or the read fails: unframed bytes are dropped.
StopReading ==
  /\ ~over /\ ~HasFrame(buf)
  /\ over' = TRUE
  /\ UNCHANGED <<wire, sent, buf, tokens>>

-----------------------------------------------------------------------------
\* bytes.Split(token, "\n"), line by line: those that have ended and the open one.
Split(t) ==
  Carried([s \in [ended : Seq(Line), open : Line] |-> [c \in Byte |->
             IF c = NL THEN [ended |-> Append(s.ended, s.open), open |-> <<>>]
                       ELSE [ended |-> s.ended, open |-> Append(s.open, c)]]],
          [ended |-> <<>>, open |-> <<>>], t)
Lines(t) == Append(Split(t).ended, Split(t).open)

\* bytes.Join(lines, "\n").
JoinLines(ls) == Tail(FlattenSeq([k \in DOMAIN ls |-> <<NL>> \o ls[k]]))

\* The trimmed content of a line is of this field.
Is(line, field) == line # <<>> /\ line[1].field = field

\* The last event line counts, data lines are joined.
Fields == [event : {"none", "delta", "other"}, data : Seq(LineByte), hasComment : BOOLEAN]

parseSSEToken(t) ==
  Carried([token \in Fields |-> [l \in Line |->
             [event |-> IF Is(l, "event") THEN l[1].type ELSE token.event,
              data |-> IF Is(l, "data") THEN Append(token.data, l[1]) ELSE token.data,
              hasComment |-> token.hasComment \/ Is(l, "comment")]]],
          [event |-> "none", data |-> <<>>, hasComment |-> FALSE], Lines(t))

\* json.Unmarshal: the payload is one document, on one line or on two.
Decodes(p) ==
  \/ Len(p) = 1 /\ p[1].part = "whole"
  \/ Len(p) = 2 /\ p[1].part = "head" /\ p[2].part = "tail" /\ p[1].doc = p[2].doc
ExtraFields(d) == IF d.extra THEN {"$.x_new"} ELSE {}

\* The text the typed extraction of a format reads: all choices of a chat, else
\* the one delta, which must be a text_delta on the messages path.
TextOf(format, d) ==
  IF \/ ~d.typed
     \/ format # "chat" /\ Len(d.carriers) # 1
     \/ format = "messages" /\ ~d.textDelta
  THEN <<>> ELSE FlattenSeq(d.carriers)

\* extractStreamDelta; format is the path's suffix.  A delta event of the two
\* typed streams reports no names, a chat event only when it fits its type.
StreamDelta(format, event, p) ==
  IF format = "other" \/ ~Decodes(p) THEN [text |-> <<>>, fields |-> {}]
  ELSE LET d == p[1].doc
           isDelta == format = "chat" \/ event = "delta"
       IN  [text |-> IF isDelta THEN TextOf(format, d) ELSE <<>>,
            fields |-> IF isDelta /\ ~(format = "chat" /\ d.typed) THEN {} ELSE ExtraFields(d)]

\* What the handler takes from a token: the delta, and a comment's flag.
Extracted(format, t) ==
  LET token == parseSSEToken(t)
      delta == StreamDelta(format, token.event, token.data)
  IN  IF token.hasComment THEN [delta EXCEPT !.fields = @ \cup {"sse:comment"}] ELSE delta

-----------------------------------------------------------------------------
Before(strings, k) == Len(FlattenSeq(SubSeq(strings, 1, k - 1)))

\* Mutant: offsets of a later choice are not moved.
MaskStringsUnmoved(strings, stars) ==
  [k \in DOMAIN strings |-> [i \in DOMAIN strings[k] |->
     IF i \in stars THEN 0 ELSE strings[k][i]]]

\* maskStringOffsets: starred offsets of a concatenation are shared out over the
\* strings by their lengths.
MaskStrings(strings, stars) ==
  [k \in DOMAIN strings |-> [i \in DOMAIN strings[k] |->
     IF Before(strings, k) + i \in stars THEN 0 ELSE strings[k][i]]]

\* What maskOpenAIChat, maskAnthropic and maskOpenAIResponses find of the
\* carriers: a name in another case hides one, which then takes no room.
Found(d) == [k \in DOMAIN d.carriers |-> IF k \in d.exact THEN d.carriers[k] ELSE <<>>]

MaskCarriers(d, stars) ==
  [k \in DOMAIN d.carriers |->
     IF k \in d.exact THEN MaskStrings(Found(d), stars)[k] ELSE d.carriers[k]]

\* They return true: a starred offset falls on a carrier that was found.
Applied(d, stars) == \E o \in stars : o \in DOMAIN FlattenSeq(Found(d))

\* Lines of a token with its first data line replaced and the others dropped.
HasData(ls) == \E k \in DOMAIN ls : Is(ls[k], "data")

RewriteLinesKeeping(ls, doc) ==
  Carried([out \in Seq(Line) |-> [l \in Line |->
             IF Is(l, "data") /\ ~HasData(out) THEN Append(out, <<Whole(doc)>>)
             ELSE Append(out, l)]],
          <<>>, ls)

RewriteLines(ls, doc) ==
  Carried([out \in Seq(Line) |-> [l \in Line |->
             IF ~Is(l, "data") THEN Append(out, l)
             ELSE IF HasData(out) THEN out ELSE Append(out, <<Whole(doc)>>)]],
          <<>>, ls)

\* applyMaskToEvent: the token is sent raw when nothing of it is to be starred,
\* when it has no document, or when masking did not apply to its document.
ApplyMask(t, stars) ==
  LET p == parseSSEToken(t).data
      d == p[1].doc
  IN  IF stars = {} \/ ~Decodes(p) \/ ~Applied(d, stars) THEN t
      ELSE JoinLines(RewriteLines(Lines(t), [d EXCEPT !.carriers = MaskCarriers(d, stars)]))

-----------------------------------------------------------------------------
\* However the reads cut the stream, tokens are its frames: put together with
\* what is left they are what the upstream sent, a token holds no blank line but
\* at its end, and only the last one may lack it.
TokensAreTheFrames ==
  /\ FlattenSeq(tokens) \o buf \o wire = sent
  /\ \A k \in DOMAIN tokens :
       LET t == tokens[k]
       IN  /\ \A i \in 1..(Len(t) - 1) : ~BlankAt(t, i)
           /\ BlankAt(t, Len(t)) \/ (k = Len(tokens) /\ wire = <<>> /\ buf = <<>>)

\* The names of a token's document are spelt as masking looks them up.
SpeltExactly(t) ==
  LET p == parseSSEToken(t).data
  IN  Decodes(p) => DOMAIN p[1].doc.carriers \subseteq p[1].doc.exact

\* The handler reads its own output: a token rewritten for any set of starred
\* offsets is still one token with the event, comment and reported fields it had,
\* and, if its names are spelt exactly, its text is the text extracted before with
\* exactly those offsets starred.
MaskedTokenReadsMasked(format) ==
  tokens # <<>> =>
    LET t == Last(tokens)
        text == Extracted(format, t).text
    IN  \A stars \in SUBSET DOMAIN text :
          LET m == ApplyMask(t, stars)
          IN  /\ Extracted(format, m).fields = Extracted(format, t).fields
              /\ parseSSEToken(m).event = parseSSEToken(t).event
              /\ SpeltExactly(t) =>
                   Extracted(format, m).text =
                     [i \in DOMAIN text |-> IF i \in stars THEN 0 ELSE text[i]]
              /\ \A i \in DOMAIN m : BlankAt(m, i) => i = Len(m) /\ BlankAt(t, Len(t))
              /\ BlankAt(t, Len(t)) => BlankAt(m, Len(m))

\* stream.go:346: an event whose carriers are not found is sent raw, "flagged via
\* unscanned_fields on the carrier at extraction time rather than silently".
RawTokenIsFlagged(format) ==
  tokens # <<>> =>
    LET e == Extracted(format, Last(tokens))
    IN  \A stars \in SUBSET DOMAIN e.text \ {{}} :
          ApplyMask(Last(tokens), stars) = Last(tokens) => e.fields # {}
=============================================================================
