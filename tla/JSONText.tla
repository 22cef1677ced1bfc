------------------------------ MODULE JSONText ------------------------------
(***************************************************************************)
(* The text of a JSON string and where it stands in the body (adapter).    *)
(* parseString decodes a string character by character and notes, for      *)
(* every decoded byte, the bytes of the body it came from.  Tool arguments *)
(* are JSON inside a JSON string: the decoded text is parsed again, and    *)
(* the ranges of the nested text are composed with those of the outer one. *)
(*                                                                         *)
(* A character is what parseString can tell of it: the bytes it takes      *)
(* (raw), the bytes it decodes to (text), and whether it is an escape.  An *)
(* invalid UTF-8 byte is no escape but decodes to three bytes.             *)
(* Offsets are 0-based and ranges half-open, as in the code.               *)
(***************************************************************************)
EXTENDS Naturals, Sequences

CONSTANTS
  Chars,     \* the kinds of characters
  MaxChars   \* bound: characters of the outer string

ASSUME JSONAssumption ==
  /\ Chars \subseteq [raw : Nat \ {0}, text : Nat \ {0}, escape : BOOLEAN]
  /\ MaxChars \in Nat

VARIABLES
  stage,    \* "outer", "nested", then "parsed": which text is being decoded
  rawPos,   \* outer parser: position in the body
  text,     \* decoded bytes of the outer string, each as the index of its character
  single,   \* the outer characters that decode to one byte
  escaped,  \* the outer characters that are escapes
  starts,   \* for each outer character, where it begins in the body
  ranges,   \* byteRanges of the outer string
  at,       \* nested parser: position in the outer text
  open,     \* where the nested content begins in the outer text
  leaf,     \* decoded bytes of the nested string, each as the outer characters
            \* [from, to] that spell its character
  leafRanges \* byteRanges of the nested string, as offsets of the outer text

outerVars == <<rawPos, text, single, escaped, starts, ranges>>
leafVars == <<at, open, leaf, leafRanges>>
parseVars == <<stage, outerVars, leafVars>>

\* The body begins with the quote that opens the outer string.
ParseInit ==
  /\ stage = "outer" /\ rawPos = 1 /\ text = <<>> /\ single = {} /\ escaped = {}
  /\ starts = <<>> /\ ranges = <<>>
  /\ at = 0 /\ open = 0 /\ leaf = <<>> /\ leafRanges = <<>>

Repeat(x, n) == [i \in 1..n |-> x]

\* Mutant: one range per decoded byte, whatever the character takes.
CharRangesVerbatim(p, c) == [i \in 1..c.text |-> [start |-> p + i - 1, end |-> p + i]]

\* The ranges of a character that begins at p: a verbatim character has one
\* byte behind each decoded byte, any other stands as a whole behind each.
CharRanges(p, c) ==
  IF ~c.escape /\ c.raw = c.text
  THEN [i \in 1..c.text |-> [start |-> p + i - 1, end |-> p + i]]
  ELSE Repeat([start |-> p, end |-> p + c.raw], c.text)

\* One turn of parseString's loop over the body.
ParseChar(c) ==
  LET k == Len(starts) + 1
  IN  /\ stage = "outer" /\ k <= MaxChars
      /\ starts' = Append(starts, rawPos)
      /\ rawPos' = rawPos + c.raw
      /\ text' = text \o Repeat(k, c.text)
      /\ ranges' = ranges \o CharRanges(rawPos, c)
      /\ single' = IF c.text = 1 THEN single \cup {k} ELSE single
      /\ escaped' = IF c.escape THEN escaped \cup {k} ELSE escaped
      /\ UNCHANGED <<stage, leafVars>>

\* The outer string ends and is not parsed again.
NoNested ==
  /\ stage = "outer" /\ text # <<>>
  /\ stage' = "parsed"
  /\ UNCHANGED <<outerVars, leafVars>>

\* Offset p of a decoded text lies between two characters.
Boundary(t, p) == (p > 0 /\ p < Len(t)) => t[p] # t[p + 1]

\* addJSONString: the outer text is JSON.  A string or number in it begins
\* between two characters.
OpenNested ==
  /\ stage = "outer"
  /\ \E p \in 0..(Len(text) - 1) : Boundary(text, p) /\ at' = p /\ open' = p
  /\ stage' = "nested"
  /\ UNCHANGED <<outerVars, leaf, leafRanges>>

\* How the nested text spells a character at offset p: an escape with single
\* bytes, the first a backslash, which the outer string has to escape; any
\* other character with one outer character of the same bytes.
Spelled(p, c) ==
  /\ p + c.raw <= Len(text)
  /\ IF c.escape
     THEN text[p + 1] \in escaped /\ \A i \in 1..c.raw : text[p + i] \in single
     ELSE /\ c.raw = c.text
          /\ text[p + c.raw] = text[p + 1] /\ Boundary(text, p + c.raw)

\* One turn of parseString's loop over the outer text.
ParseNested(c) ==
  /\ stage = "nested" /\ Spelled(at, c)
  /\ at' = at + c.raw
  /\ leaf' = leaf \o Repeat([from |-> text[at + 1], to |-> text[at + c.raw]], c.text)
  /\ leafRanges' = leafRanges \o CharRanges(at, c)
  /\ UNCHANGED <<stage, outerVars, open>>

\* The nested string ends; an empty one is not scanned.
CloseNested ==
  /\ stage = "nested" /\ leaf # <<>>
  /\ stage' = "parsed"
  /\ UNCHANGED <<outerVars, leafVars>>

ParseNext ==
  \/ \E c \in Chars : ParseChar(c) \/ ParseNested(c)
  \/ NoNested \/ OpenNested \/ CloseNested

ParseSpec == ParseInit /\ [][ParseNext]_parseVars

-----------------------------------------------------------------------------
\* Mutant: the end of an inner range is taken as an index of the outer ranges.
ComposeByteRangesPast(outer, rs) ==
  [i \in DOMAIN rs |-> [start |-> outer[rs[i].start + 1].start,
                        end |-> outer[IF rs[i].end < Len(outer) THEN rs[i].end + 1
                                      ELSE rs[i].end].end]]

\* Ranges of the nested text in the body; none when a range leaves the outer text.
ComposeByteRanges(outer, rs) ==
  IF \E i \in DOMAIN rs : rs[i].end <= rs[i].start \/ rs[i].end > Len(outer)
  THEN <<>>
  ELSE [i \in DOMAIN rs |-> [start |-> outer[rs[i].start + 1].start,
                             end |-> outer[rs[i].end].end]]

\* An offset of the outer text as an offset of the body (outer is not empty).
ComposeByteBoundary(outer, offset) ==
  IF offset = Len(outer) THEN outer[Len(outer)].end ELSE outer[offset + 1].start

\* A text unit: its bytes, each as the outer characters that spell it, the
\* ranges of its bytes and the span of its content in the body.
OuterUnit ==
  [from |-> text, to |-> text, ranges |-> ranges, start |-> 1, end |-> rawPos]

NestedUnit ==
  [from |-> [i \in DOMAIN leaf |-> leaf[i].from], to |-> [i \in DOMAIN leaf |-> leaf[i].to],
   ranges |-> ComposeByteRanges(ranges, leafRanges),
   start |-> ComposeByteBoundary(ranges, open), end |-> ComposeByteBoundary(ranges, at)]

\* addJSONString gives both: the string, and the leaves of its JSON.
Units == IF leaf = <<>> THEN {OuterUnit} ELSE {OuterUnit, NestedUnit}

\* Mutant: the range of the last byte is cut to its beginning.
RawSpanOpen(u, lo, hi) == [start |-> u.ranges[lo + 1].start, end |-> u.ranges[hi].start + 1]

\* The span of text bytes lo..hi (0-based, half-open) in the body; the whole
\* content when the unit has no range for every byte.
RawSpan(u, lo, hi) ==
  IF Len(u.ranges) # Len(u.from) THEN [start |-> u.start, end |-> u.end]
  ELSE [start |-> u.ranges[lo + 1].start, end |-> u.ranges[hi].end]

\* The matches Find can report in a unit: whole characters.  The regexp matches
\* runes, but in a window of bytes (engine.go:541-551) whose ends may cut one: that
\* a match ends on a character is assumed, and holds for packs that match ASCII.
Matches(u) ==
  {m \in [lo : 0..Len(u.from), hi : 1..Len(u.from)] :
     m.lo < m.hi /\ Boundary(u.from, m.lo) /\ Boundary(u.from, m.hi)}

\* The bytes of the body that outer character k is written with.
RawEnd(k) == IF k = Len(starts) THEN rawPos ELSE starts[k + 1]

-----------------------------------------------------------------------------
\* A match in a text covers in the body exactly the characters that spell it,
\* from the first byte of the first to the last byte of the last, through both
\* decodings: no half of an escape is left over, no neighbour is touched.
SpansAreWholeCharacters ==
  stage = "parsed" =>
    \A u \in Units : \A m \in Matches(u) :
      RawSpan(u, m.lo, m.hi) = [start |-> starts[u.from[m.lo + 1]],
                                end |-> RawEnd(u.to[m.hi])]
=============================================================================
