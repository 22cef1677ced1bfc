------------------------------ MODULE Masking ------------------------------
(***************************************************************************)
(* maskBody (gate/gateway.go): the findings to mask become byte spans,     *)
(* are sorted by start, merged, and starred out of the body.  Findings     *)
(* overlap freely: two rules can match the same bytes, one value can lie   *)
(* inside another, and two can touch.                                      *)
(*                                                                         *)
(* A span [start, end] is half-open and 0-based, as in the code.  A byte   *)
(* of the body is its 1-based position, and 0 stands for a star.           *)
(***************************************************************************)
EXTENDS Naturals, Sequences

CONSTANTS
  MaxBody,   \* bound: length of the body
  MaxSpans   \* bound: number of findings to mask

ASSUME MaskingAssumption == MaxBody \in Nat /\ MaxSpans \in Nat

VARIABLES
  size,     \* length of the body
  spans,    \* spans in the order sort.Slice left them
  taken,    \* merge loop: how many spans are in merged
  merged,   \* the merged spans
  written,  \* write loop: how many merged spans are in out
  pos,      \* write loop: offset of the first body byte not written yet
  out,      \* the bytes written
  done      \* maskBody has returned

vars == <<size, spans, taken, merged, written, pos, out, done>>

Span == [start : 0..MaxBody, end : 0..MaxBody]

\* A finding is not empty and lies in the body: scanRule and scanRequestBody
\* drop any other.
InBody(s, n) == s.start < s.end /\ s.end <= n

\* Equal starts can come in any order: sort.Slice is not stable.
SortedByStart(ss) ==
  \A i, j \in DOMAIN ss : i < j => ss[i].start <= ss[j].start

Init ==
  /\ size \in 1..MaxBody
  /\ spans \in UNION {[1..n -> {s \in Span : InBody(s, size)}] : n \in 1..MaxSpans}
  /\ SortedByStart(spans)
  /\ taken = 1
  /\ merged = <<spans[1]>>
  /\ written = 0 /\ pos = 0 /\ out = <<>> /\ done = FALSE

\* Mutants: a span inside the last one shrinks it; only such spans are merged.
TakeShrinking ==
  LET s == spans[taken + 1]
      last == Len(merged)
  IN  /\ taken < Len(spans)
      /\ taken' = taken + 1
      /\ merged' = IF s.start <= merged[last].end
                   THEN [merged EXCEPT ![last].end = s.end]
                   ELSE Append(merged, s)
      /\ UNCHANGED <<size, spans, written, pos, out, done>>

TakeContained ==
  LET s == spans[taken + 1]
      last == Len(merged)
  IN  /\ taken < Len(spans)
      /\ taken' = taken + 1
      /\ merged' = IF s.end <= merged[last].end THEN merged ELSE Append(merged, s)
      /\ UNCHANGED <<size, spans, written, pos, out, done>>

\* One turn of the merge loop: a span that overlaps or touches the last one
\* extends it.
Take ==
  LET s == spans[taken + 1]
      last == Len(merged)
  IN  /\ taken < Len(spans)
      /\ taken' = taken + 1
      /\ merged' = IF s.start > merged[last].end THEN Append(merged, s)
                   ELSE IF s.end > merged[last].end
                   THEN [merged EXCEPT ![last].end = s.end]
                   ELSE merged
      /\ UNCHANGED <<size, spans, written, pos, out, done>>

\* body[from:to] and a run of stars.
Bytes(from, to) == [i \in 1..(to - from) |-> from + i]
Stars(n) == [i \in 1..n |-> 0]

\* One turn of the write loop: the bytes up to the span, then its stars.
Star ==
  LET s == merged[written + 1]
  IN  /\ taken = Len(spans) /\ written < Len(merged)
      /\ out' = out \o Bytes(pos, s.start) \o Stars(s.end - s.start)
      /\ pos' = s.end
      /\ written' = written + 1
      /\ UNCHANGED <<size, spans, taken, merged, done>>

\* The rest of the body.
Finish ==
  /\ taken = Len(spans) /\ written = Len(merged) /\ ~done
  /\ out' = out \o Bytes(pos, size)
  /\ done' = TRUE
  /\ UNCHANGED <<size, spans, taken, merged, written, pos>>

Next == Take \/ Star \/ Finish

Spec == Init /\ [][Next]_vars

-----------------------------------------------------------------------------
\* Byte p of the body belongs to one of the first n spans of ss.
Covered(ss, n, p) == \E i \in 1..n : ss[i].start < p /\ p <= ss[i].end

\* A masked body has the length of the original, stars wherever a finding to
\* mask covers it and nowhere else, and the other bytes in their places.
MasksExactly ==
  done => /\ Len(out) = size
          /\ \A p \in 1..size : out[p] = IF Covered(spans, Len(spans), p) THEN 0 ELSE p

\* The slice body[pos:s.start] of the write loop never has its bounds crossed,
\* which would panic in the handler.
SlicesInOrder ==
  /\ taken = Len(spans) /\ written < Len(merged) => pos <= merged[written + 1].start
  /\ pos <= size

\* Merging loses and adds no byte: at every turn the merged spans cover what
\* the spans taken so far cover.
MergeKeepsCover ==
  \A p \in 1..size : Covered(merged, Len(merged), p) <=> Covered(spans, taken, p)
=============================================================================
