----------------------------- MODULE MCExchange -----------------------------
(***************************************************************************)
(* Every path through a request body, and short event streams of documents *)
(* with two carriers of two bytes and one, with one carrier, with a name   *)
(* in another case before the first of two carriers, and with text         *)
(* elsewhere.                                                              *)
(***************************************************************************)
EXTENDS Exchange

OneDelta ==
  [typed |-> TRUE, carriers |-> <<<<4>>>>, exact |-> {1}, textDelta |-> TRUE,
   other |-> FALSE, extra |-> TRUE]
TwoChoices ==
  [OneDelta EXCEPT !.carriers = <<<<1, 2>>, <<3>>>>, !.exact = {1, 2}, !.extra = FALSE]
OtherCase == [TwoChoices EXCEPT !.exact = {2}]
HiddenDelta == [OneDelta EXCEPT !.exact = {}, !.extra = FALSE]
ToolCall ==
  [OneDelta EXCEPT !.carriers = <<>>, !.textDelta = FALSE, !.other = TRUE, !.extra = FALSE]

MCDocs == {OneDelta, TwoChoices, OtherCase}
MCSplitDocs == {OneDelta, TwoChoices}
MCDocsRaw == {OneDelta, HiddenDelta}
MCDocsSilent == {OneDelta, ToolCall}

MCPaths == [api : {"chat", "responses", "messages"}, slash : {FALSE}]
             \cup {[api |-> "chat", slash |-> TRUE], [api |-> "other", slash |-> FALSE]}
MCChatPath == {[api |-> "chat", slash |-> FALSE]}
=============================================================================
