----------------------------- MODULE Extraction -----------------------------
(***************************************************************************)
(* What Extract (adapter/adapter.go) does with a request body.  Each       *)
(* extract function visits one kind of JSON value: it scans strings (or    *)
(* numbers), goes on to the items of an array and to the members it knows, *)
(* and reports the names it does not know as unscanned.                    *)
(*                                                                         *)
(* A behaviour walks one path from the root of a body to a leaf: which     *)
(* value stands at the next step is the body's choice, what happens to it  *)
(* is the function's.  The units of a body are the leaves that some path   *)
(* scans; a leaf has one path and one place, so that seenUnits never drops *)
(* one.                                                                    *)
(***************************************************************************)
EXTENDS FiniteSets, Sequences

CONSTANT Paths  \* request paths: [api, slash]

ASSUME PathsAssumption ==
  Paths \subseteq [api : {"chat", "responses", "messages", "other"}, slash : BOOLEAN]

VARIABLES
  path,     \* path of the request
  visitor,  \* the function that visits the current value
  fate,     \* "walking", or what became of the value
  flagged,  \* the value lies under a name reported as unscanned
  new       \* where the path went through a name no table lists: visitors

walkVars == <<visitor, fate, flagged, new>>

\* DetectFormat: the suffix decides, after a trailing slash is trimmed.
DetectFormat(p) == p.api

-----------------------------------------------------------------------------
\* Members of these names are visited by next.
To(names, next) == [names |-> names, next |-> next]

Members(rules) ==
  [n \in UNION {r.names : r \in rules} |-> {r.next : r \in {q \in rules : n \in q.names}}]

\* A visitor: does it scan a string, a number; who visits array items; who
\* visits the members, by name or all of them; and the table of names that
\* flagUnknownMembers lets pass, if the function calls it.
Visits(string, number, item, rules, others) ==
  [string |-> string, number |-> number, item |-> item, members |-> Members(rules),
   others |-> others, fields |-> {}, flags |-> FALSE]

\* Mutant: only names of the table are reported.
ObjectUnflagged(rules, fields) == Visits(FALSE, FALSE, "none", rules, "none")

Object(rules, fields) ==
  [Visits(FALSE, FALSE, "none", rules, "none") EXCEPT !.fields = fields, !.flags = TRUE]

Array(item) == Visits(FALSE, FALSE, item, {}, "none")
OrString(v) == [v EXCEPT !.string = TRUE]
OrItems(v, item) == [v EXCEPT !.item = item]

\* addString, addStringLeaves, addScalarLeaves, addJSONString and
\* addComposedScalarLeaves; extractToolOutput.
Leaves ==
  [ text        |-> Visits(TRUE, FALSE, "none", {}, "none"),
    strings     |-> Visits(TRUE, FALSE, "strings", {}, "strings"),
    scalars     |-> Visits(TRUE, TRUE, "scalars", {}, "scalars"),
    json        |-> Visits(TRUE, FALSE, "none", {}, "none"),
    nested      |-> Visits(TRUE, TRUE, "nested", {}, "nested"),
    tool_output |-> Visits(TRUE, TRUE, "scalars", {}, "scalars") ]

ChatFields ==
  {"audio", "frequency_penalty", "function_call", "functions", "logit_bias", "logprobs",
   "max_completion_tokens", "max_tokens", "metadata", "modalities", "model", "n",
   "parallel_tool_calls", "prediction", "presence_penalty", "reasoning_effort",
   "response_format", "seed", "service_tier", "stop", "store", "stream", "stream_options",
   "temperature", "tool_choice", "tools", "top_logprobs", "top_p", "user", "verbosity",
   "web_search_options", "messages"}
MessageFields ==
  {"annotations", "audio", "content", "function_call", "id", "name", "refusal", "role",
   "tool_call_id", "tool_calls"}
\* Mutant: a member that is scanned is missing from the table.
PartFieldsShort ==
  {"annotations", "detail", "image_file", "image_url", "input_audio", "input_file",
   "input_image", "input_text", "output_text", "source", "text", "type"}
PartFields ==
  {"annotations", "detail", "image_file", "image_url", "input_audio", "input_file",
   "input_image", "input_text", "output_text", "refusal", "source", "text", "type"}
ResponsesFields ==
  {"background", "include", "input", "instructions", "max_output_tokens", "metadata",
   "model", "output", "parallel_tool_calls", "previous_response_id", "prompt", "reasoning",
   "safety_identifier", "service_tier", "store", "stream", "stream_options", "temperature",
   "text", "tool_choice", "tools", "top_p", "truncation", "user"}
ItemFields ==
  {"action", "arguments", "call_id", "code", "container_id", "content",
   "encrypted_content", "id", "name", "output", "queries", "results", "role",
   "server_label", "status", "summary", "type", "tools"}
ResponseToolFields ==
  {"allowed_tools", "container", "description", "filters", "name", "parameters",
   "server_label", "strict", "type", "vector_store_ids"}
AnthropicFields ==
  {"container", "context_management", "max_tokens", "mcp_servers", "messages", "metadata",
   "model", "service_tier", "stop_sequences", "stream", "system", "temperature",
   "thinking", "tool_choice", "tools", "top_k", "top_p"}
BlockFields ==
  {"cache_control", "citations", "content", "context", "data", "id", "input", "is_error",
   "media_type", "mime_type", "name", "signature", "source", "text", "thinking", "title",
   "tool_use_id", "type"}

\* extractOpenAIContent, extractOpenAIToolCalls, extractOpenAIFunctionCall.
Content ==
  [ content       |-> OrString(Array("part")),
    part          |-> OrString(Object({To({"text", "input_text", "output_text", "refusal"}, "text"),
                                       To({"image_url"}, "image_url")}, PartFields)),
    image_url     |-> Visits(FALSE, FALSE, "none", {To({"url"}, "text")}, "none"),
    tool_calls    |-> Array("tool_call"),
    tool_call     |-> Object({To({"function"}, "function_call"), To({"output"}, "tool_output")},
                             {"function", "id", "index", "output", "type"}),
    function_call |-> Object({To({"arguments"}, "json")}, {"arguments", "name"}) ]

\* extractOpenAIChat and its messages.
Chat ==
  [ chat          |-> Object({To({"messages"}, "messages"), To({"tools"}, "chat_tools"),
                              To({"functions"}, "functions")}, ChatFields),
    messages      |-> Array("message"),
    message       |-> Object({To({"content"}, "content"), To({"tool_calls"}, "tool_calls"),
                              To({"function_call"}, "function_call")}, MessageFields) ]

\* extractOpenAIChatTools, extractOpenAILegacyFunctions and the definition both hold.
ChatTools ==
  [ chat_tools    |-> Array("chat_tool"),
    chat_tool     |-> Object({To({"function"}, "definition")}, {"function", "type"}),
    functions     |-> Array("definition") ]

Definition ==
  [ definition    |-> Object({To({"description"}, "text"), To({"parameters"}, "strings")},
                             {"description", "name", "parameters", "strict"}) ]

ItemMembers ==
  {To({"content"}, "content"), To({"arguments"}, "json"), To({"output"}, "tool_output"),
   To({"code"}, "text"), To({"summary", "queries"}, "strings")}

\* extractOpenAIResponses, its input and output items and tools.
Responses ==
  [ responses      |-> Object({To({"instructions"}, "text"), To({"input", "output"}, "items"),
                               To({"tools"}, "response_tools")}, ResponsesFields),
    items          |-> OrString(OrItems(Object(ItemMembers, ItemFields), "item")),
    item           |-> OrString(Object(ItemMembers, ItemFields)),
    response_tools |-> Array("response_tool"),
    response_tool  |-> Object({To({"description"}, "text"), To({"parameters"}, "strings")},
                              ResponseToolFields) ]

BlockMembers ==
  {To({"text", "thinking", "title", "context"}, "text"), To({"input"}, "scalars"),
   To({"content"}, "blocks"), To({"source"}, "source_text"), To({"source"}, "source_data")}

\* extractAnthropicMessages, its messages, content blocks, sources and tools.
\* Whether a source is text is decided by its type and media type.
Anthropic ==
  [ anthropic       |-> Object({To({"system"}, "blocks"), To({"messages"}, "turns"),
                                To({"tools"}, "anthropic_tools")}, AnthropicFields),
    turns           |-> Array("turn"),
    turn            |-> Object({To({"content"}, "blocks")}, {"content", "role"}),
    blocks          |-> OrString(OrItems(Object(BlockMembers, BlockFields), "block")),
    block           |-> OrString(Object(BlockMembers, BlockFields)),
    source_text     |-> Visits(FALSE, FALSE, "none", {To({"data"}, "text")}, "none"),
    source_data     |-> Visits(FALSE, FALSE, "none", {}, "none"),
    anthropic_tools |-> Array("anthropic_tool"),
    anthropic_tool  |-> Object({To({"description"}, "text"), To({"input_schema"}, "strings")},
                               {"cache_control", "description", "input_schema", "name", "type"}) ]

Groups == {Leaves, Content, Chat, ChatTools, Definition, Responses, Anthropic}
Visitor == [v \in UNION {DOMAIN g : g \in Groups} |-> (CHOOSE g \in Groups : v \in DOMAIN g)[v]]

Root == [chat |-> "chat", responses |-> "responses", messages |-> "anthropic"]

\* The names a body uses: those some table or visitor has, and one that is new.
NewName == "x_new"
Listed == UNION {Visitor[v].fields \cup DOMAIN Visitor[v].members : v \in DOMAIN Visitor}
Names == Listed \cup {NewName}

-----------------------------------------------------------------------------
WalkInit ==
  /\ path \in Paths
  /\ visitor = "text" /\ fate = "unread" /\ flagged = FALSE /\ new = {}

\* A body that does not parse is refused; on a path of no known API the body
\* is scanned as bytes and "$" is reported.
Extract ==
  /\ fate = "unread"
  /\ \/ /\ DetectFormat(path) = "other"
        /\ fate' = "raw" /\ flagged' = TRUE
        /\ UNCHANGED visitor
     \/ /\ DetectFormat(path) # "other"
        /\ \/ fate' = "refused" /\ UNCHANGED visitor
           \/ fate' = "walking" /\ visitor' = Root[DetectFormat(path)]
        /\ UNCHANGED flagged
  /\ UNCHANGED <<path, new>>

\* The value is an object; the path goes on with one of its members.
Member(name) ==
  LET v == Visitor[visitor]
      next == IF name \in DOMAIN v.members THEN v.members[name]
              ELSE {v.others} \ {"none"}
  IN  /\ fate = "walking"
      /\ flagged' = (flagged \/ (v.flags /\ name \notin v.fields))
      /\ new' = IF name = NewName THEN new \cup {visitor} ELSE new
      /\ IF next = {} THEN fate' = "skipped" /\ UNCHANGED visitor
                      ELSE visitor' \in next /\ UNCHANGED fate
      /\ UNCHANGED path

\* The value is an array.
Item ==
  LET next == Visitor[visitor].item
  IN  /\ fate = "walking"
      /\ IF next = "none" THEN fate' = "skipped" /\ UNCHANGED visitor
                          ELSE visitor' = next /\ UNCHANGED fate
      /\ UNCHANGED <<path, flagged, new>>

\* The value is a string or a number (a literal is never scanned).
Leaf ==
  LET v == Visitor[visitor]
  IN  /\ fate = "walking"
      /\ fate' \in {IF v.string THEN "scanned" ELSE "skipped",
                    IF v.number THEN "scanned" ELSE "skipped"}
      /\ UNCHANGED <<path, visitor, flagged, new>>

\* addJSONString: the text of a tool argument or result is JSON again.
Nested ==
  /\ fate = "walking" /\ visitor \in {"json", "tool_output"}
  /\ visitor' = "nested"
  /\ UNCHANGED <<path, fate, flagged, new>>

WalkNext == Extract \/ (\E name \in Names : Member(name)) \/ Item \/ Leaf \/ Nested

-----------------------------------------------------------------------------
\* The record does not call a text unscanned that was scanned: no extractor
\* looks into a member that the field table of the same object leaves out.
ScannedIsNotFlagged == fate = "scanned" => ~flagged

\* Objects of the APIs, those inside an image_url or a source excepted: nothing
\* reports their members.
Objects == {v \in DOMAIN Visitor : DOMAIN Visitor[v].members # {}} \ {"image_url", "source_text"}

\* A field added to any object of an API is scanned or reported, however deep the
\* object lies, and with it everything below the field.
NewFieldsAreVisible == fate = "skipped" /\ new \cap Objects # {} => flagged
=============================================================================
