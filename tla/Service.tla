------------------------------- MODULE Service -------------------------------
(***************************************************************************)
(* The values a server author exchanges with the core (src/src/service.rs) *)
(* and the JSON that src/src/server.rs makes of them.  Constant operators. *)
(* An object is the record of its members.                                 *)
(***************************************************************************)
EXTENDS Session, Configuration, Integers

CONSTANT Modern     \* the versions no older than "2025-11-25"

Absent == "absent"

\* An object with a member that may be left out.
With(object, member, value) ==
  IF value = Absent THEN object
  ELSE [m \in DOMAIN object \cup {member} |-> IF m = member THEN value ELSE object[m]]

-----------------------------------------------------------------------------
(* Tools and their replies *)

ToolDef(name, schema) == [name |-> name, input_schema |-> schema, annotations |-> Absent]
WithAnnotations(tool, a) == [tool EXCEPT !.annotations = a]

ToolJson(tool) ==
  With([name |-> tool.name, inputSchema |-> tool.input_schema],
       "annotations", tool.annotations)

Text(t) == [kind |-> "Text", text |-> t]
Raw(v) == [kind |-> "Raw", value |-> v]

ContentJson(c) ==
  IF c.kind = "Raw" THEN c.value ELSE [type |-> "text", text |-> c.text]

ToolReply(content, isError, structured) ==
  [content |-> content, is_error |-> isError, structured_content |-> structured,
   tools_list_changed |-> FALSE]

Pretty(v) == [pretty |-> v]     \* the text of a value

TextReply(t) == ToolReply(<<Text(t)>>, FALSE, Absent)
JsonReply(v) == ToolReply(<<Text(Pretty(v))>>, FALSE, v)
ErrorReply(t) == ToolReply(<<Text(t)>>, TRUE, Absent)
WithContent(r, content) == [r EXCEPT !.content = content]
WithStructured(r, v) == [r EXCEPT !.structured_content = v]
ToolsChanged(r) == [r EXCEPT !.tools_list_changed = TRUE]

ResultJson(r) ==
  With([content |-> [i \in DOMAIN r.content |-> ContentJson(r.content[i])],
        isError |-> r.is_error],
       "structuredContent", r.structured_content)

Ok(reply) == [variant |-> "Ok", reply |-> reply]
CallError(variant, message) == [variant |-> variant, message |-> message]

\* What `?` makes of a value that cannot be serialized.
FromJsonError == CallError("Internal", "serde_json")

\* Session's view of a result.
Called(result) ==
  IF result.variant = "Ok"
    THEN Reply(result.reply.is_error, result.reply.tools_list_changed)
    ELSE Failure(result.variant)

-----------------------------------------------------------------------------
(* Responses *)

SuccessResponse(id, result) == [jsonrpc |-> "2.0", id |-> id, result |-> result]

ErrorResponse(id, number, message) ==
  [jsonrpc |-> "2.0", id |-> id, error |-> [code |-> number, message |-> message]]

Notification == [jsonrpc |-> "2.0", method |-> "notifications/tools/list_changed"]

\* Mutant of ToolErrorResult: the flag is forgotten.
ToolErrorResultUnmarked(message) == [isError |-> FALSE, content |-> <<ContentJson(Text(message))>>]

ToolErrorResult(message) == [isError |-> TRUE, content |-> <<ContentJson(Text(message))>>]

code ==
  [PARSE_ERROR |-> -32700, INVALID_REQUEST |-> -32600, METHOD_NOT_FOUND |-> -32601,
   INVALID_PARAMS |-> -32602, INTERNAL_ERROR |-> -32603, NOT_INITIALIZED |-> -32002]

\* title, description and websiteUrl are of 2025-11-25.
ServerInfo(config, version) ==
  {"name", "version"}
    \cup (IF version \in Modern THEN config.described \ {"instructions"} ELSE {})

InitializeResult(config, version) ==
  With([protocolVersion |-> version, serverInfo |-> ServerInfo(config, version),
        listChanged |-> config.tools_list_changed],
       "instructions", IF "instructions" \in config.described THEN "given" ELSE Absent)

ToolsJson(tools) == [i \in DOMAIN tools |-> ToolJson(tools[i])]

\* The response to message m with Session's outcome, in the words of the service.
Response(reply, m, config, tools, result) ==
  CASE reply.what \in DOMAIN code ->
         ErrorResponse(reply.id, code[reply.what],
                       IF reply.what = "INTERNAL_ERROR" THEN result.message ELSE reply.what)
    [] reply.what = "tools" -> SuccessResponse(reply.id, [tools |-> ToolsJson(tools)])
    [] reply.what \in {"done", "isError"} ->
         SuccessResponse(reply.id, IF result.variant = "Ok" THEN ResultJson(result.reply)
                                   ELSE ToolErrorResult(result.message))
    [] reply.what = "list_changed" -> Notification
    [] m.method = "initialize" ->
         SuccessResponse(reply.id, InitializeResult(config, reply.what))
    [] OTHER -> SuccessResponse(reply.id, [nothing |-> m.method])

-----------------------------------------------------------------------------
(* What a client makes of it *)

Understood(json) ==
  IF "method" \in DOMAIN json THEN ListChanged
  ELSE [id |-> json.id,
        what |-> CASE "error" \in DOMAIN json ->
                        CHOOSE w \in DOMAIN code : code[w] = json.error.code
                   [] "result" \in DOMAIN json /\ "tools" \in DOMAIN json.result -> "tools"
                   [] "result" \in DOMAIN json /\ "isError" \in DOMAIN json.result ->
                        IF json.result.isError THEN "isError" ELSE "done"
                   [] "result" \in DOMAIN json /\ "protocolVersion" \in DOMAIN json.result ->
                        json.result.protocolVersion
                   [] OTHER -> "result"]
=============================================================================
