------------------------------- MODULE MCStdio -------------------------------
(* Instances of Stdio for TLC. *)
EXTENDS Stdio

MCSupported == <<"2025-06-18", "2025-11-25">>
MCNothing == [i \in {} |-> i]       \* no issuers, none trimmed

\* A server that says all it can of itself, and one that says nothing.
MCSetups ==
  LET full == Describe(Describe(ToolsListChanged(New, TRUE), "instructions"), "title")
  IN  {[speaks |-> "headers", config |-> Describe(Describe(full, "description"), "websiteUrl")],
       [speaks |-> "lines", config |-> New]}

\* Every method as a request, and frames that are not one.
MCFrames ==
  {Message(m, TRUE) : m \in Methods \ {"initialize", "initialized", "other"}}
    \cup {[method |-> "initialize", hasId |-> TRUE, version |-> v]
            : v \in Versions \cup {"2024-11-05"}}
    \cup {Message("initialized", FALSE), Message("other", FALSE), Message("tools/call", FALSE),
          Message("blank", FALSE), Message("not JSON", FALSE), Message("bad frame", FALSE)}

MCToolboxes ==
  <<<<ToolDef("read", "schema")>>,
    <<ToolDef("read", "schema"), WithAnnotations(ToolDef("write", "schema"), "hint")>>>>

\* Each way to build a reply, and each way to fail.
MCResults ==
  {Ok(TextReply("done")), Ok(ToolsChanged(JsonReply("value"))), Ok(ErrorReply("no")),
   Ok(WithStructured(WithContent(TextReply("done"), <<Raw("image"), Text("seen")>>), "value")),
   CallError("Tool", "no such file"), CallError("InvalidParams", "no such field"),
   CallError("Internal", "disk"), FromJsonError}
=============================================================================
