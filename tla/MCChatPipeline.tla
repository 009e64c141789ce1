--------------------------- MODULE MCChatPipeline ---------------------------
(* The requests with which ChatPipeline is model-checked. *)
EXTENDS ChatPipeline

Image == [type |-> "image", text |-> <<"clean">>]
ToolResult == [type |-> "tool_result", text |-> <<"secret">>]

\* One content of each form an adapter tells apart; "stray" is a secret under
\* a key of another spelling.
MCContents(p) ==
  LET stray == Stray(<<Text(<<"secret">>)>>)
      mixed == Blocks(<<Image, Text(<<"clean">>), Image, Text(<<"secret">>)>>)
      tool  == Blocks(<<ToolResult, Text(<<"clean">>)>>)
  IN  {mixed, NoContent, stray}
        \cup (IF p = "google" THEN {Blocks(<<Text(<<"secret">>)>>), Blocks(<<Image>>)}
              ELSE {String(<<"secret">>)})
        \cup (IF p = "anthropic" THEN {tool} ELSE {})

MCSystems(p) ==
  CASE p = "anthropic" -> {Absent, String(<<"secret">>), NoContent,
                           Blocks(<<Text(<<"clean">>), Image, Text(<<"secret">>)>>)}
    [] p = "google"    -> {Absent, NoContent, Blocks(<<Text(<<"secret">>)>>),
                           Stray(<<Text(<<"secret">>)>>)}
    [] OTHER           -> {Absent}

MCRoles(p) == <<"none", IF p = "google" THEN "model" ELSE "assistant">>

MCMessages(p) ==
  LET turn(i, c) == [role |-> MCRoles(p)[i], content |-> c]
  IN  {<<>>} \cup {<<turn(1, c)>> : c \in MCContents(p)}
             \cup {<<turn(1, c), turn(2, d)>> : c, d \in MCContents(p)}

MCBody(shape, system, messages, stream, exact) ==
  [shape |-> shape, system |-> system, messages |-> messages, stream |-> stream,
   exact |-> exact]

\* All keys as the adapter writes them.
MCExact(system) == {"messages"} \cup (IF system = Absent THEN {} ELSE {"system"})

MCCall(p, route, b, given, target) ==
  [provider |-> p, route |-> route, body |-> b, given |-> given, target |-> target]

MCHello(p, stream) ==
  MCBody("object", Absent,
         <<[role |-> MCRoles(p)[1], content |-> Blocks(<<Text(<<"secret">>)>>)]>>, stream,
         {"messages"})

\* Every body, on the adapter's first path, with any of its keys misspelt.
MCRoute(p) ==
  CASE p = "anthropic" -> "messages" [] p = "google" -> "generate" [] OTHER -> "chat"

MCPrompts ==
  UNION {UNION {{MCCall(p, MCRoute(p), MCBody("object", s, m, FALSE, exact),
                        {"Authorization"}, "named")
                   : m \in MCMessages(p), exact \in SUBSET MCExact(s)}
                  : s \in MCSystems(p)} : p \in Providers}

\* Every way to present the virtual key.
MCPresented == {MCCall(p, MCRoute(p), MCHello(p, FALSE), given, "named")
                  : p \in Providers, given \in SUBSET Slots}

\* Bodies that are no prompt, on paths that are parsed and that are not.
MCOddities ==
  UNION {{MCCall(p, route, MCBody(shape, Absent, <<>>, FALSE, {}), {"Authorization"}, "named")
            : route \in {MCRoute(p), "other"},
              shape \in {"empty", "not_json", "mistyped", "too_large", "object"}}
           : p \in Providers}

MCStreams ==
  {MCCall(p, IF p = "google" THEN "stream_generate" ELSE MCRoute(p), MCHello(p, TRUE),
          {"Authorization"}, target)
     : p \in Providers, target \in {"named", "configured", "unconfigured", "no_endpoint"}}

MCCalls == MCPrompts \cup MCPresented \cup MCOddities \cup MCStreams
=============================================================================
