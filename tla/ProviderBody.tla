---------------------------- MODULE ProviderBody ----------------------------
(***************************************************************************)
(* What the four provider adapters do with a request: the messages they    *)
(* extract for inspection, the body they write a masked prompt back into,  *)
(* and the credentials of the request they build for the provider.         *)
(*                                                                         *)
(* A text is a sequence of pieces; joining texts with a line break is      *)
(* concatenation.  JSON is a record of the fields the adapters look at.    *)
(*                                                                         *)
(* Extraction decodes into structs, where encoding/json takes a key in any *)
(* mix of capitals ("Messages"); injection looks keys up in a map, where   *)
(* only the exact key counts.  So a record says which of its keys are      *)
(* written exactly.  No object has the same key in two spellings.          *)
(***************************************************************************)
EXTENDS Naturals, Sequences

Providers == {"openai", "azure", "anthropic", "google"}

\* What a piece of prompt text is to the policy.
Pieces == {"clean", "secret", "redacted"}

\* A content field is a string, a list of typed blocks, or anything else
\* ("none": missing, null, a number).  A string is written as its one text.
\* "stray" are the blocks under another spelling of its key.
ContentForms == {"string", "blocks", "none"}

Text(t) == [type |-> "text", text |-> t]
String(t) == [form |-> "string", blocks |-> <<Text(t)>>, stray |-> <<>>]
Blocks(bs) == [form |-> "blocks", blocks |-> bs, stray |-> <<>>]
NoContent == [form |-> "none", blocks |-> <<>>, stray |-> <<>>]
Stray(bs) == [form |-> "none", blocks |-> <<>>, stray |-> bs]

\* The top-level system prompt, of which a body may also have none.
Absent == [form |-> "absent", blocks |-> <<>>, stray |-> <<>>]

\* "image" stands for every type that no adapter reads.
BlockTypes == {"text", "tool_use", "tool_result", "image"}

ContentBlocks == [type : BlockTypes, text : Seq(Pieces)]

Contents ==
  {c \in [form : ContentForms \cup {"absent"}, blocks : Seq(ContentBlocks),
           stray : Seq(ContentBlocks)] :
     /\ c.form = "string" => Len(c.blocks) = 1 /\ c.blocks[1].type = "text"
     /\ c.form \in {"none", "absent"} => c.blocks = <<>>}

\* The roles of messages: a missing one ("none"), the empty string ("empty"),
\* those an adapter or an API knows, and any other.
Roles == {"none", "empty", "system", "user", "assistant", "model", "other"}

Shapes == {"object", "mistyped", "not_json", "empty", "too_large"}

\* "exact" has the field whose key is there and is the adapter's own.
Bodies == [shape : Shapes, system : Contents, stream : BOOLEAN,
           messages : Seq([role : Roles, content : Contents]),
           exact : SUBSET {"system", "messages"}]

\* The paths whose bodies an adapter looks into.
ParsedRoutes == [p \in Providers |->
  CASE p = "openai"    -> {"chat", "responses"}
    [] p = "azure"     -> {"chat"}
    [] p = "anthropic" -> {"messages", "count_tokens"}
    [] p = "google"    -> {"generate", "stream_generate", "count_tokens"}]

\* The block types whose text reaches the inspector.
ReadTypes(p) ==
  IF p = "anthropic" THEN {"text", "tool_use", "tool_result"} ELSE {"text"}

\* Anthropic's "system" and Google's "systemInstruction".
HasSystem(p) == p \in {"anthropic", "google"}

\* The texts of the blocks of these types, joined block by block.
Joined(bs, types) ==
  LET text[n \in 0..Len(bs)] ==
        IF n = 0 THEN <<>>
        ELSE IF bs[n].type \in types THEN text[n - 1] \o bs[n].text ELSE text[n - 1]
  IN  text[Len(bs)]

Flatten(p, c) ==
  Joined(IF c.form = "none" THEN c.stray ELSE c.blocks, ReadTypes(p))

\* A missing role is decoded as the empty string.
\* Google calls the assistant "model", and an empty role is the user's.
NormalRole(p, role) ==
  LET given == IF role = "none" THEN "empty" ELSE role
  IN  CASE p = "google" /\ given = "model" -> "assistant"
        [] p = "google" /\ given = "empty" -> "user"
        [] OTHER                           -> given

-----------------------------------------------------------------------------

Inspectable(call) ==
  call.route \in ParsedRoutes[call.provider] /\ call.body.shape # "empty"

\* A body that is no JSON, or an object with a field of another type than the
\* adapter expects: extraction ends in an error.  An object without messages,
\* such as one for /responses, has the empty list of them.
Malformed(b) == b.shape \in {"not_json", "mistyped"}

\* The messages for the inspector, a non-empty system prompt ahead of them.
\* The handler goes on without messages after an error.
Extract(call, b) ==
  LET p == call.provider
      system == Flatten(p, b.system)
      lead == IF HasSystem(p) /\ system # <<>>
                THEN <<[role |-> "system", text |-> system]>> ELSE <<>>
      turn(i) == [role |-> NormalRole(p, b.messages[i].role),
                  text |-> Flatten(p, b.messages[i].content)]
  IN  IF Inspectable(call) /\ ~Malformed(b)
        THEN lead \o [i \in DOMAIN b.messages |-> turn(i)]
        ELSE <<>>

-----------------------------------------------------------------------------

\* Faulty MergeText: the later text blocks stay as they were.
MergeFirstText(bs, t) ==
  LET texts == {i \in DOMAIN bs : bs[i].type = "text"}
      first == CHOOSE i \in texts : \A j \in texts : i <= j
  IN  IF texts = {} THEN Append(bs, Text(t)) ELSE [bs EXCEPT ![first] = Text(t)]

\* The masked text replaces the first text block, or comes last; the others
\* are dropped, for their text is part of it, and blocks of other types stay.
MergeText(bs, t) ==
  LET textAmong(n) == \E i \in 1..n : bs[i].type = "text"
      out[n \in 0..Len(bs)] ==
        IF n = 0 THEN <<>>
        ELSE IF bs[n].type # "text" THEN Append(out[n - 1], bs[n])
        ELSE IF textAmong(n - 1) THEN out[n - 1] ELSE Append(out[n - 1], Text(t))
  IN  IF textAmong(Len(bs)) THEN out[Len(bs)] ELSE Append(out[Len(bs)], Text(t))

\* The exact key is written, whether it was there or not; what stands under
\* another spelling of it stays.
InjectContent(p, c, t) ==
  LET written ==
        CASE p \in {"openai", "azure"}            -> String(t)
          [] p = "anthropic" /\ c.form # "blocks" -> String(t)
          [] p = "anthropic" /\ c.form = "blocks" -> Blocks(MergeText(c.blocks, t))
          [] p = "google"                         -> Blocks(MergeText(c.blocks, t))
  IN  [written EXCEPT !.stray = c.stray]

\* Faulty InjectRole: every adapter writes the inspector's role.
InjectRoleOfInspector(p, role, masked) == masked

\* OpenAI's and Azure's messages take the role they are given.
InjectRole(p, role, masked) ==
  IF p \in {"openai", "azure"} THEN masked ELSE role

\* How many of the masked messages go to the system field, which is there or
\* is not, whatever it contains.
SystemShare(p, b, masked) ==
  IF HasSystem(p) /\ "system" \in b.exact /\ masked # <<>> THEN 1 ELSE 0

\* The count of what is left has to be that of the messages, if their key is
\* found.  A body that does not parse has no messages to inject.
InjectFails(call, b, masked) ==
  /\ "messages" \in b.exact
  /\ Len(b.messages) # Len(masked) - SystemShare(call.provider, b, masked)

\* Without the exact key of the messages nothing is done about them, and it
\* is no error.
Inject(call, b, masked) ==
  LET p == call.provider
      k == SystemShare(p, b, masked)
      turn(i) == [role    |-> InjectRole(p, b.messages[i].role, masked[k + i].role),
                  content |-> InjectContent(p, b.messages[i].content, masked[k + i].text)]
  IN  [b EXCEPT !.system   = IF k = 1 THEN InjectContent(p, @, masked[1].text) ELSE @,
                !.messages = IF "messages" \in b.exact
                               THEN [i \in DOMAIN @ |-> turn(i)] ELSE @]

-----------------------------------------------------------------------------

\* Google streams by path, the others by a field of the body.
IsStreamRequest(call, b) ==
  IF call.provider = "google"
    THEN call.route = "stream_generate"
    ELSE b.shape \in {"object", "mistyped"} /\ b.stream

\* Where a request can carry a credential: three headers and a query parameter.
Slots == {"Authorization", "x-api-key", "api-key", "key"}

\* The slots in which the provider looks for its key.
KeySlots(p) ==
  CASE p = "openai"    -> {"Authorization"}
    [] p = "azure"     -> {"Authorization", "api-key"}
    [] p = "anthropic" -> {"Authorization", "x-api-key"}
    [] p = "google"    -> {"Authorization", "key"}

\* The slot the master key is put into: Google keeps the style of the client.
MasterSlot(p, given) ==
  CASE p = "openai"    -> "Authorization"
    [] p = "azure"     -> "api-key"
    [] p = "anthropic" -> "x-api-key"
    [] p = "google"    -> IF "Authorization" \in given THEN "Authorization" ELSE "key"

\* Faulty Credentials: Google's key parameter stays beside the bearer token.
CredentialsUncleared(p, given) ==
  [s \in Slots |->
     CASE s = MasterSlot(p, given)                               -> "master"
       [] s \in given /\ (s \notin KeySlots(p) \/ s = "key")    -> "virtual"
       [] OTHER                                                  -> "none"]

\* The credentials of the upstream request.  The client's own are taken out
\* of the slots of this provider and forwarded in all others.
Credentials(p, given) ==
  [s \in Slots |->
     CASE s = MasterSlot(p, given)          -> "master"
       [] s \in given /\ s \notin KeySlots(p) -> "virtual"
       [] OTHER                             -> "none"]

\* No request can be built for an Azure resource without an endpoint, or a
\* deployment that is to be found by a model it is not configured for.
Buildable(call) ==
  call.provider = "azure" => call.target \in {"named", "configured"}
=============================================================================
