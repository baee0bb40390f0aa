----------------------------- MODULE ChatRequest -----------------------------
(***************************************************************************)
(* A Messages conversation as a backend is given it: as Chat Completions   *)
(* messages (src/anthropic/decode.rs, src/openai/request.rs), or with what *)
(* an Anthropic backend refuses taken out (src/anthropic/request.rs).      *)
(* Text is a sequence of items; a message has a role and blocks; None is   *)
(* what cannot be sent.                                                    *)
(***************************************************************************)
EXTENDS Forwarding

CONSTANT AcceptedId   \* tool call ids, with characters outside [A-Za-z0-9_-] made _

Texts(tokens) == [i \in DOMAIN tokens |-> <<"text", tokens[i]>>]

-----------------------------------------------------------------------------
\* Decoding.

Deferred(tool) == tool.defer_loading = "yes"

References(blocks) ==
  FlattenSeq([k \in DOMAIN blocks |->
    IF blocks[k].type = "tool_reference" THEN <<blocks[k].name>> ELSE <<>>])

\* What a block of a message refers to, and a conversation.
NamedBy(block) ==
  IF block.type = "tool_result" THEN ToSet(References(block.content)) ELSE {}
Referenced(messages) ==
  UNION {NamedBy(b) : b \in UNION {ToSet(messages[i].blocks) : i \in DOMAIN messages}}

\* A deferred tool that nothing names is not sent.
IsSent(tool, messages) == ~Deferred(tool) \/ tool.name \in Referenced(messages)
SentTools(tools, messages) ==
  FlattenSeq([i \in DOMAIN tools |-> IF IsSent(tools[i], messages) THEN <<tools[i]>> ELSE <<>>])
\* The names that can be spelled.
Known(tools, messages) == {t.name : t \in {u \in ToSet(tools) : IsSent(u, messages)}}

\* functions_block: a definition is spelled once in a request, where it is first named.
SpelledEverywhere(name, known, spelled) == name \in known    \* a mutant
Spells(name, known, spelled) == name \in known /\ name \notin spelled

FunctionsBlock(names, known, spelled) ==
  FlattenSeq([i \in DOMAIN names |->
    IF \E k \in 1..i - 1 : names[k] = names[i] THEN <<>>
    ELSE <<<<"function", names[i],
             IF Spells(names[i], known, spelled) THEN "defined" ELSE "named">>>>])

ImageOf(block) == IF block.source = "base64" THEN block.data ELSE None
DocumentText(block) ==
  IF block.source = "text" THEN Texts(<<block.data>>) ELSE <<<<"omitted", block.data>>>>

TextOf(block) ==
  CASE block.type = "text" -> Texts(block.text)
    [] block.type = "document" -> DocumentText(block)
    [] OTHER -> <<>>

Unsent(block) == block.type \notin {"text", "document", "image", "thinking", "redacted_thinking",
                                    "tool_use", "tool_result"}
                   \/ (block.type = "image" /\ ImageOf(block) = None)

Images(blocks) ==
  FlattenSeq([k \in DOMAIN blocks |->
    IF blocks[k].type = "image" THEN <<blocks[k].data>> ELSE <<>>])

\* tool_result_content: its text, then the definitions it names; its images apart.
ResultPart(block, known, spelled) ==
  [kind |-> "result", id |-> block.id, is_error |-> block.is_error,
   images |-> Images(block.content),
   text |-> FlattenSeq([i \in DOMAIN block.content |-> TextOf(block.content[i])])
              \o FunctionsBlock(References(block.content), known, spelled)]

BadResult(block) ==
  \E b \in ToSet(block.content) :
    b.type # "tool_reference" /\ (Unsent(b) \/ b.type \in {"tool_use", "tool_result"})

\* decode_block: thinking is dropped on purpose.
PartsOfBlock(block, known, spelled) ==
  CASE block.type \in {"text", "document"} -> <<[kind |-> "text", text |-> TextOf(block)]>>
    [] block.type = "image" -> <<[kind |-> "image", image |-> block.data]>>
    [] block.type = "tool_use" ->
         <<[kind |-> "use", id |-> block.id, name |-> block.name, input |-> block.input]>>
    [] block.type = "tool_result" -> <<ResultPart(block, known, spelled)>>
    [] OTHER -> <<>>

Allowed(role) ==
  CASE role = "user" -> {"text", "image", "result"}
    [] role = "assistant" -> {"text", "use"}
    [] role = "system" -> {"text"}
    [] OTHER -> {}

Undecodable(block) == Unsent(block) \/ (block.type = "tool_result" /\ BadResult(block))

\* What is spelled before a block: what those before it refer to.
NamedBefore(messages, i, k) ==
  Referenced(SubSeq(messages, 1, i - 1))
    \cup UNION {NamedBy(messages[i].blocks[j]) : j \in 1..k - 1}

DecodeMessage(messages, i, known) ==
  LET blocks == messages[i].blocks
  IN [role |-> messages[i].role,
      parts |-> FlattenSeq([k \in DOMAIN blocks |->
                  PartsOfBlock(blocks[k], known, known \cap NamedBefore(messages, i, k))])]

Decodable(message, decoded) ==
  /\ message.role \in {"user", "assistant", "system"}
  /\ \A b \in ToSet(message.blocks) : ~Undecodable(b)
  /\ \A p \in ToSet(decoded.parts) : p.kind \in Allowed(message.role)

Decode(messages, tools) ==
  LET known == Known(tools, messages)
      decoded == [i \in DOMAIN messages |-> DecodeMessage(messages, i, known)]
      schemaless == \E t \in ToSet(tools) : IsSent(t, messages) /\ t.input_schema = None
  IN IF schemaless \/ \E i \in DOMAIN messages : ~Decodable(messages[i], decoded[i])
     THEN None ELSE decoded

-----------------------------------------------------------------------------
\* Encoding.  A Chat message is [role, id, content, calls].

Message(role, content, calls) == [role |-> role, id |-> None, content |-> content, calls |-> calls]

OfKind(parts, kind) ==
  FlattenSeq([i \in DOMAIN parts |-> IF parts[i].kind = kind THEN <<parts[i]>> ELSE <<>>])
PlainText(message) ==
  FlattenSeq([i \in DOMAIN OfKind(message.parts, "text") |->
                OfKind(message.parts, "text")[i].text])

Imaged(images) == [i \in DOMAIN images |-> <<"image", images[i]>>]

\* A tool message carries text only; its images ride in the user message that follows.
ToolMessage(p) ==
  [role |-> "tool", id |-> p.id, calls |-> <<>>,
   content |-> (IF p.is_error = "yes" THEN <<<<"tool error">>>> ELSE <<>>) \o p.text
                 \o (IF p.images = <<>> THEN <<>> ELSE <<<<"images follow">>>>)]

Piece(p) ==
  CASE p.kind = "text" -> p.text
    [] p.kind = "image" -> Imaged(<<p.image>>)
    [] p.kind = "result" /\ p.images # <<>> -> <<<<"images of", p.id>>>> \o Imaged(p.images)
    [] OTHER -> <<>>

\* A turn whose blocks were all dropped keeps its place; one of tool results alone
\* leaves none.
Placeless(content, calls, tools) == content = <<>> /\ calls = <<>> /\ tools # <<>>

EncodeMessage(m) ==
  LET content == FlattenSeq([i \in DOMAIN m.parts |-> Piece(m.parts[i])])
      calls == OfKind(m.parts, "use")
      results == OfKind(m.parts, "result")
      tools == [i \in DOMAIN results |-> ToolMessage(results[i])]
  IN IF Placeless(content, calls, tools) THEN tools
     ELSE Append(tools, Message(m.role, content, calls))

Reminder(m) ==
  Message("user", <<<<"<system-reminder>">>>> \o PlainText(m) \o <<<<"</system-reminder>">>>>,
          <<>>)

\* A system message with nothing before it is the leading one, whatever the placement.
EncodeNext(m, placement, leading) ==
  CASE m.role = "system" /\ placement = "merge" -> <<>>
    [] m.role = "system" /\ placement = "user" /\ ~leading -> <<Reminder(m)>>
    [] OTHER -> EncodeMessage(m)

\* Each message leaves one at least where it matters, so only the first can be leading.
Encode(system, messages, placement) ==
  LET merged == IF placement # "merge" THEN <<>>
                ELSE FlattenSeq([i \in DOMAIN messages |->
                       IF messages[i].role = "system" THEN PlainText(messages[i]) ELSE <<>>])
      first == Texts(system) \o merged
  IN (IF first = <<>> THEN <<>> ELSE <<Message("system", first, <<>>)>>)
       \o FlattenSeq([i \in DOMAIN messages |->
            EncodeNext(messages[i], placement, first = <<>> /\ i = 1)])

-----------------------------------------------------------------------------
\* The parameters: leaves of the request's document, values as in Forwarding.

Parameter ==
  (<<"max_tokens">> :> <<"max_tokens">>) @@ (<<"temperature">> :> <<"temperature">>)
    @@ (<<"top_p">> :> <<"top_p">>) @@ (<<"stop_sequences">> :> <<"stop">>)
    @@ (<<"stream">> :> <<"stream">>) @@ (<<"metadata", "user_id">> :> <<"user">>)
    @@ (<<"output_config", "effort">> :> <<"reasoning_effort">>)
    @@ (<<"tool_choice", "type">> :> <<"tool_choice">>)
    @@ (<<"tool_choice", "name">> :> <<"tool_choice", "function", "name">>)
    @@ (<<"tool_choice", "disable_parallel_tool_use">> :> <<"parallel_tool_calls">>)

\* A value of another type would be replaced by the backend's default without a word.
Mistyped(fields) ==
  \/ \E p \in {<<"max_tokens">>, <<"temperature">>, <<"top_p">>, <<"stop_sequences">>,
               <<"stream">>} \cap DOMAIN fields : fields[p] = <<"mistyped">>
  \/ /\ \E p \in DOMAIN fields : p[1] = "tool_choice"
     /\ \/ <<"tool_choice", "type">> \notin DOMAIN fields
        \/ fields[<<"tool_choice", "type">>] \notin {<<"auto">>, <<"any">>, <<"none">>, <<"tool">>}
        \/ /\ fields[<<"tool_choice", "type">>] = <<"tool">>
           /\ <<"tool_choice", "name">> \notin DOMAIN fields

\* Which of them are written, and as what.
Written(fields, p) ==
  CASE p = <<"tool_choice", "disable_parallel_tool_use">> -> fields[p] = <<"true">>
    [] p = <<"tool_choice", "type">> -> fields[p] # <<"tool">>
    [] p = <<"tool_choice", "name">> -> fields[<<"tool_choice", "type">>] = <<"tool">>
    [] OTHER -> TRUE

ValueOf(p, v) ==
  CASE p = <<"output_config", "effort">> /\ v = <<"max">> -> <<"high">>
    [] p = <<"tool_choice", "type">> /\ v = <<"any">> -> <<"required">>
    [] p = <<"tool_choice", "disable_parallel_tool_use">> -> <<"false">>
    [] OTHER -> v

IncludeUsage == <<"stream_options", "include_usage">>
OwnWords == {"true", "false", "high", "required"}

ChatFields(fields, model) ==
  LET said == {p \in DOMAIN fields \cap DOMAIN Parameter : Written(fields, p)}
      written == {Parameter[p] : p \in said}
      from(q) == CHOOSE p \in said : Parameter[p] = q
      streams == <<"stream">> \in said /\ fields[<<"stream">>] = <<"true">>
  IN [q \in written \cup {<<"model">>, <<"stream">>} \cup (IF streams THEN {IncludeUsage} ELSE {}) |->
        IF q = <<"model">> THEN <<model>>
        ELSE IF q = IncludeUsage THEN <<"true">>
        ELSE IF q \in written THEN ValueOf(from(q), fields[from(q)]) ELSE <<"false">>]

-----------------------------------------------------------------------------
\* For an Anthropic backend.

Unsigned(block) == block.type = "thinking" /\ block.signature = ""

StripNewestOnly(messages) ==    \* a mutant: what is behind the newest message stays
  [messages EXCEPT ![Len(messages)].blocks =
     FlattenSeq([k \in DOMAIN @ |-> IF Unsigned(@[k]) THEN <<>> ELSE <<@[k]>>])]
Signed(m) ==
  [role |-> m.role,
   blocks |-> FlattenSeq([k \in DOMAIN m.blocks |->
                IF Unsigned(m.blocks[k]) THEN <<>> ELSE <<m.blocks[k]>>])]
\* strip_unsigned: a message emptied by it goes too.
StripUnsigned(messages) ==
  FlattenSeq([i \in DOMAIN messages |->
    IF messages[i].blocks = <<>> \/ Signed(messages[i]).blocks # <<>>
    THEN <<Signed(messages[i])>> ELSE <<>>])

\* accepted_tool_ids.
AcceptId(block) ==
  IF block.type \in {"tool_use", "tool_result"} THEN With(block, "id", AcceptedId[block.id])
  ELSE block

WithAcceptedIds(m) ==
  [role |-> m.role, blocks |-> [k \in DOMAIN m.blocks |-> AcceptId(m.blocks[k])]]
AcceptedIds(messages) == [i \in DOMAIN messages |-> WithAcceptedIds(messages[i])]

ForAnthropic(messages) == AcceptedIds(StripUnsigned(messages))
=============================================================================
