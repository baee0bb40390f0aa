------------------------------ MODULE MCRequests ------------------------------
EXTENDS Requests

\* Headers.

SessionId == <<"x", "claude", "code", "session", "id">>
Agent == <<"user", "agent">>
XApp == <<"x", "app">>
XTeam == <<"x", "team">>
Twice == <<"x", "id", "kind", "id">>

Bare ==
  (Host :> <<<<"router">>>>) @@ (ContentLength :> <<<<"9">>>>) @@ (ContentType :> <<<<"json">>>>)
    @@ (Authorization :> <<<<"Bearer", "own">>>>) @@ (ProxyAuthorization :> <<<<"proxy own">>>>)
    @@ (AcceptEncoding :> <<<<"gzip">>>>) @@ (Version :> <<<<"2023">>>>)
    @@ (Beta :> <<<<"a", "b">>, <<"b">>>>) @@ (Agent :> <<<<"claude">>>>) @@ (XApp :> <<<<"cli">>>>)
    @@ (XTeam :> <<<<"client's">>>>) @@ (Twice :> <<<<"kind">>>>)
Full == (SessionId :> <<<<"session">>>>) @@ (XApiKey :> <<<<"own">>>>) @@ Bare

Literal(text) == [text |-> text]
Of(name) == [header |-> name]

\* Backends.

Plain ==
  [kind |-> "anthropic", url |-> [origin |-> "a", scheme |-> "https", tail |-> {}],
   proxy |-> None, credential |-> None, headers |-> <<>>, anthropic_beta |-> <<>>,
   drop_headers |-> {}, drop_fields |-> {}, set_fields |-> <<>>, placement |-> "keep",
   live_models |-> "no", models_path |-> "path"]
Key == [header |-> XApiKey, scheme |-> <<>>, source |-> "file", timeout |-> 1]
Proxy(origin) == [origin |-> origin, scheme |-> "http", tail |-> {}]

Forcing ==
  [Plain EXCEPT
     !.credential = [Key EXCEPT !.header = Authorization, !.scheme = <<"Bearer">>],
     !.headers = <<[name |-> Agent, value |-> <<Literal("router")>>],
                   [name |-> XTeam, value |-> <<Literal("team "), Of(SessionId)>>]>>,
     !.anthropic_beta = <<"c", "a">>, !.drop_headers = {Preset},
     !.drop_fields = {<<"thinking">>, <<"temperature">>},
     !.set_fields = <<[keys |-> <<<<"metadata">>, <<"user_id">>>>, value |-> <<Of(SessionId)>>],
                      [keys |-> <<<<"thinking", "type">>>>, value |-> <<Literal("disabled")>>]>>]
Chatting ==
  [Plain EXCEPT
     !.kind = "openai", !.url.origin = "o", !.proxy = Proxy("p"), !.credential = Key,
     !.drop_headers = {<<"x", Star, "app">>, <<Star, "id">>},
     !.drop_fields = {<<"output_config">>},
     !.set_fields = <<[keys |-> <<<<"reasoning_effort">>>>, value |-> <<Literal("low")>>]>>]
Relaying == [Plain EXCEPT !.kind = "passthrough", !.url.origin = "r"]

\* Files.

One(backend) ==
  [token |-> "own", v1_auth |-> "token", loopback |-> "yes", limits |-> {1}, statuses |-> {429},
   backends |-> ("one" :> backend), default |-> None,
   models |-> <<[id |-> "m", aliases |-> <<"alias">>, backend |-> "one",
                 upstream_model |-> "upstream m", display_name |-> "M", placement |-> None]>>]
And(config, name, backend) == [config EXCEPT !.backends = (name :> backend) @@ @]

Chats(placement) ==
  [One(Chatting) EXCEPT !.models[1].placement = placement, !.models[1].upstream_model = None,
                        !.default = "alias"]
Open == [And(One(Plain), "two", Relaying) EXCEPT !.v1_auth = "none"]

Invalid ==
  {[One(Plain) EXCEPT !.token = ""],
   [One(Plain) EXCEPT !.v1_auth = "none", !.loopback = "no"],
   [One(Plain) EXCEPT !.limits = {0, 1}], [One(Plain) EXCEPT !.statuses = {42}],
   And(One(Plain), "two", Relaying), [One(Plain) EXCEPT !.models = <<>>],
   And(One(Plain), "unfit", Plain), And(One(Plain), "", Plain), [One(Plain) EXCEPT !.models[1].id = "unfit"],
   [One(Plain) EXCEPT !.models[1].upstream_model = "unfit"],
   [Open EXCEPT !.models[1].backend = "two"], [Open EXCEPT !.backends["two"].credential = Key],
   [Chats("keep") EXCEPT !.backends["one"].anthropic_beta = <<"c">>],
   [One(Plain) EXCEPT !.models[1].placement = "merge"], [One(Plain) EXCEPT !.default = "n"],
   [One(Plain) EXCEPT !.models[1].aliases = <<"m">>],
   And(Chats("keep"), "two", [Chatting EXCEPT !.proxy = Proxy("q")]),
   And(Chats("keep"), "two", [Chatting EXCEPT !.proxy = None]),
   [Chats("keep") EXCEPT !.backends["one"].proxy.tail = {"path"}],
   [One(Plain) EXCEPT !.backends["one"].url.tail = {"query"}]}
  \cup {One(b) : b \in
   {[Forcing EXCEPT !.headers[1].value = <<Of(Authorization)>>],
    [Forcing EXCEPT !.set_fields[1].value = <<Of(ProxyAuthorization)>>],
    [Forcing EXCEPT !.headers[1].name = XTeam], [Forcing EXCEPT !.drop_headers = {XTeam}],
    [Forcing EXCEPT !.headers[1].name = ContentType, !.headers[1].value = <<Of(Agent)>>],
    [Forcing EXCEPT !.headers[1].name = ContentLength], [Forcing EXCEPT !.drop_headers = {<<Star>>}],
    [Forcing EXCEPT !.set_fields[1].keys = <<<<"thinking">>>>],
    [Forcing EXCEPT !.set_fields[1].keys = <<<<"stream">>>>],
    [Forcing EXCEPT !.drop_fields = {<<"model">>}], [Forcing EXCEPT !.anthropic_beta = <<"c", ",">>],
    [Forcing EXCEPT !.models_path = "no path"]}}

\* Lists of models.

T(text) == [text |-> text]
N(number) == [number |-> number]
OpenAiList ==
  <<("id" :> T("n")) @@ ("name" :> T("")) @@ ("display_name" :> T("N"))
      @@ ("max_model_len" :> N(0)) @@ ("context_length" :> N(8)) @@ ("context_window" :> N(9)),
    None, "id" :> T(""), "id" :> N(1), "name" :> T("nameless"), "id" :> T("unfit"),
    ("id" :> T("alias")) @@ ("max_tokens" :> N(2))>>
BareList == <<"id" :> T("p"), ("id" :> T("o")) @@ ("context_window" :> N(3))>>
AnthropicList ==
  <<("id" :> T("n")) @@ ("display_name" :> T("another N")),
    ("id" :> T("o")) @@ ("name" :> T("O")) @@ ("context_window" :> N(7))
      @@ ("runtime.max_output_tokens" :> N(0)),
    ("id" :> T("p")) @@ ("display_name" :> T("")), ("id" :> T("m")) @@ ("name" :> T("m"))>>

\* Requests.

Asking ==
  (<<"model">> :> <<"alias">>) @@ (<<"max_tokens">> :> <<"9">>) @@ (<<"stream">> :> <<"true">>)
    @@ (<<"temperature">> :> <<"1">>) @@ (<<"metadata", "user_id">> :> <<"client's">>)
    @@ (<<"thinking", "type">> :> <<"enabled">>) @@ (<<"thinking", "budget">> :> <<"8">>)
    @@ (<<"output_config", "effort">> :> <<"max">>) @@ (<<"tool_choice", "type">> :> <<"any">>)
    @@ (<<"tool_choice", "disable_parallel_tool_use">> :> <<"true">>)
Choosing ==
  (<<"tool_choice", "type">> :> <<"tool">>) @@ (<<"tool_choice", "name">> :> <<"read">>) @@ Asking

Tools ==
  <<[name |-> "read", defer_loading |-> "no", input_schema |-> "schema"],
    [name |-> "ask", defer_loading |-> "yes", input_schema |-> "schema"],
    [name |-> "ghost", defer_loading |-> "yes", input_schema |-> None]>>

\* Answers.

Object(fields) == [fields |-> fields]
Error(error) == Object("error" :> error)
Detail(type, code, words) ==
  Object(("type" :> Says(type)) @@ ("code" :> Says(code)) @@ ("message" :> Says(words)))

Sent ==
  (ContentType :> JsonType) @@ (<<"retry", "after">> :> <<<<"1">>>>) @@ (ContentLength :> <<<<"9">>>>)
    @@ (<<"connection">> :> <<<<"close">>>>) @@ (RequestId :> <<<<"its own">>>>)
    @@ (XRouterModel :> <<<<"its own">>>>)
Failing(status, body) ==
  [status |-> status, headers |-> Sent, body |-> body, rejects |-> <<>>,
   window |-> None, whole |-> "whole"]

Overflow == <<"maximum", "context", "length", "is", "9">>
Lengthy == <<"the", "model", "m", "says", "no", "at", "length">>
Failures ==
  {[Failing(400, ErrorBody(<<"invalid", "request", "error">>, Overflow)) EXCEPT !.window = 9],
   Failing(400, ErrorBody(<<"invalid", "request", "error">>, PromptTooLong \o Overflow)),
   Failing(500, Error(Detail(<<"server", "error">>, <<"context", "length", "exceeded">>, <<"no">>))),
   Failing(400, Error(Says(<<"context", "size", "has", "been", "exceeded">>))),
   Failing(400, Object(("object" :> Says(<<"error">>)) @@ ("message" :> Says(Overflow)))),
   Failing(503, Error(Detail(<<"overloaded", "error">>, <<"x">>, <<"busy">>))),
   Failing(500, Error(Object("code" :> Says(<<"invalid", "api", "key">>)))),
   Failing(404, Error(Detail(<<"x">>, <<"x">>, <<"the", "model", "m", "does", "not", "exist">>))),
   Failing(500, Error(Detail(<<"api", "error">>, <<"rate", "limit">>, <<"no">>))),
   Failing(502, [raw |-> <<"gateway", "page">>]), Failing(500, [raw |-> Overflow]),
   Failing(502, [raw |-> <<"page", "on">> \o Overflow]),
   Failing(500, Error(Detail(<<"api", "error">>, <<"x">>, Lengthy \o Overflow))),
   Failing(429, ErrorBody(<<"rate", "limit", "error">>, Lengthy)),
   [Failing(400, [raw |-> <<"cut">>]) EXCEPT !.whole = "broken"]}
  \cup {Failing(TypeStatus(type), ErrorBody(type, <<"no">>)) : type \in
          {<<"invalid", "request", "error">>, <<"authentication", "error">>,
           <<"permission", "error">>, <<"not", "found", "error">>, <<"request", "too", "large">>,
           <<"rate", "limit", "error">>, <<"api", "error">>, <<"overloaded", "error">>}}
  \cup {[Failing(400, [raw |-> <<"extra">>]) EXCEPT !.rejects = rejects] : rejects \in
          {<<<<"thinking", "budget">>, <<"metadata", "user_id">>, <<"max_tokens">>>>,
           <<<<"model">>, <<"messages", "0", "role">>, <<"stop", "">>, <<>>, <<"metadata">>>>,
           <<<<"tool_choice">>, <<"tool_choice">>, <<"output_config", "effort">>, <<"stream">>>>}}

Completed(parts, finish, usage) ==
  Object(("choices" :> [list |-> <<[parts |-> parts, finish |-> finish]>>])
           @@ ("usage" :> [numbers |-> usage]))
Good ==
  Failing(200, Completed(
     <<<<"thinking", <<"so">>>>, <<"text", <<"done">>>>, <<"call", "read">>>>, "tool_calls",
     ("prompt_tokens" :> 9) @@ ("completion_tokens" :> 2) @@ ("cached_tokens of the details" :> 4)
       @@ ("cache_read_input_tokens" :> 4) @@ ("cache_creation_input_tokens" :> 3)))
Streaming == (ContentType :> EventStream) @@ Sent
Answers ==
  Failures \cup
  {Good, [Good EXCEPT !.headers = Streaming], [Good EXCEPT !.whole = "too large"],
   [Good EXCEPT !.whole = "stalled", !.headers = Streaming],
   [Good EXCEPT !.status = 307, !.headers = (Location :> <<<<"elsewhere">>>>) @@ Sent],
   [Good EXCEPT !.status = 304], [Good EXCEPT !.body = [raw |-> <<"page">>]],
   [Good EXCEPT !.body = Object("choices" :> [list |-> <<>>])],
   [Good EXCEPT !.body = Error(Detail(<<"x">>, <<"context", "length", "exceeded">>, <<"no">>))],
   [Good EXCEPT !.body = Completed(<<<<"text", <<"a">>>>, <<"call", None>>, <<"call", "b">>>>, None,
                                   ("total_tokens" :> 5) @@ ("completion_tokens" :> 3))],
   [Good EXCEPT !.body = Completed(<<>>, "length", ("prompt_tokens" :> 1) @@ ("cached_tokens" :> 3))]}

Session(config, client, fields) ==
  [config |-> config, tells |-> [n \in {"one", "two"} |-> None], path |-> "/v1/messages",
   client |-> client, arrives |-> "whole", fields |-> fields, tools |-> Tools,
   system |-> <<"you are">>, answers |-> {Good}, most |-> 4]
Refused(s) == [s EXCEPT !.most = 1]
Tells(one, two) == ("one" :> one) @@ ("two" :> two)
Naming(s, name) == [s EXCEPT !.fields[<<"model">>] = <<name>>]
Live2 ==
  [And(One([Chatting EXCEPT !.live_models = "yes"]), "two", Relaying) EXCEPT !.v1_auth = "none"]
Living(name) ==
  {Naming([Session(Live2, Full, Asking) EXCEPT !.tells = t, !.most = 1], name) :
     t \in {Tells(OpenAiList, AnthropicList), Tells(None, OpenAiList),
           Tells(AnthropicList, <<>>), Tells(None, BareList)}}
Browsing(path, name) == {[s EXCEPT !.path = path, !.most = 0] : s \in Living(name)}
Answered(config, stream) ==
  [Session(config, Full, (<<"stream">> :> <<stream>>) @@ Asking) EXCEPT !.answers = Answers, !.most = 1]

MCSessions ==
  {Session(One(Forcing), Full, Asking), Session(One(Forcing), Bare, Asking),
   [Session(One(Plain), Full, Choosing) EXCEPT !.most = 5, !.system = <<>>],
   Session(Chats("merge"), Full, Choosing), Session(Chats("user"), Bare, Asking),
   [Session(Chats("keep"), Full, Asking) EXCEPT !.system = <<>>, !.fields[<<"model">>] = <<"n">>],
   [Session(Chats("user"), Full, Asking) EXCEPT !.system = <<>>],
   Session(Open, Full, Asking),
   Naming([Session(Open, Full, Asking) EXCEPT !.tells = Tells(None, OpenAiList)], "n")}
  \cup {Answered(config, stream) : config \in {One(Forcing), Chats("keep")}, stream \in {"true", "false"}}
  \cup {Naming([Answered(Open, "true") EXCEPT !.tells = Tells(None, OpenAiList)], "n")}
  \cup UNION {Living(name) : name \in {"m", "n", "o", "p", "unfit"}} \cup Browsing("/v1/models", "m")
  \cup UNION {Browsing("/v1/models/{id}", name) : name \in {"m", "alias", "n", "o", "p"}}
  \cup {[Session([One(Plain) EXCEPT !.token = "other"], Full, Asking) EXCEPT
           !.path = "/v1/models", !.most = 0]}
  \cup {Refused(s) : s \in
   {Session(One(Plain), Full, <<"max_tokens">> :> <<"9">>),
    Session(One(Plain), Full, <<"model">> :> <<"n">>),
    [Session(Chats("keep"), Full, Asking) EXCEPT !.path = "/v1/messages/count_tokens"],
    [Session(Chats("keep"), Full, Asking) EXCEPT !.fields[<<"max_tokens">>] = <<"mistyped">>],
    [Session(One(Plain), Full, Asking) EXCEPT !.path = "/v1/complete"],
    Session([One(Plain) EXCEPT !.token = "other"], Full, Asking)}
   \cup {[Session(One(Plain), Full, Asking) EXCEPT !.arrives = a] :
           a \in {"BodyTooLarge", "BodyRead", "BodyTimeout"}}
   \cup {Session(config, Full, Asking) : config \in Invalid}}

\* What is written.

MCStretch ==
  [t \in {"hello", "expanded"} |-> [sort |-> "typed", label |-> None]]
    @@ ("/command" :> [sort |-> "command", label |-> None])
    @@ ("reminder" :> [sort |-> "reminder", label |-> None])
    @@ ("wait!" :> [sort |-> "queued", label |-> None])
    @@ ("done" :> [sort |-> "notice", label |-> "task notification"])
    @@ ("output" :> [sort |-> "notice", label |-> "command output"])

Text(stretches) == [type |-> "text", text |-> stretches]
Image(data) == [type |-> "image", source |-> "base64", data |-> data]
Use(id, name, input) == [type |-> "tool_use", id |-> id, name |-> name, input |-> input]
Result(id, is_error, content) ==
  [type |-> "tool_result", id |-> id, is_error |-> is_error, content |-> content]
Reference(name) == [type |-> "tool_reference", name |-> name]
Thinking(signature) == [type |-> "thinking", signature |-> signature]

By(role, sort, typed, blocks) ==
  [message |-> [role |-> role, blocks |-> blocks], turn |-> [sort |-> sort, typed |-> typed]]

MCWrites ==
  {By("user", "prompt", <<"hello">>, <<Text(<<"reminder", "hello">>), Image("i")>>),
   By("user", "prompt", <<"/command">>, <<Text(<<"/command">>), Text(<<"expanded">>)>>),
   By("user", "wakes", <<>>, <<Text(<<"done">>), Text(<<"reminder">>)>>),
   By("user", "goes on", <<>>,
      <<Text(<<"output">>), [type |-> "document", source |-> "text", data |-> "doc"]>>),
   By("user", "prompt", <<"wait!">>,
      <<Result("i:1", "yes", <<Text(<<"failed">>)>>), Text(<<"wait!">>)>>),
   By("user", "goes on", <<>>, <<Result("i:1", "no", <<Text(<<"found">>), Reference("ask")>>)>>),
   By("user", "goes on", <<>>,
      <<Result("i:1", "no", <<Image("seen"), Reference("ask")>>),
        Result("j", "yes", <<Reference("ask"), Reference("ask"), Reference("none")>>),
        Text(<<"done">>)>>),
   By("assistant", "goes on", <<>>, <<Thinking(""), Use("i:1", "read", ("file_path" :> "f"))>>),
   By("assistant", "goes on", <<>>,
      <<Text(<<"both">>), Use("i:1", "find", <<>>), Use("j", "find", <<>>)>>),
   By("assistant", "goes on", <<>>, <<Thinking("")>>),
   By("assistant", "goes on", <<>>, <<Thinking("signed"), Text(<<"answer">>)>>),
   By("system", "goes on", <<>>, <<Text(<<"mid-way">>)>>),
   By("user", "goes on", <<>>, <<[type |-> "search_result"]>>)}

MCBackendNames == <<"one", "two">>
MCUnfit == {"unfit"}

MCAcceptedId == ("i:1" :> "i_1") @@ ("i_1" :> "i_1") @@ ("j" :> "j")

ASSUME MessagesReadAsMeant == ReadAsMeant
=============================================================================
