------------------------------ MODULE Requests ------------------------------
(***************************************************************************)
(* The requests of a conversation, from what the client writes to what a   *)
(* backend is sent and back to what the client is answered (src/server/    *)
(* handlers/proxy.rs, handle; src/server/handlers/openai.rs): let in,      *)
(* routed, rewritten or translated, recorded before it is sent, sent once  *)
(* more with a new credential when the first is rejected, and the answer,  *)
(* or the error, brought into a shape the client reads; and its requests   *)
(* for the models it may name (src/server/handlers/models.rs).             *)
(***************************************************************************)
EXTENDS Answers, ModelLists, ChatRequest

CONSTANTS
  Sessions,     \* [config, tells, path, client, arrives, fields, tools, system, answers,
                \* most]: the lists backends tell, how its requests arrive, what a backend
                \* may answer, bound on its messages
  Writes,       \* [message, turn]: what a client may add, and what it is to the user
  Secrets,      \* what a credential may be
  Stretch       \* TurnSummary's

\* A value in a document, and a body, has one form.
Forms == {"fields", "says", "list", "number", "numbers", "raw"}
ValueType(v) ==
  /\ \E form \in Forms : DOMAIN v = {form}
  /\ "says" \in DOMAIN v => v.says \in Seq(STRING)
  /\ "raw" \in DOMAIN v => v.raw \in Seq(STRING)
  /\ "fields" \in DOMAIN v => IsFiniteSet(DOMAIN v.fields)
Values(v) == {Inside(v)[n] : n \in DOMAIN Inside(v)}
BodyType(body) ==
  /\ ValueType(body)
  /\ \A v \in Values(body) :
       /\ ValueType(v)
       /\ \A w \in Values(v) :
            ValueType(w) /\ \A x \in Values(w) : ValueType(x) /\ Values(x) = {}

PartKinds == {"thinking", "text", "call"}
CompletionType(body) ==
  /\ Field(body, "choices") # Absent =>
       LET list == Field(body, "choices").list
       IN list # <<>> => /\ list[1].parts \in Seq(ToSet(list[1].parts))
                         /\ \A part \in ToSet(list[1].parts) : part[1] \in PartKinds
  /\ Field(body, "usage") # Absent =>
       LET usage == Field(body, "usage").numbers IN usage \in [DOMAIN usage -> Nat]

GivenType(g) ==
  /\ g.status \in Nat /\ BodyType(g.body) /\ CompletionType(g.body)
  /\ g.headers \in [DOMAIN g.headers -> Seq(Seq(STRING))]
  /\ \A n \in DOMAIN g.headers : ToSet(FlattenSeq(g.headers[n])) \cap Unfit = {}
  /\ g.rejects \in Seq(Seq(STRING))

RowType(row) ==
  row # None => \A f \in DOMAIN row : row[f] \in [text : STRING] \cup [number : Nat]
ListType(list) == list \in Seq(ToSet(list)) /\ \A row \in ToSet(list) : RowType(row)

BodyErrors == {"BodyTooLarge", "BodyRead", "BodyTimeout"}

SessionType(s) ==
  /\ FileType(s.config) /\ None \notin RouteType(s.config)
  /\ s.arrives \in {"whole"} \cup BodyErrors
  /\ \A n \in ToSet(BackendNames) : s.tells[n] = None \/ ListType(s.tells[n])
  /\ \A g \in s.answers : GivenType(g)
  /\ s.client \in [DOMAIN s.client -> Seq(Seq(STRING)) \ {<<>>}]
  /\ s.fields \in [DOMAIN s.fields -> Seq(STRING)]
  /\ DOMAIN s.fields \subseteq Seq(STRING) \ {<<>>}
  /\ s.system \in Seq(ToSet(s.system)) /\ s.tools \in Seq(ToSet(s.tools))
  /\ \A p, q \in DOMAIN s.fields : IsPrefix(p, q) => p = q

\* What can be said of a block whatever it is sent as.
BlockType(b) ==
  /\ b.type = "text" => b.text \in Seq(ToSet(b.text))
  /\ b.type = "tool_result" =>
       /\ b.content \in Seq(ToSet(b.content))
       /\ \A c \in ToSet(b.content) : c.type = "text" => c.text \in Seq(ToSet(c.text))
  /\ b.type \in {"tool_use", "tool_result"} =>
       {"type", "id"} \subseteq DOMAIN b /\ b.id \in DOMAIN AcceptedId

\* What the router itself says in a header of an answer.
AnswerWords == {"rtr", "application/json", "text/event-stream", "no-cache"}

Errors == {"NoRoute", "Unauthorized", "UnknownModel", "BadRequest", "NotOnOpenAi", "Translate"}

LateErrors == {"Upstream", "Stopping", "BadUpstreamResponse"}
\* Texts the router writes by itself.
Literals ==
  {"", "whole"} \cup Reasons \cup Errors \cup BodyErrors \cup LateErrors \cup ToSet(PromptTooLong) \cup {"..."}

ASSUME RequestsAssumption ==
  /\ Literals \subseteq STRING
  /\ None \notin STRING \cup Nat \cup Seq(STRING)
  /\ None \notin [text : STRING] \cup [number : Nat]
  /\ None \notin ModelType \cup Seq(ModelType) \cup [backend : STRING, model : ModelType]
  /\ \A fields \in SUBSET (TextFields \cup NumberFields) : None \notin RowsOf(fields)
  /\ None \notin Seq(ShownRows)
  /\ {MaxRejectedFields, MAX_RAW_MESSAGE, MAX_MESSAGE_CHARS} \subseteq Nat
  /\ Secrets \subseteq STRING /\ AnswerWords \cap Unfit = {}
  /\ BackendNames \in Seq(ToSet(BackendNames))
  /\ \A s \in Sessions : SessionType(s)
  /\ \A w \in Writes :
       /\ w.message.blocks \in Seq(ToSet(w.message.blocks))
       /\ \A b \in ToSet(w.message.blocks) :
            BlockType(b) /\ (b.type = "tool_use" => w.message.role = "assistant")
  /\ AcceptedId \in [DOMAIN AcceptedId -> DOMAIN AcceptedId]
  /\ \A id \in DOMAIN AcceptedId : AcceptedId[AcceptedId[id]] = AcceptedId[id]

About == INSTANCE TurnSummary

VARIABLES
  session,
  messages,   \* the conversation so far
  turn,       \* what the user typed for the turn it is in (history)
  phase,
  request,    \* what is made of the last request, and the route it takes
  record,     \* its record in the body log
  wire,       \* what the backend was last sent
  given,      \* what it answered
  answer,     \* what the client is answered
  hints       \* what the console adds to a backend's error

asked == <<session, messages, turn, request, record>>
answered == <<given, answer, hints>>
vars == <<asked, phase, wire, answered>>

Model == session.fields[<<"model">>][1]
RouteOf(name) == Routed(session.config, session.tells, name)
Route == IF <<"model">> \in DOMAIN session.fields THEN RouteOf(Model) ELSE None

Init ==
  /\ session \in {s \in Sessions : Accepted(s.config)}
  /\ messages = <<>> /\ turn = <<>> /\ phase = "writing"
  /\ request = None /\ record = None /\ wire = None
  /\ given = None /\ answer = None /\ hints = None

-----------------------------------------------------------------------------
\* The client.

Blocks(message, type) == {b \in ToSet(message.blocks) : b.type = type}
Ids(message, type) == {b.id : b \in Blocks(message, type)}

\* It answers each call in the message after, and nothing else.
Follows(message) ==
  IF messages = <<>> THEN message.role # "assistant" /\ Blocks(message, "tool_result") = {}
  ELSE LET last == messages[Len(messages)]
       IN /\ Ids(message, "tool_result") = Ids(last, "tool_use")
          /\ Ids(last, "tool_use") # {} => message.role = "user"
          /\ message.role = "assistant" => last.role # "assistant"

Write ==
  /\ phase \in {"writing", "answered"} /\ Len(messages) < session.most
  /\ \E w \in Writes :
       /\ Follows(w.message)
       /\ messages' = Append(messages, w.message)
       /\ turn' = IF w.turn.sort = "goes on" THEN turn ELSE w.turn.typed
  /\ phase' = "writing" /\ wire' = None /\ record' = None
  /\ given' = None /\ answer' = None /\ hints' = None
  /\ UNCHANGED <<session, request>>

-----------------------------------------------------------------------------
\* The router.

\* openai::prepare, or the body relayed.
Translated(route, conversation) ==
  LET fields == DropAll(session.fields, route.backend.drop_fields)
      decoded == Decode(conversation, session.tools)
  IN IF Mistyped(fields) \/ decoded = None THEN None
     ELSE [fields |-> SetAll(ChatFields(fields, route.upstream_model),
                             Resolve(route.backend, session.client)),
           messages |-> Encode(session.system, decoded, route.placement),
           tools |-> SentTools(session.tools, conversation)]

Prepared(route, conversation) ==
  CASE route.backend.kind = "passthrough" ->
         [fields |-> session.fields, messages |-> conversation, tools |-> session.tools]
    [] route.backend.kind = "anthropic" ->
         [fields |-> Relayed(session.fields, route, Resolve(route.backend, session.client)),
          messages |-> ForAnthropic(conversation), tools |-> session.tools]
    [] route.backend.kind = "openai" -> Translated(route, conversation)

\* require_v1: either header carries the token.
Authorized ==
  LET token == session.config.token
      first(n) == IF n \in DOMAIN session.client THEN session.client[n][1] ELSE <<>>
  IN \/ session.config.v1_auth = "none"
     \/ first(XApiKey) = <<token>>
     \/ first(Authorization) = <<"Bearer", token>>

Lists == {"/v1/models", "/v1/models/{id}"}
Routes == {"/v1/messages", "/v1/messages/count_tokens"} \cup Lists

\* The models asked for; of one that is not there, None.
Models ==
  IF session.path = "/v1/models" THEN Listed(session.config, session.tells)
  ELSE LET model == ModelCalled(session.config, session.tells, Model)
       IN IF model = None THEN None ELSE <<model>>

\* What is wrong with a request, in the order it is looked at; None when it is admitted.
Refusal(route) ==
  IF session.path \notin Routes THEN "NoRoute"
  ELSE IF ~Authorized THEN "Unauthorized"
  ELSE IF session.path \in Lists THEN IF Models = None THEN "UnknownModel" ELSE None
  ELSE IF session.arrives # "whole" THEN session.arrives
  ELSE IF <<"model">> \notin DOMAIN session.fields THEN "BadRequest"
  ELSE IF route = None THEN "UnknownModel"
  ELSE IF route.backend.kind = "openai" /\ session.path # "/v1/messages" THEN "NotOnOpenAi"
  ELSE IF Prepared(route, messages) = None THEN "Translate"
  ELSE None

Asks == phase = "writing" /\ (messages # <<>> \/ session.path \in Lists)

Refuse ==
  /\ Asks
  /\ \E route \in {Route} : \E error \in {Refusal(route)} \ {None} :
       answer' = RouterAnswer(error, IF error \in {"Translate", "NotOnOpenAi"}
                                     THEN route.name ELSE None)
  /\ phase' = "answered"
  /\ UNCHANGED <<asked, wire, given, hints>>

Show ==
  /\ Asks /\ session.path \in Lists /\ Authorized
  /\ \E models \in {Models} \ {None} :
       answer' = [by |-> "models", status |-> 200,
                  headers |-> OwnHeaders(JsonType),
                  body |-> [models |-> [i \in DOMAIN models |-> EncodeModel(models[i])]]]
  /\ phase' = "answered"
  /\ UNCHANGED <<asked, wire, given, hints>>

\* request_record is written before the credential is acquired.
Handle ==
  /\ Asks /\ session.path \notin Lists
  /\ \E route \in {Route} :
       LET b == route.backend
           headers == UpstreamHeaders(session.client, b)
       IN /\ Refusal(route) = None
          /\ request' = [route |-> route, headers |-> headers, body |-> Prepared(route, messages)]
          /\ record' = [request_headers |-> SentHeaders(b, headers),
                        dropped_headers |-> DroppedHeaders(session.client, b),
                        summary |-> About!Summary(messages)]
  /\ phase' = "handled"
  /\ UNCHANGED <<session, messages, turn, wire, answered>>

Attempt(secret) ==
  /\ wire' = [headers |-> Attempted(request.route.backend, request.headers, secret),
              body |-> request.body,
              proxy |-> ProxyOf(session.config, request.route.backend.url.origin)]
  /\ phase' = "sent"
  /\ UNCHANGED <<asked, answered>>

Send == phase = "handled" /\ \E secret \in Secrets : Attempt(secret)

\* The credential is rejected and another acquired.
Resend == phase = "sent" /\ request.route.backend.credential # None
            /\ \E secret \in Secrets : Attempt(secret)

\* No credential, no backend, no answer in time; or a stop whose grace is over.
Fail ==
  /\ phase \in {"handled", "sent"}
  /\ \E error \in {"Upstream", "Stopping"} : answer' = RouterAnswer(error, request.route.name)
  /\ phase' = "answered" /\ wire' = None
  /\ UNCHANGED <<asked, given, hints>>

Streams == <<"stream">> \in DOMAIN session.fields /\ session.fields[<<"stream">>] = <<"true">>

Respond ==
  /\ phase = "sent"
  /\ \E g \in session.answers :
       /\ given' = g
       /\ answer' = Answer(request.route, Streams, g)
       /\ hints' = IF g.status >= 400 /\ g.whole = "whole"
                   THEN HintsOf(request.route.backend, g) ELSE None
  /\ phase' = "answered" /\ wire' = None
  /\ UNCHANGED asked

Next == Write \/ Refuse \/ Show \/ Handle \/ Send \/ Resend \/ Fail \/ Respond

Spec == Init /\ [][Next]_vars

-----------------------------------------------------------------------------
Tokens(headers) == UNION {ToSet(FlattenSeq(headers[n])) : n \in DOMAIN headers}

\* What the record says was sent is what was, attempt after attempt, and a header of the
\* client's is there as it was, or listed as dropped, or replaced by the credential;
\* headers.rs:255-360.
HeadersRecorded ==
  phase = "sent" =>
    LET sent == record.request_headers
        b == request.route.backend
        client == session.client
    IN /\ DOMAIN sent = DOMAIN wire.headers
       /\ \A n \in DOMAIN sent : sent[n].value \in {Redacted, wire.headers[n]}
       /\ \A n \in DOMAIN client :
            \/ n \in DOMAIN record.dropped_headers
            \/ n \in DOMAIN sent /\ client[n] = wire.headers[n]
            \/ n = Beta /\ ToSet(FlattenSeq(client[n])) \subseteq ToSet(wire.headers[n][1])
            \/ b.credential # None /\ n = b.credential.header
       /\ \A n \in DOMAIN record.dropped_headers \cap DOMAIN sent :
            \/ sent[n].source \in {"credential", "transport"}
            \/ sent[n].source = "backend" /\ n = Beta
            \/ /\ sent[n].source = "backend"
               /\ \E h \in ToSet(b.headers) :
                    h.name = n /\ wire.headers[n] = <<Render(h.value, client)>>
       /\ \A n \in DOMAIN sent : sent[n].source = "default" => wire.headers[n] = client[n]

Credentials == {Authorization, XApiKey}
Own(client) == Tokens(Restrict(client, DOMAIN client \cap Credentials)) \ {"Bearer"}
OfClient(client) == Tokens(Restrict(client, DOMAIN client \ Credentials))
OfBackend(b) ==
  LET spelled(template) == {p.text : p \in {q \in ToSet(template) : "text" \in DOMAIN q}}
  IN {b.url.origin} \cup ToSet(b.anthropic_beta)
       \cup (IF b.credential = None THEN {} ELSE ToSet(b.credential.scheme))
       \cup UNION {spelled(h.value) : h \in ToSet(b.headers) \cup ToSet(b.set_fields)}
OfFields(fields) == UNION {ToSet(fields[p]) : p \in DOMAIN fields}

\* No credential is also a word of what is sent on purpose.
Apart(route) ==
  LET words == OfClient(session.client) \cup OfBackend(route.backend)
                 \cup OfFields(session.fields) \cup {route.upstream_model} \cup OwnWords
  IN Own(session.client) \cap (words \cup Secrets) = {} /\ Secrets \cap words = {}

\* The client's own credential reaches a passthrough backend only, and no secret the
\* record; template.rs:8, proxy.rs:457-461.
SecretsStay ==
  phase = "sent" /\ Apart(request.route) =>
    LET b == request.route.backend
        sent == record.request_headers
        shown == [n \in DOMAIN sent |-> IF sent[n].value = Redacted THEN <<>> ELSE sent[n].value]
    IN /\ b.kind # "passthrough" =>
            Own(session.client) \cap (Tokens(wire.headers) \cup OfFields(wire.body.fields)) = {}
       /\ Tokens(shown) \cap (Own(session.client) \cup Secrets) = {}
       /\ \A n \in ForcedNames(b) \cap DOMAIN sent :
            sent[n].value = Redacted \/ sent[n].source = "transport"

\* Every header of a request is accounted for, and no secret crosses or is written down.
HeadersAccountedFor == HeadersRecorded /\ SecretsStay

\* No header an entry of drop_headers stands for crosses; drop_headers.rs:29.
DropsWhatItStandsFor ==
  phase = "sent" =>
    \A entry \in request.route.backend.drop_headers : \A e \in Entry(entry) :
      \A n \in DOMAIN session.client \cap DOMAIN wire.headers :
        StandsFor(e, n) => wire.headers[n] # session.client[n]

\* A backend is sent what its configuration says: through its own proxy, its name of the
\* model, each field set last and as it says, none it drops, and the rest as the client
\* wrote it; request.rs:81-91, set_fields.rs, ADR-0012.
SentAsConfigured ==
  phase = "sent" =>
    LET b == request.route.backend
        set == Resolve(b, session.client)
        paths == {f.path : f \in set}
        fields == wire.body.fields
        kept == {p \in DOMAIN session.fields : ~Under(p, b.drop_fields) /\ ~Meets(p, paths)}
    IN /\ wire.proxy = b.proxy
       /\ \A f \in set : f.path \in DOMAIN fields /\ fields[f.path] = f.value
       /\ b.kind = "passthrough" => fields = session.fields
       /\ b.kind # "passthrough" => fields[<<"model">>] = <<request.route.upstream_model>>
       /\ b.kind = "anthropic" =>
            /\ \A p \in kept \ {<<"model">>} : p \in DOMAIN fields /\ fields[p] = session.fields[p]
            /\ DOMAIN fields \subseteq kept \cup paths \cup {<<"model">>}
       /\ b.kind = "openai" =>
            \A p \in kept \cap DOMAIN Parameter :
              Meets(Parameter[p], paths) \/ ~Written(session.fields, p) \/
                p = <<"model">> \/ Parameter[p] \in DOMAIN fields

-----------------------------------------------------------------------------
Chatted == phase = "sent" /\ request.route.backend.kind = "openai"

\* What operator Of gives of each message of a chat, and of each block of the conversation.
Each(chat, Of(_)) == FlattenSeq([i \in DOMAIN chat |-> Of(chat[i])])
EachBlock(Of(_)) ==
  FlattenSeq([i \in DOMAIN messages |->
    FlattenSeq([k \in DOMAIN messages[i].blocks |-> Of(messages[i].blocks[k])])])

CallOf(b) == IF b.type = "tool_use" THEN <<<<b.id, b.name, b.input>>>> ELSE <<>>
CallsIn(m) == [k \in DOMAIN m.calls |-> <<m.calls[k].id, m.calls[k].name, m.calls[k].input>>]

Wording == {"text", "omitted"}
Items(text, heads) ==
  FlattenSeq([j \in DOMAIN text |-> IF text[j][1] \in heads THEN <<text[j]>> ELSE <<>>])
Saying(blocks) == FlattenSeq([k \in DOMAIN blocks |-> TextOf(blocks[k])])

\* A tool's result, whether it failed, and what it says.
ResultOf(b) ==
  IF b.type = "tool_result"
  THEN <<<<b.id, IF b.is_error = "yes" THEN "failed" ELSE "done", Saying(b.content)>>>> ELSE <<>>
ResultIn(m) ==
  IF m.role = "tool"
  THEN <<<<m.id, IF m.content # <<>> /\ m.content[1] = <<"tool error">> THEN "failed" ELSE "done",
           Items(m.content, Wording)>>>>
  ELSE <<>>

\* What messages of tools say, and the others.
ToolSays(m) == IF m.role = "tool" THEN Items(m.content, {"function"}) ELSE <<>>
SaysItself(m) == IF m.role = "tool" THEN <<>> ELSE Items(m.content, Wording)

\* Images, those of a result under its id.
ImageIn(m) == IF m.role = "tool" THEN <<>> ELSE Items(m.content, {"image", "images of"})
PicturesOf(b) ==
  IF b.type = "image" THEN Imaged(<<b.data>>)
  ELSE IF b.type = "tool_result" /\ Images(b.content) # <<>>
       THEN <<<<"images of", b.id>>>> \o Imaged(Images(b.content)) ELSE <<>>

ReferencedBy(b) == IF b.type = "tool_result" THEN References(b.content) ELSE <<>>

\* What the messages of these roles say outside tool results.
SaidBy(roles) ==
  FlattenSeq([i \in DOMAIN messages |->
    IF messages[i].role \in roles THEN Saying(messages[i].blocks) ELSE <<>>])

\* Translated, a conversation loses nothing: every call, every result under its call's
\* id, with its text and whether it failed, every other text and every image, in order;
\* and a deferred tool is sent when it is named, its definition spelled once, where it is
\* first; decode.rs, openai/request.rs.
ChatIsFaithful ==
  Chatted =>
    LET chat == wire.body.messages
        tools == ToSet(wire.body.tools)
        named == ToSet(EachBlock(ReferencedBy))
        functions == Each(chat, ToolSays)
    IN /\ Each(chat, CallsIn) = EachBlock(CallOf)
       /\ Each(chat, ResultIn) = EachBlock(ResultOf)
       /\ Each(chat, ImageIn) = EachBlock(PicturesOf)
       /\ Each(chat, SaysItself) =
            Texts(session.system) \o
              (IF request.route.placement = "merge"
               THEN SaidBy({"system"}) \o SaidBy({"user", "assistant"})
               ELSE SaidBy({"system", "user", "assistant"}))
       /\ {functions[i][2] : i \in DOMAIN functions} = named
       /\ \A i \in DOMAIN functions :
            functions[i][3] = "defined" <=>
              /\ \E t \in tools : t.name = functions[i][2]
              /\ \A k \in 1..i - 1 : functions[k][2] # functions[i][2]
       /\ tools = {t \in ToSet(session.tools) : t.defer_loading # "yes" \/ t.name \in named}

\* A tool's result comes right after its call, under an id the backend takes and the
\* call has too; openai/request.rs:121-123, anthropic/request.rs:187.
FollowsCall(sent, i) ==
  \E k \in 1..i - 1 :
    /\ \A j \in k + 1..i - 1 : sent[j].role = "tool"
    /\ sent[k].role # "tool" /\ \E c \in ToSet(sent[k].calls) : c.id = sent[i].id

AnswersFindTheirCalls ==
  phase = "sent" =>
    LET sent == wire.body.messages
        kind == request.route.backend.kind
    IN /\ kind = "openai" =>
            \A i \in DOMAIN sent : sent[i].role = "tool" => FollowsCall(sent, i)
       /\ kind = "anthropic" =>
            \A i \in DOMAIN sent : \A id \in Ids(sent[i], "tool_result") :
              i > 1 /\ id \in Ids(sent[i - 1], "tool_use") /\ AcceptedId[id] = id
       /\ kind = "passthrough" => sent = messages

\* What a backend has been sent of a conversation stays as it was in every later request,
\* so it can keep what it made of it: text dropped, spelled or moved once is so again.
\* Not with "merge", which is for moving what comes later to the front.
PrefixKept ==
  [][ phase' = "handled" /\ request # None /\ request.route.placement # "merge" =>
        IsPrefix(request.body.messages, request'.body.messages) ]_vars

-----------------------------------------------------------------------------
\* A backend's own answer, brought back by the router; a failing one.
Brought == phase = "answered" /\ answer.by = "backend"
FailedThere == Brought /\ given.status >= 400

MessageOf(body) == StrField(Field(body, "error"), "message")
TypeOf(body) == StrField(Field(body, "error"), "type")
ApiTypes ==
  {<<"invalid", "request", "error">>, <<"authentication", "error">>, <<"permission", "error">>,
   <<"not", "found", "error">>, <<"request", "too", "large">>, <<"rate", "limit", "error">>,
   <<"api", "error">>, <<"overloaded", "error">>}
OfMessages(body) == StrField(body, "type") = <<"error">> /\ MessageOf(body) # None

\* As the API itself writes it.
OfApi(body) ==
  OfMessages(body) /\ TypeOf(body) \in ApiTypes /\ StrField(Field(body, "error"), "code") = None

\* What a failing backend says, of a body that is no error document as far as it is read,
\* and whether that is that the context is too long: in its words, however many, or an
\* OpenAI one also in the names of an error document.
SaidBack(body) ==
  IF ErrorDocument(body) # None THEN ErrorDocument(body) ELSE First(Shown(body), MAX_RAW_MESSAGE)
Overflows(kind, body) ==
  \/ SaysContextExceeded(SaidBack(body))
  \/ /\ kind = "openai" /\ ErrorDocument(body) # None
     /\ \E n \in ToSet(ErrorNames(body)) \ {None} : SaysContextExceeded(n)

\* All of the words, or as many as a message may have and a mark that there were more.
Abridged(words) ==
  IF Len(words) <= MAX_MESSAGE_CHARS THEN words
  ELSE SubSeq(words, 1, MAX_MESSAGE_CHARS) \o <<"...">>

\* A failure keeps its status and what it means: an overflow of the context starts as a
\* client compacts on it, wherever an error document says so, past the message's limit
\* too, or the part of another body that is read; an error of another kind as the API
\* writes it comes out as it went in, through either kind of backend; an OpenAI one's
\* words are there up to that limit; nothing else is touched; error.rs:113-119, ADR-0020.
FailuresKeepTheirMeaning ==
  FailedThere =>
    LET kind == request.route.backend.kind
        body == answer.body
        overflow == Overflows(kind, given.body)
    IN /\ answer.status = given.status
       /\ kind = "passthrough" => body = given.body
       /\ kind # "passthrough" /\ overflow /\ (kind = "openai" \/ OfMessages(given.body)) =>
            /\ IsPrefix(PromptTooLong, MessageOf(body))
            /\ TypeOf(body) = IF kind = "openai" THEN <<"invalid", "request", "error">>
                              ELSE TypeOf(given.body)
       /\ kind # "passthrough" /\ ~overflow /\ OfApi(given.body)
            /\ given.status = TypeStatus(TypeOf(given.body)) =>
            /\ TypeOf(body) = TypeOf(given.body)
            /\ kind = "anthropic" => MessageOf(body) = MessageOf(given.body)
       /\ kind = "openai" =>
            /\ OfApi(body)
            /\ MessageOf(body) = (IF overflow THEN PromptTooLong ELSE <<>>)
                                   \o Abridged(SaidBack(given.body))
       /\ kind = "anthropic"
            /\ ~(/\ overflow /\ OfMessages(given.body)
                 /\ ~IsPrefix(PromptTooLong, MessageOf(given.body))) =>
            body = given.body

OwnNames == {XRouterBackend, XRouterModel, XRouterUpstreamModel}

\* Nothing of the connection to the backend comes back, all else does; no name in a header
\* is one a header cannot carry, headers.rs:28; the client reads what it asked for: events,
\* when it asked for them, else a document.
AnswersAreReadable ==
  phase = "answered" =>
    LET told == answer.headers
    IN /\ DOMAIN told \cap (HopByHop \cup {ContentLength}) = {}
       /\ RequestId \in DOMAIN told /\ Tokens(told) \cap Unfit = {}
       /\ answer.by \notin {"backend", "models"} => OfApi(answer.body) /\ answer.status >= 400
       /\ Location \notin DOMAIN told \/ answer.status \notin 300..399
       /\ answer.by = "backend" =>
            LET b == request.route.backend
                over == {RequestId} \cup (IF b.kind = "passthrough" THEN {} ELSE OwnNames)
                          \cup (IF b.kind = "openai" THEN {ContentType, CacheControl} ELSE {})
            IN /\ \A n \in DOMAIN given.headers \ (HopByHop \cup {ContentLength}) :
                    n \in DOMAIN told /\ (n \in over \/ told[n] = given.headers[n])
               /\ b.kind = "openai" =>
                    (IsEventStream(told) <=> Streams /\ answer.status < 400)

\* The prompt's tokens are told once: what is new and what a cache held add up to them,
\* unless the backend itself counts more in the cache than there is; common.rs:160-162.
TokensAddUp ==
  Brought /\ "events" \in DOMAIN answer.body =>
    \A e \in ToSet(answer.body.events) : e[1] = "usage" =>
      LET usage == given.body.fields["usage"].numbers
          prompt == IF "prompt_tokens" \in DOMAIN usage THEN usage["prompt_tokens"]
                    ELSE Minus(Count(usage, "total_tokens"), e[2].output)
          told(names) == {usage[n] : n \in names \cap DOMAIN usage} \cup {0}
      IN \/ e[2].input + e[2].read + e[2].write = prompt
         \/ \E r \in told(CacheRead), w \in told(CacheWrite) : r + w > prompt

\* The file with more fields for a backend to drop.
Dropping(config, name, paths) ==
  LET b == config.backends[name]
  IN With(config, "backends",
          With(config.backends, name, With(b, "drop_fields", b.drop_fields \cup paths)))

\* Dropping what a hint says to drop is a file the router takes, and rids the request of
\* what was rejected; hints.rs:71-84.
HintsHelp ==
  phase = "answered" /\ hints # None /\ hints.drop # <<>> =>
    LET dropped == ToSet(hints.drop)
        config == Dropping(session.config, request.route.name, dropped)
        sent(route) == Relayed(session.fields, route, Resolve(route.backend, session.client))
        fields == sent(Routed(config, session.tells, Model))
    IN /\ Accepted(config)
       /\ \A path \in DOMAIN fields : ~Under(path, dropped)

IsShownAs(m, route) ==
  route # None /\ route.id = m.id /\ route.display_name = m.display_name

\* The first model of a list by its name.
FirstCalled(models, i) == \A k \in 1..i - 1 : models[k].id # models[i].id

OffersAll(offered, all) ==
  /\ offered = all
  /\ \A i \in DOMAIN all : FirstCalled(all, i) => IsShownAs(all[i], RouteOf(all[i].id))
  /\ \A n \in ToSet(BackendNames) : IsLive(session.config, n) =>
       LET tells == session.tells[n]
       IN /\ \A m \in ToSet(Told(session.config, session.tells, n)) :
               \/ \E other \in ToSet(all) : other.id = m.id
               \/ \E t \in ToSet(session.config.models) : m.id \in ToSet(t.aliases)
          /\ tells # None /\ Identified(tells) # <<>> =>
               DecodeModels(session.config.backends[n].kind, tells) # <<>>

OffersOne(offered, all) ==
  /\ Len(offered) = 1 /\ IsShownAs(offered[1], RouteOf(Model))
  /\ \E i \in DOMAIN all : FirstCalled(all, i) /\ offered[1] = all[i]

\* What a client is told of models is what its requests are routed by: each it is offered
\* goes where the list means it, under the name it is shown by, and each a live backend
\* has is offered, but for an alias of the table, whichever shape its list has; one asked
\* for by its name is the one in the list, and is not there only if none but the default
\* would serve it; and a router before this one reads the list as it was written, if no
\* model of the file is shown by an empty name.  ADR-0016:34, ADR-0017:34.
ListsAreRoutes ==
  phase = "answered" /\ (\A m \in ToSet(session.config.models) : m.display_name # "") =>
    LET offered == ModelsOf("anthropic", answer.body.models)
        all == Listed(session.config, session.tells)
    IN /\ answer.by = "models" /\ session.path = "/v1/models" => OffersAll(offered, all)
       /\ answer.by = "models" /\ session.path = "/v1/models/{id}" => OffersOne(offered, all)
       /\ answer.by = "UnknownModel" /\ session.path = "/v1/models/{id}" =>
            Routed(With(session.config, "default", None), session.tells, Model) = None

\* What a client is answered is what happened, in a shape it can read.
AnswersTell ==
  FailuresKeepTheirMeaning /\ AnswersAreReadable /\ TokensAddUp /\ HintsHelp /\ ListsAreRoutes

\* A backend is told the conversation the client had, whole and so that it is taken.
ConversationKept == ChatIsFaithful /\ AnswersFindTheirCalls

\* How many results a step says it returns.
Counted(returns) ==
  LET sum[k \in 0..Len(returns)] == IF k = 0 THEN 0 ELSE sum[k - 1] + returns[k].count
  IN sum[Len(returns)]

\* The lists show a request under what the user typed for its turn, read from the
\* messages alone; summary.rs:14-19, 127-131.
NamesItsTurn == phase = "handled" => record.summary.prompt = turn

\* What they say it sends, when that is no prompt, accounts for every result it returns,
\* each as one of the calls just made, also where an id was used before; summary.rs:20-30,
\* 350-385.
TellsItsResults ==
  phase = "handled" =>
    LET n == Len(messages)
        blocks == messages[n].blocks
        results == {k \in DOMAIN blocks : blocks[k].type = "tool_result"}
        step == record.summary.step
    IN messages[n].role = "user" =>
         /\ record.summary.answers <=> results # {}
         /\ step # None =>
              /\ Counted(step.returns) = Cardinality(results)
              /\ \A called \in ToSet(step.returns) :
                   \E b \in Blocks(messages[n - 1], "tool_use") : b.name = called.name

SummaryTellsTheTurn == NamesItsTurn /\ TellsItsResults

\* What is assumed for it: a message read by itself opens a turn if it is meant to, and
\* says what was typed.
Opens(m) == m.role = "user" /\ About!EndsReading(About!Read(m))
ReadAsMeant ==
  \A w \in Writes :
    /\ w.turn.sort = "goes on" <=> ~Opens(w.message)
    /\ w.turn.sort # "goes on" => w.turn.typed = About!Read(w.message).prompt
=============================================================================
