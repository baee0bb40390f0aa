------------------------------- MODULE Answers -------------------------------
(***************************************************************************)
(* What a client is answered: the router's own errors (src/server/error.rs) *)
(* and what is made of a backend's answer (src/server/handlers/proxy.rs,   *)
(* openai.rs, src/anthropic/error.rs, src/openai/error.rs, response.rs),   *)
(* with the hints an error is listed under (src/activity/hints.rs).        *)
(* A text is a sequence of words, in lower case and without separators.  A *)
(* JSON value is [fields], [says], [list] or [number]; a body that is no   *)
(* JSON is [raw].  A backend's answer is [status, headers, body, rejects,  *)
(* window, whole].                                                         *)
(***************************************************************************)
EXTENDS Forwarding

CONSTANTS
  MaxRejectedFields,
  MAX_RAW_MESSAGE,     \* limits on a message; counted in words, a cut falls between two
  MAX_MESSAGE_CHARS

JsonType == <<<<"application/json">>>>
EventStream == <<<<"text/event-stream">>>>
CacheControl == <<"cache", "control">>
NoCache == <<<<"no-cache">>>>
Location == <<"location">>
RequestId == <<"x", "request", "id">>
XRouterBackend == <<"x", "anthroxy", "backend">>
XRouterModel == <<"x", "anthroxy", "model">>
XRouterUpstreamModel == <<"x", "anthroxy", "upstream", "model">>

Has(text, words) ==
  \E i \in 0..Len(text) - Len(words) : SubSeq(text, i + 1, i + Len(words)) = words
HasAny(text, phrases) == \E words \in phrases : Has(text, words)

ContextExceeded ==
  {<<"context", "length", "exceeded">>, <<"exceed", "context", "size">>,
   <<"exceeds", "the", "available", "context", "size">>, <<"maximum", "context", "length">>,
   <<"context", "size", "has", "been", "exceeded">>, <<"context", "window", "exceeded">>}
SaysContextExceeded(text) == HasAny(text, ContextExceeded)

PromptTooLong == <<"prompt is too long: ">>

-----------------------------------------------------------------------------
\* JSON.

Says(words) == [says |-> words]
Absent == <<>>
Field(value, name) ==
  IF "fields" \in DOMAIN value /\ name \in DOMAIN value.fields
  THEN value.fields[name] ELSE Absent
Said(value) == IF "says" \in DOMAIN value THEN value.says ELSE None
StrField(value, name) == Said(Field(value, name))

\* A body or a value in it as text; what it says is in it.  No error's document is
\* deeper than three objects.
Inside(value) == IF "fields" \in DOMAIN value THEN value.fields ELSE <<>>
ShownBy(value, inside) ==
  LET names == SetToSeq(DOMAIN inside)
  IN IF "says" \in DOMAIN value THEN value.says
     ELSE IF "raw" \in DOMAIN value THEN value.raw
     ELSE FlattenSeq([i \in DOMAIN names |-> inside[names[i]]])
ShownLeaf(value) == ShownBy(value, <<>>)
ShownFlat(value) ==
  ShownBy(value, [n \in DOMAIN Inside(value) |-> ShownLeaf(Inside(value)[n])])
ShownNested(value) ==
  ShownBy(value, [n \in DOMAIN Inside(value) |-> ShownFlat(Inside(value)[n])])
Shown(value) ==
  ShownBy(value, [n \in DOMAIN Inside(value) |-> ShownNested(Inside(value)[n])])

-----------------------------------------------------------------------------
\* Failures: [kind, message].

First(words, n) == SubSeq(words, 1, Min({Len(words), n}))

\* Failure::new
NewFailure(kind, message) ==
  [kind |-> kind,
   message |-> IF Len(message) > MAX_MESSAGE_CHARS
               THEN SubSeq(message, 1, MAX_MESSAGE_CHARS) \o <<"...">> ELSE message]

FromStatus(status) ==
  CASE status = 400 -> "InvalidRequest" [] status = 401 -> "Authentication"
    [] status = 403 -> "Permission"     [] status = 404 -> "NotFound"
    [] status = 413 -> "TooLarge"       [] status = 429 -> "RateLimit"
    [] status = 529 -> "Overloaded"     [] OTHER -> "Upstream"

FromKind(kind) ==
  CASE kind \in {"InvalidRequest", "ContextExceeded"} -> <<"invalid", "request", "error">>
    [] kind = "Authentication" -> <<"authentication", "error">>
    [] kind = "Permission" -> <<"permission", "error">>
    [] kind = "NotFound" -> <<"not", "found", "error">>
    [] kind = "TooLarge" -> <<"request", "too", "large">>
    [] kind = "RateLimit" -> <<"rate", "limit", "error">>
    [] kind = "Overloaded" -> <<"overloaded", "error">>
    [] OTHER -> <<"api", "error">>

TypeStatus(type) ==
  CASE type = <<"invalid", "request", "error">> -> 400 [] type = <<"authentication", "error">> -> 401
    [] type = <<"permission", "error">> -> 403      [] type = <<"not", "found", "error">> -> 404
    [] type = <<"request", "too", "large">> -> 413     [] type = <<"rate", "limit", "error">> -> 429
    [] type = <<"api", "error">> -> 500             [] OTHER -> 529

ErrorText(error) ==
  IF Said(error) # None THEN Said(error)
  ELSE IF StrField(error, "message") # None THEN StrField(error, "message")
  ELSE Shown(error)

\* error_document, None when root is not one.
ErrorDocument(root) ==
  IF Field(root, "error") # Absent THEN ErrorText(Field(root, "error"))
  ELSE IF StrField(root, "object") # <<"error">> THEN None
  ELSE IF StrField(root, "message") # None THEN StrField(root, "message") ELSE Shown(root)

\* The names of a failure, most specific first; None is one that is not there.
TypeAndCode(object) == <<StrField(object, "type"), StrField(object, "code")>>
ErrorNames(root) ==
  LET error == Field(root, "error")
  IN TypeAndCode(IF "fields" \in DOMAIN error THEN error ELSE root)

NamedKind(name) ==
  IF HasAny(name, {<<"rate", "limit">>, <<"quota">>}) THEN "RateLimit"
  ELSE IF HasAny(name, {<<"overloaded">>, <<"unavailable">>, <<"capacity">>}) THEN "Overloaded"
  ELSE IF HasAny(name, {<<"authentication">>, <<"api", "key">>, <<"unauthorized">>})
       THEN "Authentication"
  ELSE IF HasAny(name, {<<"permission">>, <<"forbidden">>}) THEN "Permission"
  ELSE IF HasAny(name, {<<"not", "found">>}) THEN "NotFound"
  ELSE IF HasAny(name, {<<"too", "large">>, <<"too", "long">>}) THEN "TooLarge"
  ELSE IF HasAny(name, {<<"invalid">>, <<"bad", "request">>}) THEN "InvalidRequest"
  ELSE None

\* find_map over the names; Upstream when none of them says more.
KindNamed(names) ==
  LET kinds == {i \in DOMAIN names : names[i] # None /\ NamedKind(names[i]) # None}
  IN IF kinds = {} THEN "Upstream" ELSE NamedKind(names[Min(kinds)])

\* A mutant: what it says is read where its status says nothing.
DecodeErrorByStatus(status, raw) ==
  LET message == IF ErrorDocument(raw) = None THEN First(Shown(raw), MAX_RAW_MESSAGE)
                 ELSE ErrorDocument(raw)
      by == IF status = None THEN "Upstream" ELSE FromStatus(status)
  IN NewFailure(IF by = "Upstream" /\ SaysContextExceeded(message) THEN "ContextExceeded" ELSE by,
                message)

\* openai/error.rs, decode: what is no error document is cut before it is looked at, the
\* message of one after.  status is None inside an answer of status 200.
DecodeError(status, raw) ==
  LET message == IF ErrorDocument(raw) = None THEN First(Shown(raw), MAX_RAW_MESSAGE)
                 ELSE ErrorDocument(raw)
      names == IF ErrorDocument(raw) = None THEN <<>> ELSE ErrorNames(raw)
      by == IF status = None THEN "Upstream" ELSE FromStatus(status)
      overflow == \E text \in (ToSet(names) \ {None}) \cup {message} : SaysContextExceeded(text)
  IN NewFailure(IF overflow THEN "ContextExceeded"
                ELSE IF by # "Upstream" THEN by ELSE KindNamed(names),
                message)

ErrorBody(type, message) ==
  [fields |-> [type |-> Says(<<"error">>),
               error |-> [fields |-> [type |-> Says(type), message |-> Says(message)]]]]

EncodeError(failure) ==
  ErrorBody(FromKind(failure.kind),
            (IF failure.kind = "ContextExceeded" THEN PromptTooLong ELSE <<>>) \o failure.message)

Put(object, name, value) == [fields |-> With(object.fields, name, value)]

\* Else the body is relayed as it is.
RewordError(raw) ==
  LET error == Field(raw, "error")
      text == StrField(error, "message")
  IN IF /\ StrField(raw, "type") = <<"error">> /\ text # None
        /\ ~IsPrefix(PromptTooLong, text) /\ SaysContextExceeded(text)
     THEN Put(raw, "error", Put(error, "message", Says(PromptTooLong \o text)))
     ELSE raw

-----------------------------------------------------------------------------
\* RouterError.

RouterErrorType(error) ==
  CASE error = "Unauthorized" -> <<"authentication", "error">>
    [] error \in {"BadRequest", "BodyRead", "BodyTimeout", "Translate"} ->
         <<"invalid", "request", "error">>
    [] error = "BodyTooLarge" -> <<"request", "too", "large">>
    [] error \in {"UnknownModel", "NoRoute", "NotOnOpenAi"} -> <<"not", "found", "error">>
    [] OTHER -> <<"api", "error">>

RouterErrorStatus(error) ==
  CASE error \in {"Upstream", "BadUpstreamResponse"} -> 502
    [] error = "Stopping" -> 503
    [] error = "BodyTimeout" -> 408
    [] OTHER -> TypeStatus(RouterErrorType(error))

\* A document of the router's own, under the request's id.
OwnHeaders(type) ==
  [n \in {RequestId, ContentType} |-> IF n = RequestId THEN <<<<"rtr">>>> ELSE type]

\* into_response, then request_id::assign.  backend is None for an error of none.
RouterAnswer(error, backend) ==
  [by |-> error, status |-> RouterErrorStatus(error),
   headers |-> IF error \in {"Upstream", "Translate", "NotOnOpenAi", "BadUpstreamResponse"}
               THEN With(OwnHeaders(JsonType), XRouterBackend, <<<<backend>>>>)
               ELSE OwnHeaders(JsonType),
   body |-> ErrorBody(RouterErrorType(error), <<error>>)]

-----------------------------------------------------------------------------
\* A completed answer of a Chat Completions backend.  A choice is a message in parts,
\* <<"thinking" | "text", words>> or <<"call", a name or None>>, and how it finished.

StopReason(finish) ==
  CASE finish = "length" -> "MaxTokens"
    [] finish \in {"tool_calls", "function_call"} -> "ToolUse"
    [] finish = "content_filter" -> "Refusal"
    [] OTHER -> "EndTurn"

CacheRead ==
  {"cached_tokens of the details", "prompt_cache_hit_tokens", "cached_tokens",
   "cache_read_input_tokens"}
CacheWrite ==
  {"cache_write_tokens of the details", "created_cache_tokens of the details",
   "cache_creation_tokens of the details", "cache_creation_input_tokens"}

Minus(a, b) == IF a > b THEN a - b ELSE 0
Count(usage, name) == IF name \in DOMAIN usage THEN usage[name] ELSE 0
Largest(usage, names) == Max({usage[n] : n \in names \cap DOMAIN usage} \cup {0})

UsageEvent(usage) ==
  LET read == Largest(usage, CacheRead)
      write == Largest(usage, CacheWrite)
      prompt == IF "prompt_tokens" \in DOMAIN usage THEN usage["prompt_tokens"]
                ELSE Minus(Count(usage, "total_tokens"), Count(usage, "completion_tokens"))
  IN <<"usage", [input |-> Minus(prompt, read + write), output |-> Count(usage, "completion_tokens"),
                 read |-> read, write |-> write,
                 reported |-> (CacheRead \cup CacheWrite) \cap DOMAIN usage # {}]>>

\* A call without a name is an error; an error document is nothing else.
DecodeResponse(root) ==
  LET choices == Field(root, "choices")
      choice == choices.list[1]
      event(part) == IF part[1] = "call" /\ part[2] = None
                     THEN <<"error", [kind |-> "Upstream", message |-> <<"no function name">>]>>
                     ELSE part
  IN IF "fields" \notin DOMAIN root THEN None
     ELSE IF ErrorDocument(root) # None THEN <<<<"error", DecodeError(None, root)>>>>
     ELSE IF choices = Absent \/ choices.list = <<>> THEN None
     ELSE [i \in DOMAIN choice.parts |-> event(choice.parts[i])]
            \o (IF choice.finish = None THEN <<>> ELSE <<<<"finish", StopReason(choice.finish)>>>>)
            \o (IF Field(root, "usage") = Absent THEN <<>>
                ELSE <<UsageEvent(Field(root, "usage").numbers)>>)

Failed(events) == \E i \in DOMAIN events : events[i][1] = "error"

\* The encoder says nothing after an error.
Replayed(events) ==
  IF ~Failed(events) THEN events
  ELSE SubSeq(events, 1, Min({i \in DOMAIN events : events[i][1] = "error"}))

-----------------------------------------------------------------------------
\* proxy.rs, handle, from the backend's answer on.

IsEventStream(headers) == ContentType \in DOMAIN headers /\ headers[ContentType] = EventStream

RedirectTarget(given) == given.status \in 300..399 /\ Location \in DOMAIN given.headers

ResponseHeaders(headers) ==
  Restrict(headers, DOMAIN headers \ (HopByHop \cup {ContentLength}))

RouteHeaders(headers, route) ==
  With(With(With(headers, XRouterBackend, <<<<route.name>>>>), XRouterModel, <<<<route.id>>>>),
       XRouterUpstreamModel, <<<<route.upstream_model>>>>)

\* An answer that is not whole fails only where it is read whole; else what comes is
\* passed on, and the connection is cut where it ends.
ReadAll(kind, stream, given) ==
  \/ given.status >= 400
  \/ kind = "anthropic" /\ ~stream
  \/ kind = "openai" /\ ~(stream /\ IsEventStream(given.headers))

Kept(route, given) ==
  IF route.backend.kind = "passthrough" THEN ResponseHeaders(given.headers)
  ELSE RouteHeaders(ResponseHeaders(given.headers), route)

Relay(given, headers, body) ==
  [by |-> "backend", status |-> given.status,
   headers |-> With(headers, RequestId, <<<<"rtr">>>>), body |-> body]

\* translate::document_events and response.
Translate(route, stream, given, events) ==
  IF events = None \/ (~stream /\ Failed(events))
  THEN RouterAnswer("BadUpstreamResponse", route.name)
  ELSE Relay(given, With(Kept(route, given), ContentType, IF stream THEN EventStream ELSE JsonType),
             [events |-> Replayed(events)])

Answer(route, stream, given) ==
  LET kind == route.backend.kind
      kept == Kept(route, given)
      typed(type) == With(kept, ContentType, type)
  IN IF RedirectTarget(given) \/ (ReadAll(kind, stream, given) /\ given.whole # "whole")
     THEN RouterAnswer("Upstream", route.name)
     ELSE IF kind # "openai"
     THEN Relay(given, kept, IF kind = "anthropic" /\ given.status >= 400
                             THEN RewordError(given.body) ELSE given.body)
     ELSE IF given.status >= 400
     THEN Relay(given, typed(JsonType), EncodeError(DecodeError(given.status, given.body)))
     ELSE IF stream /\ IsEventStream(given.headers)
     THEN Relay(given, With(typed(EventStream), CacheControl, NoCache), [translated |-> given.body])
     ELSE Translate(route, stream, given, DecodeResponse(given.body))

-----------------------------------------------------------------------------
\* Hints.

\* The fields an error names, but for paths through an array and what is no path.
RejectedFields(given) ==
  Only(given.rejects, {path \in ToSet(given.rejects) : path # <<>> /\ {"0", ""} \cap ToSet(path) = {}})

SetByBackend(b, path) ==
  \E outer \in {Leaf(b.set_fields[i]) : i \in DOMAIN b.set_fields} :
    IsPrefix(outer, path) \/ IsPrefix(path, outer)

Hinted(fields, wanted) == First(Once(Only(fields, wanted)), MaxRejectedFields)

SetFieldsHint(b, given) ==
  LET fields == RejectedFields(given)
  IN Hinted(fields, {path \in ToSet(fields) : SetByBackend(b, path)})

DropFieldsHint(b, given) ==
  LET fields == RejectedFields(given)
  IN IF b.kind # "anthropic" THEN <<>>
     ELSE Hinted(fields, {path \in ToSet(fields) :
                            path # <<"model">> /\ path \notin b.drop_fields /\ ~SetByBackend(b, path)})

\* None, "exceeded", or the window the error names; read from the text itself.
ContextWindow(given) ==
  LET text == Shown(given.body)
  IN IF given.window # None THEN given.window
     ELSE IF HasAny(text, {<<"context", "size", "has", "been", "exceeded">>,
                           <<"context", "length", "exceeded">>}) THEN "exceeded"
     ELSE None

HintsOf(b, given) ==
  [set |-> SetFieldsHint(b, given), drop |-> DropFieldsHint(b, given),
   window |-> ContextWindow(given),
   model |-> given.status = 404 /\ Has(Shown(given.body), <<"model">>)
               /\ HasAny(Shown(given.body), {<<"does", "not", "exist">>, <<"not", "found">>}),
   credential |-> given.status \in {401, 403}]
=============================================================================
