----------------------------- MODULE RouterConfig -----------------------------
(***************************************************************************)
(* The rules a configuration file must keep before the router serves by it *)
(* (src/config/validate.rs).  A file has [token, v1_auth, loopback, limits, *)
(* statuses, backends, models, default]; backends are a function of names. *)
(* A header's or a field's value is a template: a sequence of texts and of *)
(* headers to read off the client's request.                               *)
(***************************************************************************)
EXTENDS HeaderGlob, FiniteSets

CONSTANT Unfit   \* texts a header cannot carry

Authorization == <<"authorization">>
XApiKey == <<"x", "api", "key">>
ProxyAuthorization == <<"proxy", "authorization">>
Host == <<"host">>
ContentLength == <<"content", "length">>
ContentType == <<"content", "type">>
AcceptEncoding == <<"accept", "encoding">>

ConnectionHeaders ==
  {ContentLength, <<"transfer", "encoding">>, <<"connection">>, <<"keep", "alive">>,
   <<"proxy", "connection">>, <<"te">>, <<"trailer">>, <<"upgrade">>}
AlreadyDropped ==
  {Host, ContentLength, Authorization, XApiKey, AcceptEncoding, <<"connection">>,
   ProxyAuthorization}
ClientCredentials == {Authorization, XApiKey, ProxyAuthorization}

-----------------------------------------------------------------------------
\* Templates: parts are [text |-> token] or [header |-> name].

Templates == Seq([text : STRING] \cup [header : Seq(STRING)])

Reads(template) ==
  {p.header : p \in {q \in ToSet(template) : "header" \in DOMAIN q}}

TemplateOK(template) == Reads(template) \cap ClientCredentials = {}

\* Each of b's forced headers: [name, value].
ValidForced(b) ==
  /\ \A i, j \in DOMAIN b.headers : b.headers[i].name = b.headers[j].name => i = j
  /\ \A h \in ToSet(b.headers) :
       /\ h.name \notin ConnectionHeaders
       /\ TemplateOK(h.value)
       /\ h.name = ContentType => Reads(h.value) = {}

ValidDropHeaders(b) ==
  \A entry \in b.drop_headers :
    /\ \A e \in Entry(entry) : ValidPattern(e)
    /\ \A name \in {h.name : h \in ToSet(b.headers)} \cup AlreadyDropped \cup {ContentType} :
         ~EntryMatches(entry, name)

\* A field is named by the keys down to it; a table by those of its entries.
Leaf(field) == FlattenSeq(field.keys)
SetPaths(b) == [i \in DOMAIN b.set_fields |-> Leaf(b.set_fields[i])]

FieldOK(field) ==
  /\ "" \notin ToSet(Leaf(field))
  /\ Leaf(field)[1] \notin {"model", "stream"}
  /\ TemplateOK(field.value)

Overlaps(paths) == \E i, j \in DOMAIN paths : i # j /\ IsPrefix(paths[i], paths[j])

ValidFields(b) ==
  /\ \A path \in b.drop_fields : path # <<"model">> /\ "" \notin ToSet(path)
  /\ \A i \in DOMAIN b.set_fields : FieldOK(b.set_fields[i])
  /\ ~Overlaps(SetPaths(b))

ValidKind(b) ==
  /\ b.kind # "openai" => b.placement = "keep"
  /\ b.kind = "openai" => b.anthropic_beta = <<>>
  /\ b.kind = "passthrough" =>
       /\ b.credential = None
       /\ b.drop_fields = {} /\ b.set_fields = <<>>
       /\ b.headers = <<>> /\ b.anthropic_beta = <<>>

\* A flag is one entry of a list; "," stands for one that holds a comma.
ValidFlags(b) == ToSet(b.anthropic_beta) \cap (Unfit \cup {","}) = {}

\* The request path is appended to a backend's URL, and so is the path of its list of
\* models; a proxy is an origin and no more.  A URL has [origin, scheme, tail].
ValidUrl(url) == url.scheme \in {"http", "https"} /\ url.tail \subseteq {"path"}
ValidProxy(proxy) == proxy = None \/ (proxy.scheme \in {"http", "https"} /\ proxy.tail = {})

ValidModelsPath(b) == b.models_path = "path"

ValidCredential(b) ==
  b.credential # None => b.credential.source # "" /\ b.credential.timeout # 0

ValidBackend(b) ==
  /\ ValidUrl(b.url) /\ ValidModelsPath(b) /\ ValidProxy(b.proxy) /\ ValidCredential(b)
  /\ ValidForced(b) /\ ValidDropHeaders(b) /\ ValidFields(b) /\ ValidKind(b) /\ ValidFlags(b)

-----------------------------------------------------------------------------

\* The elements of a sequence that are wanted, in order.
Only(seq, wanted) ==
  FlattenSeq([i \in DOMAIN seq |-> IF seq[i] \in wanted THEN <<seq[i]>> ELSE <<>>])

\* Backends whose list of models is asked for.
Live(b) == b.kind = "passthrough" \/ b.live_models = "yes"

Passthrough(c) == {n \in DOMAIN c.backends : c.backends[n].kind = "passthrough"}

ValidServer(c) ==
  /\ c.token # ""
  /\ c.v1_auth = "none" => c.loopback = "yes"
  /\ Cardinality(Passthrough(c)) <= 1
  /\ Passthrough(c) # {} => c.v1_auth = "none"
  /\ DOMAIN c.backends # {} /\ DOMAIN c.backends \cap (Unfit \cup {""}) = {}
  /\ c.models = <<>> => \E n \in DOMAIN c.backends : Live(c.backends[n])

ValidUpstream(c) == 0 \notin c.limits /\ c.statuses \subseteq 100..599

\* Connections to one origin share a pool, and the proxy is chosen by origin.
OneProxyPerOrigin(c) ==
  \A m, n \in DOMAIN c.backends :
    c.backends[m].url.origin = c.backends[n].url.origin =>
      c.backends[m].proxy = c.backends[n].proxy

\* Each model: [id, aliases, backend, upstream_model, display_name, placement].
Called(model) == <<model.id>> \o model.aliases
Names(c) == FlattenSeq([i \in DOMAIN c.models |-> Called(c.models[i])])

ValidModels(c) ==
  /\ "" \notin ToSet(Names(c))
  /\ Cardinality(ToSet(Names(c))) = Len(Names(c))
  /\ c.default = None \/ c.default \in ToSet(Names(c))
  /\ \A m \in ToSet(c.models) :
       /\ m.upstream_model # "" /\ {m.id, m.upstream_model} \cap Unfit = {}
       /\ m.backend \in DOMAIN c.backends
       /\ c.backends[m.backend].kind # "passthrough"
       /\ m.placement # None => c.backends[m.backend].kind = "openai"

Accepted(c) ==
  /\ ValidServer(c) /\ ValidUpstream(c) /\ OneProxyPerOrigin(c) /\ ValidModels(c)
  /\ \A n \in DOMAIN c.backends : ValidBackend(c.backends[n])

-----------------------------------------------------------------------------
\* What a file can hold at all (src/config/schema.rs), accepted or not.

Placements == {"keep", "user", "merge"}
BackendFields ==
  {"kind", "url", "models_path", "proxy", "credential", "headers", "anthropic_beta",
   "drop_headers", "drop_fields", "set_fields", "placement", "live_models"}
FileFields ==
  {"token", "v1_auth", "loopback", "limits", "statuses", "backends", "models", "default"}

BackendType(b) ==
  /\ BackendFields \subseteq DOMAIN b /\ b.placement \in Placements
  /\ b.kind \in {"anthropic", "openai", "passthrough"} /\ b.url.origin \in STRING
  /\ b.credential # None =>
       b.credential.header \in Seq(STRING) /\ b.credential.scheme \in Seq(STRING)
  /\ b.headers \in Seq([name : Seq(STRING), value : Templates])
  /\ b.anthropic_beta \in Seq(STRING) /\ b.drop_fields \subseteq Seq(STRING)
  /\ b.set_fields \in Seq([keys : Seq(Seq(STRING) \ {<<>>}) \ {<<>>}, value : Templates])

FileType(c) ==
  /\ FileFields \subseteq DOMAIN c /\ DOMAIN c.backends \subseteq STRING
  /\ \A n \in DOMAIN c.backends : BackendType(c.backends[n])
  /\ c.models \in Seq(ToSet(c.models))
  /\ \A m \in ToSet(c.models) :
       /\ m.id \in STRING /\ m.aliases \in Seq(STRING)
       /\ {m.upstream_model, m.display_name} \subseteq STRING \cup {None}
       /\ m.placement \in Placements \cup {None}

-----------------------------------------------------------------------------
\* What is made of an accepted file.

\* proxies(): the proxy connections to an origin go through.
ProxyOf(c, origin) ==
  LET named == {n \in DOMAIN c.backends :
                  c.backends[n].url.origin = origin /\ c.backends[n].proxy # None}
  IN IF named = {} THEN None ELSE c.backends[CHOOSE n \in named : TRUE].proxy

\* A model's route: the name it has upstream, and its own placement before the backend's.
RouteTo(c, m) ==
  [backend |-> c.backends[m.backend], name |-> m.backend, id |-> m.id,
   upstream_model |-> IF m.upstream_model = None THEN m.id ELSE m.upstream_model,
   display_name |-> IF m.display_name = None THEN m.id ELSE m.display_name,
   placement |-> IF m.placement = None THEN c.backends[m.backend].placement ELSE m.placement]

Named(c, name) == {m \in ToSet(c.models) : name \in ToSet(Called(m))}
=============================================================================
