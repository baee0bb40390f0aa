------------------------------ MODULE Forwarding ------------------------------
(***************************************************************************)
(* What of a client's request crosses to a backend: its headers            *)
(* (src/upstream/headers.rs) and its body's fields (src/anthropic/         *)
(* request.rs, src/body_field.rs).  Headers are a function of names to     *)
(* sequences of values, a value is a sequence of tokens (the flags of a    *)
(* beta header).  Fields are a function of paths to values: the leaves of  *)
(* the JSON object, a path being the keys down to one.                     *)
(***************************************************************************)
EXTENDS RouterConfig

Version == <<"anthropic", "version">>
Beta == <<"anthropic", "beta">>
HopByHop ==
  {<<"connection">>, <<"keep", "alive">>, <<"proxy", "connection">>,
   <<"proxy", "authenticate">>, ProxyAuthorization, <<"te">>, <<"trailer">>,
   <<"transfer", "encoding">>, <<"upgrade">>}

Redacted == <<<<"redacted">>>>

\* HeaderMap::insert, and Entry::or_insert.
With(f, key, value) == [k \in DOMAIN f \cup {key} |-> IF k = key THEN value ELSE f[k]]
WithDefault(f, key, value) == IF key \in DOMAIN f THEN f ELSE With(f, key, value)

\* Template::render: a value filled in part is not sent.
Render(template, client) ==
  IF \E name \in Reads(template) : name \notin DOMAIN client \/ client[name][1] = <<>>
  THEN None
  ELSE FlattenSeq([i \in DOMAIN template |->
         IF "text" \in DOMAIN template[i] THEN <<template[i].text>>
         ELSE client[template[i].header][1]])

-----------------------------------------------------------------------------
\* Headers.

Reasons ==
  {"framing", "client_credential", "uncompressed", "backend_kind", "drop_headers", "overridden"}

Dropped(name, b) ==
  CASE name \in HopByHop \cup {Host, ContentLength} -> "framing"
    [] name \in {Authorization, XApiKey} /\ b.kind # "passthrough" -> "client_credential"
    [] name = AcceptEncoding -> "uncompressed"
    [] name \in {Version, Beta} /\ b.kind = "openai" -> "backend_kind"
    [] Matched(b.drop_headers, name) -> "drop_headers"
    [] OTHER -> None

ForcedNames(b) == {h.name : h \in ToSet(b.headers)}
Forces(b, name) == name \in ForcedNames(b)
ForcedValue(b, name, client) == Render((CHOOSE h \in ToSet(b.headers) : h.name = name).value, client)

\* A forced header with no value takes the client's own away all the same.
ForcedLeaves(out, names) == out      \* a mutant: the client's stays
ForcedTakes(out, names) == Restrict(out, DOMAIN out \ names)

\* No name is forced twice (ValidForced), so their order does not matter.
Forced(out, b, client) ==
  LET filled == {n \in ForcedNames(b) : ForcedValue(b, n, client) # None}
      rest == ForcedTakes(out, ForcedNames(b) \ filled)
  IN [n \in DOMAIN rest \cup filled |->
        IF n \in filled THEN <<ForcedValue(b, n, client)>> ELSE rest[n]]

Once(flags) ==
  LET Add(out, flag) == IF Contains(out, flag) THEN out ELSE Append(out, flag)
      listed[i \in 0..Len(flags)] == IF i = 0 THEN <<>> ELSE Add(listed[i - 1], flags[i])
  IN listed[Len(flags)]

MergeBeta(out, b) ==
  IF b.anthropic_beta = <<>> THEN out
  ELSE LET own == IF Beta \in DOMAIN out THEN FlattenSeq(out[Beta]) ELSE <<>>
       IN With(out, Beta, <<Once(own \o b.anthropic_beta)>>)

UpstreamHeaders(client, b) ==
  MergeBeta(Forced(Restrict(client, {n \in DOMAIN client : Dropped(n, b) = None}), b, client), b)

\* Every value the client sent that the backend does not see.
DroppedHeaders(client, b) ==
  LET reason(n) == IF Dropped(n, b) # None THEN Dropped(n, b)
                   ELSE IF Forces(b, n) THEN "overridden" ELSE None
  IN [n \in {m \in DOMAIN client : reason(m) # None} |->
        [reason |-> reason(n),
         value |-> IF reason(n) = "client_credential" THEN Redacted ELSE client[n]]]

\* The credential over the headers, then what the HTTP client adds; a body is never empty.
Framed(b, headers, credential, host, length) ==
  LET all == IF b.credential = None THEN headers
             ELSE With(headers, b.credential.header, credential)
  IN With(WithDefault(all, Host, host), ContentLength, length)

\* What a header is shown as.
Shows(b, headers, n) ==
  CASE Forces(b, n) -> [value |-> Redacted, source |-> "backend"]
    [] ~Forces(b, n) /\ n \in {Authorization, XApiKey} -> [value |-> Redacted, source |-> "default"]
    [] ~Forces(b, n) /\ n = Beta /\ b.anthropic_beta # <<>> ->
         [value |-> headers[n], source |-> "backend"]
    [] OTHER -> [value |-> headers[n], source |-> "default"]

\* Every header the backend receives.
SentHeaders(b, headers) ==
  Framed(b, [n \in DOMAIN headers |-> Shows(b, headers, n)],
         [value |-> Redacted, source |-> "credential"],
         [value |-> <<<<b.url.origin>>>>, source |-> "transport"],
         [value |-> <<>>, source |-> "transport"])

\* One attempt.
Attempted(b, headers, secret) ==
  Framed(b, headers, <<b.credential.scheme \o <<secret>>>>, <<<<b.url.origin>>>>, <<>>)

-----------------------------------------------------------------------------
\* Fields.

Under(path, paths) == \E p \in paths : IsPrefix(p, path)
Meets(path, paths) == \E p \in paths : IsPrefix(p, path) \/ IsPrefix(path, p)

\* A step of a path that is not an object becomes one.  The fields are apart from each
\* other (ValidFields), so their order does not matter.
SetAll(fields, set) ==
  LET paths == {f.path : f \in set}
      value(path) == (CHOOSE f \in set : f.path = path).value
  IN [p \in {q \in DOMAIN fields : ~Meets(q, paths)} \cup paths |->
        IF p \in paths THEN value(p) ELSE fields[p]]

\* SetFields::resolve: a field that names a header the client lacks is left out whole.
Resolve(b, client) ==
  {f \in {[path |-> Leaf(s), value |-> Render(s.value, client)] : s \in ToSet(b.set_fields)} :
     f.value # None}

DropAll(fields, paths) ==
  Restrict(fields, {p \in DOMAIN fields : ~Under(p, paths)})

Renamed(fields, model) == SetAll(fields, {[path |-> <<"model">>, value |-> <<model>>]})

RelayedDroppedLast(fields, route, set) ==    \* a mutant: dropped after they are set
  DropAll(SetAll(Renamed(fields, route.upstream_model), set), route.backend.drop_fields)

\* rewrite, for a backend of Messages requests.
Relayed(fields, route, set) ==
  SetAll(Renamed(DropAll(fields, route.backend.drop_fields), route.upstream_model), set)
=============================================================================
