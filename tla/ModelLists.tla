------------------------------ MODULE ModelLists ------------------------------
(***************************************************************************)
(* The models a client may name: those of the file and those the live      *)
(* backends list (src/translate/catalog.rs, src/openai/models.rs, src/     *)
(* anthropic/models.rs), as a list, one by one (src/server/handlers/       *)
(* models.rs) and as what a request is routed by.  A list is a sequence of *)
(* rows, None when a backend tells none; a row is None or a function of    *)
(* its fields, [text] or [number].  Dates and efforts are left out.        *)
(***************************************************************************)
EXTENDS RouterConfig, Functions

CONSTANT BackendNames   \* every name a backend may have, in order

\* get(), and get().or_else(): the first of two fields that is there, whatever it holds.
Get(row, name) == IF name \in DOMAIN row THEN row[name] ELSE None
GetOr(row, name, other) == IF name \in DOMAIN row THEN row[name] ELSE Get(row, other)

TextIn(value) == IF value # None /\ "text" \in DOMAIN value THEN value.text ELSE ""
NumberIn(value) == IF value # None /\ "number" \in DOMAIN value THEN value.number ELSE None

IdOf(row) == TextIn(Get(row, "id"))
Identified(list) == Only(list, {row \in ToSet(list) : row # None /\ IdOf(row) # ""})

ContextFields ==
  <<"loaded_context_length", "max_model_len", "context_length", "max_context_length",
    "context_window", "max_input_tokens">>

Positive(number) == IF number \in {None, 0} THEN None ELSE number

\* find_map over the fields of a window.
Window(row) ==
  LET window(i) == Positive(NumberIn(Get(row, ContextFields[i])))
      told == {i \in DOMAIN ContextFields : window(i) # None}
  IN IF told = {} THEN None ELSE window(Min(told))

ModelType ==
  [id : STRING, display_name : STRING, context_window : Nat \cup {None},
   max_output_tokens : Nat \cup {None}]

\* openai::row.
OpenAiModel(row) ==
  LET shown == TextIn(GetOr(row, "name", "display_name"))
  IN [id |-> IdOf(row), display_name |-> IF shown = "" THEN IdOf(row) ELSE shown,
      context_window |-> Window(row),
      max_output_tokens |-> Positive(NumberIn(GetOr(row, "max_output_tokens", "max_tokens")))]

\* anthropic_row: of a row that says what to show.
AnthropicModel(row) ==
  [id |-> IdOf(row), display_name |-> TextIn(GetOr(row, "display_name", "name")),
   context_window |-> Positive(NumberIn(Get(row, "context_window"))),
   max_output_tokens |-> NumberIn(Get(row, "runtime.max_output_tokens"))]

\* anthropic::decode_models, and openai::decode_models.
ReadAnthropic(rows) ==
  Only([i \in DOMAIN rows |-> AnthropicModel(rows[i])],
       {m \in ModelType : m.display_name # ""})
ReadOpenAi(rows) == [i \in DOMAIN rows |-> OpenAiModel(rows[i])]

DecodeModels(kind, list) ==
  LET rows == IF list = None THEN <<>> ELSE Identified(list)
  IN IF kind # "openai" /\ ReadAnthropic(rows) # <<>> THEN ReadAnthropic(rows)
     ELSE ReadOpenAi(rows)

\* models(): an id becomes a route's, and a header's value.
ModelsOf(kind, list) ==
  Only(DecodeModels(kind, list), {m \in ModelType : m.id \notin Unfit})

\* encode_model: the row a client is shown.
TextFields == {"id", "display_name", "name"}
NumberFields == {"context_window", "runtime.max_input_tokens", "runtime.max_output_tokens"}
RowsOf(fields) == [fields -> [text : STRING] \cup [number : Nat]]
ShownRows == UNION {RowsOf(fields) : fields \in SUBSET (TextFields \cup NumberFields)}
EncodeModel(model) ==
  LET number(f) == IF f = "runtime.max_output_tokens" THEN model.max_output_tokens
                   ELSE model.context_window
      told == {f \in NumberFields : number(f) # None}
  IN [f \in TextFields \cup told |->
        IF f \in told THEN [number |-> number(f)]
        ELSE [text |-> IF f = "id" THEN model.id ELSE model.display_name]]

-----------------------------------------------------------------------------
\* Over a file and what its backends tell.

IsLive(c, n) == n \in DOMAIN c.backends /\ Live(c.backends[n])
Told(c, tells, n) == ModelsOf(c.backends[n].kind, tells[n])

\* LiveCatalog::models: what a live backend tells, but for a name of the table, which is
\* never a live one.
LivesOf(c, tells, n) ==
  LET told == Told(c, tells, n)
  IN IF IsLive(c, n) THEN Only(told, {m \in ToSet(told) : Named(c, m.id) = {}}) ELSE <<>>
Lives(c, tells) ==
  FlattenSeq([i \in DOMAIN BackendNames |-> LivesOf(c, tells, BackendNames[i])])

\* The first live backend that tells the name, and the first it tells by it; or None.
Telling(c, tells, name, i) ==
  {k \in DOMAIN Told(c, tells, BackendNames[i]) : Told(c, tells, BackendNames[i])[k].id = name}
LiveCalled(c, tells, name) ==
  LET tellers == {i \in DOMAIN BackendNames :
                    IsLive(c, BackendNames[i]) /\ Telling(c, tells, name, i) # {}}
      first == Min(tellers)
  IN IF tellers = {} THEN None
     ELSE [backend |-> BackendNames[first],
           model |-> Told(c, tells, BackendNames[first])[Min(Telling(c, tells, name, first))]]

\* object(): a route of the table as a model.
TableModel(route) ==
  [id |-> route.id, display_name |-> route.display_name,
   context_window |-> None, max_output_tokens |-> None]

\* list().
TableModels(c) == [i \in DOMAIN c.models |-> TableModel(RouteTo(c, c.models[i]))]
Listed(c, tells) == Lives(c, tells) \o TableModels(c)

RouteType(c) ==
  [backend : Range(c.backends), name : DOMAIN c.backends, id : STRING, upstream_model : STRING,
   display_name : STRING, placement : Placements]

\* Registry::lookup.
TableRoute(c, name) == RouteTo(c, CHOOSE m \in Named(c, name) : TRUE)

\* get_one(); None is a 404.
ModelCalled(c, tells, name) ==
  LET live == LiveCalled(c, tells, name)
  IN CASE Named(c, name) # {} -> TableModel(TableRoute(c, name))
       [] Named(c, name) = {} /\ live # None -> live.model
       [] OTHER -> None

\* LiveCatalog::lookup: a live model as a route.
LiveRoute(c, live) ==
  LET b == c.backends[live.backend]
  IN [backend |-> b, name |-> live.backend, id |-> live.model.id, upstream_model |-> live.model.id,
      display_name |-> live.model.display_name, placement |-> b.placement]

\* handle(): the table, the live lists in order, the default.
Routed(c, tells, name) ==
  LET live == LiveCalled(c, tells, name)
  IN CASE Named(c, name) # {} -> TableRoute(c, name)
       [] Named(c, name) = {} /\ live # None -> LiveRoute(c, live)
       [] Named(c, name) = {} /\ live = None /\ c.default # None -> TableRoute(c, c.default)
       [] OTHER -> None
=============================================================================
