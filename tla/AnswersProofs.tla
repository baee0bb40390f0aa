---------------------------- MODULE AnswersProofs ----------------------------
(***************************************************************************)
(* What a client is answered is what happened, for any file, any lists of  *)
(* models, any fields of a request and any answer of a backend.  An answer *)
(* is an error of the router, the models it offers or what is made of the  *)
(* backend's answer, and for each: its headers can be sent and its body    *)
(* read; a failure keeps its status and meaning, whatever is rewritten of  *)
(* it; the tokens add up; the models offered are those the names in it go  *)
(* to, since each name is first in the list where it is routed; and a      *)
(* fields' hint gives a file that is accepted and rids the request of what *)
(* was rejected.                                                           *)
(***************************************************************************)
EXTENDS ConfigurationProofs

-----------------------------------------------------------------------------
\* The elements of a finite set, in some order.
LEMMA SetInOrder ==
  ASSUME NEW S, IsFiniteSet(S)
  PROVE  /\ Cardinality(S) \in Nat /\ SetToSeq(S) \in [1..Cardinality(S) -> S]
<1>1. Cardinality(S) \in Nat /\ ExistsBijection(1..Cardinality(S), S)
  BY FS_CardinalityType
<1>2. \E f \in [1..Cardinality(S) -> S] : IsInjective(f)
  <2>1. PICK f \in Bijection(1..Cardinality(S), S) : TRUE
    BY <1>1 DEF ExistsBijection
  <2>2. f \in [1..Cardinality(S) -> S] /\ IsInjective(f)
    BY <2>1 DEF Bijection, Injection, IsInjective
  <2> QED
    BY <2>2
<1> QED
  BY <1>1, <1>2 DEF SetToSeq

\* A value shows what it says and what is in it.
LEMMA ShownByType ==
  ASSUME NEW v, ValueType(v), NEW inside, IsFiniteSet(DOMAIN inside),
         \A n \in DOMAIN inside : inside[n] \in Seq(STRING)
  PROVE  ShownBy(v, inside) \in Seq(STRING)
<1> DEFINE names == SetToSeq(DOMAIN inside)
           k == Cardinality(DOMAIN inside)
           texts == [i \in DOMAIN names |-> inside[names[i]]]
<1>1. k \in Nat /\ names \in [1..k -> DOMAIN inside]
  BY SetInOrder
<1> HIDE DEF names, k
<1>2. DOMAIN names = 1..k /\ \A i \in 1..k : names[i] \in DOMAIN inside
  BY <1>1
<1>3. texts = [i \in 1..k |-> inside[names[i]]] /\ \A i \in 1..k : inside[names[i]] \in Seq(STRING)
  BY <1>2
<1>4. texts \in Seq(Seq(STRING))
  BY <1>1, <1>3
<1> HIDE DEF texts
<1>5. FlattenSeq(texts) \in Seq(STRING)
  BY <1>4, FlattenCorrect
<1> QED
  BY <1>5 DEF ShownBy, ValueType, names, texts

\* A value no deeper than a leaf, than one object, than two, than three.
Flat(v) == ValueType(v) /\ Values(v) = {}
Deep1(v) == ValueType(v) /\ \A w \in Values(v) : Flat(w)
Deep2(v) == ValueType(v) /\ \A w \in Values(v) : Deep1(w)
Deep3(v) == ValueType(v) /\ \A w \in Values(v) : Deep2(w)

LEMMA DeepIs ==
  /\ \A v : BodyType(v) <=> Deep3(v)
  /\ \A v : Flat(v) => Deep1(v)
  /\ \A v : Deep1(v) => Deep2(v)
  /\ \A v : Deep2(v) => Deep3(v)
BY DEF BodyType, Flat, Deep1, Deep2, Deep3

LEMMA InsideFinite ==
  ASSUME NEW v, ValueType(v)
  PROVE  /\ IsFiniteSet(DOMAIN Inside(v))
         /\ \A n \in DOMAIN Inside(v) : Inside(v)[n] \in Values(v)
<1>1. IsFiniteSet({})
  BY FS_EmptySet
<1>2. DOMAIN <<>> = {}
  OBVIOUS
<1> QED
  BY <1>1, <1>2 DEF ValueType, Inside, Values

LEMMA ShownType ==
  ASSUME NEW v, Deep3(v)
  PROVE  Shown(v) \in Seq(STRING)
<1>1. \A x : ValueType(x) => ShownLeaf(x) \in Seq(STRING)
  <2> SUFFICES ASSUME NEW x, ValueType(x) PROVE ShownLeaf(x) \in Seq(STRING)
    OBVIOUS
  <2> DEFINE e == <<>>
  <2>1. DOMAIN e = {} /\ IsFiniteSet(DOMAIN e)
    BY FS_EmptySet
  <2> HIDE DEF e
  <2>2. ShownBy(x, e) \in Seq(STRING)
    BY <2>1, ShownByType
  <2> QED
    BY <2>2 DEF ShownLeaf, e
<1>2. \A x : Deep1(x) => ShownFlat(x) \in Seq(STRING)
  <2> SUFFICES ASSUME NEW x, Deep1(x) PROVE ShownFlat(x) \in Seq(STRING)
    OBVIOUS
  <2> DEFINE inside == [n \in DOMAIN Inside(x) |-> ShownLeaf(Inside(x)[n])]
  <2>1. ValueType(x) /\ DOMAIN inside = DOMAIN Inside(x)
    BY DEF Deep1
  <2>2. \A n \in DOMAIN inside : inside[n] \in Seq(STRING)
    BY <1>1, <2>1, InsideFinite DEF Deep1, Flat
  <2>3. IsFiniteSet(DOMAIN inside)
    BY <2>1, InsideFinite
  <2> HIDE DEF inside
  <2>4. ShownBy(x, inside) \in Seq(STRING)
    BY <2>1, <2>2, <2>3, ShownByType
  <2> QED
    BY <2>4 DEF ShownFlat, inside
<1>3. \A x : Deep2(x) => ShownNested(x) \in Seq(STRING)
  <2> SUFFICES ASSUME NEW x, Deep2(x) PROVE ShownNested(x) \in Seq(STRING)
    OBVIOUS
  <2> DEFINE inside == [n \in DOMAIN Inside(x) |-> ShownFlat(Inside(x)[n])]
  <2>1. ValueType(x) /\ DOMAIN inside = DOMAIN Inside(x)
    BY DEF Deep2
  <2>2. \A n \in DOMAIN inside : inside[n] \in Seq(STRING)
    BY <1>2, <2>1, InsideFinite DEF Deep2
  <2>3. IsFiniteSet(DOMAIN inside)
    BY <2>1, InsideFinite
  <2> HIDE DEF inside
  <2>4. ShownBy(x, inside) \in Seq(STRING)
    BY <2>1, <2>2, <2>3, ShownByType
  <2> QED
    BY <2>4 DEF ShownNested, inside
<1> DEFINE inside == [n \in DOMAIN Inside(v) |-> ShownNested(Inside(v)[n])]
<1>4. ValueType(v) /\ DOMAIN inside = DOMAIN Inside(v)
  BY DEF Deep3
<1>5. \A n \in DOMAIN inside : inside[n] \in Seq(STRING)
  BY <1>3, <1>4, InsideFinite DEF Deep3
<1>6. IsFiniteSet(DOMAIN inside)
  BY <1>4, InsideFinite
<1> HIDE DEF inside
<1>7. ShownBy(v, inside) \in Seq(STRING)
  BY <1>4, <1>5, <1>6, ShownByType
<1> QED
  BY <1>7 DEF Shown, inside

-----------------------------------------------------------------------------
\* A field of a value, what a value says, and the name of an error.
LEMMA FieldType ==
  ASSUME NEW v, NEW name
  PROVE  Field(v, name) \in Values(v) \cup {Absent}
BY DEF Field, Values, Inside

LEMMA SaidType ==
  ASSUME NEW v, v = Absent \/ ValueType(v)
  PROVE  Said(v) \in Seq(STRING) \cup {None}
BY DEF Said, ValueType, Absent

LEMMA StrType ==
  ASSUME NEW v, v = Absent \/ Deep1(v) \/ Deep2(v) \/ Deep3(v), NEW name
  PROVE  StrField(v, name) \in Seq(STRING) \cup {None}
<1>1. Field(v, name) = Absent \/ ValueType(Field(v, name))
  BY FieldType DEF Deep1, Deep2, Deep3, Flat, Field, Absent
<1> QED
  BY <1>1, SaidType DEF StrField

\* The first words of a text are words of it.
LEMMA LeastIs ==
  ASSUME NEW S \in SUBSET Nat, S # {}
  PROVE  Min(S) \in S /\ \A y \in S : Min(S) <= y
<1>1. \E x \in S : \A y \in S : x <= y
  BY LeastNumber
<1> QED
  BY <1>1 DEF Min

LEMMA FirstFrom ==
  ASSUME NEW s, IsSeq(s), NEW limit \in Nat
  PROVE  First(s, limit) \in Seq(ToSet(s))
<1> DEFINE n == Min({Len(s), limit})
<1>1. Len(s) \in Nat /\ DOMAIN s = 1..Len(s)
  BY SeqDomain
<1>2. n \in {Len(s), limit} /\ n <= Len(s)
  <2> DEFINE S == {Len(s), limit}
  <2>1. S \in SUBSET Nat /\ S # {}
    BY <1>1
  <2>2. Min(S) \in S /\ \A y \in S : Min(S) <= y
    BY <2>1, LeastIs
  <2> QED
    BY <2>2
<1>3. n \in Nat
  BY <1>1, <1>2
<1> HIDE DEF n
<1> DEFINE T == ToSet(s)
<1>4. \A i \in 1..n : s[i] \in T
  <2> SUFFICES ASSUME NEW i \in 1..n PROVE s[i] \in T
    OBVIOUS
  <2>1. Len(s) \in Nat /\ n <= Len(s)
    BY <1>1, <1>2
  <2>2. i \in 1..Len(s)
    BY ONLY <1>3, <2>1, i \in 1..n
  <2> QED
    BY <2>2, SeqDomain
<1> HIDE DEF T
<1>5. SubSeq(s, 1, n) \in Seq(T)
  BY <1>3, <1>4, SubSeqProperties
<1> QED
  BY <1>5 DEF First, T, n

LEMMA FirstType ==
  ASSUME NEW s \in Seq(STRING), NEW limit \in Nat
  PROVE  First(s, limit) \in Seq(STRING)
<1>1. IsSeq(s) /\ ToSet(s) \subseteq STRING
  BY SeqIs
<1>2. First(s, limit) \in Seq(ToSet(s))
  BY <1>1, FirstFrom
<1> QED
  BY <1>1, <1>2

LEMMA DocumentType ==
  ASSUME NEW body, BodyType(body)
  PROVE  /\ ErrorDocument(body) \in Seq(STRING) \cup {None}
         /\ Shown(body) \in Seq(STRING)
         /\ SaidBack(body) \in Seq(STRING)
         /\ \A n \in ToSet(ErrorNames(body)) : n \in Seq(STRING) \cup {None}
<1> DEFINE error == Field(body, "error")
<1>1. Deep3(body) /\ (error = Absent \/ Deep2(error))
  BY DeepIs, FieldType DEF Deep3
<1>2. Shown(body) \in Seq(STRING)
  BY <1>1, ShownType
<1>3. \A n : StrField(body, n) \in Seq(STRING) \cup {None}
  BY <1>1, StrType
<1>4. ASSUME error # Absent
      PROVE  /\ ErrorText(error) \in Seq(STRING)
             /\ \A n : StrField(error, n) \in Seq(STRING) \cup {None}
  <2>1. Deep2(error) /\ ValueType(error)
    BY <1>1, <1>4 DEF Deep2
  <2> HIDE DEF error
  <2>2. Shown(error) \in Seq(STRING)
    BY <2>1, DeepIs, ShownType
  <2>3. Said(error) \in Seq(STRING) \cup {None}
    BY <2>1, SaidType
  <2>4. \A n : StrField(error, n) \in Seq(STRING) \cup {None}
    BY <2>1, StrType
  <2> QED
    BY <2>2, <2>3, <2>4 DEF ErrorText
<1> HIDE DEF error
<1>5. ErrorDocument(body) \in Seq(STRING) \cup {None}
  BY <1>2, <1>3, <1>4 DEF ErrorDocument, error
<1>6. \A v : ToSet(TypeAndCode(v)) = {StrField(v, "type"), StrField(v, "code")}
  BY DEF TypeAndCode, ToSet
<1>7. \A n \in ToSet(ErrorNames(body)) : n \in Seq(STRING) \cup {None}
  <2>1. "fields" \in DOMAIN Field(body, "error") => Field(body, "error") # Absent
    BY DEF Absent
  <2> QED
    BY <1>3, <1>4, <1>6, <2>1 DEF ErrorNames, error
<1>8. First(Shown(body), MAX_RAW_MESSAGE) \in Seq(STRING)
  <2>1. MAX_RAW_MESSAGE \in Nat
    BY RequestsAssumption
  <2> QED
    BY <1>2, <2>1, FirstType
<1> QED
  BY <1>2, <1>5, <1>7, <1>8 DEF SaidBack

-----------------------------------------------------------------------------
\* A text has no phrase with a word it lacks.
LEMMA HasWords ==
  ASSUME NEW text, IsSeq(text), NEW words, IsSeq(words), Has(text, words)
  PROVE  ToSet(words) \subseteq ToSet(text)
<1>1. PICK i \in 0..Len(text) - Len(words) : SubSeq(text, i + 1, i + Len(words)) = words
  BY DEF Has
<1>2. Len(text) \in Nat /\ Len(words) \in Nat /\ \A k \in 1..Len(text) : text[k] \in ToSet(text)
  BY SeqDomain
<1>3. \A k \in 1..Len(words) : words[k] = text[i + k] /\ i + k \in 1..Len(text)
  BY <1>1, <1>2 DEF IsSeq
<1>4. DOMAIN words = 1..Len(words)
  BY SeqDomain
<1> QED
  BY <1>2, <1>3, <1>4 DEF ToSet

LEMMA PairIsSeq == ASSUME NEW x, NEW y PROVE IsSeq(<<x, y>>) /\ ToSet(<<x, y>>) = {x, y}
BY DEF IsSeq, ToSet

LEMMA SingleIsSeq == ASSUME NEW x PROVE IsSeq(<<x>>) /\ ToSet(<<x>>) = {x}
BY DEF IsSeq, ToSet

\* The API's own error has no name that would tell more.
LEMMA ApiErrorUnnamed == NamedKind(<<"api", "error">>) = None
<1> DEFINE t == <<"api", "error">>
<1>1. IsSeq(t) /\ ToSet(t) = {"api", "error"}
  BY PairIsSeq
<1> HIDE DEF t
<1>2. ASSUME NEW x, x \notin {"api", "error"} PROVE ~Has(t, <<x>>)
  BY <1>1, <1>2, HasWords, SingleIsSeq
<1>3. ASSUME NEW x, NEW y, x \notin {"api", "error"} \/ y \notin {"api", "error"}
      PROVE  ~Has(t, <<x, y>>)
  BY <1>1, <1>3, HasWords, PairIsSeq
<1>4. /\ ~HasAny(t, {<<"rate", "limit">>, <<"quota">>})
      /\ ~HasAny(t, {<<"overloaded">>, <<"unavailable">>, <<"capacity">>})
  BY <1>2, <1>3 DEF HasAny
<1>5. ~HasAny(t, {<<"authentication">>, <<"api", "key">>, <<"unauthorized">>})
  BY <1>2, <1>3 DEF HasAny
<1>6. /\ ~HasAny(t, {<<"permission">>, <<"forbidden">>})
      /\ ~HasAny(t, {<<"not", "found">>})
  BY <1>2, <1>3 DEF HasAny
<1>7. /\ ~HasAny(t, {<<"too", "large">>, <<"too", "long">>})
      /\ ~HasAny(t, {<<"invalid">>, <<"bad", "request">>})
  BY <1>2, <1>3 DEF HasAny
<1> QED
  BY <1>4, <1>5, <1>6, <1>7 DEF NamedKind, t

\* An error of the API's is told by its status, and one of the API itself by its name.
LEMMA KindOfType ==
  ASSUME NEW type \in ApiTypes
  PROVE  FromKind(IF FromStatus(TypeStatus(type)) # "Upstream" THEN FromStatus(TypeStatus(type))
                  ELSE KindNamed(<<type, None>>)) = type
<1>1. CASE type = <<"api", "error">>
  <2>1. FromStatus(TypeStatus(type)) = "Upstream"
    BY <1>1 DEF TypeStatus, FromStatus
  <2> DEFINE names == <<type, None>>
  <2>2. {i \in DOMAIN names : names[i] # None /\ NamedKind(names[i]) # None} = {}
    BY <1>1, ApiErrorUnnamed
  <2>3. KindNamed(names) = "Upstream"
    BY <2>2 DEF KindNamed
  <2>4. FromKind("Upstream") = type
    BY <1>1 DEF FromKind
  <2> QED
    BY <2>1, <2>3, <2>4
<1>2. CASE type = <<"invalid", "request", "error">>
  <2>1. FromStatus(TypeStatus(type)) = "InvalidRequest"
    BY <1>2 DEF TypeStatus, FromStatus
  <2> QED
    BY <1>2, <2>1 DEF FromKind
<1>3. CASE type = <<"authentication", "error">>
  <2>1. FromStatus(TypeStatus(type)) = "Authentication"
    BY <1>3 DEF TypeStatus, FromStatus
  <2> QED
    BY <1>3, <2>1 DEF FromKind
<1>4. CASE type = <<"permission", "error">>
  <2>1. FromStatus(TypeStatus(type)) = "Permission"
    BY <1>4 DEF TypeStatus, FromStatus
  <2> QED
    BY <1>4, <2>1 DEF FromKind
<1>5. CASE type = <<"not", "found", "error">>
  <2>1. FromStatus(TypeStatus(type)) = "NotFound"
    BY <1>5 DEF TypeStatus, FromStatus
  <2> QED
    BY <1>5, <2>1 DEF FromKind
<1>6. CASE type = <<"request", "too", "large">>
  <2>1. FromStatus(TypeStatus(type)) = "TooLarge"
    BY <1>6 DEF TypeStatus, FromStatus
  <2> QED
    BY <1>6, <2>1 DEF FromKind
<1>7. CASE type = <<"rate", "limit", "error">>
  <2>1. FromStatus(TypeStatus(type)) = "RateLimit"
    BY <1>7 DEF TypeStatus, FromStatus
  <2> QED
    BY <1>7, <2>1 DEF FromKind
<1>8. CASE type = <<"overloaded", "error">>
  <2>1. FromStatus(TypeStatus(type)) = "Overloaded"
    BY <1>8 DEF TypeStatus, FromStatus
  <2> QED
    BY <1>8, <2>1 DEF FromKind
<1> QED
  BY <1>1, <1>2, <1>3, <1>4, <1>5, <1>6, <1>7, <1>8 DEF ApiTypes

LEMMA KindsTypes == ASSUME NEW kind PROVE FromKind(kind) \in ApiTypes
BY DEF FromKind, ApiTypes

-----------------------------------------------------------------------------
\* A document of the API's, as it is written.
LEMMA ErrorBodyIs ==
  ASSUME NEW type, NEW message, message # None, NEW body, body = ErrorBody(type, message)
  PROVE  /\ StrField(body, "type") = <<"error">> /\ TypeOf(body) = type
         /\ MessageOf(body) = message /\ StrField(Field(body, "error"), "code") = None
         /\ OfMessages(body) /\ (type \in ApiTypes => OfApi(body))
<1> DEFINE error == [fields |-> [type |-> Says(type), message |-> Says(message)]]
           fields == [type |-> Says(<<"error">>), error |-> error]
<1>1. Field(body, "type") = Says(<<"error">>) /\ Field(body, "error") = error
  BY DEF Field, ErrorBody
<1>2. /\ Field(error, "type") = Says(type) /\ Field(error, "message") = Says(message)
      /\ Field(error, "code") = Absent
  BY DEF Field
<1> HIDE DEF error
<1>3. \A words : Said(Says(words)) = words
  BY DEF Said, Says
<1>4. Said(Absent) = None
  BY DEF Said, Absent
<1>5. /\ StrField(body, "type") = <<"error">> /\ TypeOf(body) = type
      /\ MessageOf(body) = message /\ StrField(Field(body, "error"), "code") = None
  BY <1>1, <1>2, <1>3, <1>4 DEF StrField, TypeOf, MessageOf
<1> QED
  BY <1>5 DEF OfMessages, OfApi

\* What the error of a document of the API's says is its message.
LEMMA MessageSaid ==
  ASSUME NEW body, BodyType(body), OfMessages(body)
  PROVE  /\ Field(body, "error") # Absent /\ DOMAIN Field(body, "error") = {"fields"}
         /\ ErrorDocument(body) = MessageOf(body) /\ SaidBack(body) = MessageOf(body)
         /\ MessageOf(body) \in Seq(STRING)
         /\ ErrorNames(body) = <<TypeOf(body), StrField(Field(body, "error"), "code")>>
<1> DEFINE error == Field(body, "error")
<1>1. Said(Absent) = None
  BY DEF Said, Absent
<1>2. MessageOf(body) # None
  BY DEF OfMessages
<1>3. Field(error, "message") # Absent
  BY <1>1, <1>2 DEF MessageOf, StrField
<1>4. "fields" \in DOMAIN error
  BY <1>3 DEF Field
<1>5. error # Absent
  BY <1>4 DEF Absent
<1>6. ValueType(error)
  BY <1>5, FieldType DEF BodyType
<1>7. DOMAIN error = {"fields"}
  BY <1>4, <1>6 DEF ValueType
<1>8. Said(error) = None
  BY <1>7 DEF Said
<1>9. ErrorText(error) = MessageOf(body)
  BY <1>2, <1>8 DEF ErrorText, MessageOf
<1>10. ErrorDocument(body) = MessageOf(body)
  BY <1>5, <1>9 DEF ErrorDocument
<1>11. MessageOf(body) \in Seq(STRING)
  BY <1>2, <1>10, DocumentType
<1>12. ErrorNames(body) = <<TypeOf(body), StrField(Field(body, "error"), "code")>>
  BY <1>4 DEF ErrorNames, TypeAndCode, TypeOf
<1> QED
  BY <1>2, <1>5, <1>7, <1>10, <1>11, <1>12 DEF SaidBack

LEMMA PrefixOfConcat == ASSUME NEW s, NEW t, IsSeq(s), IsSeq(t) PROVE IsPrefix(s, s \o t)
<1> DEFINE u == s \o t
<1>1. /\ IsSeq(u) /\ Len(u) = Len(s) + Len(t) /\ Len(s) \in Nat /\ Len(t) \in Nat
      /\ \A i \in 1..Len(s) : u[i] = s[i]
  BY ConcatAt
<1> HIDE DEF u
<1>2. Runs(s, Len(s)) /\ Runs(u, Len(u)) /\ Len(u) \in Nat /\ Len(s) <= Len(u)
  BY <1>1 DEF IsSeq, Runs
<1>3. SameTo(s, u, Len(s))
  BY <1>1 DEF SameTo
<1>4. IsPrefix(s, u)
  BY <1>1, <1>2, <1>3, IsPrefixIf
<1> QED
  BY <1>4 DEF u

\* An Anthropic backend's overflow is put as a client knows it, all else left.
LEMMA RewordMeans ==
  ASSUME NEW body, BodyType(body), NEW r, r = RewordError(body)
  PROVE  /\ OfMessages(body) /\ SaysContextExceeded(SaidBack(body)) =>
              IsPrefix(PromptTooLong, MessageOf(r)) /\ TypeOf(r) = TypeOf(body)
         /\ ~(/\ SaysContextExceeded(SaidBack(body)) /\ OfMessages(body)
              /\ ~IsPrefix(PromptTooLong, MessageOf(body))) => r = body
<1> DEFINE error == Field(body, "error")
           text == MessageOf(body)
           new == Put(error, "message", Says(PromptTooLong \o text))
           rewords == OfMessages(body) /\ ~IsPrefix(PromptTooLong, text) /\ SaysContextExceeded(text)
<1>1. r = IF rewords THEN Put(body, "error", new) ELSE body
  BY DEF RewordError, OfMessages, MessageOf
<1>2. OfMessages(body) => SaidBack(body) = text
  BY MessageSaid
<1>3. ASSUME rewords
      PROVE  IsPrefix(PromptTooLong, MessageOf(r)) /\ TypeOf(r) = TypeOf(body)
  <2>1. text \in Seq(STRING) /\ DOMAIN error = {"fields"}
    BY <1>3, MessageSaid
  <2>2. Field(r, "error") = new
    BY <1>1, <1>3 DEF Field, Put, With
  <2>3. Field(new, "message") = Says(PromptTooLong \o text)
    BY DEF Field, Put, With
  <2>4. Field(new, "type") = Field(error, "type")
    BY <2>1 DEF Field, Put, With
  <2> HIDE DEF new
  <2>5. MessageOf(r) = PromptTooLong \o text /\ TypeOf(r) = TypeOf(body)
    BY <2>2, <2>3, <2>4 DEF MessageOf, TypeOf, StrField, Said, Says
  <2>6. IsSeq(PromptTooLong) /\ IsSeq(text)
    BY <2>1, SingleIsSeq, SeqIs DEF PromptTooLong
  <2>8. IsPrefix(PromptTooLong, PromptTooLong \o text)
    BY <2>6, PrefixOfConcat
  <2> QED
    BY <2>5, <2>8
<1>4. OfMessages(body) /\ SaysContextExceeded(text) /\ ~rewords => IsPrefix(PromptTooLong, text)
  OBVIOUS
<1> HIDE DEF rewords
<1>5. ~rewords => r = body
  BY <1>1
<1>6. rewords => OfMessages(body) /\ ~IsPrefix(PromptTooLong, text) /\ SaysContextExceeded(text)
  BY DEF rewords
<1> QED
  BY <1>2, <1>3, <1>4, <1>5, <1>6

-----------------------------------------------------------------------------
\* What is made of a failure has the kind and the words it was told in.
\* What is read off a failure is never that it was too long: that is read before.
LEMMA NamedOther ==
  ASSUME NEW names, DOMAIN names \subseteq Nat
  PROVE  KindNamed(names) # "ContextExceeded"
<1> DEFINE kinds == {i \in DOMAIN names : names[i] # None /\ NamedKind(names[i]) # None}
<1>1. CASE kinds = {}
  BY <1>1 DEF KindNamed
<1>2. CASE kinds # {}
  <2>1. Min(kinds) \in kinds
    BY <1>2, LeastIs
  <2>2. KindNamed(names) = NamedKind(names[Min(kinds)]) /\ NamedKind(names[Min(kinds)]) # None
    BY <1>2, <2>1 DEF KindNamed
  <2>3. \A name : NamedKind(name) # None => NamedKind(name) # "ContextExceeded"
    BY DEF NamedKind
  <2> QED
    BY <2>2, <2>3
<1> QED
  BY <1>1, <1>2

LEMMA StatusOther == ASSUME NEW status PROVE FromStatus(status) # "ContextExceeded"
BY DEF FromStatus

LEMMA AbridgedType ==
  ASSUME NEW words \in Seq(STRING)
  PROVE  Abridged(words) \in Seq(STRING)
<1>1. MAX_MESSAGE_CHARS \in Nat /\ "..." \in STRING
  BY RequestsAssumption DEF Literals
<1>2. CASE Len(words) > MAX_MESSAGE_CHARS
  <2> DEFINE kept == SubSeq(words, 1, MAX_MESSAGE_CHARS)
  <2>1. kept \in Seq(STRING)
    BY <1>1, <1>2, SubSeqProperties
  <2>2. <<"...">> \in Seq(STRING)
    BY <1>1
  <2> HIDE DEF kept
  <2>3. kept \o <<"...">> \in Seq(STRING)
    BY <2>1, <2>2
  <2> QED
    BY <1>1, <1>2, <2>3 DEF Abridged, kept
<1>3. CASE ~(Len(words) > MAX_MESSAGE_CHARS)
  BY <1>1, <1>3 DEF Abridged
<1> QED
  BY <1>2, <1>3

\* What is made of an OpenAI backend's failure.
LEMMA DecodeMeans ==
  ASSUME NEW body, BodyType(body), NEW status \in Nat,
         NEW e, e = EncodeError(DecodeError(status, body)),
         NEW said, said = SaidBack(body), NEW told, told = Abridged(said), NEW overflow, overflow = Overflows("openai", body)
  PROVE  /\ OfApi(e)
         /\ overflow => MessageOf(e) = PromptTooLong \o told
                        /\ TypeOf(e) = <<"invalid", "request", "error">>
         /\ ~overflow => MessageOf(e) = told
         /\ ~overflow /\ OfApi(body) /\ status = TypeStatus(TypeOf(body)) => TypeOf(e) = TypeOf(body)
<1> DEFINE failure == DecodeError(status, body)
           names == IF ErrorDocument(body) = None THEN <<>> ELSE ErrorNames(body)
           long == \E text \in (ToSet(names) \ {None}) \cup {said} : SaysContextExceeded(text)
           by == FromStatus(status)
           kind == IF long THEN "ContextExceeded" ELSE IF by # "Upstream" THEN by ELSE KindNamed(names)
           message == IF ErrorDocument(body) = None THEN First(Shown(body), MAX_RAW_MESSAGE)
                      ELSE ErrorDocument(body)
<1>1. said = message /\ said \in Seq(STRING)
  BY DocumentType DEF SaidBack
<1>2. status # None
  BY RequestsAssumption
<1>3. failure = [kind |-> kind, message |-> told]
  <2>1. failure = NewFailure(kind, said)
    BY <1>1, <1>2 DEF DecodeError
  <2>2. Len(said) \in Nat /\ MAX_MESSAGE_CHARS \in Nat
    BY <1>1, RequestsAssumption
  <2> QED
    BY <2>1, <2>2 DEF NewFailure, Abridged
<1>4. ToSet(<<>>) = {}
  BY DEF ToSet
<1>5. long <=> overflow
  BY <1>4 DEF Overflows
<1>6. DOMAIN names \subseteq Nat
  BY DEF ErrorNames, TypeAndCode
<1>7. kind = "ContextExceeded" <=> long
  BY <1>6, NamedOther, StatusOther
<1> DEFINE text == (IF kind = "ContextExceeded" THEN PromptTooLong ELSE <<>>) \o told
<1>8. e = ErrorBody(FromKind(kind), text)
  BY <1>3 DEF EncodeError
<1>9. told \in Seq(STRING) /\ IsSeq(told)
  BY <1>1, AbridgedType, SeqIs
<1>10. text = IF long THEN PromptTooLong \o told ELSE told
  BY <1>7, <1>9, WithEmpty
<1>11. PromptTooLong \in Seq(STRING)
  <2>1. ToSet(PromptTooLong) \subseteq STRING
    BY RequestsAssumption DEF Literals
  <2> QED
    BY <2>1, SingleIsSeq, SeqIn DEF PromptTooLong
<1>12. text \in Seq(STRING) /\ text # None
  <2> HIDE DEF text, long
  <2>1. \A s, t \in Seq(STRING) : s \o t \in Seq(STRING)
    OBVIOUS
  <2>2. text \in Seq(STRING)
    BY <1>9, <1>10, <1>11, <2>1
  <2>3. None \notin Seq(STRING)
    BY RequestsAssumption
  <2> QED
    BY <2>2, <2>3
<1>13. long => FromKind(kind) = <<"invalid", "request", "error">>
  BY <1>7 DEF FromKind
<1>14. ASSUME ~long, OfApi(body), status = TypeStatus(TypeOf(body))
       PROVE  FromKind(kind) = TypeOf(body)
  <2>1. OfMessages(body) /\ TypeOf(body) \in ApiTypes /\ StrField(Field(body, "error"), "code") = None
    BY <1>14 DEF OfApi
  <2>2. /\ ErrorDocument(body) = MessageOf(body) /\ SaidBack(body) = MessageOf(body)
        /\ MessageOf(body) \in Seq(STRING) /\ ErrorNames(body) = <<TypeOf(body), None>>
    BY <2>1, MessageSaid
  <2>3. names = <<TypeOf(body), None>>
    BY <2>1, <2>2 DEF OfMessages
  <2>4. kind = IF by # "Upstream" THEN by ELSE KindNamed(names)
    BY <1>14
  <2> HIDE DEF kind, names
  <2>5. FromKind(kind) = TypeOf(body)
    BY <1>14, <2>1, <2>3, <2>4, KindOfType
  <2> QED
    BY <2>5
<1> HIDE DEF kind, text, long
<1>15. FromKind(kind) \in ApiTypes
  BY KindsTypes
<1>16. OfApi(e) /\ MessageOf(e) = text /\ TypeOf(e) = FromKind(kind)
  BY <1>8, <1>12, <1>15, ErrorBodyIs
<1> QED
  BY <1>5, <1>10, <1>13, <1>14, <1>16

-----------------------------------------------------------------------------
\* What a client is answered when a backend fails.
LEMMA AnswerFailed ==
  ASSUME NEW route, route.backend.kind \in Kinds, NEW g, g.status >= 400,
         NEW a, a = Answer(route, Streams, g), a.by = "backend"
  PROVE  /\ a.status = g.status
         /\ a.body = IF route.backend.kind = "passthrough" THEN g.body
                     ELSE IF route.backend.kind = "anthropic" THEN RewordError(g.body)
                     ELSE EncodeError(DecodeError(g.status, g.body))
BY DEF Answer, Relay, RouterAnswer, Kinds

\* A backend's failure keeps its status and what it means.
Means(kind, g, a) ==
  LET body == a.body
      overflow == Overflows(kind, g.body)
  IN /\ a.status = g.status
     /\ kind = "passthrough" => body = g.body
     /\ kind # "passthrough" /\ overflow /\ (kind = "openai" \/ OfMessages(g.body)) =>
          /\ IsPrefix(PromptTooLong, MessageOf(body))
          /\ TypeOf(body) = IF kind = "openai" THEN <<"invalid", "request", "error">>
                            ELSE TypeOf(g.body)
     /\ kind # "passthrough" /\ ~overflow /\ OfApi(g.body)
          /\ g.status = TypeStatus(TypeOf(g.body)) =>
          /\ TypeOf(body) = TypeOf(g.body)
          /\ kind = "anthropic" => MessageOf(body) = MessageOf(g.body)
     /\ kind = "openai" =>
          /\ OfApi(body)
          /\ MessageOf(body) = (IF overflow THEN PromptTooLong ELSE <<>>)
                                 \o Abridged(SaidBack(g.body))
     /\ kind = "anthropic"
          /\ ~(/\ overflow /\ OfMessages(g.body)
               /\ ~IsPrefix(PromptTooLong, MessageOf(g.body))) =>
          body = g.body

LEMMA FailureMeans ==
  ASSUME NEW route, route.backend.kind \in Kinds, NEW g, GivenType(g), g.status >= 400,
         NEW a, a = Answer(route, Streams, g), a.by = "backend"
  PROVE  Means(route.backend.kind, g, a)
<1> DEFINE body == g.body
<1>1. /\ a.status = g.status
      /\ a.body = IF route.backend.kind = "passthrough" THEN body
                  ELSE IF route.backend.kind = "anthropic" THEN RewordError(body)
                  ELSE EncodeError(DecodeError(g.status, body))
  BY AnswerFailed
<1>2. BodyType(body) /\ g.status \in Nat
  BY DEF GivenType
<1> HIDE DEF body
<1>3. CASE route.backend.kind = "passthrough"
  BY <1>1, <1>3 DEF Means, body
<1>4. CASE route.backend.kind = "anthropic"
  <2>1. a.body = RewordError(body)
    BY <1>1, <1>4
  <2>2. Overflows("anthropic", body) <=> SaysContextExceeded(SaidBack(body))
    BY DEF Overflows
  <2>3. /\ OfMessages(body) /\ SaysContextExceeded(SaidBack(body)) =>
             IsPrefix(PromptTooLong, MessageOf(a.body)) /\ TypeOf(a.body) = TypeOf(body)
        /\ ~(/\ SaysContextExceeded(SaidBack(body)) /\ OfMessages(body)
             /\ ~IsPrefix(PromptTooLong, MessageOf(body))) => a.body = body
    BY <1>2, <2>1, RewordMeans
  <2> QED
    BY <1>1, <1>4, <2>2, <2>3 DEF Means, body
<1>5. CASE route.backend.kind = "openai"
  <2> DEFINE e == a.body
             said == SaidBack(body)
             told == Abridged(said)
             overflow == Overflows("openai", body)
  <2>1. e = EncodeError(DecodeError(g.status, body))
    BY <1>1, <1>5
  <2>2. told \in Seq(STRING) /\ IsSeq(told)
    BY <1>2, DocumentType, AbridgedType, SeqIs
  <2> HIDE DEF e, said, told, overflow
  <2>3. /\ OfApi(e)
        /\ overflow => MessageOf(e) = PromptTooLong \o told
                       /\ TypeOf(e) = <<"invalid", "request", "error">>
        /\ ~overflow => MessageOf(e) = told
        /\ ~overflow /\ OfApi(body) /\ g.status = TypeStatus(TypeOf(body)) => TypeOf(e) = TypeOf(body)
    BY <1>2, <2>1, DecodeMeans DEF said, told, overflow
  <2>4. IsSeq(PromptTooLong) /\ IsPrefix(PromptTooLong, PromptTooLong \o told)
    BY <2>2, SingleIsSeq, PrefixOfConcat DEF PromptTooLong
  <2>5. told = <<>> \o told
    BY <2>2, WithEmpty
  <2>6. MessageOf(e) = (IF overflow THEN PromptTooLong ELSE <<>>) \o told
    BY <2>3, <2>5
  <2> QED
    BY <1>1, <1>5, <2>3, <2>4, <2>6 DEF Means, body, e, said, told, overflow
<1> QED
  BY <1>3, <1>4, <1>5 DEF Kinds

-----------------------------------------------------------------------------
\* Headers a client can be told: none has a text a header cannot carry.
Fit(headers) == \A n \in DOMAIN headers : Words(headers[n]) \cap Unfit = {}
RouteFit(route) == {route.name, route.id, route.upstream_model} \cap Unfit = {}

LEMMA OneWord == ASSUME NEW x PROVE Words(<<<<x>>>>) = {x}
<1>1. <<x>> \in Seq({x})
  OBVIOUS
<1>2. FlattenSeq(<<<<x>>>>) = <<x>>
  BY <1>1, FlattenOne
<1> QED
  BY <1>2, SingleIsSeq DEF Words

LEMMA FitWith ==
  ASSUME NEW headers, Fit(headers), NEW n, NEW value, Words(value) \cap Unfit = {}
  PROVE  Fit(With(headers, n, value))
BY DEF Fit, With

LEMMA FitTokens == ASSUME NEW headers, Fit(headers) PROVE Tokens(headers) \cap Unfit = {}
BY DEF Fit, Tokens, Words

LEMMA FitWords ==
  /\ Words(<<<<"rtr">>>>) \cap Unfit = {} /\ Words(JsonType) \cap Unfit = {}
  /\ Words(EventStream) \cap Unfit = {} /\ Words(NoCache) \cap Unfit = {}
<1>1. AnswerWords \cap Unfit = {}
  BY RequestsAssumption
<1>2. \A x : Words(<<<<x>>>>) = {x}
  BY OneWord
<1> QED
  BY <1>1, <1>2 DEF AnswerWords, JsonType, EventStream, NoCache

\* The names of headers the router writes are of no connection, and apart.
OwnHeaderNames == {RequestId, ContentType, CacheControl} \cup OwnNames
LEMMA OwnHeadersApart ==
  /\ OwnHeaderNames \cap (HopByHop \cup {ContentLength}) = {}
  /\ Location \notin OwnHeaderNames /\ Location \notin HopByHop \cup {ContentLength}
<1>1. /\ RequestId \notin HopByHop \cup {ContentLength, Location}
      /\ ContentType \notin HopByHop \cup {ContentLength, Location}
      /\ CacheControl \notin HopByHop \cup {ContentLength, Location}
  BY DEF RequestId, ContentType, CacheControl, HopByHop, ContentLength, Location, ProxyAuthorization
<1>2. /\ XRouterBackend \notin HopByHop \cup {ContentLength, Location}
      /\ XRouterModel \notin HopByHop \cup {ContentLength, Location}
      /\ XRouterUpstreamModel \notin HopByHop \cup {ContentLength, Location}
  BY DEF XRouterBackend, XRouterModel, XRouterUpstreamModel, HopByHop, ContentLength, Location,
         ProxyAuthorization
<1>3. Location \notin HopByHop \cup {ContentLength}
  BY DEF HopByHop, ContentLength, Location, ProxyAuthorization
<1> QED
  BY <1>1, <1>2, <1>3 DEF OwnHeaderNames, OwnNames

LEMMA TypesApart ==
  /\ RequestId # ContentType /\ CacheControl # ContentType /\ JsonType # EventStream
  /\ RequestId \notin OwnNames /\ ContentType \notin OwnNames /\ RequestId # CacheControl
BY DEF RequestId, ContentType, CacheControl, JsonType, EventStream, OwnNames, XRouterBackend,
       XRouterModel, XRouterUpstreamModel

-----------------------------------------------------------------------------
\* A document of the router's own can be read.
OwnReadable(a) ==
  /\ DOMAIN a.headers \subseteq OwnHeaderNames /\ RequestId \in DOMAIN a.headers
  /\ Fit(a.headers) /\ OfApi(a.body) /\ a.status >= 400

OwnErrors == Errors \cup BodyErrors \cup LateErrors
OfABackend == {"Upstream", "Translate", "NotOnOpenAi", "BadUpstreamResponse"}

LEMMA RouterTypes ==
  ASSUME NEW error \in OwnErrors
  PROVE  RouterErrorType(error) \in ApiTypes /\ RouterErrorStatus(error) >= 400
<1>1. RouterErrorType(error) \in ApiTypes
  BY DEF RouterErrorType, ApiTypes
<1>2. \A type \in ApiTypes : TypeStatus(type) >= 400
  BY DEF ApiTypes, TypeStatus
<1> QED
  BY <1>1, <1>2 DEF RouterErrorStatus

LEMMA OwnAnswerReadable ==
  ASSUME NEW error \in OwnErrors, NEW n, error \in OfABackend => n \notin Unfit,
         NEW a, a = RouterAnswer(error, n)
  PROVE  a.by = error /\ OwnReadable(a)
<1> DEFINE own == OwnHeaders(JsonType)
<1>1. DOMAIN own = {RequestId, ContentType} /\ Fit(own)
  BY FitWords DEF OwnHeaders, Fit
<1> HIDE DEF own
<1>2. DOMAIN a.headers \subseteq OwnHeaderNames /\ RequestId \in DOMAIN a.headers /\ Fit(a.headers)
  <2>1. CASE error \in OfABackend
    <3>1. a.headers = With(own, XRouterBackend, <<<<n>>>>)
      BY <2>1 DEF RouterAnswer, OfABackend, own
    <3>2. Words(<<<<n>>>>) \cap Unfit = {}
      BY <2>1, OneWord
    <3>3. Fit(a.headers)
      BY <1>1, <3>1, <3>2, FitWith
    <3> QED
      BY <1>1, <3>1, <3>3 DEF With, OwnHeaderNames, OwnNames
  <2>2. CASE error \notin OfABackend
    <3>1. a.headers = own
      BY <2>2 DEF RouterAnswer, OfABackend, own
    <3> QED
      BY <1>1, <3>1 DEF OwnHeaderNames
  <2> QED
    BY <2>1, <2>2
<1>3. a.body = ErrorBody(RouterErrorType(error), <<error>>) /\ a.by = error
      /\ a.status = RouterErrorStatus(error)
  BY DEF RouterAnswer
<1>4. <<error>> # None
  <2>1. error \in STRING
    BY RequestsAssumption DEF Literals, OwnErrors
  <2>2. <<error>> \in Seq(STRING) /\ None \notin Seq(STRING)
    BY <2>1, RequestsAssumption
  <2> QED
    BY <2>2
<1>5. OfApi(a.body) /\ a.status >= 400
  BY <1>3, <1>4, RouterTypes, ErrorBodyIs
<1> QED
  BY <1>2, <1>3, <1>5 DEF OwnReadable

-----------------------------------------------------------------------------
\* What is kept of a backend's headers.
KeptFits(route, g, kept) ==
  LET over == IF route.backend.kind = "passthrough" THEN {} ELSE OwnNames
      crossing == DOMAIN g.headers \ (HopByHop \cup {ContentLength})
  IN /\ DOMAIN kept = crossing \cup over /\ Fit(kept)
     /\ \A n \in crossing \ over : kept[n] = g.headers[n]

LEMMA KeptHeaders ==
  ASSUME NEW g, GivenType(g), NEW route, RouteFit(route)
  PROVE  KeptFits(route, g, Kept(route, g))
<1> DEFINE kept == Kept(route, g)
           crossing == DOMAIN g.headers \ (HopByHop \cup {ContentLength})
           back == ResponseHeaders(g.headers)
<1>1. DOMAIN back = crossing /\ \A n \in crossing : back[n] = g.headers[n]
  BY DEF ResponseHeaders, Restrict
<1>2. Fit(back)
  BY <1>1 DEF Fit, GivenType, Words
<1> HIDE DEF back
<1>3. CASE route.backend.kind = "passthrough"
  <2>1. kept = back
    BY <1>3 DEF Kept, back
  <2> HIDE DEF kept
  <2> QED
    BY <1>1, <1>2, <1>3, <2>1 DEF KeptFits, kept
<1>4. CASE route.backend.kind # "passthrough"
  <2> DEFINE one == With(back, XRouterBackend, <<<<route.name>>>>)
             two == With(one, XRouterModel, <<<<route.id>>>>)
             three == With(two, XRouterUpstreamModel, <<<<route.upstream_model>>>>)
  <2>1. kept = three
    BY <1>4 DEF Kept, RouteHeaders, back
  <2>2. \A x \in {route.name, route.id, route.upstream_model} : Words(<<<<x>>>>) \cap Unfit = {}
    BY OneWord DEF RouteFit
  <2>3. Fit(one)
    BY <1>2, <2>2, FitWith
  <2>4. Fit(two)
    <3> HIDE DEF one
    <3> QED
      BY <2>2, <2>3, FitWith
  <2>5. Fit(three)
    <3> HIDE DEF two
    <3> QED
      BY <2>2, <2>4, FitWith
  <2>6. DOMAIN three = crossing \cup OwnNames
    BY <1>1 DEF With, OwnNames
  <2>7. \A n \in crossing \ OwnNames : three[n] = g.headers[n]
    BY <1>1 DEF With, OwnNames
  <2> HIDE DEF three
  <2> QED
    BY <1>4, <2>1, <2>5, <2>6, <2>7 DEF KeptFits
<1> QED
  BY <1>3, <1>4

\* The headers an answer is relayed under.
SentUnder(kept, g, kind, h) ==
  IF kind # "openai" THEN h = kept
  ELSE \E type \in {JsonType, EventStream} :
         /\ type = EventStream <=> Streams /\ g.status < 400
         /\ \/ h = With(kept, ContentType, type)
            \/ h = With(With(kept, ContentType, type), CacheControl, NoCache)

LEMMA AnswerUnder ==
  ASSUME NEW route, NEW g, GivenType(g),
         NEW a, a = Answer(route, Streams, g), a.by = "backend"
  PROVE  /\ a.status = g.status /\ ~RedirectTarget(g)
         /\ \E h : /\ a.headers = With(h, RequestId, <<<<"rtr">>>>)
                   /\ SentUnder(Kept(route, g), g, route.backend.kind, h)
<1> DEFINE kept == Kept(route, g)
           kind == route.backend.kind
           streaming == With(With(kept, ContentType, EventStream), CacheControl, NoCache)
<1>1. \A error, n : RouterAnswer(error, n).by = error
  BY DEF RouterAnswer
<1>2. ~(RedirectTarget(g) \/ (ReadAll(kind, Streams, g) /\ g.whole # "whole"))
  BY <1>1 DEF Answer
<1>3. g.status \in Nat /\ JsonType # EventStream
  BY TypesApart DEF GivenType
<1>4. \A h, body : /\ Relay(g, h, body).status = g.status
                   /\ Relay(g, h, body).headers = With(h, RequestId, <<<<"rtr">>>>)
  BY DEF Relay
<1>5. CASE kind # "openai"
  <2>1. \E body : a = Relay(g, kept, body)
    BY <1>2, <1>5 DEF Answer
  <2> QED
    BY <1>2, <1>4, <1>5, <2>1 DEF SentUnder
<1>6. CASE kind = "openai" /\ g.status >= 400
  <2>1. \E body : a = Relay(g, With(kept, ContentType, JsonType), body)
    BY <1>2, <1>6 DEF Answer
  <2>2. SentUnder(kept, g, kind, With(kept, ContentType, JsonType))
    BY <1>3, <1>6 DEF SentUnder
  <2> QED
    BY <1>2, <1>4, <2>1, <2>2
<1>7. CASE kind = "openai" /\ ~(g.status >= 400) /\ Streams /\ IsEventStream(g.headers)
  <2>1. \E body : a = Relay(g, streaming, body)
    BY <1>2, <1>7 DEF Answer
  <2>2. SentUnder(kept, g, kind, streaming)
    BY <1>3, <1>7 DEF SentUnder
  <2> QED
    BY <1>2, <1>4, <2>1, <2>2
<1>8. CASE kind = "openai" /\ ~(g.status >= 400) /\ ~(Streams /\ IsEventStream(g.headers))
  <2> DEFINE type == IF Streams THEN EventStream ELSE JsonType
             events == DecodeResponse(g.body)
  <2>1. a = Translate(route, Streams, g, events)
    BY <1>2, <1>8 DEF Answer
  <2>2. \E body : a = Relay(g, With(kept, ContentType, type), body)
    BY <1>1, <2>1 DEF Translate
  <2>3. SentUnder(kept, g, kind, With(kept, ContentType, type))
    BY <1>3, <1>8 DEF SentUnder
  <2> QED
    BY <1>2, <1>4, <2>2, <2>3
<1> QED
  BY <1>5, <1>6, <1>7, <1>8

\* So it is read: nothing of the connection is in it, all else is.
RelayReadable(route, g, a) ==
  LET told == a.headers
      over == {RequestId} \cup (IF route.backend.kind = "passthrough" THEN {} ELSE OwnNames)
                \cup (IF route.backend.kind = "openai" THEN {ContentType, CacheControl} ELSE {})
  IN /\ DOMAIN told \cap (HopByHop \cup {ContentLength}) = {}
     /\ RequestId \in DOMAIN told /\ Fit(told)
     /\ Location \notin DOMAIN told \/ a.status \notin 300..399
     /\ \A n \in DOMAIN g.headers \ (HopByHop \cup {ContentLength}) :
          n \in DOMAIN told /\ (n \in over \/ told[n] = g.headers[n])
     /\ route.backend.kind = "openai" => (IsEventStream(told) <=> Streams /\ a.status < 400)

LEMMA AnswerReadable ==
  ASSUME NEW route, RouteFit(route), route.backend.kind \in Kinds, NEW g, GivenType(g),
         NEW a, a = Answer(route, Streams, g), a.by = "backend"
  PROVE  RelayReadable(route, g, a)
<1>0. /\ a.status = g.status /\ ~RedirectTarget(g)
      /\ \E h : /\ a.headers = With(h, RequestId, <<<<"rtr">>>>)
                /\ SentUnder(Kept(route, g), g, route.backend.kind, h)
  BY AnswerUnder
<1> DEFINE kept == Kept(route, g)
           kind == route.backend.kind
           own == IF kind = "passthrough" THEN {} ELSE OwnNames
           crossing == DOMAIN g.headers \ (HopByHop \cup {ContentLength})
           types == IF kind = "openai" THEN {ContentType, CacheControl} ELSE {}
           told == a.headers
<1>1. /\ a.status = g.status /\ ~RedirectTarget(g)
      /\ \E h : /\ told = With(h, RequestId, <<<<"rtr">>>>) /\ SentUnder(kept, g, kind, h)
  BY <1>0
<1>2. PICK h : told = With(h, RequestId, <<<<"rtr">>>>) /\ SentUnder(kept, g, kind, h)
  BY <1>1
<1>3. /\ DOMAIN kept = crossing \cup own /\ Fit(kept)
      /\ \A n \in crossing \ own : kept[n] = g.headers[n]
  <2>1. KeptFits(route, g, kept)
    BY KeptHeaders
  <2> HIDE DEF kept
  <2> QED
    BY <2>1 DEF KeptFits
<1> HIDE DEF kept, told, crossing, own
<1>4. /\ DOMAIN kept \subseteq DOMAIN h /\ DOMAIN h \subseteq DOMAIN kept \cup types
      /\ \A n \in DOMAIN kept \ types : h[n] = kept[n]
      /\ Fit(h)
      /\ kind = "openai" => /\ ContentType \in DOMAIN h
                            /\ h[ContentType] = EventStream <=> Streams /\ g.status < 400
  <2>1. CASE kind # "openai"
    BY <1>2, <1>3, <2>1 DEF SentUnder
  <2>2. CASE kind = "openai"
    <3>1. PICK type \in {JsonType, EventStream} :
            /\ type = EventStream <=> Streams /\ g.status < 400
            /\ \/ h = With(kept, ContentType, type)
               \/ h = With(With(kept, ContentType, type), CacheControl, NoCache)
      BY <1>2, <2>2 DEF SentUnder
    <3> DEFINE typed == With(kept, ContentType, type)
    <3>2. Fit(typed)
      BY <1>3, FitWith, FitWords
    <3>3. /\ DOMAIN typed = DOMAIN kept \cup {ContentType} /\ typed[ContentType] = type
          /\ \A n \in DOMAIN kept \ {ContentType} : typed[n] = kept[n]
      BY DEF With
    <3> HIDE DEF typed
    <3>4. Fit(With(typed, CacheControl, NoCache))
      BY <3>2, FitWith, FitWords
    <3>5. CASE h = typed
      BY <2>2, <3>1, <3>2, <3>3, <3>5
    <3>6. CASE h = With(typed, CacheControl, NoCache)
      BY <2>2, <3>1, <3>3, <3>4, <3>6, TypesApart DEF With
    <3> QED
      BY <3>1, <3>5, <3>6 DEF typed
  <2> QED
    BY <2>1, <2>2
<1>5. /\ DOMAIN told = DOMAIN h \cup {RequestId} /\ \A n \in DOMAIN h \ {RequestId} : told[n] = h[n]
  BY <1>2 DEF With
<1>6. Fit(told)
  BY <1>2, <1>4, FitWith, FitWords
<1>7. DOMAIN told \subseteq crossing \cup OwnHeaderNames /\ crossing \subseteq DOMAIN told
  BY <1>3, <1>4, <1>5 DEF own, OwnHeaderNames
<1>8. DOMAIN told \cap (HopByHop \cup {ContentLength}) = {}
  BY <1>7, OwnHeadersApart DEF crossing
<1>9. Location \in DOMAIN told => Location \in DOMAIN g.headers
  BY <1>7, OwnHeadersApart DEF crossing
<1>10. Location \notin DOMAIN told \/ a.status \notin 300..399
  BY <1>1, <1>9 DEF RedirectTarget
<1>11. \A n \in crossing :
         n \in DOMAIN told /\ (n \in {RequestId} \cup own \cup types \/ told[n] = g.headers[n])
  BY <1>3, <1>4, <1>5
<1>12. kind = "openai" => (IsEventStream(told) <=> Streams /\ a.status < 400)
  BY <1>1, <1>4, <1>5, TypesApart DEF IsEventStream
<1> QED
  BY <1>5, <1>6, <1>8, <1>10, <1>11, <1>12 DEF RelayReadable, told, crossing, own

-----------------------------------------------------------------------------
\* What is said of tokens, of the answer of an OpenAI backend read whole.
LEMMA GreatestBelow ==
  ASSUME NEW n \in Nat, NEW T \in SUBSET (0..n), T # {}
  PROVE  Max(T) \in T
<1> DEFINE R == {n - x : x \in T}
<1>1. R \in SUBSET Nat /\ R # {}
  <2>1. \A x \in T : n - x \in Nat
    OBVIOUS
  <2>2. PICK x \in T : TRUE
    OBVIOUS
  <2>3. n - x \in R
    OBVIOUS
  <2> QED
    BY <2>1, <2>3
<1> HIDE DEF R
<1>2. PICK r \in R : \A q \in R : r <= q
  BY <1>1, LeastNumber
<1>3. PICK x \in T : r = n - x
  BY DEF R
<1>4. ASSUME NEW y \in T PROVE y <= x
  <2>1. n - y \in R
    BY DEF R
  <2>2. n - x <= n - y
    BY <1>2, <1>3, <2>1
  <2> QED
    BY <2>2
<1>5. \E z \in T : \A y \in T : z >= y
  <2>1. \A y \in T : x >= y
    BY <1>4
  <2> QED
    BY <2>1
<1> QED
  BY <1>5 DEF Max

\* The largest of four counts is one of them, or there is none.
LEMMA LargestIs ==
  ASSUME NEW usage, usage \in [DOMAIN usage -> Nat], NEW names \in {CacheRead, CacheWrite},
         NEW told, told = {usage[n] : n \in names \cap DOMAIN usage} \cup {0}
  PROVE  Largest(usage, names) \in told /\ told \subseteq Nat
<1> DEFINE count(n) == IF n \in DOMAIN usage THEN usage[n] ELSE 0
<1>1. PICK a, b, c, d : names = {a, b, c, d}
  BY DEF CacheRead, CacheWrite
<1>2. \A n : count(n) \in Nat
  OBVIOUS
<1> DEFINE top == count(a) + count(b) + count(c) + count(d)
<1>3. \A n \in names \cap DOMAIN usage : usage[n] = count(n)
  OBVIOUS
<1>4. /\ count(a) \in Nat /\ count(b) \in Nat /\ count(c) \in Nat /\ count(d) \in Nat
      /\ \A n \in names \cap DOMAIN usage : usage[n] \in {count(a), count(b), count(c), count(d)}
  BY <1>1, <1>2, <1>3
<1> HIDE DEF count
<1>5. top \in Nat /\ \A n \in names \cap DOMAIN usage : usage[n] \in 0..top
  BY <1>4
<1>6. told \in SUBSET (0..top) /\ told # {}
  BY <1>5
<1> HIDE DEF top
<1>7. Max(told) \in told
  BY <1>5, <1>6, GreatestBelow
<1>8. Largest(usage, names) = Max(told)
  BY DEF Largest
<1>9. told \subseteq Nat
  BY <1>5, <1>6
<1> QED
  BY <1>7, <1>8, <1>9

\* What is told of a prompt's tokens is what the backend counts, unless it counts more in
\* its cache.
Tallies(usage, e) ==
  LET prompt == IF "prompt_tokens" \in DOMAIN usage THEN usage["prompt_tokens"]
                ELSE Minus(Count(usage, "total_tokens"), e[2].output)
      told(names) == {usage[n] : n \in names \cap DOMAIN usage} \cup {0}
  IN \/ e[2].input + e[2].read + e[2].write = prompt
     \/ \E r \in told(CacheRead), w \in told(CacheWrite) : r + w > prompt

LEMMA UsageTallies ==
  ASSUME NEW usage, usage \in [DOMAIN usage -> Nat]
  PROVE  UsageEvent(usage)[1] = "usage" /\ Tallies(usage, UsageEvent(usage))
<1> DEFINE reads == Largest(usage, CacheRead)
           write == Largest(usage, CacheWrite)
           told(names) == {usage[n] : n \in names \cap DOMAIN usage} \cup {0}
           output == Count(usage, "completion_tokens")
           prompt == IF "prompt_tokens" \in DOMAIN usage THEN usage["prompt_tokens"]
                     ELSE Minus(Count(usage, "total_tokens"), output)
           input == Minus(prompt, reads + write)
           e == UsageEvent(usage)
<1>1. reads \in told(CacheRead) /\ write \in told(CacheWrite) /\ reads \in Nat /\ write \in Nat
  BY LargestIs
<1>2. prompt \in Nat
  BY DEF Minus, Count
<1>3. /\ e[1] = "usage" /\ e[2].input = input /\ e[2].output = output
      /\ e[2].read = reads /\ e[2].write = write
  BY DEF UsageEvent
<1> HIDE DEF reads, write, e
<1>4. input + reads + write = prompt \/ reads + write > prompt
  <2> HIDE DEF prompt
  <2> QED
    BY <1>1, <1>2 DEF Minus
<1> HIDE DEF prompt, input
<1>5. \/ e[2].input + e[2].read + e[2].write = prompt
      \/ \E r \in told(CacheRead), w \in told(CacheWrite) : r + w > prompt
  BY <1>1, <1>3, <1>4
<1> HIDE DEF output
<1>6. prompt = IF "prompt_tokens" \in DOMAIN usage THEN usage["prompt_tokens"]
               ELSE Minus(Count(usage, "total_tokens"), e[2].output)
  BY <1>3 DEF prompt
<1> QED
  BY <1>3, <1>5, <1>6 DEF Tallies, e

LEMMA RunIsSeq ==
  ASSUME NEW n \in Nat, NEW f, Runs(f, n)
  PROVE  IsSeq(f) /\ DOMAIN f = 1..n /\ Len(f) = n
<1>1. f \in [1..n -> {f[i] : i \in 1..n}]
  BY DEF Runs
<1>2. f \in Seq({f[i] : i \in 1..n}) /\ DOMAIN f = 1..n
  BY <1>1
<1>3. Len(f) = n
  BY <1>2
<1> QED
  BY <1>2, <1>3, SeqIs

\* The only event about usage is the one of its usage.
LEMMA EventsTally ==
  ASSUME NEW root, ValueType(root), CompletionType(root), DecodeResponse(root) # None,
         NEW e \in ToSet(DecodeResponse(root)), e[1] = "usage"
  PROVE  Tallies(root.fields["usage"].numbers, e)
<1> DEFINE choices == Field(root, "choices")
           choice == choices.list[1]
           event(part) == IF part[1] = "call" /\ part[2] = None
                          THEN <<"error", [kind |-> "Upstream", message |-> <<"no function name">>]>>
                          ELSE part
           parts == [i \in DOMAIN choice.parts |-> event(choice.parts[i])]
           finish == IF choice.finish = None THEN <<>>
                     ELSE <<<<"finish", StopReason(choice.finish)>>>>
           used == Field(root, "usage")
           told == IF used = Absent THEN <<>> ELSE <<UsageEvent(used.numbers)>>
<1>1. "fields" \in DOMAIN root
  BY DEF DecodeResponse
<1>2. ErrorDocument(root) = None
  <2> SUFFICES ASSUME ErrorDocument(root) # None PROVE FALSE
    OBVIOUS
  <2>1. DecodeResponse(root) = <<<<"error", DecodeError(None, root)>>>>
    BY <1>1 DEF DecodeResponse
  <2>2. e = <<"error", DecodeError(None, root)>>
    BY <2>1, SingleIsSeq
  <2> QED
    BY <2>2
<1>3. choices # Absent /\ choices.list # <<>> /\ DecodeResponse(root) = parts \o finish \o told
  BY <1>1, <1>2 DEF DecodeResponse
<1>4. /\ choice.parts \in Seq(ToSet(choice.parts))
      /\ \A part \in ToSet(choice.parts) : part[1] \in PartKinds
  BY <1>3 DEF CompletionType
<1>5. used # Absent => used.numbers \in [DOMAIN used.numbers -> Nat]
  BY DEF CompletionType
<1>6. IsSeq(parts) /\ \A x \in ToSet(parts) : x[1] # "usage"
  <2>1. DOMAIN choice.parts = 1..Len(choice.parts) /\ Len(choice.parts) \in Nat
    BY <1>4
  <2>2. \A i \in DOMAIN choice.parts : event(choice.parts[i])[1] # "usage"
    BY <1>4 DEF PartKinds, ToSet
  <2>3. \A x \in ToSet(parts) : x[1] # "usage"
    BY <2>2 DEF ToSet
  <2>4. Runs(parts, Len(choice.parts))
    BY <2>1 DEF Runs
  <2> HIDE DEF event, parts
  <2> QED
    BY <2>1, <2>3, <2>4, RunIsSeq
<1>7. IsSeq(finish) /\ \A x \in ToSet(finish) : x[1] = "finish"
  BY SingleIsSeq, EmptyIsSeq DEF ToSet
<1>8. IsSeq(told) /\ \A x \in ToSet(told) : used # Absent /\ x = UsageEvent(used.numbers)
  BY SingleIsSeq, EmptyIsSeq DEF ToSet
<1> HIDE DEF parts, finish, told
<1>9. ToSet(parts \o finish \o told) = ToSet(parts) \cup ToSet(finish) \cup ToSet(told)
  BY <1>6, <1>7, <1>8, BothSeq
<1>10. used # Absent /\ e = UsageEvent(used.numbers)
  BY <1>3, <1>6, <1>7, <1>8, <1>9
<1>11. used = root.fields["usage"]
  BY <1>10 DEF Field
<1> QED
  BY <1>5, <1>10, <1>11, UsageTallies

\* What is replayed are events of the answer.
LEMMA ReplayedFrom ==
  ASSUME NEW events, IsSeq(events)
  PROVE  ToSet(Replayed(events)) \subseteq ToSet(events)
<1>1. CASE ~Failed(events)
  BY <1>1 DEF Replayed
<1>2. CASE Failed(events)
  <2> DEFINE fails == {i \in DOMAIN events : events[i][1] = "error"}
             n == Min(fails)
  <2>1. DOMAIN events = 1..Len(events) /\ Len(events) \in Nat
    BY SeqDomain
  <2>2. fails \in SUBSET Nat /\ fails # {} /\ fails \subseteq 1..Len(events)
    BY <1>2, <2>1 DEF Failed
  <2> HIDE DEF fails
  <2>3. n \in 1..Len(events)
    BY <2>2, LeastIs
  <2>4. Replayed(events) = SubSeq(events, 1, n)
    BY <1>2 DEF Replayed, fails
  <2> HIDE DEF n
  <2>5. SubSeq(events, 1, n) = [i \in 1..n |-> events[i]]
    BY <2>3 DEF IsSeq
  <2>6. 1..n \subseteq DOMAIN events
    BY <2>1, <2>3
  <2> QED
    BY <2>4, <2>5, <2>6 DEF ToSet
<1> QED
  BY <1>1, <1>2

LEMMA EventsIsSeq ==
  ASSUME NEW root, ValueType(root), CompletionType(root), DecodeResponse(root) # None
  PROVE  IsSeq(DecodeResponse(root))
<1> DEFINE choices == Field(root, "choices")
           choice == choices.list[1]
           event(part) == IF part[1] = "call" /\ part[2] = None
                          THEN <<"error", [kind |-> "Upstream", message |-> <<"no function name">>]>>
                          ELSE part
           parts == [i \in DOMAIN choice.parts |-> event(choice.parts[i])]
           finish == IF choice.finish = None THEN <<>>
                     ELSE <<<<"finish", StopReason(choice.finish)>>>>
           told == IF Field(root, "usage") = Absent THEN <<>>
                   ELSE <<UsageEvent(Field(root, "usage").numbers)>>
<1>1. CASE ErrorDocument(root) # None
  BY <1>1, OneIsSeq DEF DecodeResponse
<1>2. CASE ErrorDocument(root) = None
  <2>1. choices # Absent /\ choices.list # <<>> /\ DecodeResponse(root) = parts \o finish \o told
    BY <1>2 DEF DecodeResponse
  <2>2. choice.parts \in Seq(ToSet(choice.parts))
    BY <2>1 DEF CompletionType
  <2>3. IsSeq(parts)
    <3>1. DOMAIN choice.parts = 1..Len(choice.parts) /\ Len(choice.parts) \in Nat
      BY <2>2
    <3>2. Runs(parts, Len(choice.parts))
      BY <3>1 DEF Runs
    <3> HIDE DEF event, parts
    <3> QED
      BY <3>1, <3>2, RunIsSeq
  <2>4. IsSeq(finish) /\ IsSeq(told)
    BY OneIsSeq, EmptyIsSeq
  <2> HIDE DEF parts, finish, told
  <2> QED
    BY <2>1, <2>3, <2>4, BothSeq
<1> QED
  BY <1>1, <1>2

\* Events are only what is made of an OpenAI backend's answer.
LEMMA EventsFrom ==
  ASSUME NEW route, NEW g, GivenType(g),
         NEW a, a = Answer(route, Streams, g), a.by = "backend", "events" \in DOMAIN a.body
  PROVE  /\ DecodeResponse(g.body) # None
         /\ a.body.events = Replayed(DecodeResponse(g.body))
<1>1. \A error, n : RouterAnswer(error, n).by = error
  BY DEF RouterAnswer
<1>2. \A h, body : Relay(g, h, body).body = body
  BY DEF Relay
<1>3. "events" \notin DOMAIN g.body /\ "events" \notin DOMAIN RewordError(g.body)
  BY DEF GivenType, BodyType, ValueType, Forms, RewordError, Put
<1>4. "events" \notin DOMAIN EncodeError(DecodeError(g.status, g.body))
  BY DEF EncodeError, ErrorBody
<1>5. a = Translate(route, Streams, g, DecodeResponse(g.body))
  BY <1>1, <1>2, <1>3, <1>4 DEF Answer
<1>6. DecodeResponse(g.body) # None /\ a.body = [events |-> Replayed(DecodeResponse(g.body))]
  BY <1>1, <1>2, <1>5 DEF Translate
<1> QED
  BY <1>6

Tallied(g, a) ==
  "events" \in DOMAIN a.body =>
    \A e \in ToSet(a.body.events) : e[1] = "usage" => Tallies(g.body.fields["usage"].numbers, e)

LEMMA AnswerTallies ==
  ASSUME NEW route, NEW g, GivenType(g),
         NEW a, a = Answer(route, Streams, g), a.by = "backend"
  PROVE  Tallied(g, a)
<1> SUFFICES ASSUME "events" \in DOMAIN a.body,
                    NEW e \in ToSet(a.body.events), e[1] = "usage"
             PROVE  Tallies(g.body.fields["usage"].numbers, e)
  BY DEF Tallied
<1> DEFINE root == g.body
<1>1. DecodeResponse(root) # None /\ a.body.events = Replayed(DecodeResponse(root))
  BY EventsFrom
<1>2. ValueType(root) /\ CompletionType(root)
  BY DEF GivenType, BodyType
<1> HIDE DEF root
<1>3. e \in ToSet(DecodeResponse(root))
  BY <1>1, <1>2, EventsIsSeq, ReplayedFrom
<1>4. Tallies(root.fields["usage"].numbers, e)
  BY <1>1, <1>2, <1>3, EventsTally
<1> QED
  BY <1>4 DEF root

-----------------------------------------------------------------------------
\* What is picked of a sequence.
LEMMA OnlyIs ==
  ASSUME NEW s, IsSeq(s), NEW picked
  PROVE  IsSeq(Only(s, picked)) /\ ToSet(Only(s, picked)) = ToSet(s) \cap picked
<1> DEFINE f == [i \in DOMAIN s |-> IF s[i] \in picked THEN <<s[i]>> ELSE <<>>]
           n == Len(s)
<1>1. n \in Nat /\ DOMAIN s = 1..n
  BY SeqDomain
<1>2. Runs(f, n)
  BY <1>1 DEF Runs
<1>3. ASSUME NEW i \in 1..n
      PROVE  IsSeq(f[i]) /\ ToSet(f[i]) = {s[i]} \cap picked
  <2>1. f[i] = IF s[i] \in picked THEN <<s[i]>> ELSE <<>>
    BY <1>1
  <2> HIDE DEF f
  <2>2. ToSet(<<>>) = {}
    BY DEF ToSet
  <2>3. CASE s[i] \in picked
    BY <2>1, <2>3, SingleIsSeq
  <2>4. CASE s[i] \notin picked
    BY <2>1, <2>2, <2>4, EmptyIsSeq
  <2> QED
    BY <2>3, <2>4
<1>4. Only(s, picked) = FlattenSeq(f)
  BY DEF Only
<1> HIDE DEF f, n
<1>5. IsSeq(FlattenSeq(f)) /\ ToSet(FlattenSeq(f)) = Within(f, n)
  BY <1>1, <1>2, <1>3, FlattenIsSeq DEF AllSeq
<1>6. ToSet(s) = {s[i] : i \in 1..n}
  BY <1>1 DEF ToSet
<1>7. Within(f, n) = ToSet(s) \cap picked
  <2>1. \A x : x \in Within(f, n) <=> \E i \in 1..n : x \in {s[i]} \cap picked
    BY <1>3 DEF Within
  <2> QED
    BY <1>6, <2>1
<1> QED
  BY <1>4, <1>5, <1>7

LEMMA OnlyAll ==
  ASSUME NEW s, IsSeq(s), NEW picked, ToSet(s) \subseteq picked
  PROVE  Only(s, picked) = s
<1>1. Len(s) \in Nat /\ DOMAIN s = 1..Len(s) /\ \A i \in 1..Len(s) : s[i] \in picked
  BY SeqDomain
<1>2. [i \in DOMAIN s |-> IF s[i] \in picked THEN <<s[i]>> ELSE <<>>]
        = [i \in 1..Len(s) |-> <<s[i]>>]
  BY <1>1
<1> QED
  BY <1>2, FlattenSingles DEF Only

-----------------------------------------------------------------------------
\* The first of a sequence of models that is called so.
Leads(s, name, m) ==
  \E i \in 1..Len(s) : s[i] = m /\ m.id = name /\ \A k \in 1..i - 1 : s[k].id # name
NoneCalled(s, name) == \A m \in ToSet(s) : m.id # name

LEMMA LeadsOne ==
  ASSUME NEW s, IsSeq(s), NEW name, NEW m, Leads(s, name, m), NEW n, Leads(s, name, n)
  PROVE  m = n
<1>1. Len(s) \in Nat
  BY SeqDomain
<1>2. PICK i \in 1..Len(s) : s[i] = m /\ m.id = name /\ \A k \in 1..i - 1 : s[k].id # name
  BY DEF Leads
<1>3. PICK j \in 1..Len(s) : s[j] = n /\ n.id = name /\ \A k \in 1..j - 1 : s[k].id # name
  BY DEF Leads
<1>4. ~(i < j) /\ ~(j < i)
  BY <1>1, <1>2, <1>3
<1> QED
  BY <1>1, <1>2, <1>3, <1>4

LEMMA LeadsLonger ==
  ASSUME NEW s, IsSeq(s), NEW t, IsSeq(t), IsPrefix(s, t), NEW name, NEW m, Leads(s, name, m)
  PROVE  Leads(t, name, m)
<1>1. /\ Len(s) \in Nat /\ Len(t) \in Nat /\ Len(s) <= Len(t)
      /\ \A i \in 1..Len(s) : s[i] = t[i]
  BY PrefixOf DEF SameTo
<1>2. PICK i \in 1..Len(s) : s[i] = m /\ m.id = name /\ \A k \in 1..i - 1 : s[k].id # name
  BY DEF Leads
<1>3. i \in 1..Len(t) /\ t[i] = m /\ \A k \in 1..i - 1 : t[k].id # name
  BY <1>1, <1>2
<1> QED
  BY <1>2, <1>3 DEF Leads

LEMMA LeadsAfter ==
  ASSUME NEW s, IsSeq(s), NEW t, IsSeq(t), NEW name, NoneCalled(s, name), NEW m, Leads(t, name, m)
  PROVE  Leads(s \o t, name, m)
<1> DEFINE u == s \o t
<1>1. /\ IsSeq(u) /\ Len(u) = Len(s) + Len(t) /\ Len(s) \in Nat /\ Len(t) \in Nat
      /\ \A i \in 1..Len(s) : u[i] = s[i]
      /\ \A i \in 1..Len(t) : u[Len(s) + i] = t[i]
  BY ConcatAt
<1> HIDE DEF u
<1>2. \A i \in 1..Len(s) : s[i].id # name
  BY SeqDomain DEF NoneCalled
<1>3. PICK i \in 1..Len(t) : t[i] = m /\ m.id = name /\ \A k \in 1..i - 1 : t[k].id # name
  BY DEF Leads
<1>4. Len(s) + i \in 1..Len(u) /\ u[Len(s) + i] = m
  BY <1>1, <1>3
<1>5. ASSUME NEW k \in 1..Len(s) + i - 1 PROVE u[k].id # name
  <2>1. CASE k <= Len(s)
    BY <1>1, <1>2, <2>1
  <2>2. CASE k > Len(s)
    <3>1. k - Len(s) \in 1..i - 1 /\ k - Len(s) \in 1..Len(t) /\ k = Len(s) + (k - Len(s))
      BY <1>1, <1>3, <2>2
    <3>2. u[k] = t[k - Len(s)]
      BY <1>1, <3>1
    <3> QED
      BY <1>3, <3>1, <3>2
  <2> QED
    BY <1>1, <2>1, <2>2
<1> QED
  BY <1>3, <1>4, <1>5 DEF Leads, u

\* It leads a list of lists if it leads the first of them with one called so.
LEMMA FlattenNext ==
  ASSUME NEW n \in Nat, NEW f, Runs(f, n), AllSeq(f, n), NEW j \in 1..n,
         NEW g, g = [i \in 1..j - 1 |-> f[i]]
  PROVE  /\ IsSeq(FlattenSeq(g)) /\ ToSet(FlattenSeq(g)) = UNION {ToSet(f[i]) : i \in 1..j - 1}
         /\ IsSeq(FlattenSeq(f)) /\ IsPrefix(FlattenSeq(g) \o f[j], FlattenSeq(f))
<1> DEFINE S == Within(f, n)
           h == Append(g, f[j])
           x == f[j]
<1>1. j - 1 \in Nat /\ j - 1 <= n /\ j <= n /\ \A i \in 1..j - 1 : i \in 1..n
  OBVIOUS
<1>2. Runs(g, j - 1) /\ SameTo(g, f, j - 1)
  <2>1. \A i \in 1..j - 1 : g[i] = f[i]
    OBVIOUS
  <2>2. g = [i \in 1..j - 1 |-> g[i]]
    BY <2>1
  <2> QED
    BY <2>1, <2>2 DEF Runs, SameTo
<1> DEFINE p == j - 1
<1>3. /\ IsSeq(FlattenSeq(g)) /\ IsSeq(FlattenSeq(f))
  <2>1. p \in Nat /\ p <= n /\ Runs(g, p) /\ SameTo(g, f, p)
    BY <1>1, <1>2
  <2> HIDE DEF p
  <2> QED
    BY <2>1, FlattenGrows
<1>4. AllSeq(g, j - 1) /\ Within(g, j - 1) \subseteq S
  BY <1>1 DEF AllSeq, Within
<1>5. ToSet(FlattenSeq(g)) = Within(g, j - 1)
  <2>1. p \in Nat /\ Runs(g, p) /\ AllSeq(g, p)
    BY <1>1, <1>2, <1>4
  <2> HIDE DEF p
  <2>2. ToSet(FlattenSeq(g)) = Within(g, p)
    BY <2>1, FlattenIsSeq
  <2> QED
    BY <2>2 DEF p
<1>6. Within(g, j - 1) = UNION {ToSet(f[i]) : i \in 1..j - 1}
  BY DEF Within
<1>7. IsSeq(x) /\ ToSet(x) \subseteq S
  BY DEF AllSeq, Within
<1> HIDE DEF S, x
<1>8. g \in Seq(Seq(S)) /\ Len(g) = j - 1 /\ x \in Seq(S)
  <2>1. p \in Nat /\ Runs(g, p) /\ AllSeq(g, p) /\ Within(g, p) \subseteq S
    BY <1>1, <1>2, <1>4
  <2> HIDE DEF p
  <2>2. g \in Seq(Seq(S)) /\ Len(g) = p
    BY <2>1, RunsIs
  <2>3. x \in Seq(S)
    BY <1>7, SeqIn
  <2> QED
    BY <2>2, <2>3 DEF p
<1>9. FlattenSeq(h) = FlattenSeq(g) \o x
  BY <1>8, FlattenLast DEF x
<1>10. Runs(h, j) /\ SameTo(h, f, j)
  <2> DEFINE Q == Seq(S)
  <2>1. g \in Seq(Q) /\ x \in Q /\ Len(g) = j - 1
    BY <1>8
  <2>2. Append(g, x) = [i \in 1..j |-> IF i = j THEN x ELSE g[i]]
    <3> HIDE DEF Q
    <3> QED
      BY <2>1
  <2>3. \A i \in 1..j : h[i] = IF i = j THEN x ELSE g[i]
    BY <2>2 DEF x
  <2>4. \A i \in 1..j : h[i] = f[i]
    BY <2>3 DEF x
  <2>5. h = [i \in 1..j |-> h[i]]
    BY <2>2, <2>3 DEF x
  <2> HIDE DEF h
  <2> QED
    BY <2>4, <2>5 DEF Runs, SameTo
<1>11. IsPrefix(FlattenSeq(h), FlattenSeq(f))
  <2> HIDE DEF h
  <2> QED
    BY <1>1, <1>10, FlattenGrows
<1> QED
  BY <1>3, <1>5, <1>6, <1>9, <1>11 DEF x

LEMMA LeadsFlattened ==
  ASSUME NEW n \in Nat, NEW f, Runs(f, n), AllSeq(f, n), NEW j \in 1..n, NEW name,
         \A i \in 1..j - 1 : NoneCalled(f[i], name), NEW m, Leads(f[j], name, m)
  PROVE  IsSeq(FlattenSeq(f)) /\ Leads(FlattenSeq(f), name, m)
<1> DEFINE g == [i \in 1..j - 1 |-> f[i]]
           before == FlattenSeq(g)
           all == FlattenSeq(f)
           x == f[j]
<1>1. /\ IsSeq(before) /\ ToSet(before) = UNION {ToSet(f[i]) : i \in 1..j - 1}
      /\ IsSeq(all) /\ IsPrefix(before \o x, all)
  BY FlattenNext
<1>2. IsSeq(x) /\ Leads(x, name, m)
  BY DEF AllSeq
<1> HIDE DEF before, all, x
<1>3. NoneCalled(before, name)
  BY <1>1 DEF NoneCalled
<1>4. IsSeq(before \o x)
  BY <1>1, <1>2, BothSeq
<1>5. Leads(before \o x, name, m)
  BY <1>1, <1>2, <1>3, LeadsAfter
<1>6. Leads(all, name, m)
  BY <1>1, <1>4, <1>5, LeadsLonger
<1> QED
  BY <1>1, <1>6 DEF all

\* It leads what is picked, if all that are called so are.
LEMMA LeadsOnly ==
  ASSUME NEW s, IsSeq(s), NEW picked, NEW name,
         \A x \in ToSet(s) : x.id = name => x \in picked, NEW m, Leads(s, name, m)
  PROVE  Leads(Only(s, picked), name, m)
<1> DEFINE f == [i \in DOMAIN s |-> IF s[i] \in picked THEN <<s[i]>> ELSE <<>>]
           n == Len(s)
<1>1. n \in Nat /\ DOMAIN s = 1..n /\ \A i \in 1..n : s[i] \in ToSet(s)
  BY SeqDomain
<1>2. Runs(f, n) /\ \A i \in 1..n : f[i] = IF s[i] \in picked THEN <<s[i]>> ELSE <<>>
  BY <1>1 DEF Runs
<1>3. Only(s, picked) = FlattenSeq(f)
  BY DEF Only
<1>4. PICK j \in 1..n : s[j] = m /\ m.id = name /\ \A k \in 1..j - 1 : s[k].id # name
  BY DEF Leads
<1> HIDE DEF f, n
<1>5. AllSeq(f, n)
  BY <1>2, OneIsSeq, EmptyIsSeq DEF AllSeq
<1>6. \A i \in 1..j - 1 : NoneCalled(f[i], name)
  <2> SUFFICES ASSUME NEW i \in 1..j - 1 PROVE NoneCalled(f[i], name)
    OBVIOUS
  <2>1. i \in 1..n
    BY <1>1, <1>4
  <2>2. ToSet(<<>>) = {}
    BY DEF ToSet
  <2>3. ToSet(f[i]) \subseteq {s[i]}
    <3>1. CASE s[i] \in picked
      BY <1>2, <2>1, <3>1, SingleIsSeq
    <3>2. CASE s[i] \notin picked
      BY <1>2, <2>1, <2>2, <3>2
    <3> QED
      BY <3>1, <3>2
  <2> QED
    BY <1>4, <2>3 DEF NoneCalled
<1>7. Leads(f[j], name, m)
  <2>1. f[j] = <<m>>
    BY <1>1, <1>2, <1>4
  <2>2. Len(<<m>>) = 1 /\ <<m>>[1] = m
    OBVIOUS
  <2> QED
    BY <1>4, <2>1, <2>2 DEF Leads
<1>8. Leads(FlattenSeq(f), name, m)
  BY <1>1, <1>2, <1>4, <1>5, <1>6, <1>7, LeadsFlattened
<1> QED
  BY <1>3, <1>8

-----------------------------------------------------------------------------
\* What a row of a list says of a model.
Value(v) == v = None \/ v \in [text : STRING] \cup [number : Nat]
RowOK(row) == row # None /\ RowType(row) /\ IdOf(row) # ""
Sized(n) == n \in Nat \cup {None}

LEMMA ValueSays ==
  ASSUME NEW v, Value(v)
  PROVE  TextIn(v) \in STRING /\ Sized(NumberIn(v))
<1>1. "" \in STRING
  BY RequestsAssumption DEF Literals
<1>2. CASE v = None
  BY <1>1, <1>2 DEF TextIn, NumberIn, Sized
<1>3. CASE v # None /\ v \in [text : STRING]
  BY <1>1, <1>3 DEF TextIn, NumberIn, Sized
<1>4. CASE v # None /\ v \in [number : Nat]
  BY <1>1, <1>4 DEF TextIn, NumberIn, Sized
<1> QED
  BY <1>2, <1>3, <1>4 DEF Value

LEMMA GetSays ==
  ASSUME NEW row, row # None, RowType(row), NEW name, NEW other
  PROVE  Value(Get(row, name)) /\ Value(GetOr(row, name, other))
BY DEF Get, GetOr, RowType, Value

LEMMA PositiveIs ==
  ASSUME NEW n, Sized(n)
  PROVE  Sized(Positive(n)) /\ Positive(n) # 0
<1>1. None \notin Nat
  BY RequestsAssumption
<1> QED
  BY <1>1 DEF Sized, Positive

LEMMA WindowIs ==
  ASSUME NEW row, row # None, RowType(row)
  PROVE  Sized(Window(row)) /\ Window(row) # 0
<1> DEFINE window(i) == Positive(NumberIn(Get(row, ContextFields[i])))
           told == {i \in DOMAIN ContextFields : window(i) # None}
<1>1. \A i : Sized(window(i)) /\ window(i) # 0
  BY GetSays, ValueSays, PositiveIs
<1>2. Window(row) = IF told = {} THEN None ELSE window(Min(told))
  BY DEF Window
<1>3. None # 0
  BY RequestsAssumption
<1> HIDE DEF window, told
<1> QED
  BY <1>1, <1>2, <1>3 DEF Sized

\* A model as the router can use it.
Modelled(m) == m \in ModelType /\ m.id # "" /\ m.context_window # 0
WellModel(m) == Modelled(m) /\ m.display_name # "" /\ m.id \notin Unfit

LEMMA RowModels ==
  ASSUME NEW row, RowOK(row)
  PROVE  /\ Modelled(AnthropicModel(row)) /\ AnthropicModel(row).id = IdOf(row)
         /\ Modelled(OpenAiModel(row)) /\ OpenAiModel(row).id = IdOf(row)
         /\ OpenAiModel(row).display_name # ""
<1> DEFINE shown == TextIn(GetOr(row, "name", "display_name"))
           most == Positive(NumberIn(GetOr(row, "max_output_tokens", "max_tokens")))
           title == TextIn(GetOr(row, "display_name", "name"))
           window == Positive(NumberIn(Get(row, "context_window")))
           output == NumberIn(Get(row, "runtime.max_output_tokens"))
           id == IdOf(row)
<1>1. row # None /\ RowType(row) /\ id # ""
  BY DEF RowOK
<1>2. shown \in STRING /\ Sized(most) /\ title \in STRING
  BY <1>1, GetSays, ValueSays, PositiveIs
<1>3. Sized(window) /\ window # 0 /\ Sized(output) /\ id \in STRING
  BY <1>1, GetSays, ValueSays, PositiveIs DEF IdOf
<1>4. Sized(Window(row)) /\ Window(row) # 0
  BY <1>1, WindowIs
<1>5. AnthropicModel(row) = [id |-> id, display_name |-> title, context_window |-> window,
                             max_output_tokens |-> output]
  BY DEF AnthropicModel
<1>6. OpenAiModel(row) = [id |-> id, display_name |-> IF shown = "" THEN id ELSE shown,
                          context_window |-> Window(row), max_output_tokens |-> most]
  BY DEF OpenAiModel
<1> HIDE DEF shown, most, title, window, output, id
<1>7. Modelled(AnthropicModel(row)) /\ AnthropicModel(row).id = id
  <2>1. AnthropicModel(row) \in ModelType
    BY <1>2, <1>3, <1>5 DEF ModelType, Sized
  <2>2. AnthropicModel(row).id = id /\ AnthropicModel(row).context_window = window
    BY <1>5
  <2> QED
    BY <1>1, <1>3, <2>1, <2>2 DEF Modelled
<1>8. /\ Modelled(OpenAiModel(row)) /\ OpenAiModel(row).id = id
      /\ OpenAiModel(row).display_name # ""
  <2> DEFINE name == IF shown = "" THEN id ELSE shown
             w == Window(row)
  <2>1. name \in STRING /\ name # "" /\ Sized(w) /\ w # 0
    BY <1>1, <1>2, <1>3, <1>4
  <2>2. OpenAiModel(row) = [id |-> id, display_name |-> name, context_window |-> w,
                            max_output_tokens |-> most]
    BY <1>6
  <2> HIDE DEF name, w
  <2>3. OpenAiModel(row) \in ModelType
    <3>1. id \in STRING /\ most \in Nat \cup {None} /\ w \in Nat \cup {None} /\ name \in STRING
      BY <1>2, <1>3, <2>1 DEF Sized
    <3> QED
      BY ONLY <2>2, <3>1 DEF ModelType
  <2>4. /\ OpenAiModel(row).id = id /\ OpenAiModel(row).display_name = name
        /\ OpenAiModel(row).context_window = w
    BY <2>2
  <2> QED
    BY <1>1, <2>1, <2>3, <2>4 DEF Modelled
<1> QED
  BY <1>7, <1>8 DEF id

LEMMA IdentifiedRows ==
  ASSUME NEW list, ListType(list)
  PROVE  IsSeq(Identified(list)) /\ \A row \in ToSet(Identified(list)) : RowOK(row)
<1> DEFINE picked == {row \in ToSet(list) : row # None /\ IdOf(row) # ""}
<1>1. IsSeq(list) /\ \A row \in picked : RowOK(row)
  BY DEF ListType, RowOK, IsSeq
<1>2. Identified(list) = Only(list, picked)
  BY DEF Identified
<1> HIDE DEF picked
<1> QED
  BY <1>1, <1>2, OnlyIs

\* What is read of rows, one by one.
LEMMA ReadRows ==
  ASSUME NEW rows, IsSeq(rows), \A row \in ToSet(rows) : RowOK(row)
  PROVE  /\ IsSeq(ReadAnthropic(rows)) /\ IsSeq(ReadOpenAi(rows))
         /\ \A m \in ToSet(ReadAnthropic(rows)) \cup ToSet(ReadOpenAi(rows)) :
              Modelled(m) /\ m.display_name # ""
         /\ (rows # <<>> => ReadOpenAi(rows) # <<>>)
<1> DEFINE models == [i \in DOMAIN rows |-> AnthropicModel(rows[i])]
           picked == {m \in ModelType : m.display_name # ""}
           other == ReadOpenAi(rows)
           n == Len(rows)
<1>1. n \in Nat /\ DOMAIN rows = 1..n /\ \A i \in 1..n : RowOK(rows[i])
  BY SeqDomain
<1>2. Runs(models, n) /\ Runs(other, n)
  BY <1>1 DEF ReadOpenAi, Runs
<1>3. \A m \in ToSet(models) : Modelled(m)
  BY <1>1, RowModels DEF ToSet
<1>4. \A m \in ToSet(other) : Modelled(m) /\ m.display_name # ""
  BY <1>1, RowModels DEF ToSet, ReadOpenAi
<1>5. ReadAnthropic(rows) = Only(models, picked)
  BY DEF ReadAnthropic
<1>6. \A m \in picked : m.display_name # ""
  OBVIOUS
<1> HIDE DEF models, picked, other, n
<1>7. IsSeq(models) /\ IsSeq(other) /\ Len(other) = n
  BY <1>1, <1>2, RunIsSeq
<1>8. IsSeq(ReadAnthropic(rows)) /\ ToSet(ReadAnthropic(rows)) = ToSet(models) \cap picked
  BY <1>5, <1>7, OnlyIs
<1>9. rows # <<>> => other # <<>>
  <2> SUFFICES ASSUME other = <<>> PROVE rows = <<>>
    OBVIOUS
  <2>1. n = 0
    BY <1>7
  <2> QED
    BY <2>1 DEF n, IsSeq
<1> QED
  BY <1>3, <1>4, <1>6, <1>7, <1>8, <1>9 DEF other

LEMMA DecodeWell ==
  ASSUME NEW kind, NEW list, list = None \/ ListType(list)
  PROVE  /\ IsSeq(DecodeModels(kind, list))
         /\ \A m \in ToSet(DecodeModels(kind, list)) : Modelled(m) /\ m.display_name # ""
         /\ (list # None /\ Identified(list) # <<>> => DecodeModels(kind, list) # <<>>)
<1> DEFINE rows == IF list = None THEN <<>> ELSE Identified(list)
<1>1. IsSeq(rows) /\ \A row \in ToSet(rows) : RowOK(row)
  BY IdentifiedRows, EmptyIsSeq DEF ToSet
<1>2. DecodeModels(kind, list)
        = IF kind # "openai" /\ ReadAnthropic(rows) # <<>> THEN ReadAnthropic(rows)
          ELSE ReadOpenAi(rows)
  BY DEF DecodeModels
<1>3. list # None => rows = Identified(list)
  OBVIOUS
<1> HIDE DEF rows
<1> QED
  BY <1>1, <1>2, <1>3, ReadRows

LEMMA ModelsWell ==
  ASSUME NEW kind, NEW list, list = None \/ ListType(list)
  PROVE  IsSeq(ModelsOf(kind, list)) /\ \A m \in ToSet(ModelsOf(kind, list)) : WellModel(m)
<1> DEFINE models == DecodeModels(kind, list)
           picked == {m \in ModelType : m.id \notin Unfit}
<1>1. IsSeq(models) /\ \A m \in ToSet(models) : Modelled(m) /\ m.display_name # ""
  BY DecodeWell
<1>2. ModelsOf(kind, list) = Only(models, picked)
  BY DEF ModelsOf
<1>3. \A m \in picked : m.id \notin Unfit
  OBVIOUS
<1> HIDE DEF models, picked
<1>4. IsSeq(ModelsOf(kind, list)) /\ ToSet(ModelsOf(kind, list)) = ToSet(models) \cap picked
  BY <1>1, <1>2, OnlyIs
<1> QED
  BY <1>1, <1>3, <1>4 DEF WellModel

-----------------------------------------------------------------------------
\* What a client is shown of a model is what a router reads off it.
LEMMA EncodeIs ==
  ASSUME NEW m, Modelled(m), NEW row, row = EncodeModel(m)
  PROVE  /\ row \in ShownRows /\ row # None
         /\ Get(row, "id") = [text |-> m.id]
         /\ GetOr(row, "display_name", "name") = [text |-> m.display_name]
         /\ Get(row, "context_window") =
              IF m.context_window = None THEN None ELSE [number |-> m.context_window]
         /\ Get(row, "runtime.max_output_tokens") =
              IF m.max_output_tokens = None THEN None ELSE [number |-> m.max_output_tokens]
<1> DEFINE number(f) == IF f = "runtime.max_output_tokens" THEN m.max_output_tokens
                        ELSE m.context_window
           told == {f \in NumberFields : number(f) # None}
           cell(f) == IF f \in told THEN [number |-> number(f)]
                      ELSE [text |-> IF f = "id" THEN m.id ELSE m.display_name]
           cells == [text : STRING] \cup [number : Nat]
<1>1. /\ m.id \in STRING /\ m.display_name \in STRING
      /\ m.context_window \in Nat \cup {None} /\ m.max_output_tokens \in Nat \cup {None}
  BY DEF Modelled, ModelType
<1>2. row = [f \in TextFields \cup told |-> cell(f)]
  BY DEF EncodeModel
<1>3. \A f \in told : number(f) \in Nat
  BY <1>1
<1>4. \A f : cell(f) \in cells
  BY <1>1, <1>3
<1>5. TextFields \cup told \in SUBSET (TextFields \cup NumberFields)
  OBVIOUS
<1>6. TextFields \cap NumberFields = {}
  BY DEF TextFields, NumberFields
<1>7. \A f \in TextFields : f \notin told
  BY <1>6
<1>8. /\ "id" \in TextFields /\ "display_name" \in TextFields /\ "display_name" # "id"
      /\ "context_window" \in NumberFields /\ "runtime.max_output_tokens" \in NumberFields
      /\ "context_window" # "runtime.max_output_tokens"
      /\ "context_window" \notin TextFields /\ "runtime.max_output_tokens" \notin TextFields
  BY DEF TextFields, NumberFields
<1>9. /\ cell("id") = [text |-> m.id] /\ cell("display_name") = [text |-> m.display_name]
  BY <1>7, <1>8
<1>10. /\ "context_window" \in told <=> m.context_window # None
       /\ "runtime.max_output_tokens" \in told <=> m.max_output_tokens # None
       /\ number("context_window") = m.context_window
       /\ number("runtime.max_output_tokens") = m.max_output_tokens
  BY <1>8
<1> HIDE DEF told, number
<1>11. /\ "context_window" \in told => cell("context_window") = [number |-> m.context_window]
       /\ "runtime.max_output_tokens" \in told =>
            cell("runtime.max_output_tokens") = [number |-> m.max_output_tokens]
  BY <1>10
<1> HIDE DEF cell
<1>12. DOMAIN row = TextFields \cup told /\ \A f \in TextFields \cup told : row[f] = cell(f)
  BY <1>2
<1>13. row \in ShownRows /\ row # None
  <2> DEFINE fields == TextFields \cup told
  <2>1. row \in [fields -> cells]
    BY <1>2, <1>4
  <2>2. fields \in SUBSET (TextFields \cup NumberFields)
    BY <1>5
  <2> HIDE DEF fields
  <2>3. row \in RowsOf(fields)
    BY <2>1 DEF RowsOf
  <2>4. row \in ShownRows
    BY <2>2, <2>3 DEF ShownRows
  <2>5. row # None
    BY <2>2, <2>3, RequestsAssumption
  <2> QED
    BY <2>4, <2>5
<1> QED
  BY <1>8, <1>9, <1>10, <1>11, <1>12, <1>13 DEF Get, GetOr

LEMMA EncodeBack ==
  ASSUME NEW m, Modelled(m)
  PROVE  /\ EncodeModel(m) \in ShownRows /\ EncodeModel(m) # None /\ IdOf(EncodeModel(m)) = m.id
         /\ AnthropicModel(EncodeModel(m)) = m
<1> DEFINE row == EncodeModel(m)
           cw == m.context_window
           mo == m.max_output_tokens
<1>1. /\ row \in ShownRows /\ row # None
      /\ Get(row, "id") = [text |-> m.id]
      /\ GetOr(row, "display_name", "name") = [text |-> m.display_name]
      /\ Get(row, "context_window") = IF cw = None THEN None ELSE [number |-> cw]
      /\ Get(row, "runtime.max_output_tokens") = IF mo = None THEN None ELSE [number |-> mo]
  BY EncodeIs
<1>2. /\ m.id \in STRING /\ m.display_name \in STRING /\ cw \in Nat \cup {None} /\ cw # 0
      /\ mo \in Nat \cup {None}
      /\ m = [id |-> m.id, display_name |-> m.display_name, context_window |-> cw,
              max_output_tokens |-> mo]
  BY DEF Modelled, ModelType
<1>3. None \notin [text : STRING] \cup [number : Nat]
  BY RequestsAssumption
<1> HIDE DEF row, cw, mo
<1>4. ASSUME NEW x \in STRING PROVE TextIn([text |-> x]) = x
  <2>1. [text |-> x] # None
    BY <1>3
  <2> QED
    BY <2>1 DEF TextIn
<1>5. ASSUME NEW x \in Nat \cup {None}
      PROVE  NumberIn(IF x = None THEN None ELSE [number |-> x]) = x
  <2>1. CASE x = None
    BY <2>1 DEF NumberIn
  <2>2. CASE x # None
    <3>1. [number |-> x] # None
      BY <1>3, <2>2
    <3> QED
      BY <2>2, <3>1 DEF NumberIn
  <2> QED
    BY <2>1, <2>2
<1>6. IdOf(row) = m.id /\ TextIn(GetOr(row, "display_name", "name")) = m.display_name
  BY <1>1, <1>2, <1>4 DEF IdOf
<1>7. NumberIn(Get(row, "context_window")) = cw /\ NumberIn(Get(row, "runtime.max_output_tokens")) = mo
  BY <1>1, <1>2, <1>5
<1>8. Positive(cw) = cw
  BY <1>2 DEF Positive
<1>9. AnthropicModel(row) = m
  BY <1>2, <1>6, <1>7, <1>8 DEF AnthropicModel
<1> QED
  BY <1>1, <1>6, <1>9 DEF row

LEMMA ReadBack ==
  ASSUME NEW models, IsSeq(models), \A m \in ToSet(models) : WellModel(m)
  PROVE  ModelsOf("anthropic", [i \in DOMAIN models |-> EncodeModel(models[i])]) = models
<1> DEFINE rows == [i \in DOMAIN models |-> EncodeModel(models[i])]
           again == [i \in DOMAIN rows |-> AnthropicModel(rows[i])]
           n == Len(models)
<1>1. n \in Nat /\ DOMAIN models = 1..n /\ \A i \in 1..n : models[i] \in ToSet(models)
  BY SeqDomain
<1>2. \A i \in 1..n : Modelled(models[i]) /\ models[i].display_name # "" /\ models[i].id \notin Unfit
  BY <1>1 DEF WellModel
<1>3. DOMAIN rows = 1..n /\ \A i \in 1..n : rows[i] = EncodeModel(models[i])
  BY <1>1
<1>4. Runs(rows, n)
  BY <1>1 DEF Runs
<1>5. models = [i \in 1..n |-> models[i]]
  BY <1>1 DEF IsSeq
<1> HIDE DEF rows
<1>6. again = models
  <2>1. \A i \in 1..n : AnthropicModel(rows[i]) = models[i]
    BY <1>2, <1>3, EncodeBack
  <2>2. again = [i \in 1..n |-> AnthropicModel(rows[i])]
    BY <1>3
  <2> HIDE DEF again
  <2>3. again = [i \in 1..n |-> models[i]]
    BY <2>1, <2>2
  <2> QED
    BY <1>5, <2>3
<1>7. IsSeq(rows)
  BY <1>1, <1>4, RunIsSeq
<1>8. \A row \in ToSet(rows) : row # None /\ IdOf(row) # ""
  <2>1. \A i \in 1..n : models[i].id # ""
    BY <1>2 DEF Modelled
  <2>2. \A i \in 1..n : rows[i] # None /\ IdOf(rows[i]) = models[i].id
    BY <1>2, <1>3, EncodeBack
  <2> QED
    BY <1>3, <2>1, <2>2 DEF ToSet
<1>9. Identified(rows) = rows
  <2> DEFINE picked == {row \in ToSet(rows) : row # None /\ IdOf(row) # ""}
  <2>1. ToSet(rows) \subseteq picked
    BY <1>8
  <2> HIDE DEF picked
  <2>2. Only(rows, picked) = rows
    BY <1>7, <2>1, OnlyAll
  <2> QED
    BY <2>2 DEF Identified, picked
<1>10. ReadAnthropic(rows) = models
  <2> DEFINE picked == {m \in ModelType : m.display_name # ""}
  <2>1. ReadAnthropic(rows) = Only(again, picked)
    BY DEF ReadAnthropic
  <2>2. ToSet(models) \subseteq picked
    BY DEF WellModel, Modelled
  <2> HIDE DEF again
  <2>3. ReadAnthropic(rows) = Only(models, picked)
    BY <1>6, <2>1
  <2> HIDE DEF picked
  <2> QED
    BY <2>2, <2>3, OnlyAll
<1>11. rows # None
  <2>1. ToSet(rows) \subseteq ShownRows
    BY <1>2, <1>3, EncodeBack DEF ToSet
  <2>2. rows \in Seq(ShownRows)
    BY <1>7, <2>1, SeqIn
  <2> QED
    BY <2>2, RequestsAssumption
<1>12. DecodeModels("anthropic", rows) = models
  <2>1. CASE models # <<>>
    BY <1>9, <1>10, <1>11, <2>1 DEF DecodeModels
  <2>2. CASE models = <<>>
    <3>1. n = 0
      BY <2>2 DEF n
    <3>2. ReadOpenAi(rows) = models
      BY <1>3, <1>5, <3>1 DEF ReadOpenAi
    <3> QED
      BY <1>9, <1>10, <1>11, <2>2, <3>2 DEF DecodeModels
  <2> QED
    BY <2>1, <2>2
<1>13. ModelsOf("anthropic", rows) = models
  <2> DEFINE picked == {m \in ModelType : m.id \notin Unfit}
  <2>1. ToSet(models) \subseteq picked
    BY DEF WellModel, Modelled
  <2>2. ModelsOf("anthropic", rows) = Only(models, picked)
    BY <1>12 DEF ModelsOf
  <2> HIDE DEF picked
  <2> QED
    BY <2>1, <2>2, OnlyAll
<1> QED
  BY <1>13 DEF rows

-----------------------------------------------------------------------------
\* What an accepted file says of names.
FileOK(c) == Accepted(c) /\ FileType(c) /\ None \notin RouteType(c)
TableSeq(c) == [i \in DOMAIN c.models |-> Called(c.models[i])]

LEMMA TableIs ==
  ASSUME NEW c, FileOK(c)
  PROVE  /\ IsSeq(c.models) /\ Len(c.models) \in Nat /\ DOMAIN c.models = 1..Len(c.models)
         /\ \A i \in 1..Len(c.models) : c.models[i] \in ToSet(c.models)
         /\ Runs(TableSeq(c), Len(c.models)) /\ AllSeq(TableSeq(c), Len(c.models))
         /\ \A m \in ToSet(c.models) :
              m.id \in ToSet(Called(m)) /\ ToSet(Called(m)) = {m.id} \cup ToSet(m.aliases)
<1> DEFINE n == Len(c.models)
<1>1. IsSeq(c.models)
  BY DEF FileOK, FileType, IsSeq
<1>2. n \in Nat /\ DOMAIN c.models = 1..n /\ \A i \in 1..n : c.models[i] \in ToSet(c.models)
  BY <1>1, SeqDomain
<1>3. ASSUME NEW m \in ToSet(c.models)
      PROVE  /\ IsSeq(Called(m)) /\ m.id \in ToSet(Called(m))
             /\ ToSet(Called(m)) = {m.id} \cup ToSet(m.aliases)
  <2>1. m.aliases \in Seq(STRING)
    BY DEF FileOK, FileType
  <2>2. IsSeq(m.aliases)
    BY <2>1, SeqIs
  <2>3. IsSeq(<<m.id>>) /\ ToSet(<<m.id>>) = {m.id}
    BY SingleIsSeq
  <2>4. IsSeq(<<m.id>> \o m.aliases) /\ ToSet(<<m.id>> \o m.aliases) = {m.id} \cup ToSet(m.aliases)
    BY <2>2, <2>3, BothSeq
  <2> QED
    BY <2>4 DEF Called
<1>4. Runs(TableSeq(c), n)
  BY <1>2 DEF TableSeq, Runs
<1>5. AllSeq(TableSeq(c), n)
  BY <1>2, <1>3 DEF TableSeq, AllSeq
<1> QED
  BY <1>1, <1>2, <1>3, <1>4, <1>5

\* A sequence as long as the set of what is in it has nothing twice.
LEMMA NothingTwice ==
  ASSUME NEW s, IsSeq(s), Cardinality(ToSet(s)) = Len(s),
         NEW i \in 1..Len(s), NEW j \in 1..Len(s), s[i] = s[j]
  PROVE  i = j
<1> DEFINE n == Len(s)
           T == ToSet(s)
<1>1. n \in Nat /\ DOMAIN s = 1..n /\ \A k \in 1..n : s[k] \in T
  BY SeqDomain
<1>2. s \in [1..n -> T]
  BY <1>1 DEF IsSeq
<1>3. \A t \in T : \E k \in 1..n : s[k] = t
  BY <1>1 DEF ToSet
<1>4. IsFiniteSet(1..n) /\ Cardinality(1..n) = n
  BY <1>1, FS_Interval
<1>5. Cardinality(T) = n
  OBVIOUS
<1> HIDE DEF n, T
<1>6. s \in Surjection(1..n, T)
  BY <1>2, <1>3 DEF Surjection
<1>7. s \in Injection(1..n, T)
  BY <1>4, <1>5, <1>6, FS_SurjSameCardinalityImpliesInj
<1>8. \A a, b \in 1..n : s[a] = s[b] => a = b
  BY <1>2, <1>7 DEF Injection, IsInjective
<1> QED
  BY <1>8 DEF n

LEMMA NameAt ==
  ASSUME NEW c, FileOK(c), NEW i \in 1..Len(c.models), NEW j \in 1..Len(c.models), i < j,
         NEW x, x \in ToSet(Called(c.models[i])), x \in ToSet(Called(c.models[j]))
  PROVE  FALSE
<1> DEFINE f == TableSeq(c)
           n == Len(c.models)
           g == [k \in 1..j - 1 |-> f[k]]
           before == FlattenSeq(g)
           names == FlattenSeq(f)
           own == f[j]
<1>1. n \in Nat /\ DOMAIN c.models = 1..n /\ Runs(f, n) /\ AllSeq(f, n)
  BY TableIs
<1>2. f[i] = Called(c.models[i]) /\ f[j] = Called(c.models[j])
  BY <1>1 DEF TableSeq
<1>3. names = Names(c)
  BY DEF Names, TableSeq
<1>4. Cardinality(ToSet(names)) = Len(names)
  BY <1>3 DEF FileOK, Accepted, ValidModels
<1> HIDE DEF f, n
<1>5. /\ IsSeq(before) /\ ToSet(before) = UNION {ToSet(f[k]) : k \in 1..j - 1}
      /\ IsSeq(names) /\ IsPrefix(before \o own, names)
  BY <1>1, FlattenNext DEF n
<1>6. i \in 1..j - 1
  OBVIOUS
<1>7. x \in ToSet(before) /\ x \in ToSet(own) /\ IsSeq(own)
  BY <1>1, <1>2, <1>5, <1>6 DEF AllSeq, n
<1> HIDE DEF before, names, own
<1> DEFINE u == before \o own
<1>8. /\ IsSeq(u) /\ Len(u) = Len(before) + Len(own) /\ Len(before) \in Nat /\ Len(own) \in Nat
      /\ \A k \in 1..Len(before) : u[k] = before[k]
      /\ \A k \in 1..Len(own) : u[Len(before) + k] = own[k]
  BY <1>5, <1>7, ConcatAt
<1>9. PICK p \in 1..Len(before) : before[p] = x
  BY <1>5, <1>7, SeqDomain DEF ToSet
<1>10. PICK q \in 1..Len(own) : own[q] = x
  BY <1>7, SeqDomain DEF ToSet
<1> HIDE DEF u
<1>11. Len(u) \in Nat /\ Len(names) \in Nat /\ Len(u) <= Len(names) /\ SameTo(u, names, Len(u))
  BY <1>5, <1>8, PrefixOf DEF u
<1> DEFINE r == Len(before) + q
<1>12. p \in 1..Len(u) /\ r \in 1..Len(u) /\ p # r
  BY <1>8
<1>13. u[p] = x /\ u[r] = x
  BY <1>8, <1>9, <1>10
<1> HIDE DEF r
<1>14. names[p] = names[r] /\ p \in 1..Len(names) /\ r \in 1..Len(names)
  BY <1>11, <1>12, <1>13 DEF SameTo
<1>15. p = r
  BY <1>4, <1>5, <1>14, NothingTwice
<1> QED
  BY <1>12, <1>15

\* A name is one model's of the table.
LEMMA NameOfOne ==
  ASSUME NEW c, FileOK(c), NEW i \in 1..Len(c.models), NEW j \in 1..Len(c.models),
         NEW x, x \in ToSet(Called(c.models[i])), x \in ToSet(Called(c.models[j]))
  PROVE  i = j
<1>1. Len(c.models) \in Nat
  BY TableIs
<1>2. ~(i < j)
  BY NameAt
<1>3. ~(j < i)
  BY NameAt
<1> QED
  BY <1>1, <1>2, <1>3

LEMMA NamedIs ==
  ASSUME NEW c, FileOK(c), NEW m, m \in ToSet(c.models), NEW name, name \in ToSet(Called(m))
  PROVE  Named(c, name) = {m}
<1>1. \A o \in Named(c, name) : o = m
  <2> SUFFICES ASSUME NEW o \in Named(c, name) PROVE o = m
    OBVIOUS
  <2>1. o \in ToSet(c.models) /\ name \in ToSet(Called(o))
    BY DEF Named
  <2>2. PICK i \in 1..Len(c.models) : c.models[i] = m
    BY TableIs DEF ToSet
  <2>3. PICK j \in 1..Len(c.models) : c.models[j] = o
    BY <2>1, TableIs DEF ToSet
  <2>4. i = j
    BY <2>1, <2>2, <2>3, NameOfOne
  <2> QED
    BY <2>2, <2>3, <2>4
<1>2. m \in Named(c, name)
  BY DEF Named
<1> QED
  BY <1>1, <1>2

-----------------------------------------------------------------------------
\* A route of the table, and what is shown of it.
RouteOK(c, r) ==
  /\ r \in RouteType(c) /\ r # None /\ r.backend = c.backends[r.name] /\ RouteFit(r)

LEMMA TableRouteIs ==
  ASSUME NEW c, FileOK(c), NEW m, m \in ToSet(c.models)
  PROVE  /\ RouteOK(c, RouteTo(c, m)) /\ RouteTo(c, m).id = m.id /\ m.id # "" /\ m.id \notin Unfit
         /\ (m.display_name # "" => RouteTo(c, m).display_name # "")
<1> DEFINE r == RouteTo(c, m)
<1>1. /\ m.id \in STRING /\ m.upstream_model \in STRING \cup {None}
      /\ m.display_name \in STRING \cup {None} /\ m.placement \in Placements \cup {None}
  BY DEF FileOK, FileType
<1>2. /\ m.backend \in DOMAIN c.backends /\ {m.id, m.upstream_model} \cap Unfit = {}
      /\ c.backends[m.backend].kind # "passthrough"
  BY DEF FileOK, Accepted, ValidModels
<1>3. c.backends[m.backend].placement \in Placements /\ c.backends[m.backend] \in Range(c.backends)
  BY <1>2 DEF FileOK, FileType, BackendType, Range
<1>4. m.id # ""
  <2> DEFINE n == Len(c.models)
             f == TableSeq(c)
  <2>1. n \in Nat /\ Runs(f, n) /\ AllSeq(f, n) /\ DOMAIN c.models = 1..n /\ m.id \in ToSet(Called(m))
    BY TableIs
  <2>2. PICK i \in 1..n : c.models[i] = m
    BY <2>1 DEF ToSet
  <2>3. f[i] = Called(m)
    BY <2>1, <2>2 DEF TableSeq
  <2>4. FlattenSeq(f) = Names(c)
    BY DEF Names, TableSeq
  <2> HIDE DEF f, n
  <2>5. ToSet(FlattenSeq(f)) = Within(f, n)
    BY <2>1, FlattenIsSeq
  <2>6. m.id \in ToSet(Names(c))
    BY <2>1, <2>2, <2>3, <2>4, <2>5 DEF Within
  <2> QED
    BY <2>6 DEF FileOK, Accepted, ValidModels
<1> DEFINE up == IF m.upstream_model = None THEN m.id ELSE m.upstream_model
           title == IF m.display_name = None THEN m.id ELSE m.display_name
           place == IF m.placement = None THEN c.backends[m.backend].placement ELSE m.placement
<1>5. up \in STRING /\ title \in STRING /\ place \in Placements /\ {m.id, up} \cap Unfit = {}
  BY <1>1, <1>2, <1>3
<1>6. m.display_name # "" => title # ""
  BY <1>4
<1>7. r = [backend |-> c.backends[m.backend], name |-> m.backend, id |-> m.id,
           upstream_model |-> up, display_name |-> title, placement |-> place]
  BY DEF RouteTo
<1> HIDE DEF up, title, place, r
<1>8. r \in RouteType(c)
  BY <1>1, <1>2, <1>3, <1>5, <1>7 DEF RouteType
<1>9. r # None /\ DOMAIN c.backends \cap Unfit = {}
  BY <1>8 DEF FileOK, Accepted, ValidServer
<1>10. /\ r.backend = c.backends[m.backend] /\ r.name = m.backend /\ r.id = m.id
       /\ r.upstream_model = up /\ r.display_name = title
  BY <1>7
<1>11. RouteOK(c, r)
  BY <1>2, <1>5, <1>8, <1>9, <1>10 DEF RouteOK, RouteFit
<1> QED
  BY <1>2, <1>4, <1>6, <1>10, <1>11 DEF r

LEMMA TableModelIs ==
  ASSUME NEW c, FileOK(c), NEW t, t \in ToSet(c.models)
  PROVE  /\ TableModel(RouteTo(c, t)).id = t.id /\ TableModel(RouteTo(c, t)) \in ModelType
         /\ (t.display_name # "" => WellModel(TableModel(RouteTo(c, t))))
         /\ TableModel(RouteTo(c, t)).display_name = RouteTo(c, t).display_name
<1> DEFINE r == RouteTo(c, t)
           m == TableModel(r)
<1>1. /\ r \in RouteType(c) /\ r.id = t.id /\ t.id # "" /\ t.id \notin Unfit
      /\ (t.display_name # "" => r.display_name # "")
  BY TableRouteIs DEF RouteOK
<1> HIDE DEF r
<1>2. r.id \in STRING /\ r.display_name \in STRING
  BY <1>1 DEF RouteType
<1>3. m = [id |-> r.id, display_name |-> r.display_name, context_window |-> None,
           max_output_tokens |-> None]
  BY DEF TableModel
<1> HIDE DEF m
<1>4. m \in ModelType
  BY <1>2, <1>3 DEF ModelType
<1>5. /\ m.id = r.id /\ m.display_name = r.display_name /\ m.context_window = None
  BY <1>3
<1>6. None # 0
  BY RequestsAssumption
<1>7. t.display_name # "" => WellModel(m)
  BY <1>1, <1>4, <1>5, <1>6 DEF WellModel, Modelled
<1> QED
  BY <1>1, <1>4, <1>5, <1>7 DEF m, r

LEMMA TableModelsAre ==
  ASSUME NEW c, FileOK(c)
  PROVE  /\ IsSeq(TableModels(c)) /\ Len(TableModels(c)) = Len(c.models)
         /\ \A i \in 1..Len(c.models) : TableModels(c)[i] = TableModel(RouteTo(c, c.models[i]))
<1> DEFINE n == Len(c.models)
           s == TableModels(c)
<1>1. n \in Nat /\ DOMAIN c.models = 1..n
  BY TableIs
<1>2. Runs(s, n) /\ \A i \in 1..n : s[i] = TableModel(RouteTo(c, c.models[i]))
  BY <1>1 DEF TableModels, Runs
<1> HIDE DEF s, n
<1>3. IsSeq(s) /\ Len(s) = n
  BY <1>1, <1>2, RunIsSeq
<1> QED
  BY <1>2, <1>3 DEF s, n

-----------------------------------------------------------------------------
\* What live backends tell.
TellsOK(tells) == \A n \in ToSet(BackendNames) : tells[n] = None \/ ListType(tells[n])
LiveAt(c, j) == IsLive(c, BackendNames[j])
ToldAt(c, tells, j) == Told(c, tells, BackendNames[j])
LiveSeq(c, tells) == [i \in DOMAIN BackendNames |-> LivesOf(c, tells, BackendNames[i])]

LEMMA BackendsAre ==
  /\ IsSeq(BackendNames) /\ Len(BackendNames) \in Nat /\ DOMAIN BackendNames = 1..Len(BackendNames)
  /\ \A i \in 1..Len(BackendNames) : BackendNames[i] \in ToSet(BackendNames)
<1>1. IsSeq(BackendNames)
  BY RequestsAssumption DEF IsSeq
<1> QED
  BY <1>1, SeqDomain

LEMMA ToldWell ==
  ASSUME NEW c, NEW tells, TellsOK(tells), NEW n \in ToSet(BackendNames)
  PROVE  IsSeq(Told(c, tells, n)) /\ \A m \in ToSet(Told(c, tells, n)) : WellModel(m)
BY ModelsWell DEF Told, TellsOK

LEMMA LivesOfIs ==
  ASSUME NEW c, NEW tells, TellsOK(tells), NEW n \in ToSet(BackendNames)
  PROVE  /\ IsSeq(LivesOf(c, tells, n))
         /\ ToSet(LivesOf(c, tells, n))
              = IF IsLive(c, n) THEN {m \in ToSet(Told(c, tells, n)) : Named(c, m.id) = {}} ELSE {}
<1> DEFINE told == Told(c, tells, n)
           picked == {m \in ToSet(told) : Named(c, m.id) = {}}
<1>1. IsSeq(told)
  BY ToldWell
<1>2. LivesOf(c, tells, n) = IF IsLive(c, n) THEN Only(told, picked) ELSE <<>>
  BY DEF LivesOf
<1>3. ToSet(told) \cap picked = picked
  OBVIOUS
<1> HIDE DEF picked, told
<1>4. IsSeq(Only(told, picked)) /\ ToSet(Only(told, picked)) = picked
  BY <1>1, <1>3, OnlyIs
<1>5. IsSeq(<<>>) /\ ToSet(<<>>) = {}
  BY EmptyIsSeq DEF ToSet
<1> QED
  BY <1>2, <1>4, <1>5 DEF picked, told

LEMMA LivesAre ==
  ASSUME NEW c, NEW tells, TellsOK(tells)
  PROVE  /\ Runs(LiveSeq(c, tells), Len(BackendNames)) /\ AllSeq(LiveSeq(c, tells), Len(BackendNames))
         /\ \A i \in 1..Len(BackendNames) : LiveSeq(c, tells)[i] = LivesOf(c, tells, BackendNames[i])
         /\ Lives(c, tells) = FlattenSeq(LiveSeq(c, tells)) /\ IsSeq(Lives(c, tells))
         /\ ToSet(Lives(c, tells)) = Within(LiveSeq(c, tells), Len(BackendNames))
<1> DEFINE f == LiveSeq(c, tells)
           n == Len(BackendNames)
<1>1. n \in Nat /\ DOMAIN BackendNames = 1..n /\ \A i \in 1..n : BackendNames[i] \in ToSet(BackendNames)
  BY BackendsAre
<1>2. Runs(f, n) /\ \A i \in 1..n : f[i] = LivesOf(c, tells, BackendNames[i])
  BY <1>1 DEF LiveSeq, Runs
<1>3. Lives(c, tells) = FlattenSeq(f)
  BY DEF Lives, LiveSeq
<1> HIDE DEF f, n
<1>4. AllSeq(f, n)
  BY <1>1, <1>2, LivesOfIs DEF AllSeq
<1>5. IsSeq(FlattenSeq(f)) /\ ToSet(FlattenSeq(f)) = Within(f, n)
  BY <1>1, <1>2, <1>4, FlattenIsSeq
<1> QED
  BY <1>2, <1>3, <1>4, <1>5 DEF f, n

\* What is live is of one live backend, and no name of the table.
LEMMA LiveIs ==
  ASSUME NEW c, NEW tells, TellsOK(tells), NEW m
  PROVE  m \in ToSet(Lives(c, tells)) <=>
           /\ Named(c, m.id) = {}
           /\ \E j \in 1..Len(BackendNames) : LiveAt(c, j) /\ m \in ToSet(ToldAt(c, tells, j))
<1> DEFINE f == LiveSeq(c, tells)
           n == Len(BackendNames)
<1>1. ToSet(Lives(c, tells)) = Within(f, n) /\ \A i \in 1..n : f[i] = LivesOf(c, tells, BackendNames[i])
  BY LivesAre
<1>2. \A i \in 1..n : BackendNames[i] \in ToSet(BackendNames)
  BY BackendsAre
<1> HIDE DEF f, n
<1>3. ASSUME NEW i \in 1..n
      PROVE  m \in ToSet(f[i]) <=>
               LiveAt(c, i) /\ m \in ToSet(ToldAt(c, tells, i)) /\ Named(c, m.id) = {}
  <2>1. ToSet(f[i]) = IF LiveAt(c, i)
                      THEN {x \in ToSet(ToldAt(c, tells, i)) : Named(c, x.id) = {}} ELSE {}
    BY <1>1, <1>2, LivesOfIs DEF LiveAt, ToldAt
  <2> QED
    BY <2>1
<1>4. m \in Within(f, n) <=> \E i \in 1..n : m \in ToSet(f[i])
  BY DEF Within
<1> QED
  BY <1>1, <1>3, <1>4 DEF n

LEMMA ListedIs ==
  ASSUME NEW c, FileOK(c), NEW tells, TellsOK(tells)
  PROVE  /\ IsSeq(Listed(c, tells))
         /\ ToSet(Listed(c, tells)) = ToSet(Lives(c, tells)) \cup ToSet(TableModels(c))
         /\ IsSeq(Lives(c, tells)) /\ IsPrefix(Lives(c, tells), Listed(c, tells))
         /\ (\A t \in ToSet(c.models) : t.display_name # "") =>
              \A m \in ToSet(Listed(c, tells)) : WellModel(m)
<1>1. IsSeq(Lives(c, tells)) /\ IsSeq(TableModels(c))
  BY LivesAre, TableModelsAre
<1>2. /\ IsSeq(Listed(c, tells)) /\ IsPrefix(Lives(c, tells), Listed(c, tells))
      /\ ToSet(Listed(c, tells)) = ToSet(Lives(c, tells)) \cup ToSet(TableModels(c))
  BY <1>1, BothSeq, PrefixOfConcat DEF Listed
<1>3. \A m \in ToSet(Lives(c, tells)) : WellModel(m)
  BY LiveIs, ToldWell, BackendsAre DEF ToldAt
<1>4. ASSUME \A t \in ToSet(c.models) : t.display_name # "", NEW m \in ToSet(TableModels(c))
      PROVE  WellModel(m)
  <2>1. PICK i \in 1..Len(c.models) : m = TableModel(RouteTo(c, c.models[i]))
    BY TableModelsAre, SeqDomain DEF ToSet
  <2>2. c.models[i] \in ToSet(c.models)
    BY TableIs
  <2> QED
    BY <1>4, <2>1, <2>2, TableModelIs
<1> QED
  BY <1>1, <1>2, <1>3, <1>4

-----------------------------------------------------------------------------
\* Which live backend a name goes to.
FirstTeller(c, tells, name, live, j) ==
  /\ LiveAt(c, j) /\ live.backend = BackendNames[j]
  /\ Leads(ToldAt(c, tells, j), name, live.model) /\ live.model \in ToSet(ToldAt(c, tells, j))
  /\ \A i \in 1..j - 1 : LiveAt(c, i) => NoneCalled(ToldAt(c, tells, i), name)
Untold(c, tells, name) ==
  \A j \in 1..Len(BackendNames) : LiveAt(c, j) => NoneCalled(ToldAt(c, tells, j), name)

LEMMA TellingIs ==
  ASSUME NEW c, NEW tells, TellsOK(tells), NEW name, NEW j \in 1..Len(BackendNames)
  PROVE  /\ Telling(c, tells, name, j) = {} => NoneCalled(ToldAt(c, tells, j), name)
         /\ Telling(c, tells, name, j) # {} =>
              LET m == ToldAt(c, tells, j)[Min(Telling(c, tells, name, j))]
              IN Leads(ToldAt(c, tells, j), name, m) /\ m \in ToSet(ToldAt(c, tells, j))
<1> DEFINE told == ToldAt(c, tells, j)
           called == Telling(c, tells, name, j)
           least == Min(called)
<1>1. IsSeq(told)
  BY BackendsAre, ToldWell DEF ToldAt
<1>2. called = {k \in DOMAIN told : told[k].id = name}
  BY DEF Telling, ToldAt
<1> HIDE DEF told, called
<1>3. Len(told) \in Nat /\ DOMAIN told = 1..Len(told) /\ \A i \in 1..Len(told) : told[i] \in ToSet(told)
  BY <1>1, SeqDomain
<1>4. called = {} => NoneCalled(told, name)
  BY <1>2 DEF NoneCalled, ToSet
<1>5. ASSUME called # {} PROVE Leads(told, name, told[least]) /\ told[least] \in ToSet(told)
  <2>1. called \in SUBSET Nat
    BY <1>2, <1>3
  <2>2. least \in called /\ \A y \in called : least <= y
    BY <1>5, <2>1, LeastIs
  <2> HIDE DEF least
  <2>3. least \in 1..Len(told) /\ told[least].id = name
    BY <1>2, <1>3, <2>2
  <2>4. ASSUME NEW k \in 1..least - 1 PROVE told[k].id # name
    <3>1. k \in DOMAIN told /\ ~(least <= k)
      BY <1>3, <2>3
    <3> QED
      BY <1>2, <2>2, <3>1
  <2> QED
    BY <1>3, <2>3, <2>4 DEF Leads
<1> QED
  BY <1>4, <1>5 DEF told, called

LEMMA LiveCalledIs ==
  ASSUME NEW c, FileOK(c), NEW tells, TellsOK(tells), NEW name,
         NEW live, live = LiveCalled(c, tells, name)
  PROVE  \/ live = None /\ Untold(c, tells, name)
         \/ live # None /\ \E j \in 1..Len(BackendNames) : FirstTeller(c, tells, name, live, j)
<1> DEFINE n == Len(BackendNames)
           tellers == {i \in DOMAIN BackendNames :
                         IsLive(c, BackendNames[i]) /\ Telling(c, tells, name, i) # {}}
           first == Min(tellers)
           m == Told(c, tells, BackendNames[first])[Min(Telling(c, tells, name, first))]
<1>1. n \in Nat /\ DOMAIN BackendNames = 1..n /\ \A i \in 1..n : BackendNames[i] \in ToSet(BackendNames)
  BY BackendsAre
<1>2. live = IF tellers = {} THEN None ELSE [backend |-> BackendNames[first], model |-> m]
  BY DEF LiveCalled
<1>3. \A i : i \in tellers <=> i \in 1..n /\ LiveAt(c, i) /\ Telling(c, tells, name, i) # {}
  BY <1>1 DEF LiveAt
<1> HIDE DEF tellers
<1>4. CASE tellers = {}
  <2>1. \A j \in 1..n : LiveAt(c, j) => Telling(c, tells, name, j) = {}
    BY <1>3, <1>4
  <2>2. Untold(c, tells, name)
    BY <2>1, TellingIs DEF Untold
  <2> QED
    BY <1>2, <1>4, <2>2
<1>5. CASE tellers # {}
  <2>1. tellers \in SUBSET Nat
    BY <1>1, <1>3
  <2>2. first \in tellers /\ \A y \in tellers : first <= y
    BY <1>5, <2>1, LeastIs
  <2> HIDE DEF first
  <2>3. first \in 1..n /\ LiveAt(c, first) /\ Telling(c, tells, name, first) # {}
    BY <1>3, <2>2
  <2>4. m = ToldAt(c, tells, first)[Min(Telling(c, tells, name, first))]
    BY DEF ToldAt
  <2>5. Leads(ToldAt(c, tells, first), name, m) /\ m \in ToSet(ToldAt(c, tells, first))
    BY <2>3, <2>4, TellingIs
  <2>6. ASSUME NEW i \in 1..first - 1, LiveAt(c, i) PROVE NoneCalled(ToldAt(c, tells, i), name)
    <3>1. i \in 1..n /\ ~(first <= i)
      BY <1>1, <2>3
    <3>2. Telling(c, tells, name, i) = {}
      BY <1>3, <2>2, <2>6, <3>1
    <3> QED
      BY <3>1, <3>2, TellingIs
  <2>7. WellModel(m)
    <3>1. BackendNames[first] \in ToSet(BackendNames)
      BY <1>1, <2>3
    <3> QED
      BY <2>5, <3>1, ToldWell DEF ToldAt
  <2> HIDE DEF m
  <2>8. live = [backend |-> BackendNames[first], model |-> m]
    BY <1>2, <1>5
  <2>9. live # None
    <3>1. BackendNames[first] \in STRING
      BY <2>3 DEF LiveAt, IsLive, FileOK, FileType
    <3>2. m \in ModelType
      BY <2>7 DEF WellModel, Modelled
    <3>3. live \in [backend : STRING, model : ModelType]
      BY <2>8, <3>1, <3>2
    <3> QED
      BY <3>3, RequestsAssumption
  <2>10. live.backend = BackendNames[first] /\ live.model = m
    BY <2>8
  <2>11. FirstTeller(c, tells, name, live, first)
    BY <2>3, <2>5, <2>6, <2>10 DEF FirstTeller
  <2> QED
    BY <2>3, <2>9, <2>11
<1> QED
  BY <1>4, <1>5

\* The model a name goes to live is the first of the list that has the name.
LEMMA LiveLeads ==
  ASSUME NEW c, FileOK(c), NEW tells, TellsOK(tells), NEW name, Named(c, name) = {},
         NEW live, NEW j \in 1..Len(BackendNames), FirstTeller(c, tells, name, live, j)
  PROVE  Leads(Lives(c, tells), name, live.model) /\ Leads(Listed(c, tells), name, live.model)
<1> DEFINE f == LiveSeq(c, tells)
           n == Len(BackendNames)
           told == ToldAt(c, tells, j)
           picked == {x \in ToSet(told) : Named(c, x.id) = {}}
<1>1. /\ Runs(f, n) /\ AllSeq(f, n) /\ Lives(c, tells) = FlattenSeq(f)
      /\ \A i \in 1..n : f[i] = LivesOf(c, tells, BackendNames[i])
  BY LivesAre
<1>2. n \in Nat /\ \A i \in 1..n : BackendNames[i] \in ToSet(BackendNames)
  BY BackendsAre
<1>3. IsSeq(told) /\ Leads(told, name, live.model) /\ LiveAt(c, j)
  BY <1>2, ToldWell DEF ToldAt, FirstTeller
<1>4. f[j] = Only(told, picked)
  BY <1>1, <1>3 DEF LivesOf, LiveAt, ToldAt
<1>5. \A x \in ToSet(told) : x.id = name => x \in picked
  OBVIOUS
<1>6. \A i \in 1..j - 1 : NoneCalled(f[i], name)
  <2> SUFFICES ASSUME NEW i \in 1..j - 1 PROVE NoneCalled(f[i], name)
    OBVIOUS
  <2>1. i \in 1..n
    BY <1>2
  <2>2. LiveAt(c, i) => NoneCalled(ToldAt(c, tells, i), name)
    BY DEF FirstTeller
  <2>3. ToSet(f[i]) = IF LiveAt(c, i)
                      THEN {x \in ToSet(ToldAt(c, tells, i)) : Named(c, x.id) = {}} ELSE {}
    BY <1>1, <1>2, <2>1, LivesOfIs DEF LiveAt, ToldAt
  <2> QED
    BY <2>2, <2>3 DEF NoneCalled
<1> HIDE DEF f, n, told, picked
<1>7. Leads(f[j], name, live.model)
  BY <1>3, <1>4, <1>5, LeadsOnly
<1>8. Leads(Lives(c, tells), name, live.model)
  BY <1>1, <1>2, <1>6, <1>7, LeadsFlattened DEF n
<1>9. Leads(Listed(c, tells), name, live.model)
  BY <1>8, ListedIs, LeadsLonger
<1> QED
  BY <1>8, <1>9

\* A model of the table is the first of the list that has its name.
LEMMA TableLeads ==
  ASSUME NEW c, FileOK(c), NEW tells, TellsOK(tells), NEW t \in ToSet(c.models)
  PROVE  Leads(Listed(c, tells), t.id, TableModel(RouteTo(c, t)))
<1> DEFINE table == TableModels(c)
           lives == Lives(c, tells)
           m == TableModel(RouteTo(c, t))
<1>1. /\ IsSeq(table) /\ Len(table) = Len(c.models)
      /\ \A i \in 1..Len(c.models) : table[i] = TableModel(RouteTo(c, c.models[i]))
  BY TableModelsAre
<1>2. IsSeq(lives) /\ Listed(c, tells) = lives \o table
  BY LivesAre DEF Listed
<1>3. NoneCalled(lives, t.id)
  <2> SUFFICES ASSUME NEW x \in ToSet(lives), x.id = t.id PROVE FALSE
    BY DEF NoneCalled
  <2>1. Named(c, t.id) = {t}
    BY TableIs, NamedIs
  <2>2. Named(c, x.id) = {}
    BY LiveIs
  <2> QED
    BY <2>1, <2>2
<1>4. PICK i \in 1..Len(c.models) : c.models[i] = t
  BY TableIs DEF ToSet
<1>5. m.id = t.id
  BY TableModelIs
<1>6. ASSUME NEW k \in 1..i - 1 PROVE table[k].id # t.id
  <2>1. k \in 1..Len(c.models) /\ k # i /\ Len(c.models) \in Nat
    BY <1>4, TableIs
  <2>2. c.models[k] \in ToSet(c.models)
    BY <2>1, TableIs
  <2>3. table[k].id = c.models[k].id
    <3> DEFINE o == c.models[k]
    <3>1. table[k] = TableModel(RouteTo(c, o))
      BY <1>1, <2>1
    <3>2. o \in ToSet(c.models)
      BY <2>2
    <3> HIDE DEF o
    <3>3. TableModel(RouteTo(c, o)).id = o.id
      BY <3>2, TableModelIs
    <3> QED
      BY <3>1, <3>3 DEF o
  <2>4. c.models[k].id \in ToSet(Called(c.models[k])) /\ t.id \in ToSet(Called(c.models[i]))
    BY <1>4, <2>2, TableIs
  <2>5. ASSUME c.models[k].id = t.id PROVE FALSE
    <3>1. t.id \in ToSet(Called(c.models[k])) /\ k \in 1..Len(c.models) /\ i \in 1..Len(c.models)
      BY <1>4, <2>1, <2>4, <2>5
    <3>2. k = i
      BY <2>4, <3>1, NameOfOne
    <3> QED
      BY <2>1, <3>2
  <2> QED
    BY <2>3, <2>5
<1>7. table[i] = m
  BY <1>1, <1>4
<1> HIDE DEF table, lives, m
<1>8. Leads(table, t.id, m)
  BY <1>1, <1>4, <1>5, <1>6, <1>7 DEF Leads
<1>9. Leads(lives \o table, t.id, m)
  BY <1>1, <1>2, <1>3, <1>8, LeadsAfter
<1> QED
  BY <1>2, <1>9 DEF m

-----------------------------------------------------------------------------
\* Where a name goes.
LEMMA TableRouted ==
  ASSUME NEW c, FileOK(c), NEW tells, NEW name, Named(c, name) # {}
  PROVE  \E t \in ToSet(c.models) :
           /\ name \in ToSet(Called(t)) /\ TableRoute(c, name) = RouteTo(c, t)
           /\ Routed(c, tells, name) = RouteTo(c, t)
           /\ ModelCalled(c, tells, name) = TableModel(RouteTo(c, t))
<1> DEFINE t == CHOOSE m \in Named(c, name) : TRUE
<1>1. t \in Named(c, name)
  OBVIOUS
<1>2. TableRoute(c, name) = RouteTo(c, t)
  BY DEF TableRoute
<1> HIDE DEF t
<1>3. t \in ToSet(c.models) /\ name \in ToSet(Called(t))
  BY <1>1 DEF Named
<1>4. Routed(c, tells, name) = TableRoute(c, name)
  BY DEF Routed
<1>5. ModelCalled(c, tells, name) = TableModel(TableRoute(c, name))
  BY DEF ModelCalled
<1> QED
  BY <1>2, <1>3, <1>4, <1>5

LEMMA LiveRouteIs ==
  ASSUME NEW c, FileOK(c), NEW tells, TellsOK(tells), NEW name, NEW live,
         NEW j \in 1..Len(BackendNames), FirstTeller(c, tells, name, live, j)
  PROVE  /\ RouteOK(c, LiveRoute(c, live)) /\ LiveRoute(c, live).id = live.model.id
         /\ LiveRoute(c, live).display_name = live.model.display_name
         /\ live.model.id = name /\ live.model \in ModelType
<1> DEFINE b == live.backend
           m == live.model
           r == LiveRoute(c, live)
<1>1. b \in DOMAIN c.backends /\ BackendNames[j] \in ToSet(BackendNames)
  BY BackendsAre DEF FirstTeller, LiveAt, IsLive
<1>2. WellModel(m) /\ m.id = name
  BY <1>1, ToldWell DEF FirstTeller, ToldAt, Leads
<1>3. m.id \in STRING /\ m.display_name \in STRING /\ m \in ModelType /\ m.id \notin Unfit
  BY <1>2 DEF WellModel, Modelled, ModelType
<1>4. c.backends[b].placement \in Placements /\ c.backends[b] \in Range(c.backends)
  BY <1>1 DEF FileOK, FileType, BackendType, Range
<1>5. r = [backend |-> c.backends[b], name |-> b, id |-> m.id, upstream_model |-> m.id,
           display_name |-> m.display_name, placement |-> c.backends[b].placement]
  BY DEF LiveRoute
<1> HIDE DEF b, m, r
<1>6. r \in RouteType(c)
  BY <1>1, <1>3, <1>4, <1>5 DEF RouteType
<1>7. r # None /\ DOMAIN c.backends \cap Unfit = {}
  BY <1>6 DEF FileOK, Accepted, ValidServer
<1>8. /\ r.backend = c.backends[b] /\ r.name = b /\ r.id = m.id
      /\ r.upstream_model = m.id /\ r.display_name = m.display_name
  BY <1>5
<1>9. RouteOK(c, r)
  BY <1>1, <1>3, <1>6, <1>7, <1>8 DEF RouteOK, RouteFit
<1> QED
  BY <1>2, <1>3, <1>8, <1>9 DEF b, m, r

LEMMA LiveRouted ==
  ASSUME NEW c, FileOK(c), NEW tells, TellsOK(tells), NEW name, Named(c, name) = {},
         LiveCalled(c, tells, name) # None
  PROVE  \E j \in 1..Len(BackendNames) :
           /\ FirstTeller(c, tells, name, LiveCalled(c, tells, name), j)
           /\ Routed(c, tells, name) = LiveRoute(c, LiveCalled(c, tells, name))
           /\ ModelCalled(c, tells, name) = LiveCalled(c, tells, name).model
<1> DEFINE live == LiveCalled(c, tells, name)
<1>1. Routed(c, tells, name) = LiveRoute(c, live) /\ ModelCalled(c, tells, name) = live.model
  BY DEF Routed, ModelCalled
<1>2. live # None
  OBVIOUS
<1> HIDE DEF live
<1>3. PICK j \in 1..Len(BackendNames) : FirstTeller(c, tells, name, live, j)
  BY <1>2, LiveCalledIs DEF live
<1> QED
  BY <1>1, <1>3 DEF live

LEMMA RouteIs ==
  ASSUME NEW c, FileOK(c), NEW tells, TellsOK(tells), NEW name, Routed(c, tells, name) # None
  PROVE  RouteOK(c, Routed(c, tells, name))
<1>1. CASE Named(c, name) # {}
  <2>1. PICK t \in ToSet(c.models) : Routed(c, tells, name) = RouteTo(c, t)
    BY <1>1, TableRouted
  <2>2. RouteOK(c, RouteTo(c, t))
    BY TableRouteIs
  <2> QED
    BY <2>1, <2>2
<1>2. CASE Named(c, name) = {} /\ LiveCalled(c, tells, name) # None
  <2> DEFINE live == LiveCalled(c, tells, name)
  <2>1. PICK j \in 1..Len(BackendNames) :
          FirstTeller(c, tells, name, live, j) /\ Routed(c, tells, name) = LiveRoute(c, live)
    BY <1>2, LiveRouted
  <2> HIDE DEF live
  <2>2. RouteOK(c, LiveRoute(c, live))
    BY <2>1, LiveRouteIs
  <2> QED
    BY <2>1, <2>2
<1>3. CASE Named(c, name) = {} /\ LiveCalled(c, tells, name) = None
  <2>1. c.default # None /\ Routed(c, tells, name) = TableRoute(c, c.default)
    BY <1>3 DEF Routed
  <2>2. Named(c, c.default) # {}
    BY <2>1, DefaultNamed DEF FileOK
  <2>3. PICK t \in ToSet(c.models) : TableRoute(c, c.default) = RouteTo(c, t)
    BY <2>2, TableRouted
  <2> QED
    BY <2>1, <2>3, TableRouteIs
<1> QED
  BY <1>1, <1>2, <1>3

\* A model that leads the list is what its name goes to.
LEMMA LeaderGoes ==
  ASSUME NEW c, FileOK(c), NEW tells, TellsOK(tells), NEW m, Leads(Listed(c, tells), m.id, m)
  PROVE  IsShownAs(m, Routed(c, tells, m.id))
<1>1. /\ IsSeq(Listed(c, tells)) /\ m \in ToSet(Lives(c, tells)) \cup ToSet(TableModels(c))
  <2>1. IsSeq(Listed(c, tells)) /\ m \in ToSet(Listed(c, tells))
    BY ListedIs, SeqDomain DEF Leads
  <2> QED
    BY <2>1, ListedIs
<1>2. CASE m \in ToSet(Lives(c, tells))
  <2> DEFINE live == LiveCalled(c, tells, m.id)
  <2>1. Named(c, m.id) = {}
    BY <1>2, LiveIs
  <2>2. PICK j \in 1..Len(BackendNames) : LiveAt(c, j) /\ m \in ToSet(ToldAt(c, tells, j))
    BY <1>2, LiveIs
  <2>3. ~Untold(c, tells, m.id)
    BY <2>2 DEF Untold, NoneCalled
  <2>4. live # None
    BY <2>3, LiveCalledIs
  <2>5. PICK i \in 1..Len(BackendNames) :
          /\ FirstTeller(c, tells, m.id, live, i)
          /\ Routed(c, tells, m.id) = LiveRoute(c, live)
    BY <2>1, <2>4, LiveRouted
  <2> HIDE DEF live
  <2>6. Leads(Listed(c, tells), m.id, live.model)
    BY <2>1, <2>5, LiveLeads
  <2>7. live.model = m
    BY <1>1, <2>6, LeadsOne
  <2>8. /\ RouteOK(c, LiveRoute(c, live)) /\ LiveRoute(c, live).id = m.id
        /\ LiveRoute(c, live).display_name = m.display_name
    BY <2>5, <2>7, LiveRouteIs
  <2> QED
    BY <2>5, <2>8 DEF IsShownAs, RouteOK
<1>3. CASE m \in ToSet(TableModels(c))
  <2>1. PICK k \in 1..Len(c.models) : m = TableModel(RouteTo(c, c.models[k]))
    BY <1>3, TableModelsAre, SeqDomain DEF ToSet
  <2> DEFINE t == c.models[k]
  <2>2. t \in ToSet(c.models)
    BY TableIs
  <2>3. m = TableModel(RouteTo(c, t))
    BY <2>1
  <2> HIDE DEF t
  <2>4. m.id = t.id /\ m.display_name = RouteTo(c, t).display_name
    BY <2>2, <2>3, TableModelIs
  <2>5. Named(c, m.id) = {t}
    BY <2>2, <2>4, NamedIs, TableIs
  <2>6. Routed(c, tells, m.id) = RouteTo(c, t)
    BY <2>5, TableRouted, NamedIs DEF Routed, TableRoute
  <2>7. RouteOK(c, RouteTo(c, t)) /\ RouteTo(c, t).id = t.id
    BY <2>2, TableRouteIs
  <2> QED
    BY <2>4, <2>6, <2>7 DEF IsShownAs, RouteOK
<1> QED
  BY <1>1, <1>2, <1>3

\* What is called for is what leads the list, and what its name goes to.
LEMMA CalledGoes ==
  ASSUME NEW c, FileOK(c), NEW tells, TellsOK(tells), NEW name, ModelCalled(c, tells, name) # None
  PROVE  /\ IsShownAs(ModelCalled(c, tells, name), Routed(c, tells, name))
         /\ Leads(Listed(c, tells), ModelCalled(c, tells, name).id, ModelCalled(c, tells, name))
<1>1. CASE Named(c, name) # {}
  <2>1. PICK t \in ToSet(c.models) :
          /\ Routed(c, tells, name) = RouteTo(c, t)
          /\ ModelCalled(c, tells, name) = TableModel(RouteTo(c, t))
    BY <1>1, TableRouted
  <2>2. /\ TableModel(RouteTo(c, t)).id = t.id
        /\ TableModel(RouteTo(c, t)).display_name = RouteTo(c, t).display_name
    BY TableModelIs
  <2>3. RouteOK(c, RouteTo(c, t)) /\ RouteTo(c, t).id = t.id
    BY TableRouteIs
  <2>4. Leads(Listed(c, tells), t.id, TableModel(RouteTo(c, t)))
    BY TableLeads
  <2> QED
    BY <2>1, <2>2, <2>3, <2>4 DEF IsShownAs, RouteOK
<1>2. CASE Named(c, name) = {} /\ LiveCalled(c, tells, name) # None
  <2> DEFINE live == LiveCalled(c, tells, name)
  <2>1. PICK j \in 1..Len(BackendNames) :
          /\ FirstTeller(c, tells, name, live, j)
          /\ Routed(c, tells, name) = LiveRoute(c, live)
          /\ ModelCalled(c, tells, name) = live.model
    BY <1>2, LiveRouted
  <2> HIDE DEF live
  <2>2. /\ RouteOK(c, LiveRoute(c, live)) /\ LiveRoute(c, live).id = live.model.id
        /\ LiveRoute(c, live).display_name = live.model.display_name /\ live.model.id = name
    BY <2>1, LiveRouteIs
  <2>3. Leads(Listed(c, tells), name, live.model)
    BY <1>2, <2>1, LiveLeads
  <2> QED
    BY <2>1, <2>2, <2>3 DEF IsShownAs, RouteOK
<1>3. CASE Named(c, name) = {} /\ LiveCalled(c, tells, name) = None
  BY <1>3 DEF ModelCalled
<1> QED
  BY <1>1, <1>2, <1>3

-----------------------------------------------------------------------------
\* What is offered, and where it goes.
LEMMA ToldListed ==
  ASSUME NEW c, FileOK(c), NEW tells, TellsOK(tells), NEW n \in ToSet(BackendNames), IsLive(c, n),
         NEW m, m \in ToSet(Told(c, tells, n))
  PROVE  \/ \E other \in ToSet(Listed(c, tells)) : other.id = m.id
         \/ \E t \in ToSet(c.models) : m.id \in ToSet(t.aliases)
<1>1. CASE Named(c, m.id) = {}
  <2>1. PICK j \in 1..Len(BackendNames) : BackendNames[j] = n
    BY BackendsAre DEF ToSet
  <2>2. m \in ToSet(Lives(c, tells))
    BY <1>1, <2>1, LiveIs DEF LiveAt, ToldAt
  <2> QED
    BY <2>2, ListedIs
<1>2. CASE Named(c, m.id) # {}
  <2>1. PICK t \in ToSet(c.models) : m.id \in ToSet(Called(t))
    BY <1>2 DEF Named
  <2>2. ToSet(Called(t)) = {t.id} \cup ToSet(t.aliases)
    BY TableIs
  <2>3. CASE m.id = t.id
    <3> DEFINE other == TableModel(RouteTo(c, t))
    <3>1. Leads(Listed(c, tells), t.id, other) /\ IsSeq(Listed(c, tells))
      BY TableLeads, ListedIs
    <3> HIDE DEF other
    <3>2. other.id = t.id /\ other \in ToSet(Listed(c, tells))
      BY <3>1, SeqDomain DEF Leads
    <3> QED
      BY <2>3, <3>2
  <2> QED
    BY <2>1, <2>2, <2>3
<1> QED
  BY <1>1, <1>2

Titled(c) == \A m \in ToSet(c.models) : m.display_name # ""

LEMMA AllOffered ==
  ASSUME FileOK(session.config), TellsOK(session.tells), Titled(session.config),
         NEW models, models = Listed(session.config, session.tells),
         NEW offered, offered = ModelsOf("anthropic", [i \in DOMAIN models |-> EncodeModel(models[i])])
  PROVE  OffersAll(offered, models)
<1> DEFINE c == session.config
           tells == session.tells
<1>1. IsSeq(models) /\ \A m \in ToSet(models) : WellModel(m)
  BY ListedIs DEF Titled
<1>2. offered = models
  BY <1>1, ReadBack
<1>3. ASSUME NEW i \in DOMAIN models, FirstCalled(models, i)
      PROVE  IsShownAs(models[i], RouteOf(models[i].id))
  <2> DEFINE m == models[i]
  <2>1. i \in 1..Len(models)
    BY <1>1, SeqDomain
  <2>2. Leads(models, m.id, m)
    BY <1>3, <2>1 DEF FirstCalled, Leads
  <2> HIDE DEF m
  <2>3. IsShownAs(m, Routed(c, tells, m.id))
    BY <2>2, LeaderGoes
  <2> QED
    BY <2>3 DEF m, RouteOf
<1>4. ASSUME NEW n \in ToSet(BackendNames), IsLive(c, n)
      PROVE  /\ \A m \in ToSet(Told(c, tells, n)) :
                  \/ \E other \in ToSet(models) : other.id = m.id
                  \/ \E t \in ToSet(c.models) : m.id \in ToSet(t.aliases)
             /\ tells[n] # None /\ Identified(tells[n]) # <<>> =>
                  DecodeModels(c.backends[n].kind, tells[n]) # <<>>
  <2>1. tells[n] = None \/ ListType(tells[n])
    BY DEF TellsOK
  <2>2. tells[n] # None /\ Identified(tells[n]) # <<>> =>
          DecodeModels(c.backends[n].kind, tells[n]) # <<>>
    BY <2>1, DecodeWell
  <2> QED
    BY <1>4, <2>2, ToldListed
<1> QED
  BY <1>2, <1>3, <1>4 DEF OffersAll

LEMMA OneOffered ==
  ASSUME FileOK(session.config), TellsOK(session.tells), Titled(session.config),
         NEW m, m = ModelCalled(session.config, session.tells, Model), m # None,
         NEW models, models = <<m>>,
         NEW offered, offered = ModelsOf("anthropic", [i \in DOMAIN models |-> EncodeModel(models[i])])
  PROVE  OffersOne(offered, Listed(session.config, session.tells))
<1> DEFINE c == session.config
           tells == session.tells
           all == Listed(c, tells)
<1>1. IsShownAs(m, Routed(c, tells, Model)) /\ Leads(all, m.id, m)
  BY CalledGoes
<1>2. IsSeq(all) /\ \A x \in ToSet(all) : WellModel(x)
  BY ListedIs DEF Titled
<1> HIDE DEF all
<1>3. PICK i \in 1..Len(all) : all[i] = m /\ \A k \in 1..i - 1 : all[k].id # m.id
  BY <1>1 DEF Leads
<1>4. i \in DOMAIN all /\ m \in ToSet(all)
  BY <1>2, <1>3, SeqDomain
<1>5. IsSeq(models) /\ ToSet(models) = {m}
  BY SingleIsSeq
<1>6. offered = models
  BY <1>2, <1>4, <1>5, ReadBack
<1>7. Len(offered) = 1 /\ offered[1] = m
  BY <1>6
<1>8. FirstCalled(all, i)
  BY <1>3 DEF FirstCalled
<1> QED
  BY <1>1, <1>3, <1>4, <1>7, <1>8 DEF OffersOne, RouteOf, all

\* One that is not there goes nowhere but to the default.
LEMMA NoneServes ==
  ASSUME NEW c, FileOK(c), NEW tells, TellsOK(tells), NEW name, ModelCalled(c, tells, name) = None
  PROVE  Routed(With(c, "default", None), tells, name) = None
<1> DEFINE d == With(c, "default", None)
           live == LiveCalled(c, tells, name)
<1>1. Named(c, name) = {}
  <2> SUFFICES ASSUME Named(c, name) # {} PROVE FALSE
    OBVIOUS
  <2>1. PICK t \in ToSet(c.models) : ModelCalled(c, tells, name) = TableModel(RouteTo(c, t))
    BY TableRouted
  <2>2. TableModel(RouteTo(c, t)) \in ModelType
    BY TableModelIs
  <2> QED
    BY <2>1, <2>2, RequestsAssumption
<1>2. live = None
  <2> SUFFICES ASSUME live # None PROVE FALSE
    OBVIOUS
  <2>1. PICK j \in 1..Len(BackendNames) :
          FirstTeller(c, tells, name, live, j) /\ ModelCalled(c, tells, name) = live.model
    BY <1>1, LiveRouted
  <2> HIDE DEF live
  <2>2. live.model \in ModelType
    BY <2>1, LiveRouteIs
  <2> QED
    BY <2>1, <2>2, RequestsAssumption
<1>3. /\ d.default = None /\ d.models = c.models /\ d.backends = c.backends
  <2>1. {"default", "models", "backends"} \subseteq DOMAIN c
    BY DEF FileOK, FileType, FileFields
  <2> QED
    BY <2>1 DEF With
<1> HIDE DEF d
<1>4. Named(d, name) = {}
  BY <1>1, <1>3 DEF Named
<1>5. LiveCalled(d, tells, name) = LiveCalled(c, tells, name)
  BY <1>3 DEF LiveCalled, IsLive, Telling, Told
<1>6. Routed(d, tells, name) = None
  BY <1>2, <1>3, <1>4, <1>5 DEF Routed
<1> QED
  BY <1>6 DEF d

-----------------------------------------------------------------------------
\* What a hint says to drop.
LEMMA HintedFrom ==
  ASSUME NEW fields, IsSeq(fields), NEW meant
  PROVE  ToSet(Hinted(fields, meant)) \subseteq ToSet(fields) \cap meant
<1> DEFINE picked == Only(fields, meant)
           once == Once(picked)
<1>1. IsSeq(picked) /\ ToSet(picked) = ToSet(fields) \cap meant
  BY OnlyIs
<1> HIDE DEF picked
<1>2. once \in Seq(ToSet(picked)) /\ ToSet(once) = ToSet(picked)
  BY <1>1, OnceCorrect DEF IsSeq
<1> HIDE DEF once
<1>3. IsSeq(once)
  BY <1>2, SeqIs
<1>4. ToSet(First(once, MaxRejectedFields)) \subseteq ToSet(once)
  <2>1. MaxRejectedFields \in Nat
    BY RequestsAssumption
  <2>2. First(once, MaxRejectedFields) \in Seq(ToSet(once))
    BY <1>3, <2>1, FirstFrom
  <2> QED
    BY <2>2, SeqIs
<1> QED
  BY <1>1, <1>2, <1>4 DEF Hinted, picked, once

Droppable(b, path) ==
  /\ path \in Seq(STRING) /\ path # <<>> /\ "" \notin ToSet(path)
  /\ path # <<"model">> /\ ~SetByBackend(b, path)

LEMMA DropHint ==
  ASSUME NEW b, NEW g, GivenType(g), NEW drop, drop = DropFieldsHint(b, g), drop # <<>>
  PROVE  b.kind = "anthropic" /\ \A path \in ToSet(drop) : Droppable(b, path)
<1> DEFINE usable == {path \in ToSet(g.rejects) : path # <<>> /\ {"0", ""} \cap ToSet(path) = {}}
           fields == RejectedFields(g)
           meant == {path \in ToSet(fields) :
                        path # <<"model">> /\ path \notin b.drop_fields /\ ~SetByBackend(b, path)}
<1>1. b.kind = "anthropic" /\ drop = Hinted(fields, meant)
  BY DEF DropFieldsHint
<1>2. g.rejects \in Seq(Seq(STRING))
  BY DEF GivenType
<1>3. IsSeq(g.rejects) /\ ToSet(g.rejects) \subseteq Seq(STRING)
  <2> DEFINE S == Seq(STRING)
  <2>1. g.rejects \in Seq(S)
    BY <1>2
  <2> HIDE DEF S
  <2>2. IsSeq(g.rejects) /\ ToSet(g.rejects) \subseteq S
    BY <2>1, SeqIs
  <2> QED
    BY <2>2 DEF S
<1>4. \A path \in usable : path # <<>> /\ "" \notin ToSet(path)
  OBVIOUS
<1>5. fields = Only(g.rejects, usable)
  BY DEF RejectedFields
<1>6. \A path \in meant : path # <<"model">> /\ ~SetByBackend(b, path)
  OBVIOUS
<1> HIDE DEF usable, fields, meant
<1>7. IsSeq(fields) /\ ToSet(fields) = ToSet(g.rejects) \cap usable
  BY <1>3, <1>5, OnlyIs
<1>8. ToSet(drop) \subseteq ToSet(fields) \cap meant
  BY <1>1, <1>7, HintedFrom
<1>9. \A path \in ToSet(drop) : path \in Seq(STRING)
  BY <1>3, <1>7, <1>8
<1> QED
  BY <1>1, <1>4, <1>6, <1>7, <1>8, <1>9 DEF Droppable

-----------------------------------------------------------------------------
\* A file whose backend drops more is the file but for that.
Extra(n, name, paths) == IF n = name THEN paths ELSE {}
Alters(c, d, name, paths) ==
  /\ \A f \in FileFields \ {"backends"} : d[f] = c[f]
  /\ DOMAIN d.backends = DOMAIN c.backends
  /\ \A n \in DOMAIN c.backends :
       /\ \A f \in BackendFields \ {"drop_fields"} : d.backends[n][f] = c.backends[n][f]
       /\ d.backends[n].drop_fields
            = c.backends[n].drop_fields \cup Extra(n, name, paths)

LEMMA DroppingAlters ==
  ASSUME NEW c, FileType(c), NEW name \in DOMAIN c.backends, NEW paths
  PROVE  Alters(c, Dropping(c, name, paths), name, paths)
<1> DEFINE b == c.backends[name]
           b2 == With(b, "drop_fields", b.drop_fields \cup paths)
           all == With(c.backends, name, b2)
           d == With(c, "backends", all)
<1>1. d = Dropping(c, name, paths)
  BY DEF Dropping
<1>2. /\ FileFields \subseteq DOMAIN c
      /\ \A n \in DOMAIN c.backends : BackendFields \subseteq DOMAIN c.backends[n]
  BY DEF FileType, BackendType
<1>3. /\ b2.drop_fields = b.drop_fields \cup paths
      /\ \A f \in BackendFields \ {"drop_fields"} : b2[f] = b[f]
  BY <1>2 DEF With
<1> HIDE DEF b2
<1>4. /\ DOMAIN all = DOMAIN c.backends /\ all[name] = b2
      /\ \A n \in DOMAIN c.backends \ {name} : all[n] = c.backends[n]
  BY DEF With
<1> HIDE DEF all
<1>5. d.backends = all /\ \A f \in FileFields \ {"backends"} : d[f] = c[f]
  BY <1>2 DEF With
<1> HIDE DEF d
<1>6. \A n \in DOMAIN c.backends :
        /\ \A f \in BackendFields \ {"drop_fields"} : d.backends[n][f] = c.backends[n][f]
        /\ d.backends[n].drop_fields
             = c.backends[n].drop_fields \cup Extra(n, name, paths)
  <2> SUFFICES ASSUME NEW n \in DOMAIN c.backends
               PROVE  /\ \A f \in BackendFields \ {"drop_fields"} : d.backends[n][f] = c.backends[n][f]
                      /\ d.backends[n].drop_fields
                           = c.backends[n].drop_fields \cup Extra(n, name, paths)
    OBVIOUS
  <2>1. CASE n = name
    BY <1>3, <1>4, <1>5, <2>1 DEF Extra
  <2>2. CASE n # name
    BY <1>4, <1>5, <2>2 DEF Extra
  <2> QED
    BY <2>1, <2>2
<1> QED
  BY <1>1, <1>4, <1>5, <1>6 DEF Alters

LEMMA AltersFields ==
  ASSUME NEW c, NEW d, NEW name, NEW paths, Alters(c, d, name, paths)
  PROVE  /\ d.token = c.token /\ d.v1_auth = c.v1_auth /\ d.loopback = c.loopback
         /\ d.limits = c.limits /\ d.statuses = c.statuses /\ d.models = c.models
         /\ d.default = c.default /\ DOMAIN d.backends = DOMAIN c.backends
BY DEF Alters, FileFields

Plain(paths) == \A p \in paths : p # <<"model">> /\ "" \notin ToSet(p)
SameBut(b, e) ==
  /\ e.kind = b.kind /\ e.url = b.url /\ e.proxy = b.proxy /\ e.credential = b.credential
  /\ e.headers = b.headers /\ e.anthropic_beta = b.anthropic_beta
  /\ e.drop_headers = b.drop_headers /\ e.set_fields = b.set_fields
  /\ e.placement = b.placement /\ e.live_models = b.live_models
  /\ e.models_path = b.models_path

LEMMA AltersBackend ==
  ASSUME NEW c, NEW d, NEW name, NEW paths, Alters(c, d, name, paths), NEW n \in DOMAIN c.backends
  PROVE  /\ SameBut(c.backends[n], d.backends[n])
         /\ d.backends[n].drop_fields = c.backends[n].drop_fields \cup Extra(n, name, paths)
<1> DEFINE b == c.backends[n]
           e == d.backends[n]
<1>1. \A f \in BackendFields \ {"drop_fields"} : e[f] = b[f]
  BY DEF Alters
<1>2. e.drop_fields = b.drop_fields \cup Extra(n, name, paths)
  BY DEF Alters
<1> HIDE DEF b, e
<1>3. SameBut(b, e)
  BY <1>1 DEF BackendFields, SameBut
<1> QED
  BY <1>2, <1>3 DEF b, e

-----------------------------------------------------------------------------
\* It is a file the router takes.
LEMMA BackendStill ==
  ASSUME NEW c, NEW d, NEW name, NEW paths, Alters(c, d, name, paths), NEW n \in DOMAIN c.backends,
         ValidBackend(c.backends[n]), n = name => c.backends[n].kind = "anthropic",
         Plain(paths)
  PROVE  ValidBackend(d.backends[n])
<1> DEFINE b == c.backends[n]
           e == d.backends[n]
<1>0. /\ SameBut(b, e) /\ e.drop_fields = b.drop_fields \cup Extra(n, name, paths)
  BY AltersBackend
<1>2. ValidBackend(b) /\ (n = name => b.kind = "anthropic")
  OBVIOUS
<1> HIDE DEF b, e
<1>1. /\ e.kind = b.kind /\ e.url = b.url /\ e.proxy = b.proxy /\ e.credential = b.credential
      /\ e.headers = b.headers /\ e.anthropic_beta = b.anthropic_beta
      /\ e.drop_headers = b.drop_headers /\ e.set_fields = b.set_fields
      /\ e.placement = b.placement /\ e.live_models = b.live_models
      /\ e.models_path = b.models_path
      /\ e.drop_fields = b.drop_fields \cup Extra(n, name, paths)
  BY <1>0 DEF SameBut
<1>3. /\ ValidUrl(e.url) /\ ValidProxy(e.proxy) /\ ValidCredential(e)
      /\ ValidModelsPath(e) /\ ValidFlags(e)
  BY <1>1, <1>2 DEF ValidBackend, ValidCredential, ValidModelsPath, ValidFlags
<1>4. ValidForced(e) /\ ValidDropHeaders(e)
  BY <1>1, <1>2 DEF ValidBackend, ValidForced, ValidDropHeaders
<1>5. ValidFields(e)
  <2>1. ValidFields(b)
    BY <1>2 DEF ValidBackend
  <2>2. SetPaths(e) = SetPaths(b)
    BY <1>1 DEF SetPaths
  <2>3. \A p \in e.drop_fields : p # <<"model">> /\ "" \notin ToSet(p)
    BY <1>1, <2>1 DEF ValidFields, Extra, Plain
  <2> QED
    BY <1>1, <2>1, <2>2, <2>3 DEF ValidFields
<1>6. ValidKind(e)
  <2>1. ValidKind(b)
    BY <1>2 DEF ValidBackend
  <2>2. e.kind = "passthrough" => e.drop_fields = b.drop_fields
    BY <1>1, <1>2 DEF Extra
  <2> QED
    BY <1>1, <2>1, <2>2 DEF ValidKind
<1> QED
  BY <1>3, <1>4, <1>5, <1>6 DEF ValidBackend, e

LEMMA AcceptedStill ==
  ASSUME NEW c, Accepted(c), NEW d, NEW name, NEW paths, Alters(c, d, name, paths),
         name \in DOMAIN c.backends, c.backends[name].kind = "anthropic",
         Plain(paths)
  PROVE  Accepted(d)
<1>1. /\ d.token = c.token /\ d.v1_auth = c.v1_auth /\ d.loopback = c.loopback
      /\ d.limits = c.limits /\ d.statuses = c.statuses /\ d.models = c.models
      /\ d.default = c.default /\ DOMAIN d.backends = DOMAIN c.backends
  BY AltersFields
<1>2. ASSUME NEW n \in DOMAIN c.backends
      PROVE  /\ d.backends[n].kind = c.backends[n].kind /\ d.backends[n].url = c.backends[n].url
             /\ d.backends[n].proxy = c.backends[n].proxy
             /\ d.backends[n].live_models = c.backends[n].live_models
  BY AltersBackend DEF SameBut
<1>3. ValidServer(d)
  <2>1. ValidServer(c)
    BY DEF Accepted
  <2>2. Passthrough(d) = Passthrough(c)
    BY <1>1, <1>2 DEF Passthrough
  <2>3. \A n \in DOMAIN c.backends : Live(d.backends[n]) <=> Live(c.backends[n])
    BY <1>2 DEF Live
  <2> QED
    BY <1>1, <2>1, <2>2, <2>3 DEF ValidServer
<1>4. ValidUpstream(d)
  BY <1>1 DEF Accepted, ValidUpstream
<1>5. OneProxyPerOrigin(d)
  <2>1. OneProxyPerOrigin(c)
    BY DEF Accepted
  <2> QED
    BY <1>1, <1>2, <2>1 DEF OneProxyPerOrigin
<1>6. ValidModels(d)
  <2>1. ValidModels(c)
    BY DEF Accepted
  <2>2. Names(d) = Names(c)
    BY <1>1 DEF Names
  <2> QED
    BY <1>1, <1>2, <2>1, <2>2 DEF ValidModels
<1>7. \A n \in DOMAIN d.backends : ValidBackend(d.backends[n])
  BY <1>1, BackendStill DEF Accepted
<1> QED
  BY <1>3, <1>4, <1>5, <1>6, <1>7 DEF Accepted

\* What goes where stays as it was.
LEMMA RouteToStill ==
  ASSUME NEW c, NEW d, NEW name, NEW paths, Alters(c, d, name, paths),
         NEW m, m.backend \in DOMAIN c.backends
  PROVE  /\ RouteTo(d, m).backend = d.backends[RouteTo(c, m).name]
         /\ RouteTo(d, m).upstream_model = RouteTo(c, m).upstream_model
BY DEF RouteTo

LEMMA RoutedStill ==
  ASSUME NEW c, FileOK(c), NEW d, NEW name, NEW paths, Alters(c, d, name, paths),
         NEW tells, TellsOK(tells), NEW model, Routed(c, tells, model) # None
  PROVE  /\ Routed(d, tells, model).backend = d.backends[Routed(c, tells, model).name]
         /\ Routed(d, tells, model).upstream_model = Routed(c, tells, model).upstream_model
<1> DEFINE live == LiveCalled(c, tells, model)
<1>1. d.models = c.models /\ d.default = c.default /\ DOMAIN d.backends = DOMAIN c.backends
  BY AltersFields
<1>2. \A n : Named(d, n) = Named(c, n)
  BY <1>1 DEF Named
<1>3. ASSUME NEW n \in DOMAIN c.backends
      PROVE  /\ d.backends[n].kind = c.backends[n].kind
             /\ d.backends[n].live_models = c.backends[n].live_models
  BY AltersBackend DEF SameBut
<1>4. LiveCalled(d, tells, model) = live
  <2>1. \A n : IsLive(d, n) <=> IsLive(c, n)
    BY <1>1, <1>3 DEF IsLive, Live
  <2>2. \A i \in DOMAIN BackendNames : IsLive(c, BackendNames[i]) =>
          /\ Told(d, tells, BackendNames[i]) = Told(c, tells, BackendNames[i])
          /\ Telling(d, tells, model, i) = Telling(c, tells, model, i)
    BY <1>3 DEF IsLive, Told, Telling
  <2> DEFINE tellers(x) == {i \in DOMAIN BackendNames :
                              IsLive(x, BackendNames[i]) /\ Telling(x, tells, model, i) # {}}
             first(x) == Min(tellers(x))
  <2>3. tellers(d) = tellers(c)
    BY <2>1, <2>2
  <2>4. tellers(c) # {} => first(c) \in DOMAIN BackendNames /\ IsLive(c, BackendNames[first(c)])
    <3> DEFINE T == tellers(c)
    <3>1. T \in SUBSET Nat /\ \A i \in T : i \in DOMAIN BackendNames /\ IsLive(c, BackendNames[i])
      BY BackendsAre
    <3> HIDE DEF T
    <3>2. T # {} => Min(T) \in T
      BY <3>1, LeastIs
    <3> QED
      BY <3>1, <3>2 DEF T
  <2>5. CASE tellers(c) = {}
    BY <2>3, <2>5 DEF LiveCalled
  <2>6. CASE tellers(c) # {}
    <3> DEFINE called(x, i) ==
                 [backend |-> BackendNames[i],
                  model |-> Told(x, tells, BackendNames[i])[Min(Telling(x, tells, model, i))]]
    <3>1. live = called(c, first(c)) /\ LiveCalled(d, tells, model) = called(d, first(d))
      BY <2>3, <2>6 DEF LiveCalled
    <3>2. first(d) = first(c)
      BY <2>3
    <3> DEFINE i == first(c)
    <3>3. Told(d, tells, BackendNames[i]) = Told(c, tells, BackendNames[i])
          /\ Telling(d, tells, model, i) = Telling(c, tells, model, i)
      BY <2>2, <2>4, <2>6
    <3> HIDE DEF first
    <3>4. called(d, i) = called(c, i)
      BY <3>3
    <3> HIDE DEF called
    <3> QED
      BY <3>1, <3>2, <3>4
  <2> QED
    BY <2>5, <2>6
<1>5. ASSUME NEW n, Named(c, n) # {}
      PROVE  /\ TableRoute(d, n).backend = d.backends[TableRoute(c, n).name]
             /\ TableRoute(d, n).upstream_model = TableRoute(c, n).upstream_model
  <2> DEFINE t == CHOOSE m \in Named(c, n) : TRUE
  <2>1. t \in Named(c, n)
    BY <1>5
  <2>2. TableRoute(c, n) = RouteTo(c, t) /\ TableRoute(d, n) = RouteTo(d, t)
    <3>1. Named(d, n) = Named(c, n)
      BY <1>2
    <3> QED
      BY <3>1 DEF TableRoute
  <2> HIDE DEF t
  <2>3. t.backend \in DOMAIN c.backends
    BY <2>1 DEF Named, FileOK, Accepted, ValidModels
  <2> QED
    BY <2>2, <2>3, RouteToStill
<1> HIDE DEF live
<1>6. CASE Named(c, model) # {}
  BY <1>2, <1>5, <1>6 DEF Routed
<1>7. CASE Named(c, model) = {} /\ live # None
  <2>1. Routed(d, tells, model) = LiveRoute(d, live) /\ Routed(c, tells, model) = LiveRoute(c, live)
    BY <1>2, <1>4, <1>7 DEF Routed, live
  <2> QED
    BY <2>1 DEF LiveRoute
<1>8. CASE Named(c, model) = {} /\ live = None
  <2>1. c.default # None
    BY <1>8 DEF Routed, live
  <2>2. /\ Routed(d, tells, model) = TableRoute(d, c.default)
        /\ Routed(c, tells, model) = TableRoute(c, c.default)
    BY <1>1, <1>2, <1>4, <1>8, <2>1 DEF Routed, live
  <2>3. Named(c, c.default) # {}
    BY <2>1, DefaultNamed DEF FileOK
  <2> QED
    BY <1>5, <2>2, <2>3
<1> QED
  BY <1>6, <1>7, <1>8

\* What was rejected is no longer sent.
LEMMA DroppedGone ==
  ASSUME NEW fields, NEW b, NEW route, NEW client, NEW paths,
         \A p \in paths : Droppable(b, p), paths \subseteq route.backend.drop_fields,
         route.backend.set_fields = b.set_fields, b.set_fields \in Seq(ToSet(b.set_fields)),
         NEW path, path \in DOMAIN Relayed(fields, route, Resolve(route.backend, client))
  PROVE  ~Under(path, paths)
<1> DEFINE set == Resolve(route.backend, client)
           left == DropAll(fields, route.backend.drop_fields)
           named == Renamed(left, route.upstream_model)
<1>1. \A q \in DOMAIN left : ~Under(q, paths)
  BY DEF DropAll, Restrict, Under
<1>2. \A f \in set : \E i \in DOMAIN b.set_fields : f.path = Leaf(b.set_fields[i])
  BY DEF Resolve, ToSet
<1> HIDE DEF left, set
<1>3. DOMAIN named \subseteq DOMAIN left \cup {<<"model">>}
  BY DEF Renamed, SetAll
<1> HIDE DEF named
<1>4. path \in DOMAIN named \/ \E f \in set : path = f.path
  <2>1. Relayed(fields, route, set) = SetAll(named, set)
    BY DEF Relayed, named, left
  <2> QED
    BY <2>1 DEF SetAll, set
<1>5. ASSUME NEW p \in paths, IsPrefix(p, path) PROVE FALSE
  <2>1. Droppable(b, p)
    OBVIOUS
  <2>2. path \notin DOMAIN left
    BY <1>1, <1>5 DEF Under
  <2>3. path # <<"model">>
    <3> SUFFICES ASSUME path = <<"model">> PROVE FALSE
      OBVIOUS
    <3>1. IsSeq(p) /\ p # <<>> /\ p # path
      BY <2>1, SeqIs DEF Droppable
    <3>2. IsSeq(path) /\ Len(path) = 1
      BY OneIsSeq
    <3>3. Len(p) \in Nat /\ Len(p) <= 1 /\ SameTo(p, path, Len(p)) /\ DOMAIN p = 1..Len(p)
      BY <1>5, <3>1, <3>2, PrefixOf
    <3>4. CASE Len(p) = 0
      BY <3>1, <3>4 DEF IsSeq
    <3>5. CASE Len(p) = 1
      <4>1. p[1] = path[1]
        BY <3>3, <3>5 DEF SameTo
      <4> QED
        BY <3>1, <3>2, <3>5, <4>1 DEF IsSeq
    <3> QED
      BY <3>3, <3>4, <3>5
  <2>4. PICK i \in DOMAIN b.set_fields : path = Leaf(b.set_fields[i])
    BY <1>2, <1>3, <1>4, <2>2, <2>3
  <2>5. SetByBackend(b, p)
    BY <1>5, <2>4 DEF SetByBackend
  <2> QED
    BY <2>1, <2>5 DEF Droppable
<1> QED
  BY <1>5 DEF Under

-----------------------------------------------------------------------------
\* What a hint says to drop is rid of what was rejected.
LEMMA HintHelps ==
  ASSUME NEW c, FileOK(c), NEW tells, TellsOK(tells), NEW model, Routed(c, tells, model) # None,
         NEW g, GivenType(g), NEW drop, drop = DropFieldsHint(Routed(c, tells, model).backend, g),
         drop # <<>>, NEW d, d = Dropping(c, Routed(c, tells, model).name, ToSet(drop)),
         NEW fields, NEW client
  PROVE  /\ Accepted(d)
         /\ \A path \in DOMAIN Relayed(fields, Routed(d, tells, model),
                                       Resolve(Routed(d, tells, model).backend, client)) :
              ~Under(path, ToSet(drop))
<1> DEFINE r == Routed(c, tells, model)
           b == r.backend
           s == Routed(d, tells, model)
           paths == ToSet(drop)
<1>1. r.name \in DOMAIN c.backends /\ b = c.backends[r.name]
  BY RouteIs DEF RouteOK, RouteType
<1>2. b.kind = "anthropic" /\ \A path \in paths : Droppable(b, path)
  BY DropHint
<1>3. Alters(c, d, r.name, paths)
  BY <1>1, DroppingAlters DEF FileOK
<1>4. s.backend = d.backends[r.name]
  BY <1>3, RoutedStill
<1>5. Accepted(c) /\ FileType(c)
  BY DEF FileOK
<1> HIDE DEF r, s, paths
<1>6. Plain(paths)
  BY <1>2 DEF Plain, Droppable
<1>7. Accepted(d)
  <2>1. c.backends[r.name].kind = "anthropic"
    BY <1>1, <1>2
  <2> QED
    BY <1>1, <1>3, <1>5, <1>6, <2>1, AcceptedStill
<1>8. s.backend.set_fields = b.set_fields /\ s.backend.drop_fields = b.drop_fields \cup paths
  <2>1. /\ SameBut(c.backends[r.name], d.backends[r.name])
        /\ d.backends[r.name].drop_fields
             = c.backends[r.name].drop_fields \cup Extra(r.name, r.name, paths)
    BY <1>1, <1>3, AltersBackend
  <2> QED
    BY <1>1, <1>4, <2>1 DEF SameBut, Extra
<1>9. b.set_fields \in Seq(ToSet(b.set_fields))
  <2> DEFINE F == [keys : Seq(Seq(STRING) \ {<<>>}) \ {<<>>}, value : Templates]
             set == b.set_fields
  <2>1. set \in Seq(F)
    BY <1>1, <1>5 DEF FileType, BackendType
  <2> HIDE DEF F, set
  <2>2. IsSeq(set)
    BY <2>1, SeqIs
  <2> QED
    BY <2>2 DEF IsSeq, set
<1>10. paths \subseteq s.backend.drop_fields
  BY <1>8
<1> HIDE DEF b
<1>11. \A path \in DOMAIN Relayed(fields, s, Resolve(s.backend, client)) : ~Under(path, paths)
  BY <1>2, <1>8, <1>9, <1>10, DroppedGone
<1> QED
  BY <1>7, <1>11 DEF s, paths

-----------------------------------------------------------------------------
\* How a request may have been settled: turned away, answered with models, given up on,
\* or answered by the backend it was routed to (src/server/handlers/proxy.rs, models.rs).
Served == session.path \notin Lists /\ Refusal(Route) = None
Blamed(error) == IF error \in {"Translate", "NotOnOpenAi"} THEN Route.name ELSE None
OfModels(models) ==
  [by |-> "models", status |-> 200, headers |-> OwnHeaders(JsonType),
   body |-> [models |-> [i \in DOMAIN models |-> EncodeModel(models[i])]]]

TurnedAway ==
  /\ hints = None /\ Refusal(Route) # None
  /\ answer = RouterAnswer(Refusal(Route), Blamed(Refusal(Route)))
GivenModels ==
  hints = None /\ session.path \in Lists /\ Models # None /\ answer = OfModels(Models)
GivenUp ==
  /\ Served /\ request.route = Route /\ hints = None
  /\ \E error \in {"Upstream", "Stopping"} : answer = RouterAnswer(error, Route.name)
Returned ==
  /\ Served /\ request.route = Route
  /\ given \in session.answers /\ answer = Answer(Route, Streams, given)
  /\ hints = IF given.status >= 400 /\ given.whole = "whole"
             THEN HintsOf(Route.backend, given) ELSE None

Settled ==
  IF phase = "answered" THEN TurnedAway \/ GivenModels \/ GivenUp \/ Returned ELSE hints = None

LEMMA SameQuestion ==
  ASSUME session' = session, messages' = messages
  PROVE  /\ Route' = Route /\ Refusal(Route)' = Refusal(Route) /\ Served' = Served
         /\ Blamed(Refusal(Route))' = Blamed(Refusal(Route))
         /\ Models' = Models /\ Streams' = Streams /\ Lists' = Lists
<1>1. Route' = Route /\ Refusal(Route)' = Refusal(Route) /\ Lists' = Lists
  BY SameRequest
<1>2. Models' = Models /\ Streams' = Streams
  BY DEF Models, Streams, Model
<1> QED
  BY <1>1, <1>2 DEF Served, Blamed

LEMMA SettledFirst == Init => Settled
BY DEF Init, Settled

LEMMA SettledNext == Stands /\ Settled /\ [Next]_vars => Settled'
<1> SUFFICES ASSUME Stands, Settled, [Next]_vars PROVE Settled'
  OBVIOUS
<1>1. session' = session
  BY DEF Next, Write, Refuse, Show, Handle, Send, Resend, Attempt, Fail, Respond, asked, vars
<1>2. CASE Write
  BY <1>2 DEF Write, Settled
<1>3. CASE Refuse
  <2>1. phase' = "answered" /\ hints' = None /\ messages' = messages
    BY <1>3 DEF Refuse, Asks, Settled, asked
  <2>2. Refusal(Route) # None /\ answer' = RouterAnswer(Refusal(Route), Blamed(Refusal(Route)))
    BY <1>3 DEF Refuse, Blamed
  <2>3. TurnedAway'
    BY <1>1, <2>1, <2>2, SameQuestion DEF TurnedAway
  <2> QED
    BY <2>1, <2>3 DEF Settled
<1>4. CASE Show
  <2>1. phase' = "answered" /\ hints' = None /\ messages' = messages
    BY <1>4 DEF Show, Asks, Settled, asked
  <2>2. session.path \in Lists /\ Models # None /\ answer' = OfModels(Models)
    BY <1>4 DEF Show, OfModels
  <2>3. GivenModels'
    BY <1>1, <2>1, <2>2, SameQuestion DEF GivenModels
  <2> QED
    BY <2>1, <2>3 DEF Settled
<1>5. CASE Handle \/ Send \/ Resend
  <2>1. phase # "answered" /\ phase' # "answered" /\ hints' = hints
    BY <1>5 DEF Handle, Asks, Send, Resend, Attempt, answered
  <2> QED
    BY <2>1 DEF Settled
<1>6. CASE Fail
  <2>1. phase' = "answered" /\ messages' = messages /\ request' = request /\ hints' = None
    BY <1>6 DEF Fail, asked, Settled
  <2>2. request.route = Route /\ Served
    BY <1>6 DEF Fail, Stands, Served
  <2>3. \E error \in {"Upstream", "Stopping"} : answer' = RouterAnswer(error, Route.name)
    BY <1>6, <2>2 DEF Fail
  <2>4. GivenUp'
    BY <1>1, <2>1, <2>2, <2>3, SameQuestion DEF GivenUp
  <2> QED
    BY <2>1, <2>4 DEF Settled
<1>7. CASE Respond
  <2>1. phase' = "answered" /\ messages' = messages /\ request' = request
    BY <1>7 DEF Respond, asked
  <2>2. request.route = Route /\ Served
    BY <1>7 DEF Respond, Stands, Served
  <2>3. /\ given' \in session.answers /\ answer' = Answer(Route, Streams, given')
        /\ hints' = IF given'.status >= 400 /\ given'.whole = "whole"
                    THEN HintsOf(Route.backend, given') ELSE None
    BY <1>7, <2>2 DEF Respond
  <2>4. Returned'
    BY <1>1, <2>1, <2>2, <2>3, SameQuestion DEF Returned
  <2> QED
    BY <2>1, <2>4 DEF Settled
<1>8. CASE UNCHANGED vars
  <2>1. /\ messages' = messages /\ request' = request /\ phase' = phase
        /\ given' = given /\ answer' = answer /\ hints' = hints
    BY <1>8 DEF vars, asked, answered
  <2>2. TurnedAway' = TurnedAway /\ GivenModels' = GivenModels
    BY <1>1, <2>1, SameQuestion DEF TurnedAway, GivenModels
  <2>3. GivenUp' = GivenUp /\ Returned' = Returned
    BY <1>1, <2>1, SameQuestion DEF GivenUp, Returned
  <2> QED
    BY <2>1, <2>2, <2>3 DEF Settled
<1> QED
  BY <1>2, <1>3, <1>4, <1>5, <1>6, <1>7, <1>8 DEF Next

-----------------------------------------------------------------------------
\* A session is one the program can be in, a request goes where its model is routed, and
\* what is wrong with it is an error of the router that can be read.
LEMMA SessionOK ==
  ASSUME Stands
  PROVE  /\ FileOK(session.config) /\ TellsOK(session.tells)
         /\ \A g \in session.answers : GivenType(g)
         /\ session.arrives \in {"whole"} \cup BodyErrors
<1>1. SessionType(session) /\ Accepted(session.config)
  BY RequestsAssumption DEF Stands
<1> QED
  BY <1>1 DEF SessionType, FileOK, TellsOK

LEMMA RouteHere ==
  ASSUME Stands, Route # None
  PROVE  Route = Routed(session.config, session.tells, Model) /\ RouteOK(session.config, Route)
<1>1. Route = Routed(session.config, session.tells, Model)
  BY DEF Route, RouteOf
<1>2. FileOK(session.config) /\ TellsOK(session.tells)
  BY SessionOK
<1> QED
  BY <1>1, <1>2, RouteIs

LEMMA ServedRoute ==
  ASSUME Stands, Served
  PROVE  /\ Route # None /\ Route = Routed(session.config, session.tells, Model)
         /\ RouteOK(session.config, Route) /\ RouteFit(Route) /\ Route.backend.kind \in Kinds
<1>1. session.arrives # None /\ None \notin Errors
  BY SessionOK, NoneApart
<1>2. Route # None
  BY <1>1, Admitted DEF Served
<1>3. Route.backend.kind \in Kinds
  BY Admits DEF Served, Stands
<1> QED
  BY <1>2, <1>3, RouteHere DEF RouteOK

LEMMA RefusalIs ==
  ASSUME Stands, Refusal(Route) # None
  PROVE  /\ Refusal(Route) \in Errors \cup BodyErrors
         /\ Refusal(Route) \in {"Translate", "NotOnOpenAi"} => Route # None
         /\ session.path = "/v1/models/{id}" /\ Refusal(Route) = "UnknownModel" => Models = None
<1>1. session.arrives \in {"whole"} \cup BodyErrors
  BY SessionOK
<1>2. Refusal(Route) \in Errors \cup BodyErrors
  BY <1>1 DEF Refusal, Errors
<1>3. ASSUME Refusal(Route) \in {"Translate", "NotOnOpenAi"} PROVE Route # None
  BY <1>1, <1>3 DEF Refusal, BodyErrors
<1>4. ASSUME session.path = "/v1/models/{id}", Refusal(Route) = "UnknownModel" PROVE Models = None
  BY <1>1, <1>4 DEF Refusal, BodyErrors, Lists
<1> QED
  BY <1>2, <1>3, <1>4

LEMMA RefusedReadable ==
  ASSUME Stands, Refusal(Route) # None, NEW a, a = RouterAnswer(Refusal(Route), Blamed(Refusal(Route)))
  PROVE  a.by = Refusal(Route) /\ OwnReadable(a)
<1> DEFINE error == Refusal(Route)
<1>1. error \in OwnErrors
  BY RefusalIs DEF OwnErrors
<1>2. ASSUME error \in OfABackend PROVE Blamed(error) \notin Unfit
  <2>1. error \in {"Translate", "NotOnOpenAi"}
    BY <1>2, RefusalIs DEF OfABackend, Errors, BodyErrors
  <2>2. RouteFit(Route)
    BY <2>1, RefusalIs, RouteHere DEF RouteOK
  <2> QED
    BY <2>1, <2>2 DEF Blamed, RouteFit
<1> HIDE DEF error
<1>3. a = RouterAnswer(error, Blamed(error))
  BY DEF error
<1>4. a.by = error /\ OwnReadable(a)
  BY <1>1, <1>2, <1>3, OwnAnswerReadable
<1> QED
  BY <1>4 DEF error

-----------------------------------------------------------------------------
\* Who answers: the router, with the models or an error of its own, or the backend.
LEMMA AnswerBy ==
  ASSUME NEW route, NEW g, NEW a, a = Answer(route, Streams, g)
  PROVE  \/ a.by = "backend"
         \/ \E error \in {"Upstream", "BadUpstreamResponse"} : a = RouterAnswer(error, route.name)
BY DEF Answer, Translate, Relay

SaidByRouter ==
  /\ answer.by \in OwnErrors /\ OwnReadable(answer)
  /\ answer.by = "UnknownModel" => Refusal(Route) = "UnknownModel"
SaidByBackend == Returned /\ answer.by = "backend"

LEMMA NamedApart == {"backend", "models"} \cap OwnErrors = {}
BY DEF OwnErrors, Errors, BodyErrors, LateErrors

LEMMA SaidLate ==
  ASSUME Stands, Served, NEW error \in LateErrors, answer = RouterAnswer(error, Route.name)
  PROVE  SaidByRouter
<1>1. RouteFit(Route) /\ error \in OwnErrors
  BY ServedRoute DEF OwnErrors
<1>2. Route.name \notin Unfit
  BY <1>1 DEF RouteFit
<1>3. answer.by = error /\ OwnReadable(answer)
  BY <1>1, <1>2, OwnAnswerReadable
<1> QED
  BY <1>1, <1>3 DEF SaidByRouter, LateErrors

LEMMA WhoAnswers ==
  ASSUME Stands, Settled, phase = "answered"
  PROVE  SaidByRouter \/ GivenModels \/ SaidByBackend
<1>1. CASE TurnedAway
  <2>1. answer.by = Refusal(Route) /\ OwnReadable(answer)
    BY <1>1, RefusedReadable DEF TurnedAway
  <2>2. Refusal(Route) \in OwnErrors
    BY <1>1, RefusalIs DEF TurnedAway, OwnErrors
  <2> QED
    BY <2>1, <2>2 DEF SaidByRouter
<1>2. CASE GivenUp
  BY <1>2, SaidLate DEF GivenUp, LateErrors
<1>3. CASE Returned
  <2>1. CASE answer.by = "backend"
    BY <1>3, <2>1 DEF SaidByBackend
  <2>2. CASE answer.by # "backend"
    <3>1. PICK error \in {"Upstream", "BadUpstreamResponse"} : answer = RouterAnswer(error, Route.name)
      BY <1>3, <2>2, AnswerBy DEF Returned
    <3> QED
      BY <1>3, <3>1, SaidLate DEF Returned, LateErrors
  <2> QED
    BY <2>1, <2>2
<1> QED
  BY <1>1, <1>2, <1>3 DEF Settled

\* A backend's answer is of the route the request took.
LEMMA Answering ==
  ASSUME Stands, Returned
  PROVE  /\ request.route = Route /\ Route # None /\ RouteFit(Route) /\ Route.backend.kind \in Kinds
         /\ GivenType(given) /\ answer = Answer(Route, Streams, given)
BY ServedRoute, SessionOK DEF Returned

LEMMA WhoBrings ==
  ASSUME Stands, Settled, phase = "answered", answer.by = "backend"
  PROVE  SaidByBackend
<1>1. answer.by # "models" /\ answer.by \notin OwnErrors
  BY NamedApart
<1> QED
  BY <1>1, WhoAnswers DEF SaidByRouter, GivenModels, OfModels

-----------------------------------------------------------------------------
\* A failure keeps its status and meaning, and the tokens are told once.
LEMMA MeaningsKept == ASSUME Stands, Settled PROVE FailuresKeepTheirMeaning
<1> SUFFICES ASSUME FailedThere PROVE FailuresKeepTheirMeaning
  BY DEF FailuresKeepTheirMeaning
<1>1. SaidByBackend /\ given.status >= 400
  BY WhoBrings DEF FailedThere, Brought
<1>2. /\ request.route = Route /\ Route.backend.kind \in Kinds
      /\ GivenType(given) /\ answer = Answer(Route, Streams, given) /\ answer.by = "backend"
  BY <1>1, Answering DEF SaidByBackend
<1>3. Means(Route.backend.kind, given, answer)
  BY <1>1, <1>2, FailureMeans
<1> QED
  BY <1>2, <1>3 DEF Means, FailuresKeepTheirMeaning

LEMMA TokensTold == ASSUME Stands, Settled PROVE TokensAddUp
<1> SUFFICES ASSUME Brought PROVE TokensAddUp
  BY DEF TokensAddUp
<1>1. SaidByBackend
  BY WhoBrings DEF Brought
<1>2. GivenType(given) /\ answer = Answer(Route, Streams, given) /\ answer.by = "backend"
  BY <1>1, Answering DEF SaidByBackend
<1>3. Tallied(given, answer)
  BY <1>2, AnswerTallies
<1> QED
  BY <1>3 DEF Tallied, Tallies, TokensAddUp

-----------------------------------------------------------------------------
\* What is answered can be read.
LEMMA ModelsFit ==
  ASSUME NEW models, NEW a, a = OfModels(models)
  PROVE  /\ a.by = "models" /\ a.status = 200 /\ DOMAIN a.headers = {RequestId, ContentType}
         /\ Fit(a.headers)
BY FitWords DEF OfModels, OwnHeaders, Fit

\* An answer of the router's own, an error or the models, is of no connection.
LEMMA OwnFits ==
  ASSUME Fit(answer.headers), DOMAIN answer.headers \subseteq OwnHeaderNames,
         RequestId \in DOMAIN answer.headers, answer.by # "backend",
         answer.by \notin {"backend", "models"} => OfApi(answer.body) /\ answer.status >= 400
  PROVE  AnswersAreReadable
BY OwnHeadersApart, FitTokens DEF AnswersAreReadable

LEMMA ReadableAlways == ASSUME Stands, Settled PROVE AnswersAreReadable
<1> SUFFICES ASSUME phase = "answered" PROVE AnswersAreReadable
  BY DEF AnswersAreReadable
<1>1. CASE SaidByRouter
  BY <1>1, OwnFits, NamedApart DEF SaidByRouter, OwnReadable
<1>2. CASE GivenModels
  <2>1. /\ answer.by = "models" /\ DOMAIN answer.headers = {RequestId, ContentType}
        /\ Fit(answer.headers)
    BY <1>2, ModelsFit DEF GivenModels
  <2> QED
    BY <2>1, OwnFits DEF OwnHeaderNames
<1>3. CASE SaidByBackend
  <2>1. /\ request.route = Route /\ RouteFit(Route) /\ Route.backend.kind \in Kinds
        /\ GivenType(given) /\ answer = Answer(Route, Streams, given) /\ answer.by = "backend"
    BY <1>3, Answering DEF SaidByBackend
  <2>2. RelayReadable(Route, given, answer)
    BY <2>1, AnswerReadable
  <2>3. Tokens(answer.headers) \cap Unfit = {}
    BY <2>2, FitTokens DEF RelayReadable
  <2> QED
    BY <2>1, <2>2, <2>3 DEF RelayReadable, AnswersAreReadable
<1> QED
  BY <1>1, <1>2, <1>3, WhoAnswers

-----------------------------------------------------------------------------
\* A hint helps, and the models offered are what requests are routed by.
LEMMA HintsAlways == ASSUME Stands, Settled PROVE HintsHelp
<1> SUFFICES ASSUME phase = "answered", hints # None, hints.drop # <<>> PROVE HintsHelp
  BY DEF HintsHelp
<1>1. Returned
  BY DEF Settled, TurnedAway, GivenModels, GivenUp
<1>2. /\ request.route = Route /\ Route # None /\ GivenType(given)
      /\ FileOK(session.config) /\ TellsOK(session.tells)
      /\ Route = Routed(session.config, session.tells, Model)
  BY <1>1, Answering, SessionOK, RouteHere
<1>3. hints.drop = DropFieldsHint(Route.backend, given)
  BY <1>1 DEF Returned, HintsOf
<1> DEFINE c == session.config
           tells == session.tells
           drop == hints.drop
           d == Dropping(c, Route.name, ToSet(drop))
<1>4. Routed(c, tells, Model) # None /\ drop = DropFieldsHint(Routed(c, tells, Model).backend, given)
  BY <1>2, <1>3
<1>5. d = Dropping(c, Routed(c, tells, Model).name, ToSet(drop))
  BY <1>2
<1> HIDE DEF c, tells, drop, d
<1>6. /\ Accepted(d)
      /\ \A path \in DOMAIN Relayed(session.fields, Routed(d, tells, Model),
                                    Resolve(Routed(d, tells, Model).backend, session.client)) :
           ~Under(path, ToSet(drop))
  <2>1. FileOK(c) /\ TellsOK(tells) /\ GivenType(given) /\ drop # <<>>
    BY <1>2 DEF c, tells, drop
  <2> QED
    BY <1>4, <1>5, <2>1, HintHelps
<1> QED
  BY <1>2, <1>6 DEF HintsHelp, c, tells, drop, d

LEMMA CalledType ==
  ASSUME FileOK(session.config), TellsOK(session.tells), Titled(session.config),
         ModelCalled(session.config, session.tells, Model) # None
  PROVE  <<ModelCalled(session.config, session.tells, Model)>> # None
<1> DEFINE c == session.config
           tells == session.tells
           m == ModelCalled(c, tells, Model)
           all == Listed(c, tells)
<1>1. Leads(all, m.id, m)
  BY CalledGoes
<1>2. IsSeq(all) /\ \A o \in ToSet(all) : WellModel(o)
  BY ListedIs DEF Titled
<1> HIDE DEF m, all
<1>3. m \in ToSet(all)
  BY <1>1, <1>2, SeqDomain DEF Leads, ToSet
<1>4. m \in ModelType
  BY <1>2, <1>3 DEF WellModel, Modelled
<1>5. <<m>> \in Seq(ModelType)
  BY <1>4
<1>6. <<m>> # None
  BY <1>5, RequestsAssumption
<1> QED
  BY <1>6 DEF m

LEMMA ListsAlways == ASSUME Stands, Settled PROVE ListsAreRoutes
<1> SUFFICES ASSUME phase = "answered", Titled(session.config) PROVE ListsAreRoutes
  BY DEF ListsAreRoutes, Titled
<1>1. FileOK(session.config) /\ TellsOK(session.tells)
  BY SessionOK
<1> DEFINE offered == ModelsOf("anthropic", answer.body.models)
           all == Listed(session.config, session.tells)
           called == ModelCalled(session.config, session.tells, Model)
<1>2. ASSUME answer.by = "models"
      PROVE  /\ Models # None
             /\ offered = ModelsOf("anthropic", [i \in DOMAIN Models |-> EncodeModel(Models[i])])
  <2>1. GivenModels
    BY <1>2, WhoAnswers, NamedApart DEF SaidByRouter, SaidByBackend
  <2> QED
    BY <2>1 DEF GivenModels, OfModels
<1>3. ASSUME answer.by = "models", session.path = "/v1/models" PROVE OffersAll(offered, all)
  <2>1. Models = all
    BY <1>3 DEF Models
  <2>2. OffersAll(offered, Models)
    BY <1>1, <1>2, <1>3, <2>1, AllOffered
  <2> QED
    BY <2>1, <2>2
<1>4. ASSUME answer.by = "models", session.path = "/v1/models/{id}" PROVE OffersOne(offered, all)
  <2>1. called # None /\ Models = <<called>>
    BY <1>2, <1>4 DEF Models
  <2> QED
    BY <1>1, <1>2, <1>4, <2>1, OneOffered
<1>5. ASSUME answer.by = "UnknownModel", session.path = "/v1/models/{id}"
      PROVE  Routed(With(session.config, "default", None), session.tells, Model) = None
  <2>1. Refusal(Route) = "UnknownModel"
    <3>1. ~GivenModels
      BY <1>5, ModelsFit DEF GivenModels
    <3> QED
      BY <1>5, <3>1, WhoAnswers DEF SaidByRouter, SaidByBackend
  <2>2. "UnknownModel" # None
    BY NoneApart DEF Errors
  <2>3. Models = None
    BY <1>5, <2>1, <2>2, RefusalIs
  <2>4. called = None
    BY <1>1, <1>5, <2>3, CalledType DEF Models
  <2> QED
    BY <1>1, <2>4, NoneServes
<1> QED
  BY <1>3, <1>4, <1>5 DEF ListsAreRoutes

LEMMA SettledAlways == Spec => []Settled
<1> QED
  BY SettledFirst, SettledNext, StandsAlways, PTL DEF Spec

\* What a client is answered is what happened, in a shape it can read: a failure keeps its
\* status, its meaning and its words up to the limits a message has, an overflow is reworded
\* wherever an error document tells it or the part of another body that is read, the headers
\* are the backend's and the router's own, the tokens add up, a hint to drop fields helps,
\* and the models offered are the ones requests are routed by
\* (src/server/handlers/proxy.rs, openai.rs, models.rs, src/server/error.rs,
\* src/anthropic/error.rs, src/openai/error.rs, response.rs, src/activity/hints.rs).
THEOREM AnswersCorrect == Spec => []AnswersTell
<1>1. Stands /\ Settled => AnswersTell
  BY MeaningsKept, ReadableAlways, TokensTold, HintsAlways, ListsAlways DEF AnswersTell
<1> QED
  BY <1>1, SettledAlways, StandsAlways, PTL
=============================================================================
