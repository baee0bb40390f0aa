------------------------------ MODULE HeaderGlob ------------------------------
(***************************************************************************)
(* The entries of `drop_headers` (src/config/drop_headers.rs): a preset,   *)
(* or a header name in which a star stands for any run of characters.      *)
(* Names are sequences of words, x-app being <<"x", "app">>.               *)
(***************************************************************************)
EXTENDS Integers, SequencesExt

CONSTANTS
  Star,
  Preset,    \* @claude-code
  None

ClaudeCode ==
  {<<"x", "stainless", Star>>, <<"x", "app">>,
   <<"anthropic", "dangerous", "direct", "browser", "access">>,
   <<"x", "claude", "code", "session", "id">>}

Entry(e) == IF e = Preset THEN ClaudeCode ELSE {e}

\* HeaderPattern::one: the literal runs between stars, in order.
RunStarts(e) == {i \in 1..Len(e) : e[i] # Star /\ (i = 1 \/ e[i - 1] = Star)}
RunFrom(e, i) ==
  SubSeq(e, i, CHOOSE j \in i..Len(e) :
                 /\ \A k \in i..j : e[k] # Star
                 /\ j = Len(e) \/ e[j + 1] = Star)
PartsOf(e) ==
  LET starts == SetToSortSeq(RunStarts(e), <) IN
  [n \in 1..Len(starts) |-> RunFrom(e, starts[n])]

\* An entry that matches everything is refused.
ValidPattern(e) == PartsOf(e) # <<>>

\* HeaderPattern::matches.  str::find: what follows the first place a part is found at.
AfterFirst(rest, part) ==
  LET at == {i \in 0..(Len(rest) - Len(part)) : IsPrefix(part, SubSeq(rest, i + 1, Len(rest)))}
  IN IF at = {} THEN None
     ELSE SubSeq(rest, (CHOOSE i \in at : \A j \in at : i <= j) + Len(part) + 1, Len(rest))

Anchored(rest, part) ==
  IF IsPrefix(part, rest) THEN SubSeq(rest, Len(part) + 1, Len(rest)) ELSE None

PatternMatches(e, name) ==
  LET parts == PartsOf(e)
      Advance(rest, i) ==
        CASE rest = None -> None
          [] i = 1 /\ e[1] # Star -> Anchored(rest, parts[i])
          [] OTHER -> AfterFirst(rest, parts[i])
      rest == FoldLeftDomain(Advance, name, parts)
  IN rest # None /\ (e[Len(e)] = Star \/ rest = <<>>)

\* What an entry is said to be: its words in order, any run of words for each star.
StandsFor(e, name) ==
  \E end \in [0..Len(e) -> 0..Len(name)] :
    /\ end[0] = 0 /\ end[Len(e)] = Len(name)
    /\ \A i \in 1..Len(e) :
         IF e[i] = Star THEN end[i - 1] <= end[i]
         ELSE end[i] = end[i - 1] + 1 /\ name[end[i]] = e[i]

EntryMatches(entry, name) == \E e \in Entry(entry) : PatternMatches(e, name)
Matched(entries, name) == \E entry \in entries : EntryMatches(entry, name)
=============================================================================
