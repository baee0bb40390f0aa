----------------------------- MODULE TurnSummary -----------------------------
(***************************************************************************)
(* What a request asks, as the lists of requests and recordings name it    *)
(* (src/anthropic/summary.rs).  A text is the stretches it is made of;     *)
(* Stretch says of each whether it is typed, a notice, a command, or a     *)
(* reminder, which may carry a message queued while the model worked.      *)
(***************************************************************************)
EXTENDS Integers, SequencesExt

CONSTANTS
  Stretch,     \* stretch -> [sort, label]
  None

Waking ==
  {"task notification", "hook feedback", "goal check-in", "goal set", "agent message",
   "continue"}

Hints == <<"description", "file_path", "notebook_path", "path", "pattern", "url", "query",
           "command", "skill">>

\* After a message sent mid-turn, what is typed replaces it.
Typed(read, text) ==
  [read EXCEPT !.prompt = IF read.queued = "yes" THEN <<text>> ELSE Append(@, text),
               !.queued = "no"]

Sorted(read, text) ==
  CASE Stretch[text].sort = "typed" -> Typed(read, text)
    [] Stretch[text].sort = "command" -> [Typed(read, text) EXCEPT !.command = "yes"]
    [] Stretch[text].sort = "notice" ->
         [read EXCEPT !.command = "no",
                      !.notices = IF Contains(@, Stretch[text].label) THEN @
                                  ELSE Append(@, Stretch[text].label)]
    [] Stretch[text].sort = "reminder" -> [read EXCEPT !.reminders = "yes"]
    [] OTHER -> [read EXCEPT !.reminders = "yes", !.prompt = <<text>>, !.queued = "yes"]

\* The text right after a command is what it expands to.
ReadStretch(read, text) ==
  IF Stretch[text].sort = "typed" /\ read.command = "yes"
  THEN [read EXCEPT !.command = "no"] ELSE Sorted(read, text)

ReadTexts(blocks) ==
  LET texts == FlattenSeq([k \in DOMAIN blocks |->
                 IF blocks[k].type = "text" THEN blocks[k].text ELSE <<>>])
      new == [prompt |-> <<>>, queued |-> "no", command |-> "no", notices |-> <<>>,
              reminders |-> "no"]
  IN FoldLeft(ReadStretch, new, texts)

Read(message) ==
  LET blocks == message.blocks
      read == ReadTexts(blocks)
  IN [prompt |-> read.prompt, notices |-> read.notices, reminders |-> read.reminders,
      results |-> FlattenSeq([k \in DOMAIN blocks |->
                    IF blocks[k].type = "tool_result" THEN <<blocks[k].id>> ELSE <<>>])]

Wakes(read) == ToSet(read.notices) \cap Waking # {}

\* turn_prompt: backwards, to the newest prompt or to what woke the model without one.
EndsReading(read) == read.prompt # <<>> \/ (Wakes(read) /\ read.results = <<>>)

\* The last of these places in a sequence, 0 when there is none.
Newest(places) == Max(places \cup {0})

TurnPrompt(messages) ==
  LET at == Newest({i \in DOMAIN messages : messages[i].role = "user" /\ EndsReading(Read(messages[i]))})
  IN IF at = 0 THEN <<>> ELSE Read(messages[at]).prompt

LastSpoken(messages) ==
  Newest({i \in DOMAIN messages : messages[i].role \in {"user", "assistant"}})

Answers(messages) ==
  LET at == LastSpoken(messages)
  IN at # 0 /\ \E b \in ToSet(messages[at].blocks) : b.type = "tool_result"

\* hint: what the first of these fields says.
Hint(input) ==
  LET at == SelectInSeq(Hints, LAMBDA f : f \in DOMAIN input)
  IN IF at = 0 THEN None ELSE input[Hints[at]]

\* What the assistant wrote, and where in it a call has this id; tool_names.
Written(messages) ==
  FlattenSeq([i \in DOMAIN messages |->
    IF messages[i].role = "assistant" THEN messages[i].blocks ELSE <<>>])
Calls(written, id) ==
  {k \in DOMAIN written : written[k].type = "tool_use" /\ written[k].id = id}
CallAt(written, at) ==
  IF at = 0 THEN [name |-> "tool", hint |-> None]
  ELSE [name |-> written[at].name, hint |-> Hint(written[at].input)]

FirstCallOf(messages, id) ==     \* a mutant: an id used again stays its first call
  LET calls == Calls(Written(messages), id)
  IN CallAt(Written(messages), IF calls = {} THEN 0 ELSE Min(calls))

CallOf(messages, id) == CallAt(Written(messages), Newest(Calls(Written(messages), id)))

\* [name, hint, count] of the calls answered; without a hint, the same tool once.
Name(named, call) ==
  LET same == {i \in DOMAIN named : call.hint = None /\ named[i].hint = None /\ named[i].name = call.name}
      at == Min(same)
  IN IF same = {} THEN Append(named, [name |-> call.name, hint |-> call.hint, count |-> 1])
     ELSE [named EXCEPT ![at] = [name |-> @.name, hint |-> @.hint, count |-> @.count + 1]]

ToolNames(messages, ids) ==
  LET named[k \in 0..Len(ids)] ==
        IF k = 0 THEN <<>> ELSE Name(named[k - 1], CallOf(messages, ids[k]))
  IN named[Len(ids)]

\* step: what the last message sends when it is no prompt.
Step(messages) ==
  LET at == LastSpoken(messages)
      read == Read(messages[at])
  IN IF at = 0 \/ (messages[at].role = "user" /\ read.prompt # <<>>) THEN None
     ELSE [sends |-> IF messages[at].role = "assistant" THEN <<"assistant prefill">>
                     ELSE IF read.results = <<>> /\ read.notices = <<>>
                     THEN <<IF read.reminders = "yes" THEN "system reminder" ELSE "no text">>
                     ELSE read.notices,
           returns |-> IF messages[at].role = "assistant" THEN <<>>
                       ELSE ToolNames(messages, read.results)]

Summary(messages) ==
  [prompt |-> TurnPrompt(messages), answers |-> Answers(messages), step |-> Step(messages)]
=============================================================================
