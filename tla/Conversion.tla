----------------------------- MODULE Conversion -----------------------------
(***************************************************************************)
(* What a chat request becomes on its way to Kiro (convert_openai.rs,      *)
(* convert_anthropic.rs, convert_core.rs) and how an oversized payload is  *)
(* trimmed (payload_guard.rs).                                             *)
(*                                                                         *)
(* A message is its role, the tool calls it makes and the tool results it  *)
(* brings; `told` holds the results that travel as text.  Texts, images,   *)
(* tool definitions and reasoning are left out.  Every history entry has   *)
(* the size one: only how many entries stay matters here.                  *)
(***************************************************************************)
EXTENDS Naturals, Sequences, SequencesExt

Said(role) == [role |-> role, kind |-> "said", uses |-> {}, results |-> {}, told |-> {}]
\* system_prompt_entries: the instructions and their acknowledgement.
SystemPair == <<[Said("user") EXCEPT !.kind = "prompt"], [Said("assistant") EXCEPT !.kind = "ack"]>>

----------------------------------------------------------------------------
(* convert_messages and the system messages around it.                     *)

IsSystem(m) == m.role = "system"
\* The system messages the conversation opens with make the prompt.
Opening(msgs) == CHOOSE n \in 0..Len(msgs) :
    /\ \A i \in 1..n : IsSystem(msgs[i])
    /\ n < Len(msgs) => ~IsSystem(msgs[n + 1])
\* A later one stays in place as user text; a tool message is a user message with its result.
Unified(msgs) ==
    [i \in 1..(Len(msgs) - Opening(msgs)) |->
        LET m == msgs[i + Opening(msgs)]
        IN  IF m.role \in {"system", "tool"} THEN [m EXCEPT !.role = "user"] ELSE m]

----------------------------------------------------------------------------
(* build_kiro_payload.                                                     *)

\* strip_all_tool_content: without tools, calls and results are text.
Stripped(msgs) ==
    [i \in DOMAIN msgs |-> [msgs[i] EXCEPT !.uses = {}, !.results = {}, !.told = @ \cup msgs[i].results]]

\* merge_adjacent_messages.
Joined(l, m) == [l EXCEPT
    !.uses = IF m.role = "assistant" THEN @ \cup m.uses ELSE @,
    !.results = IF m.role = "user" THEN @ \cup m.results ELSE @,
    !.told = @ \cup m.told]
Merged(msgs) ==
    LET add(acc, m) ==
            IF acc # <<>> /\ Last(acc).role = m.role
            THEN [acc EXCEPT ![Len(acc)] = Joined(@, m)]
            ELSE Append(acc, m)
    IN  FoldLeft(add, <<>>, msgs)

\* The calls made by the entry before i.
CallsBefore(msgs, i) == IF i > 1 /\ msgs[i - 1].role = "assistant" THEN msgs[i - 1].uses ELSE {}
\* ensure_assistant_before_tool_results: a result without its call becomes text.
Matched(msgs) ==
    [i \in DOMAIN msgs |->
        [msgs[i] EXCEPT !.results = @ \cap CallsBefore(msgs, i),
                        !.told = @ \cup (msgs[i].results \ CallsBefore(msgs, i))]]

\* Mutant: results are matched before their user turn is put together.
Mutant_MatchedEarly(msgs, hasTools) == IF hasTools THEN Merged(Matched(msgs)) ELSE Merged(Stripped(msgs))
Prepared(msgs, hasTools) == IF hasTools THEN Matched(Merged(msgs)) ELSE Merged(Stripped(msgs))

\* The dialogue opens with a user, every other role is a user, and users alternate with assistants.
Opened(msgs) == IF msgs # <<>> /\ Head(msgs).role # "user" THEN <<Said("user")>> \o msgs ELSE msgs
Alternating(msgs) ==
    LET add(acc, m) ==
            LET n == [m EXCEPT !.role = IF @ = "assistant" THEN @ ELSE "user"]
            IN  IF n.role = "user" /\ acc # <<>> /\ Last(acc).role = "user"
                THEN acc \o <<Said("assistant"), n>>
                ELSE Append(acc, n)
    IN  FoldLeft(add, <<>>, msgs)

\* The last user message is the current one; after an assistant's it is empty.
Payload(dialogue, system) ==
    LET asked == Last(dialogue).role = "user"
        before == IF asked THEN Front(dialogue) ELSE dialogue
    IN  [history |-> (IF system THEN SystemPair ELSE <<>>) \o before,
         current |-> IF asked THEN Last(dialogue) ELSE Said("user")]

----------------------------------------------------------------------------
(* payload_guard.rs.                                                       *)

Size(p) == Len(p.history) + 1

\* repair_orphans: the same rule, over the history and the current message.
Entries(p) == Append(p.history, p.current)
Repaired(p) == LET e == Matched(Entries(p)) IN [history |-> Front(e), current |-> Last(e)]

\* The leading system pair stays.
KeptPair(p) == IF Len(p.history) >= 2 /\ p.history[1].kind = "prompt" THEN 2 ELSE 0

\* The entries that are left when j pairs are dropped behind the kept ones.
Dropped(p, j) ==
    [p EXCEPT !.history = SubSeq(@, 1, KeptPair(p)) \o SubSeq(@, KeptPair(p) + 2 * j + 1, Len(@))]
UserLed(p) ==
    LET h == p.history
        first == CHOOSE i \in 1..(Len(h) + 1) :
                    /\ \A k \in 1..(i - 1) : h[k].role # "user"
                    /\ i <= Len(h) => h[i].role = "user"
    IN  [p EXCEPT !.history = SubSeq(h, first, Len(h))]

\* trim_to_limit: an estimate may drop more pairs than needed, the measured loop drops the rest.
Trimmed(p, cap) ==
    {Repaired(UserLed(Dropped(p, j))) :
        j \in {n \in 0..Len(p.history) :
                 \/ Size(Dropped(p, n)) <= cap
                 \/ Len(Dropped(p, n).history) <= KeptPair(p)}}

Dialogue(msgs, hasTools) == Alternating(Opened(Prepared(Unified(msgs), hasTools)))
Whole(msgs, hasTools) == Payload(Dialogue(msgs, hasTools), Opening(msgs) > 0)
\* The payloads a request may become; none when it is refused.
Built(msgs, hasTools, cap, trim) ==
    IF Dialogue(msgs, hasTools) = <<>> THEN {}
    ELSE LET whole == Whole(msgs, hasTools)
         IN  IF Size(whole) <= cap THEN {whole}
             ELSE IF trim THEN {p \in Trimmed(whole, cap) : Size(p) <= cap}
             ELSE {}

----------------------------------------------------------------------------
(* What a payload must be.                                                 *)

\* Each result answers a call of the entry before it.
ResultsAnswer(p) == \A i \in DOMAIN Entries(p) : Entries(p)[i].results \subseteq CallsBefore(Entries(p), i)
\* No result travels as text when the call it answers is right before it.
ResultsKept(p) == \A i \in DOMAIN Entries(p) : Entries(p)[i].told \cap CallsBefore(Entries(p), i) = {}
\* Users and assistants alternate, from a user to a user.
Alternates(p) == \A i \in DOMAIN Entries(p) : Entries(p)[i].role = (IF i % 2 = 1 THEN "user" ELSE "assistant")
\* The instructions lead when there are any.
Instructed(p, msgs) == Opening(msgs) > 0 => Len(p.history) >= 2 /\ SubSeq(p.history, 1, 2) = SystemPair
\* What a payload says of a tool result, as a result or as text.
Mentioned(p) == UNION {Entries(p)[i].results \cup Entries(p)[i].told : i \in DOMAIN Entries(p)}
Brought(msgs) == UNION {msgs[i].results : i \in DOMAIN msgs}
=============================================================================
