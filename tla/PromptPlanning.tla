--------------------------- MODULE PromptPlanning ---------------------------
(***************************************************************************)
(* What a request quotes.  A send reads the newest eligible rows of its    *)
(* lineage (storage/database.rs), plans a prompt within the message, byte  *)
(* and character budgets (chat/prompt.rs), attaches the opaque reasoning   *)
(* state of the answers it quotes (core/app.rs), and the request is then   *)
(* validated twice more: by the runner (chat/prompt.rs) and by the adapter *)
(* (providers/anthropic_messages.rs).  Each of the four has limits of its  *)
(* own; a conversation grows turn by turn until it meets them.             *)
(*                                                                         *)
(* The texts are reduced to their sizes.  One branch is used by one caller *)
(* at a time: what happens when callers cross is the matter of module      *)
(* Conversation.                                                           *)
(***************************************************************************)
EXTENDS Naturals, FiniteSets, Sequences, SequencesExt, FiniteSetsExt

CONSTANTS
    MaxPromptMessages,  \* MAX_PROMPT_MESSAGES, the two static ones included
    MaxPrompt,          \* MAX_PROMPT_BYTES and MAX_PROMPT_CHARS
    MaxItem,            \* MAX_HISTORY_MESSAGE_BYTES and _CHARS
    MaxUser,            \* MAX_USER_MESSAGE_BYTES and _CHARS
    LineageRows,        \* rows the recursive query walks (depth < 511)
    MaxStates,          \* MAX_OPAQUE_REASONING_STATE_COUNT
    MaxStateBytes,      \* MAX_OPAQUE_REASONING_TOTAL_BYTES
    Texts,              \* sizes of the texts a user or a provider may write
    Policy,             \* size of the system message
    Profiles,           \* characters: size of name and description, and encoded
    Targets,            \* provider, model and route a generation may run on
    StateSizes,         \* bytes of the opaque state an answer may carry
    Preserves,          \* may presets keep opaque state ({FALSE} or BOOLEAN)
    Legacy,             \* lineages an earlier version may have left behind
    None,
    MaxRows             \* bound: length of the lineage

Sizes == [bytes : Nat, chars : Nat]

(***************************************************************************)
(* A row of the lineage.  "ran" is the target of the generation that wrote *)
(* an assistant row, "opaque" the bytes of state kept with it, if any.   *)
(***************************************************************************)
Rows == {row \in [role : {"system", "user", "assistant"},
                  status : {"pending", "complete", "failed", "cancelled"},
                  size : Sizes,
                  ran : Targets \cup {None},
                  opaque : StateSizes \cup {0}] :
            row.opaque > 0 => row.role = "assistant" /\ row.status = "complete"}

Within(s, t) == s.bytes <= t.bytes /\ s.chars <= t.chars
Plus(s, t) == [bytes |-> s.bytes + t.bytes, chars |-> s.chars + t.chars]
Zero == [bytes |-> 0, chars |-> 0]

VARIABLES
    lineage,    \* rows from the oldest message to the head of the branch
    profile,    \* sizes of the profile of the room's character
    planned     \* the last request and what it was made from

vars == <<lineage, profile, planned>>

UserRow(text) == [role |-> "user", status |-> "complete", size |-> text,
                  ran |-> None, opaque |-> 0]

(***************************************************************************)
(* Storage: the newest rows of the lineage that may be quoted              *)
(***************************************************************************)

Eligible(row) ==
    /\ row.role # "system"
    /\ row.status # "pending"
    /\ row.status = "complete" \/ row.size.chars > 0
    /\ Within(row.size, MaxItem)

Newest(rows, n) ==
    IF Len(rows) <= n THEN rows ELSE SubSeq(rows, Len(rows) - n + 1, Len(rows))

list_recent_branch_messages_for_prompt(rows) ==
    Newest(SelectSeq(Newest(rows, LineageRows), Eligible), MaxPromptMessages - 2)

(***************************************************************************)
(* Planner: PromptPlanner::plan_with_mode.  Scan[k] is the loop after the  *)
(* k newest rows that are not system rows.                                 *)
(***************************************************************************)

NotSystem(row) == row.role # "system"

StaticSize(prof) == Plus(Policy, prof.encoded)

\* mutant: a message that does not fit is skipped and the next one tried
FaultyScan(history, prof) ==
    LET past == SelectSeq(history, NotSystem)
        scan[k \in 0 .. Len(past)] ==
            IF k = 0
            THEN [kept |-> 0, total |-> StaticSize(prof), over |-> FALSE, refused |-> FALSE]
            ELSE LET s == scan[k - 1]
                     size == past[Len(past) + 1 - k].size
                     next == Plus(s.total, size)
                 IN  IF s.over \/ s.kept = MaxPromptMessages - 2 THEN s
                     ELSE IF ~Within(size, MaxItem) \/ ~Within(next, MaxPrompt) THEN s
                     ELSE [s EXCEPT !.kept = @ + 1, !.total = next]
    IN  scan[Len(past)]

Scan(history, prof) ==
    LET past == SelectSeq(history, NotSystem)
        stop(s) == [s EXCEPT !.over = TRUE, !.refused = (s.kept = 0)]
        scan[k \in 0 .. Len(past)] ==
            IF k = 0
            THEN [kept |-> 0, total |-> StaticSize(prof), over |-> FALSE, refused |-> FALSE]
            ELSE LET s == scan[k - 1]
                     size == past[Len(past) + 1 - k].size
                     next == Plus(s.total, size)
                 IN  IF s.over \/ s.kept = MaxPromptMessages - 2 THEN s
                     ELSE IF ~Within(size, MaxItem) \/ ~Within(next, MaxPrompt) THEN stop(s)
                     ELSE [s EXCEPT !.kept = @ + 1, !.total = next]
    IN  scan[Len(past)]

PlannedMessages(history, prof) ==
    LET static(role, size) == [role |-> role, status |-> "complete", size |-> size,
                               ran |-> None, opaque |-> 0]
    IN  <<static("system", Policy), static("user", prof.encoded)>>
            \o Newest(SelectSeq(history, NotSystem), Scan(history, prof).kept)

plan_with_mode(history, prof) ==
    IF \/ ~Within(prof.source, MaxPrompt)
       \/ ~Within(StaticSize(prof), MaxPrompt)
       \/ Scan(history, prof).refused
    THEN None
    ELSE PlannedMessages(history, prof)

(***************************************************************************)
(* Opaque reasoning state of the answers the prompt quotes                 *)
(***************************************************************************)

Carries(row, target) ==
    /\ row.role = "assistant"
    /\ row.status = "complete"
    /\ row.opaque > 0
    /\ row.ran = target

load_opaque_reasoning_context(messages, target) ==
    {i \in DOMAIN messages : Carries(messages[i], target)}

validate_opaque_reasoning_states(messages, context) ==
    /\ Cardinality(context) <= MaxStates
    /\ FoldSet(LAMBDA i, acc : messages[i].opaque + acc, 0, context)
        <= MaxStateBytes

(***************************************************************************)
(* Runner and adapter: the request is validated again                      *)
(***************************************************************************)

TotalOf(messages) == FoldSeq(LAMBDA m, acc : Plus(m.size, acc), Zero, messages)

validate_generation_request(messages) ==
    /\ Len(messages) <= MaxPromptMessages
    /\ \A i \in DOMAIN messages : messages[i].role = "system" => i = 1
    /\ Within(TotalOf(messages), MaxPrompt)

validate_opaque_context(messages, context, target) ==
    /\ \A i \in context : messages[i].ran = target
    /\ validate_opaque_reasoning_states(messages, context)

request_payload(messages, context) ==
    /\ \A i \in context : messages[i].role = "assistant"
    /\ \E i \in DOMAIN messages : messages[i].role # "system"

(***************************************************************************)
(* Turns                                                                   *)
(***************************************************************************)

Planned(rows, text, target, preserve) ==
    LET history == Append(list_recent_branch_messages_for_prompt(rows), UserRow(text))
        messages == plan_with_mode(history, profile)
        context == IF preserve /\ messages # None
                   THEN load_opaque_reasoning_context(messages, target)
                   ELSE {}
    IN  [rows |-> rows, text |-> text, target |-> target, messages |-> messages,
         context |-> context,
         accepted |-> /\ messages # None
                      /\ validate_opaque_reasoning_states(messages, context)]

Runs(plan) ==
    /\ validate_generation_request(plan.messages)
    /\ validate_opaque_context(plan.messages, plan.context, plan.target)
    /\ request_payload(plan.messages, plan.context)

(***************************************************************************)
(* Rows a generation may end as: an answer within the output budget, what  *)
(* was streamed before a failure or a cancellation, or nothing.            *)
(***************************************************************************)
Answers(plan, preserve) ==
    {row \in [role : {"assistant"}, status : {"complete", "failed", "cancelled"},
              size : Texts \cup {Zero}, ran : {plan.target}, opaque : StateSizes \cup {0}] :
        /\ Within(row.size, MaxItem)
        /\ row.opaque > 0 => row.status = "complete" /\ preserve /\ row.opaque <= MaxStateBytes
        /\ ~Runs(plan) => row.status = "failed" /\ row.size = Zero}

Turn(rows, text, target, preserve) ==
    LET plan == Planned(rows, text, target, preserve)
    IN  /\ text.chars > 0 /\ Within(text, MaxUser)
        /\ Len(rows) + 2 <= MaxRows
        /\ planned' = plan
        /\ \/ ~plan.accepted /\ UNCHANGED lineage
           \/ /\ plan.accepted
              /\ \E answer \in Answers(plan, preserve) :
                    lineage' = rows \o <<UserRow(text), answer>>
        /\ UNCHANGED profile

(***************************************************************************)
(* send_message_to_branch_with_provider_options                            *)
(***************************************************************************)
Send(text, target, preserve) == Turn(lineage, text, target, preserve)

(***************************************************************************)
(* start_message_generation_action_with_provider_options: the message of a *)
(* user is replaced, or the answer to it is generated again from its own   *)
(* text, on a new branch that shares the rows before it.                   *)
(***************************************************************************)
EditUser(i, text, target, preserve) ==
    /\ lineage[i].role = "user"
    /\ Turn(SubSeq(lineage, 1, i - 1), text, target, preserve)

Regenerate(i, target, preserve) ==
    /\ lineage[i].role = "user"
    /\ i < Len(lineage) /\ lineage[i + 1].role = "assistant"
    /\ Turn(SubSeq(lineage, 1, i - 1), lineage[i].size, target, preserve)

(***************************************************************************)
(* remove_message rewinds the branch to the parent of the target           *)
(***************************************************************************)
RemoveMessage(i) ==
    /\ lineage' = SubSeq(lineage, 1, i - 1)
    /\ UNCHANGED <<profile, planned>>

Init ==
    /\ lineage \in Legacy
    /\ profile \in Profiles
    /\ planned = None

Next ==
    \/ \E text \in Texts, target \in Targets, preserve \in Preserves :
        Send(text, target, preserve)
    \/ \E i \in DOMAIN lineage, target \in Targets, preserve \in Preserves :
        \/ Regenerate(i, target, preserve)
        \/ \E text \in Texts : EditUser(i, text, target, preserve)
    \/ \E i \in DOMAIN lineage : RemoveMessage(i)

Spec == Init /\ [][Next]_vars

-----------------------------------------------------------------------------
(***************************************************************************)
(* Properties                                                              *)
(***************************************************************************)

TypeOK ==
    /\ lineage \in Seq(Rows) /\ Len(lineage) <= MaxRows
    /\ profile \in Profiles
    /\ planned # None => planned.messages = None \/ planned.messages \in Seq(Rows)

(***************************************************************************)
(* The prompt quotes the longest run of newest eligible messages that fits *)
(* the budgets together with the static messages, the new text included:   *)
(* what plan_with_mode keeps row by row is compared with the definition    *)
(* "most recent suffix that fits" of provider-and-chat.md.                 *)
(***************************************************************************)
Quotable(plan) ==
    LET recent == Newest(plan.rows, LineageRows)
    IN  Append(SelectSeq(recent, Eligible), UserRow(plan.text))

FitsWith(plan, n) ==
    /\ n <= MaxPromptMessages - 2
    /\ Within(Plus(StaticSize(profile), TotalOf(Newest(Quotable(plan), n))), MaxPrompt)

QuotesTheLongestSuffix ==
    planned # None /\ planned.accepted =>
        LET n == Max({k \in 0 .. Len(Quotable(planned)) : FitsWith(planned, k)})
        IN  SubSeq(planned.messages, 3, Len(planned.messages)) = Newest(Quotable(planned), n)

(***************************************************************************)
(* A request that planning accepts is not refused later: the runner and    *)
(* the adapter, which count again and check the origin of every opaque     *)
(* state, agree with the planner.  Their refusal would come after the      *)
(* message has been stored.                                                *)
(***************************************************************************)
AcceptedRuns == planned # None /\ planned.accepted => Runs(planned)

(***************************************************************************)
(* A request is refused only because of its newest message or of the       *)
(* character: history, which only ever grows, makes a prompt shorter and   *)
(* never impossible.                                                       *)
(***************************************************************************)
HistoryNeverRefuses ==
    planned # None /\ ~planned.accepted =>
        \/ ~Within(profile.source, MaxPrompt)
        \/ ~Within(Plus(StaticSize(profile), planned.text), MaxPrompt)
=============================================================================
