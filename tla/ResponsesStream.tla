--------------------------- MODULE ResponsesStream ---------------------------
(***************************************************************************)
(* The OpenAI Responses adapter (crates/providers/src/openai_responses.rs):*)
(* a tool call is an output item; its arguments come in deltas, come again *)
(* in full when they are done, and the two must agree.                     *)
(*                                                                         *)
(* The adapter finds a call by the id of its item and sends it under the   *)
(* call_id its item came with, and never asks whether another item came    *)
(* with the same one.  Arguments are sequences of pieces, each named by    *)
(* its place on the wire.                                                  *)
(***************************************************************************)
EXTENDS ProviderSink, TLC

CONSTANTS
    Items,         \* ids of output items
    CallIds,       \* call_ids of tool calls
    MaxArguments   \* MAX_PENDING_TOOL_ARGUMENT_BYTES, in pieces

VARIABLES
    calls,      \* ResponsesToolCallTracker: id, arguments and completed, by item
    finished    \* what the done event of an item said (history)

vars == <<sinkVars, calls, finished>>

Init == SinkInit /\ calls = <<>> /\ finished = <<>>

Keep == UNCHANGED <<calls, finished>>
Refused(e) == Take(e, <<>>, "fail") /\ Keep

(* output_text, refusal and reasoning summary deltas; other event types    *)
(* are skipped.                                                            *)
ProcessDelta ==
    /\ \/ Take([kind |-> "text_delta"], <<Text(Next1)>>, "read")
       \/ Take([kind |-> "reasoning_delta"], <<Reasoning(Next1)>>, "read")
       \/ Take([kind |-> "other"], <<>>, "read")
    /\ Keep

(* response.output_item.added with a function call.                        *)
ProcessItemAdded(i, id) ==
    LET e == [kind |-> "item_added", item |-> i]
    IN  \/ i \in DOMAIN calls /\ Refused(e)
        \/ /\ i \notin DOMAIN calls /\ Take(e, <<Started(id)>>, "read")
           /\ calls' = (i :> [id |-> id, arguments |-> <<>>, completed |-> FALSE]) @@ calls
           /\ UNCHANGED finished

Open(i) == i \in DOMAIN calls /\ ~ calls[i].completed

(* append_tool_arguments.                                                  *)
ArgumentsFit(i) == Len(calls[i].arguments) < MaxArguments

(* response.function_call_arguments.delta.                                 *)
ProcessArgumentsDelta(i) ==
    LET e == [kind |-> "arguments_delta", item |-> i]
        fits == Open(i) /\ ArgumentsFit(i)
    IN  \/ ~ fits /\ Refused(e)
        \/ /\ fits /\ Take(e, <<Arguments(calls[i].id, Next1)>>, "read")
           /\ calls' = [calls EXCEPT ![i].arguments = Append(@, Next1)]
           /\ UNCHANGED finished

(* The full arguments repeat the deltas, or come instead of them.          *)
DoneAgrees(i, full) == calls[i].arguments \in {<<>>, full}

(* response.function_call_arguments.done, with the name the item had or    *)
(* another one.                                                            *)
ProcessArgumentsDone(i, full, sameName) ==
    LET e == [kind |-> "arguments_done", item |-> i]
        fits == Open(i) /\ sameName /\ DoneAgrees(i, full)
        late == fits /\ calls[i].arguments = <<>> /\ full # <<>>
    IN  \/ ~ fits /\ Refused(e)
        \/ /\ fits
           /\ Take(e, One(late, Arguments(calls[i].id, Next1)) \o <<Completed(calls[i].id)>>, "read")
           /\ calls' = [calls EXCEPT ![i].arguments = IF late THEN full ELSE @,
                                     ![i].completed = TRUE]
           /\ finished' = (i :> full) @@ finished

AllCompleted == \A i \in DOMAIN calls : calls[i].completed

(* response.completed; a reported failure and [DONE] end with an error.    *)
ProcessCompleted ==
    LET e == [kind |-> "completed"]
    IN  \/ ~ AllCompleted /\ Refused(e)
        \/ AllCompleted /\ Take(e, <<>>, "done") /\ Keep
ProcessFailed == Refused([kind |-> "failed"])

Next ==
    \/ ProcessDelta \/ ProcessCompleted \/ ProcessFailed
    \/ \E i \in Items :
          \/ \E id \in CallIds : ProcessItemAdded(i, id)
          \/ ProcessArgumentsDelta(i)
          \/ \E sameName \in BOOLEAN :
                \/ \E full \in {<<>>, <<Next1>>} : ProcessArgumentsDone(i, full, sameName)
                \/ /\ Open(i) /\ calls[i].arguments # <<>>
                   /\ ProcessArgumentsDone(i, calls[i].arguments, sameName)
    \/ SinkStep /\ Keep

Spec == Init /\ [][Next]_vars

-----------------------------------------------------------------------------
(* The type invariant, with the bound of a call's buffer.                  *)
TypeOK ==
    /\ SinkTypeOK
    /\ DOMAIN finished \subseteq DOMAIN calls /\ DOMAIN calls \subseteq Items
    /\ \A i \in DOMAIN calls :
          /\ calls[i].id \in CallIds /\ calls[i].completed \in BOOLEAN
          /\ Len(calls[i].arguments) <= MaxArguments

(* Two items of the response came with one call_id.                        *)
SharedCallId ==
    \E i, j \in DOMAIN calls : i # j /\ calls[i].id = calls[j].id

(* An item is completed with the arguments its done event names: sent once *)
(* as deltas or in full, never both and never something else, whatever     *)
(* call_ids the items came with.  The item of a piece is the one its event *)
(* on the wire is for.                                                     *)
CompletedAsSaid ==
    outbox = <<>> =>
        \A i \in DOMAIN finished :
            LET args == SelectSeq(sent, LAMBDA e : e.kind = "args" /\ wire[e.of].item = i)
            IN  /\ \A k \in DOMAIN args : args[k].id = calls[i].id
                /\ [k \in DOMAIN args |-> args[k].of] = finished[i]
                /\ Completed(calls[i].id) \in ToSet(sent)

(* Success means that the provider said its response was completed, last   *)
(* of all, that every call it had started was done by then, and that all   *)
(* text and reasoning of the response was sent in its order.               *)
SuccessIsWhole ==
    outcome = "ok" =>
        /\ wire # <<>> /\ Last(wire).kind = "completed"
        /\ \A n \in DOMAIN wire : wire[n].kind = "item_added" => wire[n].item \in DOMAIN finished
        /\ LET texts == SentOf({"text", "reasoning"})
           IN  [k \in DOMAIN texts |-> texts[k].of]
                 = SelectSeq([n \in DOMAIN wire |-> n],
                             LAMBDA n : wire[n].kind \in {"text_delta", "reasoning_delta"})
=============================================================================
