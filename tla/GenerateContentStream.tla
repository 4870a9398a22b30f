------------------------ MODULE GenerateContentStream ------------------------
(***************************************************************************)
(* The Gemini adapter (crates/providers/src/gemini_generate_content.rs),   *)
(* streaming or in one response.  A part carries text, a thought or a      *)
(* whole function call; a call without an id gets one made of its number.  *)
(* The response ends with the connection and not with an event, so what    *)
(* was seen until then decides whether it was complete.                    *)
(*                                                                         *)
(* A response is [candidate, parts, finish]; a part is [kind, id]; an id   *)
(* is <<>> when the provider gave none.                                    *)
(***************************************************************************)
EXTENDS ProviderSink

CONSTANTS
    Responses,   \* responses the provider may send
    MaxParts,    \* MAX_GEMINI_RESPONSE_PARTS
    MaxCalls     \* MAX_GEMINI_TOOL_CALLS

VARIABLES
    unary,      \* the model answers in one response (consume_unary)
    state,      \* ResponseState
    eof         \* the connection has ended

vars == <<sinkVars, unary, state, eof>>

Terminal == {"terminal_without_content", "terminal_with_content"}

Init ==
    /\ SinkInit /\ unary \in BOOLEAN /\ eof = FALSE
    /\ state = [progress |-> "empty", parts |-> 0, calls |-> 0, ids |-> {}]

-----------------------------------------------------------------------------
CallId(id, index) == IF id = <<>> THEN <<"gemini-call", index>> ELSE id

(* emit_gemini_function_call: an id used before, given or made, is refused.*)
MayCall(s, id) == s.calls < MaxCalls /\ id \notin s.ids

(* process_response_part, n its place: t is the state so far with the      *)
(* events to send and whether the part before was accepted.                *)
ResponsePart(t, part, n) ==
    LET s == t.state
        id == CallId(part.id, s.calls)
        counted == [s EXCEPT !.parts = @ + 1, !.progress = "supported_content"]
        refused == \/ s.parts >= MaxParts \/ part.kind = "unsupported"
                   \/ part.kind = "call" /\ ~ MayCall(s, id)
        events == CASE part.kind = "text" -> <<Text(n)>>
                    [] part.kind = "thought" -> <<Reasoning(n)>>
                    [] part.kind = "call" -> <<Started(id), Arguments(id, n), Completed(id)>>
                    [] part.kind \in {"empty", "unsupported"} -> <<>>
    IN  IF ~ t.ok THEN t
        ELSE IF refused THEN [t EXCEPT !.ok = FALSE]
        ELSE [ok |-> TRUE, events |-> t.events \o events,
              state |-> IF part.kind = "call"
                        THEN [counted EXCEPT !.calls = @ + 1, !.ids = @ \cup {id}] ELSE counted]

(* ResponseProgress::observe_terminal.                                     *)
ObserveTerminal(progress) ==
    IF progress = "supported_content" THEN "terminal_with_content" ELSE "terminal_without_content"

(* process_response.  A response without a candidate carries usage only;   *)
(* one that is blocked or malformed is an error of the loop.               *)
ProcessResponse(r) ==
    LET step(t, k) == ResponsePart(t, r.parts[k], <<Next1, k>>)
        seen == IF state.progress \in {"empty", "response_only"} THEN "candidate" ELSE state.progress
        t == FoldLeft(step, [ok |-> TRUE, events |-> <<>>, state |-> [state EXCEPT !.progress = seen]],
                      [k \in DOMAIN r.parts |-> k])
        first == IF state.progress = "empty" THEN "response_only" ELSE state.progress
    IN  /\ ~ eof /\ (unary => wire = <<>>)
        /\ \/ /\ ~ r.candidate /\ Take(r, <<>>, "read")
              /\ state' = [state EXCEPT !.progress = first]
           \/ /\ r.candidate /\ state.progress \in Terminal
              /\ Take(r, <<>>, "fail") /\ UNCHANGED state
           \/ /\ r.candidate /\ state.progress \notin Terminal
              /\ Take(r, t.events, IF t.ok /\ r.finish # "other" THEN "read" ELSE "fail")
              /\ state' = IF r.finish = "STOP"
                          THEN [t.state EXCEPT !.progress = ObserveTerminal(@)] ELSE t.state
        /\ UNCHANGED <<unary, eof>>

(* The connection ends; the last look at the cancellation comes before the *)
(* verdict of ResponseState::finish.                                       *)
EndOfStream ==
    /\ Reading /\ ~ eof /\ ~ cancelled /\ eof' = TRUE
    /\ UNCHANGED <<sinkVars, unary, state>>

FinishResponse ==
    /\ Reading /\ eof
    /\ Returns(IF state.progress = "terminal_with_content" THEN "ok" ELSE "error")
    /\ UNCHANGED <<unary, state, eof>>

Next ==
    \/ \E r \in Responses : ProcessResponse(r)
    \/ EndOfStream \/ FinishResponse
    \/ /\ \/ SendProviderEvent \/ ReceiverClosed \/ CancelledSending \/ Fail \/ Cancel
          \/ ~ eof /\ (EnsureNotCancelled \/ Break)
       /\ UNCHANGED <<unary, state, eof>>

Spec == Init /\ [][Next]_vars

-----------------------------------------------------------------------------
(* The type invariant, with the limits on parts and calls.                 *)
TypeOK ==
    /\ SinkTypeOK /\ {unary, eof} \subseteq BOOLEAN
    /\ state.parts \in 0 .. MaxParts /\ state.calls \in 0 .. MaxCalls
    /\ Cardinality(state.ids) = state.calls

(* Success means that the response was whole: it ended with a finish       *)
(* reason and nothing of a candidate after it, it had content, and all of  *)
(* its parts were sent, in their order.                                    *)
Places == FlattenSeq([n \in DOMAIN wire |-> [k \in DOMAIN wire[n].parts |-> <<n, k>>]])
SuccessIsWhole ==
    outcome = "ok" =>
        LET candidates == SelectSeq(wire, LAMBDA r : r.candidate)
            shown == SelectSeq(sent, LAMBDA e : e.kind \in {"text", "reasoning", "args"})
        IN  /\ candidates # <<>> /\ Last(candidates).finish = "STOP"
            /\ \A k \in 1 .. Len(candidates) - 1 : candidates[k].finish = None
            /\ Places # <<>>
            /\ [k \in DOMAIN shown |-> shown[k].of]
                 = SelectSeq(Places, LAMBDA p : wire[p[1]].parts[p[2]].kind # "empty")
=============================================================================
