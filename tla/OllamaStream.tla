---------------------------- MODULE OllamaStream ----------------------------
(***************************************************************************)
(* The Ollama adapter (crates/providers/src/ollama_native.rs): one JSON    *)
(* object per line, thinking, content and whole tool calls in each, and a  *)
(* flag on the last one.  A call without an id gets one made of its        *)
(* number.                                                                 *)
(*                                                                         *)
(* A line is [role, thinking, content, calls, done]; calls are their ids,  *)
(* <<>> for one the provider did not name.                                 *)
(***************************************************************************)
EXTENDS ProviderSink

CONSTANTS
    Lines,      \* lines the provider may send
    MaxCalls    \* MAX_OLLAMA_TOOL_CALLS

VARIABLES
    count,    \* next_tool_call_index
    ids       \* tool_call_ids

vars == <<sinkVars, count, ids>>

Init == SinkInit /\ count = 0 /\ ids = {}

FaultyMayCall(t, id) == t.count < MaxCalls

MayCall(t, id) == t.count < MaxCalls /\ id \notin t.ids

(* emit_ollama_tool_call: a refused call ends the line with the events of  *)
(* the calls before it.                                                    *)
EmitToolCall(t, given, n) ==
    LET id == IF given = <<>> THEN <<"ollama-call", t.count>> ELSE given
    IN  IF ~ t.ok \/ ~ MayCall(t, id) THEN [t EXCEPT !.ok = FALSE]
        ELSE [ok |-> TRUE, count |-> t.count + 1, ids |-> t.ids \cup {id},
              events |-> t.events \o <<Started(id), Arguments(id, n), Completed(id)>>]

(* process_chat_line.  A line that is not from the assistant is refused    *)
(* before anything of it is sent.                                          *)
ProcessChatLine(l) ==
    LET step(t, k) == EmitToolCall(t, l.calls[k], <<Next1, k>>)
        t == FoldLeft(step, [ok |-> TRUE, count |-> count, ids |-> ids, events |-> <<>>],
                      [k \in DOMAIN l.calls |-> k])
        shown == One(l.thinking, Reasoning(Next1)) \o One(l.content, Text(Next1))
    IN  \/ l.role # "assistant" /\ Take(l, <<>>, "fail") /\ UNCHANGED <<count, ids>>
        \/ /\ l.role = "assistant"
           /\ Take(l, shown \o t.events,
                   IF ~ t.ok THEN "fail" ELSE IF l.done THEN "done" ELSE "read")
           /\ count' = t.count /\ ids' = t.ids

Next ==
    \/ \E l \in Lines : ProcessChatLine(l)
    \/ SinkStep /\ UNCHANGED <<count, ids>>

Spec == Init /\ [][Next]_vars

-----------------------------------------------------------------------------
(* The type invariant, with the limit on calls.                            *)
TypeOK == SinkTypeOK /\ count \in 0 .. MaxCalls /\ Cardinality(ids) = count

(* Success means that the line that said so was the last one taken, and    *)
(* that all the lines carried was sent, in their order.                    *)
SuccessIsWhole ==
    outcome = "ok" =>
        LET parts(n) == (IF wire[n].thinking THEN <<Reasoning(n)>> ELSE <<>>)
                     \o (IF wire[n].content THEN <<Text(n)>> ELSE <<>>)
            shown == SelectSeq(sent, LAMBDA e : e.kind \in {"text", "reasoning"})
        IN  /\ Last(wire).done /\ \A n \in 1 .. Len(wire) - 1 : ~ wire[n].done
            /\ shown = FlattenSeq([n \in DOMAIN wire |-> parts(n)])
            /\ Len(SentOf({"completed"}))
                 = Len(FlattenSeq([n \in DOMAIN wire |-> wire[n].calls]))
=============================================================================
