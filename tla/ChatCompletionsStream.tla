----------------------- MODULE ChatCompletionsStream -----------------------
(***************************************************************************)
(* The OpenAI-compatible and OpenRouter adapter                            *)
(* (crates/providers/src/openai_compatible.rs): tool calls arrive in       *)
(* fragments addressed by an index, identity before arguments or not, and  *)
(* are started, fed and completed as whole calls.                          *)
(*                                                                         *)
(* An id or a name is a sequence of pieces, and a fragment some of them.   *)
(* The reasoning details of OpenRouter are one bit here; the module        *)
(* OpenRouterReasoning is about them.                                      *)
(***************************************************************************)
EXTENDS ProviderSink, TLC

CONSTANTS
    Chunks,        \* response events with a choice
    Legacy,        \* LEGACY_FUNCTION_CALL_INDEX
    LegacyId,      \* LEGACY_FUNCTION_CALL_ID
    MaxFragments,  \* MAX_TOOL_CALL_ID_BYTES and MAX_TOOL_NAME_BYTES, in pieces
    MaxPending     \* MAX_PENDING_TOOL_ARGUMENT_BYTES, in fragments

VARIABLES
    terminal,   \* a supported finish reason was seen
    calls,      \* OpenAiToolCallTracker
    startedIds,
    observed,   \* the reasoning tracker has something to release
    preserve    \* OpenRouter with preserve_opaque_reasoning_state

vars == <<sinkVars, terminal, calls, startedIds, observed, preserve>>

NoIndex == Legacy + 1
NewCall == [id |-> <<>>, name |-> <<>>, pending |-> <<>>, started |-> FALSE]
Tracker == [ok |-> TRUE, calls |-> calls, ids |-> startedIds, events |-> <<>>]
Refuse(t) == [t EXCEPT !.ok = FALSE]

(* start_if_ready: a call with an id and a name is started by its first    *)
(* argument fragment or by the end; its buffered fragments follow.         *)
StartIfReady(t, i, complete) ==
    LET c == t.calls[i]
        args == [k \in DOMAIN c.pending |-> Arguments(c.id, c.pending[k])]
        flushed == [t EXCEPT !.calls[i] = [c EXCEPT !.pending = <<>>, !.started = TRUE]]
    IN  CASE c.started -> [flushed EXCEPT !.events = @ \o args]
          [] ~ c.started /\ (c.id = <<>> \/ c.name = <<>>) ->
                IF complete THEN Refuse(t) ELSE t
          [] ~ c.started /\ c.id # <<>> /\ c.name # <<>> ->
                IF c.pending = <<>> /\ ~ complete THEN t
                ELSE IF c.id \in t.ids THEN Refuse(t)
                ELSE [flushed EXCEPT !.ids = @ \cup {c.id}, !.events = @ \o <<Started(c.id)>> \o args]

(* observe_delta: one fragment d of a call, n its place on the wire.  The  *)
(* identity of a started call may be repeated whole, and may not change.   *)
ObserveDelta(t, d, n) ==
    LET old   == IF d.index \in DOMAIN t.calls THEN t.calls[d.index] ELSE NewCall
        call  == IF d.index = Legacy /\ old.id = <<>> THEN [old EXCEPT !.id = LegacyId] ELSE old
        grown == [call EXCEPT
                    !.id = IF call.started THEN @ ELSE @ \o d.id,
                    !.name = IF call.started THEN @ ELSE @ \o d.name,
                    !.pending = IF d.args THEN Append(@, n) ELSE @]
        changed == call.started /\ ~ (d.id \in {<<>>, call.id} /\ d.name \in {<<>>, call.name})
        tooLong == \/ Len(grown.id) > MaxFragments \/ Len(grown.name) > MaxFragments
                   \/ Len(grown.pending) > MaxPending
    IN  IF changed \/ tooLong THEN Refuse(t)
        ELSE StartIfReady([t EXCEPT !.calls = (d.index :> grown) @@ @], d.index, FALSE)

(* observe_choice: a fragment without an index has the one of its place in *)
(* the list; the function_call field comes last, under the index reserved  *)
(* for it.                                                                 *)
Indexed(c) ==
    [k \in DOMAIN c.tools |->
        IF c.tools[k].index = NoIndex THEN [c.tools[k] EXCEPT !.index = k - 1] ELSE c.tools[k]]
        \o One(c.function # <<>>,
               [index |-> Legacy, id |-> <<>>, name |-> c.function, args |-> TRUE])
ObserveChoice(c) ==
    LET d == Indexed(c)
        step(t, k) == IF ~ t.ok \/ (k \in DOMAIN c.tools /\ d[k].index = Legacy) THEN Refuse(t)
                      ELSE ObserveDelta(t, d[k], <<Next1, k>>)
    IN  FoldLeft(step, Tracker, [k \in DOMAIN d |-> k])

(* finish_all: every call seen is started if it was not, and completed.    *)
FinishAll(t) ==
    LET step(u, i) ==
            LET s == StartIfReady(u, i, TRUE)
            IN  IF u.ok /\ s.ok THEN [s EXCEPT !.events = Append(@, Completed(s.calls[i].id))]
                ELSE Refuse(u)
    IN  FoldLeft(step, [t EXCEPT !.events = <<>>], SetToSortSeq(DOMAIN t.calls, <))

(* OpenRouterReasoningTracker.finish: what was collected is not released   *)
(* beside a tool call.                                                     *)
ReasoningRefused(noted, hasCalls) == noted /\ hasCalls

-----------------------------------------------------------------------------
Keep == UNCHANGED <<terminal, calls, startedIds, observed, preserve>>

Init ==
    /\ SinkInit /\ preserve \in BOOLEAN
    /\ terminal = FALSE /\ calls = <<>> /\ startedIds = {} /\ observed = FALSE

(* emit_choice_deltas: what is shown of a choice, before its calls.        *)
Shown(c) == One(c.reasoning, Reasoning(Next1)) \o One(c.text, Text(Next1))

(* observe_finish_reasons: why a finish reason is not accepted.            *)
BadFinish(c, noted, hasCalls) ==
    \/ c.finish = "other"
    \/ c.finish = "tool_calls" /\ ~ hasCalls
    \/ c.finish # None /\ ReasoningRefused(noted, hasCalls)

(* process_event for a chunk with a choice, before a finish reason.  Every *)
(* error returns with what was sent before it.                             *)
ProcessChunk(c) ==
    LET track == ObserveChoice(c)
        noted == observed \/ (preserve /\ (c.reasoning \/ c.details # None))
        hasCalls == DOMAIN track.calls # {}
        body  == Shown(c) \o track.events
        all   == FinishAll(track)
        badDetails == preserve /\ c.details = "bad"
        badFinish  == BadFinish(c, noted, hasCalls)
    IN  /\ ~ terminal
        /\ \/ badDetails /\ Take(c, <<>>, "fail") /\ Keep
           \/ ~ badDetails /\ ~ track.ok /\ Take(c, Shown(c), "fail") /\ Keep
           \/ ~ badDetails /\ track.ok /\ badFinish /\ Take(c, body, "fail") /\ Keep
           \/ /\ ~ badDetails /\ track.ok /\ ~ badFinish /\ c.finish # None
              /\ Take(c, body \o One(noted, Opaque(None)) \o (IF all.ok THEN all.events ELSE <<>>),
                      IF all.ok THEN "read" ELSE "fail")
              /\ terminal' = all.ok /\ calls' = all.calls /\ startedIds' = all.ids
              /\ observed' = FALSE /\ UNCHANGED preserve
           \/ /\ ~ badDetails /\ track.ok /\ c.finish = None
              /\ Take(c, body, "read")
              /\ calls' = track.calls /\ startedIds' = track.ids /\ observed' = noted
              /\ UNCHANGED <<terminal, preserve>>

(* A choice after the finish reason is refused; usage alone is not.        *)
ProcessTerminalTrailer(c) == terminal /\ Take(c, <<>>, "fail") /\ Keep
ProcessUsage == Take([kind |-> "usage"], <<>>, "read") /\ Keep

FaultyProcessDone == Take([kind |-> "[DONE]"], <<>>, "done") /\ Keep

ProcessDone == Take([kind |-> "[DONE]"], <<>>, IF terminal THEN "done" ELSE "fail") /\ Keep

Next ==
    \/ \E c \in Chunks : ProcessChunk(c) \/ ProcessTerminalTrailer(c)
    \/ ProcessUsage \/ ProcessDone
    \/ SinkStep /\ Keep

Spec == Init /\ [][Next]_vars

-----------------------------------------------------------------------------
(* The type invariant, with the bounds of the buffers of a call.           *)
TypeOK ==
    /\ SinkTypeOK
    /\ terminal \in BOOLEAN /\ observed \in BOOLEAN /\ preserve \in BOOLEAN
    /\ \A i \in DOMAIN calls :
          /\ i \in Nat /\ calls[i].started \in BOOLEAN
          /\ Len(calls[i].id) <= MaxFragments /\ Len(calls[i].name) <= MaxFragments
          /\ Len(calls[i].pending) <= MaxPending

(* The arguments of a call reach the runner complete and in their order:   *)
(* what the wire carried for an index is what was sent under its id, what  *)
(* is about to be sent, and what is buffered until the call can start.     *)
IsChunk(e) == e.kind = "chunk"
ChunkPlaces == {n \in DOMAIN wire : IsChunk(wire[n])}
WireArguments(i) ==
    LET places(n) == LET d == Indexed(wire[n])
                         ks == SelectSeq([k \in DOMAIN d |-> k],
                                         LAMBDA k : d[k].index = i /\ d[k].args)
                     IN  [j \in DOMAIN ks |-> <<n, ks[j]>>]
    IN  FlattenSeq([n \in DOMAIN wire |-> IF IsChunk(wire[n]) THEN places(n) ELSE <<>>])
ArgumentsInOrder ==
    outcome = "running" /\ after = "read" =>
        \A i \in DOMAIN calls :
            LET mine == SelectSeq(sent \o outbox, LAMBDA e :
                            calls[i].started /\ e.kind = "args" /\ e.id = calls[i].id)
            IN  [k \in DOMAIN mine |-> mine[k].of] \o calls[i].pending = WireArguments(i)

(* Success means that the response was whole: all its text was sent in its *)
(* order, every call it mentions was completed, and a finish reason came   *)
(* before [DONE].                                                          *)
SuccessIsWhole ==
    outcome = "ok" =>
        /\ LET texts == SentOf({"text"})
           IN  [k \in DOMAIN texts |-> texts[k].of]
                 = SelectSeq([n \in DOMAIN wire |-> n],
                             LAMBDA n : n \in ChunkPlaces /\ wire[n].text)
        /\ Len(SentOf({"completed"}))
             = Cardinality(UNION {{Indexed(wire[n])[k].index : k \in DOMAIN Indexed(wire[n])}
                                  : n \in ChunkPlaces})
        /\ \E n \in ChunkPlaces : wire[n].finish # None

(* Reasoning to be replayed is never released beside a tool call, whatever *)
(* order they came in.                                                     *)
NoReasoningWithCalls ==
    ~ \E i, j \in DOMAIN sent : sent[i].kind = "opaque" /\ sent[j].kind = "started"

(* The architecture notes: a finish reason for tool calls is unsupported.  *)
ToolFinishIsUnsupported ==
    outcome = "ok" => \A n \in ChunkPlaces : wire[n].finish # "tool_calls"
=============================================================================
