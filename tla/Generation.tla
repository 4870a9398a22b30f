----------------------------- MODULE Generation -----------------------------
(***************************************************************************)
(* One generation, from its launch to its terminal event: the runner that  *)
(* consumes the provider (run_generation, crates/chat/src/generation.rs),  *)
(* the forwarder that publishes events and checkpoints the text, and the   *)
(* task that joins both and persists the end (crates/core/src/app.rs).     *)
(*                                                                         *)
(* Two bounded channels connect them: provider -> runner (queue, 64 in the *)
(* code) and runner -> forwarder (channel, 128).  The provider, the user   *)
(* and the storage are the environment: the provider may stall, go on      *)
(* sending through a retained sender or break the tool protocol, and every *)
(* storage call may fail.                                                  *)
(*                                                                         *)
(* Abstractions.  A delta is one unit of text; text is a number of units.  *)
(* The size limits and the credential guard may reject any event, so a     *)
(* rejection is a free choice; what the guard withholds of a stream is a   *)
(* free choice too.  Opaque reasoning state has no visible effect and is   *)
(* left out.                                                               *)
(*                                                                         *)
(* A definition Faulty<X> is what a plausible mistake would make of <X>.   *)
(* No specification uses it: it shows that a property notices the mistake. *)
(***************************************************************************)
EXTENDS Naturals, Sequences

CONSTANTS
    Tools,       \* tool-call identifiers a provider may use
    Inputs,      \* what a provider may send: subset of AnyInput
    MaxEvents,   \* MAX_GENERATED_PROVIDER_EVENTS
    QueueCap,    \* capacity of the provider channel
    ChannelCap   \* capacity of the event channel

Streams == {"text", "reasoning"} \cup Tools
AnyInput == [kind : {"text", "reasoning"}, id : {"none"}]
              \cup [kind : {"toolStart", "toolArgs", "toolEnd"}, id : Tools]

ASSUME GenerationAssumption ==
    /\ Inputs \subseteq AnyInput
    /\ {"text", "reasoning", "none"} \cap Tools = {}
    /\ MaxEvents \in Nat
    /\ QueueCap \in Nat \ {0}
    /\ ChannelCap \in Nat \ {0}

VARIABLES
    phase,       \* where the generation task is
    registered,  \* the id is in GenerationRegistry
    cancelled,   \* the value of the cancellation watch
    launch,      \* what the launch fixed: preserve_partial, credential guard
    queue,       \* provider events not yet received
    runner,      \* run_generation: position, result, counters, accumulated text
    withheld,    \* units each ReflectionStream holds back
    active,      \* active_tool_calls
    completed,   \* pending_tool_completions, in order
    outbox,      \* the event whose send the runner awaits, if any
    channel,     \* events sent and not yet received by the forwarder
    forwarder,   \* forward_generation_events: position, checkpoint text, dirty
    verdict,     \* what apply_generation_result decided
    row,         \* the assistant message in the store
    generation,  \* the generation's status in the store
    bus          \* every event published so far

runnerVars == <<queue, runner, withheld, active, completed, outbox>>
storeVars == <<row, generation>>
vars == <<phase, registered, cancelled, launch, queue, runner, withheld, active,
          completed, outbox, channel, forwarder, verdict, row, generation, bus>>

-----------------------------------------------------------------------------
Terminal == {"complete", "cancelled", "failed"}
TerminalKinds == {"finished", "cancelled", "failed"}

Event == [seq : Nat,
          kind : {"started", "text", "reasoning", "toolStart", "toolArgs",
                  "toolEnd", "usage", "committed"} \cup TerminalKinds,
          about : {"none"} \cup Tools \cup Terminal,
          amount : Nat]

(* An event before emit numbers it *)
Note(kind, about, amount) ==
    [seq |-> 0, kind |-> kind, about |-> about, amount |-> amount]

NewRunner == [pc |-> "start", result |-> "none", seq |-> 0, count |-> 0, text |-> 0]
NewForwarder == [pc |-> "running", seen |-> 0, dirty |-> FALSE]
NoVerdict == [status |-> "none", original |-> "none", content |-> 0, seq |-> 0,
              kind |-> "none", keep |-> FALSE]
NoRow == [status |-> "absent", content |-> 0]

Up == phase \notin {"crashed", "recovered"}
Launched == phase \notin {"launching", "refused", "crashed", "recovered"}

(* Text in a sequence of events, and the text a subscriber has been shown. *)
TextOf(e) == IF e.kind = "text" THEN e.amount ELSE 0
TextSum(events) ==
    LET sum[n \in 0..Len(events)] ==
            IF n = 0 THEN 0 ELSE sum[n - 1] + TextOf(events[n])
    IN  sum[Len(events)]
Shown == TextSum(bus)

-----------------------------------------------------------------------------
Init ==
    /\ phase = "launching"
    /\ registered = TRUE
    /\ cancelled = FALSE
    /\ launch \in [preserve : BOOLEAN, guarded : BOOLEAN]
    /\ queue = <<>>
    /\ runner = NewRunner
    /\ withheld = [s \in Streams |-> 0]
    /\ active = {}
    /\ completed = <<>>
    /\ outbox = <<>>
    /\ channel = <<>>
    /\ forwarder = NewForwarder
    /\ verdict = NoVerdict
    /\ row = NoRow
    /\ generation = "absent"
    /\ bus = <<>>

(* The append committed the rows; the permit becomes the spawned task. *)
StartTask ==
    /\ phase = "launching"
    /\ phase' = "running"
    /\ row' = [status |-> "pending", content |-> 0]
    /\ generation' = "running"
    /\ UNCHANGED <<registered, cancelled, launch, runnerVars, channel, forwarder,
                   verdict, bus>>

(* The append failed: the permit's Drop removes the registration. *)
DropPermit ==
    /\ phase = "launching"
    /\ phase' = "refused"
    /\ registered' = FALSE
    /\ UNCHANGED <<cancelled, launch, runnerVars, channel, forwarder, verdict,
                   storeVars, bus>>

(* cancel_generation, or cancel_all_and_wait at shutdown. *)
Cancel ==
    /\ registered
    /\ ~cancelled
    /\ cancelled' = TRUE
    /\ UNCHANGED <<phase, registered, launch, runnerVars, channel, forwarder,
                   verdict, storeVars, bus>>

-----------------------------------------------------------------------------
(* The runner.  Each step ends where the code awaits: with an event to     *)
(* send in outbox, or ready to look at its inputs again.                   *)
Awaits(pc) == phase = "running" /\ runner.pc = pc /\ outbox = <<>>

Stop(result) ==
    runner' = [runner EXCEPT !.pc = "done", !.result = result]

(* The frame of a step that only moves the runner. *)
RunnerOnly == UNCHANGED <<phase, registered, cancelled, launch, channel,
                          forwarder, verdict, storeVars, bus>>

RunnerStarts ==
    /\ Awaits("start")
    /\ runner' = [runner EXCEPT !.pc = "check"]
    /\ outbox' = <<Note("started", "none", 0)>>
    /\ UNCHANGED <<queue, withheld, active, completed>>
    /\ RunnerOnly

(* The credential is too large or the request is invalid. *)
RunnerRefuses ==
    /\ Awaits("start")
    /\ runner' = [runner EXCEPT !.pc = "done", !.result = "error", !.seq = 1]
    /\ UNCHANGED <<queue, withheld, active, completed, outbox>>
    /\ RunnerOnly

(* Cancelled before the provider was called: nothing to drain. *)
CheckCancelled ==
    /\ Awaits("check")
    /\ IF cancelled THEN Stop("cancelled")
                    ELSE runner' = [runner EXCEPT !.pc = "collect"]
    /\ UNCHANGED <<queue, withheld, active, completed, outbox>>
    /\ RunnerOnly

(* The three branches of select!: cancellation, an event, the result. *)
FaultyObserveCancel ==
    /\ Awaits("collect")
    /\ cancelled
    /\ queue # <<>>
    /\ runner' = [runner EXCEPT !.pc = "drain", !.result = "cancelled"]
    /\ UNCHANGED <<queue, withheld, active, completed, outbox>>
    /\ RunnerOnly
ObserveCancel ==
    /\ Awaits("collect")
    /\ cancelled
    /\ runner' = [runner EXCEPT !.pc = "drain", !.result = "cancelled"]
    /\ UNCHANGED <<queue, withheld, active, completed, outbox>>
    /\ RunnerOnly

(* The provider's future ends.  Adapters report cancellation only when     *)
(* their copy of the watch says so.                                        *)
ProviderReturns(result) ==
    /\ Awaits("collect")
    /\ result = "cancelled" => cancelled
    /\ runner' = [runner EXCEPT !.pc = "drain", !.result = result]
    /\ UNCHANGED <<queue, withheld, active, completed, outbox>>
    /\ RunnerOnly

(* A provider, or a clone of its sender, sends while there is room. *)
ProviderSends(e) ==
    /\ phase = "running"
    /\ runner.pc \in {"collect", "drain"}
    /\ Len(queue) < QueueCap
    /\ queue' = Append(queue, e)
    /\ UNCHANGED <<runner, withheld, active, completed, outbox>>
    /\ RunnerOnly

(* GenerationAccumulator::forward, in select! and in the drain after it. *)
Receive(kind) ==
    /\ Awaits("collect") \/ Awaits("drain")
    /\ queue # <<>>
    /\ Head(queue).kind = kind
    /\ queue' = Tail(queue)

(* The event count is at its limit, a size limit is crossed, the           *)
(* credential shows up, or the tool protocol is broken.                    *)
RejectEvent ==
    /\ Awaits("collect") \/ Awaits("drain")
    /\ queue # <<>>
    /\ queue' = Tail(queue)
    /\ runner' = [runner EXCEPT !.pc = "done", !.result = "error",
                                !.count = runner.count + 1]
    /\ UNCHANGED <<withheld, active, completed, outbox>>
    /\ RunnerOnly

Counted(r) == [r EXCEPT !.count = r.count + 1]
WithinLimit == runner.count < MaxEvents

(* ReflectionStream::push of one unit: what may be kept back. *)
Kept(s) == IF launch.guarded THEN 0..(withheld[s] + 1) ELSE {0}
Released(s, kept) == withheld[s] + 1 - kept
Release(kind, s, kept) ==
    IF Released(s, kept) = 0 THEN <<>>
    ELSE <<Note(kind, IF s \in Tools THEN s ELSE "none", Released(s, kept))>>

AcceptText(kept) ==
    /\ Receive("text")
    /\ WithinLimit
    /\ kept \in Kept("text")
    /\ withheld' = [withheld EXCEPT !["text"] = kept]
    /\ outbox' = Release("text", "text", kept)
    /\ runner' = [Counted(runner) EXCEPT !.text = @ + Released("text", kept)]
    /\ UNCHANGED <<active, completed>>
    /\ RunnerOnly

AcceptReasoning(kept) ==
    /\ Receive("reasoning")
    /\ WithinLimit
    /\ kept \in Kept("reasoning")
    /\ withheld' = [withheld EXCEPT !["reasoning"] = kept]
    /\ outbox' = Release("reasoning", "reasoning", kept)
    /\ runner' = Counted(runner)
    /\ UNCHANGED <<active, completed>>
    /\ RunnerOnly

IsCompleted(id) == \E i \in 1..Len(completed) : completed[i] = id

AcceptToolStart(id) ==
    /\ Receive("toolStart")
    /\ WithinLimit
    /\ Head(queue).id = id
    /\ id \notin active
    /\ ~IsCompleted(id)
    /\ active' = active \cup {id}
    /\ withheld' = [withheld EXCEPT ![id] = 0]
    /\ outbox' = <<Note("toolStart", id, 0)>>
    /\ runner' = Counted(runner)
    /\ UNCHANGED completed
    /\ RunnerOnly

AcceptToolArguments(id, kept) ==
    /\ Receive("toolArgs")
    /\ WithinLimit
    /\ Head(queue).id = id
    /\ id \in active
    /\ kept \in Kept(id)
    /\ withheld' = [withheld EXCEPT ![id] = kept]
    /\ outbox' = Release("toolArgs", id, kept)
    /\ runner' = Counted(runner)
    /\ UNCHANGED <<active, completed>>
    /\ RunnerOnly

AcceptToolEnd(id) ==
    /\ Receive("toolEnd")
    /\ WithinLimit
    /\ Head(queue).id = id
    /\ id \in active
    /\ active' = active \ {id}
    /\ completed' = Append(completed, id)
    /\ runner' = Counted(runner)
    /\ UNCHANGED <<withheld, outbox>>
    /\ RunnerOnly

(* The queue is empty: ensure_protocol_complete and validate_usage decide  *)
(* whether a result is a success.                                          *)
DrainEnds ==
    /\ Awaits("drain")
    /\ queue = <<>>
    /\ \/ runner.result # "ok" /\ Stop(runner.result)
       \/ runner.result = "ok" /\ active # {} /\ Stop("error")
       \/ runner.result = "ok" /\ launch.guarded /\ Stop("error")
       \/ /\ runner.result = "ok"
          /\ active = {}
          /\ runner' = [runner EXCEPT !.pc = "flush"]
    /\ UNCHANGED <<queue, withheld, active, completed, outbox>>
    /\ RunnerOnly

(* finish_public_streams, one event at a time, then the usage. *)
FlushStream(s) ==
    /\ withheld[s] > 0
    /\ outbox' = <<Note(s, "none", withheld[s])>>
    /\ withheld' = [withheld EXCEPT ![s] = 0]
    /\ UNCHANGED <<runner, completed>>
FlushTool ==
    /\ completed # <<>>
    /\ LET id == Head(completed) IN
         IF withheld[id] > 0
         THEN /\ outbox' = <<Note("toolArgs", id, withheld[id])>>
              /\ withheld' = [withheld EXCEPT ![id] = 0]
              /\ UNCHANGED completed
         ELSE /\ outbox' = <<Note("toolEnd", id, 0)>>
              /\ completed' = Tail(completed)
              /\ UNCHANGED withheld
    /\ UNCHANGED runner
FlushUsage ==
    /\ completed = <<>>
    /\ outbox' = <<Note("usage", "none", 0)>>
    /\ runner' = [runner EXCEPT !.pc = "last"]
    /\ UNCHANGED <<withheld, completed>>

Flush ==
    /\ Awaits("flush")
    /\ \/ FlushStream("text")
       \/ withheld["text"] = 0 /\ FlushStream("reasoning")
       \/ /\ withheld["text"] = 0 /\ withheld["reasoning"] = 0
          /\ FlushTool \/ FlushUsage
    /\ UNCHANGED <<queue, active>>
    /\ RunnerOnly

RunnerSucceeds ==
    /\ Awaits("last")
    /\ Stop("ok")
    /\ UNCHANGED <<queue, withheld, active, completed, outbox>>
    /\ RunnerOnly

(* emit and send_event: the next sequence number, then room in the channel *)
(* or a receiver that is gone.  Flushed text counts once it is sent.       *)
Emit ==
    /\ phase = "running"
    /\ outbox # <<>>
    /\ Len(channel) < ChannelCap
    /\ forwarder.pc = "running"
    /\ LET e == Head(outbox) IN
         /\ channel' = Append(channel, [e EXCEPT !.seq = runner.seq + 1])
         /\ runner' = [runner EXCEPT !.seq = @ + 1,
                          !.text = IF runner.pc = "flush" /\ e.kind = "text"
                                   THEN @ + e.amount ELSE @]
    /\ outbox' = <<>>
    /\ UNCHANGED <<phase, registered, cancelled, launch, queue, withheld, active,
                   completed, forwarder, verdict, storeVars, bus>>

EmitFails ==
    /\ phase = "running"
    /\ outbox # <<>>
    /\ forwarder.pc # "running"
    /\ runner' = [runner EXCEPT !.pc = "done", !.result = "error", !.seq = @ + 1]
    /\ outbox' = <<>>
    /\ UNCHANGED <<queue, withheld, active, completed>>
    /\ RunnerOnly

-----------------------------------------------------------------------------
(* The forwarder.  checkpoint_pending_assistant succeeds only on a row     *)
(* that is still pending; an error ends the forwarder and drops its end of *)
(* the channel.                                                            *)
CheckpointStored(seen) ==
    /\ row.status = "pending"
    /\ row' = [row EXCEPT !.content = seen]
    /\ UNCHANGED generation

(* One event is published; when enough text has come the checkpoint        *)
(* follows in the same step.                                               *)
Seen(e) == IF launch.preserve /\ e.kind = "text" THEN forwarder.seen + e.amount
                                                 ELSE forwarder.seen
Dirty(e) == forwarder.dirty \/ (launch.preserve /\ e.kind = "text")

ForwardEvent(due, stored) ==
    /\ Launched
    /\ forwarder.pc = "running"
    /\ channel # <<>>
    /\ LET e == Head(channel) IN
         /\ bus' = Append(bus, e)
         /\ due => Dirty(e)
         /\ \/ /\ ~due
               /\ forwarder' = [forwarder EXCEPT !.seen = Seen(e), !.dirty = Dirty(e)]
               /\ channel' = Tail(channel)
               /\ UNCHANGED storeVars
            \/ /\ due /\ stored
               /\ CheckpointStored(Seen(e))
               /\ forwarder' = [forwarder EXCEPT !.seen = Seen(e), !.dirty = FALSE]
               /\ channel' = Tail(channel)
            \/ /\ due /\ ~stored
               /\ forwarder' = [forwarder EXCEPT !.pc = "failed", !.seen = Seen(e)]
               /\ channel' = <<>>
               /\ UNCHANGED storeVars
    /\ UNCHANGED <<phase, registered, cancelled, launch, runnerVars, verdict>>

(* The 500 ms tick, with text to store. *)
CheckpointTick(stored) ==
    /\ Launched
    /\ forwarder.pc = "running"
    /\ forwarder.dirty
    /\ \/ /\ stored
          /\ CheckpointStored(forwarder.seen)
          /\ forwarder' = [forwarder EXCEPT !.dirty = FALSE]
          /\ UNCHANGED channel
       \/ /\ ~stored
          /\ forwarder' = [forwarder EXCEPT !.pc = "failed"]
          /\ channel' = <<>>
          /\ UNCHANGED storeVars
    /\ UNCHANGED <<phase, registered, cancelled, launch, runnerVars, verdict, bus>>

(* The runner has dropped its sender and everything it sent was received. *)
ForwarderEnds(stored) ==
    /\ Launched
    /\ forwarder.pc = "running"
    /\ runner.pc = "done"
    /\ channel = <<>>
    /\ \/ /\ ~forwarder.dirty
          /\ forwarder' = [forwarder EXCEPT !.pc = "ok"]
          /\ UNCHANGED storeVars
       \/ /\ forwarder.dirty /\ stored
          /\ CheckpointStored(forwarder.seen)
          /\ forwarder' = [forwarder EXCEPT !.pc = "ok"]
       \/ /\ forwarder.dirty /\ ~stored
          /\ forwarder' = [forwarder EXCEPT !.pc = "failed"]
          /\ UNCHANGED storeVars
    /\ UNCHANGED <<phase, registered, cancelled, launch, runnerVars, channel,
                   verdict, bus>>

-----------------------------------------------------------------------------
(* The task: join, decide, persist, publish, deregister. *)
Joined == runner.pc = "done" /\ forwarder.pc # "running"

(* merge_generation_and_forwarding_results and apply_generation_result *)
FaultyMergedStatus ==
    CASE runner.result = "ok" -> "complete"
      [] runner.result = "cancelled" -> "cancelled"
      [] OTHER -> "failed"
MergedStatus ==
    IF forwarder.pc = "failed" THEN "failed"
    ELSE CASE runner.result = "ok" -> "complete"
           [] runner.result = "cancelled" -> "cancelled"
           [] OTHER -> "failed"

TerminalKind(status) == IF status = "complete" THEN "finished" ELSE status

FaultyApplyResult ==
    /\ phase = "running"
    /\ Joined
    /\ phase' = "finalize"
    /\ verdict' = [status |-> MergedStatus, original |-> MergedStatus,
                   content |-> runner.text, seq |-> runner.seq,
                   kind |-> TerminalKind(MergedStatus),
                   keep |-> \/ MergedStatus = "complete"
                            \/ launch.preserve /\ runner.text > 0]
    /\ UNCHANGED <<registered, cancelled, launch, runnerVars, channel, forwarder,
                   storeVars, bus>>
ApplyResult ==
    /\ phase = "running"
    /\ Joined
    /\ phase' = "finalize"
    /\ verdict' = [status |-> MergedStatus, original |-> MergedStatus,
                   content |-> runner.text, seq |-> runner.seq + 1,
                   kind |-> TerminalKind(MergedStatus),
                   keep |-> \/ MergedStatus = "complete"
                            \/ launch.preserve /\ runner.text > 0]
    /\ UNCHANGED <<registered, cancelled, launch, runnerVars, channel, forwarder,
                   storeVars, bus>>

(* The rows a terminal transaction writes. *)
Persist(status) ==
    /\ row' = IF verdict.keep THEN [status |-> status, content |-> verdict.content]
                              ELSE NoRow
    /\ generation' = status

AfterPersist == IF verdict.keep THEN "commit" ELSE "announce"

(* A storage call is applied and reported, applied but reported as failed, *)
(* or neither.                                                             *)
Outcomes == {"done", "unreported", "lost"}

FinalizeGeneration(how) ==
    /\ phase = "finalize"
    /\ IF how = "lost" THEN UNCHANGED storeVars ELSE Persist(verdict.status)
    /\ phase' = IF how = "done" THEN AfterPersist ELSE "compensate"
    /\ UNCHANGED <<registered, cancelled, launch, runnerVars, channel, forwarder,
                   verdict, bus>>

(* fail_generation_after_finalize_error refuses a generation that is no    *)
(* longer running.                                                         *)
CompensateGeneration(how) ==
    /\ phase = "compensate"
    /\ how = "done" => generation = "running"
    /\ IF generation = "running" /\ how # "lost" THEN Persist("failed")
                                                ELSE UNCHANGED storeVars
    /\ verdict' = [verdict EXCEPT !.status = "failed",
                      !.kind = IF how = "done" THEN "failed" ELSE @]
    /\ phase' = IF how = "done" THEN AfterPersist ELSE "verify"
    /\ UNCHANGED <<registered, cancelled, launch, runnerVars, channel, forwarder, bus>>

(* get_generation tells whether the first transaction took effect. *)
FaultyVerifyGeneration(readable) ==
    /\ phase = "verify"
    /\ verdict' = [verdict EXCEPT !.status = verdict.original]
    /\ phase' = AfterPersist
    /\ UNCHANGED <<registered, cancelled, launch, runnerVars, channel, forwarder,
                   storeVars, bus>>
VerifyGeneration(readable) ==
    /\ phase = "verify"
    /\ IF readable /\ generation = verdict.original
       THEN /\ verdict' = [verdict EXCEPT !.status = verdict.original]
            /\ phase' = AfterPersist
       ELSE /\ verdict' = [verdict EXCEPT !.kind = "failed"]
            /\ phase' = "announce"
    /\ UNCHANGED <<registered, cancelled, launch, runnerVars, channel, forwarder,
                   storeVars, bus>>

PublishCommitted ==
    /\ phase = "commit"
    /\ bus' = Append(bus, [Note("committed", verdict.status, 0) EXCEPT !.seq = verdict.seq])
    /\ verdict' = [verdict EXCEPT !.seq = @ + 1]
    /\ phase' = "announce"
    /\ UNCHANGED <<registered, cancelled, launch, runnerVars, channel, forwarder, storeVars>>

PublishTerminal ==
    /\ phase = "announce"
    /\ bus' = Append(bus, [Note(verdict.kind, "none", 0) EXCEPT !.seq = verdict.seq])
    /\ phase' = "retire"
    /\ UNCHANGED <<registered, cancelled, launch, runnerVars, channel, forwarder,
                   verdict, storeVars>>

(* The guard of the registry entry is dropped last. *)
DropGuard ==
    /\ phase = "retire"
    /\ registered' = FALSE
    /\ phase' = "over"
    /\ UNCHANGED <<cancelled, launch, runnerVars, channel, forwarder, verdict,
                   storeVars, bus>>

-----------------------------------------------------------------------------
(* The process ends, or the runtime's shutdown timeout aborts its tasks.   *)
(* Only the store is left, and the record of what was published.           *)
Crash ==
    /\ phase \notin {"refused", "over", "crashed", "recovered"}
    /\ phase' = "crashed"
    /\ registered' = FALSE
    /\ queue' = <<>>
    /\ runner' = NewRunner
    /\ withheld' = [s \in Streams |-> 0]
    /\ active' = {}
    /\ completed' = <<>>
    /\ outbox' = <<>>
    /\ channel' = <<>>
    /\ forwarder' = NewForwarder
    /\ verdict' = NoVerdict
    /\ UNCHANGED <<cancelled, launch, storeVars, bus>>

(* Recovery goes by the preserve setting at the restart. *)
Recover(preserve) ==
    /\ phase = "crashed"
    /\ phase' = "recovered"
    /\ row' = IF row.status # "pending" THEN row
              ELSE IF preserve THEN [row EXCEPT !.status = "cancelled"] ELSE NoRow
    /\ generation' = IF generation = "running" THEN "cancelled" ELSE generation
    /\ UNCHANGED <<registered, cancelled, launch, runnerVars, channel, forwarder,
                   verdict, bus>>

-----------------------------------------------------------------------------
AcceptEvent ==
    \/ \E kept \in Kept("text") : AcceptText(kept)
    \/ \E kept \in Kept("reasoning") : AcceptReasoning(kept)
    \/ \E id \in Tools : AcceptToolStart(id)
    \/ \E id \in Tools : \E kept \in Kept(id) : AcceptToolArguments(id, kept)
    \/ \E id \in Tools : AcceptToolEnd(id)

RunnerStep ==
    \/ RunnerStarts
    \/ RunnerRefuses
    \/ CheckCancelled
    \/ ObserveCancel
    \/ AcceptEvent
    \/ RejectEvent
    \/ DrainEnds
    \/ Flush
    \/ RunnerSucceeds
    \/ Emit
    \/ EmitFails

ForwarderStep ==
    \/ \E due, stored \in BOOLEAN : ForwardEvent(due, stored)
    \/ \E stored \in BOOLEAN : CheckpointTick(stored)
    \/ \E stored \in BOOLEAN : ForwarderEnds(stored)

TaskStep ==
    \/ StartTask
    \/ DropPermit
    \/ ApplyResult
    \/ \E how \in Outcomes : FinalizeGeneration(how)
    \/ \E how \in Outcomes : CompensateGeneration(how)
    \/ \E readable \in BOOLEAN : VerifyGeneration(readable)
    \/ PublishCommitted
    \/ PublishTerminal
    \/ DropGuard

Environment ==
    \/ Cancel
    \/ \E e \in Inputs : ProviderSends(e)
    \/ \E result \in {"ok", "error", "cancelled"} : ProviderReturns(result)

Next ==
    \/ RunnerStep
    \/ ForwarderStep
    \/ TaskStep
    \/ Environment
    \/ Crash
    \/ \E preserve \in BOOLEAN : Recover(preserve)

Spec == Init /\ [][Next]_vars

(* The tokio runtime polls a task that can go on; nothing makes a provider *)
(* send or return, a user cancel, or a process crash or restart.           *)
FairSpec ==
    /\ Spec
    /\ WF_vars(RunnerStep)
    /\ WF_vars(ForwarderStep)
    /\ WF_vars(TaskStep)
-----------------------------------------------------------------------------
(* The shape of the records. *)
Phase == {"launching", "refused", "running", "finalize", "compensate", "verify",
          "commit", "announce", "retire", "over", "crashed", "recovered"}
Launch == [preserve : BOOLEAN, guarded : BOOLEAN]
Runner == [pc : {"start", "check", "collect", "drain", "flush", "last", "done"},
           result : {"none", "ok", "error", "cancelled"},
           seq : Nat, count : 0..(MaxEvents + 1), text : Nat]
Forwarder == [pc : {"running", "ok", "failed"}, seen : Nat, dirty : BOOLEAN]
Verdict == [status : {"none"} \cup Terminal, original : {"none"} \cup Terminal,
            content : Nat, seq : Nat, kind : {"none"} \cup TerminalKinds,
            keep : BOOLEAN]
Row == [status : {"absent", "pending"} \cup Terminal, content : Nat]

(* Every variable keeps its shape, and the two channels their capacity. *)
TypeOK ==
    /\ phase \in Phase
    /\ registered \in BOOLEAN
    /\ cancelled \in BOOLEAN
    /\ launch \in Launch
    /\ queue \in Seq(AnyInput) /\ Len(queue) <= QueueCap
    /\ runner \in Runner
    /\ withheld \in [Streams -> Nat]
    /\ active \subseteq Tools
    /\ completed \in Seq(Tools)
    /\ outbox \in Seq(Event) /\ Len(outbox) <= 1
    /\ channel \in Seq(Event) /\ Len(channel) <= ChannelCap
    /\ forwarder \in Forwarder
    /\ verdict \in Verdict
    /\ row \in Row
    /\ generation \in {"absent", "running"} \cup Terminal
    /\ bus \in Seq(Event)

(* Subscribers see strictly increasing sequence numbers, with gaps only    *)
(* where a failed forwarder lost events, and nothing follows the terminal  *)
(* event: three writers (runner, forwarder, task) share one numbering.     *)
EventsInOrder ==
    \A j \in 1..Len(bus) : \A i \in 1..(j - 1) :
        /\ bus[i].seq < bus[j].seq
        /\ bus[i].kind \notin TerminalKinds

(* What has been announced is durable, through any storage failure, lost   *)
(* report or crash: MessageCommitted names the status both records have,   *)
(* and finished and cancelled mean what the generation's record says.      *)
AnnouncedIsDurable ==
    \A i \in 1..Len(bus) :
        /\ bus[i].kind = "committed" =>
              row.status = bus[i].about /\ generation = bus[i].about
        /\ bus[i].kind = "finished" =>
              row.status = "complete" /\ generation = "complete"
        /\ bus[i].kind = "cancelled" => generation = "cancelled"

(* The stored text against the text that was shown: a checkpoint is behind *)
(* it, a complete answer is exactly it (nothing withheld by the credential *)
(* guard is lost or stored twice), and a kept partial answer has at least  *)
(* all of it.                                                              *)
ShownIsStored ==
    /\ row.status = "pending" => row.content <= Shown
    /\ row.status = "complete" => row.content = Shown
    /\ row.status \in Terminal /\ phase # "recovered" => row.content >= Shown

(* Tool calls reach subscribers as a well-formed protocol whatever the     *)
(* provider sent: one start per call, arguments and one end only after it, *)
(* no arguments after the end, and no finished generation with an open     *)
(* call.                                                                   *)
ToolCallsPaired ==
    LET At(kind, id, i) == bus[i].kind = kind /\ bus[i].about = id
        Events == 1..Len(bus)
    IN  \A id \in Tools :
          /\ \A i, j \in Events :
                /\ At("toolStart", id, i) /\ At("toolStart", id, j) => i = j
                /\ At("toolEnd", id, i) /\ At("toolEnd", id, j) => i = j
                /\ At("toolEnd", id, i) /\ At("toolArgs", id, j) => j < i
          /\ \A j \in Events :
                At("toolArgs", id, j) \/ At("toolEnd", id, j) =>
                   \E i \in 1..(j - 1) : At("toolStart", id, i)
          /\ (\E i \in Events : bus[i].kind = "finished")
                /\ (\E i \in Events : At("toolStart", id, i))
                => \E i \in Events : At("toolEnd", id, i)

(* A forwarder that can still publish or checkpoint works on a row that is *)
(* still pending: its checkpoint never meets a finished row and no delta   *)
(* comes after the outcome was decided.                                    *)
ForwarderEndsFirst ==
    Launched /\ forwarder.pc = "running" => row.status = "pending" /\ phase = "running"

(* A generation that left the registry left nothing behind: shutdown waits *)
(* on the registry, so whatever it no longer lists has announced its end,  *)
(* and a row it leaves pending was announced as failed.                    *)
RetiredIsSettled ==
    ~registered /\ Up =>
        /\ generation # "absent" =>
              bus # <<>> /\ bus[Len(bus)].kind \in TerminalKinds
        /\ row.status = "pending" => bus[Len(bus)].kind = "failed"

(* What a subscriber sees is one protocol: ordered events, well-formed     *)
(* tool calls, one end, and no writer left behind the end.                 *)
EventsAreOneProtocol ==
    /\ TypeOK
    /\ EventsInOrder
    /\ ToolCallsPaired
    /\ ForwarderEndsFirst

(* What a subscriber was told or shown is what the store holds, also after *)
(* a storage failure, a crash and the recovery.                            *)
ToldIsStored ==
    /\ AnnouncedIsDurable
    /\ ShownIsStored
    /\ RetiredIsSettled

(* A cancelled generation leaves the registry, even when the provider      *)
(* ignores the cancellation, stalls, floods its channel or the forwarder   *)
(* has died.                                                               *)
CancelEnds == cancelled ~> ~registered

(* So does one whose provider has returned, with no cancellation. *)
ReturnEnds == (runner.pc = "drain") ~> ~registered

(* A generation that was cancelled or whose provider returned ends. *)
GenerationEnds == CancelEnds /\ ReturnEnds

(* The generation keeps its contract. *)
Announced ==
    IF bus # <<>> /\ bus[Len(bus)].kind \in TerminalKinds
    THEN bus[Len(bus)].kind ELSE "none"
Contract == INSTANCE GenerationContract
    WITH shown <- Shown, row <- row, outcome <- generation,
         announced <- Announced, alive <- Up
KeepsContract == Contract!Spec
=============================================================================
