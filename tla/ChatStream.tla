----------------------------- MODULE ChatStream -----------------------------
(***************************************************************************)
(* How the events of generations reach the screen of the Tauri shell:      *)
(* Core's lossy broadcast, the filter of one generation                    *)
(* (crates/shell-api/src/stream.rs), the bounded registry and forwarding   *)
(* task (src-tauri/src/state.rs, channels.rs), and the renderer's          *)
(* verifier, stream epoch and reconciliation (chat-stream.ts,              *)
(* app-controller.ts).                                                     *)
(*                                                                         *)
(* The renderer is one thread: what it does between two awaits is one      *)
(* action.  Start n of the renderer asks for stream n, which carries       *)
(* generation n.                                                           *)
(*                                                                         *)
(* Abstractions.  A text delta is named by its generation and sequence     *)
(* number.  Core stamps every event with the version, room, branch and     *)
(* answer of its generation, so the checks of those fields never fail and  *)
(* are left out.  Reasoning, tool and usage events go the way of text.     *)
(* Items that arrive before a start has returned stay in the channel: the  *)
(* renderer's buffer.                                                      *)
(*                                                                         *)
(* Three commands of the renderer write the screen when they are answered, *)
(* whatever has happened since: a mode that is set, a message that is      *)
(* removed and a branch that is created.  They are the errands.            *)
(*                                                                         *)
(* A definition Faulty<X> is what a plausible mistake would make of <X>.   *)
(* No specification uses it: it shows that a property notices the mistake. *)
(***************************************************************************)
EXTENDS Naturals, Sequences, FiniteSets

CONSTANTS
    Rooms,         \* conversations
    Branches,      \* branches, those to come included
    RoomOf,        \* the room of each branch
    FirstBranches, \* branches that exist to begin with
    MaxStreams,    \* bound on generations started
    MaxEvents,     \* bound on deltas of one generation
    MaxMoves,      \* bound on rooms opened and branches selected
    MaxErrands,    \* bound on modes set, messages removed and branches created
    Ring,          \* capacity of the broadcast (256)
    Capacity       \* receivers the registry admits (32)

ASSUME StreamAssumption ==
    /\ RoomOf \in [Branches -> Rooms]
    /\ "none" \notin Rooms
    /\ FirstBranches \subseteq Branches
    /\ \A r \in Rooms : \E b \in FirstBranches : RoomOf[b] = r
    /\ MaxStreams \in Nat
    /\ MaxEvents \in Nat
    /\ MaxMoves \in Nat
    /\ MaxErrands \in Nat
    /\ Ring \in Nat \ {0}
    /\ Capacity \in Nat \ {0}

VARIABLES
    bus,        \* every event Core has broadcast
    rows,       \* the answer of each generation in the store
    made,       \* the branches that exist
    selected,   \* the selected branch of each room in the store
    streams,    \* the backend's side of each stream
    channel,    \* items on the way to the renderer
    starts,     \* the renderer's command of each stream, its room and branch
    disposals,  \* disposeChatStream commands on their way
    choices,    \* selectBranch commands on their way
    current,    \* the stream of the present stream epoch, or 0
    active,     \* activeStreamId, or 0
    verifier,   \* ChatStreamVerifier of the present epoch
    chat,       \* what the chat pane says
    painted,    \* streaming_text
    pending,    \* pendingTextDelta
    room,       \* selected_conversation
    view,       \* conversation_state.active_branch_id, or none
    shown,      \* the branch whose messages are listed, or none
    load,       \* the selection being loaded
    moves,      \* selections made so far
    errands,    \* the commands that answer to no epoch
    stray,      \* the room of the errand that wrote view or shown last, or none
    recons      \* the reconciliation of each stream

coreVars == <<bus, rows, made, selected>>
backVars == <<streams, channel>>
callVars == <<starts, disposals, choices>>
epochVars == <<current, active, verifier, chat>>
textVars == <<painted, pending>>
viewVars == <<room, view, shown, load, moves, errands, stray>>
vars == <<coreVars, backVars, callVars, epochVars, textVars, viewVars, recons>>

Stream == 1..MaxStreams
Errand == 1..MaxErrands
None == 0
NoBranch == "none"

Delta(g, n) == [kind |-> "delta", gen |-> g, seq |-> n]
Terminal(g, n) == [kind |-> "terminal", gen |-> g, seq |-> n]
Reconcile == [kind |-> "reconcile", gen |-> 0, seq |-> 0]
Events == [kind : {"delta", "terminal"}, gen : Stream, seq : 1..(MaxEvents + 1)]

NoStream == [pc |-> "none", position |-> 0, last |-> 0, dispose |-> FALSE]
Gone == [NoStream EXCEPT !.pc = "gone"]
NoStart == [pc |-> "none", fork |-> FALSE, room |-> NoBranch, branch |-> NoBranch]
NoVerifier == [on |-> FALSE, last |-> 0]
NoLoad == [pc |-> "none", branch |-> NoBranch]
NoChat == [phase |-> "idle", gen |-> None]
NoErrand == [pc |-> "none", kind |-> "none", room |-> NoBranch, branch |-> NoBranch]
Done == [NoErrand EXCEPT !.pc = "over"]
NoStray == [view |-> NoBranch, shown |-> NoBranch]
NoRecon == [pc |-> "none", room |-> NoBranch, branch |-> NoBranch, running |-> FALSE]

Sent(g) == Cardinality({i \in 1..Len(bus) : bus[i].gen = g})
BranchOf(g) == starts[g].branch
Running(g, b) == rows[g] = "pending" /\ BranchOf(g) = b

Init ==
    /\ bus = <<>>
    /\ rows = [g \in Stream |-> "none"]
    /\ made = FirstBranches
    /\ selected \in {f \in [Rooms -> FirstBranches] : \A r \in Rooms : RoomOf[f[r]] = r}
    /\ streams = [s \in Stream |-> NoStream]
    /\ channel = [s \in Stream |-> <<>>]
    /\ starts = [s \in Stream |-> NoStart]
    /\ disposals = {}
    /\ choices = {}
    /\ current = None
    /\ active = None
    /\ verifier = NoVerifier
    /\ chat = NoChat
    /\ painted = <<>>
    /\ pending = <<>>
    /\ room \in Rooms
    /\ view = selected[room]
    /\ shown = view
    /\ load = NoLoad
    /\ moves = 0
    /\ errands = [e \in Errand |-> NoErrand]
    /\ stray = NoStray
    /\ recons = [s \in Stream |-> NoRecon]

-----------------------------------------------------------------------------
(* Core: a running generation broadcasts deltas; its row is settled before *)
(* its terminal event is sent.                                             *)
Publish(g) ==
    /\ rows[g] = "pending"
    /\ Sent(g) < MaxEvents
    /\ bus' = Append(bus, Delta(g, Sent(g) + 1))
    /\ UNCHANGED <<rows, made, selected, backVars, callVars, epochVars, textVars, viewVars,
                   recons>>

Settle(g) ==
    /\ rows[g] = "pending"
    /\ rows' = [rows EXCEPT ![g] = "settled"]
    /\ UNCHANGED <<bus, made, selected, backVars, callVars, epochVars, textVars, viewVars,
                   recons>>

PublishTerminal(g) ==
    /\ rows[g] = "settled"
    /\ \A i \in 1..Len(bus) : bus[i] # Terminal(g, bus[i].seq)
    /\ bus' = Append(bus, Terminal(g, Sent(g) + 1))
    /\ UNCHANGED <<rows, made, selected, backVars, callVars, epochVars, textVars, viewVars,
                   recons>>

(* The selectBranch command. *)
StoreSelects(b) ==
    /\ b \in choices
    /\ choices' = choices \ {b}
    /\ selected' = [selected EXCEPT ![RoomOf[b]] = b]
    /\ UNCHANGED <<bus, rows, made, backVars, starts, disposals, epochVars, textVars,
                   viewVars, recons>>

-----------------------------------------------------------------------------
(* The backend's commands send_message, edit_user_message and              *)
(* regenerate_assistant_message: register the receiver, fetch the          *)
(* credential, subscribe, start the generation, spawn the forwarder.       *)
Slots == {s \in Stream : streams[s].pc \in {"registered", "forwarding"}}

Register(s) ==
    /\ starts[s].pc = "asked"
    /\ streams[s].pc = "none"
    /\ Cardinality(Slots) < Capacity
    /\ streams' = [streams EXCEPT ![s].pc = "registered"]
    /\ UNCHANGED <<coreVars, channel, callVars, epochVars, textVars, viewVars, recons>>

(* The registry is full, the credential is missing or Core refuses.  The   *)
(* dropped registration gives the slot back.                               *)
StartFails(s) ==
    /\ starts[s].pc = "asked"
    /\ \/ streams[s].pc = "none" /\ Cardinality(Slots) >= Capacity
       \/ streams[s].pc = "registered"
    /\ starts' = [starts EXCEPT ![s].pc = "failed"]
    /\ streams' = [streams EXCEPT ![s] = Gone]
    /\ UNCHANGED <<coreVars, channel, disposals, choices, epochVars, textVars, viewVars,
                   recons>>

(* The branch must be one of the room and free.  An edit or regeneration   *)
(* answers on a branch of its own, which takes the place of the selected   *)
(* one.                                                                    *)
StartGeneration(s) ==
    /\ starts[s].pc = "asked"
    /\ streams[s].pc = "registered"
    /\ RoomOf[starts[s].branch] = starts[s].room
    /\ \A g \in Stream : ~Running(g, starts[s].branch)
    /\ rows' = [rows EXCEPT ![s] = "pending"]
    /\ streams' = [streams EXCEPT ![s].pc = "forwarding", ![s].position = Len(bus)]
    /\ \/ /\ ~starts[s].fork
          /\ starts' = [starts EXCEPT ![s].pc = "started"]
          /\ UNCHANGED <<made, selected>>
       \/ /\ starts[s].fork
          /\ selected[starts[s].room] = starts[s].branch
          /\ \E b \in Branches \ made :
                /\ RoomOf[b] = starts[s].room
                /\ starts' = [starts EXCEPT ![s].pc = "started", ![s].branch = b]
                /\ made' = made \cup {b}
                /\ selected' = [selected EXCEPT ![starts[s].room] = b]
    /\ UNCHANGED <<bus, channel, disposals, choices, epochVars, textVars, viewVars,
                   recons>>

(* ChatStreamRegistry::dispose; a receiver that is not registered (yet) is *)
(* left alone.                                                             *)
Disposed(s) == [streams EXCEPT ![s].dispose = @ \/ s \in Slots]

DisposeChatStream(s) ==
    /\ s \in disposals
    /\ disposals' = disposals \ {s}
    /\ streams' = Disposed(s)
    /\ UNCHANGED <<coreVars, channel, starts, choices, epochVars, textVars, viewVars, recons>>

(* One turn of forward_chat_stream: the disposal is polled first. *)
Forwarding(s) == streams[s].pc = "forwarding" /\ ~streams[s].dispose

StopForwarding(s) ==
    /\ streams[s].pc = "forwarding"
    /\ streams[s].dispose
    /\ streams' = [streams EXCEPT ![s] = Gone]
    /\ UNCHANGED <<coreVars, channel, callVars, epochVars, textVars, viewVars, recons>>

Lagged(s) == Len(bus) - streams[s].position > Ring

(* ChatEventStream::recv: other generations are skipped, a lag or a        *)
(* sequence problem becomes a request to reconcile and ends the stream, a  *)
(* terminal event ends it too.                                             *)
FaultyRecv(s) ==
    LET event == bus[streams[s].position + 1]
    IN  /\ Forwarding(s)
        /\ streams[s].position < Len(bus)
        /\ IF Lagged(s) \/ event.gen # s
           THEN /\ streams' = [streams EXCEPT ![s].position =
                     IF Lagged(s) THEN Len(bus) - Ring ELSE @ + 1]
                /\ UNCHANGED channel
           ELSE /\ streams' = [streams EXCEPT ![s].position = @ + 1,
                     ![s].last = event.seq,
                     ![s].pc = IF event.kind = "terminal" THEN "gone" ELSE @]
                /\ channel' = [channel EXCEPT ![s] = Append(@, event)]
        /\ UNCHANGED <<coreVars, callVars, epochVars, textVars, viewVars, recons>>
Recv(s) ==
    LET next == streams[s].position + 1
        event == bus[next]
        broken == Lagged(s) \/ (event.gen = s /\ event.seq # streams[s].last + 1)
        advanced == [streams[s] EXCEPT !.position = next, !.last = event.seq]
    IN  /\ Forwarding(s)
        /\ streams[s].position < Len(bus)
        /\ \/ /\ broken
              /\ streams' = [streams EXCEPT ![s] = Gone]
              /\ channel' = [channel EXCEPT ![s] = Append(@, Reconcile)]
           \/ /\ ~broken
              /\ event.gen # s
              /\ streams' = [streams EXCEPT ![s].position = next]
              /\ UNCHANGED channel
           \/ /\ ~broken
              /\ event.gen = s
              /\ streams' = [streams EXCEPT ![s] =
                     IF event.kind = "terminal" THEN Gone ELSE advanced]
              /\ channel' = [channel EXCEPT ![s] = Append(@, event)]
        /\ UNCHANGED <<coreVars, callVars, epochVars, textVars, viewVars, recons>>

-----------------------------------------------------------------------------
(* The renderer.  detachStream begins a new stream epoch.                  *)
(* (A disposal of a receiver that is gone does nothing: it is not kept.)   *)
WithDisposal(s) == disposals \cup ({s} \ {t \in Stream : streams[t].pc = "gone"})
DetachedDisposals == IF active # None THEN WithDisposal(active) ELSE disposals

Detached ==
    /\ disposals' = DetachedDisposals
    /\ current' = None
    /\ active' = None
    /\ verifier' = NoVerifier
    /\ chat' = NoChat
    /\ painted' = <<>>
    /\ pending' = <<>>

(* sendMessage, or the start of an edit or regeneration (fork), in a room  *)
(* whose state is loaded and that has no generation.                       *)
StartStream(s, fork) ==
    /\ chat.gen = None
    /\ view # NoBranch
    /\ starts[s].pc = "none"
    /\ \A t \in Stream : t < s => starts[t].pc # "none"
    /\ fork => shown # NoBranch /\ \E b \in Branches \ made : RoomOf[b] = room
    /\ starts' = [starts EXCEPT ![s] = [pc |-> "asked", fork |-> fork, room |-> room,
                                        branch |-> view]]
    /\ disposals' = DetachedDisposals
    /\ current' = s
    /\ active' = s
    /\ verifier' = [on |-> ~fork, last |-> 0]
    /\ chat' = [phase |-> "loading", gen |-> None]
    /\ painted' = <<>>
    /\ pending' = <<>>
    /\ UNCHANGED <<coreVars, backVars, choices, viewVars, recons>>

Owns(s) == current = s /\ active = s

InFlight == \E s \in Stream : current = s /\ recons[s].pc # "none"

(* The start of reconcile, up to its first await. *)
Reconciling(s) ==
    IF InFlight
    THEN UNCHANGED <<active, recons>>
    ELSE /\ active' = None
         /\ recons' = [recons EXCEPT ![s] = [NoRecon EXCEPT !.pc = "dispose",
                                                            !.room = room]]

(* The awaited send answers.  A start that is no longer wanted disposes of *)
(* its stream once more.                                                   *)
StartReturns(s) ==
    /\ starts[s].pc = "started"
    /\ ~starts[s].fork
    /\ starts' = [starts EXCEPT ![s].pc = "ready"]
    /\ \/ /\ ~Owns(s)
          /\ disposals' = WithDisposal(s)
          /\ UNCHANGED <<active, chat, recons>>
       \/ /\ Owns(s) /\ verifier.on
          /\ chat' = [phase |-> "ready", gen |-> s]
          /\ UNCHANGED <<disposals, active, recons>>
       \/ /\ Owns(s) /\ ~verifier.on
          /\ Reconciling(s)
          /\ UNCHANGED <<disposals, chat>>
    /\ UNCHANGED <<coreVars, backVars, choices, current, verifier, textVars, viewVars>>

(* The awaited edit or regeneration answers: its branch is selected ...    *)
ForkReturns(s) ==
    /\ starts[s].pc = "started"
    /\ starts[s].fork
    /\ IF Owns(s)
       THEN /\ starts' = [starts EXCEPT ![s].pc = "selecting"]
            /\ choices' = choices \cup {BranchOf(s)}
            /\ UNCHANGED disposals
       ELSE /\ starts' = [starts EXCEPT ![s].pc = "over"]
            /\ disposals' = WithDisposal(s)
            /\ UNCHANGED choices
    /\ UNCHANGED <<coreVars, backVars, epochVars, textVars, viewVars, recons>>

(* ... and shown, if this is still what the user is waiting for.           *)
ForkShown(s) ==
    /\ starts[s].pc = "selecting"
    /\ BranchOf(s) \notin choices
    /\ starts' = [starts EXCEPT ![s].pc = "ready"]
    /\ IF Owns(s)
       THEN /\ verifier' = [on |-> TRUE, last |-> 0]
            /\ view' = BranchOf(s)
            /\ shown' = BranchOf(s)
            /\ stray' = NoStray
            /\ chat' = [phase |-> "ready", gen |-> s]
            /\ UNCHANGED disposals
       ELSE disposals' = WithDisposal(s) /\ UNCHANGED <<verifier, view, shown, stray, chat>>
    /\ UNCHANGED <<coreVars, backVars, choices, current, active, textVars, room, load, moves,
                   errands, recons>>

(* failStream: the command fails, or a read after it. *)
StartThrows(s) ==
    /\ starts[s].pc = "failed" \/ (starts[s].pc = "selecting" /\ BranchOf(s) \notin choices)
    /\ starts' = [starts EXCEPT ![s].pc = "over"]
    /\ disposals' = WithDisposal(s)
    /\ active' = IF active = s THEN None ELSE active
    /\ IF current = s
       THEN chat' = [phase |-> "error", gen |-> None] /\ pending' = <<>>
       ELSE UNCHANGED <<chat, pending>>
    /\ UNCHANGED <<coreVars, backVars, choices, current, verifier, painted, viewVars, recons>>

Deliver(s) == channel[s] # <<>> /\ channel' = [channel EXCEPT ![s] = Tail(@)]

(* An item for a stream that is not the renderer's any more. *)
DropItem(s) ==
    /\ Deliver(s)
    /\ ~Owns(s)
    /\ disposals' = WithDisposal(s)
    /\ UNCHANGED <<coreVars, streams, starts, choices, epochVars, textVars, viewVars, recons>>

IsNext(event) == event.kind = "delta" /\ event.seq = verifier.last + 1

(* The verifier applies a delta that is the next one; without a verifier   *)
(* every item is ignored.                                                  *)
ApplyDelta(s) ==
    LET event == Head(channel[s])
    IN  /\ Deliver(s)
        /\ Owns(s)
        /\ starts[s].pc = "ready"
        /\ \/ /\ verifier.on /\ IsNext(event)
              /\ verifier' = [verifier EXCEPT !.last = event.seq]
              /\ pending' = Append(pending, event)
           \/ /\ ~verifier.on
              /\ UNCHANGED <<verifier, pending>>
        /\ UNCHANGED <<coreVars, streams, callVars, current, active, chat, painted,
                       viewVars, recons>>

(* Anything else is reconciled: the terminal event, a gap, a lag.          *)
FaultyBeginReconcile(s) ==
    /\ Deliver(s)
    /\ Owns(s)
    /\ starts[s].pc = "ready"
    /\ verifier.on
    /\ ~IsNext(Head(channel[s]))
    /\ UNCHANGED <<coreVars, streams, callVars, epochVars, textVars, viewVars, recons>>
BeginReconcile(s) ==
    /\ Deliver(s)
    /\ Owns(s)
    /\ starts[s].pc = "ready"
    /\ verifier.on
    /\ ~IsNext(Head(channel[s]))
    /\ pending' = <<>>
    /\ Reconciling(s)
    /\ UNCHANGED <<coreVars, streams, callVars, current, verifier, chat, painted, viewVars>>

(* The stream is disposed of before anything is read. *)
ReconcileDisposes(s) ==
    /\ recons[s].pc = "dispose"
    /\ streams' = Disposed(s)
    /\ recons' = [recons EXCEPT ![s] =
                     IF current = s THEN [@ EXCEPT !.pc = "read"] ELSE NoRecon]
    /\ UNCHANGED <<coreVars, channel, callVars, epochVars, textVars, viewVars>>

(* The selected branch of the room is read, then its messages. *)
ReconcileReads(s) ==
    /\ \/ /\ recons[s].pc = "read"
          /\ recons' = [recons EXCEPT ![s].pc = "list",
                           ![s].branch = selected[recons[s].room]]
       \/ /\ recons[s].pc = "list"
          /\ recons' = [recons EXCEPT ![s].pc = "apply",
                           ![s].running = Running(s, recons[s].branch)]
    /\ UNCHANGED <<coreVars, backVars, callVars, epochVars, textVars, viewVars>>

(* What was read is shown if the epoch is still the same.  A generation    *)
(* that is still running cannot be watched again: the chat is blocked.     *)
FaultyReconcileApplies(s) ==
    /\ recons[s].pc = "apply"
    /\ recons' = [recons EXCEPT ![s] = NoRecon]
    /\ view' = recons[s].branch
    /\ shown' = recons[s].branch
    /\ stray' = NoStray
    /\ verifier' = NoVerifier
    /\ painted' = <<>>
    /\ chat' = IF recons[s].running THEN [phase |-> "error", gen |-> s] ELSE NoChat
    /\ UNCHANGED <<coreVars, backVars, callVars, current, active, pending, room, load, moves,
                   errands>>
ReconcileApplies(s) ==
    /\ recons[s].pc = "apply"
    /\ recons' = [recons EXCEPT ![s] = NoRecon]
    /\ IF current # s
       THEN UNCHANGED <<view, shown, stray, verifier, painted, chat>>
       ELSE /\ view' = recons[s].branch
            /\ shown' = recons[s].branch
            /\ stray' = NoStray
            /\ verifier' = NoVerifier
            /\ painted' = <<>>
            /\ chat' = IF recons[s].running THEN [phase |-> "error", gen |-> s] ELSE NoChat
    /\ UNCHANGED <<coreVars, backVars, callVars, current, active, pending, room, load, moves,
                   errands>>

(* One of the reads fails. *)
ReconcileThrows(s) ==
    /\ recons[s].pc \in {"read", "list"}
    /\ recons' = [recons EXCEPT ![s] = NoRecon]
    /\ chat' = IF current = s THEN [chat EXCEPT !.phase = "error"] ELSE chat
    /\ UNCHANGED <<coreVars, backVars, callVars, current, active, verifier, textVars, viewVars>>

(* The timer of scheduleDeltaFlush; detachStream clears it. *)
FlushDeltas ==
    /\ pending # <<>>
    /\ painted' = painted \o pending
    /\ pending' = <<>>
    /\ UNCHANGED <<coreVars, backVars, callVars, epochVars, viewVars, recons>>

-----------------------------------------------------------------------------
(* selectConversation clears the list and the conversation state;          *)
(* selectBranch keeps both until the branch is loaded.  Only the newest    *)
(* selection counts (conversationEpoch).                                   *)
SelectConversation(r) ==
    /\ Detached
    /\ room' = r
    /\ view' = NoBranch
    /\ shown' = NoBranch
    /\ stray' = NoStray
    /\ load' = [pc |-> "room", branch |-> NoBranch]
    /\ moves < MaxMoves /\ moves' = moves + 1
    /\ UNCHANGED <<coreVars, backVars, starts, choices, errands, recons>>

SelectBranch(b) ==
    /\ b \in made /\ RoomOf[b] = room
    /\ view # NoBranch /\ b # view
    /\ Detached
    /\ choices' = choices \cup {b}
    /\ load' = [pc |-> "branch", branch |-> b]
    /\ moves < MaxMoves /\ moves' = moves + 1
    /\ UNCHANGED <<coreVars, backVars, starts, room, view, shown, errands, stray, recons>>

(* The state of the opened room is read. *)
RoomRead ==
    /\ load.pc = "room"
    /\ load' = [pc |-> "listing", branch |-> selected[room]]
    /\ UNCHANGED <<coreVars, backVars, callVars, epochVars, textVars, room, view, shown, moves,
                   errands, stray, recons>>

(* The messages of the selection are there.  A pending answer among them   *)
(* blocks the chat (resumePendingGeneration).                              *)
Loaded ==
    LET running == {g \in Stream : Running(g, load.branch)}
    IN  /\ \/ load.pc = "listing"
           \/ load.pc = "branch" /\ load.branch \notin choices
        /\ load' = NoLoad
        /\ view' = load.branch
        /\ shown' = load.branch
        /\ stray' = NoStray
        /\ IF running = {}
           THEN UNCHANGED <<verifier, chat, painted, pending>>
           ELSE /\ \E g \in running : chat' = [phase |-> "error", gen |-> g]
                /\ verifier' = NoVerifier
                /\ painted' = <<>>
                /\ pending' = <<>>
        /\ UNCHANGED <<coreVars, backVars, callVars, current, active, room, moves, errands,
                       recons>>

(* One of the reads fails: the list shows the error, of a room no message. *)
LoadThrows ==
    /\ \/ /\ load.pc \in {"room", "listing"}
          /\ shown' = NoBranch
          /\ stray' = [stray EXCEPT !.shown = NoBranch]
       \/ /\ load.pc = "branch" /\ load.branch \notin choices
          /\ UNCHANGED <<shown, stray>>
    /\ load' = NoLoad
    /\ UNCHANGED <<coreVars, backVars, callVars, epochVars, textVars, room, view, moves,
                   errands, recons>>

-----------------------------------------------------------------------------
(* The errands: asked in the open room, executed by the store, answered.   *)
Ask(e, kind, b) ==
    /\ errands[e].pc = "none"
    /\ \A d \in Errand : d < e => errands[d].pc # "none"
    /\ errands' = [errands EXCEPT ![e] = [pc |-> "asked", kind |-> kind, room |-> room,
                                          branch |-> b]]
    /\ UNCHANGED <<coreVars, backVars, callVars, epochVars, textVars, room, view, shown, load,
                   moves, stray, recons>>

SetConversationMode(e) == Ask(e, "mode", NoBranch)
RemoveMessage(e) == view # NoBranch /\ shown # NoBranch /\ Ask(e, "remove", view)
CreateBranch(e) == shown # NoBranch /\ chat.gen = None /\ Ask(e, "create", shown)

Asked(e, kind) == errands[e].pc = "asked" /\ errands[e].kind = kind

Answers(e, b) == errands' = [errands EXCEPT ![e].pc = "answered", ![e].branch = b]

(* A mode is answered with the state of the room, selected branch and all. *)
StoreSetsMode(e) ==
    /\ Asked(e, "mode")
    /\ Answers(e, selected[errands[e].room])
    /\ UNCHANGED <<coreVars, backVars, callVars, epochVars, textVars, room, view, shown, load,
                   moves, stray, recons>>

(* Messages are removed from the selected branch, while it is free.        *)
StoreRemoves(e) ==
    /\ Asked(e, "remove")
    /\ selected[errands[e].room] = errands[e].branch
    /\ \A g \in Stream : ~Running(g, errands[e].branch)
    /\ Answers(e, errands[e].branch)
    /\ UNCHANGED <<coreVars, backVars, callVars, epochVars, textVars, room, view, shown, load,
                   moves, stray, recons>>

(* A branch is created from a message of the room. *)
StoreCreates(e) ==
    /\ Asked(e, "create")
    /\ RoomOf[errands[e].branch] = errands[e].room
    /\ \E b \in Branches \ made :
          /\ RoomOf[b] = errands[e].room
          /\ made' = made \cup {b}
          /\ Answers(e, b)
    /\ UNCHANGED <<bus, rows, selected, backVars, callVars, epochVars, textVars, room, view,
                   shown, load, moves, stray, recons>>

(* The command is refused, or the read after it fails: it is announced.    *)
ErrandFails(e) ==
    /\ errands[e].pc = "asked"
    /\ errands' = [errands EXCEPT ![e] = Done]
    /\ UNCHANGED <<coreVars, backVars, callVars, epochVars, textVars, room, view, shown, load,
                   moves, stray, recons>>

Answered(e, kind) ==
    /\ errands[e].pc = "answered" /\ errands[e].kind = kind
    /\ errands' = [errands EXCEPT ![e] = Done]

ModeArrives(e) ==
    /\ Answered(e, "mode")
    /\ view' = errands[e].branch
    /\ stray' = [stray EXCEPT !.view = errands[e].room]
    /\ UNCHANGED <<coreVars, backVars, callVars, epochVars, textVars, room, shown, load, moves,
                   recons>>

RemovalArrives(e) ==
    /\ Answered(e, "remove")
    /\ shown' = errands[e].branch
    /\ stray' = [stray EXCEPT !.shown = errands[e].room]
    /\ UNCHANGED <<coreVars, backVars, callVars, epochVars, textVars, room, view, load, moves,
                   recons>>

(* The new branch is selected in the room that is open now; the store      *)
(* refuses a branch of another room, and the list shows the error.  Either *)
(* way the stream on the screen is detached and a running load is dropped. *)
BranchArrives(e) ==
    LET b == errands[e].branch
    IN  /\ Answered(e, "create")
        /\ Detached
        /\ IF RoomOf[b] = room
           THEN load' = [pc |-> "branch", branch |-> b] /\ choices' = choices \cup {b}
           ELSE load' = NoLoad /\ UNCHANGED choices
        /\ UNCHANGED <<coreVars, backVars, starts, room, view, shown, moves, stray, recons>>

-----------------------------------------------------------------------------
CoreStep(g) == Publish(g) \/ Settle(g) \/ PublishTerminal(g)

BackendStep(s) ==
    \/ Register(s)
    \/ StartFails(s)
    \/ StartGeneration(s)
    \/ DisposeChatStream(s)
    \/ StopForwarding(s)
    \/ Recv(s)

RendererStep(s) ==
    \/ StartReturns(s)
    \/ ForkReturns(s)
    \/ ForkShown(s)
    \/ StartThrows(s)
    \/ DropItem(s)
    \/ ApplyDelta(s)
    \/ BeginReconcile(s)
    \/ ReconcileDisposes(s)
    \/ ReconcileReads(s)
    \/ ReconcileApplies(s)
    \/ ReconcileThrows(s)

UserStep ==
    \/ \E s \in Stream, fork \in BOOLEAN : StartStream(s, fork)
    \/ \E r \in Rooms : SelectConversation(r)
    \/ \E b \in Branches : SelectBranch(b)
    \/ \E e \in Errand : SetConversationMode(e) \/ RemoveMessage(e) \/ CreateBranch(e)

ErrandStep(e) ==
    \/ StoreSetsMode(e)
    \/ StoreRemoves(e)
    \/ StoreCreates(e)
    \/ ErrandFails(e)
    \/ ModeArrives(e)
    \/ RemovalArrives(e)
    \/ BranchArrives(e)

Next ==
    \/ \E s \in Stream : CoreStep(s) \/ BackendStep(s) \/ RendererStep(s)
    \/ \E b \in Branches : StoreSelects(b)
    \/ \E e \in Errand : ErrandStep(e)
    \/ FlushDeltas
    \/ UserStep
    \/ RoomRead
    \/ Loaded
    \/ LoadThrows

Spec == Init /\ [][Next]_vars

(* The event loop runs every callback and every answered await; the        *)
(* forwarding task is polled; a command that was sent is executed; Core    *)
(* announces what it has settled.  No generation has to publish or settle, *)
(* and the user does nothing.                                              *)
Fairness ==
    /\ \A b \in Branches : WF_vars(StoreSelects(b))
    /\ \A s \in Stream :
          /\ WF_vars(PublishTerminal(s))
          /\ WF_vars(DisposeChatStream(s))
          /\ WF_vars(StopForwarding(s) \/ Recv(s))
          /\ WF_vars(Register(s) \/ StartFails(s) \/ StartGeneration(s))
          /\ WF_vars(StartReturns(s) \/ ForkReturns(s) \/ ForkShown(s) \/ StartThrows(s))
          /\ WF_vars(DropItem(s) \/ ApplyDelta(s) \/ BeginReconcile(s))
          /\ WF_vars(ReconcileDisposes(s) \/ ReconcileReads(s) \/ ReconcileApplies(s)
                        \/ ReconcileThrows(s))

FairSpec == Spec /\ Fairness

-----------------------------------------------------------------------------
(* The shape of the records. *)
Place == made \cup {NoBranch}
Receiver == [pc : {"none", "registered", "forwarding", "gone"},
             position : Nat, last : Nat, dispose : BOOLEAN]
Command == [pc : {"none", "asked", "started", "selecting", "failed", "ready", "over"},
            fork : BOOLEAN, room : Rooms \cup {NoBranch}, branch : Place]
Verifier == [on : BOOLEAN, last : Nat]
Pane == [phase : {"idle", "loading", "ready", "error"}, gen : 0..MaxStreams]
Loading == [pc : {"none", "room", "listing", "branch"}, branch : Place]
ErrandRecord == [pc : {"none", "asked", "answered", "over"},
            kind : {"none", "mode", "remove", "create"},
            room : Rooms \cup {NoBranch}, branch : Place]
Strays == [view : Rooms \cup {NoBranch}, shown : Rooms \cup {NoBranch}]
Reconciliation == [pc : {"none", "dispose", "read", "list", "apply"},
                   room : Rooms \cup {NoBranch}, branch : Place, running : BOOLEAN]

(* Every variable keeps its shape; the stream the renderer listens to is   *)
(* that of its epoch.                                                      *)
TypeOK ==
    /\ bus \in Seq(Events)
    /\ rows \in [Stream -> {"none", "pending", "settled"}]
    /\ made \subseteq Branches /\ selected \in [Rooms -> made]
    /\ streams \in [Stream -> Receiver]
    /\ channel \in [Stream -> Seq(Events \cup {Reconcile})]
    /\ starts \in [Stream -> Command]
    /\ disposals \subseteq Stream /\ choices \subseteq made
    /\ current \in 0..MaxStreams /\ active \in {0, current}
    /\ verifier \in Verifier
    /\ chat \in Pane
    /\ painted \in Seq(Events) /\ pending \in Seq(Events)
    /\ room \in Rooms /\ view \in Place /\ shown \in Place
    /\ load \in Loading
    /\ moves \in 0..MaxMoves
    /\ errands \in [Errand -> ErrandRecord]
    /\ stray \in Strays
    /\ recons \in [Stream -> Reconciliation]

(* "A gap never gets painted optimistically" (chat-stream.ts): the text on *)
(* the screen, and what waits for the timer, is the beginning of one       *)
(* generation's text, through lags, restarts of the stream and switches of *)
(* the room.                                                               *)
PaintedIsPrefix ==
    LET text == painted \o pending
    IN  \A i \in 1..Len(text) : text[i] = Delta(text[1].gen, i)

(* What a stream hands to the renderer are its own generation's events,    *)
(* each the next one after what the renderer has taken; if the broadcast   *)
(* has dropped one, a request to reconcile takes its place and nothing     *)
(* follows.                                                                *)
ForwardedWithoutGap ==
    \A s \in Stream : \A i \in 1..Len(channel[s]) :
        LET item == channel[s][i]
        IN  /\ item = Reconcile => i = Len(channel[s]) /\ streams[s].pc = "gone"
            /\ item # Reconcile => item.gen = s
            /\ i > 1 /\ item # Reconcile => item.seq = channel[s][i - 1].seq + 1
            /\ i = 1 /\ item # Reconcile /\ Owns(s) /\ verifier.on =>
                  item.seq = verifier.last + 1

(* Between Core and the screen no text is lost, doubled or mixed unseen.   *)
TextHasNoGap == TypeOK /\ PaintedIsPrefix /\ ForwardedWithoutGap

(* The streamed text on the screen belongs to the open room, always.  So   *)
(* do the branch that is active and the one whose messages are listed, and *)
(* they are the same unless nothing is listed: a reload, a start or a load *)
(* begun for another room never arrives here.  The exception are the       *)
(* errands, which no epoch guards: a mode set in another room may have     *)
(* made that room's branch the active one, and a message removed there may *)
(* have put its messages in the list, until the next guarded write.        *)
ScreenShowsTheRoom ==
    /\ \A i \in 1..Len(painted) : RoomOf[BranchOf(painted[i].gen)] = room
    /\ view # NoBranch => RoomOf[view] \in {room, stray.view}
    /\ shown # NoBranch => RoomOf[shown] \in {room, stray.shown}
    /\ stray = NoStray => shown \in {view, NoBranch}

(* Whatever is on the screen belongs to the open room. *)
OnlyTheOpenRoom ==
    \A b \in {view, shown} \ {NoBranch} : RoomOf[b] = room

(* Text on the screen belongs to the branch on the screen. *)
TextBelongsToBranch ==
    \A i \in 1..Len(painted) : BranchOf(painted[i].gen) = view

(* A receiver the renderer has turned away from gives its slot back, even  *)
(* when its disposal overtook its registration and its provider stalls.    *)
StaleStreamsEnd == \A s \in Stream : (s \in Slots /\ active # s) ~> (s \notin Slots)

(* A settled generation does not stay on the screen as running: its        *)
(* terminal event, a lag or the reload ends it, or the user is told of an  *)
(* error.                                                                  *)
SettledIsNoticed ==
    \A g \in Stream :
        (chat.gen = g /\ rows[g] = "settled") ~> (chat.gen # g \/ chat.phase = "error")
=============================================================================
