---------------------------- MODULE Conversation ----------------------------
(***************************************************************************)
(* The conversation store: one room's messages, branches and generations   *)
(* in SQLite (crates/storage/src/database.rs), the requests that write to  *)
(* it (crates/core/src/app.rs) and what a restart recovers.                *)
(*                                                                         *)
(* Every storage call runs in one transaction under the connection mutex,  *)
(* so it is one action.  A request makes several calls: it reads the       *)
(* prompt history in one and appends in a later one, and any other caller, *)
(* generation task or crash may come in between.                           *)
(*                                                                         *)
(* Abstractions.  Ids are numbers in order of creation (the code draws     *)
(* fresh UUIDs); 0 stands for SQL NULL.  A user's content is an element of *)
(* Texts, an assistant's the number of deltas it holds.  One room only:    *)
(* every statement filters by conversation_id.  Timestamps, titles, mode,  *)
(* model and usage columns are left out.                                   *)
(*                                                                         *)
(* A definition Faulty<X> is what a plausible mistake would make of <X>.   *)
(* No specification uses it: it shows that a property notices the mistake. *)
(***************************************************************************)
EXTENDS Naturals, FiniteSets

CONSTANTS
    Clients,         \* threads that may call into Core at the same time
    Texts,           \* user texts, non-zero numbers
    MaxGenerations,  \* bound on generations ever started
    MaxBranches,     \* bound on branches ever created
    MaxDeltas        \* bound on text deltas streamed by one generation

ASSUME BoundsAssumption ==
    /\ MaxGenerations \in Nat
    /\ MaxBranches \in Nat \ {0}
    /\ MaxDeltas \in Nat
    /\ Texts \subseteq Nat \ {0}

VARIABLES
    messages,         \* table messages: id -> row, "absent" when there is none
    branches,         \* table conversation_branches: id -> fork and head
    branchCount,      \* ids 1..branchCount are in use
    active,           \* conversation_state.active_branch_id
    generations,      \* table generations
    generationCount,  \* ids 1..generationCount are in use
    preserve,         \* AppSettings.preserve_partial_generations
    requests,         \* what each client's call has read so far
    tasks,            \* generation tasks of this process
    up                \* the process is running and has recovered its data

store == <<messages, branches, branchCount, active, generations,
           generationCount, preserve>>
vars == <<messages, branches, branchCount, active, generations,
          generationCount, preserve, requests, tasks, up>>

-----------------------------------------------------------------------------
None == 0
MessageId == 1..(2 * MaxGenerations)
BranchId == 1..MaxBranches
GenerationId == 1..MaxGenerations

Terminal == {"complete", "cancelled", "failed"}

Message == [parent : MessageId \cup {None},
            role : {"none", "user", "assistant"},
            status : {"absent", "pending"} \cup Terminal,
            content : Nat]
Branch == [fork : MessageId \cup {None}, head : MessageId \cup {None}]
Generation == [branch : BranchId \cup {None},
               user : MessageId \cup {None},
               assistant : MessageId \cup {None},
               status : {"absent", "running"} \cup Terminal]
Request == [kind : {"idle", "send", "edit", "regenerate"},
            branch : BranchId \cup {None},
            expected : MessageId \cup {None},
            target : MessageId \cup {None},
            fork : MessageId \cup {None},
            text : Nat,
            prompt : SUBSET MessageId,
            fresh : BOOLEAN]
Task == [phase : {"none", "streaming", "compensating", "over"},
         preserve : BOOLEAN,
         streamed : 0..MaxDeltas,
         status : {"running"} \cup Terminal,
         prompt : SUBSET MessageId,
         fresh : BOOLEAN]

NoMessage == [parent |-> None, role |-> "none", status |-> "absent", content |-> 0]
NoBranch == [fork |-> None, head |-> None]
NoGeneration == [branch |-> None, user |-> None, assistant |-> None,
                 status |-> "absent"]
Idle == [kind |-> "idle", branch |-> None, expected |-> None, target |-> None,
         fork |-> None, text |-> 0, prompt |-> {}, fresh |-> FALSE]
NoTask == [phase |-> "none", preserve |-> FALSE, streamed |-> 0,
           status |-> "running", prompt |-> {}, fresh |-> FALSE]
Over == [phase |-> "over", preserve |-> FALSE, streamed |-> 0,
         status |-> "running", prompt |-> {}, fresh |-> FALSE]

Branches == 1..branchCount
Exists(m) == messages[m].status # "absent"
Pending(m) == m # None /\ messages[m].status = "pending"

Live(g) == tasks[g].phase \in {"streaming", "compensating"}

-----------------------------------------------------------------------------
(* The parent chain of a message, the message included. *)
Lineage(rows, head) ==
    LET chain[m \in MessageId \cup {None}] ==
            IF m = None THEN {} ELSE {m} \cup chain[rows[m].parent]
    IN  chain[head]

(* The rows of a lineage that a prompt may quote: not pending, and with    *)
(* text unless complete.  The 511-row depth and the length limits are far  *)
(* above the model's bounds.                                               *)
Quotable(rows, head) ==
    {m \in MessageId :
        /\ m \in Lineage(rows, head)
        /\ rows[m].status # "pending"
        /\ rows[m].status = "complete" \/ rows[m].content > 0}

FaultyActionTarget(b, expected, target) ==
    /\ b \in Branches
    /\ branches[b].head = expected
    /\ active = b
    /\ target \in Lineage(messages, branches[b].head)
    /\ Exists(target)

(* The checks shared by edit, regenerate and remove: the branch is the     *)
(* active one, its head is the expected one and is not pending, and the    *)
(* target is on its lineage.                                               *)
ActionTarget(b, expected, target) ==
    /\ b \in Branches
    /\ branches[b].head = expected
    /\ active = b
    /\ ~Pending(branches[b].head)
    /\ target \in Lineage(messages, branches[b].head)
    /\ Exists(target)

(* Where an edit or a regeneration forks, or the action is refused. *)
EditFork(target) == messages[target].parent
RegenerateFork(target) == messages[messages[target].parent].parent

ActionAllowed(kind, target) ==
    \/ /\ kind = "edit"
       /\ messages[target].role = "user"
       /\ messages[target].status = "complete"
    \/ /\ kind = "regenerate"
       /\ messages[target].role = "assistant"
       /\ messages[target].status # "pending"
       /\ messages[target].parent # None
       /\ LET user == messages[messages[target].parent]
          IN  user.role = "user" /\ user.status = "complete"

ActionFork(kind, target) ==
    IF kind = "edit" THEN EditFork(target) ELSE RegenerateFork(target)

ActionText(kind, target) ==
    IF kind = "edit" THEN Texts ELSE {messages[messages[target].parent].content}

(* The history a request quotes: a send reads the branch by its id, an     *)
(* action reads the lineage of its fork point.                             *)
SendHistory(b) == Quotable(messages, branches[b].head)

FaultyActionHistory(kind, target) == Quotable(messages, target)
ActionHistory(kind, target) == Quotable(messages, ActionFork(kind, target))

(* The compare-and-set of append_generation: the head is the expected one, *)
(* exists and is not pending.                                              *)
FaultyHeadMatches(b, expected) == TRUE
HeadMatches(b, expected) == branches[b].head = expected
FaultyHeadReady(expected) == TRUE
HeadReady(expected) == expected # None => Exists(expected) /\ ~Pending(expected)

(* UPDATE conversation_branches SET head_message_id = h WHERE id = b and   *)
(* the head is still the one read in this transaction.                     *)
MoveHead(b, h) == [branches EXCEPT ![b].head = h]

-----------------------------------------------------------------------------
(* A fresh room: one root branch, selected, and no message. *)
Init ==
    /\ messages = [m \in MessageId |-> NoMessage]
    /\ branches = [b \in BranchId |-> NoBranch]
    /\ branchCount = 1
    /\ active = 1
    /\ generations = [g \in GenerationId |-> NoGeneration]
    /\ generationCount = 0
    /\ preserve \in BOOLEAN
    /\ requests = [c \in Clients |-> Idle]
    /\ tasks = [g \in GenerationId |-> NoTask]
    /\ up = TRUE

(* A client calls send_message_to_branch with the head it last saw.  The   *)
(* prompt history is read from the branch as it is now.                    *)
BeginSend(c, b, expected, text) ==
    /\ up
    /\ requests[c].kind = "idle"
    /\ generationCount < MaxGenerations
    /\ b \in Branches
    /\ requests' = [requests EXCEPT ![c] =
         [kind |-> "send", branch |-> b, expected |-> expected, target |-> None,
          fork |-> expected, text |-> text,
          prompt |-> SendHistory(b),
          fresh |-> branches[b].head = expected /\ ~Pending(expected)]]
    /\ UNCHANGED <<messages, branches, branchCount, active, generations,
                   generationCount, preserve, tasks, up>>

(* edit_user_message and regenerate_assistant_message: the snapshot is     *)
(* checked and the history of the fork point is read.                      *)
BeginAction(c, kind, b, target, text) ==
    /\ up
    /\ requests[c].kind = "idle"
    /\ generationCount < MaxGenerations
    /\ branchCount < MaxBranches
    /\ ActionTarget(b, branches[b].head, target)
    /\ ActionAllowed(kind, target)
    /\ text \in ActionText(kind, target)
    /\ requests' = [requests EXCEPT ![c] =
         [kind |-> kind, branch |-> b, expected |-> branches[b].head,
          target |-> target, fork |-> ActionFork(kind, target), text |-> text,
          prompt |-> ActionHistory(kind, target),
          fresh |-> TRUE]]
    /\ UNCHANGED <<messages, branches, branchCount, active, generations,
                   generationCount, preserve, tasks, up>>

(* The rows one append inserts, and the task it starts. *)
NewUser == 2 * generationCount + 1
NewAssistant == 2 * generationCount + 2
NewGeneration == generationCount + 1

InsertGeneration(r, b) ==
    /\ generationCount < MaxGenerations
    /\ messages' = [messages EXCEPT
         ![NewUser] = [parent |-> r.fork, role |-> "user",
                       status |-> "complete", content |-> r.text],
         ![NewAssistant] = [parent |-> NewUser, role |-> "assistant",
                            status |-> "pending", content |-> 0]]
    /\ generations' = [generations EXCEPT ![NewGeneration] =
         [branch |-> b, user |-> NewUser, assistant |-> NewAssistant,
          status |-> "running"]]
    /\ generationCount' = NewGeneration
    /\ tasks' = [tasks EXCEPT ![NewGeneration] =
         [phase |-> "streaming", preserve |-> preserve, streamed |-> 0,
          status |-> "running", prompt |-> r.prompt, fresh |-> r.fresh]]

(* append_generation: compare the head with the expected one, refuse a     *)
(* pending head, insert the rows, move the head and start the task.  The   *)
(* preserve setting is read just before, by prepare_generation_launch: a   *)
(* change in between is the same as one just after.                        *)
AppendGeneration(c) ==
    LET r == requests[c] IN
    /\ up
    /\ r.kind = "send"
    /\ HeadMatches(r.branch, r.expected)
    /\ HeadReady(r.expected)
    /\ InsertGeneration(r, r.branch)
    /\ branches' = MoveHead(r.branch, NewAssistant)
    /\ requests' = [requests EXCEPT ![c] = Idle]
    /\ UNCHANGED <<branchCount, active, preserve, up>>

(* append_message_generation_action: check the snapshot again, publish a   *)
(* new branch with the rows and select it.                                 *)
AppendAction(c) ==
    LET r == requests[c]
        b == branchCount + 1
    IN
    /\ up
    /\ r.kind \in {"edit", "regenerate"}
    /\ branchCount < MaxBranches
    /\ ActionTarget(r.branch, r.expected, r.target)
    /\ ActionAllowed(r.kind, r.target)
    /\ ActionFork(r.kind, r.target) = r.fork
    /\ r.text \in ActionText(r.kind, r.target)
    /\ InsertGeneration(r, b)
    /\ branches' = [branches EXCEPT ![b] = [fork |-> r.fork, head |-> NewAssistant]]
    /\ branchCount' = b
    /\ active' = b
    /\ requests' = [requests EXCEPT ![c] = Idle]
    /\ UNCHANGED <<preserve, up>>

(* The append was refused (stale head, pending head) or failed: the caller *)
(* gets an error and the launch permit drops its registration.             *)
AppendRefused(c) ==
    /\ up
    /\ requests[c].kind # "idle"
    /\ requests' = [requests EXCEPT ![c] = Idle]
    /\ UNCHANGED <<messages, branches, branchCount, active, generations,
                   generationCount, preserve, tasks, up>>

(* remove_message_from_branch: rewind the head to the target's parent. *)
RemoveMessage(b, target) ==
    /\ up
    /\ ActionTarget(b, branches[b].head, target)
    /\ ~Pending(target)
    /\ messages[target].role \in {"user", "assistant"}
    /\ LET parent == messages[target].parent IN
         /\ parent # None => Exists(parent) /\ ~Pending(parent)
         /\ branches' = MoveHead(b, parent)
    /\ UNCHANGED <<messages, branchCount, active, generations, generationCount,
                   preserve, requests, tasks, up>>

CreateBranch(from) ==
    /\ up
    /\ branchCount < MaxBranches
    /\ from # None => Exists(from) /\ ~Pending(from)
    /\ branches' = [branches EXCEPT ![branchCount + 1] =
                      [fork |-> from, head |-> from]]
    /\ branchCount' = branchCount + 1
    /\ UNCHANGED <<messages, active, generations, generationCount, preserve,
                   requests, tasks, up>>

SelectBranch(b) ==
    /\ up
    /\ b \in Branches
    /\ active' = b
    /\ UNCHANGED <<messages, branches, branchCount, generations,
                   generationCount, preserve, requests, tasks, up>>

SaveSettings(value) ==
    /\ up
    /\ preserve' = value
    /\ UNCHANGED <<messages, branches, branchCount, active, generations,
                   generationCount, requests, tasks, up>>

-----------------------------------------------------------------------------
(* The generation task, as the store sees it (module Generation has the    *)
(* rest): deltas arrive, a checkpoint copies them to the pending row, and  *)
(* the end is one terminal transaction or its compensation.                *)
Stream(g) ==
    /\ tasks[g].phase = "streaming"
    /\ tasks[g].streamed < MaxDeltas
    /\ tasks' = [tasks EXCEPT ![g].streamed = @ + 1]
    /\ UNCHANGED <<messages, branches, branchCount, active, generations,
                   generationCount, preserve, requests, up>>

CheckpointPendingAssistant(g) ==
    LET a == generations[g].assistant IN
    /\ tasks[g].phase = "streaming"
    /\ tasks[g].preserve
    /\ Pending(a)
    /\ messages' = [messages EXCEPT ![a].content = tasks[g].streamed]
    /\ UNCHANGED <<branches, branchCount, active, generations, generationCount,
                   preserve, requests, tasks, up>>

(* should_commit of apply_generation_result *)
Keep(g, status) ==
    status = "complete" \/ (tasks[g].preserve /\ tasks[g].streamed > 0)

(* The assistant row becomes terminal, or goes and takes the head back to  *)
(* the user message; the generation becomes terminal with it.              *)
KeepAssistant(g, status) ==
    /\ Pending(generations[g].assistant)
    /\ messages' = [messages EXCEPT ![generations[g].assistant].status = status,
                                    ![generations[g].assistant].content = tasks[g].streamed]
    /\ generations' = [generations EXCEPT ![g].status = status]
    /\ UNCHANGED branches

DropAssistant(g, status) ==
    LET a == generations[g].assistant
        b == generations[g].branch
    IN
    /\ branches' = IF branches[b].head = a
                   THEN MoveHead(b, generations[g].user)
                   ELSE branches
    /\ messages' = [messages EXCEPT ![a] = NoMessage]
    /\ generations' = [generations EXCEPT ![g].status = status,
                                          ![g].assistant = None]

FinalizeGeneration(g, status) ==
    /\ tasks[g].phase = "streaming"
    /\ generations[g].status = "running"
    /\ IF Keep(g, status) THEN KeepAssistant(g, status) ELSE DropAssistant(g, status)
    /\ tasks' = [tasks EXCEPT ![g] = Over]
    /\ UNCHANGED <<branchCount, active, generationCount, preserve, requests, up>>

(* The terminal transaction was rolled back. *)
FinalizeFails(g, status) ==
    /\ tasks[g].phase = "streaming"
    /\ tasks' = [tasks EXCEPT ![g].phase = "compensating", ![g].status = status]
    /\ UNCHANGED <<messages, branches, branchCount, active, generations,
                   generationCount, preserve, requests, up>>

(* fail_generation_after_finalize_error: unlike finalize it insists on the *)
(* head being the assistant when it drops the row.                         *)
CompensateGeneration(g) ==
    /\ tasks[g].phase = "compensating"
    /\ generations[g].status = "running"
    /\ IF Keep(g, tasks[g].status)
       THEN KeepAssistant(g, "failed")
       ELSE /\ branches[generations[g].branch].head = generations[g].assistant
            /\ Pending(generations[g].assistant)
            /\ DropAssistant(g, "failed")
    /\ tasks' = [tasks EXCEPT ![g] = Over]
    /\ UNCHANGED <<branchCount, active, generationCount, preserve, requests, up>>

(* The compensation failed too: the rows stay as they are until restart. *)
CompensationFails(g) ==
    /\ tasks[g].phase = "compensating"
    /\ tasks' = [tasks EXCEPT ![g] = Over]
    /\ UNCHANGED <<messages, branches, branchCount, active, generations,
                   generationCount, preserve, requests, up>>

-----------------------------------------------------------------------------
(* The process ends at any point: only the store survives. *)
Crash ==
    /\ up
    /\ up' = FALSE
    /\ requests' = [c \in Clients |-> Idle]
    /\ tasks' = [g \in GenerationId |-> NoTask]
    /\ UNCHANGED store

(* apply_recovery_transaction, before the reopened store is used. *)
FaultyPendingAssistants == {m \in MessageId : messages[m].role = "assistant"}
PendingAssistants ==
    {m \in MessageId : messages[m].role = "assistant" /\ messages[m].status = "pending"}
RecoveredStatus(g) ==
    IF generations[g].status = "running" THEN "cancelled" ELSE generations[g].status
OffPending(m) == IF m \in PendingAssistants THEN messages[m].parent ELSE m

FaultyRecoverPreserving ==
    /\ generations' = [g \in GenerationId |->
                         [generations[g] EXCEPT !.status = RecoveredStatus(g)]]
    /\ UNCHANGED <<messages, branches>>
RecoverPreserving ==
    /\ messages' = [m \in MessageId |->
                      IF messages[m].status = "pending"
                      THEN [messages[m] EXCEPT !.status = "cancelled"]
                      ELSE messages[m]]
    /\ generations' = [g \in GenerationId |->
                         [generations[g] EXCEPT !.status = RecoveredStatus(g)]]
    /\ UNCHANGED branches

(* Heads and fork points step back to the parent, children are reparented, *)
(* the pending rows go, and ON DELETE SET NULL clears the references.      *)
RecoverDropping ==
    /\ branches' = [b \in BranchId |-> [fork |-> OffPending(branches[b].fork),
                                        head |-> OffPending(branches[b].head)]]
    /\ messages' = [m \in MessageId |->
                      IF m \in PendingAssistants THEN NoMessage
                      ELSE [messages[m] EXCEPT !.parent = OffPending(messages[m].parent)]]
    /\ generations' = [g \in GenerationId |->
                         [branch |-> generations[g].branch,
                          user |-> generations[g].user,
                          assistant |-> IF generations[g].assistant \in PendingAssistants
                                        THEN None ELSE generations[g].assistant,
                          status |-> RecoveredStatus(g)]]

Recover ==
    /\ ~up
    /\ up' = TRUE
    /\ IF preserve THEN RecoverPreserving ELSE RecoverDropping
    /\ UNCHANGED <<branchCount, active, generationCount, preserve, requests, tasks>>

-----------------------------------------------------------------------------
ClientStep(c) ==
    \/ \E b \in Branches, expected \in 0..(2 * generationCount), text \in Texts :
          BeginSend(c, b, expected, text)
    \/ \E kind \in {"edit", "regenerate"}, b \in Branches,
          target \in 1..(2 * generationCount) :
          \E text \in Texts : BeginAction(c, kind, b, target, text)
    \/ AppendGeneration(c)
    \/ AppendAction(c)
    \/ AppendRefused(c)

RoomStep ==
    \/ \E b \in Branches, target \in 1..(2 * generationCount) : RemoveMessage(b, target)
    \/ \E from \in 0..(2 * generationCount) : CreateBranch(from)
    \/ \E b \in BranchId : SelectBranch(b)
    \/ \E value \in BOOLEAN : SaveSettings(value)

TaskStep(g) ==
    \/ Stream(g)
    \/ CheckpointPendingAssistant(g)
    \/ \E status \in Terminal : FinalizeGeneration(g, status)
    \/ \E status \in Terminal : FinalizeFails(g, status)
    \/ CompensateGeneration(g)
    \/ CompensationFails(g)

Next ==
    \/ \E c \in Clients : ClientStep(c)
    \/ RoomStep
    \/ \E g \in GenerationId : TaskStep(g)
    \/ Crash
    \/ Recover

Spec == Init /\ [][Next]_vars
-----------------------------------------------------------------------------
(* Every variable keeps the shape of its table or its in-memory record. *)
TypeOK ==
    /\ messages \in [MessageId -> Message]
    /\ branches \in [BranchId -> Branch]
    /\ branchCount \in 1..MaxBranches
    /\ active \in 1..branchCount
    /\ generations \in [GenerationId -> Generation]
    /\ generationCount \in 0..MaxGenerations
    /\ preserve \in BOOLEAN
    /\ requests \in [Clients -> Request]
    /\ tasks \in [GenerationId -> Task]
    /\ up \in BOOLEAN

(* No reference dangles, whatever was finalized, dropped, compensated,     *)
(* removed or recovered: parents are older existing rows, heads and fork   *)
(* points exist, a generation's user row exists and its assistant, while   *)
(* it names one, exists too.  SQLite's foreign keys would turn a breach    *)
(* into a failed transaction.                                              *)
ReferencesResolve ==
    /\ \A m \in MessageId :
          messages[m].parent # None =>
             messages[m].parent < m /\ Exists(messages[m].parent)
    /\ \A b \in BranchId :
          /\ branches[b].head # None => Exists(branches[b].head)
          /\ branches[b].fork # None => Exists(branches[b].fork)
    /\ \A g \in GenerationId :
          /\ generations[g].user # None => Exists(generations[g].user)
          /\ generations[g].assistant # None => Exists(generations[g].assistant)

(* A generation that runs owns one pending assistant, the child of its own *)
(* user message, and that assistant is the head of its branch: until it is *)
(* terminal nothing else moves that head.  So a branch has at most one     *)
(* running generation, and finalize and compensation find what they need.  *)
RunningOwnsItsBranch ==
    \A g \in GenerationId :
        generations[g].status = "running" =>
            /\ generations[g].branch \in Branches
            /\ generations[g].assistant # None
            /\ generations[g].user # None
            /\ messages[generations[g].assistant].status = "pending"
            /\ messages[generations[g].assistant].parent = generations[g].user
            /\ branches[generations[g].branch].head = generations[g].assistant

(* A pending row has a running generation that will end it, and once the   *)
(* store has recovered that generation has a task in this process, at work *)
(* or given up after a failed compensation: nothing stays pending forever  *)
(* because of a crash.                                                     *)
PendingHasATask ==
    \A m \in MessageId :
        Pending(m) => \E g \in GenerationId :
            /\ generations[g].status = "running"
            /\ generations[g].assistant = m
            /\ up => tasks[g].phase # "none"

(* Nothing is built on a row that is still being written: no child, no     *)
(* fork point, and no head but that of the branch that is generating.      *)
NothingBuiltOnPending ==
    /\ \A m \in MessageId : ~Pending(messages[m].parent)
    /\ \A b \in BranchId : ~Pending(branches[b].fork)
    /\ \A b \in BranchId :
          Pending(branches[b].head) =>
             \E g \in GenerationId :
                generations[g].status = "running" /\ generations[g].branch = b

(* The two records of one outcome agree: a finished generation whose       *)
(* assistant row remains has that row's status, and a complete generation  *)
(* never loses its row.                                                    *)
OutcomesAgree ==
    \A g \in GenerationId :
        generations[g].status \in Terminal =>
            /\ generations[g].assistant # None =>
                  messages[generations[g].assistant].status = generations[g].status
            /\ generations[g].status = "complete" => generations[g].assistant # None

(* The store is sound in every state: its rows have their types and refer  *)
(* to rows that exist, nothing stays pending without a task, and the two   *)
(* records of one outcome agree.                                           *)
StoreIsSound ==
    /\ TypeOK
    /\ ReferencesResolve
    /\ PendingHasATask
    /\ OutcomesAgree

(* What makes those invariants inductive.  Ids are handed out in order and *)
(* each generation owns the two rows inserted with it, only assistants are *)
(* ever pending, a request names a branch that exists, a send appends to   *)
(* the head it expects and an action has a target, and a task at work      *)
(* belongs to a generation that is still running.                          *)
IdsInOrder ==
    /\ \A m \in MessageId : m > 2 * generationCount => messages[m] = NoMessage
    /\ \A b \in BranchId : b > branchCount => branches[b] = NoBranch
    /\ \A g \in GenerationId :
          IF g > generationCount
          THEN generations[g] = NoGeneration
          ELSE /\ generations[g].branch \in Branches
               /\ generations[g].user = 2 * g - 1
               /\ generations[g].assistant \in {None, 2 * g}
               /\ generations[g].status # "absent"
RolesMatch ==
    \A m \in MessageId : messages[m].status = "pending" => messages[m].role = "assistant"
RequestsNameBranches ==
    \A c \in Clients :
        /\ requests[c].kind # "idle" => requests[c].branch \in Branches
        /\ requests[c].kind = "send" => requests[c].fork = requests[c].expected
        /\ requests[c].kind \in {"edit", "regenerate"} => requests[c].target # None
TasksAreRunning ==
    /\ ~up => \A g \in GenerationId : tasks[g] = NoTask
    /\ \A g \in GenerationId : Live(g) => generations[g].status = "running"

IndInv ==
    /\ TypeOK
    /\ IdsInOrder
    /\ RolesMatch
    /\ RequestsNameBranches
    /\ TasksAreRunning
    /\ ReferencesResolve
    /\ RunningOwnsItsBranch
    /\ PendingHasATask
    /\ NothingBuiltOnPending
    /\ OutcomesAgree

(* A generation is sent exactly the quotable rows of its user message's    *)
(* parent chain, although they were read before the append that checks the *)
(* head: always for an edit or a regeneration, and for a send whose        *)
(* expected head was the branch's finished head when the history was read. *)
PromptFollowsLineage ==
    \A g \in GenerationId :
        Live(g) /\ tasks[g].fresh =>
            tasks[g].prompt =
               Quotable(messages, messages[generations[g].user].parent)

(* docs/architecture/provider-and-chat.md, without the freshness premise:  *)
(* a request quotes nothing but its own parent chain.                      *)
PromptWithinLineage ==
    \A g \in GenerationId :
        Live(g) =>
            tasks[g].prompt \subseteq
               Lineage(messages, messages[generations[g].user].parent)

(* The same chain from the other side: the rows the chain holds when the   *)
(* request is appended are in the prompt.                                  *)
PromptCoversLineage ==
    \A g \in GenerationId :
        Live(g) =>
            Quotable(messages, messages[generations[g].user].parent)
               \subseteq tasks[g].prompt

(* A message that has become terminal never changes and never goes: not by *)
(* edit, regenerate, remove, a late checkpoint, compensation or recovery.  *)
HistoryIsImmutable ==
    [][\A m \in MessageId :
          messages[m].status \in Terminal => messages'[m] = messages[m]]_vars

(* A branch head only grows by rows on top of the old head or rewinds to   *)
(* an ancestor of it: no write, however stale its view, splices another    *)
(* history into a branch.                                                  *)
HeadMovesAlongLineage ==
    [][\A b \in BranchId :
          b \in Branches =>
             LET old == branches[b].head
                 new == branches'[b].head
             IN  \/ old \in Lineage(messages', new) \cup {None}
                 \/ new \in Lineage(messages, old) \cup {None}]_vars

(* Between restarts one step moves the head of at most one branch that     *)
(* already existed: an edit or a regeneration leaves its source branch     *)
(* alone, and a dropped assistant rewinds its own branch only.             *)
OneHeadMovesAtATime ==
    [][up => \A b, d \in BranchId :
          /\ b \in Branches /\ branches'[b] # branches[b]
          /\ d \in Branches /\ branches'[d] # branches[d]
          => b = d]_vars
=============================================================================
