------------------------------ MODULE ModelSync ------------------------------
(***************************************************************************)
(* Model synchronisation of one provider connection: a durable job fetches *)
(* the provider's model list, stores a review, and applies it once a user  *)
(* approved it (crates/core/src/app/model_sync.rs and                      *)
(* crates/storage/src/model_sync.rs).  Jobs, calls of several clients, the *)
(* user's own edits, archiving and restarts interleave.                    *)
(*                                                                         *)
(* Every storage call is one transaction under the connection mutex and    *)
(* one action.  Reads whose answer is used in a later transaction are      *)
(* actions of their own.                                                   *)
(*                                                                         *)
(* Abstractions.  A hash stands for what it is the hash of.  A timestamp   *)
(* is the next value of a clock.  A route is its miss count.  Presets and  *)
(* capability observations are one number, their version.  Polling and     *)
(* acknowledging outbox events is left out.                                *)
(*                                                                         *)
(* A definition Faulty<X> is what a plausible mistake would make of <X>.   *)
(* No specification uses it: it shows that a property notices the mistake. *)
(***************************************************************************)
EXTENDS Naturals, FiniteSets, Sequences

CONSTANTS
    Clients,     \* threads that may call into Core at the same time
    Models,      \* models the provider may list
    MaxJobs,     \* bound on jobs ever created
    MaxEdits,    \* bound on the user's edits of connection, routes and presets
    MaxWork      \* bound on both together, a job counting for two edits

ASSUME SyncAssumption ==
    /\ MaxJobs \in Nat
    /\ MaxEdits \in Nat
    /\ IsFiniteSet(Models)
    /\ MaxWork \in Nat

VARIABLES
    connection,  \* the row in provider_connections
    archived,    \* its archived_at is set
    routes,      \* provider_models: miss count, or Absent
    extras,      \* generation_presets and model_capability_observations
    clock,       \* the last timestamp handed out
    edits,       \* user edits so far
    jobs,        \* table model_sync_jobs
    jobCount,    \* ids 1..jobCount are in use
    outbox,      \* table model_sync_event_outbox
    touched,     \* history: someone else wrote the graph while the job was open
    calls,       \* the call each client is in
    tasks,       \* run_model_sync of each job
    up,          \* the process is running and has recovered its data
    storeFails   \* store calls may fail: their transaction, or reading back after it

graphVars == <<connection, archived, routes, extras, clock, edits>>
jobVars == <<jobs, jobCount, outbox, touched>>
vars == <<connection, archived, routes, extras, clock, edits, jobs, jobCount,
          outbox, touched, calls, tasks, up, storeFails>>

-----------------------------------------------------------------------------
JobId == 1..MaxJobs
Jobs == 1..jobCount

Active == {"created", "fetching", "review", "committing"}
Terminal == {"completed", "failed", "cancelled"}
State == Active \cup Terminal \cup {"interrupted"}

Absent == [known |-> FALSE, miss |-> 0]
Route == [known : BOOLEAN, miss : Nat]
Connection == [label : Nat, status : {"connected", "unavailable"}, at : Nat]
Graph == [connection : Connection, routes : [Models -> Route], extras : Nat]
Review == [connection : Connection, routes : [Models -> Route],
           listed : SUBSET Models, at : Nat]

Events == [state : State, revision : Nat]
Job == [state : State \cup {"absent"}, revision : Nat, base : Graph, review : Review,
        approved : BOOLEAN]
Call == [op : {"idle", "create", "launch", "cancel", "signal", "mark", "commit", "fail", "edit"},
         job : 0..MaxJobs, revision : Nat, state : State \cup {"absent"},
         seen : Connection, review : Review]
Task == [pc : {"none", "begin", "read", "list", "check", "diff", "store", "attempted",
               "compare", "save", "fail", "over"},
         signal : BOOLEAN, revision : Nat, connection : Connection,
         listed : SUBSET Models, review : Review]

FirstConnection == [label |-> 0, status |-> "connected", at |-> 0]
NoGraph == [connection |-> FirstConnection, routes |-> [m \in Models |-> Absent],
            extras |-> 0]
NoReview == [connection |-> FirstConnection, routes |-> [m \in Models |-> Absent],
             listed |-> {}, at |-> 0]
NoJob == [state |-> "absent", revision |-> 0, base |-> NoGraph,
          review |-> NoReview, approved |-> FALSE]
Idle == [op |-> "idle", job |-> 0, revision |-> 0, state |-> "absent",
         seen |-> FirstConnection, review |-> NoReview]
NoTask == [pc |-> "none", signal |-> FALSE, revision |-> 0,
           connection |-> FirstConnection, listed |-> {}, review |-> NoReview]

CurrentGraph == [connection |-> connection, routes |-> routes, extras |-> extras]

(* A graph write by anyone but job except, as the open jobs see it. *)
TouchedBy(except) ==
    [j \in JobId |->
        touched[j] \/ (j \in Jobs /\ j # except /\ jobs[j].state \notin Terminal)]

-----------------------------------------------------------------------------
Init ==
    /\ connection = FirstConnection
    /\ archived = FALSE
    /\ routes \in [Models -> {Absent, [known |-> TRUE, miss |-> 0]}]
    /\ extras = 0
    /\ clock = 0
    /\ edits = 0
    /\ jobs = [j \in JobId |-> NoJob]
    /\ jobCount = 0
    /\ outbox = [j \in JobId |-> <<>>]
    /\ touched = [j \in JobId |-> FALSE]
    /\ calls = [c \in Clients |-> Idle]
    /\ tasks = [j \in JobId |-> NoTask]
    /\ up = TRUE
    /\ storeFails \in BOOLEAN

Work == 2 * jobCount + edits + IF storeFails THEN 1 ELSE 0
MayStart == jobCount < MaxJobs /\ Work + 2 <= MaxWork
MayEdit == edits < MaxEdits /\ Work < MaxWork

Ready(c) == up /\ calls[c] = Idle
Return(c) == calls' = [calls EXCEPT ![c] = Idle]
Signal(c, j) == calls' = [calls EXCEPT ![c] = [Idle EXCEPT !.op = "signal", !.job = j]]

(* The transaction is committed, but the row cannot be read back, and the  *)
(* caller is told of a failure.                                            *)
Unread(c) == storeFails /\ Return(c)

(* The compare-and-set all transitions share: the job is in the state and  *)
(* the revision that the caller read.                                      *)
Unchanged(j, state, revision) ==
    jobs[j].state = state /\ jobs[j].revision = revision

Event(state, revision) == [state |-> state, revision |-> revision]

(* A transition and its outbox event, in one transaction. *)
Transition(j, state) ==
    /\ jobs' = [jobs EXCEPT ![j].state = state, ![j].revision = @ + 1]
    /\ outbox' = [outbox EXCEPT ![j] = Append(@, Event(state, jobs[j].revision + 1))]
    /\ UNCHANGED <<storeFails, jobCount, touched>>

-----------------------------------------------------------------------------
(* start_provider_model_sync reads the connection, creates the job against *)
(* that very row, and only then registers and spawns the task.             *)
BeginStart(c) ==
    /\ Ready(c)
    /\ ~archived
    /\ MayStart
    /\ calls' = [calls EXCEPT ![c] = [Idle EXCEPT !.op = "create", !.seen = connection]]
    /\ UNCHANGED <<storeFails, graphVars, jobVars, tasks, up>>

NoActiveJob == \A j \in Jobs : jobs[j].state \notin Active

CreateModelSyncJob(c) ==
    /\ calls[c].op = "create"
    /\ MayStart
    /\ NoActiveJob
    /\ ~archived /\ connection = calls[c].seen
    /\ LET j == jobCount + 1
       IN  /\ jobCount' = j
           /\ jobs' = [jobs EXCEPT ![j] =
                 [NoJob EXCEPT !.state = "created", !.revision = 1, !.base = CurrentGraph]]
           /\ outbox' = [outbox EXCEPT ![j] = <<Event("created", 1)>>]
           /\ \/ calls' = [calls EXCEPT ![c] = [Idle EXCEPT !.op = "launch", !.job = j]]
              \/ Unread(c)
    /\ UNCHANGED <<storeFails, graphVars, touched, tasks, up>>

CreateRefused(c) ==
    /\ calls[c].op = "create"
    /\ \/ ~MayStart
       \/ ~NoActiveJob
       \/ archived
       \/ connection # calls[c].seen
    /\ Return(c)
    /\ UNCHANGED <<storeFails, graphVars, jobVars, tasks, up>>

Launch(c) ==
    /\ calls[c].op = "launch"
    /\ tasks' = [tasks EXCEPT ![calls[c].job] = [NoTask EXCEPT !.pc = "begin"]]
    /\ Return(c)
    /\ UNCHANGED <<storeFails, graphVars, jobVars, up>>

-----------------------------------------------------------------------------
(* cancel_provider_model_sync: read, transition, then tell the task. *)
BeginCancel(c, j) ==
    /\ Ready(c)
    /\ jobs[j].state \notin {"completed", "failed", "committing"}
    /\ IF jobs[j].state = "cancelled"
       THEN Signal(c, j)
       ELSE calls' = [calls EXCEPT ![c] =
               [Idle EXCEPT !.op = "cancel", !.job = j, !.revision = jobs[j].revision,
                            !.state = jobs[j].state]]
    /\ UNCHANGED <<storeFails, graphVars, jobVars, tasks, up>>

CancelModelSyncJob(c) ==
    /\ calls[c].op = "cancel"
    /\ IF Unchanged(calls[c].job, calls[c].state, calls[c].revision)
       THEN /\ Transition(calls[c].job, "cancelled")
            /\ Signal(c, calls[c].job) \/ Unread(c)
       ELSE UNCHANGED jobVars /\ Return(c)
    /\ UNCHANGED <<storeFails, graphVars, tasks, up>>

SignalTask(c) ==
    /\ calls[c].op = "signal"
    /\ tasks' = [tasks EXCEPT ![calls[c].job].signal =
                    @ \/ tasks[calls[c].job].pc \notin {"none", "over"}]
    /\ Return(c)
    /\ UNCHANGED <<storeFails, graphVars, jobVars, up>>

-----------------------------------------------------------------------------
(* approve_provider_model_sync.  The client passes the hash of a review it *)
(* was shown, perhaps that of another job.                                 *)
BeginApprove(c, j, review) ==
    /\ Ready(c)
    /\ jobs[j].state = "review"
    /\ jobs[j].review = review
    /\ calls' = [calls EXCEPT ![c] =
          [Idle EXCEPT !.op = "mark", !.job = j, !.revision = jobs[j].revision,
                       !.review = review]]
    /\ UNCHANGED <<storeFails, graphVars, jobVars, tasks, up>>

Commit(c, j, revision) ==
    calls' = [calls EXCEPT ![c] =
                 [Idle EXCEPT !.op = "commit", !.job = j, !.revision = revision]]

(* A job that another approval completed meanwhile is as good as marked. *)
MarkCommitting(c) ==
    LET j == calls[c].job
    IN  /\ calls[c].op = "mark"
        /\ \/ /\ jobs[j].state = "completed"
              /\ jobs[j].review = calls[c].review
              /\ Commit(c, j, jobs[j].revision)
              /\ UNCHANGED jobVars
           \/ /\ Unchanged(j, "review", calls[c].revision)
              /\ jobs[j].review = calls[c].review
              /\ jobs' = [jobs EXCEPT ![j].state = "committing", ![j].revision = @ + 1,
                                      ![j].approved = TRUE]
              /\ outbox' = [outbox EXCEPT ![j] =
                               Append(@, Event("committing", jobs[j].revision + 1))]
              /\ Commit(c, j, jobs[j].revision + 1) \/ Unread(c)
              /\ UNCHANGED <<storeFails, jobCount, touched>>
        /\ UNCHANGED <<storeFails, graphVars, tasks, up>>

MarkRefused(c) ==
    LET j == calls[c].job
    IN  /\ calls[c].op = "mark"
        /\ jobs[j].state # "completed"
        /\ ~Unchanged(j, "review", calls[c].revision)
        /\ Return(c)
        /\ UNCHANGED <<storeFails, graphVars, jobVars, tasks, up>>

(* The routes a review leaves: a listed model is known and no longer       *)
(* missed, an omitted one is missed once more.                             *)
Reconciled(rows, listed) ==
    [m \in Models |->
        IF m \in listed THEN [known |-> TRUE, miss |-> 0]
        ELSE IF rows[m].known THEN [rows[m] EXCEPT !.miss = @ + 1]
        ELSE rows[m]]

(* Nothing the review was computed from has changed since the job began. *)
FaultyGraphMatches(j) ==
    /\ connection = jobs[j].base.connection
    /\ routes = jobs[j].review.routes
GraphMatches(j) ==
    /\ connection = jobs[j].review.connection
    /\ CurrentGraph = jobs[j].base
    /\ routes = jobs[j].review.routes

CommitAllowed(c) ==
    /\ Unchanged(calls[c].job, "committing", calls[c].revision)
    /\ jobs[calls[c].job].approved
    /\ ~archived
    /\ GraphMatches(calls[c].job)

ApplyReview(j) ==
    /\ routes' = Reconciled(routes, jobs[j].review.listed)
    /\ extras' = extras + 1
    /\ connection' = [connection EXCEPT !.status = "connected", !.at = jobs[j].review.at]
    /\ jobs' = [jobs EXCEPT ![j].state = "completed", ![j].revision = @ + 1]
    /\ outbox' = [outbox EXCEPT ![j] = Append(@, Event("completed", jobs[j].revision + 1))]
    /\ touched' = TouchedBy(j)
    /\ UNCHANGED <<storeFails, archived, clock, edits, jobCount>>

CommitModelSyncJob(c) ==
    /\ calls[c].op = "commit"
    /\ \/ jobs[calls[c].job].state = "completed" /\ UNCHANGED <<storeFails, graphVars, jobVars>>
       \/ CommitAllowed(c) /\ ApplyReview(calls[c].job)
    /\ Return(c)
    /\ UNCHANGED <<storeFails, tasks, up>>

CommitFails(c) ==
    /\ calls[c].op = "commit"
    /\ jobs[calls[c].job].state # "completed"
    /\ storeFails \/ ~CommitAllowed(c)
    /\ calls' = [calls EXCEPT ![c].op = "fail"]
    /\ UNCHANGED <<storeFails, graphVars, jobVars, tasks, up>>

(* fail_model_sync_job: its read and its transition are two transactions,  *)
(* but the revision it compares was read before both, so only the second   *)
(* counts.  Its own failure is ignored.                                    *)
FailModelSyncJob(j, revision, stored) ==
    IF stored /\ jobs[j].state \notin Terminal /\ jobs[j].revision = revision
    THEN Transition(j, "failed")
    ELSE UNCHANGED jobVars

AbortCommit(c, stored) ==
    /\ calls[c].op = "fail"
    /\ FailModelSyncJob(calls[c].job, calls[c].revision, stored)
    /\ Return(c)
    /\ UNCHANGED <<storeFails, graphVars, tasks, up>>

-----------------------------------------------------------------------------
(* The user's own writes.  upsert_provider_connection reads the row, lays  *)
(* the new label over it and saves it whole in a second transaction.       *)
BeginEdit(c) ==
    /\ Ready(c)
    /\ ~archived
    /\ MayEdit
    /\ calls' = [calls EXCEPT ![c] = [Idle EXCEPT !.op = "edit", !.seen = connection]]
    /\ UNCHANGED <<storeFails, graphVars, jobVars, tasks, up>>

SaveEdit(c) ==
    /\ calls[c].op = "edit"
    /\ IF archived \/ ~MayEdit
       THEN UNCHANGED <<storeFails, graphVars, jobVars>>
       ELSE /\ connection' = [calls[c].seen EXCEPT !.label = edits + 1, !.at = clock + 1]
            /\ clock' = clock + 1
            /\ edits' = edits + 1
            /\ touched' = TouchedBy(0)
            /\ UNCHANGED <<storeFails, archived, routes, extras, jobs, jobCount, outbox>>
    /\ Return(c)
    /\ UNCHANGED <<storeFails, tasks, up>>

SavePreset(c) ==
    /\ Ready(c)
    /\ ~archived
    /\ MayEdit
    /\ \E m \in Models : routes[m].known
    /\ extras' = extras + 1
    /\ edits' = edits + 1
    /\ touched' = TouchedBy(0)
    /\ UNCHANGED <<storeFails, connection, archived, routes, clock, jobs, jobCount, outbox, calls,
                   tasks, up>>

DeleteModelRoute(c, m) ==
    /\ Ready(c)
    /\ MayEdit
    /\ routes[m].known
    /\ routes' = [routes EXCEPT ![m] = Absent]
    /\ extras' = extras + 1   \* its presets and observations go with it
    /\ edits' = edits + 1
    /\ touched' = TouchedBy(0)
    /\ UNCHANGED <<storeFails, connection, archived, clock, jobs, jobCount, outbox, calls,
                   tasks, up>>

NoUnfinishedWork == \A j \in Jobs : jobs[j].state \in Terminal

DeleteProviderConnection(c) ==
    /\ Ready(c)
    /\ ~archived
    /\ NoUnfinishedWork
    /\ archived' = TRUE
    /\ UNCHANGED <<storeFails, connection, routes, extras, clock, edits, jobVars, calls, tasks, up>>

-----------------------------------------------------------------------------
(* run_model_sync.  Every early return goes through the failure path. *)
TaskAt(j, pc) == tasks[j].pc = pc
Step(j, pc) == tasks' = [tasks EXCEPT ![j].pc = pc]
Attempted(j) == tasks' = [tasks EXCEPT ![j].pc = "attempted", ![j].listed = {}]
Fail(j, revision) ==
    tasks' = [tasks EXCEPT ![j] = [NoTask EXCEPT !.pc = "fail", !.revision = revision]]
Finish(j) == tasks' = [tasks EXCEPT ![j] = [NoTask EXCEPT !.pc = "over"]]

(* Only a cancellation can precede the task's first step; it is terminal,  *)
(* so the revision its failure is reported with does not matter.           *)
TaskBegins(j) ==
    /\ TaskAt(j, "begin")
    /\ IF Unchanged(j, "created", 1)
       THEN /\ Transition(j, "fetching")
            /\ \/ tasks' = [tasks EXCEPT ![j].pc = "read", ![j].revision = 2]
               \/ storeFails /\ Fail(j, 1)
       ELSE /\ UNCHANGED jobVars
            /\ Fail(j, 1)
    /\ UNCHANGED <<storeFails, graphVars, calls, up>>

ReadConnection(j) ==
    /\ TaskAt(j, "read")
    /\ IF archived
       THEN Fail(j, tasks[j].revision)
       ELSE tasks' = [tasks EXCEPT ![j].pc = "list", ![j].connection = connection]
    /\ UNCHANGED <<storeFails, graphVars, jobVars, calls, up>>

(* The provider's answer, an error or the cancellation the adapter sees. *)
ModelsListed(j, listed) ==
    /\ TaskAt(j, "list")
    /\ tasks' = [tasks EXCEPT ![j].pc = "check", ![j].listed = listed]
    /\ UNCHANGED <<storeFails, graphVars, jobVars, calls, up>>

ListingFails(j) ==
    /\ TaskAt(j, "list")
    /\ \/ Attempted(j)                 \* the provider refused, is unreachable, or
                                        \* its list repeats the credential
       \/ Fail(j, tasks[j].revision)   \* any other error
    /\ UNCHANGED <<storeFails, graphVars, jobVars, calls, up>>

ListingCancelled(j) ==
    /\ TaskAt(j, "list")
    /\ tasks[j].signal
    /\ Fail(j, tasks[j].revision)
    /\ UNCHANGED <<storeFails, graphVars, jobVars, calls, up>>

CheckConnection(j) ==
    /\ TaskAt(j, "check")
    /\ IF ~tasks[j].signal /\ ~archived /\ connection = tasks[j].connection
       THEN Step(j, "diff") ELSE Fail(j, tasks[j].revision)
    /\ UNCHANGED <<storeFails, graphVars, jobVars, calls, up>>

(* The routes are read in a transaction of their own. *)
ComputeReview(j) ==
    /\ TaskAt(j, "diff")
    /\ clock' = clock + 1
    /\ tasks' = [tasks EXCEPT ![j].pc = "store",
          ![j].review = [connection |-> tasks[j].connection, routes |-> routes,
                         listed |-> tasks[j].listed, at |-> clock + 1]]
    /\ UNCHANGED <<storeFails, connection, archived, routes, extras, edits, jobVars, calls, up>>

(* The list names a model twice or has no provenance (the provider's       *)
(* fault), or the review cannot be built.                                  *)
ReviewFails(j) ==
    /\ TaskAt(j, "diff")
    /\ Attempted(j) \/ Fail(j, tasks[j].revision)
    /\ UNCHANGED <<storeFails, graphVars, jobVars, calls, up>>

FaultyStoreReview(j) ==
    /\ TaskAt(j, "store")
    /\ jobs' = [jobs EXCEPT ![j].state = "review", ![j].revision = @ + 1,
                            ![j].review = tasks[j].review]
    /\ outbox' = [outbox EXCEPT ![j] = Append(@, Event("review", jobs[j].revision + 1))]
    /\ Finish(j)
    /\ UNCHANGED <<storeFails, graphVars, jobCount, touched, calls, up>>
StoreReview(j) ==
    /\ TaskAt(j, "store")
    /\ IF /\ Unchanged(j, "fetching", tasks[j].revision)
          /\ tasks[j].review.connection = jobs[j].base.connection
       THEN /\ jobs' = [jobs EXCEPT ![j].state = "review", ![j].revision = @ + 1,
                                    ![j].review = tasks[j].review]
            /\ outbox' = [outbox EXCEPT ![j] =
                             Append(@, Event("review", jobs[j].revision + 1))]
            /\ Finish(j) \/ (storeFails /\ Fail(j, tasks[j].revision))
            /\ UNCHANGED <<storeFails, jobCount, touched>>
       ELSE UNCHANGED jobVars /\ Fail(j, tasks[j].revision)
    /\ UNCHANGED <<storeFails, graphVars, calls, up>>

(* record_model_refresh_failure: the row is read twice, compared with      *)
(* itself and saved whole in a third transaction.                          *)
ReadAttempted(j) ==
    /\ TaskAt(j, "attempted")
    /\ IF archived
       THEN Fail(j, tasks[j].revision)
       ELSE tasks' = [tasks EXCEPT ![j].pc = "compare", ![j].connection = connection]
    /\ UNCHANGED <<storeFails, graphVars, jobVars, calls, up>>

CompareAttempted(j) ==
    /\ TaskAt(j, "compare")
    /\ IF ~archived /\ connection = tasks[j].connection
       THEN Step(j, "save") ELSE Fail(j, tasks[j].revision)
    /\ UNCHANGED <<storeFails, graphVars, jobVars, calls, up>>

SaveUnavailable(j) ==
    /\ TaskAt(j, "save")
    /\ IF archived
       THEN UNCHANGED <<storeFails, graphVars, jobVars>>
       ELSE /\ connection' = [tasks[j].connection EXCEPT !.status = "unavailable",
                                                         !.at = clock + 1]
            /\ clock' = clock + 1
            /\ touched' = TouchedBy(0)
            /\ UNCHANGED <<storeFails, archived, routes, extras, edits, jobs, jobCount, outbox>>
    /\ Fail(j, tasks[j].revision)
    /\ UNCHANGED <<storeFails, calls, up>>

FailTask(j, stored) ==
    /\ TaskAt(j, "fail")
    /\ FailModelSyncJob(j, tasks[j].revision, stored)
    /\ Finish(j)
    /\ UNCHANGED <<storeFails, graphVars, calls, up>>

-----------------------------------------------------------------------------
(* The process ends: calls, tasks and the registry are gone.  An orderly   *)
(* end cancels every listing first, which ListingFails covers.             *)
Crash ==
    /\ up
    /\ up' = FALSE
    /\ calls' = [c \in Clients |-> Idle]
    /\ tasks' = [j \in JobId |-> NoTask]
    /\ UNCHANGED <<storeFails, graphVars, jobVars>>

Abandoned == {j \in Jobs : jobs[j].state \in {"created", "fetching", "committing"}}

RecoverInterruptedJobs ==
    /\ ~up
    /\ up' = TRUE
    /\ jobs' = [j \in JobId |->
          IF j \in Abandoned
          THEN [jobs[j] EXCEPT !.state = "interrupted", !.revision = @ + 1]
          ELSE jobs[j]]
    /\ outbox' = [j \in JobId |->
          IF j \in Abandoned
          THEN Append(outbox[j], Event("interrupted", jobs[j].revision + 1))
          ELSE outbox[j]]
    /\ UNCHANGED <<storeFails, graphVars, jobCount, touched, calls, tasks>>

-----------------------------------------------------------------------------
Stored == IF storeFails THEN BOOLEAN ELSE {TRUE}

(* A call once begun runs to its end, whatever the user does next. *)
CallStep(c) ==
    \/ CreateModelSyncJob(c)
    \/ CreateRefused(c)
    \/ Launch(c)
    \/ CancelModelSyncJob(c)
    \/ SignalTask(c)
    \/ MarkCommitting(c)
    \/ MarkRefused(c)
    \/ CommitModelSyncJob(c)
    \/ CommitFails(c)
    \/ \E stored \in Stored : AbortCommit(c, stored)
    \/ SaveEdit(c)

UserStep(c) ==
    \/ BeginStart(c)
    \/ \E j \in Jobs : BeginCancel(c, j)
    \/ \E j, k \in Jobs : BeginApprove(c, j, jobs[k].review)
    \/ BeginEdit(c)
    \/ SavePreset(c)
    \/ \E m \in Models : DeleteModelRoute(c, m)
    \/ DeleteProviderConnection(c)

TaskStep(j) ==
    \/ TaskBegins(j)
    \/ ReadConnection(j)
    \/ \E listed \in SUBSET Models : ModelsListed(j, listed)
    \/ ListingFails(j)
    \/ ListingCancelled(j)
    \/ CheckConnection(j)
    \/ ComputeReview(j)
    \/ ReviewFails(j)
    \/ StoreReview(j)
    \/ ReadAttempted(j)
    \/ CompareAttempted(j)
    \/ SaveUnavailable(j)
    \/ \E stored \in Stored : FailTask(j, stored)

Next ==
    \/ \E c \in Clients : CallStep(c) \/ UserStep(c)
    \/ \E j \in JobId : TaskStep(j)
    \/ Crash
    \/ RecoverInterruptedJobs

Spec == Init /\ [][Next]_vars

(* A call runs to its end, the runtime polls the task, and every listing   *)
(* request has a timeout; nothing makes the user act or the process crash. *)
Fairness ==
    /\ \A c \in Clients : WF_vars(CallStep(c))
    /\ \A j \in JobId : WF_vars(TaskStep(j))

FairSpec == Spec /\ Fairness

-----------------------------------------------------------------------------
(* Every variable keeps the shape of its table or its in-memory record. *)
TypeOK ==
    /\ connection \in Connection
    /\ archived \in BOOLEAN
    /\ routes \in [Models -> Route]
    /\ extras \in Nat
    /\ clock \in Nat
    /\ edits \in 0..MaxEdits
    /\ storeFails \in BOOLEAN
    /\ jobs \in [JobId -> Job]
    /\ jobCount \in 0..MaxJobs
    /\ outbox \in [JobId -> Seq(Events)]
    /\ touched \in [JobId -> BOOLEAN]
    /\ calls \in [Clients -> Call]
    /\ tasks \in [JobId -> Task]
    /\ up \in BOOLEAN

(* A connection has one active synchronisation, however many clients start *)
(* one and whatever a restart interrupted.                                 *)
OneActiveJob ==
    \A j, k \in Jobs :
        jobs[j].state \in Active /\ jobs[k].state \in Active => j = k

(* The outbox tells the whole story of a job: event n belongs to revision  *)
(* n, the last one names the job's state, and only the last one can be     *)
(* terminal.  A host that has seen every event knows where the job is,     *)
(* through cancellations, failures and restarts.                           *)
EventsFollowRevisions ==
    \A j \in Jobs :
        /\ Len(outbox[j]) = jobs[j].revision
        /\ \A n \in 1..Len(outbox[j]) :
              /\ outbox[j][n].revision = n
              /\ outbox[j][n].state \in Terminal => n = Len(outbox[j])
        /\ outbox[j][Len(outbox[j])].state = jobs[j].state

(* "approval fails if another writer changes that graph"                   *)
(* (docs/architecture/model-sync.md): a job completes only if nobody else  *)
(* wrote the connection, its routes, presets or observations since the job *)
(* was created, so no edit is undone by an older review.                   *)
CommitKeepsOtherWrites ==
    \A j \in Jobs : jobs[j].state = "completed" => ~touched[j]

(* A route is missed at most once per completed job that omitted it: two   *)
(* approvals of one review, a repeated call or a restart in the middle     *)
(* never count an omission twice.                                          *)
MissesCountOmissions ==
    \A m \in Models :
        routes[m].miss <=
            Cardinality({j \in Jobs : jobs[j].state = "completed"
                                        /\ m \notin jobs[j].review.listed})

(* Nothing is left to do on an archived connection: every job has ended,   *)
(* also one whose start raced the archiving.                               *)
ArchivedIsQuiet == archived => \A j \in Jobs : jobs[j].state \in Terminal

(* After a restart no job waits for a process that is gone: one that is    *)
(* created or fetching has its task or the call that will launch it, and   *)
(* one that is committing has its approval, unless the store refused to    *)
(* record the end.                                                         *)
SomeoneIsResponsible ==
    up /\ ~storeFails => \A j \in Jobs :
        /\ jobs[j].state \in {"created", "fetching"} =>
              \/ tasks[j].pc \notin {"none", "over"}
              \/ \E c \in Clients : calls[c].op = "launch" /\ calls[c].job = j
        /\ jobs[j].state = "committing" =>
              \E c \in Clients :
                 calls[c].op \in {"commit", "fail"} /\ calls[c].job = j

(* Whatever clients, tasks, edits, archiving, failures of the store and    *)
(* restarts do: one job is active and someone is responsible for it, its   *)
(* events tell its story, an approval undoes no other write and counts an  *)
(* omission once, and an archived connection has no open job.              *)
JobsAreSound ==
    /\ TypeOK
    /\ OneActiveJob
    /\ SomeoneIsResponsible
    /\ EventsFollowRevisions
    /\ CommitKeepsOtherWrites
    /\ MissesCountOmissions
    /\ ArchivedIsQuiet

(* What has ended stays as it is: a late task, a second approval or a      *)
(* crossing cancellation never reopens or rewrites a finished job.         *)
TerminalIsFinal ==
    [][\A j \in Jobs :
          jobs[j].state \in Terminal =>
             jobs'[j] = jobs[j] /\ outbox'[j] = outbox[j]]_vars

(* With a store that works, a job does not stay in a state only the        *)
(* program can end.                                                        *)
JobSettles ==
    \A j \in JobId :
        (~storeFails /\ jobs[j].state \in {"created", "fetching", "committing"})
            ~> (jobs[j].state \notin {"created", "fetching", "committing"} \/ ~up)
=============================================================================
