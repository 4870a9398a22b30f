--------------------------- MODULE ModelSyncProofs --------------------------
(***************************************************************************)
(* Model synchronisation is sound for every number of clients, models,     *)
(* jobs and edits, with a store that works or fails, through any number of *)
(* restarts.                                                               *)
(***************************************************************************)
EXTENDS ModelSync, FiniteSetTheorems, TLAPS

(* A row of the table is a job that was created; nothing else has a task.  *)
RowsAreJobs ==
    /\ \A j \in Jobs : jobs[j].state \in State /\ jobs[j].revision > 0
    /\ \A j \in Jobs : jobs[j].state = "created" => jobs[j].revision = 1
    /\ \A j \in JobId \ Jobs : tasks[j].pc = "none" /\ ~touched[j]

(* What a call holds from one transaction to the next.                     *)
CallsNameJobs ==
    \A c \in Clients :
        /\ calls[c].op \in {"launch", "cancel", "signal", "mark", "commit", "fail"} =>
              calls[c].job \in Jobs
        /\ calls[c].op = "cancel" =>
              calls[c].state \in {"created", "fetching", "review", "interrupted"}

(* A process that is down has no calls and no tasks.                       *)
DownIsIdle ==
    ~up => (\A c \in Clients : calls[c] = Idle) /\ (\A j \in JobId : tasks[j] = NoTask)

(* Timestamps and versions only grow.                                      *)
TimesAreOver ==
    /\ connection.at <= clock
    /\ \A j \in JobId : /\ jobs[j].review.at <= clock /\ tasks[j].review.at <= clock
                        /\ jobs[j].base.connection.at <= clock /\ jobs[j].base.extras <= extras

(* Somebody else's write shows in the graph a commit would compare.        *)
WritesShow ==
    \A j \in Jobs : jobs[j].state \notin Terminal /\ touched[j] =>
        extras > jobs[j].base.extras \/ connection.at > jobs[j].base.connection.at

(* One call launches the task of a job, before it has begun.               *)
LaunchedOnce ==
    \A c \in Clients : calls[c].op = "launch" =>
        /\ tasks[calls[c].job].pc = "none" /\ jobs[calls[c].job].state # "fetching"
        /\ \A d \in Clients : calls[d].op = "launch" /\ calls[d].job = calls[c].job => c = d

(* With a store that works, a task knows the revision of the job it runs.  *)
TaskKnowsRevision ==
    \A j \in JobId :
        /\ tasks[j].pc = "begin" => jobs[j].state # "fetching"
        /\ ~storeFails /\ tasks[j].pc \notin {"none", "begin", "over"} =>
              /\ jobs[j].state # "created"
              /\ jobs[j].state = "fetching" => jobs[j].revision = tasks[j].revision

(* ... and so does the approval that commits it.                           *)
CommitKnowsRevision ==
    up /\ ~storeFails => \A j \in Jobs :
        jobs[j].state = "committing" =>
            \E c \in Clients : /\ calls[c].op \in {"commit", "fail"}
                               /\ calls[c].job = j /\ calls[c].revision = jobs[j].revision

(* The inductive invariant: what the runs check, and what keeps it true.   *)
IInv ==
    /\ JobsAreSound
    /\ RowsAreJobs /\ CallsNameJobs /\ DownIsIdle /\ TimesAreOver
    /\ WritesShow /\ LaunchedOnce /\ TaskKnowsRevision /\ CommitKnowsRevision

-----------------------------------------------------------------------------
USE DEF Return, Signal, Unread, Commit, Fail, Finish, Step, Attempted, TaskAt,
        Transition, Event, Ready, graphVars, jobVars

(* The records the model starts from have their types.                     *)
LEMMA Constants ==
    /\ FirstConnection \in Connection /\ Absent \in Route
    /\ NoGraph \in Graph /\ NoReview \in Review
    /\ NoReview.at = 0 /\ NoGraph.connection.at = 0 /\ NoGraph.extras = 0
BY DEF FirstConnection, Connection, Absent, Route, NoGraph, Graph, NoReview, Review

(* Every record a client stores for its call is a call.                    *)
LEMMA CallRecords ==
    /\ Idle \in Call
    /\ \A x \in Connection : /\ [Idle EXCEPT !.op = "create", !.seen = x] \in Call
                             /\ [Idle EXCEPT !.op = "edit", !.seen = x] \in Call
    /\ \A j \in 0..MaxJobs : /\ [Idle EXCEPT !.op = "launch", !.job = j] \in Call
                             /\ [Idle EXCEPT !.op = "signal", !.job = j] \in Call
    /\ \A j \in 0..MaxJobs, r \in Nat :
         /\ [Idle EXCEPT !.op = "commit", !.job = j, !.revision = r] \in Call
         /\ \A s \in State : [Idle EXCEPT !.op = "cancel", !.job = j, !.revision = r, !.state = s] \in Call
         /\ \A v \in Review : [Idle EXCEPT !.op = "mark", !.job = j, !.revision = r, !.review = v] \in Call
    /\ \A x \in Call : [x EXCEPT !.op = "fail"] \in Call
<1>0. /\ 0 \in 0..MaxJobs /\ "absent" \in State \cup {"absent"}
      /\ FirstConnection \in Connection /\ NoReview \in Review
  BY Constants, SyncAssumption
<1>1. Idle \in Call
  BY <1>0 DEF Idle, Call
<1>2. ASSUME NEW x \in Connection
      PROVE  /\ [Idle EXCEPT !.op = "create", !.seen = x] \in Call
             /\ [Idle EXCEPT !.op = "edit", !.seen = x] \in Call
  BY <1>0 DEF Idle, Call
<1>3. ASSUME NEW j \in 0..MaxJobs
      PROVE  /\ [Idle EXCEPT !.op = "launch", !.job = j] \in Call
             /\ [Idle EXCEPT !.op = "signal", !.job = j] \in Call
  BY <1>0 DEF Idle, Call
<1>4. ASSUME NEW j \in 0..MaxJobs, NEW r \in Nat
      PROVE  [Idle EXCEPT !.op = "commit", !.job = j, !.revision = r] \in Call
  BY <1>0 DEF Idle, Call
<1>5. ASSUME NEW j \in 0..MaxJobs, NEW r \in Nat, NEW s \in State
      PROVE  [Idle EXCEPT !.op = "cancel", !.job = j, !.revision = r, !.state = s] \in Call
  BY <1>0 DEF Idle, Call
<1>6. ASSUME NEW j \in 0..MaxJobs, NEW r \in Nat, NEW v \in Review
      PROVE  [Idle EXCEPT !.op = "mark", !.job = j, !.revision = r, !.review = v] \in Call
  BY <1>0 DEF Idle, Call
<1>7. ASSUME NEW x \in Call PROVE [x EXCEPT !.op = "fail"] \in Call
  BY DEF Call
<1> QED BY <1>1, <1>2, <1>3, <1>4, <1>5, <1>6, <1>7


(* Every record a task is started or ended with is a task.                 *)
LEMMA TaskRecords ==
    /\ NoTask \in Task
    /\ [NoTask EXCEPT !.pc = "begin"] \in Task
    /\ [NoTask EXCEPT !.pc = "over"] \in Task
    /\ \A r \in Nat : [NoTask EXCEPT !.pc = "fail", !.revision = r] \in Task
BY Constants DEF NoTask, Task

(* Every update of a running task leaves a task.                           *)
LEMMA TaskUpdates ==
    ASSUME NEW t \in Task
    PROVE  /\ \A p \in {"diff", "save"} : [t EXCEPT !.pc = p] \in Task
           /\ \A b \in BOOLEAN : [t EXCEPT !.signal = b] \in Task
           /\ [t EXCEPT !.pc = "attempted", !.listed = {}] \in Task
           /\ [t EXCEPT !.pc = "read", !.revision = 2] \in Task
           /\ \A x \in Connection : /\ [t EXCEPT !.pc = "list", !.connection = x] \in Task
                                    /\ [t EXCEPT !.pc = "compare", !.connection = x] \in Task
           /\ \A l \in SUBSET Models : [t EXCEPT !.pc = "check", !.listed = l] \in Task
           /\ \A v \in Review : [t EXCEPT !.pc = "store", !.review = v] \in Task
BY DEF Task

(* Every update of a row leaves a row, and its event is an event.          *)
LEMMA JobUpdates ==
    ASSUME NEW x \in Job, NEW s \in State
    PROVE  /\ [x EXCEPT !.state = s, !.revision = x.revision + 1] \in Job
           /\ [x EXCEPT !.state = s, !.revision = x.revision + 1, !.approved = TRUE] \in Job
           /\ \A v \in Review : [x EXCEPT !.state = s, !.revision = x.revision + 1, !.review = v] \in Job
           /\ Event(s, x.revision + 1) \in Events
<1>1. x.revision + 1 \in Nat
  BY DEF Job
<1>2. [x EXCEPT !.state = s, !.revision = x.revision + 1] \in Job
  BY <1>1 DEF Job
<1>3. [x EXCEPT !.state = s, !.revision = x.revision + 1, !.approved = TRUE] \in Job
  BY <1>1 DEF Job
<1>4. ASSUME NEW v \in Review
      PROVE  [x EXCEPT !.state = s, !.revision = x.revision + 1, !.review = v] \in Job
  BY <1>1 DEF Job
<1>5. Event(s, x.revision + 1) \in Events
  BY <1>1 DEF Events
<1> QED BY <1>2, <1>3, <1>4, <1>5

(* A row and its event can be written into the two tables.                 *)
LEMMA RowTyped ==
    ASSUME TypeOK, NEW j \in JobId, NEW x \in Job, NEW e \in Events,
           jobs' = [jobs EXCEPT ![j] = x], outbox' = [outbox EXCEPT ![j] = Append(@, e)]
    PROVE  jobs' \in [JobId -> Job] /\ outbox' \in [JobId -> Seq(Events)]
BY DEF TypeOK

(* The history of writes by others stays a flag per job.                   *)
LEMMA TouchedTyped == ASSUME TypeOK, NEW k PROVE TouchedBy(k) \in [JobId -> BOOLEAN]
BY DEF TypeOK, TouchedBy

(* The types of the fields that the later steps read.                      *)
LEMMA Fields == ASSUME TypeOK
    PROVE  /\ Jobs \subseteq JobId /\ jobCount \in Nat
           /\ \A j \in JobId : /\ jobs[j] \in Job /\ jobs[j].revision \in Nat
                               /\ jobs[j].review \in Review /\ jobs[j].base \in Graph
                               /\ tasks[j] \in Task /\ tasks[j].revision \in Nat
                               /\ tasks[j].review \in Review /\ tasks[j].connection \in Connection
                               /\ tasks[j].listed \subseteq Models
           /\ \A c \in Clients : /\ calls[c] \in Call /\ calls[c].job \in 0..MaxJobs
                                 /\ calls[c].revision \in Nat /\ calls[c].review \in Review
                                 /\ calls[c].seen \in Connection
<1>1. Jobs \subseteq JobId /\ jobCount \in Nat
  BY SyncAssumption DEF TypeOK, Jobs, JobId
<1>2. ASSUME NEW j \in JobId
      PROVE  /\ jobs[j] \in Job /\ jobs[j].revision \in Nat
             /\ jobs[j].review \in Review /\ jobs[j].base \in Graph
  BY DEF TypeOK, Job
<1>3. ASSUME NEW j \in JobId
      PROVE  /\ tasks[j] \in Task /\ tasks[j].revision \in Nat
             /\ tasks[j].review \in Review /\ tasks[j].connection \in Connection
             /\ tasks[j].listed \subseteq Models
  BY DEF TypeOK, Task
<1>4. ASSUME NEW c \in Clients
      PROVE  /\ calls[c] \in Call /\ calls[c].job \in 0..MaxJobs
             /\ calls[c].revision \in Nat /\ calls[c].review \in Review
             /\ calls[c].seen \in Connection
  BY DEF TypeOK, Call
<1> QED BY <1>1, <1>2, <1>3, <1>4

(* Steps of a client that only its own call notices.                       *)
QuietCall(c) ==
    \/ BeginStart(c) \/ CreateRefused(c) \/ MarkRefused(c) \/ CommitFails(c) \/ BeginEdit(c)
    \/ \E j \in Jobs : BeginCancel(c, j)
    \/ \E j, k \in Jobs : BeginApprove(c, j, jobs[k].review)

(* Steps of a task that only the task notices.                             *)
QuietTask(j) ==
    \/ ReadConnection(j) \/ ListingFails(j) \/ ListingCancelled(j) \/ CheckConnection(j)
    \/ ReviewFails(j) \/ ReadAttempted(j) \/ CompareAttempted(j)
    \/ \E listed \in SUBSET Models : ModelsListed(j, listed)

(* A quiet step of a client leaves graph, jobs and tasks alone.            *)
LEMMA QuietCallSteps ==
    ASSUME NEW c, QuietCall(c)
    PROVE  UNCHANGED <<storeFails, graphVars, jobVars, tasks, up>>
BY DEF QuietCall, BeginStart, CreateRefused, MarkRefused, CommitFails, BeginEdit,
       BeginCancel, BeginApprove

(* A quiet step of a task leaves graph, jobs and calls alone.              *)
LEMMA QuietTaskSteps ==
    ASSUME NEW j, QuietTask(j)
    PROVE  UNCHANGED <<storeFails, graphVars, jobVars, calls, up>>
BY DEF QuietTask, ReadConnection, ListingFails, ListingCancelled, CheckConnection,
       ReviewFails, ReadAttempted, CompareAttempted, ModelsListed

(* Every other step is one of these. *)
LoudStep ==
    \/ \E c \in Clients :
          \/ CreateModelSyncJob(c) \/ Launch(c) \/ CancelModelSyncJob(c) \/ SignalTask(c)
          \/ MarkCommitting(c) \/ CommitModelSyncJob(c) \/ SaveEdit(c) \/ SavePreset(c)
          \/ DeleteProviderConnection(c)
          \/ \E stored \in Stored : AbortCommit(c, stored)
          \/ \E m \in Models : DeleteModelRoute(c, m)
    \/ \E j \in JobId :
          \/ TaskBegins(j) \/ ComputeReview(j) \/ StoreReview(j) \/ SaveUnavailable(j)
          \/ \E stored \in Stored : FailTask(j, stored)
    \/ Crash
    \/ RecoverInterruptedJobs

(* Every step is quiet or one of the loud ones.                            *)
LEMMA StepCases ==
    ASSUME Next
    PROVE  \/ \E c \in Clients : QuietCall(c)
           \/ \E j \in JobId : QuietTask(j)
           \/ LoudStep
BY DEF Next, CallStep, UserStep, TaskStep, QuietCall, QuietTask, LoudStep

-----------------------------------------------------------------------------
(* The job and its events are as they were.                                *)
RowKept(j) == jobs'[j] = jobs[j] /\ outbox'[j] = outbox[j]

(* The job moves on from a state that is not terminal and says so in its   *)
(* outbox: one revision, one event, no return to an active state, and only *)
(* the three steps named here make it fetching, committing or completed.   *)
RowAdvanced(j) ==
    /\ j \in Jobs /\ jobs[j].state \notin Terminal
    /\ jobs'[j].state \in State \ {"created"}
    /\ jobs'[j].state \in Active => jobs[j].state \in Active
    /\ jobs'[j].revision = jobs[j].revision + 1
    /\ jobs'[j].base = jobs[j].base
    /\ \/ jobs'[j].review = jobs[j].review
       \/ jobs'[j].state = "review" /\ jobs'[j].review = tasks[j].review
    /\ outbox'[j] = Append(outbox[j], Event(jobs'[j].state, jobs[j].revision + 1))
    /\ jobs'[j].state = "fetching" => TaskBegins(j)
    /\ jobs'[j].state = "committing" => \E c \in Clients : MarkCommitting(c) /\ calls[c].job = j
    /\ jobs'[j].state = "completed" =>
          \E c \in Clients : CommitAllowed(c) /\ ApplyReview(j) /\ calls[c].job = j

(* No job is created, and each is kept or advances.                        *)
TableStep ==
    /\ jobs' \in [JobId -> Job] /\ outbox' \in [JobId -> Seq(Events)]
    /\ jobCount' = jobCount
    /\ \A j \in JobId : RowKept(j) \/ RowAdvanced(j)

(* A transaction that writes one row and appends its event is a step of    *)
(* the table.                                                              *)
LEMMA OneRow ==
    ASSUME TypeOK, NEW j \in Jobs, NEW x \in Job, jobs[j].state \notin Terminal,
           jobs' = [jobs EXCEPT ![j] = x],
           outbox' = [outbox EXCEPT ![j] = Append(@, Event(x.state, jobs[j].revision + 1))],
           jobCount' = jobCount,
           x.state \in State \ {"created"}, x.state \in Active => jobs[j].state \in Active,
           x.revision = jobs[j].revision + 1, x.base = jobs[j].base,
           x.review = jobs[j].review \/ (x.state = "review" /\ x.review = tasks[j].review),
           x.state = "fetching" => TaskBegins(j),
           x.state = "committing" => \E c \in Clients : MarkCommitting(c) /\ calls[c].job = j,
           x.state = "completed" =>
              \E c \in Clients : CommitAllowed(c) /\ ApplyReview(j) /\ calls[c].job = j
    PROVE  TableStep
<1>1. j \in JobId /\ jobs[j].revision \in Nat
  BY Fields
<1>2. Event(x.state, jobs[j].revision + 1) \in Events
  BY <1>1 DEF Events
<1>3. jobs' \in [JobId -> Job] /\ outbox' \in [JobId -> Seq(Events)]
  BY <1>1, <1>2, RowTyped
<1>4. \A k \in JobId : k # j => RowKept(k)
  BY <1>1 DEF TypeOK, RowKept
<1>5. jobs'[j] = x /\ outbox'[j] = Append(outbox[j], Event(x.state, jobs[j].revision + 1))
  BY <1>1 DEF TypeOK
<1>6. RowAdvanced(j)
  BY <1>1, <1>5 DEF RowAdvanced
<1> QED BY <1>3, <1>4, <1>6 DEF TableStep

(* A transaction that writes no row is a step of the table.                *)
LEMMA NoRow ==
    ASSUME TypeOK, UNCHANGED <<jobs, jobCount, outbox>> PROVE TableStep
BY DEF TypeOK, TableStep, RowKept

(* Cancelling or failing an open job is a step of the table.               *)
LEMMA TransitionRow ==
    ASSUME TypeOK, NEW j \in Jobs, NEW s \in {"cancelled", "failed", "interrupted"},
           jobs[j].state \notin Terminal, Transition(j, s)
    PROVE  TableStep
<1> DEFINE x == [jobs[j] EXCEPT !.state = s, !.revision = @ + 1]
<1>1. j \in JobId /\ jobs[j] \in Job /\ s \in State /\ s \notin Active
  BY Fields DEF State, Active, Terminal
<1>2. x \in Job
  BY <1>1, JobUpdates
<1>3. /\ x.state = s /\ x.revision = jobs[j].revision + 1
      /\ x.base = jobs[j].base /\ x.review = jobs[j].review
  BY <1>1 DEF Job
<1>4. jobs' = [jobs EXCEPT ![j] = x]
  OBVIOUS
<1> HIDE DEF x
<1> QED BY <1>1, <1>2, <1>3, <1>4, OneRow

(* Whatever client, task, crash or restart takes a step, each row is kept  *)
(* or advances, unless the step creates a job.                             *)
LEMMA JobSteps ==
    ASSUME TypeOK, CallsNameJobs, RowsAreJobs, Next
    PROVE  TableStep \/ \E c \in Clients : CreateModelSyncJob(c)
<1>0. \A c \in Clients : calls[c].op \in {"cancel", "mark", "commit", "fail"} =>
          calls[c].job \in Jobs
  BY DEF CallsNameJobs
<1>1. ASSUME NEW c \in Clients, QuietCall(c) PROVE TableStep
  BY <1>1, QuietCallSteps, NoRow
<1>2. ASSUME NEW j \in JobId, QuietTask(j) PROVE TableStep
  BY <1>2, QuietTaskSteps, NoRow
<1>3. ASSUME NEW c \in Clients,
             Launch(c) \/ SignalTask(c) \/ SaveEdit(c) \/ SavePreset(c)
                \/ DeleteProviderConnection(c) \/ \E m \in Models : DeleteModelRoute(c, m)
      PROVE  TableStep
  BY <1>3, NoRow DEF Launch, SignalTask, SaveEdit, SavePreset, DeleteProviderConnection,
                     DeleteModelRoute
<1>4. ASSUME NEW j \in JobId, ComputeReview(j) \/ SaveUnavailable(j) PROVE TableStep
  BY <1>4, NoRow DEF ComputeReview, SaveUnavailable
<1>5. ASSUME Crash PROVE TableStep
  BY <1>5, NoRow DEF Crash
<1>6. ASSUME NEW c \in Clients, CancelModelSyncJob(c) PROVE TableStep
  <2>1. CASE UNCHANGED jobVars
    BY <2>1, NoRow
  <2>2. CASE ~UNCHANGED jobVars
    <3>1. /\ Unchanged(calls[c].job, calls[c].state, calls[c].revision)
          /\ Transition(calls[c].job, "cancelled")
          /\ calls[c].job \in Jobs
      BY <1>6, <1>0, <2>2 DEF CancelModelSyncJob
    <3>2. jobs[calls[c].job].state \notin Terminal
      BY <1>6, <3>1 DEF CancelModelSyncJob, CallsNameJobs, Unchanged, Terminal
    <3> QED BY <3>1, <3>2, TransitionRow
  <2> QED BY <2>1, <2>2
<1>7. ASSUME NEW c \in Clients, MarkCommitting(c) PROVE TableStep
  <2> DEFINE j == calls[c].job
  <2>1. CASE UNCHANGED jobVars
    BY <2>1, NoRow
  <2>2. CASE ~UNCHANGED jobVars
    <3> DEFINE x == [jobs[j] EXCEPT !.state = "committing", !.revision = @ + 1,
                                    !.approved = TRUE]
    <3>1. j \in Jobs /\ j \in JobId /\ jobs[j] \in Job /\ jobs[j].state = "review"
      BY <1>7, <1>0, <2>2, Fields DEF MarkCommitting, Unchanged
    <3>2. x \in Job
      BY <3>1, JobUpdates DEF State, Active
    <3>3. /\ jobs' = [jobs EXCEPT ![j] = x]
          /\ outbox' = [outbox EXCEPT ![j] = Append(@, Event("committing", jobs[j].revision + 1))]
          /\ jobCount' = jobCount
      BY <1>7, <2>2 DEF MarkCommitting
    <3>4. /\ x.state = "committing" /\ x.revision = jobs[j].revision + 1
          /\ x.base = jobs[j].base /\ x.review = jobs[j].review
      BY <3>1 DEF Job
    <3> HIDE DEF x
    <3> QED BY <1>7, <3>1, <3>2, <3>3, <3>4, OneRow DEF State, Active, Terminal
  <2> QED BY <2>1, <2>2
<1>8. ASSUME NEW c \in Clients, CommitModelSyncJob(c) PROVE TableStep
  <2> DEFINE j == calls[c].job
  <2>1. CASE UNCHANGED jobVars
    BY <2>1, NoRow
  <2>2. CASE ~UNCHANGED jobVars
    <3> DEFINE x == [jobs[j] EXCEPT !.state = "completed", !.revision = @ + 1]
    <3>1. /\ j \in Jobs /\ j \in JobId /\ jobs[j] \in Job
          /\ CommitAllowed(c) /\ ApplyReview(j) /\ jobs[j].state = "committing"
      BY <1>8, <1>0, <2>2, Fields DEF CommitModelSyncJob, CommitAllowed, Unchanged
    <3>2. x \in Job
      BY <3>1, JobUpdates DEF State, Terminal
    <3>3. /\ jobs' = [jobs EXCEPT ![j] = x]
          /\ outbox' = [outbox EXCEPT ![j] = Append(@, Event("completed", jobs[j].revision + 1))]
          /\ jobCount' = jobCount
      BY <3>1 DEF ApplyReview
    <3>4. /\ x.state = "completed" /\ x.revision = jobs[j].revision + 1
          /\ x.base = jobs[j].base /\ x.review = jobs[j].review
      BY <3>1 DEF Job
    <3> HIDE DEF x
    <3> QED BY <3>1, <3>2, <3>3, <3>4, OneRow DEF State, Active, Terminal
  <2> QED BY <2>1, <2>2
<1>9. ASSUME NEW c \in Clients, NEW stored \in Stored, AbortCommit(c, stored) PROVE TableStep
  BY <1>9, <1>0, NoRow, TransitionRow DEF AbortCommit, FailModelSyncJob
<1>10. ASSUME NEW j \in JobId, NEW stored \in Stored, FailTask(j, stored) PROVE TableStep
  <2>1. j \in Jobs
    BY <1>10 DEF FailTask, RowsAreJobs
  <2> QED BY <1>10, <2>1, NoRow, TransitionRow DEF FailTask, FailModelSyncJob
<1>11. ASSUME NEW j \in JobId, TaskBegins(j) PROVE TableStep
  <2>1. CASE UNCHANGED jobVars
    BY <2>1, NoRow
  <2>2. CASE ~UNCHANGED jobVars
    <3> DEFINE x == [jobs[j] EXCEPT !.state = "fetching", !.revision = @ + 1]
    <3>1. j \in Jobs /\ jobs[j] \in Job /\ jobs[j].state = "created"
      BY <1>11, <2>2, Fields DEF TaskBegins, RowsAreJobs, Unchanged
    <3>2. x \in Job
      BY <3>1, JobUpdates DEF State, Active
    <3>3. /\ jobs' = [jobs EXCEPT ![j] = x]
          /\ outbox' = [outbox EXCEPT ![j] = Append(@, Event("fetching", jobs[j].revision + 1))]
          /\ jobCount' = jobCount
      BY <1>11, <2>2 DEF TaskBegins
    <3>4. /\ x.state = "fetching" /\ x.revision = jobs[j].revision + 1
          /\ x.base = jobs[j].base /\ x.review = jobs[j].review
      BY <3>1 DEF Job
    <3> HIDE DEF x
    <3> QED BY <1>11, <3>1, <3>2, <3>3, <3>4, OneRow DEF State, Active, Terminal
  <2> QED BY <2>1, <2>2
<1>12. ASSUME NEW j \in JobId, StoreReview(j) PROVE TableStep
  <2>1. CASE UNCHANGED jobVars
    BY <2>1, NoRow
  <2>2. CASE ~UNCHANGED jobVars
    <3> DEFINE x == [jobs[j] EXCEPT !.state = "review", !.revision = @ + 1,
                                    !.review = tasks[j].review]
    <3>1. j \in Jobs /\ jobs[j] \in Job /\ tasks[j].review \in Review /\ jobs[j].state = "fetching"
      BY <1>12, <2>2, Fields DEF StoreReview, RowsAreJobs, Unchanged
    <3>2. x \in Job
      BY <3>1, JobUpdates DEF State, Active
    <3>3. /\ jobs' = [jobs EXCEPT ![j] = x]
          /\ outbox' = [outbox EXCEPT ![j] = Append(@, Event("review", jobs[j].revision + 1))]
          /\ jobCount' = jobCount
      BY <1>12, <2>2 DEF StoreReview
    <3>4. /\ x.state = "review" /\ x.revision = jobs[j].revision + 1
          /\ x.base = jobs[j].base /\ x.review = tasks[j].review
      BY <3>1 DEF Job
    <3> HIDE DEF x
    <3> QED BY <3>1, <3>2, <3>3, <3>4, OneRow DEF State, Active, Terminal
  <2> QED BY <2>1, <2>2
<1>13. ASSUME RecoverInterruptedJobs PROVE TableStep
  <2>1. \A j \in JobId : j \notin Abandoned => RowKept(j)
    BY <1>13 DEF RecoverInterruptedJobs, RowKept
  <2>2. ASSUME NEW j \in Abandoned
        PROVE  /\ RowAdvanced(j) /\ jobs'[j] \in Job /\ outbox'[j] \in Seq(Events)
    <3> DEFINE x == [jobs[j] EXCEPT !.state = "interrupted", !.revision = @ + 1]
    <3>1. /\ j \in Jobs /\ j \in JobId /\ jobs[j] \in Job
          /\ jobs[j].state \in {"created", "fetching", "committing"}
      BY Fields DEF Abandoned
    <3>2. x \in Job /\ Event("interrupted", jobs[j].revision + 1) \in Events
      BY <3>1, JobUpdates DEF State
    <3>3. /\ jobs'[j] = x
          /\ outbox'[j] = Append(outbox[j], Event("interrupted", jobs[j].revision + 1))
      BY <1>13, <3>1 DEF RecoverInterruptedJobs
    <3>4. /\ x.state = "interrupted" /\ x.revision = jobs[j].revision + 1
          /\ x.base = jobs[j].base /\ x.review = jobs[j].review
      BY <3>1 DEF Job
    <3>5. outbox[j] \in Seq(Events)
      BY <3>1 DEF TypeOK
    <3> HIDE DEF x
    <3>6. RowAdvanced(j)
      BY <3>1, <3>3, <3>4 DEF RowAdvanced, State, Active, Terminal
    <3> QED BY <3>2, <3>3, <3>5, <3>6
  <2>3. jobs' \in [JobId -> Job] /\ outbox' \in [JobId -> Seq(Events)]
    BY <1>13, <2>1, <2>2 DEF RecoverInterruptedJobs, RowKept, TypeOK
  <2> QED BY <1>13, <2>1, <2>2, <2>3 DEF TableStep, RecoverInterruptedJobs
<1> QED BY StepCases, <1>1, <1>2, <1>3, <1>4, <1>5, <1>6, <1>7, <1>8, <1>9, <1>10, <1>11,
           <1>12, <1>13 DEF LoudStep

(* Creating a job adds one row and leaves the others alone.                *)
LEMMA CreatedRow ==
    ASSUME TypeOK, NEW c \in Clients, CreateModelSyncJob(c)
    PROVE  /\ jobs' \in [JobId -> Job] /\ outbox' \in [JobId -> Seq(Events)]
           /\ jobCount' = jobCount + 1 /\ jobCount' \in JobId
           /\ Jobs' = Jobs \cup {jobCount'} /\ jobCount' \notin Jobs
           /\ jobs'[jobCount'].state = "created" /\ jobs'[jobCount'].revision = 1
           /\ jobs'[jobCount'].base = CurrentGraph /\ jobs'[jobCount'].review = NoReview
           /\ outbox'[jobCount'] = <<Event("created", 1)>>
           /\ \A j \in JobId \ {jobCount'} : RowKept(j)
<1> DEFINE x == [NoJob EXCEPT !.state = "created", !.revision = 1, !.base = CurrentGraph]
<1>1. /\ jobCount' = jobCount + 1 /\ jobCount' \in JobId /\ jobCount \in Nat
      /\ CurrentGraph \in Graph
  BY SyncAssumption DEF TypeOK, CreateModelSyncJob, MayStart, JobId, CurrentGraph, Graph
<1>2. Jobs' = Jobs \cup {jobCount'} /\ jobCount' \notin Jobs
  BY <1>1 DEF Jobs
<1>3. /\ x \in Job /\ x.state = "created" /\ x.revision = 1 /\ x.base = CurrentGraph
      /\ x.review = NoReview
  BY <1>1, Constants DEF NoJob, Job, State, Active
<1>4. Event("created", 1) \in Events
  BY DEF Events, State, Active
<1>5. /\ jobs' = [jobs EXCEPT ![jobCount'] = x]
      /\ outbox' = [outbox EXCEPT ![jobCount'] = <<Event("created", 1)>>]
  BY DEF CreateModelSyncJob
<1> HIDE DEF x
<1>6. jobs' \in [JobId -> Job] /\ outbox' \in [JobId -> Seq(Events)]
  BY <1>1, <1>3, <1>4, <1>5 DEF TypeOK
<1>7. \A j \in JobId \ {jobCount'} : RowKept(j)
  BY <1>5 DEF TypeOK, RowKept
<1>8. jobs'[jobCount'] = x /\ outbox'[jobCount'] = <<Event("created", 1)>>
  BY <1>1, <1>5 DEF TypeOK
<1> QED BY <1>1, <1>2, <1>3, <1>6, <1>7, <1>8

(* Steps of the table keep one active job and the story of the outbox, and *)
(* leave what is terminal alone.                                           *)
LEMMA StepsKeepTable ==
    ASSUME TypeOK, RowsAreJobs, OneActiveJob, EventsFollowRevisions,
           TableStep \/ \E c \in Clients : CreateModelSyncJob(c)
    PROVE  /\ OneActiveJob' /\ EventsFollowRevisions' /\ Jobs \subseteq Jobs'
           /\ \A j \in Jobs' : /\ jobs'[j].state \in State /\ jobs'[j].revision > 0
                               /\ jobs'[j].state = "created" => jobs'[j].revision = 1
           /\ \A j \in Jobs : jobs[j].state \in Terminal => RowKept(j)
<1> DEFINE Story(j) ==
             /\ Len(outbox[j]) = jobs[j].revision
             /\ \A n \in 1..Len(outbox[j]) :
                   /\ outbox[j][n].revision = n
                   /\ outbox[j][n].state \in Terminal => n = Len(outbox[j])
             /\ outbox[j][Len(outbox[j])].state = jobs[j].state
<1> DEFINE Sane(j) == /\ jobs[j].state \in State /\ jobs[j].revision > 0
                      /\ jobs[j].state = "created" => jobs[j].revision = 1
<1>0. \A j \in Jobs : j \in JobId /\ Story(j) /\ Sane(j)
  BY Fields DEF EventsFollowRevisions, RowsAreJobs
<1>1. ASSUME NEW j \in Jobs, RowKept(j) PROVE Story(j)' /\ Sane(j)'
  BY <1>0, <1>1 DEF RowKept
<1>2. ASSUME NEW j \in Jobs, RowAdvanced(j) PROVE Story(j)' /\ Sane(j)'
  <2> DEFINE s == jobs'[j].state
             q == outbox[j]
             r == jobs[j].revision
             e == Event(s, r + 1)
  <2>1. /\ q \in Seq(Events) /\ Len(q) = r /\ r \in Nat /\ r > 0
        /\ outbox'[j] = Append(q, e) /\ jobs'[j].revision = r + 1 /\ s \in State \ {"created"}
    BY <1>0, <1>2, Fields DEF TypeOK, RowAdvanced
  <2>2. e \in Events /\ e.state = s /\ e.revision = r + 1
    BY <2>1 DEF Events
  <2>3. q[r].state \notin Terminal /\ \A n \in 1..r : q[n].revision = n
    BY <1>0, <1>2, <2>1 DEF RowAdvanced
  <2>4. \A n \in 1..r : q[n].state \notin Terminal
    BY <1>0, <2>1, <2>3
  <2> HIDE DEF s, q, r, e
  <2>5. /\ Len(outbox'[j]) = r + 1
        /\ \A n \in 1..r : outbox'[j][n] = q[n]
        /\ outbox'[j][r + 1] = e
    BY <2>1, <2>2
  <2>6. \A n \in 1..(r + 1) : /\ outbox'[j][n].revision = n
                              /\ outbox'[j][n].state \in Terminal => n = r + 1
    BY <2>1, <2>2, <2>3, <2>4, <2>5
  <2> QED BY <2>1, <2>2, <2>5, <2>6 DEF s
<1>3. CASE TableStep
  <2>1. Jobs' = Jobs
    BY <1>3 DEF TableStep, Jobs
  <2>2. \A j \in Jobs : Story(j)' /\ Sane(j)'
    BY <1>0, <1>1, <1>2, <1>3 DEF TableStep
  <2>3. \A j \in Jobs : jobs'[j].state \in Active => jobs[j].state \in Active
    BY <1>0, <1>3 DEF TableStep, RowKept, RowAdvanced
  <2>4. OneActiveJob'
    BY <2>1, <2>3 DEF OneActiveJob
  <2>5. \A j \in Jobs : jobs[j].state \in Terminal => RowKept(j)
    BY <1>0, <1>3 DEF TableStep, RowAdvanced
  <2> QED BY <2>1, <2>2, <2>4, <2>5 DEF EventsFollowRevisions
<1>4. ASSUME NEW c \in Clients, CreateModelSyncJob(c)
      PROVE  /\ OneActiveJob' /\ EventsFollowRevisions' /\ Jobs \subseteq Jobs'
             /\ \A j \in Jobs' : Sane(j)'
             /\ \A j \in Jobs : RowKept(j)
  <2>1. /\ Jobs' = Jobs \cup {jobCount'}
        /\ \A j \in Jobs : j # jobCount' /\ RowKept(j)
    BY <1>0, <1>4, CreatedRow
  <2>2. ASSUME NEW j, j = jobCount' PROVE Story(j)' /\ Sane(j)'
    <3>1. /\ jobs'[j].state = "created" /\ jobs'[j].revision = 1
          /\ outbox'[j] = <<Event("created", 1)>>
      BY <1>4, <2>2, CreatedRow
    <3>2. /\ Len(outbox'[j]) = 1
          /\ outbox'[j][1].state = "created" /\ outbox'[j][1].revision = 1
      BY <3>1
    <3>3. "created" \notin Terminal /\ "created" \in State
      BY DEF Terminal, State, Active
    <3> QED BY <3>1, <3>2, <3>3
  <2>3. \A j \in Jobs : Story(j)' /\ Sane(j)'
    BY <1>1, <2>1
  <2>4. \A j \in Jobs : jobs'[j].state \notin Active
    BY <1>4, <2>1 DEF CreateModelSyncJob, NoActiveJob, RowKept
  <2>5. OneActiveJob'
    BY <2>1, <2>4 DEF OneActiveJob
  <2>6. \A j \in Jobs' : Story(j)' /\ Sane(j)'
    BY <2>1, <2>2, <2>3
  <2> QED BY <2>1, <2>5, <2>6 DEF EventsFollowRevisions
<1> QED BY <1>3, <1>4

-----------------------------------------------------------------------------
(* What clients and tasks hold between their transactions.                 *)

(* What a call may hold: a job of ids, and, for a cancellation, a state    *)
(* from which it may cancel.                                               *)
Named(x, ids) ==
    /\ x.op \in {"launch", "cancel", "signal", "mark", "commit", "fail"} => x.job \in ids
    /\ x.op = "cancel" => x.state \in {"created", "fetching", "review", "interrupted"}

(* A client that stores such a call keeps the invariant of all calls.      *)
LEMMA CallWritten ==
    ASSUME TypeOK, CallsNameJobs, Jobs \subseteq Jobs', NEW c \in Clients, NEW x \in Call,
           x = Idle \/ Named(x, Jobs'), calls' = [calls EXCEPT ![c] = x]
    PROVE  calls' \in [Clients -> Call] /\ CallsNameJobs'
<1>1. calls' \in [Clients -> Call]
  BY DEF TypeOK
<1>2. Named(x, Jobs')
  BY DEF Named, Idle
<1>3. \A d \in Clients : Named(calls'[d], Jobs')
  BY <1>1, <1>2 DEF TypeOK, CallsNameJobs, Named
<1> QED BY <1>1, <1>3 DEF CallsNameJobs, Named

(* Every step keeps the calls typed and naming existing jobs.              *)
LEMMA CallsGood ==
    ASSUME TypeOK, CallsNameJobs, RowsAreJobs, Jobs \subseteq Jobs', Next
    PROVE  calls' \in [Clients -> Call] /\ CallsNameJobs'
<1> DEFINE Good == calls' \in [Clients -> Call] /\ CallsNameJobs'
<1>0. Jobs \subseteq JobId /\ Jobs \subseteq 0..MaxJobs
  BY Fields, SyncAssumption DEF JobId
<1>1. ASSUME UNCHANGED calls PROVE Good
  BY <1>1 DEF TypeOK, CallsNameJobs
<1>2. ASSUME NEW c \in Clients, Return(c) PROVE Good
  BY <1>2, CallWritten, CallRecords
<1>3. ASSUME NEW c \in Clients, QuietCall(c) PROVE Good
  <2>1. CASE BeginStart(c) \/ BeginEdit(c)
    <3> PICK x \in {[Idle EXCEPT !.op = "create", !.seen = connection],
                    [Idle EXCEPT !.op = "edit", !.seen = connection]} :
             calls' = [calls EXCEPT ![c] = x]
      BY <2>1 DEF BeginStart, BeginEdit
    <3>1. x \in Call /\ Named(x, Jobs')
      BY CallRecords DEF TypeOK, Named, Idle
    <3> QED BY <3>1, CallWritten
  <2>2. CASE CreateRefused(c) \/ MarkRefused(c)
    BY <1>2, <2>2 DEF CreateRefused, MarkRefused
  <2>3. CASE CommitFails(c)
    <3> DEFINE x == [calls[c] EXCEPT !.op = "fail"]
    <3>0. calls[c] \in Call
      BY DEF TypeOK
    <3>5. x \in Call
      BY <3>0, CallRecords
    <3>6. x.op = "fail" /\ x.job = calls[c].job
      BY <3>0 DEF Call
    <3>1. x \in Call /\ x.op = "fail" /\ x.job = calls[c].job
      BY <3>5, <3>6
    <3>2. calls[c].job \in Jobs
      BY <2>3 DEF CommitFails, CallsNameJobs
    <3>3. calls' = [calls EXCEPT ![c] = x]
      BY <2>3 DEF CommitFails
    <3> HIDE DEF x
    <3>4. Named(x, Jobs')
      BY <3>1, <3>2 DEF Named
    <3> QED BY <3>1, <3>3, <3>4, CallWritten
  <2>4. ASSUME NEW j \in Jobs, BeginCancel(c, j) PROVE Good
    <3> DEFINE x == [Idle EXCEPT !.op = "cancel", !.job = j, !.revision = jobs[j].revision,
                                 !.state = jobs[j].state]
               y == [Idle EXCEPT !.op = "signal", !.job = j]
    <3>1. j \in 0..MaxJobs /\ jobs[j].revision \in Nat /\ jobs[j].state \in State
      BY <1>0, Fields DEF RowsAreJobs
    <3>2. x \in Call /\ y \in Call
      BY <3>1, CallRecords
    <3>3. x.op = "cancel" /\ x.job = j /\ x.state = jobs[j].state /\ y.op = "signal" /\ y.job = j
      BY DEF Idle
    <3>4. /\ jobs[j].state = "cancelled" => calls' = [calls EXCEPT ![c] = y]
          /\ jobs[j].state # "cancelled" => calls' = [calls EXCEPT ![c] = x]
          /\ jobs[j].state \notin {"completed", "failed", "committing"}
      BY <2>4 DEF BeginCancel
    <3> HIDE DEF x, y
    <3>5. Named(y, Jobs') /\ (jobs[j].state # "cancelled" => Named(x, Jobs'))
      BY <3>1, <3>3, <3>4 DEF Named, State, Active, Terminal
    <3> QED BY <3>2, <3>4, <3>5, CallWritten
  <2>5. ASSUME NEW j \in Jobs, NEW k \in Jobs, BeginApprove(c, j, jobs[k].review) PROVE Good
    <3> DEFINE x == [Idle EXCEPT !.op = "mark", !.job = j, !.revision = jobs[j].revision,
                                 !.review = jobs[k].review]
    <3>1. x \in Call
      BY <1>0, Fields, CallRecords
    <3>2. x.op = "mark" /\ x.job = j
      BY DEF Idle
    <3>3. calls' = [calls EXCEPT ![c] = x]
      BY <2>5 DEF BeginApprove
    <3> HIDE DEF x
    <3>4. Named(x, Jobs')
      BY <3>2 DEF Named
    <3> QED BY <3>1, <3>3, <3>4, CallWritten
  <2> QED BY <1>3, <2>1, <2>2, <2>3, <2>4, <2>5 DEF QuietCall
<1>4. ASSUME NEW c \in Clients, CreateModelSyncJob(c) PROVE Good
  <2>1. CASE Return(c)
    BY <1>2, <2>1
  <2>2. CASE ~Return(c)
    <3> DEFINE x == [Idle EXCEPT !.op = "launch", !.job = jobCount']
    <3>1. calls' = [calls EXCEPT ![c] = x]
      BY <1>4, <2>2 DEF CreateModelSyncJob
    <3>2. jobCount' \in Jobs' /\ jobCount' \in 0..MaxJobs
      BY <1>4, CreatedRow, SyncAssumption DEF JobId
    <3>3. x \in Call /\ x.op = "launch" /\ x.job = jobCount'
      BY <3>2, CallRecords DEF Idle
    <3> HIDE DEF x
    <3>4. Named(x, Jobs')
      BY <3>2, <3>3 DEF Named
    <3> QED BY <3>1, <3>3, <3>4, CallWritten
  <2> QED BY <2>1, <2>2
<1>5. ASSUME NEW c \in Clients, CancelModelSyncJob(c) PROVE Good
  <2>1. CASE Return(c)
    BY <1>2, <2>1
  <2>2. CASE ~Return(c)
    <3> DEFINE x == [Idle EXCEPT !.op = "signal", !.job = calls[c].job]
    <3>1. calls' = [calls EXCEPT ![c] = x] /\ calls[c].job \in Jobs
      BY <1>5, <2>2 DEF CancelModelSyncJob, CallsNameJobs
    <3>2. x \in Call /\ x.op = "signal" /\ x.job = calls[c].job
      BY <1>0, <3>1, CallRecords DEF Idle
    <3> HIDE DEF x
    <3>3. Named(x, Jobs')
      BY <3>1, <3>2 DEF Named
    <3> QED BY <3>1, <3>2, <3>3, CallWritten
  <2> QED BY <2>1, <2>2
<1>6. ASSUME NEW c \in Clients, MarkCommitting(c) PROVE Good
  <2>1. CASE Return(c)
    BY <1>2, <2>1
  <2>2. CASE ~Return(c)
    <3>1. calls[c].job \in Jobs
      BY <1>6 DEF MarkCommitting, CallsNameJobs
    <3>2. jobs[calls[c].job].revision \in Nat /\ jobs[calls[c].job].revision + 1 \in Nat
      BY <1>0, <3>1, Fields
    <3>3. PICK r \in Nat : Commit(c, calls[c].job, r)
      BY <1>6, <2>2, <3>2 DEF MarkCommitting
    <3> DEFINE x == [Idle EXCEPT !.op = "commit", !.job = calls[c].job, !.revision = r]
    <3>4. x \in Call /\ x.op = "commit" /\ x.job = calls[c].job
      BY <1>0, <3>1, CallRecords DEF Idle
    <3>5. calls' = [calls EXCEPT ![c] = x]
      BY <3>3
    <3> HIDE DEF x
    <3>6. Named(x, Jobs')
      BY <3>1, <3>4 DEF Named
    <3> QED BY <3>4, <3>5, <3>6, CallWritten
  <2> QED BY <2>1, <2>2
<1>7. ASSUME Crash PROVE Good
  BY <1>7, CallRecords DEF Crash, CallsNameJobs, Idle
<1>8. ASSUME NEW c \in Clients,
             Launch(c) \/ SignalTask(c) \/ CommitModelSyncJob(c) \/ SaveEdit(c)
                \/ \E stored \in Stored : AbortCommit(c, stored)
      PROVE  Good
  BY <1>2, <1>8 DEF Launch, SignalTask, CommitModelSyncJob, SaveEdit, AbortCommit
<1>9. ASSUME NEW c \in Clients, SavePreset(c) \/ DeleteProviderConnection(c)
                                  \/ \E m \in Models : DeleteModelRoute(c, m)
      PROVE  Good
  BY <1>1, <1>9 DEF SavePreset, DeleteProviderConnection, DeleteModelRoute
<1>10. ASSUME NEW j \in JobId,
              TaskBegins(j) \/ ComputeReview(j) \/ StoreReview(j) \/ SaveUnavailable(j)
                 \/ \E stored \in Stored : FailTask(j, stored)
       PROVE  Good
  BY <1>1, <1>10 DEF TaskBegins, ComputeReview, StoreReview, SaveUnavailable, FailTask
<1>11. ASSUME NEW j \in JobId, QuietTask(j) PROVE Good
  BY <1>1, <1>11, QuietTaskSteps
<1>12. ASSUME RecoverInterruptedJobs PROVE Good
  BY <1>1, <1>12 DEF RecoverInterruptedJobs
<1> QED BY StepCases, <1>3, <1>4, <1>5, <1>6, <1>7, <1>8, <1>9, <1>10, <1>11, <1>12 DEF LoudStep

(* No action of a call or a task is possible while the process is down. *)
LEMMA DownOnlyRecovers ==
    ASSUME DownIsIdle, ~up, Next PROVE RecoverInterruptedJobs
<1>1. ASSUME NEW c \in Clients PROVE ~CallStep(c) /\ ~UserStep(c)
  <2>1. calls[c].op = "idle"
    BY DEF DownIsIdle, Idle
  <2>2. ~CallStep(c)
    BY <2>1 DEF CallStep, CreateModelSyncJob, CreateRefused, Launch, CancelModelSyncJob,
                SignalTask, MarkCommitting, MarkRefused, CommitModelSyncJob, CommitFails,
                AbortCommit, SaveEdit
  <2>3. ~UserStep(c)
    BY DEF UserStep, BeginStart, BeginCancel, BeginApprove, BeginEdit, SavePreset,
           DeleteModelRoute, DeleteProviderConnection
  <2> QED BY <2>2, <2>3
<1>2. ASSUME NEW j \in JobId PROVE ~TaskStep(j)
  <2>1. tasks[j].pc = "none"
    BY DEF DownIsIdle, NoTask
  <2> QED BY <2>1 DEF TaskStep, TaskBegins, ReadConnection, ModelsListed, ListingFails,
                      ListingCancelled, CheckConnection, ComputeReview, ReviewFails,
                      StoreReview, ReadAttempted, CompareAttempted, SaveUnavailable, FailTask
<1>3. ~Crash
  BY DEF Crash
<1> QED BY <1>1, <1>2, <1>3 DEF Next

(* Only a crash and the recovery change whether the process is up.         *)
LEMMA UpChanges ==
    ASSUME Next PROVE up' = up \/ Crash \/ RecoverInterruptedJobs
<1>1. ASSUME NEW c \in Clients, CallStep(c) PROVE up' = up
  BY <1>1 DEF CallStep, CreateModelSyncJob, CreateRefused, Launch, CancelModelSyncJob,
              SignalTask, MarkCommitting, MarkRefused, CommitModelSyncJob, CommitFails,
              AbortCommit, SaveEdit
<1>2. ASSUME NEW c \in Clients, UserStep(c) PROVE up' = up
  BY <1>2 DEF UserStep, BeginStart, BeginCancel, BeginApprove, BeginEdit, SavePreset,
              DeleteModelRoute, DeleteProviderConnection
<1>3. ASSUME NEW j \in JobId, TaskStep(j) PROVE up' = up
  BY <1>3 DEF TaskStep, TaskBegins, ReadConnection, ModelsListed, ListingFails,
              ListingCancelled, CheckConnection, ComputeReview, ReviewFails, StoreReview,
              ReadAttempted, CompareAttempted, SaveUnavailable, FailTask
<1> QED BY <1>1, <1>2, <1>3 DEF Next

(* A process that is down stays idle until it recovers.                    *)
LEMMA DownStaysIdle ==
    ASSUME DownIsIdle, Next, up \in BOOLEAN PROVE DownIsIdle'
<1>1. CASE Crash
  BY <1>1 DEF Crash, DownIsIdle
<1>2. CASE RecoverInterruptedJobs
  BY <1>2 DEF RecoverInterruptedJobs, DownIsIdle
<1>3. CASE up' = up /\ up
  BY <1>3 DEF DownIsIdle
<1> QED BY <1>1, <1>2, <1>3, DownOnlyRecovers, UpChanges

(* Whether store calls may fail is fixed for a behaviour.                  *)
LEMMA StoreKept == ASSUME Next PROVE storeFails' = storeFails
<1>1. ASSUME NEW c \in Clients, CallStep(c) PROVE storeFails' = storeFails
  BY <1>1 DEF CallStep, CreateModelSyncJob, CreateRefused, Launch, CancelModelSyncJob,
              SignalTask, MarkCommitting, MarkRefused, CommitModelSyncJob, CommitFails,
              AbortCommit, SaveEdit
<1>2. ASSUME NEW c \in Clients, UserStep(c) PROVE storeFails' = storeFails
  BY <1>2 DEF UserStep, BeginStart, BeginCancel, BeginApprove, BeginEdit, SavePreset,
              DeleteModelRoute, DeleteProviderConnection
<1>3. ASSUME NEW j \in JobId, TaskStep(j) PROVE storeFails' = storeFails
  BY <1>3 DEF TaskStep, TaskBegins, ReadConnection, ModelsListed, ListingFails,
              ListingCancelled, CheckConnection, ComputeReview, ReviewFails, StoreReview,
              ReadAttempted, CompareAttempted, SaveUnavailable, FailTask
<1> QED BY <1>1, <1>2, <1>3 DEF Next, Crash, RecoverInterruptedJobs

(* A task between its first transaction and its end.                       *)
Running(t) == t.pc \notin {"none", "begin", "over"}

(* The task of j takes a step in the middle of its run. *)
TaskMoves(j) ==
    /\ tasks' \in [JobId -> Task]
    /\ \A k \in JobId \ {j} : tasks'[k] = tasks[k]
    /\ Running(tasks[j]) /\ Running(tasks'[j])
    /\ tasks'[j].revision = tasks[j].revision
    /\ tasks'[j].review \in {tasks[j].review, NoReview} \/ tasks'[j].review.at <= clock'

(* Storing a running task with the same revision is such a step.           *)
LEMMA TaskMoved ==
    ASSUME TypeOK, NEW j \in JobId, Running(tasks[j]), NEW t \in Task, Running(t),
           t.revision = tasks[j].revision,
           t.review \in {tasks[j].review, NoReview} \/ t.review.at <= clock',
           tasks' = [tasks EXCEPT ![j] = t]
    PROVE  TaskMoves(j)
BY DEF TypeOK, TaskMoves

(* Turning to the failure path is such a step.                             *)
LEMMA TaskFails ==
    ASSUME TypeOK, NEW j \in JobId, Running(tasks[j]), Fail(j, tasks[j].revision)
    PROVE  TaskMoves(j)
<1> DEFINE t == [NoTask EXCEPT !.pc = "fail", !.revision = tasks[j].revision]
<1>1. t \in Task
  BY Fields, TaskRecords
<1>2. t.pc = "fail" /\ t.revision = tasks[j].revision /\ t.review = NoReview
  BY DEF NoTask
<1>3. tasks' = [tasks EXCEPT ![j] = t]
  OBVIOUS
<1> HIDE DEF t
<1> QED BY <1>1, <1>2, <1>3, TaskMoved DEF Running

(* All steps of a task but its first and its last ones are such steps.     *)
LEMMA MidTaskSteps ==
    ASSUME TypeOK, NEW j \in JobId,
           QuietTask(j) \/ ComputeReview(j) \/ SaveUnavailable(j)
    PROVE  TaskMoves(j)
<1>0. /\ tasks[j] \in Task /\ tasks[j].revision \in Nat /\ tasks[j].review \in Review
      /\ tasks[j].connection \in Connection /\ tasks[j].listed \subseteq Models
      /\ connection \in Connection /\ clock \in Nat
  BY Fields DEF TypeOK
<1>1. Running(tasks[j])
  BY DEF QuietTask, ComputeReview, SaveUnavailable, ReadConnection, ModelsListed, ListingFails,
         ListingCancelled, CheckConnection, ReviewFails, ReadAttempted, CompareAttempted, Running
<1>2. CASE Fail(j, tasks[j].revision)
  BY <1>1, <1>2, TaskFails
<1>3. CASE Attempted(j)
  <2> DEFINE t == [tasks[j] EXCEPT !.pc = "attempted", !.listed = {}]
  <2>1. t \in Task
    BY <1>0, TaskUpdates
  <2>2. t.pc = "attempted" /\ t.revision = tasks[j].revision /\ t.review = tasks[j].review
    BY <1>0 DEF Task
  <2>3. tasks' = [tasks EXCEPT ![j] = t]
    BY <1>3
  <2> HIDE DEF t
  <2> QED BY <1>1, <2>1, <2>2, <2>3, TaskMoved DEF Running
<1>4. ASSUME NEW p \in {"diff", "save"}, Step(j, p) PROVE TaskMoves(j)
  <2> DEFINE t == [tasks[j] EXCEPT !.pc = p]
  <2>1. t \in Task
    BY <1>0, TaskUpdates
  <2>2. t.pc = p /\ t.revision = tasks[j].revision /\ t.review = tasks[j].review
    BY <1>0 DEF Task
  <2>3. tasks' = [tasks EXCEPT ![j] = t]
    BY <1>4
  <2> HIDE DEF t
  <2> QED BY <1>1, <2>1, <2>2, <2>3, TaskMoved DEF Running
<1>5. ASSUME NEW p \in {"list", "compare"},
             tasks' = [tasks EXCEPT ![j].pc = p, ![j].connection = connection]
      PROVE  TaskMoves(j)
  <2> DEFINE t == [tasks[j] EXCEPT !.pc = p, !.connection = connection]
  <2>1. t \in Task
    BY <1>0, TaskUpdates
  <2>2. t.pc = p /\ t.revision = tasks[j].revision /\ t.review = tasks[j].review
    BY <1>0 DEF Task
  <2>3. tasks' = [tasks EXCEPT ![j] = t]
    BY <1>5
  <2> HIDE DEF t
  <2> QED BY <1>1, <2>1, <2>2, <2>3, TaskMoved DEF Running
<1>6. ASSUME NEW l \in SUBSET Models, tasks' = [tasks EXCEPT ![j].pc = "check", ![j].listed = l]
      PROVE  TaskMoves(j)
  <2> DEFINE t == [tasks[j] EXCEPT !.pc = "check", !.listed = l]
  <2>1. t \in Task
    BY <1>0, TaskUpdates
  <2>2. t.pc = "check" /\ t.revision = tasks[j].revision /\ t.review = tasks[j].review
    BY <1>0 DEF Task
  <2>3. tasks' = [tasks EXCEPT ![j] = t]
    BY <1>6
  <2> HIDE DEF t
  <2> QED BY <1>1, <2>1, <2>2, <2>3, TaskMoved DEF Running
<1>7. CASE ComputeReview(j)
  <2> DEFINE v == [connection |-> tasks[j].connection, routes |-> routes,
                   listed |-> tasks[j].listed, at |-> clock + 1]
             t == [tasks[j] EXCEPT !.pc = "store", !.review = v]
  <2>1. v \in Review /\ v.at = clock + 1
    BY <1>0 DEF Review, TypeOK
  <2>2. tasks' = [tasks EXCEPT ![j] = t] /\ clock' = clock + 1
    BY <1>7 DEF ComputeReview
  <2> HIDE DEF v
  <2>3. t \in Task
    BY <1>0, <2>1, TaskUpdates
  <2>4. t.pc = "store" /\ t.revision = tasks[j].revision /\ t.review = v
    BY <1>0 DEF Task
  <2> HIDE DEF t
  <2>5. t.review.at <= clock'
    BY <1>0, <2>1, <2>2, <2>4
  <2> QED BY <1>1, <2>2, <2>3, <2>4, <2>5, TaskMoved DEF Running
<1>8. CASE ReadConnection(j) \/ ReadAttempted(j)
  BY <1>2, <1>5, <1>8 DEF ReadConnection, ReadAttempted
<1>9. CASE ListingFails(j) \/ ListingCancelled(j) \/ ReviewFails(j) \/ SaveUnavailable(j)
  BY <1>2, <1>3, <1>9 DEF ListingFails, ListingCancelled, ReviewFails, SaveUnavailable
<1>10. CASE CheckConnection(j) \/ CompareAttempted(j)
  BY <1>2, <1>4, <1>10 DEF CheckConnection, CompareAttempted
<1>11. CASE \E l \in SUBSET Models : ModelsListed(j, l)
  BY <1>6, <1>11 DEF ModelsListed
<1> QED BY <1>7, <1>8, <1>9, <1>10, <1>11 DEF QuietTask

(* The life of a task over all steps: it ends only by a crash, by storing  *)
(* its review or by failing, begins only by a launch, and learns its       *)
(* revision only in its first transaction.                                 *)
LEMMA TaskSteps ==
    ASSUME TypeOK, CallsNameJobs, Next
    PROVE  /\ tasks' \in [JobId -> Task]
           /\ \A k \in JobId :
                /\ tasks[k].pc \notin {"none", "over"} =>
                     \/ tasks'[k].pc \notin {"none", "over"} \/ Crash \/ StoreReview(k)
                     \/ \E stored \in Stored : FailTask(k, stored)
                /\ tasks[k].pc = "none" =>
                     tasks'[k].pc = "none" \/ \E c \in Clients : Launch(c) /\ calls[c].job = k
                /\ tasks'[k].pc = "begin" =>
                     tasks[k].pc = "begin" \/ \E c \in Clients : Launch(c) /\ calls[c].job = k
                /\ Running(tasks'[k]) =>
                     \/ Running(tasks[k]) /\ tasks'[k].revision = tasks[k].revision
                     \/ TaskBegins(k)
                /\ \/ tasks'[k].review \in {tasks[k].review, NoReview}
                   \/ tasks'[k].review.at <= clock'
<1> DEFINE Lives(k) ==
             /\ tasks[k].pc \notin {"none", "over"} =>
                  \/ tasks'[k].pc \notin {"none", "over"} \/ Crash \/ StoreReview(k)
                  \/ \E stored \in Stored : FailTask(k, stored)
             /\ tasks[k].pc = "none" =>
                  tasks'[k].pc = "none" \/ \E c \in Clients : Launch(c) /\ calls[c].job = k
             /\ tasks'[k].pc = "begin" =>
                  tasks[k].pc = "begin" \/ \E c \in Clients : Launch(c) /\ calls[c].job = k
             /\ Running(tasks'[k]) =>
                  \/ Running(tasks[k]) /\ tasks'[k].revision = tasks[k].revision
                  \/ TaskBegins(k)
             /\ \/ tasks'[k].review \in {tasks[k].review, NoReview}
                \/ tasks'[k].review.at <= clock'
           All == tasks' \in [JobId -> Task] /\ \A k \in JobId : Lives(k)
<1>0. NoTask.pc = "none" /\ NoTask.review = NoReview /\ ~Running(NoTask)
  BY DEF NoTask, Running
<1>1. ASSUME UNCHANGED tasks PROVE All
  BY <1>1 DEF TypeOK
<1>2. ASSUME NEW j \in JobId, TaskMoves(j) PROVE All
  <2>1. \A k \in JobId \ {j} : Lives(k)
    BY <1>2 DEF TaskMoves
  <2>2. Lives(j)
    BY <1>0, <1>2 DEF TaskMoves, Running
  <2> QED BY <1>2, <2>1, <2>2 DEF TaskMoves
<1>3. ASSUME NEW c \in Clients, Launch(c) PROVE All
  <2> DEFINE j == calls[c].job
             t == [NoTask EXCEPT !.pc = "begin"]
  <2>1. j \in JobId
    BY <1>3, Fields DEF Launch, CallsNameJobs
  <2>2. t \in Task /\ t.pc = "begin" /\ t.review = NoReview /\ ~Running(t)
    BY TaskRecords DEF NoTask, Running
  <2>3. tasks' = [tasks EXCEPT ![j] = t]
    BY <1>3 DEF Launch
  <2> HIDE DEF t
  <2>4. tasks' \in [JobId -> Task] /\ tasks'[j] = t
    BY <2>1, <2>2, <2>3 DEF TypeOK
  <2>5. \A k \in JobId \ {j} : Lives(k)
    BY <2>3 DEF TypeOK
  <2>6. Lives(j)
    BY <1>3, <2>2, <2>4
  <2> QED BY <2>4, <2>5, <2>6
<1>4. ASSUME NEW c \in Clients, SignalTask(c) PROVE All
  <2> DEFINE j == calls[c].job
             b == tasks[j].signal \/ tasks[j].pc \notin {"none", "over"}
             t == [tasks[j] EXCEPT !.signal = b]
  <2>1. j \in JobId /\ tasks[j] \in Task
    BY <1>4, Fields DEF SignalTask, CallsNameJobs
  <2>2. t \in Task
    BY <2>1, TaskUpdates
  <2>3. t.pc = tasks[j].pc /\ t.revision = tasks[j].revision /\ t.review = tasks[j].review
    BY <2>1 DEF Task
  <2>5. tasks' = [tasks EXCEPT ![j] = t]
    BY <1>4 DEF SignalTask
  <2> HIDE DEF t
  <2>6. tasks' \in [JobId -> Task] /\ tasks'[j] = t
    BY <2>1, <2>2, <2>5 DEF TypeOK
  <2>7. \A k \in JobId \ {j} : Lives(k)
    BY <2>5 DEF TypeOK
  <2>8. Lives(j)
    BY <2>3, <2>6 DEF Running
  <2> QED BY <2>6, <2>7, <2>8
<1>5. ASSUME NEW j \in JobId, TaskBegins(j) PROVE All
  <2>1. PICK t \in Task : tasks' = [tasks EXCEPT ![j] = t] /\ Running(t)
                            /\ t.review \in {tasks[j].review, NoReview}
    <3> DEFINE x == [tasks[j] EXCEPT !.pc = "read", !.revision = 2]
               y == [NoTask EXCEPT !.pc = "fail", !.revision = 1]
    <3>1. x \in Task /\ y \in Task
      BY Fields, TaskUpdates, TaskRecords
    <3>2. x.pc = "read" /\ x.review = tasks[j].review /\ y.pc = "fail" /\ y.review = NoReview
      BY Fields DEF Task, NoTask
    <3>3. tasks' = [tasks EXCEPT ![j] = x] \/ tasks' = [tasks EXCEPT ![j] = y]
      BY <1>5 DEF TaskBegins
    <3> HIDE DEF x, y
    <3> QED BY <3>1, <3>2, <3>3 DEF Running
  <2>2. tasks' \in [JobId -> Task] /\ tasks'[j] = t
    BY <2>1 DEF TypeOK
  <2>3. \A k \in JobId \ {j} : Lives(k)
    BY <2>1 DEF TypeOK
  <2>4. Lives(j)
    BY <1>0, <1>5, <2>1, <2>2 DEF Running, TaskBegins
  <2> QED BY <2>2, <2>3, <2>4
<1>6. ASSUME NEW j \in JobId, StoreReview(j) \/ \E stored \in Stored : FailTask(j, stored)
      PROVE  All
  <2>1. tasks[j].pc \in {"store", "fail"}
    BY <1>6 DEF StoreReview, FailTask
  <2>2. CASE Fail(j, tasks[j].revision)
    BY <1>2, <2>1, <2>2, TaskFails DEF Running
  <2>3. CASE Finish(j)
    <3> DEFINE t == [NoTask EXCEPT !.pc = "over"]
    <3>1. t \in Task /\ t.pc = "over" /\ t.review = NoReview
      BY TaskRecords DEF NoTask
    <3>2. tasks' = [tasks EXCEPT ![j] = t]
      BY <2>3
    <3> HIDE DEF t
    <3>3. tasks' \in [JobId -> Task] /\ tasks'[j] = t
      BY <3>1, <3>2 DEF TypeOK
    <3>4. \A k \in JobId \ {j} : Lives(k)
      BY <3>2 DEF TypeOK
    <3>5. Lives(j)
      BY <1>0, <1>6, <2>1, <3>1, <3>3 DEF Running
    <3> QED BY <3>3, <3>4, <3>5
  <2> QED BY <1>6, <2>2, <2>3 DEF StoreReview, FailTask
<1>7. ASSUME Crash PROVE All
  <2>1. tasks' \in [JobId -> Task] /\ \A k \in JobId : tasks'[k] = NoTask
    BY <1>7, TaskRecords DEF Crash
  <2> QED BY <1>0, <1>7, <2>1
<1>8. ASSUME NEW j \in JobId, QuietTask(j) \/ ComputeReview(j) \/ SaveUnavailable(j) PROVE All
  BY <1>2, <1>8, MidTaskSteps
<1>9. ASSUME NEW c \in Clients, QuietCall(c) PROVE All
  BY <1>1, <1>9, QuietCallSteps
<1>11. ASSUME RecoverInterruptedJobs PROVE All
  BY <1>1, <1>11 DEF RecoverInterruptedJobs
<1>12. ASSUME NEW c \in Clients,
              \/ CreateModelSyncJob(c) \/ Launch(c) \/ CancelModelSyncJob(c) \/ SignalTask(c)
              \/ MarkCommitting(c) \/ CommitModelSyncJob(c) \/ SaveEdit(c) \/ SavePreset(c)
              \/ DeleteProviderConnection(c)
              \/ \E stored \in Stored : AbortCommit(c, stored)
              \/ \E m \in Models : DeleteModelRoute(c, m)
       PROVE  All
  <2>1. CASE Launch(c)
    BY <1>3, <2>1
  <2>2. CASE SignalTask(c)
    BY <1>4, <2>2
  <2>3. CASE ~Launch(c) /\ ~SignalTask(c)
    BY <1>1, <1>12, <2>3
       DEF CreateModelSyncJob, CancelModelSyncJob, MarkCommitting, CommitModelSyncJob,
           SaveEdit, SavePreset, DeleteProviderConnection, AbortCommit, DeleteModelRoute
  <2> QED BY <2>1, <2>2, <2>3
<1>13. ASSUME NEW j \in JobId,
              \/ TaskBegins(j) \/ ComputeReview(j) \/ StoreReview(j) \/ SaveUnavailable(j)
              \/ \E stored \in Stored : FailTask(j, stored)
       PROVE  All
  BY <1>5, <1>6, <1>8, <1>13
<1>14. CASE LoudStep
  BY <1>7, <1>11, <1>12, <1>13, <1>14 DEF LoudStep
<1> QED BY StepCases, <1>8, <1>9, <1>14

(* The life of a call over all steps: a launch comes from the creation of  *)
(* a job, and an approval holds on to its job and revision until it        *)
(* commits or fails it.                                                    *)
LEMMA CallSteps ==
    ASSUME TypeOK, Next
    PROVE  \A c \in Clients :
             /\ calls'[c].op = "launch" =>
                  calls'[c] = calls[c] \/ (CreateModelSyncJob(c) /\ calls'[c].job = jobCount')
             /\ calls[c].op = "launch" => calls'[c] = calls[c] \/ Launch(c) \/ Crash
             /\ calls[c].op \in {"commit", "fail"} =>
                  \/ /\ calls'[c].op \in {"commit", "fail"}
                     /\ calls'[c].job = calls[c].job /\ calls'[c].revision = calls[c].revision
                  \/ CommitModelSyncJob(c) \/ Crash
                  \/ \E stored \in Stored : AbortCommit(c, stored)
<1> DEFINE Lives(c) ==
             /\ calls'[c].op = "launch" =>
                  calls'[c] = calls[c] \/ (CreateModelSyncJob(c) /\ calls'[c].job = jobCount')
             /\ calls[c].op = "launch" => calls'[c] = calls[c] \/ Launch(c) \/ Crash
             /\ calls[c].op \in {"commit", "fail"} =>
                  \/ /\ calls'[c].op \in {"commit", "fail"}
                     /\ calls'[c].job = calls[c].job /\ calls'[c].revision = calls[c].revision
                  \/ CommitModelSyncJob(c) \/ Crash
                  \/ \E stored \in Stored : AbortCommit(c, stored)
           All == \A c \in Clients : Lives(c)
<1>1. ASSUME UNCHANGED calls PROVE All
  BY <1>1
<1>2. ASSUME NEW d \in Clients, NEW x, calls' = [calls EXCEPT ![d] = x], Lives(d) PROVE All
  <2>1. \A c \in Clients \ {d} : calls'[c] = calls[c]
    BY <1>2 DEF TypeOK
  <2> QED BY <1>2, <2>1
<1>3. ASSUME NEW d \in Clients, Return(d), calls[d].op \notin {"launch", "commit", "fail"} PROVE All
  <2>1. calls'[d].op = "idle"
    BY <1>3 DEF TypeOK, Idle
  <2>2. Lives(d)
    BY <1>3, <2>1
  <2> QED BY <1>2, <1>3, <2>2
<1>4. ASSUME NEW d \in Clients, NEW x, calls' = [calls EXCEPT ![d] = x],
             calls[d].op \notin {"launch", "commit", "fail"}, x.op # "launch"
      PROVE  All
  <2>1. calls'[d] = x
    BY <1>4 DEF TypeOK
  <2>2. Lives(d)
    BY <1>4, <2>1
  <2> QED BY <1>2, <1>4, <2>2
<1>5. ASSUME NEW d \in Clients, QuietCall(d) PROVE All
  <2>1. CASE CommitFails(d)
    <3> DEFINE x == [calls[d] EXCEPT !.op = "fail"]
    <3>1. /\ calls' = [calls EXCEPT ![d] = x] /\ calls[d].op = "commit"
      BY <2>1 DEF CommitFails
    <3>2. x.op = "fail" /\ x.job = calls[d].job /\ x.revision = calls[d].revision
      BY Fields DEF Call
    <3> HIDE DEF x
    <3>3. calls'[d] = x
      BY <3>1 DEF TypeOK
    <3>4. Lives(d)
      BY <3>1, <3>2, <3>3
    <3> QED BY <1>2, <3>1, <3>4
  <2>2. CASE BeginStart(d) \/ BeginEdit(d)
    <3> DEFINE x == [Idle EXCEPT !.op = "create", !.seen = connection]
               y == [Idle EXCEPT !.op = "edit", !.seen = connection]
    <3>1. x.op = "create" /\ y.op = "edit" /\ calls[d].op = "idle"
      BY <2>2 DEF BeginStart, BeginEdit, Idle
    <3>2. calls' = [calls EXCEPT ![d] = x] \/ calls' = [calls EXCEPT ![d] = y]
      BY <2>2 DEF BeginStart, BeginEdit
    <3> HIDE DEF x, y
    <3> QED BY <1>4, <3>1, <3>2
  <2>3. CASE CreateRefused(d) \/ MarkRefused(d)
    BY <1>3, <2>3 DEF CreateRefused, MarkRefused
  <2>4. ASSUME NEW j \in Jobs, BeginCancel(d, j) PROVE All
    <3> DEFINE x == [Idle EXCEPT !.op = "cancel", !.job = j, !.revision = jobs[j].revision,
                                 !.state = jobs[j].state]
               y == [Idle EXCEPT !.op = "signal", !.job = j]
    <3>1. x.op = "cancel" /\ y.op = "signal" /\ calls[d].op = "idle"
      BY <2>4 DEF BeginCancel, Idle
    <3>2. calls' = [calls EXCEPT ![d] = x] \/ calls' = [calls EXCEPT ![d] = y]
      BY <2>4 DEF BeginCancel
    <3> HIDE DEF x, y
    <3> QED BY <1>4, <3>1, <3>2
  <2>5. ASSUME NEW j \in Jobs, NEW k \in Jobs, BeginApprove(d, j, jobs[k].review) PROVE All
    <3> DEFINE x == [Idle EXCEPT !.op = "mark", !.job = j, !.revision = jobs[j].revision,
                                 !.review = jobs[k].review]
    <3>1. x.op = "mark" /\ calls[d].op = "idle"
      BY <2>5 DEF BeginApprove, Idle
    <3>2. calls' = [calls EXCEPT ![d] = x]
      BY <2>5 DEF BeginApprove
    <3> HIDE DEF x
    <3> QED BY <1>4, <3>1, <3>2
  <2> QED BY <1>5, <2>1, <2>2, <2>3, <2>4, <2>5 DEF QuietCall
<1>6. ASSUME NEW d \in Clients, CreateModelSyncJob(d) PROVE All
  <2>1. calls[d].op = "create"
    BY <1>6 DEF CreateModelSyncJob
  <2>2. CASE Return(d)
    BY <1>3, <2>1, <2>2
  <2>3. CASE ~Return(d)
    <3> DEFINE x == [Idle EXCEPT !.op = "launch", !.job = jobCount']
    <3>1. calls' = [calls EXCEPT ![d] = x]
      BY <1>6, <2>3 DEF CreateModelSyncJob
    <3>2. x.op = "launch" /\ x.job = jobCount'
      BY DEF Idle
    <3> HIDE DEF x
    <3>3. calls'[d] = x
      BY <3>1 DEF TypeOK
    <3>4. Lives(d)
      BY <1>6, <2>1, <3>2, <3>3
    <3> QED BY <1>2, <3>1, <3>4
  <2> QED BY <2>2, <2>3
<1>7. ASSUME NEW d \in Clients, CancelModelSyncJob(d) \/ MarkCommitting(d) PROVE All
  <2>1. calls[d].op \in {"cancel", "mark"}
    BY <1>7 DEF CancelModelSyncJob, MarkCommitting
  <2>2. CASE Return(d)
    BY <1>3, <2>1, <2>2
  <2>3. ASSUME NEW j, Signal(d, j) PROVE All
    <3> DEFINE x == [Idle EXCEPT !.op = "signal", !.job = j]
    <3>1. calls' = [calls EXCEPT ![d] = x] /\ x.op = "signal"
      BY <2>3 DEF Idle
    <3> HIDE DEF x
    <3> QED BY <1>4, <2>1, <3>1
  <2>4. ASSUME NEW j, NEW r, Commit(d, j, r) PROVE All
    <3> DEFINE x == [Idle EXCEPT !.op = "commit", !.job = j, !.revision = r]
    <3>1. calls' = [calls EXCEPT ![d] = x] /\ x.op = "commit"
      BY <2>4 DEF Idle
    <3> HIDE DEF x
    <3> QED BY <1>4, <2>1, <3>1
  <2>5. CASE CancelModelSyncJob(d)
    BY <2>2, <2>3, <2>5 DEF CancelModelSyncJob
  <2>6. CASE MarkCommitting(d)
    <3>1. Return(d) \/ \E r : Commit(d, calls[d].job, r)
      BY <2>6 DEF MarkCommitting
    <3> QED BY <2>2, <2>4, <3>1
  <2> QED BY <1>7, <2>5, <2>6
<1>8. ASSUME NEW d \in Clients, SignalTask(d) \/ SaveEdit(d) PROVE All
  BY <1>3, <1>8 DEF SignalTask, SaveEdit
<1>9. ASSUME NEW d \in Clients,
             Launch(d) \/ CommitModelSyncJob(d) \/ \E stored \in Stored : AbortCommit(d, stored)
      PROVE  All
  <2>1. Return(d) /\ calls[d].op \in {"launch", "commit", "fail"}
    BY <1>9 DEF Launch, CommitModelSyncJob, AbortCommit
  <2>2. calls'[d].op = "idle"
    BY <2>1 DEF TypeOK, Idle
  <2>3. (calls[d].op = "launch") <=> Launch(d)
    BY <1>9 DEF Launch, CommitModelSyncJob, AbortCommit
  <2>4. Lives(d)
    BY <1>9, <2>2, <2>3
  <2> QED BY <1>2, <2>1, <2>4
<1>10. ASSUME NEW d \in Clients, SavePreset(d) \/ DeleteProviderConnection(d)
                                  \/ \E m \in Models : DeleteModelRoute(d, m)
       PROVE  All
  BY <1>1, <1>10 DEF SavePreset, DeleteProviderConnection, DeleteModelRoute
<1>11. ASSUME NEW j \in JobId,
              TaskBegins(j) \/ ComputeReview(j) \/ StoreReview(j) \/ SaveUnavailable(j)
                 \/ \E stored \in Stored : FailTask(j, stored)
       PROVE  All
  BY <1>1, <1>11 DEF TaskBegins, ComputeReview, StoreReview, SaveUnavailable, FailTask
<1>12. ASSUME NEW j \in JobId, QuietTask(j) PROVE All
  BY <1>1, <1>12, QuietTaskSteps
<1>13. CASE Crash
  <2>1. \A c \in Clients : calls'[c].op = "idle"
    BY <1>13 DEF Crash, Idle
  <2> QED BY <1>13, <2>1
<1>14. CASE RecoverInterruptedJobs
  BY <1>1, <1>14 DEF RecoverInterruptedJobs
<1>15. All
  BY StepCases, <1>5, <1>6, <1>7, <1>8, <1>9, <1>10, <1>11, <1>12, <1>13, <1>14 DEF LoudStep
<1> QED BY <1>15

-----------------------------------------------------------------------------
(* The graph: the connection, its routes, presets and observations.        *)

(* The types of the graph and of the history of its writes.                *)
GraphTyped ==
    /\ connection \in Connection /\ archived \in BOOLEAN /\ routes \in [Models -> Route]
    /\ extras \in Nat /\ clock \in Nat /\ edits \in 0..MaxEdits
    /\ touched \in [JobId -> BOOLEAN]

(* Somebody but an approval wrote the graph: the write shows. *)
Written ==
    /\ UNCHANGED <<jobs, jobCount>> /\ touched' = TouchedBy(0)
    /\ extras' > extras \/ connection'.at > clock
    /\ connection' = connection \/ connection'.at > clock
    /\ \A m \in Models : routes'[m].miss <= routes[m].miss

(* A step keeps the graph, writes it visibly, archives it when no job is   *)
(* open, or applies the review of a job it was allowed to commit.          *)
GraphStep ==
    /\ GraphTyped' /\ clock' >= clock /\ extras' >= extras /\ connection'.at <= clock'
    /\ archived' = archived \/ (NoUnfinishedWork /\ UNCHANGED jobVars)
    /\ \/ UNCHANGED <<connection, routes, extras, touched>>
       \/ Written
       \/ \E c \in Clients :
             calls[c].op = "commit" /\ CommitAllowed(c) /\ ApplyReview(calls[c].job)

(* A step that at most takes a timestamp is such a step.                   *)
LEMMA GraphKept ==
    ASSUME TypeOK, TimesAreOver, UNCHANGED <<connection, archived, routes, extras, edits, touched>>,
           clock' \in {clock, clock + 1}
    PROVE  GraphStep
<1>1. connection \in Connection /\ connection.at \in Nat /\ clock \in Nat /\ extras \in Nat
  BY DEF TypeOK, Connection
<1>2. GraphTyped'
  BY <1>1 DEF TypeOK, GraphTyped
<1> QED BY <1>1, <1>2 DEF GraphStep, TimesAreOver

(* Reconciling the routes with a listing leaves routes.                    *)
LEMMA Reconciling ==
    ASSUME TypeOK, NEW listed
    PROVE  Reconciled(routes, listed) \in [Models -> Route]
<1>1. ASSUME NEW m \in Models
      PROVE  /\ routes[m] \in Route /\ [known |-> TRUE, miss |-> 0] \in Route
             /\ [routes[m] EXCEPT !.miss = @ + 1] \in Route
  <2>1. routes[m] \in Route
    BY DEF TypeOK
  <2> QED BY <2>1 DEF Route
<1> QED BY <1>1 DEF Reconciled

(* Every step is a step of the graph.                                      *)
LEMMA GraphSteps ==
    ASSUME TypeOK, CallsNameJobs, TimesAreOver, Next
    PROVE  GraphStep
<1>0. /\ connection \in Connection /\ connection.at \in Nat /\ clock \in Nat /\ extras \in Nat
      /\ edits \in Nat /\ edits \in 0..MaxEdits /\ MaxEdits \in Nat
  BY SyncAssumption DEF TypeOK, Connection
<1>1. ASSUME UNCHANGED <<graphVars, touched>> PROVE GraphStep
  BY <1>1, GraphKept
<1>2. ASSUME NEW c \in Clients, SaveEdit(c) PROVE GraphStep
  <2>1. CASE archived \/ ~MayEdit
    BY <1>1, <1>2, <2>1 DEF SaveEdit
  <2>2. CASE ~(archived \/ ~MayEdit)
    <3> DEFINE x == [calls[c].seen EXCEPT !.label = edits + 1, !.at = clock + 1]
    <3>0. calls[c].seen \in Connection /\ edits + 1 \in Nat /\ clock + 1 \in Nat
      BY <1>0, Fields
    <3>1. x \in Connection /\ x.at = clock + 1
      BY <3>0 DEF Connection
    <3>2. /\ connection' = x /\ clock' = clock + 1 /\ edits' = edits + 1
          /\ touched' = TouchedBy(0) /\ edits < MaxEdits
          /\ UNCHANGED <<archived, routes, extras, jobs, jobCount>>
      BY <1>2, <2>2 DEF SaveEdit, MayEdit
    <3> HIDE DEF x
    <3>3. edits' \in 0..MaxEdits /\ clock' \in Nat /\ connection' \in Connection
      BY <1>0, <3>1, <3>2
    <3>4. GraphTyped'
      BY <3>2, <3>3, TouchedTyped DEF GraphTyped, TypeOK
    <3>5. \A m \in Models : routes'[m].miss <= routes[m].miss
      BY <3>2 DEF TypeOK, Route
    <3>6. Written
      BY <1>0, <3>1, <3>2, <3>5 DEF Written
    <3> QED BY <1>0, <3>1, <3>2, <3>4, <3>6 DEF GraphStep
  <2> QED BY <2>1, <2>2
<1>3. ASSUME NEW j \in JobId, SaveUnavailable(j) PROVE GraphStep
  <2>1. CASE archived
    BY <1>1, <1>3, <2>1 DEF SaveUnavailable
  <2>2. CASE ~archived
    <3> DEFINE x == [tasks[j].connection EXCEPT !.status = "unavailable", !.at = clock + 1]
    <3>0. tasks[j].connection \in Connection /\ clock + 1 \in Nat
      BY <1>0, Fields
    <3>1. x \in Connection /\ x.at = clock + 1
      BY <3>0 DEF Connection
    <3>2. /\ connection' = x /\ clock' = clock + 1
          /\ touched' = TouchedBy(0)
          /\ UNCHANGED <<archived, routes, extras, edits, jobs, jobCount>>
      BY <1>3, <2>2 DEF SaveUnavailable
    <3> HIDE DEF x
    <3>3. clock' \in Nat /\ connection' \in Connection
      BY <1>0, <3>1, <3>2
    <3>4. GraphTyped'
      BY <3>2, <3>3, TouchedTyped DEF GraphTyped, TypeOK
    <3>5. \A m \in Models : routes'[m].miss <= routes[m].miss
      BY <3>2 DEF TypeOK, Route
    <3>6. Written
      BY <1>0, <3>1, <3>2, <3>5 DEF Written
    <3> QED BY <1>0, <3>1, <3>2, <3>4, <3>6 DEF GraphStep
  <2> QED BY <2>1, <2>2
<1>4. ASSUME NEW c \in Clients, SavePreset(c) \/ \E m \in Models : DeleteModelRoute(c, m)
      PROVE  GraphStep
  <2>1. /\ extras' = extras + 1 /\ edits' = edits + 1 /\ edits < MaxEdits
        /\ touched' = TouchedBy(0) /\ UNCHANGED <<connection, archived, clock, jobs, jobCount>>
    BY <1>4 DEF SavePreset, DeleteModelRoute, MayEdit
  <2>2. edits' \in 0..MaxEdits /\ extras' \in Nat
    BY <1>0, <2>1
  <2>3. \A m \in Models : routes[m].miss \in Nat /\ Absent.miss = 0 /\ Absent \in Route
    BY Constants DEF TypeOK, Route, Absent
  <2>4. /\ routes' \in [Models -> Route]
        /\ \A m \in Models : routes'[m] = routes[m] \/ routes'[m] = Absent
    BY <1>4, <2>3 DEF SavePreset, DeleteModelRoute, TypeOK
  <2>5. GraphTyped'
    BY <2>1, <2>2, <2>4, TouchedTyped DEF GraphTyped, TypeOK
  <2>6. \A m \in Models : routes'[m].miss <= routes[m].miss
    BY <2>3, <2>4
  <2>7. Written
    BY <1>0, <2>1, <2>6 DEF Written
  <2> QED BY <1>0, <2>1, <2>5, <2>7 DEF GraphStep, TimesAreOver
<1>5. ASSUME NEW c \in Clients, DeleteProviderConnection(c) PROVE GraphStep
  <2>1. /\ archived' = TRUE /\ NoUnfinishedWork /\ UNCHANGED jobVars
        /\ UNCHANGED <<connection, routes, extras, clock, edits, touched>>
    BY <1>5 DEF DeleteProviderConnection
  <2>2. GraphTyped'
    BY <2>1 DEF GraphTyped, TypeOK
  <2> QED BY <1>0, <2>1, <2>2 DEF GraphStep, TimesAreOver
<1>6. ASSUME NEW c \in Clients, CommitModelSyncJob(c) PROVE GraphStep
  <2>1. CASE UNCHANGED <<graphVars, touched>>
    BY <1>1, <2>1
  <2>2. CASE ~UNCHANGED <<graphVars, touched>>
    <3> DEFINE j == calls[c].job
               x == [connection EXCEPT !.status = "connected", !.at = jobs[j].review.at]
    <3>1. j \in JobId /\ calls[c].op = "commit" /\ CommitAllowed(c) /\ ApplyReview(j)
      BY <1>6, <2>2, Fields DEF CommitModelSyncJob, CallsNameJobs
    <3>2. jobs[j].review.at \in Nat /\ jobs[j].review.at <= clock
      BY <3>1, Fields DEF TimesAreOver, Review
    <3>3. x \in Connection /\ x.at = jobs[j].review.at
      BY <1>0, <3>2 DEF Connection
    <3>4. /\ connection' = x /\ extras' = extras + 1 /\ touched' = TouchedBy(j)
          /\ routes' = Reconciled(routes, jobs[j].review.listed)
          /\ UNCHANGED <<archived, clock, edits>>
      BY <3>1 DEF ApplyReview
    <3> HIDE DEF x
    <3>5. connection' \in Connection /\ extras' \in Nat
      BY <1>0, <3>3, <3>4
    <3>6. GraphTyped'
      BY <3>4, <3>5, TouchedTyped, Reconciling DEF GraphTyped, TypeOK
    <3> QED BY <1>0, <3>1, <3>2, <3>3, <3>4, <3>6 DEF GraphStep
  <2> QED BY <2>1, <2>2
<1>7. ASSUME NEW j \in JobId, ComputeReview(j) PROVE GraphStep
  BY <1>7, GraphKept DEF ComputeReview
<1>8. ASSUME NEW c \in Clients,
             \/ CreateModelSyncJob(c) \/ Launch(c) \/ SignalTask(c)
             \/ CancelModelSyncJob(c) \/ MarkCommitting(c)
             \/ \E stored \in Stored : AbortCommit(c, stored)
      PROVE  GraphStep
  BY <1>1, <1>8 DEF CreateModelSyncJob, Launch, SignalTask, CancelModelSyncJob, MarkCommitting,
                    AbortCommit, FailModelSyncJob
<1>9. ASSUME NEW j \in JobId,
             TaskBegins(j) \/ StoreReview(j) \/ \E stored \in Stored : FailTask(j, stored)
      PROVE  GraphStep
  BY <1>1, <1>9 DEF TaskBegins, StoreReview, FailTask, FailModelSyncJob
<1>10. CASE Crash \/ RecoverInterruptedJobs
  BY <1>1, <1>10 DEF Crash, RecoverInterruptedJobs
<1>11. ASSUME NEW c \in Clients, QuietCall(c) PROVE GraphStep
  BY <1>1, <1>11, QuietCallSteps
<1>12. ASSUME NEW j \in JobId, QuietTask(j) PROVE GraphStep
  BY <1>1, <1>12, QuietTaskSteps
<1> QED BY StepCases, <1>2, <1>3, <1>4, <1>5, <1>6, <1>7, <1>8, <1>9, <1>10, <1>11, <1>12
       DEF LoudStep

-----------------------------------------------------------------------------
(* The invariant is kept by every step. *)

(* Only an open job is newly marked as written over by others.             *)
LEMMA TouchedMeans ==
    ASSUME GraphStep, CallsNameJobs, NEW j \in JobId
    PROVE  touched'[j] => touched[j] \/ (j \in Jobs /\ jobs[j].state \notin Terminal)
<1>1. \A k : touched' = TouchedBy(k) =>
          (touched'[j] => touched[j] \/ (j \in Jobs /\ jobs[j].state \notin Terminal))
  BY DEF TouchedBy
<1> QED BY <1>1 DEF GraphStep, Written, ApplyReview

(* Every step keeps RowsAreJobs.                                           *)
LEMMA RowsStayJobs ==
    ASSUME TypeOK, RowsAreJobs, CallsNameJobs, OneActiveJob, EventsFollowRevisions,
           TimesAreOver, Next
    PROVE  RowsAreJobs'
<1>1. /\ Jobs \subseteq Jobs'
      /\ \A j \in Jobs' : /\ jobs'[j].state \in State /\ jobs'[j].revision > 0
                          /\ jobs'[j].state = "created" => jobs'[j].revision = 1
  BY JobSteps, StepsKeepTable
<1>2. ASSUME NEW j \in JobId \ Jobs' PROVE tasks'[j].pc = "none"
  <2>1. tasks[j].pc = "none"
    BY <1>1 DEF RowsAreJobs
  <2>2. \A c \in Clients : Launch(c) => calls[c].job \in Jobs
    BY DEF Launch, CallsNameJobs
  <2> QED BY <1>1, <2>1, <2>2, TaskSteps
<1>3. ASSUME NEW j \in JobId \ Jobs' PROVE ~touched'[j]
  BY <1>1, GraphSteps, TouchedMeans DEF RowsAreJobs
<1> QED BY <1>1, <1>2, <1>3 DEF RowsAreJobs

(* Every step keeps TimesAreOver.                                          *)
LEMMA TimesStayOver ==
    ASSUME TypeOK, RowsAreJobs, CallsNameJobs, TimesAreOver, Next
    PROVE  TimesAreOver'
<1>1. /\ clock \in Nat /\ clock' \in Nat /\ clock' >= clock
      /\ extras \in Nat /\ extras' \in Nat /\ extras' >= extras /\ connection'.at <= clock'
      /\ connection.at <= clock
  BY GraphSteps DEF GraphStep, GraphTyped, TypeOK, TimesAreOver
<1>2. ASSUME NEW j \in JobId
      PROVE  /\ jobs[j].review.at \in Nat /\ tasks[j].review.at \in Nat
             /\ jobs[j].base.connection.at \in Nat /\ jobs[j].base.extras \in Nat
             /\ jobs[j].review.at <= clock /\ tasks[j].review.at <= clock
             /\ jobs[j].base.connection.at <= clock /\ jobs[j].base.extras <= extras
  BY Fields DEF TimesAreOver, Review, Graph, Connection
<1>3. ASSUME NEW j \in JobId PROVE tasks'[j].review.at <= clock'
  <2>1. NoReview.at = 0
    BY Constants
  <2>2. \/ tasks'[j].review \in {tasks[j].review, NoReview}
        \/ tasks'[j].review.at <= clock'
    BY TaskSteps
  <2> QED BY <1>1, <1>2, <2>1, <2>2
<1>4. ASSUME NEW j \in JobId
      PROVE  /\ jobs'[j].review.at <= clock'
             /\ jobs'[j].base.connection.at <= clock' /\ jobs'[j].base.extras <= extras'
  <2>1. CASE RowKept(j)
    BY <1>1, <1>2, <2>1 DEF RowKept
  <2>2. CASE RowAdvanced(j)
    <3>1. /\ jobs'[j].review \in {jobs[j].review, tasks[j].review}
          /\ jobs'[j].base = jobs[j].base
      BY <2>2 DEF RowAdvanced
    <3> QED BY <1>1, <1>2, <3>1
  <2>3. ASSUME NEW c \in Clients, CreateModelSyncJob(c), j = jobCount'
        PROVE  /\ jobs'[j].review.at <= clock'
               /\ jobs'[j].base.connection.at <= clock' /\ jobs'[j].base.extras <= extras'
    <3>1. jobs'[j].review = NoReview /\ jobs'[j].base = CurrentGraph
      BY <2>3, CreatedRow
    <3>2. NoReview.at = 0 /\ CurrentGraph.connection = connection /\ CurrentGraph.extras = extras
      BY Constants DEF CurrentGraph
    <3>3. connection.at \in Nat
      BY DEF TypeOK, Connection
    <3> QED BY <1>1, <3>1, <3>2, <3>3
  <2> QED BY <2>1, <2>2, <2>3, JobSteps, CreatedRow DEF TableStep
<1> QED BY <1>1, <1>3, <1>4 DEF TimesAreOver

(* Every step keeps WritesShow: a write by others moves the version of the *)
(* presets or the time of the connection beyond what the open job started  *)
(* from.                                                                   *)
LEMMA WritesStillShow ==
    ASSUME TypeOK, RowsAreJobs, CallsNameJobs, TimesAreOver, WritesShow, Next
    PROVE  WritesShow'
<1>1. /\ clock \in Nat /\ extras \in Nat /\ extras' \in Nat /\ extras' >= extras
      /\ connection.at \in Nat /\ connection'.at \in Nat
  BY GraphSteps DEF GraphStep, GraphTyped, TypeOK, Connection
<1>2. SUFFICES ASSUME NEW j \in Jobs', jobs'[j].state \notin Terminal, touched'[j]
               PROVE  \/ extras' > jobs'[j].base.extras
                      \/ connection'.at > jobs'[j].base.connection.at
  BY DEF WritesShow
<1>3. j \in JobId
  <2>1. jobCount' \in 0..MaxJobs /\ MaxJobs \in Nat
    BY JobSteps, CreatedRow, SyncAssumption DEF TypeOK, TableStep, JobId
  <2> QED BY <2>1 DEF Jobs, JobId
<1>4. j \in Jobs
  <2>1. ASSUME j \notin Jobs PROVE FALSE
    BY <1>2, <1>3, <2>1, GraphSteps, TouchedMeans DEF RowsAreJobs
  <2> QED BY <2>1
<1>5. jobs[j].state \notin Terminal /\ jobs'[j].base = jobs[j].base
  <2>1. RowKept(j) \/ RowAdvanced(j)
    BY <1>3, <1>4, JobSteps, CreatedRow DEF TableStep
  <2> QED BY <1>2, <2>1 DEF RowKept, RowAdvanced
<1>6. /\ jobs[j].base.extras \in Nat /\ jobs[j].base.connection.at \in Nat
      /\ jobs[j].base.extras <= extras /\ jobs[j].base.connection.at <= clock
  BY <1>3, Fields DEF TimesAreOver, Graph, Connection
<1>7. CASE UNCHANGED <<connection, extras, touched>>
  BY <1>1, <1>2, <1>4, <1>5, <1>6, <1>7 DEF WritesShow
<1>8. CASE Written
  BY <1>1, <1>5, <1>6, <1>8 DEF Written
<1>9. ASSUME NEW k, ApplyReview(k) PROVE extras' > jobs'[j].base.extras
  BY <1>1, <1>5, <1>6, <1>9 DEF ApplyReview
<1> QED BY <1>7, <1>8, <1>9, GraphSteps DEF GraphStep

(* Every step keeps CommitKeepsOtherWrites: the graph an approval compares *)
(* is the one the job started from, so nobody wrote it in between.         *)
LEMMA OtherWritesKept ==
    ASSUME TypeOK, RowsAreJobs, CallsNameJobs, TimesAreOver, WritesShow, CommitKeepsOtherWrites, Next
    PROVE  CommitKeepsOtherWrites'
<1>1. SUFFICES ASSUME NEW j \in Jobs', jobs'[j].state = "completed" PROVE ~touched'[j]
  BY DEF CommitKeepsOtherWrites
<1>2. j \in JobId
  <2>1. jobCount' \in 0..MaxJobs /\ MaxJobs \in Nat
    BY JobSteps, CreatedRow, SyncAssumption DEF TypeOK, TableStep, JobId
  <2> QED BY <2>1 DEF Jobs, JobId
<1>3. j \in Jobs /\ (RowKept(j) \/ RowAdvanced(j))
  BY <1>1, <1>2, JobSteps, CreatedRow DEF TableStep, Jobs
<1>4. CASE RowKept(j)
  BY <1>1, <1>2, <1>3, <1>4, GraphSteps, TouchedMeans
     DEF RowKept, CommitKeepsOtherWrites, Terminal
<1>5. CASE RowAdvanced(j)
  <2>1. PICK c \in Clients : CommitAllowed(c) /\ ApplyReview(j) /\ calls[c].job = j
    BY <1>1, <1>5 DEF RowAdvanced
  <2>2. CurrentGraph = jobs[j].base
    BY <2>1 DEF CommitAllowed, GraphMatches
  <2>3. connection = jobs[j].base.connection /\ extras = jobs[j].base.extras
    BY <2>2 DEF CurrentGraph
  <2>4. extras \in Nat /\ connection.at \in Nat
    BY DEF TypeOK, Connection
  <2>5. ~touched[j]
    BY <1>3, <1>5, <2>3, <2>4 DEF WritesShow, RowAdvanced
  <2>6. touched' = TouchedBy(j)
    BY <2>1 DEF ApplyReview
  <2> QED BY <1>2, <2>5, <2>6 DEF TouchedBy
<1> QED BY <1>3, <1>4, <1>5

(* The completed jobs whose listing left m out.                            *)
Omitted(m) == {j \in Jobs : jobs[j].state = "completed" /\ m \notin jobs[j].review.listed}

(* A set of job ids is finite.                                             *)
LEMMA JobSetsFinite ==
    ASSUME NEW n \in Nat, NEW S \in SUBSET (1..n)
    PROVE  IsFiniteSet(S) /\ Cardinality(S) \in Nat
<1>1. IsFiniteSet(1..n)
  BY FS_Interval
<1>2. IsFiniteSet(S)
  BY <1>1, FS_Subset
<1> QED BY <1>2, FS_CardinalityType

(* Every step keeps MissesCountOmissions: the step that counts a miss is   *)
(* the one that completes a job which omits the model.                     *)
LEMMA MissesStillCount ==
    ASSUME TypeOK, RowsAreJobs, CallsNameJobs, OneActiveJob, EventsFollowRevisions,
           TimesAreOver, MissesCountOmissions, Next
    PROVE  MissesCountOmissions'
<1>1. SUFFICES ASSUME NEW m \in Models PROVE routes'[m].miss <= Cardinality(Omitted(m)')
  BY DEF MissesCountOmissions, Omitted
<1>2. jobCount \in Nat /\ jobCount' \in Nat
  BY JobSteps, CreatedRow DEF TypeOK, TableStep, JobId
<1>3. /\ IsFiniteSet(Omitted(m)) /\ Cardinality(Omitted(m)) \in Nat
      /\ IsFiniteSet(Omitted(m)') /\ Cardinality(Omitted(m)') \in Nat
  <2>1. Omitted(m) \in SUBSET (1..jobCount) /\ Omitted(m)' \in SUBSET (1..jobCount')
    BY DEF Omitted, Jobs
  <2> QED BY <1>2, <2>1, JobSetsFinite
<1>4. Omitted(m) \subseteq Omitted(m)'
  <2>1. Jobs \subseteq Jobs' /\ \A j \in Jobs : jobs[j].state \in Terminal => RowKept(j)
    BY JobSteps, StepsKeepTable
  <2> QED BY <2>1 DEF Omitted, RowKept, Terminal
<1>5. Cardinality(Omitted(m)) <= Cardinality(Omitted(m)')
  BY <1>3, <1>4, FS_Subset
<1>6. /\ routes[m].miss \in Nat /\ routes'[m].miss \in Nat
      /\ routes[m].miss <= Cardinality(Omitted(m))
  BY GraphSteps DEF TypeOK, GraphStep, GraphTyped, Route, MissesCountOmissions, Omitted
<1>7. CASE routes'[m].miss <= routes[m].miss
  BY <1>3, <1>5, <1>6, <1>7
<1>8. ASSUME NEW c \in Clients, calls[c].op = "commit", CommitAllowed(c), ApplyReview(calls[c].job)
      PROVE  routes'[m].miss <= Cardinality(Omitted(m)')
  <2> DEFINE j == calls[c].job
  <2>1. j \in Jobs /\ j \in JobId /\ jobs[j].state = "committing"
    BY <1>8, Fields DEF CallsNameJobs, CommitAllowed, Unchanged
  <2>2. routes'[m] = IF m \in jobs[j].review.listed THEN [known |-> TRUE, miss |-> 0]
                     ELSE IF routes[m].known THEN [routes[m] EXCEPT !.miss = @ + 1]
                     ELSE routes[m]
    BY <1>8 DEF ApplyReview, Reconciled
  <2>3. [routes[m] EXCEPT !.miss = @ + 1].miss = routes[m].miss + 1
    BY DEF TypeOK, Route
  <2>4. CASE m \in jobs[j].review.listed \/ ~routes[m].known
    BY <1>6, <1>7, <2>2, <2>4
  <2>5. CASE m \notin jobs[j].review.listed /\ routes[m].known
    <3>1. routes'[m].miss = routes[m].miss + 1
      BY <2>2, <2>3, <2>5
    <3>2. j \notin Omitted(m)
      BY <2>1 DEF Omitted
    <3>3. jobs'[j].state = "completed" /\ jobs'[j].review = jobs[j].review /\ Jobs' = Jobs
      BY <1>8, <2>1, Fields DEF ApplyReview, TypeOK, Job, Jobs
    <3>4. j \in Omitted(m)'
      BY <2>1, <2>5, <3>3 DEF Omitted
    <3>5. Cardinality(Omitted(m) \cup {j}) = Cardinality(Omitted(m)) + 1
      BY <1>3, <3>2, FS_AddElement
    <3>6. Cardinality(Omitted(m) \cup {j}) <= Cardinality(Omitted(m)')
      <4>1. Omitted(m) \cup {j} \subseteq Omitted(m)'
        BY <1>4, <3>4
      <4> QED BY <1>3, <4>1, FS_Subset
    <3> QED BY <1>3, <1>6, <3>1, <3>5, <3>6
  <2> QED BY <2>4, <2>5
<1>9. CASE UNCHANGED routes \/ Written
  BY <1>6, <1>7, <1>9 DEF Written
<1> QED BY <1>8, <1>9, GraphSteps DEF GraphStep

(* Every step keeps ArchivedIsQuiet.                                       *)
LEMMA ArchivedStaysQuiet ==
    ASSUME TypeOK, RowsAreJobs, CallsNameJobs, OneActiveJob, EventsFollowRevisions,
           TimesAreOver, ArchivedIsQuiet, Next
    PROVE  ArchivedIsQuiet'
<1>1. SUFFICES ASSUME archived', NEW j \in Jobs' PROVE jobs'[j].state \in Terminal
  BY DEF ArchivedIsQuiet
<1>2. archived' = archived \/ (NoUnfinishedWork /\ UNCHANGED jobVars)
  BY GraphSteps DEF GraphStep
<1>3. CASE NoUnfinishedWork /\ UNCHANGED jobVars
  BY <1>3 DEF NoUnfinishedWork, Jobs
<1>4. CASE archived' = archived
  <2>1. archived /\ ~\E c \in Clients : CreateModelSyncJob(c)
    BY <1>1, <1>4 DEF CreateModelSyncJob
  <2>2. TableStep
    BY <2>1, JobSteps
  <2>3. j \in Jobs /\ jobs[j].state \in Terminal
    BY <1>1, <2>1, <2>2 DEF ArchivedIsQuiet, TableStep, Jobs
  <2>4. RowKept(j)
    BY <2>2, <2>3, StepsKeepTable
  <2> QED BY <2>3, <2>4 DEF RowKept
<1> QED BY <1>2, <1>3, <1>4

(* Every step keeps LaunchedOnce.                                          *)
LEMMA LaunchedStillOnce ==
    ASSUME TypeOK, RowsAreJobs, CallsNameJobs, OneActiveJob, EventsFollowRevisions,
           LaunchedOnce, Next
    PROVE  LaunchedOnce'
<1>0. Jobs \subseteq JobId /\ \A c \in Clients : calls[c].op = "launch" => calls[c].job \in Jobs
  BY Fields DEF CallsNameJobs
<1>1. ASSUME NEW c \in Clients, CreateModelSyncJob(c) PROVE LaunchedOnce'
  <2>1. /\ jobCount' \in JobId \ Jobs /\ jobs'[jobCount'].state = "created"
        /\ \A j \in Jobs : RowKept(j)
    BY <1>0, <1>1, CreatedRow
  <2>2. tasks' = tasks /\ tasks[jobCount'].pc = "none"
    BY <1>1, <2>1 DEF CreateModelSyncJob, RowsAreJobs
  <2>3. \A d \in Clients \ {c} : calls'[d] = calls[d]
    BY <1>1 DEF TypeOK, CreateModelSyncJob
  <2>4. calls'[c].op = "launch" => calls'[c].job = jobCount'
    <3>1. calls[c].op = "create"
      BY <1>1 DEF CreateModelSyncJob
    <3> QED BY <3>1, CallSteps
  <2> QED BY <1>0, <2>1, <2>2, <2>3, <2>4 DEF LaunchedOnce, RowKept
<1>2. ASSUME ~\E c \in Clients : CreateModelSyncJob(c) PROVE LaunchedOnce'
  <2>1. TableStep
    BY <1>2, JobSteps
  <2>2. ASSUME NEW c \in Clients, calls'[c].op = "launch"
        PROVE  /\ calls'[c] = calls[c] /\ calls[c].job \in JobId
               /\ tasks[calls[c].job].pc = "none" /\ jobs[calls[c].job].state # "fetching"
    BY <1>0, <1>2, <2>2, CallSteps DEF LaunchedOnce
  <2>3. ASSUME NEW c \in Clients, calls'[c].op = "launch"
        PROVE  tasks'[calls[c].job].pc = "none"
    <3>1. \A d \in Clients : Launch(d) => calls[d].op = "launch" /\ calls'[d].op = "idle"
      BY DEF Launch, TypeOK, Idle
    <3>2. \A d \in Clients : Launch(d) => calls[d].job # calls[c].job
      BY <2>2, <2>3, <3>1 DEF LaunchedOnce
    <3> QED BY <2>2, <2>3, <3>2, TaskSteps
  <2>4. ASSUME NEW c \in Clients, calls'[c].op = "launch"
        PROVE  jobs'[calls[c].job].state # "fetching"
    <3>1. ~TaskBegins(calls[c].job)
      BY <2>2, <2>4 DEF TaskBegins
    <3> QED BY <2>1, <2>2, <2>4, <3>1 DEF TableStep, RowKept, RowAdvanced
  <2> QED BY <2>2, <2>3, <2>4 DEF LaunchedOnce
<1> QED BY <1>1, <1>2

(* Every step keeps TaskKnowsRevision.                                     *)
LEMMA TaskStillKnows ==
    ASSUME TypeOK, RowsAreJobs, CallsNameJobs, LaunchedOnce, TaskKnowsRevision, Next
    PROVE  TaskKnowsRevision'
<1>1. SUFFICES ASSUME NEW j \in JobId
               PROVE  /\ tasks'[j].pc = "begin" => jobs'[j].state # "fetching"
                      /\ ~storeFails' /\ Running(tasks'[j]) =>
                            /\ jobs'[j].state # "created"
                            /\ jobs'[j].state = "fetching" =>
                                  jobs'[j].revision = tasks'[j].revision
  BY DEF TaskKnowsRevision, Running
<1>2. /\ storeFails' = storeFails
      /\ tasks[j].pc = "begin" => jobs[j].state # "fetching"
      /\ ~storeFails /\ Running(tasks[j]) =>
            /\ jobs[j].state # "created"
            /\ jobs[j].state = "fetching" => jobs[j].revision = tasks[j].revision
  BY StoreKept DEF TaskKnowsRevision, Running
<1>3. ASSUME TaskBegins(j)
      PROVE  /\ Running(tasks'[j]) /\ jobs'[j].state # "created"
             /\ ~storeFails /\ jobs'[j].state = "fetching" =>
                   jobs'[j].revision = tasks'[j].revision
  <2>1. /\ tasks[j].pc = "begin" /\ j \in Jobs /\ jobs[j] \in Job /\ tasks[j] \in Task
    BY <1>3, Fields DEF TaskBegins, RowsAreJobs
  <2>2. CASE Unchanged(j, "created", 1)
    <3>1. jobs'[j].state = "fetching" /\ jobs'[j].revision = 2
      BY <1>3, <2>1, <2>2, Fields DEF TaskBegins, TypeOK, Unchanged, Job
    <3>2. \/ tasks'[j].pc = "read" /\ tasks'[j].revision = 2
          \/ storeFails /\ tasks'[j].pc = "fail"
      <4> DEFINE x == [tasks[j] EXCEPT !.pc = "read", !.revision = 2]
                 y == [NoTask EXCEPT !.pc = "fail", !.revision = 1]
      <4>1. x.pc = "read" /\ x.revision = 2 /\ y.pc = "fail"
        BY <2>1 DEF Task, NoTask
      <4>2. tasks' = [tasks EXCEPT ![j] = x] \/ (storeFails /\ tasks' = [tasks EXCEPT ![j] = y])
        BY <1>3, <2>2 DEF TaskBegins
      <4> HIDE DEF x, y
      <4>3. tasks'[j] = x \/ (storeFails /\ tasks'[j] = y)
        BY <4>2 DEF TypeOK
      <4> QED BY <4>1, <4>3
    <3> QED BY <3>1, <3>2 DEF Running
  <2>3. CASE ~Unchanged(j, "created", 1)
    <3>1. jobs' = jobs /\ tasks'[j].pc = "fail"
      BY <1>3, <2>3 DEF TaskBegins, TypeOK, NoTask
    <3>2. jobs[j].state # "created"
      BY <2>1, <2>3 DEF Unchanged, RowsAreJobs
    <3> QED BY <1>2, <2>1, <3>1, <3>2 DEF Running
  <2> QED BY <2>2, <2>3
<1>4. CASE TaskBegins(j)
  BY <1>2, <1>3, <1>4 DEF Running
<1>5. CASE ~TaskBegins(j)
  <2>1. tasks[j].pc # "none" => j \in Jobs /\ (RowKept(j) \/ RowAdvanced(j))
    <3>1. tasks[j].pc # "none" => j \in Jobs
      BY DEF RowsAreJobs
    <3> QED BY <3>1, JobSteps, CreatedRow DEF TableStep
  <2>2. ASSUME tasks'[j].pc = "begin" PROVE jobs'[j].state # "fetching"
    <3>1. CASE tasks[j].pc = "begin"
      BY <1>2, <1>5, <2>1, <3>1 DEF RowKept, RowAdvanced
    <3>2. ASSUME NEW c \in Clients, Launch(c), calls[c].job = j
          PROVE  jobs'[j].state # "fetching"
      BY <3>2 DEF Launch, LaunchedOnce
    <3> QED BY <2>2, <3>1, <3>2, TaskSteps
  <2>3. ASSUME ~storeFails', Running(tasks'[j])
        PROVE  /\ jobs'[j].state # "created"
               /\ jobs'[j].state = "fetching" => jobs'[j].revision = tasks'[j].revision
    <3>1. Running(tasks[j]) /\ tasks'[j].revision = tasks[j].revision
      BY <1>5, <2>3, TaskSteps
    <3>2. RowKept(j) \/ RowAdvanced(j)
      BY <2>1, <3>1 DEF Running
    <3> QED BY <1>2, <1>5, <2>3, <3>1, <3>2 DEF RowKept, RowAdvanced
  <2> QED BY <2>2, <2>3
<1> QED BY <1>4, <1>5

(* Every step keeps CommitKnowsRevision.                                   *)
LEMMA CommitStillKnows ==
    ASSUME TypeOK, RowsAreJobs, CallsNameJobs, DownIsIdle, CommitKnowsRevision, Next
    PROVE  CommitKnowsRevision'
<1>1. SUFFICES ASSUME up', ~storeFails, NEW j \in Jobs', jobs'[j].state = "committing"
               PROVE  \E c \in Clients : /\ calls'[c].op \in {"commit", "fail"}
                                         /\ calls'[c].job = j
                                         /\ calls'[c].revision = jobs'[j].revision
  BY StoreKept DEF CommitKnowsRevision
<1>2. j \in Jobs /\ j \in JobId /\ (RowKept(j) \/ RowAdvanced(j))
  <2>1. CASE TableStep
    BY <1>1, <2>1, Fields DEF TableStep, Jobs
  <2>2. ASSUME NEW c \in Clients, CreateModelSyncJob(c) PROVE j \in Jobs /\ j \in JobId /\ RowKept(j)
    BY <1>1, <2>2, CreatedRow, Fields
  <2> QED BY <2>1, <2>2, JobSteps
<1>3. CASE RowAdvanced(j)
  <2>1. PICK c \in Clients : MarkCommitting(c) /\ calls[c].job = j
    BY <1>1, <1>3 DEF RowAdvanced
  <2>2. jobs[j].state # "completed" /\ jobs'[j].revision = jobs[j].revision + 1
    BY <1>3 DEF RowAdvanced, Terminal
  <2>3. Commit(c, j, jobs[j].revision + 1)
    BY <1>1, <2>1, <2>2 DEF MarkCommitting
  <2>4. calls'[c] = [Idle EXCEPT !.op = "commit", !.job = j, !.revision = jobs[j].revision + 1]
    BY <2>3 DEF TypeOK
  <2>5. calls'[c].op = "commit" /\ calls'[c].job = j /\ calls'[c].revision = jobs[j].revision + 1
    BY <2>4 DEF Idle
  <2> QED BY <2>2, <2>5
<1>4. CASE RowKept(j)
  <2>1. up
    <3>1. ASSUME ~up PROVE FALSE
      <4>1. RecoverInterruptedJobs
        BY <3>1, DownOnlyRecovers
      <4>2. j \in Abandoned
        BY <1>1, <1>2, <1>4 DEF Abandoned, RowKept
      <4>3. jobs'[j].state = "interrupted"
        BY <1>2, <4>1, <4>2, Fields DEF RecoverInterruptedJobs, Job
      <4> QED BY <1>1, <4>3
    <3> QED BY <3>1
  <2>2. PICK c \in Clients : /\ calls[c].op \in {"commit", "fail"} /\ calls[c].job = j
                             /\ calls[c].revision = jobs[j].revision
    BY <1>1, <1>2, <1>4, <2>1 DEF CommitKnowsRevision, RowKept
  <2>3. ~Crash
    BY <1>1 DEF Crash
  <2>4. ~CommitModelSyncJob(c)
    <3>1. ASSUME CommitModelSyncJob(c) PROVE FALSE
      <4>1. ApplyReview(j)
        BY <1>1, <1>4, <2>2, <3>1 DEF CommitModelSyncJob, RowKept
      <4>2. jobs'[j].state = "completed"
        BY <1>2, <4>1, Fields DEF ApplyReview, TypeOK, Job
      <4> QED BY <1>1, <4>2
    <3> QED BY <3>1
  <2>5. ASSUME NEW stored \in Stored, AbortCommit(c, stored) PROVE FALSE
    <3>1. stored = TRUE
      BY <1>1 DEF Stored
    <3>2. Transition(j, "failed")
      BY <1>1, <1>4, <2>2, <2>5, <3>1 DEF AbortCommit, FailModelSyncJob, RowKept, Terminal
    <3>3. jobs'[j].state = "failed"
      BY <1>2, <3>2, Fields DEF TypeOK, Job
    <3> QED BY <1>1, <3>3
  <2>6. /\ calls'[c].op \in {"commit", "fail"} /\ calls'[c].job = j
        /\ calls'[c].revision = jobs[j].revision
    BY <2>2, <2>3, <2>4, <2>5, CallSteps
  <2> QED BY <1>4, <2>6 DEF RowKept
<1> QED BY <1>2, <1>3, <1>4

(* Every step keeps SomeoneIsResponsible: a task that ends has moved its   *)
(* job on, because it knew the revision.                                   *)
LEMMA SomeoneStaysResponsible ==
    ASSUME TypeOK, RowsAreJobs, CallsNameJobs, DownIsIdle, SomeoneIsResponsible,
           TaskKnowsRevision, CommitKnowsRevision', Next
    PROVE  SomeoneIsResponsible'
<1>1. SUFFICES ASSUME up', ~storeFails, NEW j \in Jobs', jobs'[j].state \in {"created", "fetching"}
               PROVE  \/ tasks'[j].pc \notin {"none", "over"}
                      \/ \E c \in Clients : calls'[c].op = "launch" /\ calls'[c].job = j
  <2>1. \A j \in Jobs' : up' /\ ~storeFails' /\ jobs'[j].state = "committing" =>
            \E c \in Clients : calls'[c].op \in {"commit", "fail"} /\ calls'[c].job = j
    BY DEF CommitKnowsRevision
  <2> QED BY <2>1, StoreKept DEF SomeoneIsResponsible
<1>2. ASSUME j \in Jobs, RowKept(j)
      PROVE  \/ tasks'[j].pc \notin {"none", "over"}
             \/ \E c \in Clients : calls'[c].op = "launch" /\ calls'[c].job = j
  <2>0. j \in JobId /\ jobs[j].state \in {"created", "fetching"}
    BY <1>1, <1>2, Fields DEF RowKept
  <2>1. up
    <3>1. ASSUME ~up PROVE FALSE
      <4>1. RecoverInterruptedJobs
        BY <3>1, DownOnlyRecovers
      <4>2. j \in Abandoned
        BY <1>2, <2>0 DEF Abandoned
      <4>3. jobs'[j].state = "interrupted"
        BY <2>0, <4>1, <4>2, Fields DEF RecoverInterruptedJobs, Job
      <4> QED BY <1>1, <4>3
    <3> QED BY <3>1
  <2>2. ~Crash
    BY <1>1 DEF Crash
  <2>3. CASE tasks[j].pc \notin {"none", "over"}
    <3>1. ASSUME StoreReview(j) PROVE tasks'[j].pc = "fail"
      <4>1. Fail(j, tasks[j].revision)
        <5>1. jobs' # [jobs EXCEPT ![j].state = "review", ![j].revision = @ + 1,
                                   ![j].review = tasks[j].review]
          <6>1. jobs'[j].state # "review"
            BY <1>1
          <6> QED BY <2>0, <6>1, Fields DEF TypeOK, Job
        <5> QED BY <3>1, <5>1 DEF StoreReview
      <4> QED BY <2>0, <4>1 DEF TypeOK, NoTask
    <3>2. ASSUME NEW stored \in Stored, FailTask(j, stored) PROVE FALSE
      <4>1. stored = TRUE
        BY <1>1 DEF Stored
      <4>2. jobs[j].state = "fetching" /\ jobs[j].revision = tasks[j].revision
        BY <1>1, <2>0, <3>2 DEF FailTask, TaskKnowsRevision
      <4>3. Transition(j, "failed")
        BY <3>2, <4>1, <4>2 DEF FailTask, FailModelSyncJob, Terminal
      <4>4. jobs'[j].state = "failed"
        BY <2>0, <4>3, Fields DEF TypeOK, Job
      <4> QED BY <1>1, <4>4
    <3> QED BY <2>0, <2>2, <2>3, <3>1, <3>2, TaskSteps
  <2>4. ASSUME NEW c \in Clients, calls[c].op = "launch", calls[c].job = j
        PROVE  tasks'[j].pc \notin {"none", "over"} \/ calls'[c] = calls[c]
    <3>1. CASE Launch(c)
      BY <2>0, <2>4, <3>1 DEF Launch, TypeOK, NoTask
    <3> QED BY <2>2, <2>4, <3>1, CallSteps
  <2>5. \/ tasks[j].pc \notin {"none", "over"}
        \/ \E c \in Clients : calls[c].op = "launch" /\ calls[c].job = j
    BY <1>1, <1>2, <2>0, <2>1 DEF SomeoneIsResponsible
  <2> QED BY <2>3, <2>4, <2>5
<1>3. ASSUME j \in Jobs, RowAdvanced(j) PROVE tasks'[j].pc \notin {"none", "over"}
  <2>1. TaskBegins(j) /\ j \in JobId
    BY <1>1, <1>3, Fields DEF RowAdvanced
  <2>2. tasks[j].pc = "begin"
    BY <2>1 DEF TaskBegins
  <2>3. ~Crash /\ ~StoreReview(j) /\ \A stored \in Stored : ~FailTask(j, stored)
    BY <1>1, <2>2 DEF Crash, StoreReview, FailTask
  <2> QED BY <2>1, <2>2, <2>3, TaskSteps
<1>4. ASSUME NEW c \in Clients, CreateModelSyncJob(c), j \notin Jobs
      PROVE  calls'[c].op = "launch" /\ calls'[c].job = j
  <2>1. j = jobCount'
    BY <1>1, <1>4, CreatedRow
  <2>2. calls' = [calls EXCEPT ![c] = [Idle EXCEPT !.op = "launch", !.job = jobCount']]
    BY <1>1, <1>4 DEF CreateModelSyncJob
  <2>3. calls'[c] = [Idle EXCEPT !.op = "launch", !.job = jobCount']
    BY <2>2 DEF TypeOK
  <2> QED BY <2>1, <2>3 DEF Idle
<1>5. CASE TableStep
  BY <1>1, <1>2, <1>3, <1>5, Fields DEF TableStep, Jobs
<1>6. ASSUME NEW c \in Clients, CreateModelSyncJob(c)
      PROVE  \/ tasks'[j].pc \notin {"none", "over"}
             \/ \E d \in Clients : calls'[d].op = "launch" /\ calls'[d].job = j
  <2>1. j \in Jobs => RowKept(j)
    BY <1>6, CreatedRow, Fields
  <2> QED BY <1>2, <1>4, <1>6, <2>1
<1> QED BY <1>5, <1>6, JobSteps

-----------------------------------------------------------------------------
(* The invariant holds at the start.                                       *)
LEMMA InitSound == ASSUME Init PROVE IInv
<1>1. Jobs = {} /\ jobCount = 0
  BY DEF Init, Jobs
<1>2. TypeOK
  <2>1. routes \in [Models -> Route]
    <3>1. Absent \in Route /\ [known |-> TRUE, miss |-> 0] \in Route
      BY DEF Route, Absent
    <3> QED BY <3>1 DEF Init
  <2>2. jobs \in [JobId -> Job] /\ outbox \in [JobId -> Seq(Events)]
    <3>1. NoJob \in Job
      BY Constants DEF NoJob, Job
    <3> QED BY <3>1 DEF Init
  <2>3. /\ connection \in Connection /\ calls \in [Clients -> Call] /\ tasks \in [JobId -> Task]
        /\ touched \in [JobId -> BOOLEAN]
    BY Constants, CallRecords, TaskRecords DEF Init
  <2>4. edits \in 0..MaxEdits /\ jobCount \in 0..MaxJobs /\ extras \in Nat /\ clock \in Nat
    BY SyncAssumption DEF Init
  <2>5. archived \in BOOLEAN /\ up \in BOOLEAN /\ storeFails \in BOOLEAN
    BY DEF Init
  <2> QED BY <2>1, <2>2, <2>3, <2>4, <2>5 DEF TypeOK
<1>3. /\ OneActiveJob /\ SomeoneIsResponsible /\ EventsFollowRevisions /\ CommitKeepsOtherWrites
      /\ ArchivedIsQuiet /\ WritesShow /\ CommitKnowsRevision
  BY <1>1 DEF OneActiveJob, SomeoneIsResponsible, EventsFollowRevisions, CommitKeepsOtherWrites,
              ArchivedIsQuiet, WritesShow, CommitKnowsRevision
<1>4. MissesCountOmissions
  <2>1. ASSUME NEW m \in Models
        PROVE  routes[m].miss = 0 /\ Cardinality(Omitted(m)) \in Nat
    <3>1. Omitted(m) = {}
      BY <1>1 DEF Omitted
    <3> QED BY <3>1, FS_EmptySet DEF Init, Absent
  <2> QED BY <2>1 DEF MissesCountOmissions, Omitted
<1>5. /\ RowsAreJobs /\ CallsNameJobs /\ DownIsIdle /\ LaunchedOnce /\ TaskKnowsRevision
  BY <1>1 DEF Init, RowsAreJobs, CallsNameJobs, DownIsIdle, LaunchedOnce, TaskKnowsRevision,
              Idle, NoTask
<1>6. TimesAreOver
  <2>1. FirstConnection.at = 0 /\ NoReview.at = 0 /\ NoGraph.connection.at = 0 /\ NoGraph.extras = 0
    BY Constants DEF FirstConnection
  <2>2. NoJob.review = NoReview /\ NoJob.base = NoGraph /\ NoTask.review = NoReview
    BY DEF NoJob, NoTask
  <2> QED BY <2>1, <2>2 DEF Init, TimesAreOver
<1> QED BY <1>2, <1>3, <1>4, <1>5, <1>6 DEF IInv, JobsAreSound

(* Every step keeps the invariant.                                         *)
LEMMA NextSound == ASSUME IInv, Next PROVE IInv'
<1>1. /\ TypeOK /\ OneActiveJob /\ SomeoneIsResponsible /\ EventsFollowRevisions
      /\ CommitKeepsOtherWrites /\ MissesCountOmissions /\ ArchivedIsQuiet
      /\ RowsAreJobs /\ CallsNameJobs /\ DownIsIdle /\ TimesAreOver
      /\ WritesShow /\ LaunchedOnce /\ TaskKnowsRevision /\ CommitKnowsRevision
  BY DEF IInv, JobsAreSound
<1>2. OneActiveJob' /\ EventsFollowRevisions' /\ Jobs \subseteq Jobs'
  BY <1>1, JobSteps, StepsKeepTable
<1>3. calls' \in [Clients -> Call] /\ CallsNameJobs'
  BY <1>1, <1>2, CallsGood
<1>4. GraphTyped' /\ tasks' \in [JobId -> Task] /\ storeFails' = storeFails
  BY <1>1, GraphSteps, TaskSteps, StoreKept DEF GraphStep
<1>5. /\ jobs' \in [JobId -> Job] /\ outbox' \in [JobId -> Seq(Events)]
      /\ jobCount' \in 0..MaxJobs
  <2>1. jobCount \in 0..MaxJobs
    BY <1>1 DEF TypeOK
  <2>2. jobCount' \in JobId => jobCount' \in 0..MaxJobs
    BY SyncAssumption DEF JobId
  <2> QED BY <1>1, <2>1, <2>2, JobSteps, CreatedRow DEF TableStep
<1>6. up' \in BOOLEAN
  BY <1>1, UpChanges DEF TypeOK, Crash, RecoverInterruptedJobs
<1>7. TypeOK'
  BY <1>1, <1>3, <1>4, <1>5, <1>6 DEF TypeOK, GraphTyped
<1>8. RowsAreJobs' /\ TimesAreOver' /\ WritesShow' /\ CommitKeepsOtherWrites'
  BY <1>1, RowsStayJobs, TimesStayOver, WritesStillShow, OtherWritesKept
<1>9. MissesCountOmissions' /\ ArchivedIsQuiet' /\ LaunchedOnce' /\ TaskKnowsRevision'
  BY <1>1, MissesStillCount, ArchivedStaysQuiet, LaunchedStillOnce, TaskStillKnows
<1>10. CommitKnowsRevision'
  BY <1>1, CommitStillKnows
<1>11. SomeoneIsResponsible'
  BY <1>1, <1>10, SomeoneStaysResponsible
<1>12. DownIsIdle'
  BY <1>1, DownStaysIdle DEF TypeOK
<1> QED BY <1>2, <1>3, <1>7, <1>8, <1>9, <1>10, <1>11, <1>12 DEF IInv, JobsAreSound

(* The invariant holds in every reachable state.                           *)
THEOREM Invariant == Spec => []IInv
<1>1. IInv /\ [Next]_vars => IInv'
  <2>1. ASSUME IInv, UNCHANGED vars PROVE IInv'
    BY <2>1 DEF vars, IInv, JobsAreSound, TypeOK, OneActiveJob, SomeoneIsResponsible,
                EventsFollowRevisions, CommitKeepsOtherWrites, MissesCountOmissions,
                ArchivedIsQuiet, RowsAreJobs, CallsNameJobs, DownIsIdle, TimesAreOver,
                WritesShow, LaunchedOnce, TaskKnowsRevision, CommitKnowsRevision, Jobs
  <2> QED BY <2>1, NextSound
<1> QED BY <1>1, InitSound, PTL DEF Spec

(* For any number of clients, models, jobs and edits, with a store that    *)
(* works or fails and through any restarts: one job is active and someone  *)
(* is responsible for it, its outbox tells its story, an approval undoes   *)
(* no write of others and counts an omission once, and an archived         *)
(* connection has no open job (start, cancel, approve and run_model_sync   *)
(* of core/src/app/model_sync.rs).                                         *)
THEOREM SoundJobs == Spec => []JobsAreSound
<1>1. IInv => JobsAreSound
  BY DEF IInv
<1> QED BY <1>1, Invariant, PTL

(* A job that has completed, failed or been cancelled is never written     *)
(* again, and neither are its events.                                      *)
THEOREM Finality == Spec => TerminalIsFinal
<1> DEFINE Final == \A j \in Jobs :
             jobs[j].state \in Terminal => jobs'[j] = jobs[j] /\ outbox'[j] = outbox[j]
<1>1. IInv /\ [Next]_vars => [Final]_vars
  <2>1. ASSUME IInv, Next PROVE Final
    <3>1. TypeOK /\ RowsAreJobs /\ OneActiveJob /\ EventsFollowRevisions /\ CallsNameJobs
      BY <2>1 DEF IInv, JobsAreSound
    <3> QED BY <2>1, <3>1, JobSteps, StepsKeepTable DEF RowKept
  <2> QED BY <2>1
<1> QED BY <1>1, Invariant, PTL DEF Spec, TerminalIsFinal
=============================================================================
