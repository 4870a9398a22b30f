--------------------------- MODULE DiscoveryCommit ---------------------------
(***************************************************************************)
(* Committing a reviewed discovery: the session (DiscoveryMachine), its    *)
(* durable commit attempt and compensation recipe in the database          *)
(* (crates/storage/src/discovery_repository.rs), and the desktop commands  *)
(* that also write the credential slot of the platform vault               *)
(* (apps/lorepia/src-tauri/src/provider_commands.rs).                      *)
(*                                                                         *)
(* Each database transaction and each call to the vault is one step.       *)
(* Reads that only choose which transaction follows are taken with it: the *)
(* transaction compares the session revision, so a change in between would *)
(* only turn it into an error.                                             *)
(***************************************************************************)
EXTENDS DiscoveryMachine

CONSTANTS Threads,          \* concurrent desktop commands
          MaxRequests,      \* bound on cancellations and recoveries asked for
          MaxCrashes,       \* bound on process deaths
          MaxVaultFailures, \* bound on failing vault calls
          MaxRefusals,      \* bound on refused graph publications
          MaxSelections     \* bound on model selections made meanwhile

VARIABLES session,      \* the session row
          bound,        \* the plan carries a credential reference
          op,           \* the active operation row
          phase,        \* the commit attempt
          steps,        \* the compensation recipe
          planned,      \* the selection the plan captured
          selection,    \* the selected route and preset
          graph,        \* the provider graph is published
          vault,        \* the credential slot of the connection
          run,          \* the desktop commands in flight
          requests, crashes, failures, refusals, selections

database == <<session, bound, op, phase, steps, planned, selection, graph>>
counters == <<requests, crashes, failures, refusals, selections>>
vars == <<database, vault, run, counters>>

Old == "old"            \* a credential that was there before the commit
Selections == {None, "a", "b"}
Statuses == {"absent", "pending", "in_progress", "completed", "failed", "outcome_unknown"}
Phases == {None, "prepared", "compensation_required", "compensating", "compensated",
           "outcome_unknown", "completed"}
NoOp == [kind |-> None, status |-> None, id |-> 0]
Idle == [pc |-> "idle", then |-> "idle", previous |-> None, replaced |-> FALSE, id |-> 0]

Act(kind) == [kind |-> kind, manifest |-> None]
Interrupted(known) == [kind |-> "interrupt", manifest |-> None, known |-> known]
Resolution(r) == [kind |-> "resolve_unknown", manifest |-> None, resolution |-> r]

Init ==
    /\ session = [NewSession EXCEPT !.state = "awaiting_review",
                                    !.manifest = CHOOSE m \in Manifests : TRUE]
    /\ bound \in BOOLEAN
    /\ op = NoOp /\ phase = None /\ planned = None
    /\ steps = [i \in 1..3 |-> [status |-> "absent", attempts |-> 0]]
    /\ selection \in {None, "a"} /\ graph = FALSE
    /\ vault \in (IF bound THEN {None, Old} ELSE {None})
    /\ run = [t \in Threads |-> Idle]
    /\ requests = 0 /\ crashes = 0 /\ failures = 0 /\ refusals = 0 /\ selections = 0

(***************************************************************************)
(* The ledger.                                                             *)
(***************************************************************************)
Present == {i \in 1..3 : steps[i].status # "absent"}
(* The recipe is restore_selection, remove_graph, remove_credential, and   *)
(* runs from its highest ordinal down.                                     *)
Remaining == {i \in Present : steps[i].status # "completed"}
Current == CHOOSE i \in Remaining : \A j \in Remaining : j <= i
AllCompleted(st) == \A i \in Present : st[i].status = "completed"
CompensationStarted ==
    /\ session.state = "compensating" /\ phase = "compensating"
    /\ op.kind = "compensating" /\ op.status = "started"

(* restore_discovery_provider_selection: a newer choice wins over the plan *)
FaultyRestored == planned                      \* restored whatever was chosen since
Restored == IF selection = None THEN planned ELSE selection
CompletedRecipe ==
    [i \in 1..3 |-> IF i \in Present THEN [steps[i] EXCEPT !.status = "completed"] ELSE steps[i]]

(* A session with an attempt never ends before the attempt is compensated. *)
FaultyAbandons(next, toPhase) == FALSE         \* no check on the attempt
Abandons(next, toPhase) ==
    next.state \in {"failed", "cancelled"} /\ next.attempt /\ toPhase # "compensated"

(***************************************************************************)
(* persist_transition_in_transaction: the session, its operation and the   *)
(* attempt move together or not at all.  Every action but a cancellation   *)
(* completes the active operation, and the effect prepares the next one.   *)
(***************************************************************************)
Persistable(a, toPhase) ==
    /\ Accepted(session, a)
    /\ ~ Abandons(Apply(session, a).next, toPhase)

PersistTransition(a, toPhase) ==
    LET result == Apply(session, a)
    IN  /\ Persistable(a, toPhase)
        /\ session' = result.next
        /\ phase' = toPhase
        /\ op' = IF result.effect \in Operations
                 THEN [kind |-> result.effect, status |-> "prepared", id |-> result.next.revision]
                 ELSE IF a.kind = "cancel" THEN op ELSE NoOp

(***************************************************************************)
(* User actions on the session.                                            *)
(***************************************************************************)
ApproveReview ==
    /\ session.state = "awaiting_review"
    /\ PersistTransition(Act("approve_review"), "prepared")
    /\ planned' = selection
    /\ steps' = [i \in 1..3 |->
                   [status |-> IF i = 3 /\ ~ bound THEN "absent" ELSE "pending", attempts |-> 0]]
    /\ UNCHANGED <<bound, selection, graph, vault, run, counters>>

Requested == requests < MaxRequests /\ requests' = requests + 1

RequestCancel(t) ==
    /\ run[t].pc = "idle" /\ Requested
    /\ PersistTransition(Act("cancel"), phase)
    /\ run' = [run EXCEPT ![t].pc = "settle"]
    /\ UNCHANGED <<bound, steps, planned, selection, graph, vault,
                   crashes, failures, refusals, selections>>

(* settle_prepared_cancellation: work that never started is interrupted.   *)
SettlePreparedCancellation(t) ==
    /\ run[t].pc = "settle"
    /\ run' = [run EXCEPT ![t] = Idle]
    /\ IF /\ session.cancelling /\ op.status = "prepared" /\ op.kind # "compensating"
          /\ Persistable(Interrupted(TRUE), phase)
       THEN PersistTransition(Interrupted(TRUE), phase)
       ELSE UNCHANGED <<session, op, phase>>
    /\ UNCHANGED <<bound, steps, planned, selection, graph, vault, counters>>

(* A commit restarts under the same attempt and only while the selection   *)
(* is still the one the plan captured.                                     *)
RestartPhase ==
    IF session.recovery = "committing" THEN phase
    ELSE IF phase = "prepared" THEN "compensation_required" ELSE phase
RestartAllowed ==
    /\ session.state = "interrupted"
    /\ session.recovery = "committing" => phase = "prepared" /\ selection = planned
RestartInterruptedWork ==
    /\ RestartAllowed
    /\ PersistTransition(Act("restart_interrupted"), RestartPhase)
    /\ UNCHANGED <<bound, steps, planned, selection, graph, vault, run, counters>>

ResolveNoEffect ==
    /\ phase = "outcome_unknown"
    /\ session.unknown = "committing" =>
         ~ graph /\ \A i \in Present : steps[i].status = "pending"
    /\ PersistTransition(Resolution("no_effect"),
                         IF session.unknown = "compensating" THEN "compensating"
                         ELSE IF session.cancelling THEN "compensation_required" ELSE "prepared")
    /\ steps' = [i \in 1..3 |-> IF steps[i].status = "outcome_unknown"
                                THEN [steps[i] EXCEPT !.status = "pending"] ELSE steps[i]]
    /\ UNCHANGED <<bound, planned, selection, graph, vault, run, counters>>

(* A "completed" resolution needs the published graph, which an unknown    *)
(* outcome never has (LedgerMatchesSession): it is always refused.         *)

(* The user attests that the slot is empty; "manual" cannot attest it.     *)
ResolveReconciled(resolution) ==
    /\ phase = "outcome_unknown" /\ ~ graph
    /\ resolution = "manual" => ~ bound
    /\ resolution = "compensated" => vault = None
    /\ PersistTransition(Resolution(resolution), "compensated")
    /\ selection' = Restored
    /\ steps' = CompletedRecipe
    /\ UNCHANGED <<bound, planned, graph, vault, run, counters>>

(* Another part of the application selects a model meanwhile.              *)
SelectTarget(x) ==
    /\ selections < MaxSelections /\ x # selection
    /\ selection' = x /\ selections' = selections + 1
    /\ UNCHANGED <<session, bound, op, phase, steps, planned, graph, vault, run,
                   requests, crashes, failures, refusals>>

(***************************************************************************)
(* recover_unfinished_discovery_operations: at every start of the process, *)
(* and whenever the desktop shell asks for it.                             *)
(***************************************************************************)
RecoverUnfinished ==
    CASE op.status = "prepared" ->
           /\ PersistTransition(Interrupted(TRUE), phase) /\ UNCHANGED steps
      [] op.status = "started" /\ op.kind = "compensating" /\ AllCompleted(steps) ->
           /\ PersistTransition(Act("compensation_succeeded"), "compensated") /\ UNCHANGED steps
      [] op.status = "started" /\ ~ (op.kind = "compensating" /\ AllCompleted(steps)) ->
           /\ PersistTransition(Interrupted(FALSE), "outcome_unknown")
           /\ steps' = [i \in 1..3 |-> IF steps[i].status = "in_progress"
                                       THEN [steps[i] EXCEPT !.status = "outcome_unknown"]
                                       ELSE steps[i]]
      [] OTHER -> UNCHANGED <<session, op, phase, steps>>

RecoverCommand ==
    /\ op # NoOp /\ Requested
    /\ RecoverUnfinished
    /\ UNCHANGED <<bound, planned, selection, graph, vault, run,
                   crashes, failures, refusals, selections>>

Crash ==
    /\ crashes < MaxCrashes
    /\ crashes' = crashes + 1
    /\ run' = [t \in Threads |-> Idle]
    /\ RecoverUnfinished
    /\ UNCHANGED <<bound, planned, selection, graph, vault, requests, failures, refusals, selections>>

(***************************************************************************)
(* commit_provider_discovery: install the credential, commit, clean up.    *)
(***************************************************************************)
At(t, pc) == run[t].pc = pc
Goto(t, pc) == run' = [run EXCEPT ![t].pc = pc]
Finish(t) == run' = [run EXCEPT ![t] = Idle]
VaultFails(t, pc) ==
    /\ failures < MaxVaultFailures /\ failures' = failures + 1
    /\ (IF pc = "idle" THEN Finish(t) ELSE Goto(t, pc))
    /\ UNCHANGED <<database, vault, requests, crashes, refusals, selections>>

BeginCommit(t, withCredential) ==
    /\ At(t, "idle") /\ session.attempt
    /\ withCredential => bound
    /\ Goto(t, IF withCredential THEN "read" ELSE IF bound THEN "status" ELSE "commit")
    /\ UNCHANGED <<database, vault, counters>>

ReadPrevious(t) ==
    /\ At(t, "read")
    /\ \/ /\ run' = [run EXCEPT ![t].pc = "store", ![t].previous = vault]
          /\ UNCHANGED <<database, vault, counters>>
       \/ VaultFails(t, "idle")

StoreCredential(t) ==
    /\ At(t, "store")
    /\ \/ /\ vault' = t
          /\ run' = [run EXCEPT ![t].pc = "commit", ![t].replaced = TRUE]
          /\ UNCHANGED <<database, counters>>
       \/ VaultFails(t, "idle")

ConfirmCredential(t) ==
    /\ At(t, "status")
    /\ \/ /\ (IF vault = None THEN Finish(t) ELSE Goto(t, "commit"))
          /\ UNCHANGED <<database, vault, counters>>
       \/ VaultFails(t, "idle")

(* settle_started_commit_cancellation: the started commit is recorded as   *)
(* failed and its compensation runs.                                       *)
SettleStartedCancellation(t) ==
    /\ session.state = "committing" /\ session.cancelling /\ op.status = "started"
    /\ PersistTransition(Act("compensation_required"), "compensation_required")
    /\ run' = [run EXCEPT ![t].pc = "enter", ![t].then = "commit_error"]
    /\ UNCHANGED <<bound, steps, planned, selection, graph, vault, counters>>

StartCommit(t) ==
    /\ At(t, "commit")
    /\ \/ /\ session.state = "committing" /\ ~ session.cancelling /\ op.status = "prepared"
          /\ op' = [op EXCEPT !.status = "started"]
          /\ run' = [run EXCEPT ![t].pc = "publish", ![t].id = op.id]
          /\ UNCHANGED <<session, bound, phase, steps, planned, selection, graph, vault, counters>>
       \/ SettleStartedCancellation(t)
       \/ /\ \/ session.state # "committing"
             \/ session.cancelling /\ op.status # "started"
             \/ ~ session.cancelling /\ op.status # "prepared"
          /\ Goto(t, "commit_error")
          /\ UNCHANGED <<database, vault, counters>>

(* The graph, the attempt and the session are published in one             *)
(* transaction, which the database may also refuse.                        *)
PublishGraph(t) ==
    /\ At(t, "publish")
    /\ \/ /\ session.state = "committing" /\ op.id = run[t].id /\ op.status = "started"
          /\ ~ session.cancelling
          /\ PersistTransition(Act("commit_succeeded"), "completed")
          /\ graph' = TRUE
          /\ Finish(t)
          /\ UNCHANGED <<bound, steps, planned, selection, vault, counters>>
       \/ op.id = run[t].id /\ SettleStartedCancellation(t)
       \/ /\ session.state # "committing" \/ op.id # run[t].id
          /\ Goto(t, "commit_error")
          /\ UNCHANGED <<database, vault, counters>>
       \/ /\ refusals < MaxRefusals /\ refusals' = refusals + 1
          /\ Goto(t, "commit_error")
          /\ UNCHANGED <<database, vault, requests, crashes, failures, selections>>

(* What the command does with the vault depends on the session it finds.   *)
HandleCommitError(t) ==
    /\ At(t, "commit_error")
    /\ CASE session.state = "compensating" -> Goto(t, "drive")
         [] session.state \in {"ready", "unknown"} -> Finish(t)
         [] OTHER -> IF run[t].replaced THEN Goto(t, "restore") ELSE Finish(t)
    /\ UNCHANGED <<database, vault, counters>>

RestoreCredential(t) ==
    /\ At(t, "restore")
    /\ \/ /\ vault' = run[t].previous
          /\ Finish(t)
          /\ UNCHANGED <<database, counters>>
       \/ VaultFails(t, "idle")

(* Only a credential that was there before is put back after a cleanup.    *)
AfterDrive(t) ==
    /\ At(t, "after_drive")
    /\ (IF /\ run[t].replaced /\ run[t].previous # None
           /\ session.state \in {"failed", "cancelled"}
        THEN Goto(t, "restore") ELSE Finish(t))
    /\ UNCHANGED <<database, vault, counters>>

(***************************************************************************)
(* continue_compensation: enter the operation, then run the recipe down to *)
(* the native step.                                                        *)
(***************************************************************************)
ContinueCommand(t) ==
    /\ At(t, "idle") /\ session.state = "compensating"
    /\ run' = [run EXCEPT ![t].pc = "enter", ![t].then = "drive"]
    /\ UNCHANGED <<database, vault, counters>>

(* reset_failed_compensation_steps                                         *)
ResumeCommand(t) ==
    /\ At(t, "idle") /\ phase = "compensating"
    /\ \A i \in Present : steps[i].status \notin {"in_progress", "outcome_unknown"}
    /\ PersistTransition(Act("resume_compensation"), phase)
    /\ steps' = [i \in 1..3 |-> IF steps[i].status = "failed"
                                THEN [steps[i] EXCEPT !.status = "pending"] ELSE steps[i]]
    /\ run' = [run EXCEPT ![t].pc = "enter", ![t].then = "drive"]
    /\ UNCHANGED <<bound, planned, selection, graph, vault, counters>>

(* An error leaves the command at once, except the ones that expect it.    *)
CompensationError(t) ==
    /\ run' = [run EXCEPT ![t] = CASE @.then = "commit_error" -> [@ EXCEPT !.pc = "commit_error"]
                                   [] @.then = "after_drive" -> [@ EXCEPT !.pc = "record_failure"]
                                   [] OTHER -> Idle]
    /\ UNCHANGED <<database, vault, counters>>

EnterCompensation(t) ==
    /\ At(t, "enter")
    /\ IF session.state = "compensating" /\ ~ session.failure /\ op.kind = "compensating"
       THEN /\ op' = [op EXCEPT !.status = "started"]
            /\ phase' = "compensating"
            /\ Goto(t, "loop")
            /\ UNCHANGED <<session, bound, steps, planned, selection, graph, vault, counters>>
       ELSE CompensationError(t)

SetStatus(i, status) == steps' = [steps EXCEPT ![i].status = status]

(* The recipe is complete: the session ends.                               *)
FinishCompensation(t) ==
    /\ At(t, "loop") /\ Remaining = {}
    /\ IF CompensationStarted /\ Persistable(Act("compensation_succeeded"), "compensated")
       THEN /\ PersistTransition(Act("compensation_succeeded"), "compensated")
            /\ Goto(t, run[t].then)
            /\ UNCHANGED <<bound, steps, planned, selection, graph, vault, counters>>
       ELSE CompensationError(t)

(* The native step is left to the shell.                                   *)
StopAtCredential(t) ==
    /\ At(t, "loop") /\ Remaining # {} /\ Current = 3
    /\ IF steps[3].status \in {"pending", "in_progress"}
       THEN Goto(t, run[t].then) /\ UNCHANGED <<database, vault, counters>>
       ELSE CompensationError(t)

StartDatabaseStep(t) ==
    /\ At(t, "loop") /\ Remaining # {} /\ Current < 3 /\ steps[Current].status = "pending"
    /\ IF CompensationStarted
       THEN /\ steps' = [steps EXCEPT ![Current] = [status |-> "in_progress", attempts |-> @.attempts + 1]]
            /\ UNCHANGED <<session, bound, op, phase, planned, selection, graph, vault, run, counters>>
       ELSE CompensationError(t)

(* compensate_discovered_provider_graph, restore_discovery_previous_       *)
(* selection; a failure is recorded with the session in one transaction.   *)
RunDatabaseStep(t) ==
    /\ At(t, "loop") /\ Remaining # {} /\ Current < 3
    /\ \/ /\ steps[Current].status = "in_progress" /\ CompensationStarted
          /\ SetStatus(Current, "completed")
          /\ graph' = IF Current = 2 THEN FALSE ELSE graph
          /\ selection' = IF Current = 1 THEN Restored ELSE selection
          /\ UNCHANGED <<session, bound, op, phase, planned, vault, run, counters>>
       \/ /\ steps[Current].status = "in_progress" /\ CompensationStarted
          /\ refusals < MaxRefusals /\ refusals' = refusals + 1
          /\ PersistTransition(Act("compensation_failed"), phase)
          /\ SetStatus(Current, "failed")
          /\ Goto(t, run[t].then)
          /\ UNCHANGED <<bound, planned, selection, graph, vault,
                         requests, crashes, failures, selections>>
       \/ /\ \/ steps[Current].status \in {"failed", "outcome_unknown"}
             \/ steps[Current].status = "in_progress" /\ ~ CompensationStarted
          /\ CompensationError(t)

(***************************************************************************)
(* drive_provider_discovery_compensation: the shell's part of the recipe.  *)
(***************************************************************************)
Drive(t) ==
    /\ At(t, "drive")
    /\ run' = [run EXCEPT ![t] =
         IF session.state # "compensating" THEN [@ EXCEPT !.pc = "after_drive"]
         ELSE IF 3 \notin Present \/ steps[3].status = "completed"
         THEN [@ EXCEPT !.pc = "enter", !.then = "after_drive"]
         ELSE IF steps[3].status = "pending" /\ steps[3].attempts = 0
         THEN [@ EXCEPT !.pc = "enter", !.then = "start"]
         ELSE [@ EXCEPT !.pc = "after_drive"]]
    /\ UNCHANGED <<database, vault, counters>>

(* start_credential_compensation claims the step before the vault call.    *)
StartCredentialStep(t) ==
    /\ At(t, "start")
    /\ IF steps[3].status = "pending" /\ CompensationStarted
       THEN /\ steps' = [steps EXCEPT ![3] = [status |-> "in_progress", attempts |-> @.attempts + 1]]
            /\ Goto(t, "delete")
            /\ UNCHANGED <<session, bound, op, phase, planned, selection, graph, vault, counters>>
       ELSE Finish(t) /\ UNCHANGED <<database, vault, counters>>

DeleteCredential(t) ==
    /\ At(t, "delete")
    /\ \/ /\ vault' = None
          /\ Goto(t, "complete")
          /\ UNCHANGED <<database, counters>>
       \/ VaultFails(t, IF vault = None THEN "complete" ELSE "record_failure")
       \/ VaultFails(t, "record_unknown")

CompleteCredentialStep(t) ==
    /\ At(t, "complete")
    /\ IF steps[3].status = "in_progress" /\ CompensationStarted
       THEN /\ SetStatus(3, "completed")
            /\ run' = [run EXCEPT ![t].pc = "enter", ![t].then = "after_drive"]
            /\ UNCHANGED <<session, bound, op, phase, planned, selection, graph, vault, counters>>
       ELSE Goto(t, "record_failure") /\ UNCHANGED <<database, vault, counters>>

(* The step, the operation and the session fail together; when that is     *)
(* refused the command ends with the error.                                *)
RecordCompensationFailure(t) ==
    /\ At(t, "record_failure")
    /\ IF /\ steps[3].status = "in_progress" /\ CompensationStarted
          /\ Persistable(Act("compensation_failed"), phase)
       THEN /\ PersistTransition(Act("compensation_failed"), phase)
            /\ SetStatus(3, "failed")
            /\ Goto(t, "after_drive")
            /\ UNCHANGED <<bound, planned, selection, graph, vault, counters>>
       ELSE Finish(t) /\ UNCHANGED <<database, vault, counters>>

RecordCompensationUnknown(t) ==
    /\ At(t, "record_unknown")
    /\ IF /\ steps[3].status = "in_progress" /\ CompensationStarted
          /\ Persistable(Act("became_unknown"), "outcome_unknown")
       THEN /\ PersistTransition(Act("became_unknown"), "outcome_unknown")
            /\ SetStatus(3, "outcome_unknown")
            /\ Goto(t, "after_drive")
            /\ UNCHANGED <<bound, planned, selection, graph, vault, counters>>
       ELSE Finish(t) /\ UNCHANGED <<database, vault, counters>>

CommandStep(t) ==
    \/ SettlePreparedCancellation(t)
    \/ ReadPrevious(t) \/ StoreCredential(t) \/ ConfirmCredential(t)
    \/ StartCommit(t) \/ PublishGraph(t) \/ HandleCommitError(t)
    \/ RestoreCredential(t) \/ AfterDrive(t)
    \/ EnterCompensation(t) \/ FinishCompensation(t) \/ StopAtCredential(t)
    \/ StartDatabaseStep(t) \/ RunDatabaseStep(t)
    \/ Drive(t) \/ StartCredentialStep(t) \/ DeleteCredential(t)
    \/ CompleteCredentialStep(t) \/ RecordCompensationFailure(t) \/ RecordCompensationUnknown(t)

Next ==
    \/ ApproveReview \/ RestartInterruptedWork
    \/ ResolveNoEffect
    \/ \E r \in {"compensated", "manual"} : ResolveReconciled(r)
    \/ \E x \in Selections : SelectTarget(x)
    \/ RecoverCommand \/ Crash
    \/ \E t \in Threads : \/ RequestCancel(t)
                          \/ \E w \in BOOLEAN : BeginCommit(t, w)
                          \/ ContinueCommand(t) \/ ResumeCommand(t)
                          \/ CommandStep(t)

Spec == Init /\ [][Next]_vars

(***************************************************************************)
(* Properties.                                                             *)
(***************************************************************************)
TypeOK ==
    /\ session.state \in States /\ session.revision \in Nat
    /\ bound \in BOOLEAN /\ graph \in BOOLEAN
    /\ op.kind \in Persistent \cup {None} /\ op.status \in {None, "prepared", "started"}
    /\ phase \in Phases /\ planned \in Selections /\ selection \in Selections
    /\ \A i \in 1..3 : steps[i].status \in Statuses
    /\ vault \in Threads \cup {None, Old}
    /\ \A t \in Threads : run[t].previous \in Threads \cup {None, Old}

(* The session, the operation, the attempt and the published graph tell    *)
(* one story in every durable state, whatever recovery, cancellation and   *)
(* concurrent commands did (reconcile_discovery_saga_ledger).              *)
LedgerMatchesSession ==
    /\ graph <=> session.state = "ready"
    /\ session.state = "ready" <=> phase = "completed"
    /\ session.state = "unknown" <=> phase = "outcome_unknown"
    /\ session.state = "committing" => phase = "prepared"
    /\ session.state = "compensating" => phase \in {"compensation_required", "compensating"}
    /\ op.kind # None <=> \/ session.state = "committing"
                          \/ session.state = "compensating" /\ ~ session.failure
    /\ op.kind # None => op.kind = session.state

(* Compensation runs strictly down the recipe, also across failures,       *)
(* unknown outcomes and restarts: a touched step has nothing unfinished    *)
(* above it.                                                               *)
RecipeRunsDown ==
    \A i, j \in Present : i < j /\ steps[i].status # "pending" => steps[j].status = "completed"

(* A session that ended without a connection has nothing of its commit     *)
(* left in the database and every step of its recipe done.                 *)
EndedMeansCompensated ==
    session.state \in {"failed", "cancelled"} /\ session.attempt =>
        phase = "compensated" /\ ~ graph /\ AllCompleted(steps)

(* In every durable state of a commit, whatever crashes, recovery,         *)
(* cancellation, failing vault calls and concurrent commands did, the      *)
(* session, its operation, its attempt and the graph tell one story; the   *)
(* recipe has run strictly down; and a session that ended has nothing of   *)
(* its commit left in the database.                                        *)
CommitIsAccountedFor ==
    TypeOK /\ LedgerMatchesSession /\ RecipeRunsDown /\ EndedMeansCompensated

(* Committing never leaves the credential of a failed attempt behind: once *)
(* every command has returned, a session that did not become ready has     *)
(* none of the credentials entered for it, unless the process died or the  *)
(* vault failed on the way.                                                *)
NoCredentialLeftBehind ==
    /\ \A t \in Threads : run[t].pc = "idle"
    /\ session.state \in {"failed", "cancelled"}
    /\ crashes = 0 /\ failures = 0
    => vault \notin Threads

(* "Neither the credential alone nor the database alone is left": a ready  *)
(* connection that needs a credential has one.                             *)
ReadyHasCredential == session.state = "ready" /\ bound => vault # None

(* A model the user chose after approving the review is never replaced by  *)
(* the plan's older choice.                                                *)
NewerSelectionWins ==
    [][selection' # selection /\ selections' = selections => selection = None]_vars

(* "cancellation must be possible at each step" and "the user starts it    *)
(* again": an interrupted session accepts a restart or a cancellation.     *)
InterruptedCanGoOn ==
    session.state = "interrupted" =>
        \/ RestartAllowed
        \/ Persistable(Act("cancel"), phase)

(***************************************************************************)
(* Progress.  Commands run to their end and the user keeps pressing the    *)
(* buttons the discovery panel offers.                                     *)
(***************************************************************************)
Fairness ==
    /\ \A t \in Threads : WF_vars(CommandStep(t)) /\ SF_vars(ContinueCommand(t))
    /\ \A t \in Threads : SF_vars(ResumeCommand(t))
    /\ WF_vars(RestartInterruptedWork)
FairSpec == Spec /\ Fairness

(* "A failed compensation step requires an explicit resume", and the user  *)
(* resumes: a compensation comes to its end or to a question only the user *)
(* can answer.                                                             *)
CompensationEnds ==
    session.state = "compensating" ~> session.state \in Terminal \cup {"unknown", "interrupted"}
=============================================================================
