-------------------------- MODULE DiscoverySession --------------------------
(***************************************************************************)
(* A provider discovery session from Begin to the review of its result     *)
(* (crates/core/src/provider_discovery.rs over the transition store of     *)
(* crates/storage): the reducer of DiscoveryMachine, the durable           *)
(* operation it is running, the setup assistant whose snapshot is part of  *)
(* the working draft, the commands that drive them and startup recovery.   *)
(*                                                                         *)
(* Every write compares the revision its caller has read.  A revision      *)
(* never comes back, so run[t].fresh says that the session is still the    *)
(* one t has read, and session.revision is kept at zero.  A command that   *)
(* reads and writes once is one step: when its comparison fails it has     *)
(* changed nothing.                                                        *)
(***************************************************************************)
EXTENDS DiscoveryMachine, Sequences

CONSTANTS Threads,        \* concurrent callers of Core
          Evidence, Origins, OriginOf, MaxEvidence,
          MaxTurns, MaxToolCalls, MaxRetries, MaxOutput, Estimates

ASSUME SessionAssumption ==
    /\ OriginOf \in [Evidence -> Origins]
    /\ "questions" \notin Evidence /\ "nothing" \notin Evidence
    /\ MaxEvidence \in Nat /\ MaxTurns \in Nat /\ MaxToolCalls \in Nat
    /\ MaxRetries \in Nat /\ MaxOutput \in Nat
    /\ Estimates \subseteq Nat \ {0}

VARIABLES session,        \* the session row
          op,             \* its active operation
          assisted,       \* an assistant route was named in the input
          stored,         \* evidence rows of the session
          found, extra,   \* draft: evidence_ids and extra_evidence_ids
          present,        \* draft: there is an assistant snapshot
          bound,          \* draft: assistant_approval_binding
          run,            \* what each caller is doing
          begun,          \* history: executions of the active operation
          state, evidence, approved, consented, turns, toolCalls, retries, reserved,
          nextCall, pendingOutput, pendingTool, observations, questions, pendingRetry,
          draft, rounds, disclosed, granted     \* the assistant's snapshot

A == INSTANCE SetupAssistant

ledger == <<stored, found, extra>>
engine == <<state, evidence, approved, consented, turns, toolCalls, retries, reserved,
            nextCall, pendingOutput, pendingTool, observations, questions, pendingRetry,
            draft, rounds, disclosed, granted>>
vars == <<session, op, assisted, ledger, present, bound, run, begun, engine>>

NoOp == [kind |-> None, status |-> None]
Idle == [pc |-> "idle", fresh |-> FALSE, call |-> 0]
Act(kind) == [kind |-> kind, manifest |-> None]
Interrupted(known) == [kind |-> "interrupt", manifest |-> None, known |-> known]

At(t, pc) == run[t].pc = pc
Goto(t, pc) == run' = [run EXCEPT ![t] = [Idle EXCEPT !.pc = pc]]

(***************************************************************************)
(* persist_transition_in_transaction.  An outcome other than None          *)
(* completes the active operation: only work that was started succeeds or  *)
(* fails, and billable work that was started is never without effect.      *)
(***************************************************************************)
Completable(outcome) ==
    CASE outcome = None -> TRUE
      [] outcome = "interrupted" -> op.status = "prepared" \/ op.kind \notin Billable \cup Persistent
      [] outcome \in {"succeeded", "failed", "unknown"} -> op.status = "started"

Persistable(a, outcome) == Accepted(session, a) /\ Completable(outcome)

Persist(a, outcome) ==
    LET result == Apply(session, a)
        starts == result.effect \in Operations
    IN  /\ Persistable(a, outcome)
        /\ session' = [result.next EXCEPT !.revision = 0]
        /\ op' = IF starts THEN [kind |-> result.effect, status |-> "prepared"]
                 ELSE IF outcome = None THEN op ELSE NoOp
        /\ begun' = IF starts \/ outcome # None THEN 0 ELSE begun

(* The caller goes on at pc; what the others have read is out of date.     *)
Outdate(t, pc) ==
    run' = [u \in Threads |-> IF u = t THEN [Idle EXCEPT !.pc = pc]
                              ELSE [run[u] EXCEPT !.fresh = FALSE]]

(***************************************************************************)
(* The assistant inside the draft.                                         *)
(***************************************************************************)
SameAssistant == UNCHANGED engine /\ UNCHANGED <<present, bound>>

(* draft.assistant = None; the open questions are kept beside it.          *)
Dropped(asked) ==
    /\ present' = FALSE
    /\ state' = "cancelled" /\ evidence' = {} /\ approved' = {} /\ consented' = FALSE
    /\ turns' = 0 /\ toolCalls' = 0 /\ retries' = 0 /\ reserved' = 0 /\ nextCall' = 1
    /\ pendingOutput' = 0 /\ pendingTool' = A!NoTool /\ pendingRetry' = FALSE
    /\ observations' = << >> /\ questions' = asked /\ draft' = A!NoDraft
    /\ rounds' = 0
    /\ UNCHANGED <<disclosed, granted>>

(* initialize_assistant keeps a snapshot that is there.                    *)
Wanted == found \cup extra
Initializable == present \/ (assisted /\ A!Startable(Wanted))
InitializeAssistant ==
    IF present THEN UNCHANGED engine /\ UNCHANGED present
    ELSE A!New(Wanted, questions) /\ present' = TRUE

(* cancel_assistant_snapshot, when a session ends.                         *)
CancelAssistantSnapshot ==
    /\ UNCHANGED <<present, bound>>
    /\ IF present /\ state \notin A!Over THEN A!Cancel
       ELSE IF present THEN UNCHANGED engine
       ELSE /\ questions' = FALSE
            /\ UNCHANGED <<state, evidence, approved, consented, turns, toolCalls, retries,
                           reserved, nextCall, pendingOutput, pendingTool, observations,
                           pendingRetry, draft, rounds, disclosed, granted>>

CloseIfTerminal ==
    IF session'.state \in Terminal THEN CancelAssistantSnapshot ELSE SameAssistant

Init ==
    /\ session = NewSession /\ op = NoOp /\ assisted \in BOOLEAN
    /\ stored = {} /\ found = {} /\ extra = {} /\ present = FALSE /\ bound = FALSE
    /\ run = [t \in Threads |-> Idle] /\ begun = 0
    /\ state = "cancelled" /\ evidence = {} /\ approved = {} /\ consented = FALSE
    /\ turns = 0 /\ toolCalls = 0 /\ retries = 0 /\ reserved = 0 /\ nextCall = 1
    /\ pendingOutput = 0 /\ pendingTool = A!NoTool /\ pendingRetry = FALSE
    /\ observations = << >> /\ questions = FALSE /\ draft = A!NoDraft
    /\ rounds = 0 /\ disclosed = {} /\ granted = {}

(***************************************************************************)
(* Commands of the user: continue_discovery and its siblings.  They end in *)
(* drive_nonpersistent.                                                    *)
(***************************************************************************)
Begin(t) ==
    /\ At(t, "idle") /\ session.state = "draft"
    /\ Persist(Act("begin"), None) /\ Outdate(t, "drive")
    /\ SameAssistant /\ UNCHANGED <<assisted, ledger>>

(* The public actions that only move the session.                          *)
PlainActions == {"select_template", "continue_without_template", "approve_origin",
                 "approve_probes", "skip_probes", "restart_interrupted"}
ContinueDiscovery(t, kind) ==
    /\ At(t, "idle")
    /\ Persist(Act(kind), None) /\ Outdate(t, "drive")
    /\ SameAssistant /\ UNCHANGED <<assisted, ledger>>

ResolveUnknownOutcome(t, resolution) ==
    /\ At(t, "idle")
    /\ Persist([kind |-> "resolve_unknown", manifest |-> None, resolution |-> resolution], None)
    /\ Outdate(t, "drive")
    /\ CloseIfTerminal
    /\ UNCHANGED <<assisted, ledger>>

RequestAssistant(t) ==
    /\ At(t, "idle") /\ Initializable
    /\ Persist(Act("request_assistant"), None) /\ Outdate(t, "drive")
    /\ InitializeAssistant /\ bound' = FALSE
    /\ UNCHANGED <<assisted, ledger>>

ApproveAssistant(t) ==
    /\ At(t, "idle") /\ present
    /\ Persist(Act("approve_assistant"), None) /\ Outdate(t, "drive")
    /\ A!GrantConsent /\ bound' = TRUE
    /\ UNCHANGED <<assisted, ledger, present>>

DeclineAssistant(t) ==
    /\ At(t, "idle") /\ present /\ state = "awaiting_consent"
    /\ Persist(Act("decline_assistant"), None) /\ Outdate(t, "drive")
    /\ Dropped(FALSE) /\ bound' = FALSE
    /\ UNCHANGED <<assisted, ledger>>

SupplyMoreEvidence(t, ids) ==
    /\ At(t, "idle") /\ ids # {} /\ ids \subseteq stored
    /\ Persist(Act("supply_evidence"), None) /\ Outdate(t, "drive")
    /\ extra' = ids
    /\ Dropped(questions)
    /\ UNCHANGED <<assisted, stored, found, bound>>

(* supply_additional_evidence: the site of a new document is approved, or  *)
(* the assistant is built anew and asks for consent again.                 *)
FaultyContinuesWith(new) == TRUE               \* the dialogue goes on with any site
ContinuesWith(new) == A!EvidenceOrigins(new) \subseteq approved
SupplyFreshEvidence(t, new) ==
    /\ At(t, "idle") /\ new # {} /\ new \cap stored = {}
    /\ session.state = "awaiting_evidence"
    /\ Persist(Act("supply_evidence"), None) /\ Outdate(t, "drive")
    /\ stored' = stored \cup new /\ found' = found \cup new /\ extra' = extra \cup new
    /\ UNCHANGED assisted
    /\ IF ~ present THEN SameAssistant
       ELSE IF ~ ContinuesWith(new)
       THEN state = "awaiting_more_evidence" /\ Dropped(questions) /\ bound' = FALSE
       ELSE /\ state = "awaiting_more_evidence"
            /\ Cardinality(evidence \cup new) <= MaxEvidence
            /\ evidence' = evidence \cup new
            /\ state' = "ready" /\ rounds' = rounds + 1
            /\ UNCHANGED <<present, bound, approved, consented, turns, toolCalls, retries,
                           reserved, nextCall, pendingOutput, pendingTool, observations,
                           questions, pendingRetry, draft, disclosed, granted>>

CancelDiscovery(t) ==
    /\ At(t, "idle")
    /\ Persist(Act("cancel"), None) /\ Outdate(t, "settle")
    /\ CloseIfTerminal
    /\ UNCHANGED <<assisted, ledger>>

(* Work that nobody has started is given up at once.                       *)
SettlePreparedCancellation(t) ==
    /\ At(t, "settle")
    /\ UNCHANGED <<assisted, ledger>>
    /\ IF session.cancelling /\ op.status = "prepared" /\ Persistable(Interrupted(TRUE), "interrupted")
       THEN /\ Persist(Interrupted(TRUE), "interrupted") /\ Outdate(t, "drive")
            /\ CloseIfTerminal
       ELSE /\ Goto(t, "drive")
            /\ SameAssistant /\ UNCHANGED <<session, op, begun>>

(***************************************************************************)
(* drive_nonpersistent: read the session, claim its operation, execute it, *)
(* record the result at the revision that was read, and go on.             *)
(***************************************************************************)
ReadSession(t) ==
    /\ At(t, "drive")
    /\ run' = [run EXCEPT ![t] = [Idle EXCEPT !.pc = "claim", !.fresh = TRUE]]
    /\ SameAssistant /\ UNCHANGED <<session, op, assisted, ledger, begun>>

HostDriven == {"building_assistant"} \cup Persistent

(* mark_discovery_operation_started: one caller wins, and none once the    *)
(* session is being cancelled.                                             *)
Startable == op.status = "prepared" /\ ~ session.cancelling

ClaimOperation(t) ==
    /\ At(t, "claim")
    /\ SameAssistant /\ UNCHANGED <<session, assisted, ledger>>
    /\ IF op = NoOp \/ op.kind \in HostDriven \/ ~ Startable
       THEN Goto(t, "idle") /\ UNCHANGED <<op, begun>>
       ELSE /\ run' = [run EXCEPT ![t].pc = "execute"]
            /\ op' = [op EXCEPT !.status = "started"]
            /\ begun' = begun + 1

(* Models cannot be listed or probed without the credential.               *)
CredentialMissing(t) ==
    /\ At(t, "claim") /\ op.kind \in {"listing", "probing"}
    /\ UNCHANGED <<assisted, ledger>>
    /\ IF run[t].fresh /\ Persistable(Interrupted(TRUE), "interrupted")
       THEN /\ Persist(Interrupted(TRUE), "interrupted") /\ Outdate(t, "idle")
            /\ CloseIfTerminal
       ELSE Goto(t, "idle") /\ SameAssistant /\ UNCHANGED <<session, op, begun>>

(* A result at a revision that has passed is refused and lost.             *)
ResultRefused(t) ==
    /\ At(t, "execute") /\ ~ run[t].fresh
    /\ Goto(t, "idle")
    /\ SameAssistant /\ UNCHANGED <<session, op, assisted, ledger, begun>>

CompleteOperation(t, a) ==
    At(t, "execute") /\ run[t].fresh /\ Persist(a, "succeeded") /\ Outdate(t, "drive")

CollectEvidence(t, kind, ev) ==
    /\ op.kind \in {"resolving", "fetching"}
    /\ CompleteOperation(t, Act(kind))
    /\ found' = ev /\ stored' = stored \cup ev
    /\ CloseIfTerminal /\ UNCHANGED <<assisted, extra>>

Manifest == IF session.manifest = None THEN Manifests ELSE {session.manifest}
CompleteStep(t, kind, m) ==
    /\ op.kind \in {"building_deterministic", "validating", "listing", "probing"}
    /\ CompleteOperation(t, [kind |-> kind, manifest |-> m])
    /\ CloseIfTerminal /\ UNCHANGED <<assisted, ledger>>

(* ExtractEvidence: a deterministic draft makes the assistant superfluous, *)
(* one that has got its evidence goes on under its old approval, and one   *)
(* that was named but not yet asked is proposed.                           *)
ExtractDeterministic(t) ==
    /\ op.kind = "extracting"
    /\ CompleteOperation(t, Act("deterministic_available"))
    /\ Dropped(FALSE) /\ bound' = FALSE
    /\ UNCHANGED <<assisted, ledger>>

Resumable == present /\ state = "ready"
Recommended == assisted /\ found # {}
ExtractResumed(t) ==
    /\ op.kind = "extracting" /\ Resumable /\ bound
    /\ CompleteOperation(t, Act("assistant_resumed"))
    /\ CloseIfTerminal /\ UNCHANGED <<assisted, ledger>>
ExtractRecommended(t) ==
    /\ op.kind = "extracting" /\ ~ Resumable /\ Recommended /\ Initializable
    /\ CompleteOperation(t, Act("assistant_recommended"))
    /\ InitializeAssistant /\ bound' = (bound /\ present)
    /\ UNCHANGED <<assisted, ledger>>
ExtractNothing(t) ==
    /\ op.kind = "extracting" /\ ~ Resumable /\ ~ Recommended
    /\ CompleteOperation(t, Act("more_evidence_required"))
    /\ CloseIfTerminal /\ UNCHANGED <<assisted, ledger>>

(* nonpersistent_failure_action, and a probe nobody knows the result of.   *)
(* Probing itself fails for good: a failed request is one of its results.  *)
Failures == {<<Act("fail"), "failed">>, <<Interrupted(TRUE), "interrupted">>,
             <<Interrupted(FALSE), "unknown">>}
OperationFails(t, f) ==
    /\ At(t, "execute") /\ run[t].fresh
    /\ Persist(f[1], f[2]) /\ Outdate(t, "idle")
    /\ f[2] = "unknown" => op.kind = "probing"
    /\ CloseIfTerminal
    /\ UNCHANGED <<assisted, ledger>>

Execute(t) ==
    \/ \E ev \in SUBSET Evidence :
         \/ CollectEvidence(t, "no_candidates", ev)
         \/ CollectEvidence(t, "candidates", ev)
         \/ CollectEvidence(t, "documents_fetched", ev)
    \/ \E m \in Manifest, kind \in {"draft_built", "validated", "validated_needs_origin",
                                    "models_listed", "probe_candidates", "probes_completed"} :
         CompleteStep(t, kind, m)
    \/ ExtractDeterministic(t) \/ ExtractResumed(t) \/ ExtractRecommended(t) \/ ExtractNothing(t)
    \/ \E f \in Failures : OperationFails(t, f)
    \/ ResultRefused(t)

(***************************************************************************)
(* The assistant's turns.  run_assistant_with_provider claims the          *)
(* operation, begins a turn, calls the provider, records the answer and    *)
(* runs the tool it asks for, until the user is needed.                    *)
(***************************************************************************)
Checkpoint(t, pc) == Persist(Act("checkpointed"), None) /\ Outdate(t, pc)
Quit(t) ==
    Goto(t, "idle") /\ SameAssistant /\ UNCHANGED <<session, op, assisted, ledger, begun>>

StartAssistantOperation(t) ==
    /\ run[t].pc \in {"idle", "loop"} /\ op.kind = "building_assistant"
    /\ op.status = "started" \/ Startable
    /\ op' = [op EXCEPT !.status = "started"]
    /\ run' = [run EXCEPT ![t] = [Idle EXCEPT !.pc = "turn", !.fresh = TRUE]]
    /\ SameAssistant /\ UNCHANGED <<session, assisted, ledger, begun>>
EndLoop(t) ==
    /\ At(t, "loop") /\ (op.kind # "building_assistant" \/ (op.status = "prepared" /\ ~ Startable))
    /\ Quit(t)

TurnPossible(t, estimate) ==
    /\ run[t].fresh /\ present /\ state = "ready"
    /\ turns < MaxTurns /\ reserved + estimate <= MaxOutput
    /\ Persistable(Act("checkpointed"), None)
BeginTurn(t, estimate) ==
    /\ At(t, "turn") /\ TurnPossible(t, estimate)
    /\ A!BeginTurn(estimate) /\ Checkpoint(t, "call")
    /\ UNCHANGED <<assisted, ledger, present, bound>>
RefuseTurn(t, estimate) ==
    /\ At(t, "turn") /\ ~ TurnPossible(t, estimate)
    /\ Quit(t)

(* submit_assistant_turn reads the session again: an answer belongs to     *)
(* whatever turn is open then.                                             *)
Awaited == present /\ state = "awaiting_assistant"
AnswerWithTool(t, about) ==
    /\ At(t, "call") /\ Awaited
    /\ A!CallTool(about) /\ Persist(Act("checkpointed"), None)
    /\ run' = [u \in Threads |->
                 IF u = t THEN [Idle EXCEPT !.pc = "tool", !.call = nextCall]
                 ELSE [run[u] EXCEPT !.fresh = FALSE]]
    /\ UNCHANGED <<assisted, ledger, present, bound>>
AnswerWithDraft(t, cites, open) ==
    /\ At(t, "call") /\ Awaited
    /\ A!SubmitDraft(cites, open) /\ Checkpoint(t, "idle")
    /\ UNCHANGED <<assisted, ledger, present, bound>>
AnswerWithQuestions(t) ==
    /\ At(t, "call") /\ Awaited
    /\ Persist(Act("requested_evidence"), "succeeded") /\ Outdate(t, "idle")
    /\ IF session'.state \in Terminal THEN A!Cancel ELSE A!NeedMoreEvidence
    /\ UNCHANGED <<assisted, ledger, present, bound>>
(* A rejected answer or a failed call; the host may record one as well.    *)
RecordFailure(t, retryable) ==
    /\ run[t].pc \in {"call", "idle"} /\ Awaited
    /\ A!RecordFailure(retryable)
    /\ IF state' = "failed" THEN Persist(Act("fail"), "failed")
                            ELSE Persist(Act("checkpointed"), None)
    /\ Outdate(t, "idle")
    /\ UNCHANGED <<assisted, ledger, present, bound>>
(* The answer finds another state, or a session that is being cancelled.   *)
AnswerRefused(t) ==
    /\ At(t, "call")
    /\ ~ Awaited \/ session.cancelling \/ ~ Completable("succeeded")
    /\ Quit(t)

SubmitToolResult(t, cites) ==
    /\ At(t, "tool") /\ present /\ pendingTool.id = run[t].call
    /\ A!SubmitToolResult(cites) /\ Checkpoint(t, "loop")
    /\ UNCHANGED <<assisted, ledger, present, bound>>

(* interrupt_assistant; with nothing to interrupt, or under an operation   *)
(* that cannot be without effect, it changes nothing.                      *)
Interruptible(outcome, known) ==
    present /\ state \in A!InFlight /\ Persistable(Interrupted(known), outcome)
InterruptAssistant(t, outcome, known) ==
    /\ Interruptible(outcome, known)
    /\ Persist(Interrupted(known), outcome) /\ Outdate(t, "idle")
    /\ IF session'.state \in Terminal THEN A!Cancel ELSE A!MarkInterrupted
    /\ UNCHANGED <<assisted, ledger, present, bound>>
ToolFailed(t) ==
    /\ At(t, "tool")
    /\ IF Interruptible("interrupted", TRUE)
       THEN InterruptAssistant(t, "interrupted", TRUE) ELSE Quit(t)

HostInterrupts(t, outcome) ==
    /\ At(t, "idle")
    /\ InterruptAssistant(t, outcome, outcome = "interrupted")

ResumeToolCall(t, cites) ==
    /\ At(t, "idle") /\ present /\ session.state = "building_assistant"
    /\ A!SubmitToolResult(cites) /\ Checkpoint(t, "idle")
    /\ UNCHANGED <<assisted, ledger, present, bound>>
ApproveRetry(t) ==
    /\ At(t, "idle") /\ present
    /\ A!ApproveRetry /\ Checkpoint(t, "idle")
    /\ UNCHANGED <<assisted, ledger, present, bound>>
RequestDraftRevision(t) ==
    /\ At(t, "idle") /\ present
    /\ A!RequestDraftRevision /\ Checkpoint(t, "idle")
    /\ UNCHANGED <<assisted, ledger, present, bound>>

(* A draft with open conflicts or questions cannot be accepted.            *)
AcceptDraft(t, m) ==
    /\ At(t, "idle") /\ present /\ draft.made /\ ~ draft.open
    /\ Persist([kind |-> "draft_built", manifest |-> m], "succeeded") /\ Outdate(t, "drive")
    /\ bound' = FALSE
    /\ UNCHANGED engine /\ UNCHANGED <<assisted, ledger, present>>

(* restart_assistant_after_interruption marks a call the crash cut off as  *)
(* interrupted before it counts the retry.                                 *)
FaultyRestartAssistant(t) ==                   \* the cut-off call stays pending
    /\ At(t, "idle") /\ present
    /\ session.state = "interrupted" /\ session.recovery = "building_assistant"
    /\ state \in A!InFlight \cup {"interrupted"} /\ retries < MaxRetries
    /\ Persist(Act("restart_interrupted"), None) /\ Outdate(t, "idle")
    /\ state' = "ready" /\ retries' = retries + 1
    /\ UNCHANGED <<assisted, ledger, present, bound, evidence, approved, consented, turns,
                   toolCalls, reserved, nextCall, pendingOutput, pendingTool, pendingRetry,
                   observations, questions, draft, rounds, disclosed, granted>>
RestartAssistant(t) ==
    /\ At(t, "idle") /\ present
    /\ session.state = "interrupted" /\ session.recovery = "building_assistant"
    /\ state \in A!InFlight \cup {"interrupted"} /\ retries < MaxRetries
    /\ Persist(Act("restart_interrupted"), None) /\ Outdate(t, "idle")
    /\ state' = "ready" /\ retries' = retries + 1
    /\ pendingTool' = A!NoTool /\ pendingOutput' = 0 /\ pendingRetry' = FALSE
    /\ UNCHANGED <<assisted, ledger, present, bound, evidence, approved, consented, turns,
                   toolCalls, reserved, nextCall, observations, questions, draft, rounds,
                   disclosed, granted>>

(***************************************************************************)
(* The process dies and starts again.  Recovery leaves an assistant that   *)
(* waits for its user and interrupts everything else; the draft stays.     *)
(***************************************************************************)
FaultyRecoverable == {"ready", "awaiting_assistant", "awaiting_tool_result",
                      "awaiting_retry_consent", "draft_ready"}
Recoverable == {"ready", "awaiting_tool_result", "awaiting_retry_consent", "draft_ready"}
RecoverUnfinished ==
    LET known == op.status = "prepared" \/ op.kind \notin Billable
        outcome == IF known THEN "interrupted" ELSE "unknown"
    IN  /\ SameAssistant /\ UNCHANGED <<assisted, ledger>>
        /\ IF op = NoOp \/ (op.kind = "building_assistant" /\ state \in Recoverable)
           THEN UNCHANGED <<session, op, begun>>
           ELSE Persist(Interrupted(known), outcome)
Restart == RecoverUnfinished /\ run' = [t \in Threads |-> Idle]

(* recover, called while the application is running.                       *)
RecoverCommand(t) ==
    /\ At(t, "idle") /\ op # NoOp
    /\ RecoverUnfinished /\ Outdate(t, "idle")

Drives(t) ==
    \/ SettlePreparedCancellation(t) \/ ReadSession(t) \/ ClaimOperation(t)
    \/ CredentialMissing(t) \/ Execute(t)
Answers(t) ==
    \/ \E about \in Evidence \cup {"questions", "nothing"} : AnswerWithTool(t, about)
    \/ \E cites \in SUBSET Evidence, open \in BOOLEAN : AnswerWithDraft(t, cites, open)
    \/ AnswerWithQuestions(t) \/ AnswerRefused(t)
Turns(t) ==
    \/ StartAssistantOperation(t) \/ EndLoop(t)
    \/ \E estimate \in Estimates : BeginTurn(t, estimate) \/ RefuseTurn(t, estimate)
    \/ Answers(t)
    \/ \E retryable \in BOOLEAN : RecordFailure(t, retryable)
    \/ \E cites \in SUBSET Evidence : SubmitToolResult(t, cites)
    \/ ToolFailed(t)
Commands(t) ==
    \/ Begin(t)
    \/ \E kind \in PlainActions : ContinueDiscovery(t, kind)
    \/ \E r \in {"no_effect", "manual"} : ResolveUnknownOutcome(t, r)
    \/ RequestAssistant(t) \/ ApproveAssistant(t) \/ DeclineAssistant(t)
    \/ \E ids \in SUBSET Evidence : SupplyMoreEvidence(t, ids) \/ SupplyFreshEvidence(t, ids)
    \/ CancelDiscovery(t) \/ RecoverCommand(t)
    \/ \E outcome \in {"interrupted", "unknown"} : HostInterrupts(t, outcome)
    \/ \E cites \in SUBSET Evidence : ResumeToolCall(t, cites)
    \/ ApproveRetry(t) \/ RequestDraftRevision(t) \/ RestartAssistant(t)
    \/ \E m \in Manifests : AcceptDraft(t, m)

Next == Restart \/ \E t \in Threads : Drives(t) \/ Turns(t) \/ Commands(t)
Spec == Init /\ [][Next]_vars

(* A caller that has begun goes on: every wait of the loop is bounded by a *)
(* timeout.  Nobody is made to give a command.                             *)
Fairness == \A t \in Threads : WF_vars(Drives(t))
FairSpec == Spec /\ Fairness

(***************************************************************************)
(* Properties.                                                             *)
(***************************************************************************)
(* The values of the session, its operation, the draft and the callers.    *)
TypeOK ==
    /\ session \in [state : States, revision : {0}, cancelling : BOOLEAN, failure : BOOLEAN,
                    recovery : Operations \cup {None}, unknown : Operations \cup {None},
                    approval : BOOLEAN, manifest : Manifests \cup {None},
                    attempt : BOOLEAN, connection : BOOLEAN]
    /\ op \in [kind : Operations, status : {"prepared", "started"}] \cup {NoOp}
    /\ assisted \in BOOLEAN /\ present \in BOOLEAN /\ bound \in BOOLEAN
    /\ found \subseteq stored /\ extra \subseteq stored /\ stored \subseteq Evidence
    /\ run \in [Threads -> [pc : {"idle", "settle", "drive", "claim", "execute", "loop", "turn",
                                  "call", "tool"}, fresh : BOOLEAN, call : Nat]]
    /\ begun \in Nat
    /\ A!TypeOK

(* An operation is executed by one caller and once, however many callers   *)
(* drive the session; and what it found is only recorded when nothing      *)
(* happened to the session meanwhile (mark_discovery_operation_started and *)
(* the revision of persist_operation_completion).                          *)
WorkIsDoneOnce ==
    /\ begun <= 1
    /\ \A t, u \in Threads : At(t, "execute") /\ At(u, "execute") /\ run[t].fresh /\ run[u].fresh
                             => t = u

(* Between the steps of all callers, and after every crash, the assistant  *)
(* in the draft can be restored.                                           *)
DraftRestores == present => A!SnapshotRestores

(* No document reaches the model whose site the user has not approved,     *)
(* also when the assistant is dropped and built anew, and no assistant     *)
(* runs without the approval bound to its session.                         *)
ApprovalIsBound ==
    /\ A!OnlyApprovedIsDisclosed
    /\ session.state = "building_assistant" \/ session.recovery = "building_assistant"
         => present /\ consented /\ bound

(* A session that waits for evidence has no assistant, or one that asked   *)
(* for it: what assistant_resume_boundary requires of that state.          *)
EvidenceIsAwaited ==
    session.state = "awaiting_evidence" /\ present => state = "awaiting_more_evidence"

(* While a billable call is out, the session is never taken for one        *)
(* without effect, and after a crash it is not left waiting for an answer  *)
(* that nobody will give: it is reported as of unknown outcome.            *)
CallOut ==
    /\ session.state = "building_assistant" /\ op.status = "started"
    /\ Awaited /\ \E t \in Threads : At(t, "call")
CallsAreAccountedFor ==
    [][CallOut => /\ session'.state # "interrupted"
                  /\ (session'.state = "building_assistant" /\ Awaited')
                        => session'.cancelling \/ CallOut']_vars

(* One caller that is left alone always brings the session to a point      *)
(* where the user decides.                                                 *)
Driven == ReadOnly \cup Deterministic \cup {"probing"}
SessionComesToRest == (session.state \in Driven) ~> (session.state \notin Driven)

(***************************************************************************)
(* What the repository says and the code does not do.                      *)
(***************************************************************************)
(* A session that asks for consent has a proposal to show                  *)
(* (assistant_resume_boundary, AwaitingAssistantConsent).                  *)
ConsentCanBeAnswered ==
    session.state = "awaiting_assistant" => present /\ state = "awaiting_consent"

(* A session that runs the assistant has one that can go on                *)
(* (assistant_resume_boundary, BuildingAssistantManifestDraft).            *)
AssistantCanGoOn ==
    session.state = "building_assistant"
      => state \in {"ready", "awaiting_assistant", "awaiting_tool_result",
                    "awaiting_retry_consent", "draft_ready"}

(* Opening the application again finishes a cancellation                   *)
(* (cancel_reopen_automatically_interrupts_and_finishes_cancellation).     *)
ReopeningEndsCancellation ==
    [][Restart /\ session.cancelling /\ session.state \in Operations
         => session'.state \in {"cancelled", "unknown"}]_vars

(* A cancelled operation ends when its result arrives                      *)
(* (completed_read_only_work_is_discarded_after_cancellation_...).         *)
CancellationEnds ==
    (session.cancelling /\ session.state \in ReadOnly) ~> (session.state \in Terminal)

(* Every unknown outcome can be confirmed as without effect                *)
(* (ConfirmedNoEffect in ResolveUnknownOutcome).                           *)
NoEffectCanBeConfirmed ==
    session.state = "unknown"
      => Accepted(session, [kind |-> "resolve_unknown", manifest |-> None,
                            resolution |-> "no_effect"])
=============================================================================
