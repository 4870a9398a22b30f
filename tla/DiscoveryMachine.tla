-------------------------- MODULE DiscoveryMachine --------------------------
(***************************************************************************)
(* The reducer of a provider discovery session                             *)
(* (ProviderDiscoverySession::apply in crates/domain/src/discovery.rs): a  *)
(* pure function from a session and an action to the next session and the  *)
(* effect it asks for, or a refusal.                                       *)
(*                                                                         *)
(* A state that runs an operation and the operation it runs carry one      *)
(* name.  Inputs, evidence and hashes are abstracted to what the reducer   *)
(* compares.                                                               *)
(***************************************************************************)
EXTENDS Naturals, FiniteSets

CONSTANT Manifests      \* the manifest digests a session may meet

None == "none"

ReadOnly      == {"resolving", "fetching", "extracting", "validating", "listing"}
Deterministic == {"building_deterministic"}
Billable      == {"building_assistant", "probing"}
Persistent    == {"committing", "compensating"}
Operations    == ReadOnly \cup Deterministic \cup Billable \cup Persistent
Waiting       == {"awaiting_template", "awaiting_evidence", "awaiting_assistant",
                  "awaiting_credential", "awaiting_probe", "awaiting_review"}
Terminal      == {"ready", "failed", "cancelled"}
States        == {"draft", "interrupted", "unknown"} \cup Operations \cup Waiting \cup Terminal

NewSession ==
    [state |-> "draft", revision |-> 0, cancelling |-> FALSE, failure |-> FALSE,
     recovery |-> None, unknown |-> None, approval |-> FALSE, manifest |-> None,
     attempt |-> FALSE, connection |-> FALSE]

(* The transition table: state, action, next state.  Reaching an operation *)
(* state starts that operation.                                            *)
Steps ==
    { <<"draft", "begin", "resolving">>,
      <<"resolving", "no_candidates", "fetching">>,
      <<"resolving", "candidates", "awaiting_template">>,
      <<"awaiting_template", "select_template", "validating">>,
      <<"awaiting_template", "continue_without_template", "fetching">>,
      <<"fetching", "documents_fetched", "extracting">>,
      <<"extracting", "deterministic_available", "building_deterministic">>,
      <<"extracting", "assistant_recommended", "awaiting_assistant">>,
      <<"extracting", "more_evidence_required", "awaiting_evidence">>,
      <<"extracting", "assistant_resumed", "building_assistant">>,
      <<"awaiting_evidence", "supply_evidence", "extracting">>,
      <<"awaiting_evidence", "request_assistant", "awaiting_assistant">>,
      <<"awaiting_assistant", "approve_assistant", "building_assistant">>,
      <<"awaiting_assistant", "decline_assistant", "awaiting_evidence">>,
      <<"building_deterministic", "draft_built", "validating">>,
      <<"building_assistant", "draft_built", "validating">>,
      <<"building_assistant", "checkpointed", "building_assistant">>,
      <<"building_assistant", "requested_evidence", "awaiting_evidence">>,
      <<"validating", "validated_needs_origin", "awaiting_credential">>,
      <<"validating", "validated", "listing">>,
      <<"awaiting_credential", "approve_origin", "listing">>,
      <<"listing", "models_listed", "awaiting_review">>,
      <<"listing", "probe_candidates", "awaiting_probe">>,
      <<"awaiting_probe", "approve_probes", "probing">>,
      <<"awaiting_probe", "skip_probes", "awaiting_review">>,
      <<"probing", "probes_completed", "awaiting_review">>,
      <<"awaiting_review", "approve_review", "committing">> }

StepKinds == {t[2] : t \in Steps}
Target(s, kind) == (CHOOSE t \in Steps : t[1] = s.state /\ t[2] = kind)[3]
InTable(s, kind) == \E t \in Steps : t[1] = s.state /\ t[2] = kind

(* The actions that complete the operation a session is running.           *)
Completes(s, kind) ==
    InTable(s, kind) /\ s.state \in Operations \ Persistent /\ kind # "checkpointed"

NamesManifest(kind) == kind \in {"draft_built", "validated", "validated_needs_origin"}

(* Markers of an interrupted, unknown or approved effect.                  *)
Cleared(s) == [s EXCEPT !.recovery = None, !.unknown = None, !.approval = FALSE]
Ended(s) == IF s.cancelling THEN "cancelled" ELSE "failed"

(***************************************************************************)
(* An action is [kind, manifest]; Apply gives [ok, next, effect], where    *)
(* the effect is None, "cancel" (signal the running operation) or the      *)
(* operation to start.                                                     *)
(***************************************************************************)
Refused == [ok |-> FALSE, next |-> None, effect |-> None]
To(next, effect) ==
    [ok |-> TRUE, next |-> [next EXCEPT !.revision = @ + 1], effect |-> effect]

Cancel(s) ==
    CASE s.state \in Terminal \cup {"unknown"} -> Refused
      [] s.state = "compensating" -> To([s EXCEPT !.cancelling = TRUE], None)
      [] s.state \in Operations \ {"compensating"} ->
           To([s EXCEPT !.cancelling = TRUE], IF s.cancelling THEN None ELSE "cancel")
      [] OTHER -> To([Cleared(s) EXCEPT !.state = "cancelled"], None)

(* A persistent operation that had no effect may still have left a         *)
(* credential: cancelling it never ends the session before its cleanup.    *)
NoEffect(s, operation) ==
    IF s.cancelling
    THEN IF operation \in Persistent
         THEN [s EXCEPT !.state = "interrupted", !.recovery = "compensating", !.unknown = None]
         ELSE [Cleared(s) EXCEPT !.state = "cancelled", !.cancelling = FALSE]
    ELSE [s EXCEPT !.state = "interrupted", !.recovery = operation, !.unknown = None]

Interrupt(s, known) ==
    IF s.state \notin Operations \/ (s.state = "compensating" /\ s.failure) THEN Refused
    ELSE IF known THEN To(NoEffect(s, s.state), None)
    ELSE To([s EXCEPT !.state = "unknown", !.recovery = None, !.unknown = s.state], None)

Fail(s) ==
    IF s.state \in Terminal \cup Persistent \cup {"unknown"} THEN Refused
    ELSE To([Cleared(s) EXCEPT !.state = Ended(s), !.failure = TRUE, !.cancelling = FALSE], None)

(* Rows of the table, with the approval, manifest and attempt bookkeeping. *)
TableStep(s, a) ==
    IF ~ InTable(s, a.kind) THEN Refused
    ELSE IF /\ a.kind \in {"validated", "validated_needs_origin"}
            /\ s.manifest \notin {None, a.manifest} THEN Refused
    ELSE LET to == Target(s, a.kind)
             started == IF to \in Operations /\ a.kind # "checkpointed" THEN to ELSE None
         IN  To([s EXCEPT !.state = to,
                          !.approval = to \in Billable,
                          !.manifest = IF NamesManifest(a.kind) THEN a.manifest ELSE @,
                          !.attempt = @ \/ a.kind = "approve_review"],
                started)

CommitSucceeded(s) ==
    IF s.state # "committing" THEN Refused
    ELSE IF s.cancelling THEN To([s EXCEPT !.state = "compensating"], "compensating")
    ELSE To([s EXCEPT !.state = "ready", !.connection = TRUE], None)
CommitFailedBeforeApply(s) ==
    IF s.state # "committing" THEN Refused
    ELSE To([s EXCEPT !.state = Ended(s), !.failure = TRUE, !.cancelling = FALSE], None)
CompensationRequired(s) ==
    IF s.state # "committing" THEN Refused
    ELSE To([s EXCEPT !.state = "compensating"], "compensating")
CompensationFailed(s) ==
    IF s.state # "compensating" \/ s.failure THEN Refused ELSE To([s EXCEPT !.failure = TRUE], None)
ResumeCompensation(s) ==
    IF s.state # "compensating" \/ ~ s.failure THEN Refused
    ELSE To([s EXCEPT !.failure = FALSE], "compensating")
CompensationSucceeded(s) ==
    IF s.state # "compensating" \/ s.failure THEN Refused
    ELSE To([s EXCEPT !.state = Ended(s), !.cancelling = FALSE], None)
BecameUnknown(s) ==
    IF s.state \notin Persistent \/ (s.state = "compensating" /\ s.failure) THEN Refused
    ELSE To([s EXCEPT !.state = "unknown", !.unknown = s.state], None)
RestartInterrupted(s) ==
    IF s.state # "interrupted" THEN Refused
    ELSE To([s EXCEPT !.state = s.recovery, !.recovery = None], s.recovery)

(* Resolving as without effect leaves the approval where it was.           *)
ResolvedNoEffect(s) ==
    IF s.cancelling /\ s.unknown \notin Persistent
    THEN [s EXCEPT !.state = "cancelled", !.recovery = None, !.unknown = None, !.cancelling = FALSE]
    ELSE NoEffect(s, s.unknown)
ResolveUnknown(s, resolution) ==
    IF s.state # "unknown" THEN Refused
    ELSE CASE resolution = "no_effect" -> To(ResolvedNoEffect(s), None)
           [] resolution = "completed" ->
                IF s.unknown # "committing" THEN Refused
                ELSE CommitSucceeded([s EXCEPT !.state = "committing", !.unknown = None])
           [] resolution = "compensated" ->
                IF s.unknown \notin Persistent THEN Refused
                ELSE To([Cleared(s) EXCEPT !.state = Ended(s), !.cancelling = FALSE], None)
           [] resolution = "manual" ->
                To([Cleared(s) EXCEPT !.state = Ended(s), !.cancelling = FALSE], None)

(* While a cancellation is pending an ordinary operation can only complete *)
(* into a cancelled session.                                               *)
Apply(s, a) ==
    CASE a.kind = "cancel" -> Cancel(s)
      [] a.kind = "interrupt" -> Interrupt(s, a.known)
      [] a.kind = "fail" -> Fail(s)
      [] /\ a.kind \notin {"cancel", "interrupt", "fail"}
         /\ s.cancelling /\ s.state \in Operations \ Persistent ->
           IF Completes(s, a.kind)
           THEN To([Cleared(s) EXCEPT !.state = "cancelled", !.cancelling = FALSE], None)
           ELSE Refused
      [] OTHER ->
           CASE a.kind \in StepKinds -> TableStep(s, a)
             [] a.kind = "commit_succeeded" -> CommitSucceeded(s)
             [] a.kind = "commit_failed_before_apply" -> CommitFailedBeforeApply(s)
             [] a.kind = "compensation_required" -> CompensationRequired(s)
             [] a.kind = "compensation_failed" -> CompensationFailed(s)
             [] a.kind = "resume_compensation" -> ResumeCompensation(s)
             [] a.kind = "compensation_succeeded" -> CompensationSucceeded(s)
             [] a.kind = "became_unknown" -> BecameUnknown(s)
             [] a.kind = "restart_interrupted" -> RestartInterrupted(s)
             [] a.kind = "resolve_unknown" -> ResolveUnknown(s, a.resolution)

(* ProviderDiscoverySession::validate, which both sides of every           *)
(* transition must satisfy.                                                *)
SessionValid(s) ==
    /\ s.failure => s.state \in {"compensating", "failed", "cancelled"}
    /\ (s.state = "interrupted") = (s.recovery # None)
    /\ (s.state = "unknown") = (s.unknown # None)
    /\ (s.state \in Billable \/ s.recovery \in Billable) => s.approval
    /\ s.approval => s.state \in Billable \/ s.recovery \in Billable \/ s.unknown \in Billable
    /\ s.state \in Persistent => s.attempt
    /\ s.state = "ready" => s.connection

Accepted(s, a) == Apply(s, a).ok /\ SessionValid(Apply(s, a).next)
=============================================================================
