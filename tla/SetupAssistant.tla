--------------------------- MODULE SetupAssistant ---------------------------
(***************************************************************************)
(* The setup assistant (SetupAssistantEngine in                            *)
(* crates/providers/src/setup_assistant.rs): a bounded dialogue in which a *)
(* model reads redacted evidence, asks for tools or for more evidence and  *)
(* finally submits a draft.  The host restores the engine from its durable *)
(* snapshot before every operation and stores it again after, so a state   *)
(* that from_snapshot refuses is a dialogue nobody can continue or cancel. *)
(*                                                                         *)
(* An operation that the engine refuses changes nothing and is no step.    *)
(***************************************************************************)
EXTENDS Naturals, Sequences, FiniteSets

CONSTANTS Evidence,       \* redacted documents
          Origins,        \* the sites they come from
          OriginOf,       \* source_origin: Evidence -> Origins
          MaxEvidence,    \* AssistantBudget
          MaxTurns, MaxToolCalls, MaxRetries, MaxOutput,
          Estimates       \* output tokens a caller may reserve for one call

ASSUME AssistantAssumption ==
    /\ OriginOf \in [Evidence -> Origins]
    /\ "questions" \notin Evidence /\ "nothing" \notin Evidence
    /\ MaxEvidence \in Nat /\ MaxTurns \in Nat /\ MaxToolCalls \in Nat
    /\ MaxRetries \in Nat /\ MaxOutput \in Nat
    /\ Estimates \subseteq Nat \ {0}

VARIABLES state, evidence, approved, consented,
          turns, toolCalls, retries, reserved,      \* AssistantBudgetUsage
          nextCall, pendingOutput, pendingTool, observations,
          questions,      \* there are unresolved questions
          pendingRetry, draft,
          rounds,         \* history: evidence requests the user answered
          disclosed,      \* history: origins whose documents the model was sent
          granted         \* history: origins the user ever approved

usage == <<turns, toolCalls, retries, reserved, nextCall>>
history == <<rounds, disclosed, granted>>
engine == <<state, evidence, approved, consented, usage, pendingOutput, pendingTool,
            observations, questions, pendingRetry, draft>>
vars == <<engine, history>>

Nothing == "nothing"
AssistantStates == {"awaiting_consent", "ready", "awaiting_assistant", "awaiting_tool_result",
                    "awaiting_more_evidence", "awaiting_retry_consent", "draft_ready",
                    "interrupted", "failed", "cancelled"}
InFlight == {"awaiting_assistant", "awaiting_tool_result", "awaiting_more_evidence"}
Over     == {"draft_ready", "failed", "cancelled"}

(* A tool call is about one piece of evidence, about the open questions, or *)
(* about neither; a result and a draft cite evidence.                      *)
ToolCalls    == [id : Nat, about : Evidence \cup {"questions", Nothing}]
NoTool       == [id |-> 0, about |-> Nothing]
Observations == [id : Nat, cites : SUBSET Evidence]
Drafts       == [made : BOOLEAN, cites : SUBSET Evidence, open : BOOLEAN]
NoDraft      == [made |-> FALSE, cites |-> {}, open |-> FALSE]
EvidenceOrigins(ev) == {OriginOf[e] : e \in ev}

(***************************************************************************)
(* new: the host starts an engine from the evidence it has collected, with *)
(* the open questions of the engine it replaces.                           *)
(***************************************************************************)
Startable(ev) == ev # {} /\ Cardinality(ev) <= MaxEvidence

Init ==
    /\ evidence \in {ev \in SUBSET Evidence : Startable(ev)}
    /\ state = "awaiting_consent" /\ approved = {} /\ consented = FALSE
    /\ turns = 0 /\ toolCalls = 0 /\ retries = 0 /\ reserved = 0 /\ nextCall = 1
    /\ pendingOutput = 0 /\ pendingTool = NoTool /\ pendingRetry = FALSE
    /\ observations = << >> /\ questions = FALSE /\ draft = NoDraft
    /\ rounds = 0 /\ disclosed = {} /\ granted = {}

New(ev, asked) ==
    /\ Startable(ev)
    /\ evidence' = ev
    /\ state' = "awaiting_consent" /\ approved' = {} /\ consented' = FALSE
    /\ turns' = 0 /\ toolCalls' = 0 /\ retries' = 0 /\ reserved' = 0 /\ nextCall' = 1
    /\ pendingOutput' = 0 /\ pendingTool' = NoTool /\ pendingRetry' = FALSE
    /\ observations' = << >> /\ questions' = asked /\ draft' = NoDraft
    /\ rounds' = 0
    /\ UNCHANGED <<disclosed, granted>>

(* A document of an unapproved site makes the host start over.             *)
StartOver(ev) ==
    /\ state = "awaiting_more_evidence" /\ evidence \subseteq ev
    /\ New(ev, questions)

(* The consent names exactly the documents and sites that were shown.      *)
GrantConsent ==
    /\ state = "awaiting_consent"
    /\ state' = "ready" /\ consented' = TRUE
    /\ approved' = EvidenceOrigins(evidence)
    /\ granted' = granted \cup approved'
    /\ UNCHANGED <<evidence, usage, pendingOutput, pendingTool, observations, questions,
                   pendingRetry, draft, rounds, disclosed>>

FaultyAddRedactedEvidence(e) ==                \* the origin is not compared
    /\ state \in {"awaiting_tool_result", "awaiting_more_evidence"}
    /\ e \notin evidence /\ Cardinality(evidence) < MaxEvidence
    /\ evidence' = evidence \cup {e}
    /\ UNCHANGED <<state, approved, consented, usage, pendingOutput, pendingTool, observations,
                   questions, pendingRetry, draft, history>>
AddRedactedEvidence(e) ==
    /\ state \in {"awaiting_tool_result", "awaiting_more_evidence"}
    /\ e \notin evidence /\ Cardinality(evidence) < MaxEvidence
    /\ OriginOf[e] \in approved
    /\ evidence' = evidence \cup {e}
    /\ UNCHANGED <<state, approved, consented, usage, pendingOutput, pendingTool, observations,
                   questions, pendingRetry, draft, history>>

(* The whole estimate is reserved before the prompt is handed out.         *)
BeginTurn(estimate) ==
    /\ state = "ready" /\ consented
    /\ turns < MaxTurns /\ reserved + estimate <= MaxOutput
    /\ turns' = turns + 1 /\ reserved' = reserved + estimate
    /\ pendingOutput' = estimate
    /\ state' = "awaiting_assistant"
    /\ disclosed' = disclosed \cup EvidenceOrigins(evidence)
    /\ UNCHANGED <<evidence, approved, consented, toolCalls, retries, nextCall, pendingTool,
                   observations, questions, pendingRetry, draft, rounds, granted>>

(***************************************************************************)
(* submit_turn: what the model answered.                                   *)
(***************************************************************************)
TransitionAfterFailure(retryable) ==
    LET again == retryable /\ retries < MaxRetries
    IN  /\ state' = IF again THEN "awaiting_retry_consent" ELSE "failed"
        /\ pendingRetry' = again
        /\ questions' = (questions /\ again)

CallTool(about) ==
    /\ state = "awaiting_assistant"
    /\ about \in evidence \cup {Nothing} \cup IF questions THEN {"questions"} ELSE {}
    /\ toolCalls < MaxToolCalls
    /\ pendingTool' = [id |-> nextCall, about |-> about]
    /\ nextCall' = nextCall + 1 /\ toolCalls' = toolCalls + 1
    /\ state' = "awaiting_tool_result" /\ pendingOutput' = 0
    /\ UNCHANGED <<evidence, approved, consented, turns, retries, reserved, observations,
                   questions, pendingRetry, draft, history>>

SubmitDraft(cites, open) ==
    /\ state = "awaiting_assistant"
    /\ cites \subseteq evidence
    /\ draft' = [made |-> TRUE, cites |-> cites, open |-> open] /\ questions' = FALSE
    /\ state' = "draft_ready" /\ pendingOutput' = 0
    /\ UNCHANGED <<evidence, approved, consented, usage, pendingTool, observations,
                   pendingRetry, history>>

NeedMoreEvidence ==
    /\ state = "awaiting_assistant"
    /\ questions' = TRUE
    /\ state' = "awaiting_more_evidence" /\ pendingOutput' = 0
    /\ UNCHANGED <<evidence, approved, consented, usage, pendingTool, observations,
                   pendingRetry, draft, history>>

(* An answer outside the schema or the budget, a rejected call, a failed   *)
(* request: record_failure and the error path of submit_turn.              *)
RecordFailure(retryable) ==
    /\ state = "awaiting_assistant"
    /\ pendingOutput' = 0
    /\ TransitionAfterFailure(retryable)
    /\ UNCHANGED <<evidence, approved, consented, usage, pendingTool, observations, draft, history>>

(***************************************************************************)
(* The host's side of the dialogue.                                        *)
(***************************************************************************)
SubmitToolResult(cites) ==
    /\ state = "awaiting_tool_result"
    /\ cites \subseteq evidence
    /\ pendingTool.about \in Evidence => cites = {pendingTool.about}
    /\ observations' = Append(observations, [id |-> pendingTool.id, cites |-> cites])
    /\ questions' = (questions /\ pendingTool.about # "questions")
    /\ pendingTool' = NoTool /\ state' = "ready"
    /\ UNCHANGED <<evidence, approved, consented, usage, pendingOutput, pendingRetry, draft,
                   history>>

ContinueAfterMoreEvidence ==
    /\ state = "awaiting_more_evidence"
    /\ state' = "ready" /\ rounds' = rounds + 1
    /\ UNCHANGED <<evidence, approved, consented, usage, pendingOutput, pendingTool,
                   observations, questions, pendingRetry, draft, disclosed, granted>>

ApproveRetry ==
    /\ state = "awaiting_retry_consent" /\ pendingRetry
    /\ retries < MaxRetries
    /\ retries' = retries + 1 /\ pendingRetry' = FALSE /\ state' = "ready"
    /\ UNCHANGED <<evidence, approved, consented, turns, toolCalls, reserved, nextCall,
                   pendingOutput, pendingTool, observations, questions, draft, history>>

FaultyMarkInterrupted ==                       \* the pending tool call is kept
    /\ state \in InFlight
    /\ state' = "interrupted" /\ pendingOutput' = 0 /\ pendingRetry' = FALSE
    /\ UNCHANGED <<evidence, approved, consented, usage, pendingTool, observations, questions,
                   draft, history>>
MarkInterrupted ==
    /\ state \in InFlight
    /\ state' = "interrupted"
    /\ pendingTool' = NoTool /\ pendingOutput' = 0 /\ pendingRetry' = FALSE
    /\ UNCHANGED <<evidence, approved, consented, usage, observations, questions, draft, history>>

RestartAfterInterruption ==
    /\ state = "interrupted" /\ retries < MaxRetries
    /\ retries' = retries + 1 /\ state' = "ready"
    /\ UNCHANGED <<evidence, approved, consented, turns, toolCalls, reserved, nextCall,
                   pendingOutput, pendingTool, observations, questions, pendingRetry, draft,
                   history>>

Cancel ==
    /\ state \notin Over
    /\ state' = "cancelled"
    /\ pendingTool' = NoTool /\ pendingOutput' = 0 /\ pendingRetry' = FALSE /\ questions' = FALSE
    /\ UNCHANGED <<evidence, approved, consented, usage, observations, draft, history>>

RequestDraftRevision ==
    /\ state = "draft_ready" /\ retries < MaxRetries
    /\ draft' = NoDraft /\ pendingRetry' = TRUE /\ state' = "awaiting_retry_consent"
    /\ UNCHANGED <<evidence, approved, consented, usage, pendingOutput, pendingTool,
                   observations, questions, history>>

Answer ==
    \/ \E about \in Evidence \cup {"questions", Nothing} : CallTool(about)
    \/ \E cites \in SUBSET Evidence, open \in BOOLEAN : SubmitDraft(cites, open)
    \/ NeedMoreEvidence
    \/ \E retryable \in BOOLEAN : RecordFailure(retryable)

Next ==
    \/ \E ev \in SUBSET Evidence : StartOver(ev)
    \/ GrantConsent
    \/ \E e \in Evidence : AddRedactedEvidence(e)
    \/ \E estimate \in Estimates : BeginTurn(estimate)
    \/ Answer
    \/ \E cites \in SUBSET Evidence : SubmitToolResult(cites)
    \/ ContinueAfterMoreEvidence
    \/ ApproveRetry
    \/ MarkInterrupted
    \/ RestartAfterInterruption
    \/ Cancel
    \/ RequestDraftRevision

Spec == Init /\ [][Next]_vars

(***************************************************************************)
(* validate_restored_state: what from_snapshot accepts.                    *)
(***************************************************************************)
QuestionsRestorable ==
    /\ state = "awaiting_more_evidence" => questions
    /\ state \in Over => ~ questions
    /\ pendingTool # NoTool /\ pendingTool.about = "questions" => questions

UsageRestorable ==
    /\ reserved <= MaxOutput /\ toolCalls <= MaxToolCalls
    /\ turns <= MaxTurns /\ retries <= MaxRetries
    /\ toolCalls <= turns /\ retries <= turns
    /\ (turns = 0) <=> (reserved = 0)

TranscriptRestorable ==
    /\ nextCall = toolCalls + 1
    /\ Len(observations) <= toolCalls
    /\ \A i \in 1..Len(observations) :
         /\ observations[i].id >= 1 /\ observations[i].id < nextCall
         /\ observations[i].cites \subseteq evidence
         /\ \A j \in 1..Len(observations) : i < j => observations[i].id < observations[j].id

ConsentRestorable ==
    IF consented
    THEN approved = EvidenceOrigins(evidence) /\ state # "awaiting_consent"
    ELSE /\ approved = {} /\ state \in {"awaiting_consent", "cancelled"}
         /\ turns = 0 /\ toolCalls = 0 /\ retries = 0

ShapeRestorable ==
    /\ (pendingOutput # 0) <=> (state = "awaiting_assistant")
    /\ pendingOutput <= reserved
    /\ (pendingTool # NoTool) <=> (state = "awaiting_tool_result")
    /\ pendingRetry <=> (state = "awaiting_retry_consent")
    /\ draft.made <=> (state = "draft_ready")
    /\ pendingTool # NoTool =>
         /\ pendingTool.id >= 1 /\ pendingTool.id < nextCall
         /\ \A i \in 1..Len(observations) : observations[i].id < pendingTool.id
         /\ pendingTool.about \in evidence \cup {"questions", Nothing}
    /\ draft.made => draft.cites \subseteq evidence

(***************************************************************************)
(* Properties.                                                             *)
(***************************************************************************)
(* The values the fields of SetupAssistantEngine may have.                 *)
TypeOK ==
    /\ state \in AssistantStates
    /\ evidence \subseteq Evidence /\ approved \subseteq Origins /\ consented \in BOOLEAN
    /\ turns \in Nat /\ toolCalls \in Nat /\ retries \in Nat /\ reserved \in Nat
    /\ nextCall \in Nat /\ pendingOutput \in Nat
    /\ pendingTool \in ToolCalls
    /\ observations \in Seq(Observations)
    /\ questions \in BOOLEAN /\ pendingRetry \in BOOLEAN
    /\ draft \in Drafts
    /\ rounds \in Nat /\ disclosed \subseteq Origins /\ granted \subseteq Origins

(* Whatever the model answers and wherever the host is interrupted, the    *)
(* stored snapshot passes from_snapshot: no order of operations leaves a   *)
(* dialogue that can be neither continued nor cancelled.                   *)
SnapshotRestores ==
    /\ QuestionsRestorable /\ UsageRestorable /\ TranscriptRestorable
    /\ ConsentRestorable /\ ShapeRestorable

(* Every billable call but the first answers something: a tool result, new *)
(* evidence, or one explicit retry of the user.  A failed or interrupted   *)
(* call is never repeated by itself ("without retrying it").               *)
EveryCallIsAskedFor ==
    LET asked == Len(observations) + rounds + retries
    IN  /\ turns \in {asked, asked + 1}
        /\ state \in {"awaiting_consent", "ready"} => turns = asked
        /\ state \notin {"awaiting_consent", "ready", "cancelled"} => turns = asked + 1

(* No document of a site the user did not approve reaches the model, also  *)
(* when evidence is added in the middle of the dialogue.                   *)
OnlyApprovedIsDisclosed ==
    /\ disclosed \subseteq granted
    /\ consented => EvidenceOrigins(evidence) \subseteq granted

(* Money and documents leave only as the user decided: no billable call    *)
(* without a reason of the user's, no document of a site not approved.     *)
UserDecides == EveryCallIsAskedFor /\ OnlyApprovedIsDisclosed
=============================================================================
