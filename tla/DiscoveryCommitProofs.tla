------------------------ MODULE DiscoveryCommitProofs ------------------------
(***************************************************************************)
(* The commit of a discovery and its compensation, for every number of     *)
(* concurrent commands and every number of crashes, recoveries, failing    *)
(* vault calls and refused transactions.                                   *)
(***************************************************************************)
EXTENDS MCDiscovery, TLAPS

(* A session from its review on.                                           *)
Stages == {"awaiting_review", "committing", "compensating", "interrupted", "unknown",
           "ready", "failed", "cancelled"}
Digests == Manifests \cup {Commit!None, CHOOSE m \in Manifests : TRUE}
Sessions == [state : Stages, revision : Nat, cancelling : BOOLEAN, failure : BOOLEAN,
             recovery : Commit!Persistent \cup {Commit!None}, unknown : Commit!Persistent \cup {Commit!None},
             approval : BOOLEAN, manifest : Digests, attempt : BOOLEAN, connection : BOOLEAN]
(* The ledger matches the session, and the phase of the attempt is known   *)
(* in the states LedgerMatchesSession leaves open: an interrupted session  *)
(* may go on as its phase allows, and one that ended is compensated or     *)
(* never had an attempt.                                                   *)
Story ==
    /\ session \in Sessions /\ Commit!SessionValid(session)
    /\ op \in [kind : Commit!Persistent, status : {"prepared", "started"}, id : Nat] \cup {Commit!NoOp}
    /\ phase \in Commit!Phases /\ graph \in BOOLEAN
    /\ Commit!LedgerMatchesSession
    /\ session.state = "interrupted" =>
         \/ phase = "prepared"
         \/ session.recovery = "compensating" /\ phase \in {"compensation_required", "compensating"}
    /\ session.state \in {"failed", "cancelled"} => phase = IF session.attempt THEN "compensated" ELSE Commit!None
    /\ session.state = "awaiting_review" => phase = Commit!None
    /\ session.attempt <=> phase # Commit!None
(* The recipe runs down, and a compensated attempt has run all of it.      *)
Recipe ==
    /\ steps \in [1..3 -> [status : Commit!Statuses, attempts : Nat]]
    /\ Commit!RecipeRunsDown
    /\ phase = "compensated" => Commit!AllCompleted(steps)
(* The commands in flight keep their types.                                *)
Pcs == {"idle", "settle", "read", "store", "status", "commit", "publish", "commit_error",
        "restore", "after_drive", "enter", "loop", "drive", "start", "delete", "complete",
        "record_failure", "record_unknown"}
Slots == Threads \cup {Commit!None, Commit!Old}
InFlight == [pc : Pcs, then : Pcs, previous : Slots, replaced : BOOLEAN, id : Nat]
Commanded ==
    /\ vault \in Slots /\ run \in [Threads -> InFlight]
    /\ bound \in BOOLEAN /\ planned \in Commit!Selections /\ selection \in Commit!Selections /\ selections \in Nat

(* The inductive invariant.                                                *)
IInv == Story /\ Recipe /\ Commanded

LEMMA Names ==
    /\ Commit!Persistent = {"committing", "compensating"}
    /\ Commit!Persistent \subseteq Commit!Operations /\ "cancel" \notin Commit!Operations /\ Commit!None \notin Commit!Operations
    /\ Stages \cap Commit!Operations = Commit!Persistent /\ Stages \subseteq Commit!States
    /\ Stages \cap Commit!Billable = {} /\ (Commit!Persistent \cup {Commit!None}) \cap Commit!Billable = {}
    /\ Commit!None = "none"
  BY DEF Stages, Commit!Persistent, Commit!Operations, Commit!ReadOnly, Commit!Deterministic, Commit!Billable, Commit!None, Commit!States, Commit!Waiting, Commit!Terminal

LEMMA InitKeeps == Commit!Init => IInv
<1> SUFFICES ASSUME Commit!Init PROVE IInv
  OBVIOUS
<1>1. /\ session \in Sessions /\ session.state = "awaiting_review" /\ ~ session.attempt /\ ~ session.failure
      /\ session.recovery = Commit!None /\ session.unknown = Commit!None /\ ~ session.approval
  BY DEF Commit!Init, Commit!NewSession, Sessions, Stages, Digests
<1>2. Commit!SessionValid(session)
  BY <1>1, Names DEF Commit!SessionValid, Stages, Commit!Billable
<1>3. Commit!LedgerMatchesSession
  BY <1>1, Names DEF Commit!Init, Commit!LedgerMatchesSession, Commit!NoOp
<1>4. Story
  BY <1>1, <1>2, <1>3 DEF Commit!Init, Story, Commit!Phases
<1>5. Recipe
  BY Names DEF Commit!Init, Recipe, Commit!RecipeRunsDown, Commit!Present, Commit!Statuses
<1>6. Commanded
  BY DEF Commit!Init, Commanded, Slots, Commit!Selections, Commit!Idle, Pcs, InFlight
<1>7. QED
  BY <1>4, <1>5, <1>6 DEF IInv

(***************************************************************************)
(* What each transition of a session does.                                 *)
(***************************************************************************)
LedgerKinds == {"commit_succeeded", "compensation_required", "compensation_failed",
                "resume_compensation", "compensation_succeeded", "became_unknown",
                "restart_interrupted", "resolve_unknown"}
LEMMA NotInTable == \A k \in LedgerKinds : k \notin Commit!StepKinds
<1>1. \A t \in Commit!Steps : t[2] \notin LedgerKinds
  BY DEF Commit!Steps, LedgerKinds
<1>2. QED
  BY <1>1 DEF Commit!StepKinds

LEMMA LedgerActions ==
    ASSUME session \in Sessions, NEW a
    PROVE  /\ a.kind = "cancel" => Commit!Apply(session, a) = Commit!Cancel(session)
           /\ a.kind = "interrupt" => Commit!Apply(session, a) = Commit!Interrupt(session, a.known)
           /\ a.kind = "commit_succeeded" => Commit!Apply(session, a) = Commit!CommitSucceeded(session)
           /\ a.kind = "compensation_required" => Commit!Apply(session, a) = Commit!CompensationRequired(session)
           /\ a.kind = "compensation_failed" => Commit!Apply(session, a) = Commit!CompensationFailed(session)
           /\ a.kind = "resume_compensation" => Commit!Apply(session, a) = Commit!ResumeCompensation(session)
           /\ a.kind = "compensation_succeeded" => Commit!Apply(session, a) = Commit!CompensationSucceeded(session)
           /\ a.kind = "became_unknown" => Commit!Apply(session, a) = Commit!BecameUnknown(session)
           /\ a.kind = "restart_interrupted" => Commit!Apply(session, a) = Commit!RestartInterrupted(session)
           /\ a.kind = "resolve_unknown" => Commit!Apply(session, a) = Commit!ResolveUnknown(session, a.resolution)
<1>1. ~ (session.cancelling /\ session.state \in Commit!Operations \ Commit!Persistent)
  BY Names DEF Sessions
<1>2. a.kind \in LedgerKinds => a.kind \notin Commit!StepKinds
  BY NotInTable
<1>3. QED
  BY <1>1, <1>2 DEF Commit!Apply, LedgerKinds

LEMMA Moved ==
    ASSUME NEW a, NEW p, NEW next, NEW effect, Commit!PersistTransition(a, p),
           Commit!Apply(session, a) = Commit!To(next, effect)
    PROVE  /\ session' = [next EXCEPT !.revision = @ + 1] /\ Commit!SessionValid(session')
           /\ phase' = p /\ ~ Commit!Abandons(session', p)
           /\ op' = IF effect \in Commit!Operations
                    THEN [kind |-> effect, status |-> "prepared", id |-> session'.revision]
                    ELSE IF a.kind = "cancel" THEN op ELSE Commit!NoOp
<1> DEFINE result == Commit!Apply(session, a)
<1>1. /\ Commit!SessionValid(result.next) /\ ~ Commit!Abandons(result.next, p) /\ session' = result.next /\ phase' = p
      /\ op' = IF result.effect \in Commit!Operations
               THEN [kind |-> result.effect, status |-> "prepared", id |-> result.next.revision]
               ELSE IF a.kind = "cancel" THEN op ELSE Commit!NoOp
  BY DEF Commit!PersistTransition, Commit!Persistable, Commit!Accepted
<1>2. result.next = [next EXCEPT !.revision = @ + 1] /\ result.effect = effect
  BY DEF Commit!To
<1> HIDE DEF result
<1>3. QED
  BY <1>1, <1>2

(* Counting the revision changes nothing else.                             *)
LEMMA Counted ==
    ASSUME NEW next \in Sessions, NEW s, s = [next EXCEPT !.revision = @ + 1]
    PROVE  /\ s \in Sessions /\ s.state = next.state /\ s.attempt = next.attempt
           /\ s.failure = next.failure /\ s.recovery = next.recovery /\ s.unknown = next.unknown
           /\ s.cancelling = next.cancelling
<1>1. next.revision + 1 \in Nat
  BY DEF Sessions
<1> DEFINE r == next.revision + 1
<1>2. s = [next EXCEPT !.revision = r] /\ r \in Nat
  BY <1>1
<1> HIDE DEF r
<1>3. QED
  BY <1>2 DEF Sessions

LEMMA Applied == ASSUME NEW a, NEW p, Commit!PersistTransition(a, p) PROVE Commit!Apply(session, a).ok
  BY DEF Commit!PersistTransition, Commit!Persistable, Commit!Accepted

(* Facts about the operation the session runs.                             *)
LEMMA Active ==
    ASSUME Story
    PROVE  /\ Commit!NoOp.kind = Commit!None /\ Commit!NoOp.status = Commit!None /\ Commit!None # "prepared" /\ Commit!None # "started"
           /\ op # Commit!NoOp => /\ op.kind \in Commit!Persistent /\ op.status \in {"prepared", "started"}
                           /\ op.kind = session.state /\ ~ session.failure /\ session.attempt
           /\ op.status \in {"prepared", "started"} => op # Commit!NoOp
           /\ op.kind # Commit!None => op # Commit!NoOp
  BY Names DEF Story, Commit!NoOp, Commit!LedgerMatchesSession, Commit!SessionValid

LEMMA ApproveMoves ==
    ASSUME Story, session.state = "awaiting_review", UNCHANGED graph,
           Commit!PersistTransition(Commit!Act("approve_review"), "prepared")
    PROVE  Story' /\ session'.state = "committing" /\ phase = Commit!None
<1> DEFINE a == Commit!Act("approve_review")
           next == [session EXCEPT !.state = "committing", !.approval = FALSE,
                                   !.manifest = session.manifest, !.attempt = TRUE]
<1>0. session \in Sessions
  BY DEF Story
<1>1. a.kind = "approve_review" /\ ~ Commit!NamesManifest(a.kind)
  BY DEF Commit!Act, Commit!NamesManifest
<1>2. /\ <<"awaiting_review", "approve_review", "committing">> \in Commit!Steps
      /\ \A t \in Commit!Steps : t[1] = "awaiting_review" /\ t[2] = "approve_review" => t[3] = "committing"
  BY DEF Commit!Steps
<1>3. Commit!InTable(session, a.kind) /\ Commit!Target(session, a.kind) = "committing"
  <2>1. \E t \in Commit!Steps : t[1] = session.state /\ t[2] = a.kind
    BY <1>1, <1>2
  <2> DEFINE r == CHOOSE t \in Commit!Steps : t[1] = session.state /\ t[2] = a.kind
  <2>2. r \in Commit!Steps /\ r[1] = session.state /\ r[2] = a.kind
    BY <2>1
  <2>3. Commit!Target(session, a.kind) = r[3]
    BY DEF Commit!Target
  <2> HIDE DEF r
  <2>4. QED
    BY <1>1, <1>2, <2>1, <2>2, <2>3 DEF Commit!InTable
<1>4. a.kind \in Commit!StepKinds
  BY <1>1, <1>2 DEF Commit!StepKinds
<1>5. ~ (session.cancelling /\ session.state \in Commit!Operations \ Commit!Persistent)
  BY <1>0, Names DEF Sessions
<1>6. Commit!Apply(session, a) = Commit!TableStep(session, a)
  BY <1>1, <1>4, <1>5 DEF Commit!Apply
<1>7. Commit!TableStep(session, a) = Commit!To(next, "committing")
  <2>1. "committing" \in Commit!Operations /\ ~ ("committing" \in Commit!Billable) /\ a.kind # "checkpointed"
    BY <1>1, Names DEF Commit!Billable
  <2>2. Commit!TableStep(session, a) = Commit!To([session EXCEPT !.state = "committing",
                          !.approval = "committing" \in Commit!Billable,
                          !.manifest = IF Commit!NamesManifest(a.kind) THEN a.manifest ELSE @,
                          !.attempt = @ \/ a.kind = "approve_review"], "committing")
    BY <1>1, <1>3, <2>1 DEF Commit!TableStep
  <2>3. ("committing" \in Commit!Billable) = FALSE /\ (session.attempt \/ a.kind = "approve_review") = TRUE
    BY <1>1, <2>1
  <2>4. QED
    BY <1>1, <2>2, <2>3
<1> HIDE DEF a
<1>8. /\ session' = [next EXCEPT !.revision = @ + 1] /\ Commit!SessionValid(session') /\ phase' = "prepared"
      /\ op' = [kind |-> "committing", status |-> "prepared", id |-> session'.revision]
  BY <1>6, <1>7, Moved, Names DEF a
<1>9. /\ session' \in Sessions /\ session'.state = "committing" /\ session'.attempt
      /\ session'.revision \in Nat /\ ~ session'.failure
  <2>1. next \in Sessions /\ next.state = "committing" /\ next.attempt /\ next.failure = session.failure
    BY <1>0 DEF Sessions, Stages
  <2>2. ~ session.failure
    BY DEF Story, Commit!SessionValid
  <2> HIDE DEF next
  <2>3. session' \in Sessions /\ session'.state = next.state /\ session'.attempt = next.attempt
        /\ session'.failure = next.failure
    BY <1>8, <2>1, Counted
  <2>4. QED
    BY <2>1, <2>2, <2>3 DEF Sessions
<1>10. ~ graph /\ phase = Commit!None
  BY DEF Story, Commit!LedgerMatchesSession
<1>11. Commit!LedgerMatchesSession'
  BY <1>8, <1>9, <1>10, Names DEF Commit!LedgerMatchesSession
<1>12. QED
  BY <1>8, <1>9, <1>10, <1>11, Names DEF Story, Commit!Phases

LEMMA CancelMoves ==
    ASSUME Story, UNCHANGED graph, Commit!PersistTransition(Commit!Act("cancel"), phase)
    PROVE  Story' /\ phase' = phase
<1> DEFINE a == Commit!Act("cancel")
           asked == [session EXCEPT !.cancelling = TRUE]
           ended == [Commit!Cleared(session) EXCEPT !.state = "cancelled"]
<1>0. session \in Sessions
  BY DEF Story
<1>1. a.kind = "cancel" /\ Commit!Apply(session, a) = Commit!Cancel(session)
  BY <1>0, LedgerActions DEF Commit!Act
<1>2. Commit!Apply(session, a).ok
  BY Applied
<1>3. \/ /\ session.state \in Commit!Persistent
         /\ \E e \in {Commit!None, "cancel"} : Commit!Apply(session, a) = Commit!To(asked, e)
      \/ /\ session.state \in {"awaiting_review", "interrupted"}
         /\ Commit!Apply(session, a) = Commit!To(ended, Commit!None)
  BY <1>0, <1>1, <1>2, Names DEF Commit!Cancel, Commit!Refused, Sessions, Stages, Commit!Terminal
<1> HIDE DEF a
<1>4. CASE session.state \in Commit!Persistent
  <2>1. PICK e \in {Commit!None, "cancel"} : Commit!Apply(session, a) = Commit!To(asked, e)
    BY <1>3, <1>4, Names
  <2>2. session' = [asked EXCEPT !.revision = @ + 1] /\ Commit!SessionValid(session') /\ phase' = phase /\ op' = op
    BY <1>1, <2>1, Moved, Names DEF a
  <2>3. /\ session' \in Sessions /\ session'.state = session.state /\ session'.attempt = session.attempt
        /\ session'.failure = session.failure /\ session'.recovery = session.recovery
    <3>1. /\ asked \in Sessions /\ asked.state = session.state /\ asked.attempt = session.attempt
          /\ asked.failure = session.failure /\ asked.recovery = session.recovery
      BY <1>0 DEF Sessions
    <3> HIDE DEF asked
    <3>2. QED
      BY <2>2, <3>1, Counted
  <2>4. Commit!LedgerMatchesSession'
    BY <2>2, <2>3 DEF Story, Commit!LedgerMatchesSession
  <2>5. QED
    BY <2>2, <2>3, <2>4 DEF Story
<1>5. CASE session.state \in {"awaiting_review", "interrupted"}
  <2>1. Commit!Apply(session, a) = Commit!To(ended, Commit!None)
    BY <1>3, <1>5, Names
  <2>2. /\ session' = [ended EXCEPT !.revision = @ + 1] /\ Commit!SessionValid(session') /\ phase' = phase
        /\ op' = op /\ ~ Commit!Abandons(session', phase)
    BY <1>1, <2>1, Moved, Names DEF a
  <2>3. /\ session' \in Sessions /\ session'.state = "cancelled" /\ session'.attempt = session.attempt
    <3>1. ended \in Sessions /\ ended.state = "cancelled" /\ ended.attempt = session.attempt
      BY <1>0 DEF Sessions, Commit!Cleared, Stages
    <3> HIDE DEF ended
    <3>2. QED
      BY <2>2, <3>1, Counted
  <2>4. op = Commit!NoOp /\ ~ graph /\ phase # "completed" /\ phase # "outcome_unknown"
    BY <1>5, Active, Names DEF Story, Commit!LedgerMatchesSession
  <2>5. phase = Commit!None
    BY <1>5, <2>2, <2>3 DEF Commit!Abandons, Story
  <2>6. Commit!LedgerMatchesSession'
    BY <2>2, <2>3, <2>4, Names, Active DEF Commit!LedgerMatchesSession
  <2>7. ~ session'.attempt
    BY <2>3, <2>5 DEF Story
  <2>8. QED
    BY <2>2, <2>3, <2>4, <2>5, <2>6, <2>7 DEF Story
<1>6. QED
  BY <1>3, <1>4, <1>5

(* Work that had no effect may start again, or its cleanup may.            *)
LEMMA InterruptMoves ==
    ASSUME Story, UNCHANGED graph, op # Commit!NoOp, Commit!PersistTransition(Commit!Interrupted(TRUE), phase)
    PROVE  Story' /\ phase' = phase
<1> DEFINE a == Commit!Interrupted(TRUE)
           cleanup == [session EXCEPT !.state = "interrupted", !.recovery = "compensating", !.unknown = Commit!None]
           again == [session EXCEPT !.state = "interrupted", !.recovery = session.state, !.unknown = Commit!None]
<1>0. session \in Sessions /\ session.state \in Commit!Persistent /\ ~ session.failure /\ session.attempt
  BY Active DEF Story
<1>1a. a.kind = "interrupt" /\ a.kind # "cancel" /\ a.known = TRUE
  BY DEF Commit!Interrupted
<1>1. a.kind = "interrupt" /\ a.kind # "cancel" /\ Commit!Apply(session, a) = Commit!Interrupt(session, TRUE)
  BY <1>0, <1>1a, LedgerActions
<1>2. Commit!Apply(session, a) = Commit!To(cleanup, Commit!None) \/ Commit!Apply(session, a) = Commit!To(again, Commit!None)
  BY <1>0, <1>1, Names DEF Commit!Interrupt, Commit!NoEffect
<1> HIDE DEF a
<1>3. /\ Commit!SessionValid(session') /\ phase' = phase /\ op' = Commit!NoOp
      /\ session' \in {[cleanup EXCEPT !.revision = @ + 1], [again EXCEPT !.revision = @ + 1]}
  BY <1>1, <1>2, Moved, Names DEF a
<1>4. /\ session' \in Sessions /\ session'.state = "interrupted" /\ session'.attempt
      /\ session'.recovery \in {"compensating", session.state}
  <2>1. /\ cleanup \in Sessions /\ cleanup.state = "interrupted" /\ cleanup.attempt
        /\ cleanup.recovery = "compensating"
        /\ again \in Sessions /\ again.state = "interrupted" /\ again.attempt
        /\ again.recovery = session.state
    BY <1>0 DEF Sessions, Stages, Commit!Persistent
  <2> HIDE DEF cleanup, again
  <2>2. QED
    BY <1>3, <2>1, Counted
<1>5. ~ graph /\ phase \in {"prepared", "compensation_required", "compensating"}
      /\ (session.state = "committing" => phase = "prepared")
  BY <1>0, Names DEF Story, Commit!LedgerMatchesSession
<1>6. Commit!LedgerMatchesSession'
  BY <1>3, <1>4, <1>5, Active DEF Commit!LedgerMatchesSession
<1>7. QED
  BY <1>0, <1>3, <1>4, <1>5, <1>6, Names DEF Story

LEMMA LostMoves ==
    ASSUME Story, UNCHANGED graph, op # Commit!NoOp,
           \/ Commit!PersistTransition(Commit!Interrupted(FALSE), "outcome_unknown")
           \/ Commit!PersistTransition(Commit!Act("became_unknown"), "outcome_unknown")
    PROVE  Story' /\ phase' = "outcome_unknown"
<1> DEFINE lost == [session EXCEPT !.state = "unknown", !.recovery = Commit!None, !.unknown = session.state]
           gone == [session EXCEPT !.state = "unknown", !.unknown = session.state]
<1>0. session \in Sessions /\ session.state \in Commit!Persistent /\ ~ session.failure /\ session.attempt
  BY Active DEF Story
<1>0a. session.recovery = Commit!None
  BY <1>0, Names DEF Story, Commit!SessionValid, Commit!Persistent
<1>1. PICK a \in {Commit!Interrupted(FALSE), Commit!Act("became_unknown")} : Commit!PersistTransition(a, "outcome_unknown")
  OBVIOUS
<1>2. a.kind # "cancel" /\ (Commit!Apply(session, a) = Commit!To(lost, Commit!None) \/ Commit!Apply(session, a) = Commit!To(gone, Commit!None))
  <2>1. CASE a = Commit!Interrupted(FALSE)
    <3>1. a.kind = "interrupt" /\ a.known = FALSE
      BY <2>1 DEF Commit!Interrupted
    <3>2. QED
      BY <1>0, <3>1, LedgerActions, Names DEF Commit!Interrupt
  <2>2. CASE a = Commit!Act("became_unknown")
    <3>1. a.kind = "became_unknown"
      BY <2>2 DEF Commit!Act
    <3>2. QED
      BY <1>0, <3>1, LedgerActions, Names DEF Commit!BecameUnknown
  <2>3. QED
    BY <2>1, <2>2
<1>3. /\ Commit!SessionValid(session') /\ phase' = "outcome_unknown" /\ op' = Commit!NoOp
      /\ session' \in {[lost EXCEPT !.revision = @ + 1], [gone EXCEPT !.revision = @ + 1]}
  BY <1>1, <1>2, Moved, Names
<1>4. session' \in Sessions /\ session'.state = "unknown" /\ session'.attempt
  <2>1. /\ lost \in Sessions /\ lost.state = "unknown" /\ lost.attempt
        /\ gone \in Sessions /\ gone.state = "unknown" /\ gone.attempt
    BY <1>0, <1>0a DEF Sessions, Stages
  <2> HIDE DEF lost, gone
  <2>2. QED
    BY <1>3, <2>1, Counted
<1>5. ~ graph
  BY <1>0, Names DEF Story, Commit!LedgerMatchesSession
<1>6. Commit!LedgerMatchesSession'
  BY <1>3, <1>4, <1>5, Active DEF Commit!LedgerMatchesSession
<1>7. QED
  BY <1>0, <1>3, <1>4, <1>5, <1>6, Names DEF Story, Commit!Phases

(* The general form of a transition that is not a cancellation.            *)
LEMMA Steered ==
    ASSUME NEW a, NEW p, NEW next \in Sessions, NEW effect \in Commit!Persistent \cup {Commit!None},
           Commit!PersistTransition(a, p), Commit!Apply(session, a) = Commit!To(next, effect), a.kind # "cancel"
    PROVE  /\ session' \in Sessions /\ Commit!SessionValid(session') /\ phase' = p /\ ~ Commit!Abandons(session', p)
           /\ session'.state = next.state /\ session'.attempt = next.attempt
           /\ session'.failure = next.failure /\ session'.recovery = next.recovery
           /\ session'.unknown = next.unknown /\ session'.revision \in Nat
           /\ effect = Commit!None => op' = Commit!NoOp
           /\ effect # Commit!None => op' = [kind |-> effect, status |-> "prepared", id |-> session'.revision]
<1>1. /\ session' = [next EXCEPT !.revision = @ + 1] /\ Commit!SessionValid(session') /\ phase' = p
      /\ ~ Commit!Abandons(session', p)
      /\ op' = IF effect \in Commit!Operations
               THEN [kind |-> effect, status |-> "prepared", id |-> session'.revision]
               ELSE IF a.kind = "cancel" THEN op ELSE Commit!NoOp
  BY Moved
<1>2. /\ session' \in Sessions /\ session'.state = next.state /\ session'.attempt = next.attempt
      /\ session'.failure = next.failure /\ session'.recovery = next.recovery
      /\ session'.unknown = next.unknown
  BY <1>1, Counted
<1>3. session'.revision \in Nat
  BY <1>2 DEF Sessions
<1>4. QED
  BY <1>1, <1>2, <1>3, Names

LEMMA PublishedMoves ==
    ASSUME Story, graph' = TRUE, ~ session.cancelling,
           Commit!PersistTransition(Commit!Act("commit_succeeded"), "completed")
    PROVE  Story' /\ phase' = "completed"
<1> DEFINE a == Commit!Act("commit_succeeded")
           next == [session EXCEPT !.state = "ready", !.connection = TRUE]
<1>0. session \in Sessions /\ a.kind = "commit_succeeded"
  BY DEF Story, Commit!Act
<1>1. session.state = "committing" /\ Commit!Apply(session, a) = Commit!To(next, Commit!None)
  BY <1>0, LedgerActions, Applied DEF Commit!CommitSucceeded, Commit!Refused
<1>2. next \in Sessions /\ next.state = "ready" /\ next.attempt
  BY <1>0, <1>1 DEF Sessions, Stages, Story, Commit!SessionValid, Commit!Persistent
<1> HIDE DEF a, next
<1>3. /\ session' \in Sessions /\ Commit!SessionValid(session') /\ phase' = "completed" /\ op' = Commit!NoOp
      /\ session'.state = "ready" /\ session'.attempt
  BY <1>0, <1>1, <1>2, Steered, Names DEF a
<1>4. Commit!LedgerMatchesSession'
  BY <1>3, Active DEF Commit!LedgerMatchesSession
<1>5. QED
  BY <1>3, <1>4, Names DEF Story, Commit!Phases

LEMMA RequiredMoves ==
    ASSUME Story, UNCHANGED graph, Commit!PersistTransition(Commit!Act("compensation_required"), "compensation_required")
    PROVE  Story' /\ phase' = "compensation_required"
<1> DEFINE a == Commit!Act("compensation_required")
           next == [session EXCEPT !.state = "compensating"]
<1>0. session \in Sessions /\ a.kind = "compensation_required"
  BY DEF Story, Commit!Act
<1>1. session.state = "committing" /\ Commit!Apply(session, a) = Commit!To(next, "compensating")
  BY <1>0, LedgerActions, Applied DEF Commit!CompensationRequired, Commit!Refused
<1>2. next \in Sessions /\ next.state = "compensating" /\ next.attempt /\ ~ next.failure
  BY <1>0, <1>1 DEF Sessions, Stages, Story, Commit!SessionValid, Commit!Persistent
<1> HIDE DEF a, next
<1>3. /\ session' \in Sessions /\ Commit!SessionValid(session') /\ phase' = "compensation_required"
      /\ op' = [kind |-> "compensating", status |-> "prepared", id |-> session'.revision]
      /\ session'.state = "compensating" /\ session'.attempt /\ ~ session'.failure
      /\ session'.revision \in Nat
  BY <1>0, <1>1, <1>2, Steered, Names DEF a
<1>4. ~ graph
  BY <1>1 DEF Story, Commit!LedgerMatchesSession
<1>5. Commit!LedgerMatchesSession'
  BY <1>3, <1>4, Names DEF Commit!LedgerMatchesSession
<1>6. QED
  BY <1>3, <1>4, <1>5, Names DEF Story, Commit!Phases

LEMMA FailedMoves ==
    ASSUME Story, UNCHANGED graph, Commit!PersistTransition(Commit!Act("compensation_failed"), phase)
    PROVE  Story' /\ phase' = phase
<1> DEFINE a == Commit!Act("compensation_failed")
           next == [session EXCEPT !.failure = TRUE]
<1>0. session \in Sessions /\ a.kind = "compensation_failed"
  BY DEF Story, Commit!Act
<1>1. session.state = "compensating" /\ Commit!Apply(session, a) = Commit!To(next, Commit!None)
  <2>1. Commit!Apply(session, a) = Commit!CompensationFailed(session) /\ Commit!Apply(session, a).ok
    BY <1>0, LedgerActions, Applied
  <2>2. session.failure \in BOOLEAN /\ ~ Commit!Refused.ok
    BY <1>0 DEF Sessions, Commit!Refused
  <2>3. session.state = "compensating" /\ ~ session.failure
    BY <2>1, <2>2 DEF Commit!CompensationFailed
  <2>4. QED
    BY <2>1, <2>3 DEF Commit!CompensationFailed
<1>2. next \in Sessions /\ next.state = "compensating" /\ next.attempt /\ next.failure
  BY <1>0, <1>1 DEF Sessions, Stages, Story, Commit!SessionValid, Commit!Persistent
<1> HIDE DEF a, next
<1>3. /\ session' \in Sessions /\ Commit!SessionValid(session') /\ phase' = phase /\ op' = Commit!NoOp
      /\ session'.state = "compensating" /\ session'.attempt /\ session'.failure
  BY <1>0, <1>1, <1>2, Steered, Names DEF a
<1>4. ~ graph /\ phase \in {"compensation_required", "compensating"}
  BY <1>1 DEF Story, Commit!LedgerMatchesSession
<1>5. Commit!LedgerMatchesSession'
  BY <1>3, <1>4, Active DEF Commit!LedgerMatchesSession
<1>6. QED
  BY <1>3, <1>4, <1>5, Names DEF Story, Commit!Phases

LEMMA ResumedMoves ==
    ASSUME Story, UNCHANGED graph, Commit!PersistTransition(Commit!Act("resume_compensation"), phase)
    PROVE  Story' /\ phase' = phase
<1> DEFINE a == Commit!Act("resume_compensation")
           next == [session EXCEPT !.failure = FALSE]
<1>0. session \in Sessions /\ a.kind = "resume_compensation"
  BY DEF Story, Commit!Act
<1>1. session.state = "compensating" /\ Commit!Apply(session, a) = Commit!To(next, "compensating")
  <2>1. Commit!Apply(session, a) = Commit!ResumeCompensation(session) /\ Commit!Apply(session, a).ok
    BY <1>0, LedgerActions, Applied
  <2>2. session.failure \in BOOLEAN /\ ~ Commit!Refused.ok
    BY <1>0 DEF Sessions, Commit!Refused
  <2>3. session.state = "compensating" /\ session.failure
    BY <2>1, <2>2 DEF Commit!ResumeCompensation
  <2>4. QED
    BY <2>1, <2>3 DEF Commit!ResumeCompensation
<1>2. next \in Sessions /\ next.state = "compensating" /\ next.attempt /\ ~ next.failure
  BY <1>0, <1>1 DEF Sessions, Stages, Story, Commit!SessionValid, Commit!Persistent
<1> HIDE DEF a, next
<1>3. /\ session' \in Sessions /\ Commit!SessionValid(session') /\ phase' = phase
      /\ op' = [kind |-> "compensating", status |-> "prepared", id |-> session'.revision]
      /\ session'.state = "compensating" /\ session'.attempt /\ ~ session'.failure
      /\ session'.revision \in Nat
  BY <1>0, <1>1, <1>2, Steered, Names DEF a
<1>4. ~ graph /\ phase \in {"compensation_required", "compensating"}
  BY <1>1 DEF Story, Commit!LedgerMatchesSession
<1>5. Commit!LedgerMatchesSession'
  BY <1>3, <1>4, Names DEF Commit!LedgerMatchesSession
<1>6. QED
  BY <1>3, <1>4, <1>5, Names DEF Story, Commit!Phases

(* A compensated attempt ends its session.                                 *)
LEMMA CompensatedMoves ==
    ASSUME Story, UNCHANGED graph,
           \/ Commit!PersistTransition(Commit!Act("compensation_succeeded"), "compensated")
           \/ /\ phase = "outcome_unknown"
              /\ \E r \in {"compensated", "manual"} : Commit!PersistTransition(Commit!Resolution(r), "compensated")
    PROVE  Story' /\ phase' = "compensated"
<1> DEFINE next1 == [session EXCEPT !.state = Commit!Ended(session), !.cancelling = FALSE]
           next2 == [Commit!Cleared(session) EXCEPT !.state = Commit!Ended(session), !.cancelling = FALSE]
<1>0. session \in Sessions
  BY DEF Story
<1>1. PICK a : /\ Commit!PersistTransition(a, "compensated")
               /\ \/ a = Commit!Act("compensation_succeeded")
                  \/ phase = "outcome_unknown" /\ \E r \in {"compensated", "manual"} : a = Commit!Resolution(r)
  OBVIOUS
<1>2. /\ a.kind # "cancel" /\ session.state \in {"compensating", "unknown"}
      /\ (Commit!Apply(session, a) = Commit!To(next1, Commit!None) \/ Commit!Apply(session, a) = Commit!To(next2, Commit!None))
  <2>1. CASE a = Commit!Act("compensation_succeeded")
    <3>1. a.kind = "compensation_succeeded"
      BY <2>1 DEF Commit!Act
    <3>2. QED
      BY <1>0, <1>1, <3>1, LedgerActions, Applied DEF Commit!CompensationSucceeded, Commit!Refused
  <2>2. ASSUME NEW r \in {"compensated", "manual"}, a = Commit!Resolution(r) PROVE <1>2!1 /\ <1>2!2
    <3>1. a.kind = "resolve_unknown" /\ a.resolution = r
      BY <2>2 DEF Commit!Resolution
    <3>2. QED
      BY <1>0, <1>1, <3>1, LedgerActions, Applied DEF Commit!ResolveUnknown, Commit!Refused
  <2>3. QED
    BY <1>1, <2>1, <2>2
<1>3. /\ next1 \in Sessions /\ next1.state \in {"failed", "cancelled"} /\ next1.attempt = session.attempt
      /\ next2 \in Sessions /\ next2.state \in {"failed", "cancelled"} /\ next2.attempt = session.attempt
  BY <1>0 DEF Sessions, Stages, Commit!Ended, Commit!Cleared
<1>4. session.attempt /\ ~ graph
  BY <1>2, Names DEF Story, Commit!LedgerMatchesSession, Commit!SessionValid, Commit!Persistent
<1> HIDE DEF next1, next2
<1>5. /\ session' \in Sessions /\ Commit!SessionValid(session') /\ phase' = "compensated" /\ op' = Commit!NoOp
      /\ session'.state \in {"failed", "cancelled"} /\ session'.attempt
  <2>1. PICK next \in {next1, next2} : Commit!Apply(session, a) = Commit!To(next, Commit!None)
    BY <1>2
  <2>2. next \in Sessions /\ next.state \in {"failed", "cancelled"} /\ next.attempt
    BY <1>3, <1>4
  <2>3. QED
    BY <1>1, <1>2, <2>1, <2>2, Steered, Names
<1>6. Commit!LedgerMatchesSession'
  BY <1>4, <1>5, Active DEF Commit!LedgerMatchesSession
<1>7. QED
  BY <1>4, <1>5, <1>6, Names DEF Story, Commit!Phases

LEMMA RestartMoves ==
    ASSUME Story, UNCHANGED graph, Commit!RestartAllowed,
           Commit!PersistTransition(Commit!Act("restart_interrupted"), Commit!RestartPhase)
    PROVE  Story' /\ (phase' = phase \/ (phase = "prepared" /\ phase' = "compensation_required"))
<1> DEFINE a == Commit!Act("restart_interrupted")
           next == [session EXCEPT !.state = session.recovery, !.recovery = Commit!None]
<1>0. session \in Sessions /\ a.kind = "restart_interrupted"
  BY DEF Story, Commit!Act
<1>1. session.state = "interrupted" /\ Commit!Apply(session, a) = Commit!To(next, session.recovery)
  BY <1>0, LedgerActions, Applied DEF Commit!RestartInterrupted, Commit!Refused
<1>2. session.recovery \in Commit!Persistent /\ ~ session.failure /\ session.attempt
  BY <1>0, <1>1, Names DEF Sessions, Story, Commit!SessionValid
<1>3. next \in Sessions /\ next.state = session.recovery /\ next.attempt /\ ~ next.failure
  BY <1>0, <1>2 DEF Sessions, Stages, Commit!Persistent
<1>4. /\ Commit!RestartPhase \in {phase, "compensation_required"}
      /\ Commit!RestartPhase # phase => phase = "prepared" /\ Commit!RestartPhase = "compensation_required"
      /\ session.recovery = "committing" => Commit!RestartPhase = "prepared"
      /\ session.recovery = "compensating" => Commit!RestartPhase \in {"compensation_required", "compensating"}
  BY <1>1, <1>2, Names DEF Commit!RestartPhase, Commit!RestartAllowed, Story
<1> HIDE DEF a, next
<1> DEFINE p == Commit!RestartPhase
<1>4a. Commit!PersistTransition(a, p)
  BY DEF a
<1> HIDE DEF p
<1>5. /\ session' \in Sessions /\ Commit!SessionValid(session') /\ phase' = p
      /\ op' = [kind |-> session.recovery, status |-> "prepared", id |-> session'.revision]
      /\ session'.state = session.recovery /\ session'.attempt /\ ~ session'.failure
      /\ session'.revision \in Nat
  BY <1>0, <1>1, <1>2, <1>3, <1>4a, Steered, Names
<1>6. ~ graph
  BY <1>1 DEF Story, Commit!LedgerMatchesSession
<1>7. /\ phase' \in {"prepared", "compensation_required", "compensating"}
      /\ session.recovery = "committing" => phase' = "prepared"
      /\ session.recovery = "compensating" => phase' \in {"compensation_required", "compensating"}
      /\ phase' = phase \/ (phase = "prepared" /\ phase' = "compensation_required")
  BY <1>2, <1>4, <1>5, Names DEF p
<1>8. Commit!LedgerMatchesSession'
  BY <1>2, <1>5, <1>6, <1>7, Names DEF Commit!LedgerMatchesSession
<1>9. QED
  BY <1>2, <1>5, <1>6, <1>7, <1>8, Names DEF Story, Commit!Phases

LEMMA NoEffectMoves ==
    ASSUME Story, UNCHANGED graph, phase = "outcome_unknown",
           Commit!PersistTransition(Commit!Resolution("no_effect"),
                         IF session.unknown = "compensating" THEN "compensating"
                         ELSE IF session.cancelling THEN "compensation_required" ELSE "prepared")
    PROVE  Story' /\ phase' \in {"compensating", "compensation_required", "prepared"}
<1> DEFINE a == Commit!Resolution("no_effect")
           p == IF session.unknown = "compensating" THEN "compensating"
                ELSE IF session.cancelling THEN "compensation_required" ELSE "prepared"
           cleanup == [session EXCEPT !.state = "interrupted", !.recovery = "compensating", !.unknown = Commit!None]
           again == [session EXCEPT !.state = "interrupted", !.recovery = session.unknown, !.unknown = Commit!None]
<1>0. session \in Sessions /\ a.kind = "resolve_unknown" /\ a.resolution = "no_effect"
  BY DEF Story, Commit!Resolution
<1>1. session.state = "unknown" /\ session.unknown \in Commit!Persistent /\ session.attempt
  BY <1>0, Names DEF Story, Commit!LedgerMatchesSession, Commit!SessionValid, Sessions
<1>2. /\ session.cancelling => Commit!Apply(session, a) = Commit!To(cleanup, Commit!None)
      /\ ~ session.cancelling => Commit!Apply(session, a) = Commit!To(again, Commit!None)
  BY <1>0, <1>1, LedgerActions DEF Commit!ResolveUnknown, Commit!ResolvedNoEffect, Commit!NoEffect
<1>3. /\ cleanup \in Sessions /\ cleanup.state = "interrupted" /\ cleanup.attempt
      /\ cleanup.recovery = "compensating"
      /\ again \in Sessions /\ again.state = "interrupted" /\ again.attempt
      /\ again.recovery = session.unknown
  BY <1>0, <1>1 DEF Sessions, Stages, Commit!Persistent
<1>4. Commit!PersistTransition(a, p) /\ a.kind # "cancel"
  BY <1>0
<1>5. /\ p \in {"compensating", "compensation_required", "prepared"}
      /\ session.cancelling \/ session.unknown = "compensating" \/ p = "prepared"
      /\ session.unknown = "compensating" => p = "compensating"
  OBVIOUS
<1> HIDE DEF a, p, cleanup, again
<1>6. /\ session' \in Sessions /\ Commit!SessionValid(session') /\ phase' = p /\ op' = Commit!NoOp
      /\ session'.state = "interrupted" /\ session'.attempt
      /\ session.cancelling => session'.recovery = "compensating"
      /\ ~ session.cancelling => session'.recovery = session.unknown
  <2>1. CASE session.cancelling
    BY <1>2, <1>3, <1>4, <2>1, Steered, Names
  <2>2. CASE ~ session.cancelling
    BY <1>2, <1>3, <1>4, <2>2, Steered, Names
  <2>3. QED
    BY <2>1, <2>2
<1>7. ~ graph
  BY <1>1 DEF Story, Commit!LedgerMatchesSession
<1>8. Commit!LedgerMatchesSession'
  BY <1>5, <1>6, <1>7, Active DEF Commit!LedgerMatchesSession
<1>9. QED
  BY <1>1, <1>5, <1>6, <1>7, <1>8, Names DEF Story, Commit!Phases, Commit!Persistent

(***************************************************************************)
(* What each change of the recipe keeps.                                   *)
(***************************************************************************)
Rows == [status : Commit!Statuses, attempts : Nat]
Downward == steps \in [1..3 -> Rows] /\ Commit!RecipeRunsDown

LEMMA Highest ==
    ASSUME Downward, Commit!Remaining # {}
    PROVE  /\ Commit!Current \in Commit!Remaining /\ \A j \in Commit!Remaining : j <= Commit!Current
           /\ \A i \in 1..3 : i < Commit!Current => steps[i].status \in {"absent", "pending"}
<1>1. Commit!Remaining \subseteq 1..3
  BY DEF Commit!Remaining, Commit!Present
<1>2. \E i \in Commit!Remaining : \A j \in Commit!Remaining : j <= i
  <2>1. CASE 3 \in Commit!Remaining
    BY <1>1, <2>1
  <2>2. CASE 3 \notin Commit!Remaining /\ 2 \in Commit!Remaining
    BY <1>1, <2>2
  <2>3. CASE 3 \notin Commit!Remaining /\ 2 \notin Commit!Remaining
    <3>1. \A i \in Commit!Remaining : i = 1
      BY <1>1, <2>3
    <3>2. QED
      BY <3>1
  <2>4. QED
    BY <2>1, <2>2, <2>3
<1>3. Commit!Current \in Commit!Remaining /\ \A j \in Commit!Remaining : j <= Commit!Current
  BY <1>2 DEF Commit!Current
<1>4. \A i \in 1..3 : i < Commit!Current => steps[i].status \in {"absent", "pending"}
  BY <1>3 DEF Downward, Commit!RecipeRunsDown, Commit!Remaining, Commit!Present
<1>5. QED
  BY <1>3, <1>4

(* The step worked on is the highest unfinished one.                       *)
LEMMA Worked ==
    ASSUME Downward, Commit!Remaining # {}, NEW row \in Rows, row.status # "absent",
           steps' = [steps EXCEPT ![Commit!Current] = row]
    PROVE  Downward'
<1>1. /\ Commit!Current \in 1..3 /\ steps[Commit!Current].status \notin {"absent", "completed"}
      /\ \A j \in 1..3 : Commit!Current < j => steps[j].status \in {"absent", "completed"}
      /\ \A i \in 1..3 : i < Commit!Current => steps[i].status \in {"absent", "pending"}
  BY Highest DEF Commit!Remaining, Commit!Present
<1> DEFINE c == Commit!Current
<1>2. steps' = [steps EXCEPT ![c] = row] /\ c \in 1..3
  BY <1>1
<1> HIDE DEF c
<1>3. steps' \in [1..3 -> Rows]
  BY <1>2 DEF Downward
<1>4. ASSUME NEW i \in 1..3, NEW j \in 1..3, i < j, steps'[i].status \notin {"absent", "pending"},
             steps'[j].status # "absent"
      PROVE  steps'[j].status = "completed"
  <2>1. CASE j = c
    BY <1>1, <1>2, <1>4, <2>1 DEF c, Downward
  <2>2. CASE i = c
    BY <1>1, <1>2, <1>4, <2>2 DEF c, Downward
  <2>3. CASE i # c /\ j # c
    BY <1>2, <1>4, <2>3 DEF Downward, Commit!RecipeRunsDown, Commit!Present
  <2>4. QED
    BY <2>1, <2>2, <2>3
<1>5. QED
  BY <1>3, <1>4 DEF Downward, Commit!RecipeRunsDown, Commit!Present

(* The native step comes last in the recipe and so first in its running.   *)
LEMMA NativeIsHighest ==
    ASSUME Downward, steps[3].status \notin {"absent", "completed"}
    PROVE  Commit!Remaining # {} /\ Commit!Current = 3
<1>1. 3 \in Commit!Remaining
  BY DEF Commit!Remaining, Commit!Present
<1>2. Commit!Current \in Commit!Remaining /\ \A j \in Commit!Remaining : j <= Commit!Current
  BY <1>1, Highest
<1>3. QED
  BY <1>1, <1>2 DEF Commit!Remaining, Commit!Present

(* The steps with one status take another.                                 *)
Relabel(x, y) ==
    [i \in 1..3 |-> IF steps[i].status = x THEN [steps[i] EXCEPT !.status = y] ELSE steps[i]]
LEMMA Relabelled ==
    ASSUME Downward, NEW x, NEW y \in Commit!Statuses \ {"absent"}, x \notin {"absent", "pending", "completed"},
           steps' = Relabel(x, y)
    PROVE  Downward'
<1>1. \A i \in 1..3 : /\ steps'[i] \in Rows
                      /\ steps[i].status = x => steps'[i].status = y
                      /\ steps[i].status # x => steps'[i].status = steps[i].status
  BY DEF Downward, Rows, Relabel
<1>2. steps' \in [1..3 -> Rows]
  BY <1>1 DEF Relabel
<1>3. ASSUME NEW i \in 1..3, NEW j \in 1..3, i < j, steps'[i].status \notin {"absent", "pending"},
             steps'[j].status # "absent"
      PROVE  steps'[j].status = "completed"
  BY <1>1, <1>3 DEF Downward, Commit!RecipeRunsDown, Commit!Present
<1>4. QED
  BY <1>2, <1>3 DEF Downward, Commit!RecipeRunsDown, Commit!Present

LEMMA StoryStutters == ASSUME Story, UNCHANGED <<session, op, phase, graph>> PROVE Story'
  BY DEF Story, Commit!LedgerMatchesSession

LEMMA RecipeStutters ==
    ASSUME Recipe, UNCHANGED steps, phase' = phase \/ phase' # "compensated" PROVE Recipe'
  BY DEF Recipe, Commit!RecipeRunsDown, Commit!AllCompleted, Commit!Present

LEMMA RecipeMoves ==
    ASSUME Downward', phase' # "compensated" PROVE Recipe'
  BY DEF Downward, Recipe, Rows

LEMMA RecipeIsDownward == ASSUME Recipe PROVE Downward
  BY DEF Downward, Recipe, Rows

(***************************************************************************)
(* The commands in flight.                                                 *)
(***************************************************************************)
LEMMA CommandMoves ==
    ASSUME Commanded, NEW t \in Threads, NEW c \in InFlight, run' = [run EXCEPT ![t] = c]
    PROVE  run' \in [Threads -> InFlight]
  BY DEF Commanded

LEMMA GotoMoves ==
    ASSUME Commanded, NEW t \in Threads, NEW pc \in Pcs, Commit!Goto(t, pc)
    PROVE  run' \in [Threads -> InFlight]
  BY DEF Commanded, InFlight, Commit!Goto

LEMMA ThenMoves ==
    ASSUME Commanded, NEW t \in Threads, NEW pc \in Pcs, NEW then \in Pcs,
           run' = [run EXCEPT ![t].pc = pc, ![t].then = then]
    PROVE  run' \in [Threads -> InFlight]
  BY DEF Commanded, InFlight

LEMMA FinishMoves ==
    ASSUME Commanded, NEW t \in Threads, run' = [run EXCEPT ![t] = Commit!Idle] PROVE run' \in [Threads -> InFlight]
  BY DEF Commanded, InFlight, Commit!Idle, Pcs, Slots

LEMMA CommandedMoves ==
    ASSUME Commanded, run' \in [Threads -> InFlight], vault' \in Slots, UNCHANGED <<bound, planned>>,
           selection' \in Commit!Selections, selections' \in Nat
    PROVE  Commanded'
  BY DEF Commanded

LEMMA ErrorMoves ==
    ASSUME IInv, NEW t \in Threads, Commit!CompensationError(t) PROVE IInv'
<1>1. UNCHANGED <<session, bound, op, phase, steps, planned, selection, graph, vault, selections>>
  BY DEF Commit!CompensationError, Commit!database, Commit!counters
<1>2. PICK c \in InFlight : run' = [run EXCEPT ![t] = c]
  <2>1. run[t] \in InFlight
    BY DEF IInv, Commanded
  <2>2. [run[t] EXCEPT !.pc = "commit_error"] \in InFlight /\ [run[t] EXCEPT !.pc = "record_failure"] \in InFlight
    BY <2>1 DEF InFlight, Pcs
  <2>3. Commit!Idle \in InFlight
    BY DEF Commit!Idle, InFlight, Pcs, Slots
  <2>4. run' = [run EXCEPT ![t] = CASE run[t].then = "commit_error" -> [run[t] EXCEPT !.pc = "commit_error"]
                                     [] run[t].then = "after_drive" -> [run[t] EXCEPT !.pc = "record_failure"]
                                     [] OTHER -> Commit!Idle]
    BY DEF Commit!CompensationError
  <2> DEFINE c == CASE run[t].then = "commit_error" -> [run[t] EXCEPT !.pc = "commit_error"]
                    [] run[t].then = "after_drive" -> [run[t] EXCEPT !.pc = "record_failure"]
                    [] OTHER -> Commit!Idle
  <2>5. c \in InFlight
    BY <2>2, <2>3
  <2>6. run' = [run EXCEPT ![t] = c]
    BY <2>4
  <2> HIDE DEF c
  <2>7. QED
    BY <2>5, <2>6
<1>3. Commanded'
  BY <1>1, <1>2, CommandMoves, CommandedMoves DEF IInv, Commanded
<1>4. QED
  BY <1>1, <1>3, StoryStutters, RecipeStutters DEF IInv

LEMMA VaultMoves ==
    ASSUME IInv, NEW t \in Threads, NEW pc \in Pcs, Commit!VaultFails(t, pc) PROVE IInv'
<1>1. UNCHANGED <<session, bound, op, phase, steps, planned, selection, graph, vault, selections>>
  BY DEF Commit!VaultFails, Commit!database
<1>2. run' \in [Threads -> InFlight]
  BY GotoMoves, FinishMoves DEF Commit!VaultFails, Commit!Finish, IInv
<1>3. Commanded'
  BY <1>1, <1>2, CommandedMoves DEF IInv, Commanded
<1>4. QED
  BY <1>1, <1>3, StoryStutters, RecipeStutters DEF IInv

(* A step of a command that leaves the database and the vault alone.       *)
LEMMA CommandOnly ==
    ASSUME IInv, run' \in [Threads -> InFlight], UNCHANGED <<Commit!database, vault, Commit!counters>> PROVE IInv'
<1>1. UNCHANGED <<session, bound, op, phase, steps, planned, selection, graph, vault, selections>>
  BY DEF Commit!database, Commit!counters
<1>2. QED
  BY <1>1, CommandedMoves, StoryStutters, RecipeStutters DEF IInv, Commanded

(***************************************************************************)
(* The actions of the user and of the process.                             *)
(***************************************************************************)
LEMMA ApproveKeeps == ASSUME IInv, Commit!ApproveReview PROVE IInv'
<1>1. Story' /\ phase' = "prepared"
  BY ApproveMoves DEF Commit!ApproveReview, IInv, Commit!PersistTransition
<1>2. /\ steps' \in [1..3 -> Rows]
      /\ \A i \in 1..3 : steps'[i].status \in {"absent", "pending"}
  BY DEF Commit!ApproveReview, Rows, Commit!Statuses
<1>3. Downward'
  BY <1>2 DEF Downward, Commit!RecipeRunsDown, Commit!Present
<1>4. Commanded'
  BY DEF Commit!ApproveReview, IInv, Commanded, Commit!counters
<1>5. QED
  BY <1>1, <1>3, <1>4, RecipeMoves DEF IInv

LEMMA CancelKeeps == ASSUME IInv, NEW t \in Threads, Commit!RequestCancel(t) PROVE IInv'
<1>1. Story' /\ phase' = phase /\ UNCHANGED steps
  BY CancelMoves DEF Commit!RequestCancel, IInv
<1>2. Commit!Goto(t, "settle") /\ "settle" \in Pcs
  BY DEF Commit!RequestCancel, Commit!Goto, Pcs
<1>3. run' \in [Threads -> InFlight]
  BY <1>2, GotoMoves DEF IInv
<1>4. Commanded'
  BY <1>3, CommandedMoves DEF Commit!RequestCancel, IInv, Commanded
<1>5. QED
  BY <1>1, <1>4, RecipeStutters DEF IInv

LEMMA SettleKeeps == ASSUME IInv, NEW t \in Threads, Commit!SettlePreparedCancellation(t) PROVE IInv'
<1>1. UNCHANGED <<bound, steps, planned, selection, graph, vault, selections>>
      /\ run' = [run EXCEPT ![t] = Commit!Idle]
  BY DEF Commit!SettlePreparedCancellation, Commit!counters
<1>2. Commanded'
  BY <1>1, FinishMoves, CommandedMoves DEF IInv, Commanded
<1>3. Story' /\ phase' = phase
  <2>1. CASE op.status = "prepared" /\ Commit!PersistTransition(Commit!Interrupted(TRUE), phase)
    BY <1>1, <2>1, InterruptMoves, Active DEF IInv
  <2>2. CASE UNCHANGED <<session, op, phase>>
    BY <1>1, <2>2, StoryStutters DEF IInv
  <2>3. QED
    BY <2>1, <2>2 DEF Commit!SettlePreparedCancellation
<1>4. QED
  BY <1>1, <1>2, <1>3, RecipeStutters DEF IInv

LEMMA RestartKeeps == ASSUME IInv, Commit!RestartInterruptedWork PROVE IInv'
<1>1. Story' /\ (phase' = phase \/ phase' = "compensation_required") /\ UNCHANGED steps
  BY RestartMoves DEF Commit!RestartInterruptedWork, IInv
<1>2. Commanded'
  BY DEF Commit!RestartInterruptedWork, IInv, Commanded, Commit!counters
<1>3. QED
  BY <1>1, <1>2, RecipeStutters DEF IInv

LEMMA NoEffectKeeps == ASSUME IInv, Commit!ResolveNoEffect PROVE IInv'
<1>1. Story' /\ phase' \in {"compensating", "compensation_required", "prepared"}
  BY NoEffectMoves DEF Commit!ResolveNoEffect, IInv
<1>2. Downward'
  <2>1. /\ "pending" \in Commit!Statuses \ {"absent"}
        /\ steps' = Relabel("outcome_unknown", "pending")
    BY DEF Commit!ResolveNoEffect, Commit!Statuses, Relabel
  <2>2. QED
    BY <2>1, Relabelled, RecipeIsDownward DEF IInv
<1>3. Commanded'
  BY DEF Commit!ResolveNoEffect, IInv, Commanded, Commit!counters
<1>4. QED
  BY <1>1, <1>2, <1>3, RecipeMoves DEF IInv

LEMMA RestoredIsOne == ASSUME Commanded PROVE Commit!Restored \in Commit!Selections
  BY DEF Commanded, Commit!Restored

LEMMA ReconciledKeeps ==
    ASSUME IInv, NEW r \in {"compensated", "manual"}, Commit!ResolveReconciled(r) PROVE IInv'
<1>1. Story' /\ phase' = "compensated"
  BY CompensatedMoves DEF Commit!ResolveReconciled, IInv
<1>2. /\ steps' \in [1..3 -> Rows]
      /\ \A i \in 1..3 : steps'[i].status \in {"absent", "completed"}
  <2>1. Downward
    BY RecipeIsDownward DEF IInv
  <2>2. \A i \in 1..3 : /\ steps'[i] \in Rows /\ steps'[i].status \in {"absent", "completed"}
    BY <2>1 DEF Commit!ResolveReconciled, Commit!CompletedRecipe, Downward, Rows, Commit!Statuses, Commit!Present
  <2>3. steps' = Commit!CompletedRecipe
    BY DEF Commit!ResolveReconciled
  <2>4. QED
    BY <2>2, <2>3 DEF Commit!CompletedRecipe
<1>3. Recipe'
  BY <1>2 DEF Recipe, Commit!RecipeRunsDown, Commit!Present, Rows, Commit!AllCompleted
<1>4. Commanded'
  BY RestoredIsOne DEF Commit!ResolveReconciled, IInv, Commanded, Commit!counters
<1>5. QED
  BY <1>1, <1>3, <1>4 DEF IInv

LEMMA SelectKeeps == ASSUME IInv, NEW x \in Commit!Selections, Commit!SelectTarget(x) PROVE IInv'
<1>1. UNCHANGED <<session, bound, op, phase, steps, planned, graph, vault, run>>
      /\ selection' = x /\ selections' = selections + 1
  BY DEF Commit!SelectTarget
<1>2. selections' \in Nat
  BY <1>1 DEF IInv, Commanded
<1>3. QED
  BY <1>1, <1>2, StoryStutters, RecipeStutters DEF IInv, Commanded

LEMMA RecoverMoves ==
    ASSUME IInv, UNCHANGED graph, Commit!RecoverUnfinished PROVE Story' /\ Recipe'
<1>1. CASE op.status = "prepared"
  <2>1. Commit!PersistTransition(Commit!Interrupted(TRUE), phase) /\ UNCHANGED steps
    BY <1>1 DEF Commit!RecoverUnfinished
  <2>2. QED
    BY <1>1, <2>1, InterruptMoves, RecipeStutters, Active DEF IInv
<1>2. CASE op.status = "started" /\ op.kind = "compensating" /\ Commit!AllCompleted(steps)
  <2>1. Commit!PersistTransition(Commit!Act("compensation_succeeded"), "compensated") /\ UNCHANGED steps
    BY <1>2 DEF Commit!RecoverUnfinished
  <2>2. Story'
    BY <2>1, CompensatedMoves DEF IInv
  <2>3. Recipe'
    BY <1>2, <2>1 DEF IInv, Recipe, Commit!RecipeRunsDown, Commit!AllCompleted, Commit!Present
  <2>4. QED
    BY <2>2, <2>3
<1>3. CASE op.status = "started" /\ ~ (op.kind = "compensating" /\ Commit!AllCompleted(steps))
  <2>1. /\ Commit!PersistTransition(Commit!Interrupted(FALSE), "outcome_unknown")
        /\ steps' = Relabel("in_progress", "outcome_unknown")
    BY <1>3 DEF Commit!RecoverUnfinished, Relabel
  <2>2. Story' /\ phase' = "outcome_unknown"
    BY <1>3, <2>1, LostMoves, Active DEF IInv
  <2>3. "outcome_unknown" \in Commit!Statuses \ {"absent"}
    BY DEF Commit!Statuses
  <2>4. Downward'
    BY <2>1, <2>3, Relabelled, RecipeIsDownward DEF IInv
  <2>5. QED
    BY <2>2, <2>4, RecipeMoves
<1>4. CASE op.status \notin {"prepared", "started"}
  <2>1. UNCHANGED <<session, op, phase, steps>>
    BY <1>4 DEF Commit!RecoverUnfinished
  <2>2. QED
    BY <2>1, StoryStutters, RecipeStutters DEF IInv
<1>5. QED
  BY <1>1, <1>2, <1>3, <1>4

LEMMA RecoverKeeps == ASSUME IInv, Commit!RecoverCommand \/ Commit!Crash PROVE IInv'
<1>1. Commit!RecoverUnfinished /\ UNCHANGED <<bound, planned, selection, graph, vault, selections>>
  BY DEF Commit!RecoverCommand, Commit!Crash
<1>2. run' \in [Threads -> InFlight]
  <2>1. CASE Commit!RecoverCommand
    BY <2>1 DEF Commit!RecoverCommand, IInv, Commanded
  <2>2. CASE Commit!Crash
    BY <2>2 DEF Commit!Crash, Commit!Idle, InFlight, Pcs, Slots
  <2>3. QED
    BY <2>1, <2>2
<1>3. Commanded'
  BY <1>1, <1>2, CommandedMoves DEF IInv, Commanded
<1>4. QED
  BY <1>1, <1>3, RecoverMoves DEF IInv

(***************************************************************************)
(* The steps of a command that commits.                                    *)
(***************************************************************************)
LEMMA PcsAre ==
    {"idle", "settle", "read", "store", "status", "commit", "publish", "commit_error",
     "restore", "after_drive", "enter", "loop", "drive", "start", "delete", "complete",
     "record_failure", "record_unknown"} \subseteq Pcs
  BY DEF Pcs

LEMMA BeginKeeps ==
    ASSUME IInv, NEW t \in Threads, NEW w \in BOOLEAN, Commit!BeginCommit(t, w) PROVE IInv'
<1>1. PICK pc \in Pcs : Commit!Goto(t, pc)
  BY PcsAre DEF Commit!BeginCommit
<1>2. QED
  BY <1>1, GotoMoves, CommandOnly DEF Commit!BeginCommit, IInv

LEMMA ReadKeeps == ASSUME IInv, NEW t \in Threads, Commit!ReadPrevious(t) PROVE IInv'
<1>1. CASE /\ run' = [run EXCEPT ![t].pc = "store", ![t].previous = vault]
           /\ UNCHANGED <<Commit!database, vault, Commit!counters>>
  <2>1. run' \in [Threads -> InFlight]
    BY <1>1, PcsAre DEF IInv, Commanded, InFlight
  <2>2. QED
    BY <1>1, <2>1, CommandOnly
<1>2. CASE Commit!VaultFails(t, "idle")
  BY <1>2, VaultMoves, PcsAre
<1>3. QED
  BY <1>1, <1>2 DEF Commit!ReadPrevious

LEMMA StoreKeeps == ASSUME IInv, NEW t \in Threads, Commit!StoreCredential(t) PROVE IInv'
<1>1. CASE /\ vault' = t
           /\ run' = [run EXCEPT ![t].pc = "commit", ![t].replaced = TRUE]
           /\ UNCHANGED <<Commit!database, Commit!counters>>
  <2>1. run' \in [Threads -> InFlight]
    BY <1>1, PcsAre DEF IInv, Commanded, InFlight
  <2>2. UNCHANGED <<session, bound, op, phase, steps, planned, selection, graph, selections>>
    BY <1>1 DEF Commit!database, Commit!counters
  <2>3. Commanded'
    BY <1>1, <2>1, <2>2, CommandedMoves DEF IInv, Commanded, Slots
  <2>4. QED
    BY <2>2, <2>3, StoryStutters, RecipeStutters DEF IInv
<1>2. CASE Commit!VaultFails(t, "idle")
  BY <1>2, VaultMoves, PcsAre
<1>3. QED
  BY <1>1, <1>2 DEF Commit!StoreCredential

LEMMA ConfirmKeeps == ASSUME IInv, NEW t \in Threads, Commit!ConfirmCredential(t) PROVE IInv'
<1>1. CASE /\ (IF vault = Commit!None THEN Commit!Finish(t) ELSE Commit!Goto(t, "commit"))
           /\ UNCHANGED <<Commit!database, vault, Commit!counters>>
  <2>1. run' \in [Threads -> InFlight]
    BY <1>1, FinishMoves, GotoMoves, PcsAre DEF IInv, Commit!Finish
  <2>2. QED
    BY <1>1, <2>1, CommandOnly
<1>2. CASE Commit!VaultFails(t, "idle")
  BY <1>2, VaultMoves, PcsAre
<1>3. QED
  BY <1>1, <1>2 DEF Commit!ConfirmCredential

LEMMA CancellationKeeps == ASSUME IInv, NEW t \in Threads, Commit!SettleStartedCancellation(t) PROVE IInv'
<1>1. UNCHANGED <<bound, steps, planned, selection, graph, vault, selections>>
  BY DEF Commit!SettleStartedCancellation, Commit!counters
<1>2. run' \in [Threads -> InFlight]
  BY ThenMoves, PcsAre DEF Commit!SettleStartedCancellation, IInv
<1>3. Commanded'
  BY <1>1, <1>2, CommandedMoves DEF IInv, Commanded
<1>4. Story' /\ phase' = "compensation_required"
  BY <1>1, RequiredMoves DEF Commit!SettleStartedCancellation, IInv
<1>5. QED
  BY <1>1, <1>3, <1>4, RecipeStutters DEF IInv

LEMMA GotoKeeps ==
    ASSUME IInv, NEW t \in Threads, NEW pc \in Pcs, Commit!Goto(t, pc), UNCHANGED <<Commit!database, vault, Commit!counters>>
    PROVE  IInv'
  BY GotoMoves, CommandOnly DEF IInv

LEMMA FinishKeeps ==
    ASSUME IInv, NEW t \in Threads, Commit!Finish(t), UNCHANGED <<Commit!database, vault, Commit!counters>> PROVE IInv'
  BY FinishMoves, CommandOnly DEF IInv, Commit!Finish

(* The operation of the session starts.                                    *)
LEMMA StartedMoves ==
    ASSUME Story, op # Commit!NoOp, op' = [op EXCEPT !.status = "started"], UNCHANGED <<session, graph>>,
           \/ UNCHANGED phase
           \/ session.state = "compensating" /\ phase' = "compensating"
    PROVE  Story' /\ op'.kind = op.kind
<1>1. op \in [kind : Commit!Persistent, status : {"prepared", "started"}, id : Nat]
  BY DEF Story
<1>2. op' \in [kind : Commit!Persistent, status : {"prepared", "started"}, id : Nat] /\ op'.kind = op.kind
  BY <1>1
<1>3. Commit!LedgerMatchesSession'
  BY <1>2 DEF Story, Commit!LedgerMatchesSession
<1>4. CASE UNCHANGED phase
  BY <1>2, <1>3, <1>4 DEF Story
<1>5. CASE session.state = "compensating" /\ phase' = "compensating"
  <2>1. session.attempt
    BY <1>5 DEF Story, Commit!SessionValid, Commit!Persistent
  <2>2. QED
    BY <1>2, <1>3, <1>5, <2>1, Names DEF Story, Commit!Phases
<1>6. QED
  BY <1>2, <1>4, <1>5

LEMMA StartCommitKeeps == ASSUME IInv, NEW t \in Threads, Commit!StartCommit(t) PROVE IInv'
<1>1. CASE /\ session.state = "committing" /\ ~ session.cancelling /\ op.status = "prepared"
           /\ op' = [op EXCEPT !.status = "started"]
           /\ run' = [run EXCEPT ![t].pc = "publish", ![t].id = op.id]
           /\ UNCHANGED <<session, bound, phase, steps, planned, selection, graph, vault, Commit!counters>>
  <2>1. op # Commit!NoOp
    BY <1>1, Active DEF IInv
  <2>2. op.id \in Nat
    BY <2>1 DEF IInv, Story
  <2>3. run' \in [Threads -> InFlight]
    BY <1>1, <2>2, PcsAre DEF IInv, Commanded, InFlight
  <2>4. Commanded'
    BY <1>1, <2>3, CommandedMoves DEF IInv, Commanded, Commit!counters
  <2>5. Story'
    BY <1>1, <2>1, StartedMoves DEF IInv
  <2>6. QED
    BY <1>1, <2>4, <2>5, RecipeStutters DEF IInv
<1>2. CASE Commit!SettleStartedCancellation(t)
  BY <1>2, CancellationKeeps
<1>3. CASE Commit!Goto(t, "commit_error") /\ UNCHANGED <<Commit!database, vault, Commit!counters>>
  BY <1>3, GotoKeeps, PcsAre
<1>4. QED
  BY <1>1, <1>2, <1>3 DEF Commit!StartCommit

LEMMA PublishKeeps == ASSUME IInv, NEW t \in Threads, Commit!PublishGraph(t) PROVE IInv'
<1>1. CASE /\ ~ session.cancelling
           /\ Commit!PersistTransition(Commit!Act("commit_succeeded"), "completed")
           /\ graph' = TRUE
           /\ Commit!Finish(t)
           /\ UNCHANGED <<bound, steps, planned, selection, vault, Commit!counters>>
  <2>1. Story' /\ phase' = "completed"
    BY <1>1, PublishedMoves DEF IInv
  <2>2. run' \in [Threads -> InFlight]
    BY <1>1, FinishMoves DEF IInv, Commit!Finish
  <2>3. Commanded'
    BY <1>1, <2>2, CommandedMoves DEF IInv, Commanded, Commit!counters
  <2>4. QED
    BY <1>1, <2>1, <2>3, RecipeStutters DEF IInv
<1>2. CASE Commit!SettleStartedCancellation(t)
  BY <1>2, CancellationKeeps
<1>3. CASE Commit!Goto(t, "commit_error") /\ UNCHANGED <<Commit!database, vault, Commit!counters>>
  BY <1>3, GotoKeeps, PcsAre
<1>4. CASE Commit!Goto(t, "commit_error") /\ UNCHANGED <<Commit!database, vault, requests, crashes, failures, selections>>
  <2>1. UNCHANGED <<session, bound, op, phase, steps, planned, selection, graph, vault, selections>>
    BY <1>4 DEF Commit!database
  <2>2. run' \in [Threads -> InFlight]
    BY <1>4, GotoMoves, PcsAre DEF IInv
  <2>3. QED
    BY <2>1, <2>2, CommandedMoves, StoryStutters, RecipeStutters DEF IInv, Commanded
<1>5. QED
  BY <1>1, <1>2, <1>3, <1>4 DEF Commit!PublishGraph

LEMMA HandleKeeps == ASSUME IInv, NEW t \in Threads, Commit!HandleCommitError(t) PROVE IInv'
<1>1. (\E pc \in Pcs : Commit!Goto(t, pc)) \/ Commit!Finish(t)
  <2>1. CASE session.state = "compensating"
    BY <2>1, PcsAre DEF Commit!HandleCommitError
  <2>2. CASE session.state \in {"ready", "unknown"}
    BY <2>2 DEF Commit!HandleCommitError
  <2>3. CASE session.state \notin {"compensating", "ready", "unknown"}
    BY <2>3, PcsAre DEF Commit!HandleCommitError
  <2>4. QED
    BY <2>1, <2>2, <2>3
<1>2. UNCHANGED <<Commit!database, vault, Commit!counters>>
  BY DEF Commit!HandleCommitError
<1>3. QED
  BY <1>1, <1>2, GotoKeeps, FinishKeeps

LEMMA RestoreKeeps == ASSUME IInv, NEW t \in Threads, Commit!RestoreCredential(t) PROVE IInv'
<1>1. CASE vault' = run[t].previous /\ Commit!Finish(t) /\ UNCHANGED <<Commit!database, Commit!counters>>
  <2>1. run' \in [Threads -> InFlight] /\ run[t].previous \in Slots
    BY <1>1, FinishMoves DEF IInv, Commanded, InFlight, Commit!Finish
  <2>2. UNCHANGED <<session, bound, op, phase, steps, planned, selection, graph, selections>>
    BY <1>1 DEF Commit!database, Commit!counters
  <2>3. Commanded'
    BY <1>1, <2>1, <2>2, CommandedMoves DEF IInv, Commanded
  <2>4. QED
    BY <2>2, <2>3, StoryStutters, RecipeStutters DEF IInv
<1>2. CASE Commit!VaultFails(t, "idle")
  BY <1>2, VaultMoves, PcsAre
<1>3. QED
  BY <1>1, <1>2 DEF Commit!RestoreCredential

LEMMA AfterDriveKeeps == ASSUME IInv, NEW t \in Threads, Commit!AfterDrive(t) PROVE IInv'
  BY GotoKeeps, FinishKeeps, PcsAre DEF Commit!AfterDrive

(***************************************************************************)
(* The steps of a command that compensates.                                *)
(***************************************************************************)
LEMMA StatusMoves ==
    ASSUME Downward, Commit!Remaining # {}, NEW status \in Commit!Statuses \ {"absent"}, Commit!SetStatus(Commit!Current, status)
    PROVE  Downward'
<1>1. Commit!Current \in 1..3
  BY Highest DEF Commit!Remaining, Commit!Present
<1> DEFINE c == Commit!Current
           row == [steps[c] EXCEPT !.status = status]
<1>2. row \in Rows /\ row.status = status
  BY <1>1 DEF Downward, Rows
<1>3. steps' = [steps EXCEPT ![Commit!Current] = row]
  BY DEF Commit!SetStatus
<1> HIDE DEF row
<1>4. QED
  BY <1>2, <1>3, Worked

LEMMA BegunMoves ==
    ASSUME Downward, Commit!Remaining # {},
           steps' = [steps EXCEPT ![Commit!Current] = [status |-> "in_progress", attempts |-> @.attempts + 1]]
    PROVE  Downward'
<1>1. Commit!Current \in 1..3
  BY Highest DEF Commit!Remaining, Commit!Present
<1> DEFINE c == Commit!Current
           row == [status |-> "in_progress", attempts |-> steps[c].attempts + 1]
<1>2. row \in Rows /\ row.status = "in_progress"
  BY <1>1 DEF Downward, Rows, Commit!Statuses
<1>3. steps' = [steps EXCEPT ![Commit!Current] = row]
  OBVIOUS
<1> HIDE DEF row
<1>4. QED
  BY <1>2, <1>3, Worked

LEMMA ContinueKeeps == ASSUME IInv, NEW t \in Threads, Commit!ContinueCommand(t) PROVE IInv'
<1>1. run' \in [Threads -> InFlight]
  BY ThenMoves, PcsAre DEF Commit!ContinueCommand, IInv
<1>2. QED
  BY <1>1, CommandOnly DEF Commit!ContinueCommand

LEMMA ResumeKeeps == ASSUME IInv, NEW t \in Threads, Commit!ResumeCommand(t) PROVE IInv'
<1>1. UNCHANGED <<bound, planned, selection, graph, vault, selections>> /\ phase = "compensating"
  BY DEF Commit!ResumeCommand, Commit!counters
<1>2. run' \in [Threads -> InFlight]
  BY ThenMoves, PcsAre DEF Commit!ResumeCommand, IInv
<1>3. Commanded'
  BY <1>1, <1>2, CommandedMoves DEF IInv, Commanded
<1>4. Story' /\ phase' = phase
  BY <1>1, ResumedMoves DEF Commit!ResumeCommand, IInv
<1>5. steps' = Relabel("failed", "pending") /\ "pending" \in Commit!Statuses \ {"absent"}
  BY DEF Commit!ResumeCommand, Relabel, Commit!Statuses
<1>6. Downward'
  BY <1>5, Relabelled, RecipeIsDownward DEF IInv
<1>7. QED
  BY <1>1, <1>3, <1>4, <1>6, RecipeMoves DEF IInv

LEMMA EnterKeeps == ASSUME IInv, NEW t \in Threads, Commit!EnterCompensation(t) PROVE IInv'
<1>1. CASE Commit!CompensationError(t)
  BY <1>1, ErrorMoves
<1>2. CASE /\ session.state = "compensating" /\ op.kind = "compensating"
           /\ op' = [op EXCEPT !.status = "started"]
           /\ phase' = "compensating"
           /\ Commit!Goto(t, "loop")
           /\ UNCHANGED <<session, bound, steps, planned, selection, graph, vault, Commit!counters>>
  <2>1. op # Commit!NoOp
    BY <1>2, Active, Names DEF IInv
  <2>2. Story'
    BY <1>2, <2>1, StartedMoves DEF IInv
  <2>3. run' \in [Threads -> InFlight]
    BY <1>2, GotoMoves, PcsAre DEF IInv
  <2>4. Commanded'
    BY <1>2, <2>3, CommandedMoves DEF IInv, Commanded, Commit!counters
  <2>5. QED
    BY <1>2, <2>2, <2>4, RecipeStutters DEF IInv
<1>3. QED
  BY <1>1, <1>2 DEF Commit!EnterCompensation

LEMMA GotoThen == ASSUME IInv, NEW t \in Threads, Commit!Goto(t, run[t].then) PROVE run' \in [Threads -> InFlight]
<1>1. run[t].then \in Pcs
  BY DEF IInv, Commanded, InFlight
<1>2. QED
  BY <1>1, GotoMoves DEF IInv

LEMMA FinishCompensationKeeps == ASSUME IInv, NEW t \in Threads, Commit!FinishCompensation(t) PROVE IInv'
<1>1. CASE Commit!CompensationError(t)
  BY <1>1, ErrorMoves
<1>2. CASE /\ Commit!Remaining = {}
           /\ Commit!PersistTransition(Commit!Act("compensation_succeeded"), "compensated")
           /\ Commit!Goto(t, run[t].then)
           /\ UNCHANGED <<bound, steps, planned, selection, graph, vault, Commit!counters>>
  <2>1. Story'
    BY <1>2, CompensatedMoves DEF IInv
  <2>2. Commit!AllCompleted(steps)
    BY <1>2 DEF Commit!Remaining, Commit!AllCompleted
  <2>3. Recipe'
    BY <1>2, <2>2 DEF IInv, Recipe, Commit!RecipeRunsDown, Commit!AllCompleted, Commit!Present
  <2>4. Commanded'
    BY <1>2, GotoThen, CommandedMoves DEF IInv, Commanded, Commit!counters
  <2>5. QED
    BY <2>1, <2>3, <2>4 DEF IInv
<1>3. QED
  BY <1>1, <1>2 DEF Commit!FinishCompensation

LEMMA StopKeeps == ASSUME IInv, NEW t \in Threads, Commit!StopAtCredential(t) PROVE IInv'
  BY ErrorMoves, GotoThen, CommandOnly DEF Commit!StopAtCredential

LEMMA StartStepKeeps == ASSUME IInv, NEW t \in Threads, Commit!StartDatabaseStep(t) PROVE IInv'
<1>1. CASE Commit!CompensationError(t)
  BY <1>1, ErrorMoves
<1>2. CASE /\ Commit!Remaining # {} /\ Commit!CompensationStarted
           /\ steps' = [steps EXCEPT ![Commit!Current] = [status |-> "in_progress", attempts |-> @.attempts + 1]]
           /\ UNCHANGED <<session, bound, op, phase, planned, selection, graph, vault, run, Commit!counters>>
  <2>1. Downward'
    BY <1>2, BegunMoves, RecipeIsDownward DEF IInv
  <2>2. phase' # "compensated"
    BY <1>2 DEF Commit!CompensationStarted
  <2>3. Commanded'
    BY <1>2 DEF IInv, Commanded, Commit!counters
  <2>4. QED
    BY <1>2, <2>1, <2>2, <2>3, StoryStutters, RecipeMoves DEF IInv
<1>3. QED
  BY <1>1, <1>2 DEF Commit!StartDatabaseStep

LEMMA RunStepKeeps == ASSUME IInv, NEW t \in Threads, Commit!RunDatabaseStep(t) PROVE IInv'
<1>0. Commit!Remaining # {} /\ Downward /\ {"completed", "failed"} \subseteq Commit!Statuses \ {"absent"}
  BY RecipeIsDownward DEF Commit!RunDatabaseStep, IInv, Commit!Statuses
<1>1. CASE Commit!CompensationError(t)
  BY <1>1, ErrorMoves
<1>2. CASE /\ Commit!CompensationStarted
           /\ Commit!SetStatus(Commit!Current, "completed")
           /\ graph' = IF Commit!Current = 2 THEN FALSE ELSE graph
           /\ selection' = IF Commit!Current = 1 THEN Commit!Restored ELSE selection
           /\ UNCHANGED <<session, bound, op, phase, planned, vault, run, Commit!counters>>
  <2>1. Downward'
    BY <1>0, <1>2, StatusMoves
  <2>2. phase' # "compensated" /\ ~ graph /\ graph' = graph
    BY <1>2 DEF Commit!CompensationStarted, IInv, Story, Commit!LedgerMatchesSession
  <2>3. Commanded'
    BY <1>2, RestoredIsOne DEF IInv, Commanded, Commit!counters
  <2>4. QED
    BY <1>2, <2>1, <2>2, <2>3, StoryStutters, RecipeMoves DEF IInv
<1>3. CASE /\ Commit!CompensationStarted
           /\ Commit!PersistTransition(Commit!Act("compensation_failed"), phase)
           /\ Commit!SetStatus(Commit!Current, "failed")
           /\ Commit!Goto(t, run[t].then)
           /\ UNCHANGED <<bound, planned, selection, graph, vault, requests, crashes, failures, selections>>
  <2>1. Downward'
    BY <1>0, <1>3, StatusMoves
  <2>2. Story' /\ phase' # "compensated"
    BY <1>3, FailedMoves DEF Commit!CompensationStarted, IInv
  <2>3. Commanded'
    BY <1>3, GotoThen, CommandedMoves DEF IInv, Commanded
  <2>4. QED
    BY <2>1, <2>2, <2>3, RecipeMoves DEF IInv
<1>4. QED
  BY <1>1, <1>2, <1>3 DEF Commit!RunDatabaseStep

LEMMA DriveKeeps == ASSUME IInv, NEW t \in Threads, Commit!Drive(t) PROVE IInv'
<1>1. run[t] \in InFlight
  BY DEF IInv, Commanded
<1>2. /\ [run[t] EXCEPT !.pc = "after_drive"] \in InFlight
      /\ [run[t] EXCEPT !.pc = "enter", !.then = "after_drive"] \in InFlight
      /\ [run[t] EXCEPT !.pc = "enter", !.then = "start"] \in InFlight
  BY <1>1, PcsAre DEF InFlight
<1> DEFINE c == IF session.state # "compensating" THEN [run[t] EXCEPT !.pc = "after_drive"]
                ELSE IF 3 \notin Commit!Present \/ steps[3].status = "completed"
                THEN [run[t] EXCEPT !.pc = "enter", !.then = "after_drive"]
                ELSE IF steps[3].status = "pending" /\ steps[3].attempts = 0
                THEN [run[t] EXCEPT !.pc = "enter", !.then = "start"]
                ELSE [run[t] EXCEPT !.pc = "after_drive"]
<1>3. c \in InFlight
  BY <1>2
<1>4. run' = [run EXCEPT ![t] = c] /\ UNCHANGED <<Commit!database, vault, Commit!counters>>
  BY DEF Commit!Drive
<1> HIDE DEF c
<1>5. QED
  BY <1>3, <1>4, CommandMoves, CommandOnly DEF IInv

LEMMA StartCredentialKeeps == ASSUME IInv, NEW t \in Threads, Commit!StartCredentialStep(t) PROVE IInv'
<1>1. CASE Commit!Finish(t) /\ UNCHANGED <<Commit!database, vault, Commit!counters>>
  BY <1>1, FinishKeeps
<1>2. CASE /\ steps[3].status = "pending" /\ Commit!CompensationStarted
           /\ steps' = [steps EXCEPT ![3] = [status |-> "in_progress", attempts |-> @.attempts + 1]]
           /\ Commit!Goto(t, "delete")
           /\ UNCHANGED <<session, bound, op, phase, planned, selection, graph, vault, Commit!counters>>
  <2>1. Downward'
    BY <1>2, NativeIsHighest, BegunMoves, RecipeIsDownward DEF IInv
  <2>2. phase' # "compensated"
    BY <1>2 DEF Commit!CompensationStarted
  <2>3. Commanded'
    BY <1>2, GotoMoves, PcsAre, CommandedMoves DEF IInv, Commanded, Commit!counters
  <2>4. QED
    BY <1>2, <2>1, <2>2, <2>3, StoryStutters, RecipeMoves DEF IInv
<1>3. QED
  BY <1>1, <1>2 DEF Commit!StartCredentialStep

LEMMA DeleteKeeps == ASSUME IInv, NEW t \in Threads, Commit!DeleteCredential(t) PROVE IInv'
<1>1. CASE vault' = Commit!None /\ Commit!Goto(t, "complete") /\ UNCHANGED <<Commit!database, Commit!counters>>
  <2>1. run' \in [Threads -> InFlight]
    BY <1>1, GotoMoves, PcsAre DEF IInv
  <2>2. UNCHANGED <<session, bound, op, phase, steps, planned, selection, graph, selections>>
    BY <1>1 DEF Commit!database, Commit!counters
  <2>3. Commanded'
    BY <1>1, <2>1, <2>2, CommandedMoves DEF IInv, Commanded, Slots
  <2>4. QED
    BY <2>2, <2>3, StoryStutters, RecipeStutters DEF IInv
<1>2. CASE \E pc \in Pcs : Commit!VaultFails(t, pc)
  BY <1>2, VaultMoves
<1>3. QED
  BY <1>1, <1>2, PcsAre DEF Commit!DeleteCredential

LEMMA CompleteKeeps == ASSUME IInv, NEW t \in Threads, Commit!CompleteCredentialStep(t) PROVE IInv'
<1>1. CASE Commit!Goto(t, "record_failure") /\ UNCHANGED <<Commit!database, vault, Commit!counters>>
  BY <1>1, GotoKeeps, PcsAre
<1>2. CASE /\ steps[3].status = "in_progress" /\ Commit!CompensationStarted
           /\ Commit!SetStatus(3, "completed")
           /\ run' = [run EXCEPT ![t].pc = "enter", ![t].then = "after_drive"]
           /\ UNCHANGED <<session, bound, op, phase, planned, selection, graph, vault, Commit!counters>>
  <2>0. Downward /\ "completed" \in Commit!Statuses \ {"absent"}
    BY RecipeIsDownward DEF IInv, Commit!Statuses
  <2>1. Downward'
    BY <1>2, <2>0, NativeIsHighest, StatusMoves
  <2>2. phase' # "compensated"
    BY <1>2 DEF Commit!CompensationStarted
  <2>3. Commanded'
    BY <1>2, ThenMoves, PcsAre, CommandedMoves DEF IInv, Commanded, Commit!counters
  <2>4. QED
    BY <1>2, <2>1, <2>2, <2>3, StoryStutters, RecipeMoves DEF IInv
<1>3. QED
  BY <1>1, <1>2 DEF Commit!CompleteCredentialStep

LEMMA RecordKeeps ==
    ASSUME IInv, NEW t \in Threads, Commit!RecordCompensationFailure(t) \/ Commit!RecordCompensationUnknown(t) PROVE IInv'
<1>0. Downward /\ {"failed", "outcome_unknown"} \subseteq Commit!Statuses \ {"absent"}
  BY RecipeIsDownward DEF IInv, Commit!Statuses
<1>1. CASE Commit!Finish(t) /\ UNCHANGED <<Commit!database, vault, Commit!counters>>
  BY <1>1, FinishKeeps
<1>2. CASE /\ steps[3].status = "in_progress" /\ Commit!CompensationStarted
           /\ Commit!PersistTransition(Commit!Act("compensation_failed"), phase)
           /\ Commit!SetStatus(3, "failed")
           /\ Commit!Goto(t, "after_drive")
           /\ UNCHANGED <<bound, planned, selection, graph, vault, Commit!counters>>
  <2>1. Downward'
    BY <1>0, <1>2, NativeIsHighest, StatusMoves
  <2>2. Story' /\ phase' # "compensated"
    BY <1>2, FailedMoves DEF Commit!CompensationStarted, IInv
  <2>3. Commanded'
    BY <1>2, GotoMoves, PcsAre, CommandedMoves DEF IInv, Commanded, Commit!counters
  <2>4. QED
    BY <2>1, <2>2, <2>3, RecipeMoves DEF IInv
<1>3. CASE /\ steps[3].status = "in_progress" /\ Commit!CompensationStarted
           /\ Commit!PersistTransition(Commit!Act("became_unknown"), "outcome_unknown")
           /\ Commit!SetStatus(3, "outcome_unknown")
           /\ Commit!Goto(t, "after_drive")
           /\ UNCHANGED <<bound, planned, selection, graph, vault, Commit!counters>>
  <2>1. Downward'
    BY <1>0, <1>3, NativeIsHighest, StatusMoves
  <2>2. Story' /\ phase' = "outcome_unknown"
    BY <1>3, LostMoves, Active DEF Commit!CompensationStarted, IInv
  <2>3. Commanded'
    BY <1>3, GotoMoves, PcsAre, CommandedMoves DEF IInv, Commanded, Commit!counters
  <2>4. QED
    BY <2>1, <2>2, <2>3, RecipeMoves DEF IInv
<1>4. QED
  BY <1>1, <1>2, <1>3 DEF Commit!RecordCompensationFailure, Commit!RecordCompensationUnknown

LEMMA CommandKeeps == ASSUME IInv, NEW t \in Threads, Commit!CommandStep(t) PROVE IInv'
  BY SettleKeeps, ReadKeeps, StoreKeeps, ConfirmKeeps, StartCommitKeeps, PublishKeeps, HandleKeeps,
     RestoreKeeps, AfterDriveKeeps, EnterKeeps, FinishCompensationKeeps, StopKeeps, StartStepKeeps,
     RunStepKeeps, DriveKeeps, StartCredentialKeeps, DeleteKeeps, CompleteKeeps, RecordKeeps
  DEF Commit!CommandStep

LEMMA NextKeeps == ASSUME IInv, [Commit!Next]_(Commit!vars) PROVE IInv'
<1>1. CASE UNCHANGED Commit!vars
  <2>1. UNCHANGED <<Commit!database, vault, Commit!counters>> /\ UNCHANGED run
    BY <1>1 DEF Commit!vars
  <2>2. QED
    BY <2>1, CommandOnly DEF IInv, Commanded
<1>2. CASE \E t \in Threads : Commit!CommandStep(t)
  BY <1>2, CommandKeeps
<1>3. CASE \E t \in Threads : \/ Commit!RequestCancel(t) \/ Commit!ContinueCommand(t) \/ Commit!ResumeCommand(t)
                              \/ \E w \in BOOLEAN : Commit!BeginCommit(t, w)
  BY <1>3, CancelKeeps, BeginKeeps, ContinueKeeps, ResumeKeeps
<1>4. CASE \/ Commit!ApproveReview \/ Commit!RestartInterruptedWork \/ Commit!ResolveNoEffect \/ Commit!RecoverCommand \/ Commit!Crash
           \/ \E r \in {"compensated", "manual"} : Commit!ResolveReconciled(r)
           \/ \E x \in Commit!Selections : Commit!SelectTarget(x)
  BY <1>4, ApproveKeeps, RestartKeeps, NoEffectKeeps, ReconciledKeeps, SelectKeeps, RecoverKeeps
<1>5. QED
  BY <1>1, <1>2, <1>3, <1>4 DEF Commit!Next

(* Every transaction and vault call of every command, the user's decisions,*)
(* recovery and crashes keep the inductive invariant.                      *)
THEOREM Invariance == Commit!Spec => []IInv
<1>1. Commit!Init => IInv
  BY InitKeeps
<1>2. IInv /\ [Commit!Next]_(Commit!vars) => IInv'
  BY NextKeeps
<1>3. QED
  BY <1>1, <1>2, PTL DEF Commit!Spec

LEMMA InvariantSays == ASSUME IInv PROVE Commit!CommitIsAccountedFor
<1>1. Commit!TypeOK
  <2>1. session.state \in Commit!States /\ session.revision \in Nat
    BY Names DEF IInv, Story, Sessions
  <2>2. op.kind \in Commit!Persistent \cup {Commit!None} /\ op.status \in {Commit!None, "prepared", "started"}
    BY Active DEF IInv, Story, Commit!NoOp
  <2>3. \A i \in 1..3 : steps[i].status \in Commit!Statuses
    BY DEF IInv, Recipe
  <2>4. \A t \in Threads : run[t].previous \in Threads \cup {Commit!None, Commit!Old}
    BY DEF IInv, Commanded, InFlight, Slots
  <2>5. QED
    BY <2>1, <2>2, <2>3, <2>4 DEF Commit!TypeOK, IInv, Story, Commanded, Slots
<1>2. Commit!EndedMeansCompensated
  BY DEF Commit!EndedMeansCompensated, IInv, Story, Recipe, Commit!LedgerMatchesSession
<1>3. QED
  BY <1>1, <1>2 DEF Commit!CommitIsAccountedFor, IInv, Story, Recipe

(* In every durable state the session, its operation, its attempt and the  *)
(* graph tell one story, the recipe has run strictly down, and a session   *)
(* that ended has nothing of its commit left in the database.              *)
THEOREM CommitAccounted == Commit!Spec => []Commit!CommitIsAccountedFor
<1>1. IInv => Commit!CommitIsAccountedFor
  BY InvariantSays
<1>2. QED
  BY <1>1, Invariance, PTL

(* Only the user's choice and the restoring of the plan's move the         *)
(* selection.                                                              *)
LEMMA SelectionMoves ==
    ASSUME [Commit!Next]_(Commit!vars)
    PROVE  selection' = selection \/ selection' = Commit!Restored \/ selections' = selections + 1
<1>1. CASE UNCHANGED Commit!vars
  BY <1>1 DEF Commit!vars, Commit!database
<1>2. CASE \/ Commit!ApproveReview \/ Commit!RestartInterruptedWork \/ Commit!ResolveNoEffect \/ Commit!RecoverCommand \/ Commit!Crash
           \/ \E r \in {"compensated", "manual"} : Commit!ResolveReconciled(r)
           \/ \E x \in Commit!Selections : Commit!SelectTarget(x)
  BY <1>2 DEF Commit!ApproveReview, Commit!RestartInterruptedWork, Commit!ResolveNoEffect, Commit!RecoverCommand, Commit!Crash,
              Commit!ResolveReconciled, Commit!SelectTarget
<1>3. CASE \E t \in Threads : \/ Commit!RequestCancel(t) \/ Commit!ContinueCommand(t) \/ Commit!ResumeCommand(t)
                              \/ \E w \in BOOLEAN : Commit!BeginCommit(t, w)
  BY <1>3 DEF Commit!RequestCancel, Commit!ContinueCommand, Commit!ResumeCommand, Commit!BeginCommit, Commit!database
<1>4. ASSUME NEW t \in Threads, Commit!CommandStep(t)
      PROVE  selection' = selection \/ selection' = Commit!Restored
  <2>1. \/ UNCHANGED selection \/ Commit!RunDatabaseStep(t)
    BY <1>4 DEF Commit!CommandStep, Commit!SettlePreparedCancellation, Commit!ReadPrevious, Commit!StoreCredential,
       Commit!ConfirmCredential, Commit!StartCommit, Commit!SettleStartedCancellation, Commit!PublishGraph, Commit!HandleCommitError,
       Commit!RestoreCredential, Commit!AfterDrive, Commit!EnterCompensation, Commit!FinishCompensation, Commit!StopAtCredential,
       Commit!StartDatabaseStep, Commit!Drive, Commit!StartCredentialStep, Commit!DeleteCredential, Commit!CompleteCredentialStep,
       Commit!RecordCompensationFailure, Commit!RecordCompensationUnknown, Commit!VaultFails, Commit!CompensationError, Commit!database
  <2>2. QED
    BY <2>1 DEF Commit!RunDatabaseStep, Commit!CompensationError, Commit!database
<1>5. QED
  BY <1>1, <1>2, <1>3, <1>4 DEF Commit!Next

(* A model the user chose after approving the review is never replaced by  *)
(* the plan's older choice (restore_discovery_provider_selection), in any  *)
(* order of selections, compensation steps and reconciliations.            *)
THEOREM ChoiceWins == Commit!Spec => Commit!NewerSelectionWins
<1>1. IInv /\ [Commit!Next]_(Commit!vars) => [selection' # selection /\ selections' = selections => selection = Commit!None]_(Commit!vars)
  <2>1. SUFFICES ASSUME IInv, [Commit!Next]_(Commit!vars), selection' # selection, selections' = selections
                 PROVE  selection = Commit!None
    OBVIOUS
  <2>2. selections' # selections + 1
    BY <2>1 DEF IInv, Commanded
  <2>3. QED
    BY <2>1, <2>2, SelectionMoves DEF Commit!Restored
<1>2. QED
  BY <1>1, Invariance, PTL DEF Commit!Spec, Commit!NewerSelectionWins

(***************************************************************************)
(* A command that commits alone: the others stay where they are.  From the *)
(* time its credential is stored until the session is ready the slot is    *)
(* filled, and it is emptied or put back only where no graph is published. *)
(***************************************************************************)
Others(f) == \A u \in Threads \ {f} : run'[u] = run[u]
Thens == {"idle", "commit_error", "drive", "after_drive", "start"}
Provided(f) ==
    /\ \A u \in Threads \ {f} : run[u].pc = "idle"
    /\ run[f].then \in Thens
    /\ bound /\ (graph \/ run[f].pc \in {"commit", "publish"}) => vault # Commit!None
    /\ run[f].pc \in {"restore", "delete"} => ~ graph

LEMMA Steady ==
    ASSUME NEW f \in Threads, Provided(f), Others(f), UNCHANGED <<bound, graph, vault>>,
           run'[f].then \in Thens, run'[f].pc \notin {"commit", "publish", "restore", "delete"}
    PROVE  Provided(f)'
  BY DEF Provided, Others

LEMMA OnlyGoes ==
    ASSUME IInv, NEW f \in Threads, NEW pc, Commit!Goto(f, pc)
    PROVE  run'[f].pc = pc /\ run'[f].then = run[f].then
  BY DEF Commit!Goto, IInv, Commanded, InFlight

LEMMA Returns ==
    ASSUME IInv, NEW f \in Threads, Commit!Finish(f) PROVE run'[f].pc = "idle" /\ run'[f].then \in Thens
  BY DEF Commit!Finish, IInv, Commanded, Commit!Idle, Thens

LEMMA GoesSteady ==
    ASSUME IInv, NEW f \in Threads, Provided(f), Others(f), UNCHANGED <<bound, graph, vault>>,
           NEW pc, Commit!Goto(f, pc), pc \notin {"commit", "publish", "restore", "delete"}
    PROVE  Provided(f)'
  BY Steady, OnlyGoes DEF Provided

LEMMA ReturnsSteady ==
    ASSUME IInv, NEW f \in Threads, Provided(f), Others(f), UNCHANGED <<bound, graph, vault>>, Commit!Finish(f)
    PROVE  Provided(f)'
  BY Steady, Returns

LEMMA FailsSteady ==
    ASSUME IInv, NEW f \in Threads, Provided(f), Others(f), NEW pc, Commit!VaultFails(f, pc),
           pc \notin {"commit", "publish", "restore", "delete"}
    PROVE  Provided(f)'
<1>1. UNCHANGED <<bound, graph, vault>>
  BY DEF Commit!VaultFails, Commit!database
<1>2. QED
  BY <1>1, GoesSteady, ReturnsSteady DEF Commit!VaultFails

LEMMA ErrorSteady ==
    ASSUME IInv, NEW f \in Threads, Provided(f), Others(f), Commit!CompensationError(f) PROVE Provided(f)'
<1>1. UNCHANGED <<bound, graph, vault>>
  BY DEF Commit!CompensationError, Commit!database
<1>2. run[f] \in InFlight /\ run'[f] \in {[run[f] EXCEPT !.pc = "commit_error"],
                                         [run[f] EXCEPT !.pc = "record_failure"], Commit!Idle}
  <2>1. run \in [Threads -> InFlight]
    BY DEF IInv, Commanded
  <2>2. run'[f] = CASE run[f].then = "commit_error" -> [run[f] EXCEPT !.pc = "commit_error"]
                    [] run[f].then = "after_drive" -> [run[f] EXCEPT !.pc = "record_failure"]
                    [] OTHER -> Commit!Idle
    BY <2>1 DEF Commit!CompensationError
  <2>3. QED
    BY <2>1, <2>2
<1>3. run'[f].pc \in {"commit_error", "record_failure", "idle"} /\ run'[f].then \in Thens
  BY <1>2 DEF InFlight, Commit!Idle, Thens, Provided
<1>4. QED
  BY <1>1, <1>3, Steady

(* Where the session is compensating or has ended, no graph is published.  *)
LEMMA NoGraph ==
    ASSUME IInv, session.state # "ready" PROVE ~ graph
  BY DEF IInv, Story, Commit!LedgerMatchesSession

LEMMA CommitSteps ==
    ASSUME IInv, NEW f \in Threads, Provided(f), Others(f), Commit!None \notin Threads,
           \/ Commit!ReadPrevious(f) \/ Commit!StoreCredential(f) \/ Commit!ConfirmCredential(f)
           \/ Commit!StartCommit(f) \/ Commit!PublishGraph(f) \/ Commit!HandleCommitError(f)
    PROVE  Provided(f)'
<1>0. run \in [Threads -> InFlight]
  BY DEF IInv, Commanded
<1>1. CASE Commit!ReadPrevious(f)
  <2>1. CASE /\ run' = [run EXCEPT ![f].pc = "store", ![f].previous = vault]
             /\ UNCHANGED <<Commit!database, vault, Commit!counters>>
    <3>1. run'[f].pc = "store" /\ run'[f].then = run[f].then
      BY <1>0, <2>1 DEF InFlight
    <3>2. QED
      BY <2>1, <3>1, Steady DEF Commit!database, Provided
  <2>2. QED
    BY <1>1, <2>1, FailsSteady DEF Commit!ReadPrevious
<1>2. CASE Commit!StoreCredential(f)
  <2>1. CASE /\ vault' = f
             /\ run' = [run EXCEPT ![f].pc = "commit", ![f].replaced = TRUE]
             /\ UNCHANGED <<Commit!database, Commit!counters>>
    <3>1. run'[f].pc = "commit" /\ run'[f].then = run[f].then
      BY <1>0, <2>1 DEF InFlight
    <3>2. QED
      BY <2>1, <3>1 DEF Commit!database, Provided, Others
  <2>2. QED
    BY <1>2, <2>1, FailsSteady DEF Commit!StoreCredential
<1>3. CASE Commit!ConfirmCredential(f)
  <2>1. CASE vault # Commit!None /\ Commit!Goto(f, "commit") /\ UNCHANGED <<Commit!database, vault, Commit!counters>>
    BY <2>1, OnlyGoes DEF Commit!database, Provided, Others
  <2>2. CASE Commit!Finish(f) /\ UNCHANGED <<Commit!database, vault, Commit!counters>>
    BY <2>2, ReturnsSteady DEF Commit!database
  <2>3. QED
    BY <1>3, <2>1, <2>2, FailsSteady DEF Commit!ConfirmCredential
<1>4. ASSUME Commit!SettleStartedCancellation(f) PROVE Provided(f)'
  <2>1. run'[f].pc = "enter" /\ run'[f].then = "commit_error" /\ UNCHANGED <<bound, graph, vault>>
    BY <1>0, <1>4 DEF Commit!SettleStartedCancellation, InFlight
  <2>2. QED
    BY <2>1, Steady DEF Thens
<1>5. CASE Commit!StartCommit(f)
  <2>1. CASE /\ run' = [run EXCEPT ![f].pc = "publish", ![f].id = op.id]
             /\ UNCHANGED <<session, bound, phase, steps, planned, selection, graph, vault, Commit!counters>>
    <3>1. run'[f].pc = "publish" /\ run'[f].then = run[f].then /\ run[f].pc = "commit"
      BY <1>0, <1>5, <2>1 DEF InFlight, Commit!StartCommit, Commit!At
    <3>2. QED
      BY <2>1, <3>1 DEF Provided, Others
  <2>2. CASE Commit!Goto(f, "commit_error") /\ UNCHANGED <<Commit!database, vault, Commit!counters>>
    BY <2>2, GoesSteady DEF Commit!database
  <2>3. QED
    BY <1>4, <1>5, <2>1, <2>2 DEF Commit!StartCommit
<1>6. CASE Commit!PublishGraph(f)
  <2>1. CASE graph' = TRUE /\ Commit!Finish(f) /\ UNCHANGED <<bound, steps, planned, selection, vault, Commit!counters>>
    <3>1. run[f].pc = "publish"
      BY <1>6 DEF Commit!PublishGraph, Commit!At
    <3>2. QED
      BY <2>1, <3>1, Returns DEF Provided, Others
  <2>2. CASE Commit!Goto(f, "commit_error") /\ UNCHANGED <<Commit!database, vault>>
    BY <2>2, GoesSteady DEF Commit!database
  <2>3. QED
    BY <1>4, <1>6, <2>1, <2>2 DEF Commit!PublishGraph
<1>7. CASE Commit!HandleCommitError(f)
  <2>1. UNCHANGED <<bound, graph, vault>>
    BY <1>7 DEF Commit!HandleCommitError, Commit!database
  <2>2. \/ Commit!Goto(f, "drive") \/ Commit!Finish(f) \/ (Commit!Goto(f, "restore") /\ session.state # "ready")
    <3>1. CASE session.state = "compensating"
      BY <1>7, <3>1 DEF Commit!HandleCommitError
    <3>2. CASE session.state \in {"ready", "unknown"}
      BY <1>7, <3>2 DEF Commit!HandleCommitError
    <3>3. CASE session.state \notin {"compensating", "ready", "unknown"}
      BY <1>7, <3>3 DEF Commit!HandleCommitError
    <3>4. QED
      BY <3>1, <3>2, <3>3
  <2>3. CASE Commit!Goto(f, "restore") /\ session.state # "ready"
    BY <2>1, <2>3, NoGraph, OnlyGoes DEF Provided, Others
  <2>4. QED
    BY <2>1, <2>2, <2>3, GoesSteady, ReturnsSteady
<1>8. QED
  BY <1>1, <1>2, <1>3, <1>5, <1>6, <1>7

LEMMA RecipeSteps ==
    ASSUME IInv, NEW f \in Threads, Provided(f), Others(f),
           \/ Commit!RestoreCredential(f) \/ Commit!AfterDrive(f) \/ Commit!EnterCompensation(f)
           \/ Commit!FinishCompensation(f) \/ Commit!StopAtCredential(f) \/ Commit!StartDatabaseStep(f) \/ Commit!RunDatabaseStep(f)
    PROVE  Provided(f)'
<1>0. run[f].then \in Thens /\ run[f].then \notin {"commit", "publish", "restore", "delete"}
  BY DEF Provided, Thens
<1>1. CASE Commit!RestoreCredential(f)
  <2>1. CASE Commit!Finish(f) /\ UNCHANGED <<Commit!database, Commit!counters>>
    <3>1. run[f].pc = "restore"
      BY <1>1 DEF Commit!RestoreCredential, Commit!At
    <3>2. QED
      BY <2>1, <3>1, Returns DEF Provided, Others, Commit!database
  <2>2. QED
    BY <1>1, <2>1, FailsSteady DEF Commit!RestoreCredential
<1>2. CASE Commit!AfterDrive(f)
  <2>1. UNCHANGED <<bound, graph, vault>>
    BY <1>2 DEF Commit!AfterDrive, Commit!database
  <2>2. CASE Commit!Goto(f, "restore") /\ session.state \in {"failed", "cancelled"}
    BY <2>1, <2>2, NoGraph, OnlyGoes DEF Provided, Others
  <2>3. QED
    BY <1>2, <2>1, <2>2, ReturnsSteady DEF Commit!AfterDrive
<1>3. CASE Commit!EnterCompensation(f)
  BY <1>3, ErrorSteady, GoesSteady DEF Commit!EnterCompensation
<1>4. CASE Commit!FinishCompensation(f)
  BY <1>0, <1>4, ErrorSteady, GoesSteady DEF Commit!FinishCompensation
<1>5. CASE Commit!StopAtCredential(f)
  BY <1>0, <1>5, ErrorSteady, GoesSteady DEF Commit!StopAtCredential, Commit!database
<1>6. CASE Commit!StartDatabaseStep(f)
  BY <1>0, <1>6, ErrorSteady, Steady DEF Commit!StartDatabaseStep, Commit!At
<1>7. CASE Commit!RunDatabaseStep(f)
  <2>1. CASE /\ Commit!CompensationStarted /\ graph' = IF Commit!Current = 2 THEN FALSE ELSE graph
             /\ UNCHANGED <<session, bound, op, phase, planned, vault, run, Commit!counters>>
    <3>1. graph' = graph
      BY <2>1, NoGraph DEF Commit!CompensationStarted, IInv, Story
    <3>2. run[f].pc = "loop"
      BY <1>7 DEF Commit!RunDatabaseStep, Commit!At
    <3>3. QED
      BY <1>0, <2>1, <3>1, <3>2, Steady
  <2>2. CASE Commit!Goto(f, run[f].then) /\ UNCHANGED <<bound, graph, vault>>
    BY <1>0, <2>2, GoesSteady
  <2>3. QED
    BY <1>7, <2>1, <2>2, ErrorSteady DEF Commit!RunDatabaseStep
<1>8. QED
  BY <1>1, <1>2, <1>3, <1>4, <1>5, <1>6, <1>7

LEMMA NativeSteps ==
    ASSUME IInv, NEW f \in Threads, Provided(f), Others(f),
           \/ Commit!SettlePreparedCancellation(f) \/ Commit!Drive(f) \/ Commit!StartCredentialStep(f)
           \/ Commit!DeleteCredential(f) \/ Commit!CompleteCredentialStep(f)
           \/ Commit!RecordCompensationFailure(f) \/ Commit!RecordCompensationUnknown(f)
    PROVE  Provided(f)'
<1>0. run \in [Threads -> InFlight]
  BY DEF IInv, Commanded
<1>1. CASE Commit!SettlePreparedCancellation(f)
  BY <1>1, ReturnsSteady DEF Commit!SettlePreparedCancellation, Commit!Finish
<1>2. CASE Commit!Drive(f)
  <2>1. run'[f] \in {[run[f] EXCEPT !.pc = "after_drive"],
                     [run[f] EXCEPT !.pc = "enter", !.then = "after_drive"],
                     [run[f] EXCEPT !.pc = "enter", !.then = "start"]}
    BY <1>0, <1>2 DEF Commit!Drive
  <2>2. run'[f].pc \in {"after_drive", "enter"} /\ run'[f].then \in Thens
    BY <1>0, <2>1 DEF InFlight, Provided, Thens
  <2>3. QED
    BY <1>2, <2>2, Steady DEF Commit!Drive, Commit!database
<1>3. CASE Commit!StartCredentialStep(f)
  <2>1. CASE Commit!CompensationStarted /\ Commit!Goto(f, "delete") /\ UNCHANGED <<bound, graph, vault>>
    BY <2>1, NoGraph, OnlyGoes DEF Provided, Others, Commit!CompensationStarted
  <2>2. CASE Commit!Finish(f) /\ UNCHANGED <<Commit!database, vault, Commit!counters>>
    BY <2>2, ReturnsSteady DEF Commit!database
  <2>3. QED
    BY <1>3, <2>1, <2>2 DEF Commit!StartCredentialStep
<1>4. CASE Commit!DeleteCredential(f)
  <2>1. CASE Commit!Goto(f, "complete") /\ UNCHANGED <<Commit!database, Commit!counters>>
    <3>1. run[f].pc = "delete"
      BY <1>4 DEF Commit!DeleteCredential, Commit!At
    <3>2. QED
      BY <2>1, <3>1, OnlyGoes DEF Provided, Others, Commit!database
  <2>2. QED
    BY <1>4, <2>1, FailsSteady DEF Commit!DeleteCredential
<1>5. CASE Commit!CompleteCredentialStep(f)
  <2>1. CASE /\ run' = [run EXCEPT ![f].pc = "enter", ![f].then = "after_drive"]
             /\ UNCHANGED <<bound, graph, vault>>
    <3>1. run'[f].pc = "enter" /\ run'[f].then \in Thens
      BY <1>0, <2>1 DEF InFlight, Thens
    <3>2. QED
      BY <2>1, <3>1, Steady
  <2>2. QED
    BY <1>5, <2>1, GoesSteady DEF Commit!CompleteCredentialStep, Commit!database
<1>6. CASE Commit!RecordCompensationFailure(f)
  BY <1>6, GoesSteady, ReturnsSteady DEF Commit!RecordCompensationFailure, Commit!database
<1>7. CASE Commit!RecordCompensationUnknown(f)
  BY <1>7, GoesSteady, ReturnsSteady DEF Commit!RecordCompensationUnknown, Commit!database
<1>8. QED
  BY <1>1, <1>2, <1>3, <1>4, <1>5, <1>6, <1>7

LEMMA BeginSteps ==
    ASSUME IInv, NEW f \in Threads, Provided(f), Others(f),
           \/ Commit!RequestCancel(f) \/ Commit!ContinueCommand(f) \/ Commit!ResumeCommand(f)
           \/ \E w \in BOOLEAN : Commit!BeginCommit(f, w)
    PROVE  Provided(f)'
<1>0. run \in [Threads -> InFlight]
  BY DEF IInv, Commanded
<1>1. CASE Commit!RequestCancel(f)
  <2>1. Commit!Goto(f, "settle") /\ UNCHANGED <<bound, graph, vault>>
    BY <1>1 DEF Commit!RequestCancel, Commit!Goto
  <2>2. QED
    BY <2>1, GoesSteady
<1>2. CASE Commit!ContinueCommand(f) \/ Commit!ResumeCommand(f)
  <2>1. run'[f].pc = "enter" /\ run'[f].then = "drive"
    BY <1>0, <1>2 DEF Commit!ContinueCommand, Commit!ResumeCommand, InFlight
  <2>2. QED
    BY <1>2, <2>1, Steady DEF Commit!ContinueCommand, Commit!ResumeCommand, Commit!database, Thens
<1>3. ASSUME NEW w \in BOOLEAN, Commit!BeginCommit(f, w) PROVE Provided(f)'
  <2>1. UNCHANGED <<bound, graph, vault>>
    BY <1>3 DEF Commit!BeginCommit, Commit!database
  <2>2. \/ Commit!Goto(f, "read") \/ Commit!Goto(f, "status") \/ (Commit!Goto(f, "commit") /\ ~ bound)
    BY <1>3 DEF Commit!BeginCommit
  <2>3. CASE Commit!Goto(f, "commit") /\ ~ bound
    BY <2>1, <2>3, OnlyGoes DEF Provided, Others
  <2>4. QED
    BY <2>1, <2>2, <2>3, GoesSteady
<1>4. QED
  BY <1>1, <1>2, <1>3

(* A command that stays where it is takes no step.                         *)
LEMMA OthersRest ==
    ASSUME IInv, NEW f \in Threads, Provided(f), Others(f), NEW t \in Threads \ {f}
    PROVE  /\ ~ Commit!CommandStep(t)
           /\ ~ (Commit!RequestCancel(t) \/ Commit!ContinueCommand(t) \/ Commit!ResumeCommand(t))
           /\ ~ \E w \in BOOLEAN : Commit!BeginCommit(t, w)
<1>1. run[t].pc = "idle" /\ run'[t].pc = "idle" /\ run \in [Threads -> InFlight]
  BY DEF Provided, Others, IInv, Commanded
<1>2. ~ Commit!CommandStep(t)
  BY <1>1 DEF Commit!CommandStep, Commit!SettlePreparedCancellation, Commit!ReadPrevious, Commit!StoreCredential,
     Commit!ConfirmCredential, Commit!StartCommit, Commit!PublishGraph, Commit!HandleCommitError, Commit!RestoreCredential,
     Commit!AfterDrive, Commit!EnterCompensation, Commit!FinishCompensation, Commit!StopAtCredential, Commit!StartDatabaseStep,
     Commit!RunDatabaseStep, Commit!Drive, Commit!StartCredentialStep, Commit!DeleteCredential, Commit!CompleteCredentialStep,
     Commit!RecordCompensationFailure, Commit!RecordCompensationUnknown, Commit!At
<1>3. \A pc : Commit!Goto(t, pc) => pc = "idle"
  BY <1>1 DEF Commit!Goto, InFlight
<1>4. ~ (Commit!RequestCancel(t) \/ Commit!ContinueCommand(t) \/ Commit!ResumeCommand(t))
  BY <1>1 DEF Commit!RequestCancel, Commit!ContinueCommand, Commit!ResumeCommand, InFlight
<1>5. ~ \E w \in BOOLEAN : Commit!BeginCommit(t, w)
  BY <1>3 DEF Commit!BeginCommit
<1>6. QED
  BY <1>2, <1>4, <1>5

LEMMA AloneKeeps ==
    ASSUME IInv, NEW f \in Threads, Provided(f), Commit!None \notin Threads, [Commit!Next]_(Commit!vars), [Others(f)]_(Commit!vars)
    PROVE  Provided(f)'
<1>1. CASE UNCHANGED Commit!vars
  BY <1>1 DEF Commit!vars, Commit!database, Provided
<1>2. CASE Commit!Next /\ Others(f)
  <2>1. CASE \/ Commit!ApproveReview \/ Commit!RestartInterruptedWork \/ Commit!ResolveNoEffect \/ Commit!RecoverCommand
             \/ \E r \in {"compensated", "manual"} : Commit!ResolveReconciled(r)
             \/ \E x \in Commit!Selections : Commit!SelectTarget(x)
    <3>1. UNCHANGED <<bound, graph, vault, run>>
      BY <2>1 DEF Commit!ApproveReview, Commit!RestartInterruptedWork, Commit!ResolveNoEffect, Commit!RecoverCommand,
                  Commit!ResolveReconciled, Commit!SelectTarget
    <3>2. QED
      BY <3>1 DEF Provided
  <2>2. CASE Commit!Crash
    <3>1. run'[f] = Commit!Idle /\ UNCHANGED <<bound, graph, vault>>
      BY <2>2 DEF Commit!Crash
    <3>2. QED
      BY <1>2, <3>1, Steady DEF Commit!Idle, Thens
  <2>3. CASE \E t \in Threads : \/ Commit!RequestCancel(t) \/ Commit!ContinueCommand(t) \/ Commit!ResumeCommand(t)
                                \/ \E w \in BOOLEAN : Commit!BeginCommit(t, w)
    BY <1>2, <2>3, OthersRest, BeginSteps
  <2>4. CASE \E t \in Threads : Commit!CommandStep(t)
    <3>1. Commit!CommandStep(f)
      BY <1>2, <2>4, OthersRest
    <3>2. QED
      BY <1>2, <3>1, CommitSteps, RecipeSteps, NativeSteps DEF Commit!CommandStep
  <2>5. QED
    BY <1>2, <2>1, <2>2, <2>3, <2>4 DEF Commit!Next
<1>3. QED
  BY <1>1, <1>2

(* A connection that became ready has the credential it needs, through all *)
(* crashes, failing vault calls and cancellations, when one command at a   *)
(* time commits (commit_provider_discovery).  Two commands can break it:   *)
(* that is what the run discovery_double shows.                            *)
THEOREM ReadyIsUsable ==
    ASSUME NEW f \in Threads, Commit!None \notin Threads
    PROVE  Commit!Spec /\ [][Others(f)]_(Commit!vars) => []Commit!ReadyHasCredential
<1>1. Commit!Init => Provided(f)
  BY DEF Commit!Init, Provided, Commit!Idle, Thens
<1>2. IInv /\ Provided(f) /\ [Commit!Next]_(Commit!vars) /\ [Others(f)]_(Commit!vars) => Provided(f)'
  BY AloneKeeps
<1>3. IInv /\ Provided(f) => Commit!ReadyHasCredential
  BY DEF IInv, Story, Commit!LedgerMatchesSession, Provided, Commit!ReadyHasCredential
<1>4. QED
  BY <1>1, <1>2, <1>3, Invariance, PTL DEF Commit!Spec

(***************************************************************************)
(* The composition that is model-checked: a behaviour of its other scopes  *)
(* is one of the commit, with every command or with the first one alone.   *)
(***************************************************************************)
Scoped ==
    /\ scope # "session" => IInv
    /\ scope = "faults" => Provided(First)

LEMMA ScopedInit == ASSUME MCInit PROVE Scoped
<1>1. CASE scope = "session"
  BY <1>1 DEF Scoped
<1>2. CASE scope # "session"
  <2>1. Commit!Init
    BY <1>2 DEF MCInit
  <2>2. Provided(First)
    BY <2>1, FirstAssumption DEF Commit!Init, Provided, Commit!Idle, Thens
  <2>3. QED
    BY <2>1, <2>2, InitKeeps DEF Scoped
<1>3. QED
  BY <1>1, <1>2

LEMMA ScopedStep ==
    ASSUME [MCNext]_<<vars, scope, ledgerOnly, counters>>, scope # "session"
    PROVE  /\ scope' = scope /\ [Commit!Next]_(Commit!vars)
           /\ scope = "faults" => [Others(First)]_(Commit!vars)
<1>1. CASE UNCHANGED <<vars, scope, ledgerOnly, counters>>
  <2>1. UNCHANGED Commit!vars
    BY <1>1 DEF vars, ledgerOnly, counters, Commit!vars, Commit!database, Commit!counters
  <2>2. QED
    BY <1>1, <2>1
<1>2. CASE MCNext
  BY <1>2 DEF MCNext, SessionNext, CommitNext, Others
<1>3. QED
  BY <1>1, <1>2

LEMMA ScopedKeeps ==
    ASSUME Scoped, [MCNext]_<<vars, scope, ledgerOnly, counters>> PROVE Scoped'
<1>1. CASE scope = "session"
  <2>1. scope' = "session"
    BY <1>1 DEF MCNext
  <2>2. QED
    BY <2>1 DEF Scoped
<1>2. CASE scope # "session"
  <2>1. /\ scope' = scope /\ [Commit!Next]_(Commit!vars) /\ IInv
        /\ scope = "faults" => [Others(First)]_(Commit!vars)
    BY <1>2, ScopedStep DEF Scoped
  <2>2. IInv'
    BY <2>1, NextKeeps
  <2>3. Commit!None \notin Threads /\ First \in Threads
    BY FirstAssumption DEF None, Commit!None
  <2>4. scope' = "faults" => Provided(First)'
    BY <2>1, <2>3, AloneKeeps DEF Scoped
  <2>5. QED
    BY <2>2, <2>4 DEF Scoped
<1>3. QED
  BY <1>1, <1>2

(* As the run states it: in every durable state of a commit the session,   *)
(* its operation, its attempt and the graph tell one story, the recipe has *)
(* run strictly down, a session that ended has nothing of its commit left  *)
(* in the database, and a connection a command made ready alone has its    *)
(* credential.                                                             *)
THEOREM CommitAccountedInScope == MCSpec => []CommitIsAccountedFor
<1>1. MCInit => Scoped
  BY ScopedInit
<1>2. Scoped /\ [MCNext]_<<vars, scope, ledgerOnly, counters>> => Scoped'
  BY ScopedKeeps
<1>3. Scoped => CommitIsAccountedFor
  <2>1. SUFFICES ASSUME Scoped PROVE CommitIsAccountedFor
    OBVIOUS
  <2>2. scope # "session" => Commit!CommitIsAccountedFor
    BY <2>1, InvariantSays DEF Scoped
  <2>3. scope = "faults" => Commit!ReadyHasCredential
    BY <2>1 DEF Scoped, IInv, Story, Commit!LedgerMatchesSession, Provided, Commit!ReadyHasCredential
  <2>4. QED
    BY <2>2, <2>3 DEF CommitIsAccountedFor
<1>4. QED
  BY <1>1, <1>2, <1>3, PTL DEF MCSpec

(* As the run states it: no step of a commit replaces a model the user     *)
(* chose by the plan's older choice.                                       *)
THEOREM ChoiceWinsInScope == MCSpec => NewerSelectionWins
<1> DEFINE Newer == selection' # selection /\ selections' = selections => selection = Commit!None
<1>1. MCInit => Scoped
  BY ScopedInit
<1>2. Scoped /\ [MCNext]_<<vars, scope, ledgerOnly, counters>> => Scoped'
  BY ScopedKeeps
<1>3. Scoped /\ [MCNext]_<<vars, scope, ledgerOnly, counters>> => [Newer]_(Commit!vars)
  <2>1. SUFFICES ASSUME Scoped, [MCNext]_<<vars, scope, ledgerOnly, counters>>,
                        selection' # selection, selections' = selections
                 PROVE  selection = Commit!None
    OBVIOUS
  <2>2. scope # "session"
    BY <2>1 DEF MCNext, SessionNext, CommitNext, ledgerOnly
  <2>3. selections' # selections + 1
    BY <2>1, <2>2 DEF Scoped, IInv, Commanded
  <2>4. [Commit!Next]_(Commit!vars)
    BY <2>1, <2>2, ScopedStep
  <2>5. QED
    BY <2>1, <2>3, <2>4, SelectionMoves DEF Commit!Restored
<1>4. QED
  BY <1>1, <1>2, <1>3, PTL DEF MCSpec, NewerSelectionWins, Commit!NewerSelectionWins
=============================================================================
