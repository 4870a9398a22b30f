----------------------- MODULE DiscoverySessionProofs -----------------------
(***************************************************************************)
(* A discovery session and the setup assistant in its draft, for every     *)
(* number of callers, documents and sites and for every limit of the       *)
(* assistant: the session, its operation row, the callers and the snapshot *)
(* in the draft always fit together.  The assistant is an instance of      *)
(* SetupAssistant on the session's variables, so what its operations keep  *)
(* is stated here over that instance.                                      *)
(***************************************************************************)
EXTENDS MCDiscovery, TLAPS

(* A stored session; its revision is not counted before the commit.        *)
Sessions == [state : States, revision : {0}, cancelling : BOOLEAN, failure : BOOLEAN,
             recovery : Operations \cup {None}, unknown : Operations \cup {None},
             approval : BOOLEAN, manifest : Manifests \cup {None},
             attempt : BOOLEAN, connection : BOOLEAN]

(* The state a session is in or, when it was interrupted, comes back to.   *)
Where == IF session.state = "interrupted" THEN session.recovery
         ELSE IF session.state = "unknown" THEN session.unknown ELSE session.state

(* The session is valid, and its operation row is that of its state: it    *)
(* was begun at most once, and not before it was started.                  *)
Runs ==
    /\ session \in Sessions /\ SessionValid(session)
    /\ op \in [kind : Operations, status : {"prepared", "started"}] \cup {NoOp}
    /\ session.state \in Operations => op.kind = session.state
    /\ session.state \notin Operations => op = NoOp
    /\ Where \notin Persistent
    /\ begun \in Nat /\ begun <= 1
    /\ op.status = "prepared" => begun = 0

(* The actions of a waiting session, the results of a running operation,   *)
(* and the ones that are no rows of the transition table.                  *)
WaitingKinds == {"begin", "select_template", "continue_without_template", "approve_origin",
                 "approve_probes", "skip_probes", "request_assistant", "approve_assistant",
                 "decline_assistant", "supply_evidence"}
CompletingKinds == {"no_candidates", "candidates", "documents_fetched", "draft_built", "validated",
                    "validated_needs_origin", "models_listed", "probe_candidates",
                    "probes_completed", "deterministic_available", "assistant_resumed",
                    "assistant_recommended", "more_evidence_required", "requested_evidence"}

OtherKinds == {"cancel", "interrupt", "fail", "commit_succeeded", "commit_failed_before_apply",
               "compensation_required", "compensation_failed", "resume_compensation",
               "compensation_succeeded", "became_unknown", "restart_interrupted",
               "resolve_unknown"}

LEMMA Determined == \A p, q \in Steps : p[1] = q[1] /\ p[2] = q[2] => p[3] = q[3]
  BY DEF Steps

LEMMA RowsAreTriples == \A p \in Steps : p = <<p[1], p[2], p[3]>>
  BY DEF Steps

LEMMA Kinds == \A k \in WaitingKinds \cup CompletingKinds \cup {"checkpointed"} : k \in StepKinds
<1>1. StepKinds = {t[2] : t \in Steps}
  BY DEF StepKinds
<1>2. QED
  BY <1>1 DEF WaitingKinds, CompletingKinds, Steps

LEMMA RowKinds ==
    ASSUME NEW x, NEW k, NEW y, <<x, k, y>> \in Steps
    PROVE  /\ x \in States /\ y \in States \ (Terminal \cup {"interrupted", "unknown"})
           /\ k \in WaitingKinds => x \in {"draft"} \cup Waiting /\ y \notin Persistent
           /\ k \in CompletingKinds => x \in Operations \ Persistent /\ y \notin Persistent
           /\ k = "checkpointed" => x = "building_assistant" /\ y = "building_assistant"
           /\ k \notin {"cancel", "interrupt", "fail"}
  BY DEF Steps, States, Operations, ReadOnly, Deterministic, Billable, Persistent, Waiting, Terminal, WaitingKinds, CompletingKinds

LEMMA TargetRow ==
    ASSUME NEW s, NEW k, InTable(s, k) PROVE <<s.state, k, Target(s, k)>> \in Steps
<1> DEFINE P(t) == t \in Steps /\ t[1] = s.state /\ t[2] = k
<1> DEFINE r == CHOOSE t \in Steps : t[1] = s.state /\ t[2] = k
<1>1. r \in Steps /\ r[1] = s.state /\ r[2] = k
  BY DEF InTable
<1>2. Target(s, k) = r[3]
  BY DEF Target
<1> HIDE DEF r
<1>3. QED
  BY <1>1, <1>2, RowsAreTriples

(***************************************************************************)
(* What persisting each kind of action does to the session.                *)
(***************************************************************************)
LEMMA PersistRow ==
    ASSUME Runs, NEW a, NEW outcome, Persist(a, outcome), a.manifest \in Manifests \cup {None},
           \/ a.kind \in WaitingKinds /\ outcome = None
           \/ a.kind \in CompletingKinds /\ outcome = "succeeded"
    PROVE  /\ Runs'
           /\ Where = session.state /\ Where' = session'.state
           /\ \E y \in States : /\ <<session.state, a.kind, y>> \in Steps
                                /\ \/ session'.state = y
                                   \/ session'.state = "cancelled" /\ session.cancelling
                                /\ session.state \notin Operations => session'.state = y
<1> DEFINE result == Apply(session, a)
           to == Target(session, a.kind)
<1>0. session \in Sessions /\ Where \notin Persistent
  BY DEF Runs
<1>1. a.kind \in StepKinds /\ a.kind \notin OtherKinds \cup {"checkpointed"}
  BY Kinds DEF WaitingKinds, CompletingKinds, OtherKinds
<1>2. result.ok /\ SessionValid(result.next)
  BY DEF Persist, Persistable, Accepted
<1>3. /\ session' = [result.next EXCEPT !.revision = 0]
      /\ op' = IF result.effect \in Operations THEN [kind |-> result.effect, status |-> "prepared"]
               ELSE IF outcome = None THEN op ELSE NoOp
      /\ begun' = IF result.effect \in Operations \/ outcome # None THEN 0 ELSE begun
  BY DEF Persist
<1>4. /\ session.cancelling /\ session.state \in Operations \ Persistent =>
           result = IF Completes(session, a.kind)
                    THEN To([Cleared(session) EXCEPT !.state = "cancelled", !.cancelling = FALSE], None)
                    ELSE Refused
      /\ ~ (session.cancelling /\ session.state \in Operations \ Persistent) =>
           result = TableStep(session, a)
  BY <1>1 DEF Apply, OtherKinds
<1> HIDE DEF result
<1>5. InTable(session, a.kind)
  BY <1>2, <1>4 DEF Completes, TableStep, Refused
<1>6. <<session.state, a.kind, to>> \in Steps
  BY <1>5, TargetRow
<1>7. /\ to \in States \ (Terminal \cup {"interrupted", "unknown"}) /\ to \notin Persistent
      /\ a.kind \in WaitingKinds => session.state \in {"draft"} \cup Waiting
      /\ a.kind \in CompletingKinds => session.state \in Operations \ Persistent
  BY <1>6, RowKinds
<1>8. session.state \notin {"interrupted", "unknown"} /\ Where = session.state
  BY <1>7 DEF Where, Waiting, Operations, ReadOnly, Deterministic, Billable, Persistent
<1>9. session.recovery = None /\ session.unknown = None
  BY <1>0, <1>8 DEF Runs, SessionValid
<1>10. None \notin Operations /\ "cancelled" \notin Operations \cup {"interrupted", "unknown"}
       /\ "cancelled" \in States
  BY DEF Operations, ReadOnly, Deterministic, Billable, Persistent, None, States, Terminal
<1>11. op \in [kind : Operations, status : {"prepared", "started"}] \cup {NoOp} /\ begun \in Nat /\ begun <= 1
       /\ NoOp.status = None /\ None # "prepared" /\ (op.status = "prepared" => begun = 0)
       /\ (session.state \notin Operations => op = NoOp)
  BY DEF Runs, NoOp, None
<1>12. CASE session.cancelling /\ session.state \in Operations \ Persistent
  <2>1. result = To([Cleared(session) EXCEPT !.state = "cancelled", !.cancelling = FALSE], None)
    BY <1>2, <1>4, <1>12 DEF Refused
  <2>2. /\ session' \in Sessions /\ session'.state = "cancelled"
        /\ session'.recovery = None /\ session'.unknown = None
        /\ SessionValid(session')
    BY <1>0, <1>2, <1>3, <1>10, <2>1 DEF Sessions, To, Cleared, SessionValid
  <2>3. result.effect = None
    BY <2>1 DEF To
  <2>4. outcome = "succeeded"
    BY <1>7, <1>12 DEF WaitingKinds, CompletingKinds, Waiting, Operations, ReadOnly, Deterministic, Billable, Persistent
  <2>5. op' = NoOp /\ begun' = 0
    BY <1>3, <1>10, <2>3, <2>4 DEF None
  <2>6. Where' = "cancelled" /\ "cancelled" \notin Persistent
    BY <2>2, <1>10 DEF Where, Persistent
  <2>7. Runs'
    BY <2>2, <2>5, <2>6, <1>10, <1>11 DEF Runs
  <2>8. QED
    BY <1>6, <1>7, <1>8, <1>12, <2>2, <2>6, <2>7
<1>13. CASE ~ (session.cancelling /\ session.state \in Operations \ Persistent)
  <2> DEFINE started == IF to \in Operations /\ a.kind # "checkpointed" THEN to ELSE None
             next == [session EXCEPT !.state = to,
                          !.approval = to \in Billable,
                          !.manifest = IF NamesManifest(a.kind) THEN a.manifest ELSE @,
                          !.attempt = @ \/ a.kind = "approve_review"]
  <2>1. result = To(next, started)
    <3>1. TableStep(session, a) = Refused \/ TableStep(session, a) = To(next, started)
      BY <1>5 DEF TableStep
    <3>2. QED
      BY <1>2, <1>4, <1>13, <3>1 DEF Refused
  <2> HIDE DEF to, result
  <2>2. /\ session' \in Sessions /\ session'.state = to
        /\ session'.recovery = None /\ session'.unknown = None
    <3> DEFINE b == to \in Billable
               c == session.attempt \/ a.kind = "approve_review"
               m == IF NamesManifest(a.kind) THEN a.manifest ELSE session.manifest
    <3>1. b \in BOOLEAN /\ c \in BOOLEAN /\ m \in Manifests \cup {None}
      BY <1>0 DEF Sessions
    <3>2. result = To([session EXCEPT !.state = to, !.approval = b, !.manifest = m, !.attempt = c], started)
      BY <2>1
    <3> HIDE DEF b, c, m, started
    <3>3. QED
      BY <1>0, <1>3, <1>7, <1>9, <3>1, <3>2 DEF Sessions, To
  <2>3. SessionValid(session')
    BY <1>0, <1>2, <1>3, <1>7, <2>1 DEF Sessions, To, SessionValid
  <2>4. result.effect = started
    BY <2>1 DEF To
  <2>5. /\ to \in Operations => op' = [kind |-> to, status |-> "prepared"] /\ begun' = 0
        /\ to \notin Operations => op' = NoOp /\ begun' \in {0, begun}
    BY <1>1, <1>3, <1>7, <1>10, <1>11, <2>4 DEF None, OtherKinds, WaitingKinds, CompletingKinds, Waiting, Operations, ReadOnly, Deterministic, Billable, Persistent
  <2>6. Where' = to
    BY <2>2, <1>7 DEF Where
  <2>7. Runs'
    BY <2>2, <2>3, <2>5, <2>6, <1>7, <1>11 DEF Runs
  <2>8. QED
    <3>1. to \in States
      BY <1>7
    <3>2. QED
      BY <1>6, <1>8, <2>2, <2>6, <2>7, <3>1
<1>14. QED
  BY <1>12, <1>13

(* A command of the user moves a waiting session along its row, and the    *)
(* result of an operation moves a running one, unless it is cancelled.     *)
LEMMA CommandMoves ==
    ASSUME Runs, NEW k \in WaitingKinds, Persist(Act(k), None)
    PROVE  /\ Runs' /\ Where = session.state /\ Where' = session'.state
           /\ session.state \notin Operations
           /\ <<session.state, k, session'.state>> \in Steps
<1> DEFINE a == Act(k)
<1>1. a.kind = k /\ a.manifest = None
  BY DEF Act
<1> HIDE DEF a
<1>2. /\ Runs' /\ Where = session.state /\ Where' = session'.state
      /\ \E y \in States : /\ <<session.state, k, y>> \in Steps
                           /\ session.state \notin Operations => session'.state = y
  BY <1>1, PersistRow DEF a
<1>3. PICK y \in States : /\ <<session.state, k, y>> \in Steps
                          /\ session.state \notin Operations => session'.state = y
  BY <1>2
<1>4. session.state \notin Operations
  BY <1>3, RowKinds DEF Operations, ReadOnly, Deterministic, Billable, Persistent, Waiting
<1>5. QED
  BY <1>2, <1>3, <1>4

LEMMA ResultMoves ==
    ASSUME Runs, NEW k \in CompletingKinds, NEW m \in Manifests \cup {None},
           Persist([kind |-> k, manifest |-> m], "succeeded")
    PROVE  /\ Runs' /\ Where = session.state /\ Where' = session'.state
           /\ session.state \in Operations
           /\ \/ <<session.state, k, session'.state>> \in Steps
              \/ session'.state = "cancelled" /\ \E y : <<session.state, k, y>> \in Steps
<1> DEFINE a == [kind |-> k, manifest |-> m]
<1>1. a.kind = k /\ a.manifest = m
  OBVIOUS
<1> HIDE DEF a
<1>2. /\ Runs' /\ Where = session.state /\ Where' = session'.state
      /\ \E y \in States : /\ <<session.state, k, y>> \in Steps
                           /\ session'.state = y \/ session'.state = "cancelled"
  BY <1>1, PersistRow DEF a
<1>3. PICK y \in States : /\ <<session.state, k, y>> \in Steps
                          /\ session'.state = y \/ session'.state = "cancelled"
  BY <1>2
<1>4. session.state \in Operations
  BY <1>3, RowKinds
<1>5. QED
  BY <1>2, <1>3, <1>4

LEMMA Names ==
    /\ None \notin Operations
    /\ {"cancelled", "failed", "interrupted", "unknown", "draft", "awaiting_evidence"} \cap Operations = {}
    /\ {"cancelled", "failed", "interrupted", "unknown"} \subseteq States
    /\ Operations \subseteq States
    /\ Terminal \cap Operations = {} /\ Persistent \subseteq Operations
    /\ "interrupted" \notin Terminal /\ "unknown" \notin Terminal
    /\ NoOp.status = None /\ NoOp.kind = None /\ None # "prepared" /\ None # "started"
  BY DEF States, Operations, ReadOnly, Deterministic, Billable, Persistent, Waiting, Terminal, None, NoOp

LEMMA Persisted ==
    ASSUME NEW a, NEW outcome, Persist(a, outcome)
    PROVE  /\ Apply(session, a).ok /\ SessionValid(Apply(session, a).next) /\ Completable(outcome)
           /\ session' = [Apply(session, a).next EXCEPT !.revision = 0]
           /\ op' = IF Apply(session, a).effect \in Operations
                    THEN [kind |-> Apply(session, a).effect, status |-> "prepared"]
                    ELSE IF outcome = None THEN op ELSE NoOp
           /\ begun' = IF Apply(session, a).effect \in Operations \/ outcome # None THEN 0 ELSE begun
  BY DEF Persist, Persistable, Accepted

LEMMA PersistCheckpoint ==
    ASSUME Runs, Persist(Act("checkpointed"), None)
    PROVE  /\ Runs'
           /\ session.state = "building_assistant" /\ session'.state = session.state
           /\ ~ session.cancelling /\ session'.cancelling = session.cancelling
           /\ op' = op /\ begun' = begun /\ Where' = Where
<1> DEFINE a == Act("checkpointed")
           result == Apply(session, a)
           b == "building_assistant" \in Billable
           m == IF NamesManifest(a.kind) THEN a.manifest ELSE session.manifest
           c == session.attempt \/ a.kind = "approve_review"
           next == [session EXCEPT !.state = "building_assistant", !.approval = b,
                                   !.manifest = m, !.attempt = c]
<1>0. session \in Sessions /\ Where \notin Persistent
  BY DEF Runs
<1>1. a.kind = "checkpointed" /\ a.kind \in StepKinds /\ a.kind \notin OtherKinds
  BY Kinds DEF OtherKinds, Act
<1>2. result.ok
  BY Persisted
<1>3. /\ session.cancelling /\ session.state \in Operations \ Persistent => result = Refused
      /\ ~ (session.cancelling /\ session.state \in Operations \ Persistent) =>
           result = TableStep(session, a)
  BY <1>1 DEF Apply, OtherKinds, Completes
<1>4. result = TableStep(session, a) /\ ~ (session.cancelling /\ session.state \in Operations \ Persistent)
  BY <1>2, <1>3 DEF Refused
<1>5. InTable(session, "checkpointed")
  BY <1>1, <1>2, <1>4 DEF TableStep, Refused
<1>6. session.state = "building_assistant" /\ Target(session, "checkpointed") = "building_assistant"
  BY <1>5, TargetRow, RowKinds
<1>7. "building_assistant" \in Operations \ Persistent /\ "building_assistant" \in Billable
  BY DEF Operations, ReadOnly, Deterministic, Billable, Persistent, Waiting, Terminal, None
<1>8. ~ session.cancelling
  BY <1>4, <1>6, <1>7
<1>9. result = To(next, None)
  BY <1>1, <1>4, <1>5, <1>6 DEF TableStep, NamesManifest
<1>9a. b \in BOOLEAN /\ c \in BOOLEAN /\ m \in Manifests \cup {None}
  BY <1>0, <1>1 DEF Sessions, NamesManifest
<1> HIDE DEF result, a, b, m, c
<1>10. session' = [result.next EXCEPT !.revision = 0] /\ SessionValid(result.next)
       /\ result.effect = None
  BY <1>9, Persisted DEF To, a, result
<1>11. session' \in Sessions /\ session'.state = session.state /\ session'.cancelling = session.cancelling
       /\ session'.recovery = session.recovery /\ session'.unknown = session.unknown
  BY <1>0, <1>6, <1>7, <1>9, <1>10, <1>9a DEF Sessions, To
<1>12. SessionValid(session')
  BY <1>0, <1>9, <1>10, <1>9a DEF Sessions, To, SessionValid
<1>13. op' = op /\ begun' = begun
  BY <1>10, Persisted, Names DEF a, result
<1>14. Where' = Where
  BY <1>11 DEF Where
<1>15. QED
  BY <1>0, <1>6, <1>8, <1>11, <1>12, <1>13, <1>14 DEF Runs

LEMMA PersistCancel ==
    ASSUME Runs, Persist(Act("cancel"), None)
    PROVE  /\ Runs'
           /\ op' = op /\ begun' = begun
           /\ session'.state # "cancelled" =>
                /\ session'.state = session.state /\ session.state \in Operations
                /\ session'.cancelling /\ Where' = Where
           /\ session'.state = "cancelled" => session.state \notin Operations /\ Where' = "cancelled"
<1> DEFINE a == Act("cancel")
           result == Apply(session, a)
<1>0. session \in Sessions /\ Where \notin Persistent
  BY DEF Runs
<1>1. result = Cancel(session)
  BY DEF Apply, Act
<1>2. result.ok
  BY Persisted
<1>3. session.state \notin Persistent
  BY <1>0, Names DEF Where, Persistent, None
<1>4. \/ /\ session.state \in Operations
         /\ result = To([session EXCEPT !.cancelling = TRUE],
                        IF session.cancelling THEN None ELSE "cancel")
      \/ /\ session.state \notin Operations
         /\ result = To([Cleared(session) EXCEPT !.state = "cancelled"], None)
  BY <1>1, <1>2, <1>3, Names DEF Cancel, Refused, Persistent
<1>5. result.effect \notin Operations
  BY <1>4 DEF To, Operations, ReadOnly, Deterministic, Billable, Persistent, Waiting, Terminal, None
<1> HIDE DEF result, a
<1>6. session' = [result.next EXCEPT !.revision = 0] /\ SessionValid(result.next)
      /\ op' = op /\ begun' = begun
  BY <1>5, Persisted DEF a, result
<1>7. CASE session.state \in Operations
  <2>1. result.next = [[session EXCEPT !.cancelling = TRUE] EXCEPT !.revision = @ + 1]
    BY <1>4, <1>7 DEF To
  <2>2. session' \in Sessions /\ session'.state = session.state /\ session'.cancelling
        /\ session'.recovery = session.recovery /\ session'.unknown = session.unknown
    BY <1>0, <1>6, <2>1 DEF Sessions
  <2>3. SessionValid(session')
    BY <1>0, <1>6, <2>1 DEF Sessions, SessionValid
  <2>4. Where' = Where
    BY <2>2 DEF Where
  <2>5. QED
    BY <1>6, <1>7, <2>2, <2>3, <2>4, Names DEF Runs
<1>8. CASE session.state \notin Operations
  <2>1. result.next = [[Cleared(session) EXCEPT !.state = "cancelled"] EXCEPT !.revision = @ + 1]
    BY <1>4, <1>8 DEF To
  <2>2. session' \in Sessions /\ session'.state = "cancelled"
        /\ session'.recovery = None /\ session'.unknown = None
    BY <1>0, <1>6, <2>1, Names DEF Sessions, Cleared
  <2>3. SessionValid(session')
    BY <1>0, <1>6, <2>1 DEF Sessions, SessionValid, Cleared
  <2>4. Where' = "cancelled" /\ "cancelled" \notin Persistent
    BY <2>2, Names DEF Where
  <2>5. QED
    BY <1>6, <1>8, <2>2, <2>3, <2>4, Names DEF Runs
<1>9. QED
  BY <1>7, <1>8

LEMMA PersistInterrupt ==
    ASSUME Runs, NEW known \in BOOLEAN, NEW outcome,
           outcome = IF known THEN "interrupted" ELSE "unknown",
           Persist(Interrupted(known), outcome)
    PROVE  /\ Runs' /\ op' = NoOp
           /\ session.state \in Operations /\ Where = session.state
           /\ Completable(outcome)
           /\ \/ session'.state = outcome /\ Where' = Where
              \/ session'.state = "cancelled" /\ Where' = "cancelled" /\ known
<1> DEFINE a == Interrupted(known)
           result == Apply(session, a)
<1>0. session \in Sessions /\ Where \notin Persistent
  BY DEF Runs
<1>1. result = Interrupt(session, known)
  BY DEF Apply, Interrupted
<1>2. result.ok
  BY Persisted
<1>3. session.state \in Operations /\ session.state \notin {"interrupted", "unknown"}
  BY <1>1, <1>2, Names DEF Interrupt, Refused
<1>4. Where = session.state /\ session.state \notin Persistent
  BY <1>0, <1>3 DEF Where
<1>5. session.recovery = None /\ session.unknown = None
  BY <1>0, <1>3 DEF Runs, SessionValid
<1>6. result = IF known THEN To(NoEffect(session, session.state), None)
               ELSE To([session EXCEPT !.state = "unknown", !.recovery = None, !.unknown = session.state], None)
  BY <1>1, <1>3, <1>4 DEF Interrupt, Persistent
<1> HIDE DEF result, a
<1>7. session' = [result.next EXCEPT !.revision = 0] /\ SessionValid(result.next) /\ Completable(outcome)
      /\ (result.effect \notin Operations => op' = NoOp /\ begun' = 0)
  BY Persisted DEF a, result, None
<1>8. result.effect = None
  BY <1>6 DEF To
<1>9. op' = NoOp /\ begun' = 0
  BY <1>7, <1>8, Names
<1> DEFINE stopped == [session EXCEPT !.state = "interrupted", !.recovery = session.state, !.unknown = None]
           ended == [Cleared(session) EXCEPT !.state = "cancelled", !.cancelling = FALSE]
           lost == [session EXCEPT !.state = "unknown", !.recovery = None, !.unknown = session.state]
<1>10. \/ known /\ result = To(stopped, None)
       \/ known /\ result = To(ended, None)
       \/ ~ known /\ result = To(lost, None)
  BY <1>4, <1>6 DEF NoEffect
<1>11. CASE known /\ result = To(stopped, None)
  <2>1. session' \in Sessions /\ session'.state = "interrupted" /\ session'.recovery = session.state
    BY <1>0, <1>3, <1>7, <1>11, Names DEF Sessions, To
  <2>2. SessionValid(session')
    BY <1>0, <1>3, <1>7, <1>11, Names DEF Sessions, To, SessionValid
  <2>3. Where' = Where
    BY <1>4, <2>1 DEF Where
  <2>4. QED
    BY <1>0, <1>3, <1>4, <1>7, <1>9, <1>11, <2>1, <2>2, <2>3, Names DEF Runs
<1>12. CASE known /\ result = To(ended, None)
  <2>1. session' \in Sessions /\ session'.state = "cancelled"
    BY <1>0, <1>3, <1>7, <1>12, Names DEF Sessions, To, Cleared
  <2>2. SessionValid(session')
    BY <1>0, <1>3, <1>7, <1>12, Names DEF Sessions, To, SessionValid, Cleared
  <2>3. Where' = "cancelled"
    BY <1>4, <2>1 DEF Where
  <2>4. QED
    BY <1>0, <1>3, <1>4, <1>7, <1>9, <1>12, <2>1, <2>2, <2>3, Names DEF Runs
<1>13. CASE ~ known /\ result = To(lost, None)
  <2>1. session' \in Sessions /\ session'.state = "unknown" /\ session'.unknown = session.state
    BY <1>0, <1>3, <1>7, <1>13, Names DEF Sessions, To
  <2>2. SessionValid(session')
    BY <1>0, <1>3, <1>7, <1>13, Names DEF Sessions, To, SessionValid
  <2>3. Where' = Where
    BY <1>4, <2>1 DEF Where
  <2>4. QED
    BY <1>0, <1>3, <1>4, <1>7, <1>9, <1>13, <2>1, <2>2, <2>3, Names DEF Runs
<1>14. QED
  BY <1>10, <1>11, <1>12, <1>13

LEMMA PersistFail ==
    ASSUME Runs, Persist(Act("fail"), "failed")
    PROVE  /\ Runs' /\ op' = NoOp /\ session.state \in Operations
           /\ session'.state \in {"failed", "cancelled"} /\ Where' = session'.state
<1> DEFINE a == Act("fail")
           result == Apply(session, a)
           next == [Cleared(session) EXCEPT !.state = Ended(session), !.failure = TRUE, !.cancelling = FALSE]
<1>0. session \in Sessions /\ Where \notin Persistent
  BY DEF Runs
<1>1. result = Fail(session)
  BY DEF Apply, Act
<1>2. result.ok /\ Completable("failed")
  BY Persisted
<1>3. result = To(next, None)
  BY <1>1, <1>2 DEF Fail, Refused
<1>4. op.status = "started"
  BY <1>2 DEF Completable, None
<1>5. session.state \in Operations
  BY <1>4, Names DEF Runs
<1> HIDE DEF result, a
<1>6. session' = [result.next EXCEPT !.revision = 0] /\ SessionValid(result.next)
      /\ (result.effect \notin Operations => op' = NoOp /\ begun' = 0)
  BY Persisted DEF a, result, None
<1>7. result.effect = None
  BY <1>3 DEF To
<1>8. op' = NoOp /\ begun' = 0
  BY <1>6, <1>7, Names
<1>9. Ended(session) \in {"failed", "cancelled"}
  BY DEF Ended
<1>10. session' \in Sessions /\ session'.state = Ended(session)
  BY <1>0, <1>3, <1>6, <1>9, Names DEF Sessions, To, Cleared
<1>11. SessionValid(session')
  BY <1>0, <1>3, <1>6, <1>9, Names DEF Sessions, To, SessionValid, Cleared
<1>12. Where' = session'.state
  BY <1>9, <1>10 DEF Where
<1>13. QED
  BY <1>5, <1>8, <1>9, <1>10, <1>11, <1>12, Names DEF Runs

LEMMA PersistRestart ==
    ASSUME Runs, Persist(Act("restart_interrupted"), None)
    PROVE  /\ Runs' /\ session.state = "interrupted"
           /\ session'.state = session.recovery /\ Where' = Where
           /\ op'.status = "prepared"
<1> DEFINE a == Act("restart_interrupted")
           result == Apply(session, a)
           next == [session EXCEPT !.state = session.recovery, !.recovery = None]
<1>0. session \in Sessions /\ Where \notin Persistent
  BY DEF Runs
<1>1. a.kind = "restart_interrupted" /\ a.kind \notin StepKinds
  <2>1. \A t \in Steps : t[2] # "restart_interrupted"
    BY DEF Steps
  <2>2. QED
    BY <2>1 DEF Act, StepKinds
<1>2. result.ok
  BY Persisted
<1>3. \/ result = Refused
      \/ result = RestartInterrupted(session)
      \/ /\ session.cancelling /\ session.state \in Operations \ Persistent
         /\ Completes(session, a.kind)
  BY <1>1 DEF Apply
<1>4. ~ Completes(session, a.kind)
  BY <1>1 DEF Completes, InTable, StepKinds
<1>5. result = To(next, session.recovery) /\ session.state = "interrupted"
  BY <1>2, <1>3, <1>4 DEF RestartInterrupted, Refused
<1>6. session.recovery \in Operations /\ Where = session.recovery
  BY <1>0, <1>5, Names DEF Runs, SessionValid, Where, Sessions
<1>7. session.unknown = None
  BY <1>5 DEF Runs, SessionValid
<1> HIDE DEF result, a
<1>8. session' = [result.next EXCEPT !.revision = 0] /\ SessionValid(result.next)
      /\ (result.effect \in Operations => op' = [kind |-> result.effect, status |-> "prepared"] /\ begun' = 0)
  BY Persisted DEF a, result
<1>9. result.effect = session.recovery
  BY <1>5 DEF To
<1>10. session' \in Sessions /\ session'.state = session.recovery
  BY <1>0, <1>5, <1>6, <1>8, Names DEF Sessions, To
<1>11. SessionValid(session')
  BY <1>0, <1>5, <1>8, Names DEF Sessions, To, SessionValid
<1>12. Where' = session'.state
  BY <1>6, <1>10, Names DEF Where
<1>13. QED
  BY <1>0, <1>5, <1>6, <1>8, <1>9, <1>10, <1>11, <1>12, Names DEF Runs

LEMMA PersistResolve ==
    ASSUME Runs, NEW r \in {"no_effect", "manual"},
           Persist([kind |-> "resolve_unknown", manifest |-> None, resolution |-> r], None)
    PROVE  /\ Runs' /\ session.state = "unknown"
           /\ \/ session'.state = "interrupted" /\ Where' = Where
              \/ session'.state \in {"failed", "cancelled"} /\ Where' = session'.state
<1> DEFINE a == [kind |-> "resolve_unknown", manifest |-> None, resolution |-> r]
           result == Apply(session, a)
<1>0. session \in Sessions /\ Where \notin Persistent
  BY DEF Runs
<1>1. a.kind = "resolve_unknown" /\ a.resolution = r /\ a.kind \notin StepKinds
  <2>1. \A t \in Steps : t[2] # "resolve_unknown"
    BY DEF Steps
  <2>2. QED
    BY <2>1 DEF StepKinds
<1>2. result.ok
  BY Persisted
<1>3. ~ Completes(session, a.kind)
  BY <1>1 DEF Completes, InTable, StepKinds
<1>4. result = Refused \/ result = ResolveUnknown(session, r)
  BY <1>1, <1>3 DEF Apply
<1>5. result = ResolveUnknown(session, r) /\ session.state = "unknown"
  BY <1>2, <1>4 DEF ResolveUnknown, Refused
<1>6. session.unknown \in Operations /\ session.recovery = None /\ Where = session.unknown
      /\ session.unknown \notin Persistent
  BY <1>0, <1>5, Names DEF Runs, SessionValid, Where, Sessions
<1> DEFINE stopped == [session EXCEPT !.state = "interrupted", !.recovery = session.unknown, !.unknown = None]
           ended == [session EXCEPT !.state = "cancelled", !.recovery = None, !.unknown = None, !.cancelling = FALSE]
           over == [Cleared(session) EXCEPT !.state = Ended(session), !.cancelling = FALSE]
<1>7. result = To(stopped, None) \/ result = To(ended, None) \/ result = To(over, None)
  <2>1. CASE r = "no_effect"
    BY <1>5, <1>6, <2>1 DEF ResolveUnknown, ResolvedNoEffect, NoEffect
  <2>2. CASE r = "manual"
    BY <1>5, <2>2 DEF ResolveUnknown
  <2>3. QED
    BY <2>1, <2>2
<1>8. Ended(session) \in {"failed", "cancelled"}
  BY DEF Ended
<1> HIDE DEF result, a
<1>9. result.effect = None
  BY <1>7 DEF To
<1>10. session' = [result.next EXCEPT !.revision = 0] /\ SessionValid(result.next)
       /\ op' = op /\ begun' = begun
  BY <1>9, Persisted, Names DEF a, result
<1>11. op = NoOp
  BY <1>5, Names DEF Runs
<1>12. CASE result = To(stopped, None)
  <2>1. session' \in Sessions /\ session'.state = "interrupted" /\ session'.recovery = session.unknown
    BY <1>0, <1>6, <1>10, <1>12, Names DEF Sessions, To
  <2>2. SessionValid(session')
    BY <1>0, <1>10, <1>12 DEF Sessions, To, SessionValid
  <2>3. Where' = Where
    BY <1>6, <2>1 DEF Where
  <2>4. QED
    BY <1>0, <1>5, <1>10, <1>11, <2>1, <2>2, <2>3, Names DEF Runs
<1>13. CASE result = To(ended, None)
  <2>1. session' \in Sessions /\ session'.state = "cancelled"
    BY <1>0, <1>6, <1>10, <1>13, Names DEF Sessions, To
  <2>2. SessionValid(session')
    BY <1>0, <1>10, <1>13 DEF Sessions, To, SessionValid
  <2>3. Where' = session'.state
    BY <2>1 DEF Where
  <2>4. QED
    BY <1>0, <1>5, <1>10, <1>11, <2>1, <2>2, <2>3, Names DEF Runs
<1>14. CASE result = To(over, None)
  <2>1. session' \in Sessions /\ session'.state = Ended(session)
    BY <1>0, <1>6, <1>8, <1>10, <1>14, Names DEF Sessions, To, Cleared
  <2>2. SessionValid(session')
    BY <1>0, <1>8, <1>10, <1>14 DEF Sessions, To, SessionValid, Cleared
  <2>3. Where' = session'.state
    BY <1>8, <2>1 DEF Where
  <2>4. QED
    BY <1>0, <1>5, <1>8, <1>10, <1>11, <2>1, <2>2, <2>3, Names DEF Runs
<1>15. QED
  BY <1>7, <1>12, <1>13, <1>14

(***************************************************************************)
(* The assistant inside the draft keeps the invariant of its own module    *)
(* under every operation of the engine the session calls.                  *)
(***************************************************************************)
Outstanding ==
    /\ state = "awaiting_assistant" => toolCalls < turns
    /\ state = "awaiting_tool_result" => Len(observations) < toolCalls

EngineInv ==
    /\ A!TypeOK /\ A!SnapshotRestores /\ A!EveryCallIsAskedFor
    /\ A!OnlyApprovedIsDisclosed /\ Outstanding

LEMMA EngineGrantConsent ==
    ASSUME EngineInv, A!GrantConsent PROVE EngineInv'
<1> USE SessionAssumption DEF A!GrantConsent, A!usage, A!history
<1>0. A!TypeOK /\ A!QuestionsRestorable /\ A!UsageRestorable /\ A!TranscriptRestorable /\ A!ConsentRestorable
      /\ A!ShapeRestorable /\ A!EveryCallIsAskedFor /\ A!OnlyApprovedIsDisclosed /\ Outstanding
  BY DEF EngineInv, A!SnapshotRestores
<1>1. A!TypeOK'
  BY <1>0 DEF A!TypeOK, A!AssistantStates, A!ToolCalls, A!NoTool, A!Nothing, A!Drafts, A!NoDraft, A!Observations, A!EvidenceOrigins, A!InFlight, A!Over
<1>2. A!QuestionsRestorable'
  BY <1>0 DEF A!TypeOK, A!QuestionsRestorable, A!InFlight, A!Over, A!NoTool, A!Nothing
<1>3. A!UsageRestorable'
  BY <1>0 DEF A!TypeOK, A!UsageRestorable, A!EveryCallIsAskedFor, A!InFlight
<1>4. A!TranscriptRestorable'
  BY <1>0 DEF A!TypeOK, A!TranscriptRestorable, A!Observations
<1>5. A!ConsentRestorable'
  BY <1>0 DEF A!TypeOK, A!ConsentRestorable, A!EvidenceOrigins, A!InFlight, A!Over
<1>6. A!ShapeRestorable'
  BY <1>0 DEF A!TypeOK, A!ShapeRestorable, A!TranscriptRestorable, A!NoTool, A!NoDraft, A!InFlight, A!Over, A!ToolCalls, A!Drafts, A!AssistantStates
<1>7. A!EveryCallIsAskedFor'
  BY <1>0 DEF A!TypeOK, A!EveryCallIsAskedFor, A!InFlight, A!Over
<1>8. A!OnlyApprovedIsDisclosed'
  BY <1>0 DEF A!TypeOK, A!OnlyApprovedIsDisclosed, A!ConsentRestorable, A!EvidenceOrigins
<1>9. Outstanding'
  BY <1>0 DEF A!TypeOK, Outstanding, A!UsageRestorable, A!TranscriptRestorable, A!InFlight, A!Over
<1>10. QED
  BY <1>1, <1>2, <1>3, <1>4, <1>5, <1>6, <1>7, <1>8, <1>9 DEF EngineInv, A!SnapshotRestores

LEMMA EngineBeginTurn ==
    ASSUME NEW estimate \in Estimates, EngineInv, A!BeginTurn(estimate) PROVE EngineInv'
<1> USE SessionAssumption DEF A!BeginTurn, A!usage, A!history
<1>0. A!TypeOK /\ A!QuestionsRestorable /\ A!UsageRestorable /\ A!TranscriptRestorable /\ A!ConsentRestorable
      /\ A!ShapeRestorable /\ A!EveryCallIsAskedFor /\ A!OnlyApprovedIsDisclosed /\ Outstanding
  BY DEF EngineInv, A!SnapshotRestores
<1>1. A!TypeOK'
  BY <1>0 DEF A!TypeOK, A!AssistantStates, A!ToolCalls, A!NoTool, A!Nothing, A!Drafts, A!NoDraft, A!Observations, A!EvidenceOrigins, A!InFlight, A!Over
<1>2. A!QuestionsRestorable'
  BY <1>0 DEF A!TypeOK, A!QuestionsRestorable, A!InFlight, A!Over, A!NoTool, A!Nothing
<1>3. A!UsageRestorable'
  BY <1>0 DEF A!TypeOK, A!UsageRestorable, A!EveryCallIsAskedFor, A!InFlight
<1>4. A!TranscriptRestorable'
  BY <1>0 DEF A!TypeOK, A!TranscriptRestorable, A!Observations
<1>5. A!ConsentRestorable'
  BY <1>0 DEF A!TypeOK, A!ConsentRestorable, A!EvidenceOrigins, A!InFlight, A!Over
<1>6. A!ShapeRestorable'
  BY <1>0 DEF A!TypeOK, A!ShapeRestorable, A!TranscriptRestorable, A!NoTool, A!NoDraft, A!InFlight, A!Over, A!ToolCalls, A!Drafts, A!AssistantStates
<1>7. A!EveryCallIsAskedFor'
  BY <1>0 DEF A!TypeOK, A!EveryCallIsAskedFor, A!InFlight, A!Over
<1>8. A!OnlyApprovedIsDisclosed'
  BY <1>0 DEF A!TypeOK, A!OnlyApprovedIsDisclosed, A!ConsentRestorable, A!EvidenceOrigins
<1>9. Outstanding'
  BY <1>0 DEF A!TypeOK, Outstanding, A!UsageRestorable, A!TranscriptRestorable, A!InFlight, A!Over
<1>10. QED
  BY <1>1, <1>2, <1>3, <1>4, <1>5, <1>6, <1>7, <1>8, <1>9 DEF EngineInv, A!SnapshotRestores

LEMMA EngineCallTool ==
    ASSUME NEW about \in Evidence \cup {"questions", A!Nothing}, EngineInv, A!CallTool(about) PROVE EngineInv'
<1> USE SessionAssumption DEF A!CallTool, A!usage, A!history
<1>0. A!TypeOK /\ A!QuestionsRestorable /\ A!UsageRestorable /\ A!TranscriptRestorable /\ A!ConsentRestorable
      /\ A!ShapeRestorable /\ A!EveryCallIsAskedFor /\ A!OnlyApprovedIsDisclosed /\ Outstanding
  BY DEF EngineInv, A!SnapshotRestores
<1>1. A!TypeOK'
  BY <1>0 DEF A!TypeOK, A!AssistantStates, A!ToolCalls, A!NoTool, A!Nothing, A!Drafts, A!NoDraft, A!Observations, A!EvidenceOrigins, A!InFlight, A!Over
<1>2. A!QuestionsRestorable'
  BY <1>0 DEF A!TypeOK, A!QuestionsRestorable, A!InFlight, A!Over, A!NoTool, A!Nothing
<1>3. A!UsageRestorable'
  BY <1>0 DEF A!TypeOK, A!UsageRestorable, Outstanding
<1>4. A!TranscriptRestorable'
  <2>1. ASSUME NEW i \in 1..Len(observations)
        PROVE  observations[i].id >= 1 /\ observations[i].id < nextCall' /\ observations[i].cites \subseteq evidence
    <3> HIDE DEF A!CallTool
    <3>0. observations[i] \in A!Observations
      BY <1>0 DEF A!TypeOK
    <3>1. observations[i].id \in Nat
      BY <3>0 DEF A!Observations
    <3>2. observations[i].id >= 1 /\ observations[i].id < nextCall /\ observations[i].cites \subseteq evidence
      BY <1>0 DEF A!TranscriptRestorable
    <3>3. QED
      BY <1>0, <3>1, <3>2 DEF A!TypeOK, A!CallTool
  <2>2. QED
    BY <1>0, <2>1 DEF A!TypeOK, A!TranscriptRestorable
<1>5. A!ConsentRestorable'
  BY <1>0 DEF A!TypeOK, A!ConsentRestorable, A!EvidenceOrigins, A!InFlight, A!Over
<1>6. A!ShapeRestorable'
  BY <1>0 DEF A!TypeOK, A!ShapeRestorable, A!TranscriptRestorable, A!NoTool, A!NoDraft, A!InFlight, A!Over, A!ToolCalls, A!Drafts, A!AssistantStates
<1>7. A!EveryCallIsAskedFor'
  BY <1>0 DEF A!TypeOK, A!EveryCallIsAskedFor, A!InFlight, A!Over
<1>8. A!OnlyApprovedIsDisclosed'
  BY <1>0 DEF A!TypeOK, A!OnlyApprovedIsDisclosed, A!ConsentRestorable, A!EvidenceOrigins
<1>9. Outstanding'
  BY <1>0 DEF A!TypeOK, Outstanding, A!UsageRestorable, A!TranscriptRestorable, A!InFlight, A!Over
<1>10. QED
  BY <1>1, <1>2, <1>3, <1>4, <1>5, <1>6, <1>7, <1>8, <1>9 DEF EngineInv, A!SnapshotRestores

LEMMA EngineSubmitDraft ==
    ASSUME NEW cites \in SUBSET Evidence, NEW open \in BOOLEAN, EngineInv, A!SubmitDraft(cites, open) PROVE EngineInv'
<1> USE SessionAssumption DEF A!SubmitDraft, A!usage, A!history
<1>0. A!TypeOK /\ A!QuestionsRestorable /\ A!UsageRestorable /\ A!TranscriptRestorable /\ A!ConsentRestorable
      /\ A!ShapeRestorable /\ A!EveryCallIsAskedFor /\ A!OnlyApprovedIsDisclosed /\ Outstanding
  BY DEF EngineInv, A!SnapshotRestores
<1>1. A!TypeOK'
  BY <1>0 DEF A!TypeOK, A!AssistantStates, A!ToolCalls, A!NoTool, A!Nothing, A!Drafts, A!NoDraft, A!Observations, A!EvidenceOrigins, A!InFlight, A!Over
<1>2. A!QuestionsRestorable'
  <2>1. pendingTool = A!NoTool
    BY <1>0 DEF A!ShapeRestorable
  <2>2. QED
    BY <1>0, <2>1 DEF A!TypeOK, A!QuestionsRestorable, A!Over, A!NoTool
<1>3. A!UsageRestorable'
  BY <1>0 DEF A!TypeOK, A!UsageRestorable, A!EveryCallIsAskedFor, A!InFlight
<1>4. A!TranscriptRestorable'
  BY <1>0 DEF A!TypeOK, A!TranscriptRestorable, A!Observations
<1>5. A!ConsentRestorable'
  BY <1>0 DEF A!TypeOK, A!ConsentRestorable, A!EvidenceOrigins, A!InFlight, A!Over
<1>6. A!ShapeRestorable'
  <2>1. pendingTool' = A!NoTool /\ A!NoTool.id = 0
    BY <1>0 DEF A!ShapeRestorable, A!NoTool, A!InFlight
  <2>2. QED
    BY <1>0, <2>1 DEF A!TypeOK, A!ShapeRestorable, A!NoDraft, A!InFlight, A!Over, A!Drafts, A!AssistantStates
<1>7. A!EveryCallIsAskedFor'
  BY <1>0 DEF A!TypeOK, A!EveryCallIsAskedFor, A!InFlight, A!Over
<1>8. A!OnlyApprovedIsDisclosed'
  BY <1>0 DEF A!TypeOK, A!OnlyApprovedIsDisclosed, A!ConsentRestorable, A!EvidenceOrigins
<1>9. Outstanding'
  BY <1>0 DEF A!TypeOK, Outstanding, A!UsageRestorable, A!TranscriptRestorable, A!InFlight, A!Over
<1>10. QED
  BY <1>1, <1>2, <1>3, <1>4, <1>5, <1>6, <1>7, <1>8, <1>9 DEF EngineInv, A!SnapshotRestores

LEMMA EngineNeedMoreEvidence ==
    ASSUME EngineInv, A!NeedMoreEvidence PROVE EngineInv'
<1> USE SessionAssumption DEF A!NeedMoreEvidence, A!usage, A!history
<1>0. A!TypeOK /\ A!QuestionsRestorable /\ A!UsageRestorable /\ A!TranscriptRestorable /\ A!ConsentRestorable
      /\ A!ShapeRestorable /\ A!EveryCallIsAskedFor /\ A!OnlyApprovedIsDisclosed /\ Outstanding
  BY DEF EngineInv, A!SnapshotRestores
<1>1. A!TypeOK'
  BY <1>0 DEF A!TypeOK, A!AssistantStates, A!ToolCalls, A!NoTool, A!Nothing, A!Drafts, A!NoDraft, A!Observations, A!EvidenceOrigins, A!InFlight, A!Over
<1>2. A!QuestionsRestorable'
  BY <1>0 DEF A!TypeOK, A!QuestionsRestorable, A!InFlight, A!Over, A!NoTool, A!Nothing
<1>3. A!UsageRestorable'
  BY <1>0 DEF A!TypeOK, A!UsageRestorable, A!EveryCallIsAskedFor, A!InFlight
<1>4. A!TranscriptRestorable'
  BY <1>0 DEF A!TypeOK, A!TranscriptRestorable, A!Observations
<1>5. A!ConsentRestorable'
  BY <1>0 DEF A!TypeOK, A!ConsentRestorable, A!EvidenceOrigins, A!InFlight, A!Over
<1>6. A!ShapeRestorable'
  BY <1>0 DEF A!TypeOK, A!ShapeRestorable, A!TranscriptRestorable, A!NoTool, A!NoDraft, A!InFlight, A!Over, A!ToolCalls, A!Drafts, A!AssistantStates
<1>7. A!EveryCallIsAskedFor'
  BY <1>0 DEF A!TypeOK, A!EveryCallIsAskedFor, A!InFlight, A!Over
<1>8. A!OnlyApprovedIsDisclosed'
  BY <1>0 DEF A!TypeOK, A!OnlyApprovedIsDisclosed, A!ConsentRestorable, A!EvidenceOrigins
<1>9. Outstanding'
  BY <1>0 DEF A!TypeOK, Outstanding, A!UsageRestorable, A!TranscriptRestorable, A!InFlight, A!Over
<1>10. QED
  BY <1>1, <1>2, <1>3, <1>4, <1>5, <1>6, <1>7, <1>8, <1>9 DEF EngineInv, A!SnapshotRestores

LEMMA EngineRecordFailure ==
    ASSUME NEW retryable \in BOOLEAN, EngineInv, A!RecordFailure(retryable) PROVE EngineInv'
<1> USE SessionAssumption DEF A!RecordFailure, A!usage, A!history, A!TransitionAfterFailure
<1>0. A!TypeOK /\ A!QuestionsRestorable /\ A!UsageRestorable /\ A!TranscriptRestorable /\ A!ConsentRestorable
      /\ A!ShapeRestorable /\ A!EveryCallIsAskedFor /\ A!OnlyApprovedIsDisclosed /\ Outstanding
  BY DEF EngineInv, A!SnapshotRestores
<1>1. A!TypeOK'
  BY <1>0 DEF A!TypeOK, A!AssistantStates, A!ToolCalls, A!NoTool, A!Nothing, A!Drafts, A!NoDraft, A!Observations, A!EvidenceOrigins, A!InFlight, A!Over
<1>2. A!QuestionsRestorable'
  <2>1. pendingTool = A!NoTool
    BY <1>0 DEF A!ShapeRestorable
  <2>2. QED
    BY <1>0, <2>1 DEF A!TypeOK, A!QuestionsRestorable, A!Over, A!NoTool
<1>3. A!UsageRestorable'
  BY <1>0 DEF A!TypeOK, A!UsageRestorable, A!EveryCallIsAskedFor, A!InFlight
<1>4. A!TranscriptRestorable'
  BY <1>0 DEF A!TypeOK, A!TranscriptRestorable, A!Observations
<1>5. A!ConsentRestorable'
  BY <1>0 DEF A!TypeOK, A!ConsentRestorable, A!EvidenceOrigins, A!InFlight, A!Over
<1>6. A!ShapeRestorable'
  BY <1>0 DEF A!TypeOK, A!ShapeRestorable, A!TranscriptRestorable, A!NoTool, A!NoDraft, A!InFlight, A!Over, A!ToolCalls, A!Drafts, A!AssistantStates
<1>7. A!EveryCallIsAskedFor'
  BY <1>0 DEF A!TypeOK, A!EveryCallIsAskedFor, A!InFlight, A!Over
<1>8. A!OnlyApprovedIsDisclosed'
  BY <1>0 DEF A!TypeOK, A!OnlyApprovedIsDisclosed, A!ConsentRestorable, A!EvidenceOrigins
<1>9. Outstanding'
  BY <1>0 DEF A!TypeOK, Outstanding, A!UsageRestorable, A!TranscriptRestorable, A!InFlight, A!Over
<1>10. QED
  BY <1>1, <1>2, <1>3, <1>4, <1>5, <1>6, <1>7, <1>8, <1>9 DEF EngineInv, A!SnapshotRestores

LEMMA EngineSubmitToolResult ==
    ASSUME NEW cites \in SUBSET Evidence, EngineInv, A!SubmitToolResult(cites) PROVE EngineInv'
<1> USE SessionAssumption DEF A!SubmitToolResult, A!usage, A!history
<1>0. A!TypeOK /\ A!QuestionsRestorable /\ A!UsageRestorable /\ A!TranscriptRestorable /\ A!ConsentRestorable
      /\ A!ShapeRestorable /\ A!EveryCallIsAskedFor /\ A!OnlyApprovedIsDisclosed /\ Outstanding
  BY DEF EngineInv, A!SnapshotRestores
<1>1. A!TypeOK'
  BY <1>0 DEF A!TypeOK, A!AssistantStates, A!ToolCalls, A!NoTool, A!Nothing, A!Drafts, A!NoDraft, A!Observations, A!EvidenceOrigins, A!InFlight, A!Over
<1>2. A!QuestionsRestorable'
  BY <1>0 DEF A!TypeOK, A!QuestionsRestorable, A!InFlight, A!Over, A!NoTool, A!Nothing
<1>3. A!UsageRestorable'
  BY <1>0 DEF A!TypeOK, A!UsageRestorable, A!EveryCallIsAskedFor, A!InFlight
<1>4. A!TranscriptRestorable'
  <2> DEFINE n == Len(observations)
             new == [id |-> pendingTool.id, cites |-> cites]
  <2>1. /\ n \in Nat /\ Len(observations') = n + 1
        /\ \A i \in 1..n : observations'[i] = observations[i]
        /\ observations'[n + 1] = new
    BY <1>0 DEF A!TypeOK, A!Observations, A!ToolCalls
  <2>2. n + 1 <= toolCalls
    BY <1>0, <2>1 DEF A!TypeOK, Outstanding
  <2>3. /\ pendingTool.id \in Nat /\ pendingTool.id >= 1 /\ pendingTool.id < nextCall
        /\ \A i \in 1..n : observations[i].id < pendingTool.id
    BY <1>0 DEF A!TypeOK, A!ShapeRestorable, A!ToolCalls
  <2>4. ASSUME NEW i \in 1..(n + 1)
        PROVE  /\ observations'[i].id >= 1 /\ observations'[i].id < nextCall
               /\ observations'[i].cites \subseteq evidence
               /\ \A j \in 1..(n + 1) : i < j => observations'[i].id < observations'[j].id
    <3>1. CASE i = n + 1
      BY <2>1, <2>3, <3>1
    <3>2. CASE i \in 1..n
      <4>1. ASSUME NEW j \in 1..(n + 1), i < j
            PROVE  observations'[i].id < observations'[j].id
        <5>1. CASE j = n + 1
          BY <2>1, <2>3, <3>2, <5>1
        <5>2. CASE j \in 1..n
          BY <1>0, <2>1, <3>2, <4>1, <5>2 DEF A!TranscriptRestorable
        <5>3. QED
          BY <2>1, <5>1, <5>2
      <4>2. QED
        BY <1>0, <2>1, <3>2, <4>1 DEF A!TranscriptRestorable
    <3>3. QED
      BY <2>1, <3>1, <3>2
  <2>5. QED
    BY <1>0, <2>1, <2>2, <2>4 DEF A!TranscriptRestorable
<1>5. A!ConsentRestorable'
  BY <1>0 DEF A!TypeOK, A!ConsentRestorable, A!EvidenceOrigins, A!InFlight, A!Over
<1>6. A!ShapeRestorable'
  BY <1>0 DEF A!TypeOK, A!ShapeRestorable, A!TranscriptRestorable, A!NoTool, A!NoDraft, A!InFlight, A!Over, A!ToolCalls, A!Drafts, A!AssistantStates
<1>7. A!EveryCallIsAskedFor'
  BY <1>0 DEF A!TypeOK, A!EveryCallIsAskedFor, A!InFlight, A!Over
<1>8. A!OnlyApprovedIsDisclosed'
  BY <1>0 DEF A!TypeOK, A!OnlyApprovedIsDisclosed, A!ConsentRestorable, A!EvidenceOrigins
<1>9. Outstanding'
  BY <1>0 DEF A!TypeOK, Outstanding, A!UsageRestorable, A!TranscriptRestorable, A!InFlight, A!Over
<1>10. QED
  BY <1>1, <1>2, <1>3, <1>4, <1>5, <1>6, <1>7, <1>8, <1>9 DEF EngineInv, A!SnapshotRestores

LEMMA EngineApproveRetry ==
    ASSUME EngineInv, A!ApproveRetry PROVE EngineInv'
<1> USE SessionAssumption DEF A!ApproveRetry, A!usage, A!history
<1>0. A!TypeOK /\ A!QuestionsRestorable /\ A!UsageRestorable /\ A!TranscriptRestorable /\ A!ConsentRestorable
      /\ A!ShapeRestorable /\ A!EveryCallIsAskedFor /\ A!OnlyApprovedIsDisclosed /\ Outstanding
  BY DEF EngineInv, A!SnapshotRestores
<1>1. A!TypeOK'
  <2>1. retries' \in Nat
    BY <1>0 DEF A!TypeOK
  <2>2. QED
    BY <1>0, <2>1 DEF A!TypeOK, A!AssistantStates
<1>2. A!QuestionsRestorable'
  BY <1>0 DEF A!TypeOK, A!QuestionsRestorable, A!InFlight, A!Over, A!NoTool, A!Nothing
<1>3. A!UsageRestorable'
  BY <1>0 DEF A!TypeOK, A!UsageRestorable, A!EveryCallIsAskedFor, A!InFlight
<1>4. A!TranscriptRestorable'
  BY <1>0 DEF A!TypeOK, A!TranscriptRestorable, A!Observations
<1>5. A!ConsentRestorable'
  BY <1>0 DEF A!TypeOK, A!ConsentRestorable, A!EvidenceOrigins, A!InFlight, A!Over
<1>6. A!ShapeRestorable'
  BY <1>0 DEF A!TypeOK, A!ShapeRestorable, A!TranscriptRestorable, A!NoTool, A!NoDraft, A!InFlight, A!Over, A!ToolCalls, A!Drafts, A!AssistantStates
<1>7. A!EveryCallIsAskedFor'
  BY <1>0 DEF A!TypeOK, A!EveryCallIsAskedFor, A!InFlight, A!Over
<1>8. A!OnlyApprovedIsDisclosed'
  BY <1>0 DEF A!TypeOK, A!OnlyApprovedIsDisclosed, A!ConsentRestorable, A!EvidenceOrigins
<1>9. Outstanding'
  BY <1>0 DEF A!TypeOK, Outstanding, A!UsageRestorable, A!TranscriptRestorable, A!InFlight, A!Over
<1>10. QED
  BY <1>1, <1>2, <1>3, <1>4, <1>5, <1>6, <1>7, <1>8, <1>9 DEF EngineInv, A!SnapshotRestores

LEMMA EngineMarkInterrupted ==
    ASSUME EngineInv, A!MarkInterrupted PROVE EngineInv'
<1> USE SessionAssumption DEF A!MarkInterrupted, A!usage, A!history
<1>0. A!TypeOK /\ A!QuestionsRestorable /\ A!UsageRestorable /\ A!TranscriptRestorable /\ A!ConsentRestorable
      /\ A!ShapeRestorable /\ A!EveryCallIsAskedFor /\ A!OnlyApprovedIsDisclosed /\ Outstanding
  BY DEF EngineInv, A!SnapshotRestores
<1>1. A!TypeOK'
  BY <1>0 DEF A!TypeOK, A!AssistantStates, A!ToolCalls, A!NoTool, A!Nothing, A!Drafts, A!NoDraft, A!Observations, A!EvidenceOrigins, A!InFlight, A!Over
<1>2. A!QuestionsRestorable'
  BY <1>0 DEF A!TypeOK, A!QuestionsRestorable, A!InFlight, A!Over, A!NoTool, A!Nothing
<1>3. A!UsageRestorable'
  BY <1>0 DEF A!TypeOK, A!UsageRestorable, A!EveryCallIsAskedFor, A!InFlight
<1>4. A!TranscriptRestorable'
  BY <1>0 DEF A!TypeOK, A!TranscriptRestorable, A!Observations
<1>5. A!ConsentRestorable'
  BY <1>0 DEF A!TypeOK, A!ConsentRestorable, A!EvidenceOrigins, A!InFlight, A!Over
<1>6. A!ShapeRestorable'
  <2>1. pendingTool' = A!NoTool /\ A!NoTool.id = 0
    BY <1>0 DEF A!ShapeRestorable, A!NoTool, A!InFlight
  <2>2. QED
    BY <1>0, <2>1 DEF A!TypeOK, A!ShapeRestorable, A!NoDraft, A!InFlight, A!Over, A!Drafts, A!AssistantStates
<1>7. A!EveryCallIsAskedFor'
  BY <1>0 DEF A!TypeOK, A!EveryCallIsAskedFor, A!InFlight, A!Over
<1>8. A!OnlyApprovedIsDisclosed'
  BY <1>0 DEF A!TypeOK, A!OnlyApprovedIsDisclosed, A!ConsentRestorable, A!EvidenceOrigins
<1>9. Outstanding'
  BY <1>0 DEF A!TypeOK, Outstanding, A!UsageRestorable, A!TranscriptRestorable, A!InFlight, A!Over
<1>10. QED
  BY <1>1, <1>2, <1>3, <1>4, <1>5, <1>6, <1>7, <1>8, <1>9 DEF EngineInv, A!SnapshotRestores

LEMMA EngineCancel ==
    ASSUME EngineInv, A!Cancel PROVE EngineInv'
<1> USE SessionAssumption DEF A!Cancel, A!usage, A!history
<1>0. A!TypeOK /\ A!QuestionsRestorable /\ A!UsageRestorable /\ A!TranscriptRestorable /\ A!ConsentRestorable
      /\ A!ShapeRestorable /\ A!EveryCallIsAskedFor /\ A!OnlyApprovedIsDisclosed /\ Outstanding
  BY DEF EngineInv, A!SnapshotRestores
<1>1. A!TypeOK'
  BY <1>0 DEF A!TypeOK, A!AssistantStates, A!ToolCalls, A!NoTool, A!Nothing, A!Drafts, A!NoDraft, A!Observations, A!EvidenceOrigins, A!InFlight, A!Over
<1>2. A!QuestionsRestorable'
  BY <1>0 DEF A!TypeOK, A!QuestionsRestorable, A!InFlight, A!Over, A!NoTool, A!Nothing
<1>3. A!UsageRestorable'
  BY <1>0 DEF A!TypeOK, A!UsageRestorable, A!EveryCallIsAskedFor, A!InFlight
<1>4. A!TranscriptRestorable'
  BY <1>0 DEF A!TypeOK, A!TranscriptRestorable, A!Observations
<1>5. A!ConsentRestorable'
  BY <1>0 DEF A!TypeOK, A!ConsentRestorable, A!EvidenceOrigins, A!InFlight, A!Over
<1>6. A!ShapeRestorable'
  <2>1. pendingTool' = A!NoTool /\ A!NoTool.id = 0
    BY <1>0 DEF A!ShapeRestorable, A!NoTool, A!InFlight
  <2>2. QED
    BY <1>0, <2>1 DEF A!TypeOK, A!ShapeRestorable, A!NoDraft, A!InFlight, A!Over, A!Drafts, A!AssistantStates
<1>7. A!EveryCallIsAskedFor'
  BY <1>0 DEF A!TypeOK, A!EveryCallIsAskedFor, A!InFlight, A!Over
<1>8. A!OnlyApprovedIsDisclosed'
  BY <1>0 DEF A!TypeOK, A!OnlyApprovedIsDisclosed, A!ConsentRestorable, A!EvidenceOrigins
<1>9. Outstanding'
  BY <1>0 DEF A!TypeOK, Outstanding, A!UsageRestorable, A!TranscriptRestorable, A!InFlight, A!Over
<1>10. QED
  BY <1>1, <1>2, <1>3, <1>4, <1>5, <1>6, <1>7, <1>8, <1>9 DEF EngineInv, A!SnapshotRestores

LEMMA EngineRequestDraftRevision ==
    ASSUME EngineInv, A!RequestDraftRevision PROVE EngineInv'
<1> USE SessionAssumption DEF A!RequestDraftRevision, A!usage, A!history
<1>0. A!TypeOK /\ A!QuestionsRestorable /\ A!UsageRestorable /\ A!TranscriptRestorable /\ A!ConsentRestorable
      /\ A!ShapeRestorable /\ A!EveryCallIsAskedFor /\ A!OnlyApprovedIsDisclosed /\ Outstanding
  BY DEF EngineInv, A!SnapshotRestores
<1>1. A!TypeOK'
  BY <1>0 DEF A!TypeOK, A!AssistantStates, A!ToolCalls, A!NoTool, A!Nothing, A!Drafts, A!NoDraft, A!Observations, A!EvidenceOrigins, A!InFlight, A!Over
<1>2. A!QuestionsRestorable'
  BY <1>0 DEF A!TypeOK, A!QuestionsRestorable, A!InFlight, A!Over, A!NoTool, A!Nothing
<1>3. A!UsageRestorable'
  BY <1>0 DEF A!TypeOK, A!UsageRestorable, A!EveryCallIsAskedFor, A!InFlight
<1>4. A!TranscriptRestorable'
  BY <1>0 DEF A!TypeOK, A!TranscriptRestorable, A!Observations
<1>5. A!ConsentRestorable'
  BY <1>0 DEF A!TypeOK, A!ConsentRestorable, A!EvidenceOrigins, A!InFlight, A!Over
<1>6. A!ShapeRestorable'
  BY <1>0 DEF A!TypeOK, A!ShapeRestorable, A!TranscriptRestorable, A!NoTool, A!NoDraft, A!InFlight, A!Over, A!ToolCalls, A!Drafts, A!AssistantStates
<1>7. A!EveryCallIsAskedFor'
  BY <1>0 DEF A!TypeOK, A!EveryCallIsAskedFor, A!InFlight, A!Over
<1>8. A!OnlyApprovedIsDisclosed'
  BY <1>0 DEF A!TypeOK, A!OnlyApprovedIsDisclosed, A!ConsentRestorable, A!EvidenceOrigins
<1>9. Outstanding'
  BY <1>0 DEF A!TypeOK, Outstanding, A!UsageRestorable, A!TranscriptRestorable, A!InFlight, A!Over
<1>10. QED
  BY <1>1, <1>2, <1>3, <1>4, <1>5, <1>6, <1>7, <1>8, <1>9 DEF EngineInv, A!SnapshotRestores

LEMMA EngineNew ==
    ASSUME NEW ev \in SUBSET Evidence, NEW asked \in BOOLEAN, A!TypeOK, disclosed \subseteq granted,
           A!New(ev, asked)
    PROVE  EngineInv'
<1> USE SessionAssumption DEF A!usage, A!history, A!New, A!Startable
<1>0. A!TypeOK /\ disclosed \subseteq granted
  OBVIOUS
<1>1. A!TypeOK'
  <2>1. observations' \in Seq(A!Observations)
    OBVIOUS
  <2>2. QED
    BY <1>0, <2>1 DEF A!TypeOK, A!AssistantStates, A!ToolCalls, A!NoTool, A!Drafts, A!NoDraft
<1>2. A!QuestionsRestorable'
  BY <1>0 DEF A!TypeOK, A!QuestionsRestorable, A!InFlight, A!Over, A!NoTool, A!Nothing
<1>3. A!UsageRestorable'
  BY <1>0 DEF A!TypeOK, A!UsageRestorable, A!EveryCallIsAskedFor, A!InFlight
<1>4. A!TranscriptRestorable'
  BY <1>0 DEF A!TypeOK, A!TranscriptRestorable, A!Observations
<1>5. A!ConsentRestorable'
  BY <1>0 DEF A!TypeOK, A!ConsentRestorable, A!EvidenceOrigins, A!InFlight, A!Over
<1>6. A!ShapeRestorable'
  <2>1. pendingTool' = A!NoTool /\ A!NoTool.id = 0
    BY <1>0 DEF A!ShapeRestorable, A!NoTool, A!InFlight
  <2>2. QED
    BY <1>0, <2>1 DEF A!TypeOK, A!ShapeRestorable, A!NoDraft, A!InFlight, A!Over, A!Drafts, A!AssistantStates
<1>7. A!EveryCallIsAskedFor'
  BY <1>0 DEF A!TypeOK, A!EveryCallIsAskedFor, A!InFlight, A!Over
<1>8. A!OnlyApprovedIsDisclosed'
  BY <1>0 DEF A!TypeOK, A!OnlyApprovedIsDisclosed, A!ConsentRestorable, A!EvidenceOrigins
<1>9. Outstanding'
  BY <1>0 DEF A!TypeOK, Outstanding, A!UsageRestorable, A!TranscriptRestorable, A!InFlight, A!Over
<1>10. QED
  BY <1>1, <1>2, <1>3, <1>4, <1>5, <1>6, <1>7, <1>8, <1>9 DEF EngineInv, A!SnapshotRestores


(* What restart_assistant_after_interruption does to the engine, and what  *)
(* continuing with new documents of approved sites does.                   *)
Reopened ==
    /\ state \in A!InFlight \cup {"interrupted"} /\ retries < MaxRetries
    /\ state' = "ready" /\ retries' = retries + 1
    /\ pendingTool' = A!NoTool /\ pendingOutput' = 0 /\ pendingRetry' = FALSE
    /\ UNCHANGED <<evidence, approved, consented, turns, toolCalls, reserved, nextCall,
                   observations, questions, draft, rounds, disclosed, granted>>
Continued(new) ==
    /\ A!EvidenceOrigins(new) \subseteq approved
    /\ state = "awaiting_more_evidence"
    /\ evidence' = evidence \cup new
    /\ state' = "ready" /\ rounds' = rounds + 1
    /\ UNCHANGED <<approved, consented, turns, toolCalls, retries, reserved, nextCall,
                   pendingOutput, pendingTool, observations, questions, pendingRetry, draft,
                   disclosed, granted>>

LEMMA EngineReopened ==
    ASSUME EngineInv, Reopened PROVE EngineInv'
<1> USE SessionAssumption DEF Reopened, A!usage, A!history
<1>0. A!TypeOK /\ A!QuestionsRestorable /\ A!UsageRestorable /\ A!TranscriptRestorable /\ A!ConsentRestorable
      /\ A!ShapeRestorable /\ A!EveryCallIsAskedFor /\ A!OnlyApprovedIsDisclosed /\ Outstanding
  BY DEF EngineInv, A!SnapshotRestores
<1>1. A!TypeOK'
  <2>1. retries' \in Nat /\ pendingTool' \in A!ToolCalls
    BY <1>0 DEF A!TypeOK, A!ToolCalls, A!NoTool, A!Nothing
  <2>2. QED
    BY <1>0, <2>1 DEF A!TypeOK, A!AssistantStates
<1>2. A!QuestionsRestorable'
  BY <1>0 DEF A!TypeOK, A!QuestionsRestorable, A!InFlight, A!Over, A!NoTool, A!Nothing
<1>3. A!UsageRestorable'
  BY <1>0 DEF A!TypeOK, A!UsageRestorable, A!EveryCallIsAskedFor, A!InFlight
<1>4. A!TranscriptRestorable'
  BY <1>0 DEF A!TypeOK, A!TranscriptRestorable, A!Observations
<1>5. A!ConsentRestorable'
  BY <1>0 DEF A!TypeOK, A!ConsentRestorable, A!EvidenceOrigins, A!InFlight, A!Over
<1>6. A!ShapeRestorable'
  <2>1. pendingTool' = A!NoTool /\ A!NoTool.id = 0
    BY <1>0 DEF A!ShapeRestorable, A!NoTool, A!InFlight
  <2>2. QED
    BY <1>0, <2>1 DEF A!TypeOK, A!ShapeRestorable, A!NoDraft, A!InFlight, A!Over, A!Drafts, A!AssistantStates
<1>7. A!EveryCallIsAskedFor'
  BY <1>0 DEF A!TypeOK, A!EveryCallIsAskedFor, A!InFlight, A!Over
<1>8. A!OnlyApprovedIsDisclosed'
  BY <1>0 DEF A!TypeOK, A!OnlyApprovedIsDisclosed, A!ConsentRestorable, A!EvidenceOrigins
<1>9. Outstanding'
  BY <1>0 DEF A!TypeOK, Outstanding, A!UsageRestorable, A!TranscriptRestorable, A!InFlight, A!Over
<1>10. QED
  BY <1>1, <1>2, <1>3, <1>4, <1>5, <1>6, <1>7, <1>8, <1>9 DEF EngineInv, A!SnapshotRestores

LEMMA EngineContinued ==
    ASSUME NEW new \in SUBSET Evidence, EngineInv, Continued(new) PROVE EngineInv'
<1> USE SessionAssumption DEF Continued, A!usage, A!history
<1>0. A!TypeOK /\ A!QuestionsRestorable /\ A!UsageRestorable /\ A!TranscriptRestorable /\ A!ConsentRestorable
      /\ A!ShapeRestorable /\ A!EveryCallIsAskedFor /\ A!OnlyApprovedIsDisclosed /\ Outstanding
  BY DEF EngineInv, A!SnapshotRestores
<1>1. A!TypeOK'
  BY <1>0 DEF A!TypeOK, A!AssistantStates, A!ToolCalls, A!NoTool, A!Nothing, A!Drafts, A!NoDraft, A!Observations, A!EvidenceOrigins, A!InFlight, A!Over
<1>2. A!QuestionsRestorable'
  BY <1>0 DEF A!TypeOK, A!QuestionsRestorable, A!InFlight, A!Over, A!NoTool, A!Nothing
<1>3. A!UsageRestorable'
  BY <1>0 DEF A!TypeOK, A!UsageRestorable, A!EveryCallIsAskedFor, A!InFlight
<1>4. A!TranscriptRestorable'
  BY <1>0 DEF A!TypeOK, A!TranscriptRestorable, A!Observations
<1>5. A!ConsentRestorable'
  BY <1>0 DEF A!TypeOK, A!ConsentRestorable, A!EvidenceOrigins, A!InFlight, A!Over
<1>6. A!ShapeRestorable'
  <2>1. pendingTool' = A!NoTool /\ A!NoTool.id = 0
    BY <1>0 DEF A!ShapeRestorable, A!NoTool, A!InFlight
  <2>2. QED
    BY <1>0, <2>1 DEF A!TypeOK, A!ShapeRestorable, A!NoDraft, A!InFlight, A!Over, A!Drafts, A!AssistantStates
<1>7. A!EveryCallIsAskedFor'
  BY <1>0 DEF A!TypeOK, A!EveryCallIsAskedFor, A!InFlight, A!Over
<1>8. A!OnlyApprovedIsDisclosed'
  BY <1>0 DEF A!TypeOK, A!OnlyApprovedIsDisclosed, A!ConsentRestorable, A!EvidenceOrigins
<1>9. Outstanding'
  BY <1>0 DEF A!TypeOK, Outstanding, A!UsageRestorable, A!TranscriptRestorable, A!InFlight, A!Over
<1>10. QED
  BY <1>1, <1>2, <1>3, <1>4, <1>5, <1>6, <1>7, <1>8, <1>9 DEF EngineInv, A!SnapshotRestores

(***************************************************************************)
(* The inductive invariant.                                                *)
(***************************************************************************)
(* Where the session stands and what the assistant in its draft is doing.  *)
Early == {"draft", "resolving", "awaiting_template", "fetching"}
Late == {"building_deterministic", "validating", "awaiting_credential", "listing",
         "awaiting_probe", "probing", "awaiting_review"}
Working == {"ready", "awaiting_assistant", "awaiting_tool_result", "awaiting_retry_consent",
            "draft_ready", "interrupted"}
Placed ==
    /\ Where \in Early => ~ present
    /\ Where = "extracting" /\ present => state = "ready"
    /\ Where = "awaiting_evidence" /\ present => state = "awaiting_more_evidence"
    /\ Where = "awaiting_assistant" =>
         present /\ state \in {"awaiting_consent", "awaiting_more_evidence"}
    /\ Where = "building_assistant" => present /\ bound /\ state \in Working
    /\ Where \in Late /\ present => state = "draft_ready"

(* The snapshot in the draft is sound, and without one nothing is approved. *)
Assisted ==
    /\ A!TypeOK /\ disclosed \subseteq granted
    /\ present => EngineInv
    /\ ~ present => ~ consented

(* A result that may still be recorded belongs to the one caller that has  *)
(* claimed the operation.                                                  *)
Places == {"idle", "settle", "drive", "claim", "execute", "loop", "turn", "call", "tool"}
Calling == run \in [Threads -> [pc : Places, fresh : BOOLEAN, call : Nat]]
Executes(t) == At(t, "execute") /\ run[t].fresh
Claimed ==
    /\ \A t \in Threads : Executes(t) => op.status = "started"
    /\ \A t, u \in Threads : Executes(t) /\ Executes(u) => t = u

(* What was found or supplied is stored.                                   *)
Ledger ==
    /\ assisted \in BOOLEAN /\ present \in BOOLEAN /\ bound \in BOOLEAN
    /\ found \subseteq stored /\ extra \subseteq stored /\ stored \subseteq Evidence

(* The inductive invariant: all of them at once.  WorkIsDoneOnce needs     *)
(* Claimed and Runs, ApprovalIsBound needs Placed, and each part is needed *)
(* to keep the others when an operation ends.                              *)
IInv == Runs /\ Ledger /\ Calling /\ Claimed /\ Assisted /\ Placed

LEMMA InitKeeps == Init => IInv
<1> SUFFICES ASSUME Init PROVE IInv
  OBVIOUS
<1> USE DEF Init
<1>1. Runs
  <2>1. session \in Sessions /\ session.state = "draft" /\ session.recovery = None /\ session.unknown = None
    BY DEF NewSession, Sessions, States
  <2>2. SessionValid(session)
    BY DEF NewSession, SessionValid, Operations, ReadOnly, Deterministic, Billable, Persistent, None
  <2>3. Where = "draft" /\ "draft" \notin Persistent
    BY <2>1 DEF Where, Persistent
  <2>4. QED
    BY <2>1, <2>2, <2>3, Names DEF Runs
<1>2. Ledger
  BY DEF Ledger
<1>3. Calling /\ Claimed
  BY DEF Calling, Claimed, Executes, At, Idle, Places
<1>4. Assisted
  <2>1. observations \in Seq(A!Observations)
    OBVIOUS
  <2>2. A!TypeOK
    BY <2>1 DEF A!TypeOK, A!AssistantStates, A!ToolCalls, A!NoTool, A!Nothing, A!Drafts, A!NoDraft
  <2>3. QED
    BY <2>2 DEF Assisted
<1>5. Placed
  BY DEF Placed, Where, NewSession, Early, Late
<1>6. QED
  BY <1>1, <1>2, <1>3, <1>4, <1>5 DEF IInv

(***************************************************************************)
(* What the shared parts of the actions keep.                              *)
(***************************************************************************)
LEMMA OutdateKeeps ==
    ASSUME Calling, NEW t \in Threads, NEW pc \in Places \ {"execute"}, Outdate(t, pc)
    PROVE  Calling' /\ Claimed' /\ \A u \in Threads : run'[u].pc = IF u = t THEN pc ELSE run[u].pc
<1>1. Calling'
  BY DEF Calling, Outdate, Idle, Places
<1>2. \A u \in Threads : ~ run'[u].fresh
  BY DEF Calling, Outdate, Idle
<1>3. Claimed'
  BY <1>2 DEF Claimed, Executes
<1>4. \A u \in Threads : run'[u].pc = IF u = t THEN pc ELSE run[u].pc
  BY DEF Calling, Outdate, Idle
<1>5. QED
  BY <1>1, <1>3, <1>4

LEMMA GotoKeeps ==
    ASSUME Calling, Claimed, NEW t \in Threads, NEW pc \in Places \ {"execute"}, Goto(t, pc), op' = op
    PROVE  Calling' /\ Claimed' /\ \A u \in Threads : run'[u].pc = IF u = t THEN pc ELSE run[u].pc
<1>1. Calling' /\ \A u \in Threads : run'[u] = IF u = t THEN [Idle EXCEPT !.pc = pc] ELSE run[u]
  BY DEF Calling, Goto, Idle, Places
<1>2. \A u \in Threads : run'[u].pc = IF u = t THEN pc ELSE run[u].pc
  BY <1>1 DEF Idle
<1>3. \A u \in Threads : Executes(u)' => Executes(u)
  BY <1>1, <1>2 DEF Executes, At
<1>4. Claimed'
  BY <1>3 DEF Claimed
<1>5. QED
  BY <1>1, <1>2, <1>4

LEMMA SameKeeps ==
    ASSUME Assisted, UNCHANGED engine, UNCHANGED present
    PROVE  Assisted'
<1>1. A!TypeOK' /\ (EngineInv => EngineInv')
  BY DEF Assisted, engine, EngineInv, Outstanding, A!TypeOK, A!SnapshotRestores, A!QuestionsRestorable, A!UsageRestorable,
     A!TranscriptRestorable, A!ConsentRestorable, A!ShapeRestorable, A!EveryCallIsAskedFor, A!OnlyApprovedIsDisclosed
<1>2. QED
  BY <1>1 DEF Assisted, engine

LEMMA DroppedKeeps ==
    ASSUME Assisted, NEW asked \in BOOLEAN, Dropped(asked)
    PROVE  Assisted' /\ ~ present' /\ present' \in BOOLEAN
<1>1. observations' \in Seq(A!Observations)
  BY DEF Dropped
<1>2. A!TypeOK'
  BY <1>1 DEF Assisted, Dropped, A!TypeOK, A!AssistantStates, A!ToolCalls, A!NoTool, A!Nothing, A!Drafts, A!NoDraft
<1>3. QED
  BY <1>2 DEF Assisted, Dropped

LEMMA CloseKeeps ==
    ASSUME Assisted, CloseIfTerminal
    PROVE  /\ Assisted' /\ UNCHANGED <<present, bound>>
           /\ session'.state \notin Terminal => UNCHANGED engine
<1>1. CASE session'.state \notin Terminal
  BY <1>1, SameKeeps DEF CloseIfTerminal, SameAssistant
<1>2. CASE session'.state \in Terminal
  <2>1. CancelAssistantSnapshot
    BY <1>2 DEF CloseIfTerminal
  <2>2. UNCHANGED <<present, bound>>
    BY <2>1 DEF CancelAssistantSnapshot
  <2>3. CASE present /\ state \notin A!Over
    <3>1. EngineInv' /\ UNCHANGED <<disclosed, granted>>
      BY <2>1, <2>3, EngineCancel DEF Assisted, CancelAssistantSnapshot, A!Cancel, A!history
    <3>2. QED
      BY <1>2, <2>2, <2>3, <3>1 DEF Assisted, EngineInv
  <2>4. CASE present /\ state \in A!Over
    BY <1>2, <2>1, <2>2, <2>4, SameKeeps DEF CancelAssistantSnapshot
  <2>5. CASE ~ present
    <3>1. A!TypeOK' /\ disclosed' \subseteq granted' /\ ~ consented'
      BY <2>1, <2>5 DEF Assisted, CancelAssistantSnapshot, A!TypeOK
    <3>2. QED
      BY <1>2, <2>2, <2>5, <3>1 DEF Assisted
  <2>6. QED
    BY <2>3, <2>4, <2>5
<1>3. QED
  BY <1>1, <1>2

LEMMA InitializeKeeps ==
    ASSUME Assisted, Ledger, InitializeAssistant
    PROVE  /\ Assisted' /\ present'
           /\ present => UNCHANGED engine
           /\ ~ present => state' = "awaiting_consent"
<1>1. CASE present
  BY <1>1, SameKeeps DEF InitializeAssistant
<1>2. CASE ~ present
  <2>1. A!New(Wanted, questions) /\ present' = TRUE
    BY <1>2 DEF InitializeAssistant
  <2>2. Wanted \in SUBSET Evidence /\ questions \in BOOLEAN
    BY DEF Ledger, Wanted, Assisted, A!TypeOK
  <2>3. EngineInv' /\ UNCHANGED <<disclosed, granted>> /\ state' = "awaiting_consent"
    BY <2>1, <2>2, EngineNew DEF Assisted, A!New
  <2>4. QED
    BY <1>2, <2>1, <2>3 DEF Assisted, EngineInv
<1>3. QED
  BY <1>1, <1>2

(* A session that ends or stays where it is leaves the assistant where it  *)
(* belongs.                                                                *)
LEMMA PlaceKept ==
    ASSUME Placed, UNCHANGED <<present, bound>>, Where' = Where, state' = state
    PROVE  Placed'
  BY DEF Placed
LEMMA PlaceEnds ==
    ASSUME Where' \in Terminal PROVE Placed'
  BY DEF Placed, Terminal, Early, Late

(***************************************************************************)
(* The commands of the user.                                               *)
(***************************************************************************)
LEMMA BeginKeeps ==
    ASSUME IInv, NEW t \in Threads, Begin(t) PROVE IInv'
<1> USE DEF IInv
<1>1. /\ Persist(Act("begin"), None) /\ Outdate(t, "drive") /\ SameAssistant
      /\ UNCHANGED <<assisted, ledger>>
  BY DEF Begin
<1>2. "begin" \in WaitingKinds
  BY DEF WaitingKinds
<1>3. /\ Runs' /\ Where = session.state /\ Where' = session'.state
      /\ <<session.state, "begin", session'.state>> \in Steps
  BY <1>1, <1>2, CommandMoves
<1>4. Calling' /\ Claimed'
  BY <1>1, OutdateKeeps DEF Places
<1>5. Ledger' /\ Assisted'
  BY <1>1, SameKeeps DEF SameAssistant, Ledger, ledger
<1>6. Placed'
  BY <1>1, <1>3 DEF Placed, Steps, Early, Late, SameAssistant
<1>7. QED
  BY <1>3, <1>4, <1>5, <1>6

LEMMA ContinueKeeps ==
    ASSUME IInv, NEW t \in Threads, NEW kind \in PlainActions, ContinueDiscovery(t, kind)
    PROVE  IInv'
<1> USE DEF IInv
<1>1. /\ Persist(Act(kind), None) /\ Outdate(t, "drive") /\ SameAssistant
      /\ UNCHANGED <<assisted, ledger>>
  BY DEF ContinueDiscovery
<1>2. Calling' /\ Claimed'
  BY <1>1, OutdateKeeps DEF Places
<1>3. Ledger' /\ Assisted' /\ UNCHANGED <<present, bound, state>>
  BY <1>1, SameKeeps DEF SameAssistant, Ledger, ledger, engine
<1>4. CASE kind = "restart_interrupted"
  BY <1>1, <1>2, <1>3, <1>4, PersistRestart, PlaceKept
<1>5. CASE kind # "restart_interrupted"
  <2>1. kind \in WaitingKinds
    BY <1>5 DEF WaitingKinds, PlainActions
  <2>2. /\ Runs' /\ Where = session.state /\ Where' = session'.state
        /\ <<session.state, kind, session'.state>> \in Steps
    BY <1>1, <2>1, CommandMoves
  <2>3. Placed'
    BY <1>3, <1>5, <2>2 DEF Placed, Steps, Early, Late, PlainActions
  <2>4. QED
    BY <1>2, <1>3, <2>2, <2>3
<1>6. QED
  BY <1>4, <1>5

LEMMA ResolveKeeps ==
    ASSUME IInv, NEW t \in Threads, NEW r \in {"no_effect", "manual"}, ResolveUnknownOutcome(t, r)
    PROVE  IInv'
<1> USE DEF IInv
<1>1. /\ Persist([kind |-> "resolve_unknown", manifest |-> None, resolution |-> r], None)
      /\ Outdate(t, "drive") /\ CloseIfTerminal /\ UNCHANGED <<assisted, ledger>>
  BY DEF ResolveUnknownOutcome
<1>2. /\ Runs' /\ \/ session'.state = "interrupted" /\ Where' = Where
                  \/ session'.state \in {"failed", "cancelled"} /\ Where' = session'.state
  BY <1>1, PersistResolve
<1>3. Calling' /\ Claimed'
  BY <1>1, OutdateKeeps DEF Places
<1>4. /\ Ledger' /\ Assisted' /\ UNCHANGED <<present, bound>>
      /\ session'.state \notin Terminal => UNCHANGED engine
  BY <1>1, CloseKeeps DEF Ledger, ledger
<1>5. Placed'
  BY <1>2, <1>4, PlaceKept, PlaceEnds DEF Terminal, engine
<1>6. QED
  BY <1>2, <1>3, <1>4, <1>5

LEMMA CancelKeeps ==
    ASSUME IInv, NEW t \in Threads, CancelDiscovery(t) PROVE IInv'
<1> USE DEF IInv
<1>1. /\ Persist(Act("cancel"), None) /\ Outdate(t, "settle") /\ CloseIfTerminal
      /\ UNCHANGED <<assisted, ledger>>
  BY DEF CancelDiscovery
<1>2. /\ Runs'
      /\ \/ session'.state = "cancelled" /\ Where' = "cancelled"
         \/ session'.state \in Operations /\ Where' = Where
  BY <1>1, PersistCancel
<1>3. Calling' /\ Claimed'
  BY <1>1, OutdateKeeps DEF Places
<1>4. /\ Ledger' /\ Assisted' /\ UNCHANGED <<present, bound>>
      /\ session'.state \notin Terminal => UNCHANGED engine
  BY <1>1, CloseKeeps DEF Ledger, ledger
<1>5. Placed'
  BY <1>2, <1>4, PlaceKept, PlaceEnds, Names DEF Terminal, engine
<1>6. QED
  BY <1>2, <1>3, <1>4, <1>5

LEMMA RequestAssistantKeeps ==
    ASSUME IInv, NEW t \in Threads, RequestAssistant(t) PROVE IInv'
<1> USE DEF IInv
<1>1. /\ Persist(Act("request_assistant"), None) /\ Outdate(t, "drive") /\ InitializeAssistant
      /\ bound' = FALSE /\ UNCHANGED <<assisted, ledger>>
  BY DEF RequestAssistant
<1>2. "request_assistant" \in WaitingKinds
  BY DEF WaitingKinds
<1>3. /\ Runs' /\ Where = session.state /\ Where' = session'.state
      /\ <<session.state, "request_assistant", session'.state>> \in Steps
  BY <1>1, <1>2, CommandMoves
<1>4. Where = "awaiting_evidence" /\ Where' = "awaiting_assistant"
  BY <1>3 DEF Steps
<1>5. Calling' /\ Claimed'
  BY <1>1, OutdateKeeps DEF Places
<1>6. /\ Assisted' /\ present' /\ (present => UNCHANGED engine)
      /\ (~ present => state' = "awaiting_consent")
  BY <1>1, InitializeKeeps
<1>7. Ledger'
  BY <1>1, <1>6 DEF Ledger, ledger, InitializeAssistant
<1>8. Placed'
  BY <1>4, <1>6 DEF Placed, Early, Late, engine
<1>9. QED
  BY <1>3, <1>5, <1>6, <1>7, <1>8

LEMMA ApproveAssistantKeeps ==
    ASSUME IInv, NEW t \in Threads, ApproveAssistant(t) PROVE IInv'
<1> USE DEF IInv
<1>1. /\ Persist(Act("approve_assistant"), None) /\ Outdate(t, "drive") /\ A!GrantConsent
      /\ present /\ bound' = TRUE /\ UNCHANGED <<assisted, ledger, present>>
  BY DEF ApproveAssistant
<1>2. "approve_assistant" \in WaitingKinds
  BY DEF WaitingKinds
<1>3. /\ Runs' /\ Where = session.state /\ Where' = session'.state
      /\ <<session.state, "approve_assistant", session'.state>> \in Steps
  BY <1>1, <1>2, CommandMoves
<1>4. Where' = "building_assistant"
  BY <1>3 DEF Steps
<1>5. Calling' /\ Claimed'
  BY <1>1, OutdateKeeps DEF Places
<1>6. EngineInv' /\ state' = "ready"
  BY <1>1, EngineGrantConsent DEF Assisted, A!GrantConsent
<1>7. Assisted'
  BY <1>1, <1>6 DEF Assisted, EngineInv, A!OnlyApprovedIsDisclosed
<1>8. Ledger'
  BY <1>1 DEF Ledger, ledger
<1>9. Placed'
  BY <1>1, <1>4, <1>6 DEF Placed, Early, Late, Working
<1>10. QED
  BY <1>3, <1>5, <1>7, <1>8, <1>9

LEMMA DeclineAssistantKeeps ==
    ASSUME IInv, NEW t \in Threads, DeclineAssistant(t) PROVE IInv'
<1> USE DEF IInv
<1>1. /\ Persist(Act("decline_assistant"), None) /\ Outdate(t, "drive") /\ Dropped(FALSE)
      /\ bound' = FALSE /\ UNCHANGED <<assisted, ledger>>
  BY DEF DeclineAssistant
<1>2. "decline_assistant" \in WaitingKinds
  BY DEF WaitingKinds
<1>3. /\ Runs' /\ Where = session.state /\ Where' = session'.state
      /\ <<session.state, "decline_assistant", session'.state>> \in Steps
  BY <1>1, <1>2, CommandMoves
<1>4. Where' = "awaiting_evidence"
  BY <1>3 DEF Steps
<1>5. Calling' /\ Claimed'
  BY <1>1, OutdateKeeps DEF Places
<1>6. Assisted' /\ present' = FALSE
  BY <1>1, DroppedKeeps
<1>7. Ledger'
  BY <1>1, <1>6 DEF Ledger, ledger
<1>8. Placed'
  BY <1>4, <1>6 DEF Placed, Early, Late
<1>9. QED
  BY <1>3, <1>5, <1>6, <1>7, <1>8

LEMMA SupplyMoreKeeps ==
    ASSUME IInv, NEW t \in Threads, NEW ids \in SUBSET Evidence, SupplyMoreEvidence(t, ids) PROVE IInv'
<1> USE DEF IInv
<1>1. /\ Persist(Act("supply_evidence"), None) /\ Outdate(t, "drive") /\ Dropped(questions)
      /\ ids \subseteq stored /\ extra' = ids /\ UNCHANGED <<assisted, stored, found, bound>>
  BY DEF SupplyMoreEvidence
<1>2. "supply_evidence" \in WaitingKinds
  BY DEF WaitingKinds
<1>3. /\ Runs' /\ Where = session.state /\ Where' = session'.state
      /\ <<session.state, "supply_evidence", session'.state>> \in Steps
  BY <1>1, <1>2, CommandMoves
<1>4. Where' = "extracting"
  BY <1>3 DEF Steps
<1>5. Calling' /\ Claimed'
  BY <1>1, OutdateKeeps DEF Places
<1>6. questions \in BOOLEAN
  BY DEF Assisted, A!TypeOK
<1>7. Assisted' /\ present' = FALSE
  BY <1>1, <1>6, DroppedKeeps
<1>8. Ledger'
  BY <1>1, <1>7 DEF Ledger
<1>9. Placed'
  BY <1>4, <1>7 DEF Placed, Early, Late
<1>10. QED
  BY <1>3, <1>5, <1>7, <1>8, <1>9

LEMMA SupplyFreshKeeps ==
    ASSUME IInv, NEW t \in Threads, NEW new \in SUBSET Evidence, SupplyFreshEvidence(t, new) PROVE IInv'
<1> USE DEF IInv
<1>1. /\ Persist(Act("supply_evidence"), None) /\ Outdate(t, "drive")
      /\ stored' = stored \cup new /\ found' = found \cup new /\ extra' = extra \cup new
      /\ UNCHANGED assisted
  BY DEF SupplyFreshEvidence
<1>2. "supply_evidence" \in WaitingKinds
  BY DEF WaitingKinds
<1>3. /\ Runs' /\ Where = session.state /\ Where' = session'.state
      /\ <<session.state, "supply_evidence", session'.state>> \in Steps
  BY <1>1, <1>2, CommandMoves
<1>4. Where' = "extracting"
  BY <1>3 DEF Steps
<1>5. Calling' /\ Claimed'
  BY <1>1, OutdateKeeps DEF Places
<1>6. CASE ~ present
  <2>1. SameAssistant
    BY <1>6 DEF SupplyFreshEvidence
  <2>2. Assisted' /\ Ledger' /\ ~ present'
    BY <1>1, <1>6, <2>1, SameKeeps DEF SameAssistant, Ledger
  <2>3. Placed'
    BY <1>4, <2>2 DEF Placed, Early, Late
  <2>4. QED
    BY <1>3, <1>5, <2>2, <2>3
<1>7. CASE present /\ ~ ContinuesWith(new)
  <2>1. Dropped(questions) /\ bound' = FALSE
    BY <1>7 DEF SupplyFreshEvidence
  <2>2. questions \in BOOLEAN
    BY DEF Assisted, A!TypeOK
  <2>3. Assisted' /\ present' = FALSE
    BY <2>1, <2>2, DroppedKeeps
  <2>4. Ledger'
    BY <1>1, <2>1, <2>3 DEF Ledger
  <2>5. Placed'
    BY <1>4, <2>3 DEF Placed, Early, Late
  <2>6. QED
    BY <1>3, <1>5, <2>3, <2>4, <2>5
<1>8. CASE present /\ ContinuesWith(new)
  <2>1. Continued(new) /\ UNCHANGED <<present, bound>>
    BY <1>8 DEF SupplyFreshEvidence, Continued, ContinuesWith
  <2>2. EngineInv' /\ state' = "ready"
    BY <1>8, <2>1, EngineContinued DEF Assisted, Continued
  <2>3. Assisted'
    BY <1>8, <2>1, <2>2 DEF Assisted, EngineInv, A!OnlyApprovedIsDisclosed
  <2>4. Ledger'
    BY <1>1, <2>1 DEF Ledger
  <2>5. Placed'
    BY <1>4, <2>2 DEF Placed, Early, Late
  <2>6. QED
    BY <1>3, <1>5, <2>3, <2>4, <2>5
<1>9. QED
  BY <1>6, <1>7, <1>8

(***************************************************************************)
(* The loop that drives the session.                                       *)
(***************************************************************************)
LEMMA StillRuns ==
    ASSUME Runs, UNCHANGED <<session, op, begun>> PROVE Runs' /\ Where' = Where
  BY DEF Runs, Where

LEMMA QuitKeeps ==
    ASSUME IInv, NEW t \in Threads, NEW pc \in Places \ {"execute"}, Goto(t, pc),
           SameAssistant, UNCHANGED <<session, op, assisted, ledger, begun>>
    PROVE  IInv'
<1> USE DEF IInv
<1>1. Runs' /\ Where' = Where
  BY StillRuns
<1>2. Calling' /\ Claimed'
  BY GotoKeeps
<1>3. Ledger' /\ Assisted' /\ UNCHANGED <<present, bound, state>>
  BY SameKeeps DEF SameAssistant, Ledger, ledger, engine
<1>4. Placed'
  BY <1>1, <1>3, PlaceKept
<1>5. QED
  BY <1>1, <1>2, <1>3, <1>4

(* An operation that is given up, or whose outcome is unknown.             *)
LEMMA InterruptKeeps ==
    ASSUME IInv, NEW t \in Threads, NEW pc \in Places \ {"execute"}, NEW known \in BOOLEAN, NEW outcome,
           outcome = IF known THEN "interrupted" ELSE "unknown",
           Persist(Interrupted(known), outcome), Outdate(t, pc), CloseIfTerminal,
           UNCHANGED <<assisted, ledger>>
    PROVE  IInv'
<1> USE DEF IInv
<1>1. /\ Runs'
      /\ \/ session'.state \in {"interrupted", "unknown"} /\ Where' = Where
         \/ session'.state = "cancelled" /\ Where' = "cancelled"
  BY PersistInterrupt
<1>2. Calling' /\ Claimed'
  BY OutdateKeeps
<1>3. /\ Ledger' /\ Assisted' /\ UNCHANGED <<present, bound>>
      /\ session'.state \notin Terminal => UNCHANGED engine
  BY CloseKeeps DEF Ledger, ledger
<1>4. Placed'
  BY <1>1, <1>3, PlaceKept, PlaceEnds DEF Terminal, engine
<1>5. QED
  BY <1>1, <1>2, <1>3, <1>4

LEMMA SettleKeeps ==
    ASSUME IInv, NEW t \in Threads, SettlePreparedCancellation(t) PROVE IInv'
<1>1. \/ /\ Persist(Interrupted(TRUE), "interrupted") /\ Outdate(t, "drive") /\ CloseIfTerminal
         /\ UNCHANGED <<assisted, ledger>>
      \/ /\ Goto(t, "drive") /\ SameAssistant
         /\ UNCHANGED <<session, op, assisted, ledger, begun>>
  BY DEF SettlePreparedCancellation
<1>2. "drive" \in Places \ {"execute"}
  BY DEF Places
<1>3. QED
  BY <1>1, <1>2, InterruptKeeps, QuitKeeps

LEMMA CredentialMissingKeeps ==
    ASSUME IInv, NEW t \in Threads, CredentialMissing(t) PROVE IInv'
<1>1. \/ /\ Persist(Interrupted(TRUE), "interrupted") /\ Outdate(t, "idle") /\ CloseIfTerminal
         /\ UNCHANGED <<assisted, ledger>>
      \/ /\ Goto(t, "idle") /\ SameAssistant
         /\ UNCHANGED <<session, op, assisted, ledger, begun>>
  BY DEF CredentialMissing
<1>2. "idle" \in Places \ {"execute"}
  BY DEF Places
<1>3. QED
  BY <1>1, <1>2, InterruptKeeps, QuitKeeps

LEMMA ReadKeeps ==
    ASSUME IInv, NEW t \in Threads, ReadSession(t) PROVE IInv'
<1> USE DEF IInv
<1>1. /\ run' = [run EXCEPT ![t] = [Idle EXCEPT !.pc = "claim", !.fresh = TRUE]]
      /\ SameAssistant /\ UNCHANGED <<session, op, assisted, ledger, begun>>
  BY DEF ReadSession
<1>2. Runs' /\ Where' = Where
  BY <1>1, StillRuns
<1>3. Calling' /\ \A u \in Threads : Executes(u)' => Executes(u)
  BY <1>1 DEF Calling, Executes, At, Idle, Places
<1>4. Claimed'
  BY <1>1, <1>3 DEF Claimed
<1>5. Ledger' /\ Assisted' /\ UNCHANGED <<present, bound, state>>
  BY <1>1, SameKeeps DEF SameAssistant, Ledger, ledger, engine
<1>6. Placed'
  BY <1>2, <1>5, PlaceKept
<1>7. QED
  BY <1>2, <1>3, <1>4, <1>5, <1>6

LEMMA ClaimKeeps ==
    ASSUME IInv, NEW t \in Threads, ClaimOperation(t) PROVE IInv'
<1> USE DEF IInv
<1>1. At(t, "claim") /\ SameAssistant /\ UNCHANGED <<session, assisted, ledger>>
  BY DEF ClaimOperation
<1>2. CASE Goto(t, "idle") /\ UNCHANGED <<op, begun>>
  <2>1. "idle" \in Places \ {"execute"}
    BY DEF Places
  <2>2. QED
    BY <1>1, <1>2, <2>1, QuitKeeps
<1>3. CASE /\ op # NoOp /\ Startable
           /\ run' = [run EXCEPT ![t].pc = "execute"]
           /\ op' = [op EXCEPT !.status = "started"] /\ begun' = begun + 1
  <2>1. op.status = "prepared" /\ op \in [kind : Operations, status : {"prepared", "started"}] /\ begun = 0
    BY <1>3 DEF Startable, Runs, NoOp
  <2>2. /\ op' \in [kind : Operations, status : {"prepared", "started"}]
        /\ op'.kind = op.kind /\ op'.status = "started" /\ begun' = 1
    BY <1>3, <2>1
  <2>3. session.state \in Operations
    BY <1>3 DEF Runs
  <2>4. Runs' /\ Where' = Where
    BY <1>1, <2>2, <2>3 DEF Runs, Where
  <2>5. \A u \in Threads : ~ Executes(u)
    BY <2>1 DEF Claimed
  <2>6. /\ Calling' /\ \A u \in Threads : Executes(u)' => Executes(u) \/ u = t
    BY <1>3 DEF Calling, Executes, At, Places
  <2>7. Claimed'
    BY <2>2, <2>5, <2>6 DEF Claimed
  <2>8. Ledger' /\ Assisted' /\ UNCHANGED <<present, bound, state>>
    BY <1>1, SameKeeps DEF SameAssistant, Ledger, ledger, engine
  <2>9. Placed'
    BY <2>4, <2>8, PlaceKept
  <2>10. QED
    BY <2>4, <2>6, <2>7, <2>8, <2>9
<1>4. QED
  BY <1>2, <1>3 DEF ClaimOperation

LEMMA RefusedKeeps ==
    ASSUME IInv, NEW t \in Threads, ResultRefused(t) PROVE IInv'
<1>1. Goto(t, "idle") /\ SameAssistant /\ UNCHANGED <<session, op, assisted, ledger, begun>>
  BY DEF ResultRefused
<1>2. "idle" \in Places \ {"execute"}
  BY DEF Places
<1>3. QED
  BY <1>1, <1>2, QuitKeeps

(***************************************************************************)
(* Results of an operation.                                                *)
(***************************************************************************)
LEMMA CollectKeeps ==
    ASSUME IInv, NEW t \in Threads, NEW kind \in {"no_candidates", "candidates", "documents_fetched"},
           NEW ev \in SUBSET Evidence, CollectEvidence(t, kind, ev)
    PROVE  IInv'
<1> USE DEF IInv
<1>1. /\ Persist(Act(kind), "succeeded") /\ Outdate(t, "drive") /\ CloseIfTerminal
      /\ found' = ev /\ stored' = stored \cup ev /\ UNCHANGED <<assisted, extra>>
  BY DEF CollectEvidence, CompleteOperation
<1>2. kind \in CompletingKinds /\ None \in Manifests \cup {None} /\ Act(kind) = [kind |-> kind, manifest |-> None]
  BY DEF CompletingKinds, Act
<1>3. /\ Runs' /\ Where = session.state /\ Where' = session'.state
      /\ \/ <<session.state, kind, session'.state>> \in Steps
         \/ session'.state = "cancelled" /\ \E y : <<session.state, kind, y>> \in Steps
  BY <1>1, <1>2, ResultMoves
<1>4. Calling' /\ Claimed'
  BY <1>1, OutdateKeeps DEF Places
<1>5. /\ Assisted' /\ UNCHANGED <<present, bound>>
      /\ session'.state \notin Terminal => UNCHANGED engine
  BY <1>1, CloseKeeps
<1>6. Ledger'
  BY <1>1, <1>5 DEF Ledger
<1>7. CASE session'.state = "cancelled"
  BY <1>3, <1>4, <1>5, <1>6, <1>7, PlaceEnds DEF Terminal
<1>8. CASE <<session.state, kind, session'.state>> \in Steps
  <2>1. Where \in {"resolving", "fetching"} /\ Where' \in {"awaiting_template", "fetching", "extracting"}
    BY <1>3, <1>8 DEF Steps
  <2>2. ~ present'
    BY <1>5, <2>1 DEF Placed, Early
  <2>3. Placed'
    BY <2>1, <2>2 DEF Placed, Early, Late
  <2>4. QED
    BY <1>3, <1>4, <1>5, <1>6, <2>3
<1>9. QED
  BY <1>3, <1>7, <1>8

StepResults == {"draft_built", "validated", "validated_needs_origin", "models_listed",
                "probe_candidates", "probes_completed"}
LEMMA CompleteStepKeeps ==
    ASSUME IInv, NEW t \in Threads, NEW kind \in StepResults, NEW m \in Manifest,
           CompleteStep(t, kind, m)
    PROVE  IInv'
<1> USE DEF IInv
<1>1. /\ Persist([kind |-> kind, manifest |-> m], "succeeded") /\ Outdate(t, "drive")
      /\ CloseIfTerminal /\ UNCHANGED <<assisted, ledger>>
      /\ op.kind \in {"building_deterministic", "validating", "listing", "probing"}
  BY DEF CompleteStep, CompleteOperation
<1>2. kind \in CompletingKinds /\ m \in Manifests \cup {None}
  BY DEF CompletingKinds, StepResults, Manifest, Runs, Sessions
<1>3. /\ Runs' /\ Where = session.state /\ Where' = session'.state /\ session.state \in Operations
      /\ \/ <<session.state, kind, session'.state>> \in Steps
         \/ session'.state = "cancelled" /\ \E y : <<session.state, kind, y>> \in Steps
  BY <1>1, <1>2, ResultMoves
<1>4. Calling' /\ Claimed'
  BY <1>1, OutdateKeeps DEF Places
<1>5. /\ Ledger' /\ Assisted' /\ UNCHANGED <<present, bound>>
      /\ session'.state \notin Terminal => UNCHANGED engine
  BY <1>1, CloseKeeps DEF Ledger, ledger
<1>6. CASE session'.state = "cancelled"
  BY <1>3, <1>4, <1>5, <1>6, PlaceEnds DEF Terminal
<1>7. CASE <<session.state, kind, session'.state>> \in Steps
  <2>1. session.state = op.kind
    BY <1>3 DEF Runs
  <2>2. Where \in Late /\ Where' \in Late /\ session'.state \notin Terminal
    BY <1>1, <1>3, <1>7, <2>1 DEF Steps, Late, StepResults, Terminal
  <2>3. present' = present /\ state' = state
    BY <1>5, <2>2 DEF engine
  <2>4. Placed'
    BY <2>2, <2>3 DEF Placed, Early, Late
  <2>5. QED
    BY <1>3, <1>4, <1>5, <2>4
<1>8. QED
  BY <1>3, <1>6, <1>7

(* The four ends of ExtractEvidence.                                       *)
LEMMA ExtractMoves ==
    ASSUME IInv, NEW t \in Threads, NEW kind \in CompletingKinds, op.kind = "extracting",
           CompleteOperation(t, Act(kind))
    PROVE  /\ Runs' /\ Where = "extracting" /\ Where' = session'.state
           /\ Calling' /\ Claimed'
           /\ \/ <<"extracting", kind, session'.state>> \in Steps
              \/ session'.state = "cancelled"
<1> USE DEF IInv
<1>1. Persist(Act(kind), "succeeded") /\ Outdate(t, "drive")
  BY DEF CompleteOperation
<1>2. None \in Manifests \cup {None} /\ Act(kind) = [kind |-> kind, manifest |-> None]
  BY DEF Act
<1>3. /\ Runs' /\ Where = session.state /\ Where' = session'.state /\ session.state \in Operations
      /\ \/ <<session.state, kind, session'.state>> \in Steps
         \/ session'.state = "cancelled"
  BY <1>1, <1>2, ResultMoves
<1>4. session.state = "extracting"
  BY <1>3 DEF Runs
<1>5. Calling' /\ Claimed'
  BY <1>1, OutdateKeeps DEF Places
<1>6. QED
  BY <1>3, <1>4, <1>5

LEMMA ExtractDeterministicKeeps ==
    ASSUME IInv, NEW t \in Threads, ExtractDeterministic(t) PROVE IInv'
<1> USE DEF IInv
<1>1. /\ op.kind = "extracting" /\ CompleteOperation(t, Act("deterministic_available"))
      /\ Dropped(FALSE) /\ bound' = FALSE /\ UNCHANGED <<assisted, ledger>>
  BY DEF ExtractDeterministic
<1>2. "deterministic_available" \in CompletingKinds
  BY DEF CompletingKinds
<1>3. /\ Runs' /\ Where' = session'.state /\ Calling' /\ Claimed'
      /\ \/ <<"extracting", "deterministic_available", session'.state>> \in Steps
         \/ session'.state = "cancelled"
  BY <1>1, <1>2, ExtractMoves
<1>4. Where' \in {"building_deterministic", "cancelled"}
  BY <1>3 DEF Steps
<1>5. Assisted' /\ present' = FALSE
  BY <1>1, DroppedKeeps
<1>6. Ledger'
  BY <1>1, <1>5 DEF Ledger, ledger
<1>7. Placed'
  BY <1>4, <1>5 DEF Placed, Early, Late
<1>8. QED
  BY <1>3, <1>5, <1>6, <1>7

LEMMA ExtractResumedKeeps ==
    ASSUME IInv, NEW t \in Threads, ExtractResumed(t) PROVE IInv'
<1> USE DEF IInv
<1>1. /\ op.kind = "extracting" /\ CompleteOperation(t, Act("assistant_resumed"))
      /\ present /\ state = "ready" /\ bound /\ CloseIfTerminal /\ UNCHANGED <<assisted, ledger>>
  BY DEF ExtractResumed, Resumable
<1>2. "assistant_resumed" \in CompletingKinds
  BY DEF CompletingKinds
<1>3. /\ Runs' /\ Where' = session'.state /\ Calling' /\ Claimed'
      /\ \/ <<"extracting", "assistant_resumed", session'.state>> \in Steps
         \/ session'.state = "cancelled"
  BY <1>1, <1>2, ExtractMoves
<1>4. session'.state \in {"building_assistant", "cancelled"}
  BY <1>3 DEF Steps
<1>5. /\ Ledger' /\ Assisted' /\ UNCHANGED <<present, bound>>
      /\ session'.state \notin Terminal => UNCHANGED engine
  BY <1>1, CloseKeeps DEF Ledger, ledger
<1>6. Placed'
  BY <1>1, <1>3, <1>4, <1>5, PlaceEnds DEF Placed, Early, Late, Working, Terminal, engine
<1>7. QED
  BY <1>3, <1>5, <1>6

LEMMA ExtractRecommendedKeeps ==
    ASSUME IInv, NEW t \in Threads, ExtractRecommended(t) PROVE IInv'
<1> USE DEF IInv
<1>1. /\ op.kind = "extracting" /\ CompleteOperation(t, Act("assistant_recommended"))
      /\ ~ (present /\ state = "ready") /\ InitializeAssistant /\ bound' = (bound /\ present)
      /\ UNCHANGED <<assisted, ledger>>
  BY DEF ExtractRecommended, Resumable
<1>2. "assistant_recommended" \in CompletingKinds
  BY DEF CompletingKinds
<1>3. /\ Runs' /\ Where = "extracting" /\ Where' = session'.state /\ Calling' /\ Claimed'
      /\ \/ <<"extracting", "assistant_recommended", session'.state>> \in Steps
         \/ session'.state = "cancelled"
  BY <1>1, <1>2, ExtractMoves
<1>4. Where' \in {"awaiting_assistant", "cancelled"}
  BY <1>3 DEF Steps
<1>5. ~ present
  BY <1>1, <1>3 DEF Placed
<1>6. Assisted' /\ present' /\ state' = "awaiting_consent"
  BY <1>1, <1>5, InitializeKeeps
<1>7. Ledger'
  BY <1>1, <1>5, <1>6 DEF Ledger, ledger, InitializeAssistant
<1>8. Placed'
  BY <1>4, <1>6 DEF Placed, Early, Late
<1>9. QED
  BY <1>3, <1>6, <1>7, <1>8

LEMMA ExtractNothingKeeps ==
    ASSUME IInv, NEW t \in Threads, ExtractNothing(t) PROVE IInv'
<1> USE DEF IInv
<1>1. /\ op.kind = "extracting" /\ CompleteOperation(t, Act("more_evidence_required"))
      /\ ~ (present /\ state = "ready") /\ CloseIfTerminal /\ UNCHANGED <<assisted, ledger>>
  BY DEF ExtractNothing, Resumable
<1>2. "more_evidence_required" \in CompletingKinds
  BY DEF CompletingKinds
<1>3. /\ Runs' /\ Where = "extracting" /\ Where' = session'.state /\ Calling' /\ Claimed'
      /\ \/ <<"extracting", "more_evidence_required", session'.state>> \in Steps
         \/ session'.state = "cancelled"
  BY <1>1, <1>2, ExtractMoves
<1>4. session'.state \in {"awaiting_evidence", "cancelled"}
  BY <1>3 DEF Steps
<1>5. ~ present
  BY <1>1, <1>3 DEF Placed
<1>6. /\ Ledger' /\ Assisted' /\ UNCHANGED <<present, bound>>
  BY <1>1, CloseKeeps DEF Ledger, ledger
<1>7. Placed'
  BY <1>3, <1>4, <1>5, <1>6 DEF Placed, Early, Late
<1>8. QED
  BY <1>3, <1>6, <1>7

LEMMA FailsKeeps ==
    ASSUME IInv, NEW t \in Threads, NEW f \in Failures, OperationFails(t, f) PROVE IInv'
<1>1. /\ Persist(f[1], f[2]) /\ Outdate(t, "idle") /\ CloseIfTerminal /\ UNCHANGED <<assisted, ledger>>
  BY DEF OperationFails
<1>2. "idle" \in Places \ {"execute"}
  BY DEF Places
<1>3. CASE f = <<Interrupted(TRUE), "interrupted">>
  BY <1>1, <1>2, <1>3, InterruptKeeps
<1>4. CASE f = <<Interrupted(FALSE), "unknown">>
  BY <1>1, <1>2, <1>4, InterruptKeeps
<1>5. CASE f = <<Act("fail"), "failed">>
  <2> USE DEF IInv
  <2>1. Runs' /\ session'.state \in {"failed", "cancelled"} /\ Where' = session'.state
    BY <1>1, <1>5, PersistFail
  <2>2. Calling' /\ Claimed'
    BY <1>1, <1>2, OutdateKeeps
  <2>3. Ledger' /\ Assisted'
    BY <1>1, CloseKeeps DEF Ledger, ledger
  <2>4. Placed'
    BY <2>1, PlaceEnds DEF Terminal
  <2>5. QED
    BY <2>1, <2>2, <2>3, <2>4
<1>6. QED
  BY <1>3, <1>4, <1>5 DEF Failures

(***************************************************************************)
(* The assistant's turns.                                                  *)
(***************************************************************************)
LEMMA StartKeeps ==
    ASSUME IInv, NEW t \in Threads, StartAssistantOperation(t) PROVE IInv'
<1> USE DEF IInv
<1>1. /\ op.kind = "building_assistant" /\ op' = [op EXCEPT !.status = "started"]
      /\ run' = [run EXCEPT ![t] = [Idle EXCEPT !.pc = "turn", !.fresh = TRUE]]
      /\ SameAssistant /\ UNCHANGED <<session, assisted, ledger, begun>>
  BY DEF StartAssistantOperation
<1>2. op \in [kind : Operations, status : {"prepared", "started"}] /\ session.state \in Operations
  BY <1>1, Names DEF Runs, None
<1>3. /\ op' \in [kind : Operations, status : {"prepared", "started"}]
      /\ op'.kind = op.kind /\ op'.status = "started"
  BY <1>1, <1>2
<1>4. Runs' /\ Where' = Where
  BY <1>1, <1>2, <1>3 DEF Runs, Where
<1>5. Calling' /\ \A u \in Threads : Executes(u)' => Executes(u)
  BY <1>1 DEF Calling, Executes, At, Idle, Places
<1>6. Claimed'
  BY <1>3, <1>5 DEF Claimed
<1>7. Ledger' /\ Assisted' /\ UNCHANGED <<present, bound, state>>
  BY <1>1, SameKeeps DEF SameAssistant, Ledger, ledger, engine
<1>8. Placed'
  BY <1>4, <1>7, PlaceKept
<1>9. QED
  BY <1>4, <1>5, <1>6, <1>7, <1>8

LEMMA QuitLoopKeeps ==
    ASSUME IInv, NEW t \in Threads, Quit(t) PROVE IInv'
<1>1. "idle" \in Places \ {"execute"}
  BY DEF Places
<1>2. QED
  BY <1>1, QuitKeeps DEF Quit

(* A checkpoint stores the assistant and leaves the session in its state.  *)
LEMMA CheckpointKeeps ==
    ASSUME IInv, Persist(Act("checkpointed"), None), Calling', Claimed',
           EngineInv => EngineInv', state' \in Working, UNCHANGED <<assisted, ledger, present, bound>>
    PROVE  IInv' /\ session.state = "building_assistant" /\ ~ session.cancelling
<1> USE DEF IInv
<1>1. /\ Runs' /\ session.state = "building_assistant" /\ session'.state = session.state
      /\ ~ session.cancelling /\ op' = op
  BY PersistCheckpoint
<1>2. Where = "building_assistant" /\ Where' = "building_assistant"
  BY <1>1 DEF Where
<1>3. present /\ bound
  BY <1>2 DEF Placed
<1>4. EngineInv'
  BY <1>3 DEF Assisted
<1>5. Assisted'
  BY <1>3, <1>4 DEF Assisted, EngineInv, A!OnlyApprovedIsDisclosed
<1>6. Placed'
  BY <1>2, <1>3 DEF Placed, Early, Late
<1>7. Ledger'
  BY DEF Ledger, ledger
<1>8. QED
  BY <1>1, <1>5, <1>6, <1>7

LEMMA BeginTurnKeeps ==
    ASSUME IInv, NEW t \in Threads, NEW estimate \in Estimates, BeginTurn(t, estimate) PROVE IInv'
<1>1. /\ A!BeginTurn(estimate) /\ Persist(Act("checkpointed"), None) /\ Outdate(t, "call")
      /\ UNCHANGED <<assisted, ledger, present, bound>>
  BY DEF BeginTurn, Checkpoint
<1>2. Calling' /\ Claimed'
  BY <1>1, OutdateKeeps DEF IInv, Places
<1>3. (EngineInv => EngineInv') /\ state' \in Working
  BY <1>1, EngineBeginTurn DEF A!BeginTurn, Working
<1>4. QED
  BY <1>1, <1>2, <1>3, CheckpointKeeps

LEMMA AnswerToolKeeps ==
    ASSUME IInv, NEW t \in Threads, NEW about \in Evidence \cup {"questions", "nothing"},
           AnswerWithTool(t, about)
    PROVE  IInv'
<1>1. /\ A!CallTool(about) /\ Persist(Act("checkpointed"), None)
      /\ run' = [u \in Threads |->
                   IF u = t THEN [Idle EXCEPT !.pc = "tool", !.call = nextCall]
                   ELSE [run[u] EXCEPT !.fresh = FALSE]]
      /\ UNCHANGED <<assisted, ledger, present, bound>>
  BY DEF AnswerWithTool
<1>2. nextCall \in Nat
  BY DEF IInv, Assisted, A!TypeOK
<1>3. Calling' /\ \A u \in Threads : ~ run'[u].fresh
  BY <1>1, <1>2 DEF IInv, Calling, Idle, Places
<1>4. Claimed'
  BY <1>3 DEF Claimed, Executes
<1>5. about \in Evidence \cup {"questions", A!Nothing}
  BY DEF A!Nothing
<1>6. (EngineInv => EngineInv') /\ state' \in Working
  BY <1>1, <1>5, EngineCallTool DEF A!CallTool, Working
<1>7. QED
  BY <1>1, <1>3, <1>4, <1>6, CheckpointKeeps

LEMMA AnswerDraftKeeps ==
    ASSUME IInv, NEW t \in Threads, NEW cites \in SUBSET Evidence, NEW open \in BOOLEAN,
           AnswerWithDraft(t, cites, open)
    PROVE  IInv'
<1>1. /\ A!SubmitDraft(cites, open) /\ Persist(Act("checkpointed"), None) /\ Outdate(t, "idle")
      /\ UNCHANGED <<assisted, ledger, present, bound>>
  BY DEF AnswerWithDraft, Checkpoint
<1>2. Calling' /\ Claimed'
  BY <1>1, OutdateKeeps DEF IInv, Places
<1>3. (EngineInv => EngineInv') /\ state' \in Working
  BY <1>1, EngineSubmitDraft DEF A!SubmitDraft, Working
<1>4. QED
  BY <1>1, <1>2, <1>3, CheckpointKeeps

LEMMA AnswerQuestionsKeeps ==
    ASSUME IInv, NEW t \in Threads, AnswerWithQuestions(t) PROVE IInv'
<1> USE DEF IInv
<1>1. /\ present /\ Persist(Act("requested_evidence"), "succeeded") /\ Outdate(t, "idle")
      /\ IF session'.state \in Terminal THEN A!Cancel ELSE A!NeedMoreEvidence
      /\ UNCHANGED <<assisted, ledger, present, bound>>
  BY DEF AnswerWithQuestions, Awaited
<1>2. /\ "requested_evidence" \in CompletingKinds /\ None \in Manifests \cup {None}
      /\ Act("requested_evidence") = [kind |-> "requested_evidence", manifest |-> None]
  BY DEF CompletingKinds, Act
<1>3. /\ Runs' /\ Where' = session'.state
      /\ \/ <<session.state, "requested_evidence", session'.state>> \in Steps
         \/ session'.state = "cancelled"
  BY <1>1, <1>2, ResultMoves
<1>4. session'.state \in {"awaiting_evidence", "cancelled"}
  BY <1>3 DEF Steps
<1>5. Calling' /\ Claimed'
  BY <1>1, OutdateKeeps DEF Places
<1>6. EngineInv
  BY <1>1 DEF Assisted
<1>7. EngineInv' /\ (session'.state \notin Terminal => state' = "awaiting_more_evidence")
  BY <1>1, <1>6, EngineCancel, EngineNeedMoreEvidence DEF A!NeedMoreEvidence
<1>8. Assisted' /\ Ledger'
  BY <1>1, <1>7 DEF Assisted, EngineInv, A!OnlyApprovedIsDisclosed, Ledger, ledger
<1>9. Placed'
  BY <1>3, <1>4, <1>7 DEF Placed, Early, Late, Terminal
<1>10. QED
  BY <1>3, <1>5, <1>8, <1>9

LEMMA RecordFailureKeeps ==
    ASSUME IInv, NEW t \in Threads, NEW retryable \in BOOLEAN, RecordFailure(t, retryable) PROVE IInv'
<1>1. /\ present /\ A!RecordFailure(retryable) /\ Outdate(t, "idle")
      /\ IF state' = "failed" THEN Persist(Act("fail"), "failed")
                              ELSE Persist(Act("checkpointed"), None)
      /\ UNCHANGED <<assisted, ledger, present, bound>>
  BY DEF RecordFailure, Awaited
<1>2. Calling' /\ Claimed'
  BY <1>1, OutdateKeeps DEF IInv, Places
<1>3. (EngineInv => EngineInv') /\ state' \in {"awaiting_retry_consent", "failed"}
  BY <1>1, EngineRecordFailure DEF A!RecordFailure, A!TransitionAfterFailure
<1>4. CASE state' # "failed"
  BY <1>1, <1>2, <1>3, <1>4, CheckpointKeeps DEF Working
<1>5. CASE state' = "failed"
  <2> USE DEF IInv
  <2>1. Runs' /\ session'.state \in {"failed", "cancelled"} /\ Where' = session'.state
    BY <1>1, <1>5, PersistFail
  <2>2. EngineInv'
    BY <1>1, <1>3 DEF Assisted
  <2>3. Assisted' /\ Ledger'
    BY <1>1, <2>2 DEF Assisted, EngineInv, A!OnlyApprovedIsDisclosed, Ledger, ledger
  <2>4. Placed'
    BY <2>1, PlaceEnds DEF Terminal
  <2>5. QED
    BY <1>2, <2>1, <2>3, <2>4
<1>6. QED
  BY <1>4, <1>5

LEMMA ToolResultKeeps ==
    ASSUME IInv, NEW t \in Threads, NEW cites \in SUBSET Evidence,
           SubmitToolResult(t, cites) \/ ResumeToolCall(t, cites)
    PROVE  IInv'
<1>1. /\ A!SubmitToolResult(cites) /\ Persist(Act("checkpointed"), None)
      /\ Outdate(t, "loop") \/ Outdate(t, "idle")
      /\ UNCHANGED <<assisted, ledger, present, bound>>
  BY DEF SubmitToolResult, ResumeToolCall, Checkpoint
<1>2. Calling' /\ Claimed'
  BY <1>1, OutdateKeeps DEF IInv, Places
<1>3. (EngineInv => EngineInv') /\ state' \in Working
  BY <1>1, EngineSubmitToolResult DEF A!SubmitToolResult, Working
<1>4. QED
  BY <1>1, <1>2, <1>3, CheckpointKeeps

LEMMA InterruptAssistantKeeps ==
    ASSUME IInv, NEW t \in Threads, NEW outcome \in {"interrupted", "unknown"},
           InterruptAssistant(t, outcome, outcome = "interrupted")
    PROVE  IInv'
<1> USE DEF IInv
<1> DEFINE known == outcome = "interrupted"
<1>1. /\ present /\ state \in A!InFlight /\ Persist(Interrupted(known), outcome) /\ Outdate(t, "idle")
      /\ IF session'.state \in Terminal THEN A!Cancel ELSE A!MarkInterrupted
      /\ UNCHANGED <<assisted, ledger, present, bound>>
  BY DEF InterruptAssistant, Interruptible
<1>2. known \in BOOLEAN /\ outcome = IF known THEN "interrupted" ELSE "unknown"
  OBVIOUS
<1> HIDE DEF known
<1>3. /\ Runs' /\ Where = session.state /\ session.state \in Operations
      /\ \/ session'.state \in {"interrupted", "unknown"} /\ Where' = Where
         \/ session'.state = "cancelled" /\ Where' = "cancelled"
  BY <1>1, <1>2, PersistInterrupt
<1>4. Calling' /\ Claimed'
  BY <1>1, OutdateKeeps DEF Places
<1>5. EngineInv
  BY <1>1 DEF Assisted
<1>6. EngineInv' /\ (session'.state \notin Terminal => state' = "interrupted")
  BY <1>1, <1>5, EngineCancel, EngineMarkInterrupted DEF A!MarkInterrupted
<1>7. Assisted' /\ Ledger'
  BY <1>1, <1>6 DEF Assisted, EngineInv, A!OnlyApprovedIsDisclosed, Ledger, ledger
<1>8. Where = "building_assistant"
  BY <1>1, <1>3 DEF Placed, Early, Late, A!InFlight, Runs, Operations, ReadOnly, Deterministic, Billable, Persistent
<1>9. Placed'
  BY <1>1, <1>3, <1>6, <1>8, Names, PlaceEnds DEF Placed, Early, Late, Terminal, Working
<1>10. QED
  BY <1>3, <1>4, <1>7, <1>9

LEMMA ToolFailedKeeps ==
    ASSUME IInv, NEW t \in Threads, ToolFailed(t) PROVE IInv'
<1>1. Quit(t) \/ InterruptAssistant(t, "interrupted", TRUE)
  BY DEF ToolFailed
<1>2. ("interrupted" = "interrupted") = TRUE
  OBVIOUS
<1>3. QED
  BY <1>1, <1>2, QuitLoopKeeps, InterruptAssistantKeeps

LEMMA RetryKeeps ==
    ASSUME IInv, NEW t \in Threads, ApproveRetry(t) \/ RequestDraftRevision(t) PROVE IInv'
<1>1. /\ A!ApproveRetry \/ A!RequestDraftRevision
      /\ Persist(Act("checkpointed"), None) /\ Outdate(t, "idle")
      /\ UNCHANGED <<assisted, ledger, present, bound>>
  BY DEF ApproveRetry, RequestDraftRevision, Checkpoint
<1>2. Calling' /\ Claimed'
  BY <1>1, OutdateKeeps DEF IInv, Places
<1>3. (EngineInv => EngineInv') /\ state' \in Working
  BY <1>1, EngineApproveRetry, EngineRequestDraftRevision DEF A!ApproveRetry, A!RequestDraftRevision, Working
<1>4. QED
  BY <1>1, <1>2, <1>3, CheckpointKeeps

LEMMA AcceptKeeps ==
    ASSUME IInv, NEW t \in Threads, NEW m \in Manifests, AcceptDraft(t, m) PROVE IInv'
<1> USE DEF IInv
<1>1. /\ present /\ draft.made /\ bound' = FALSE
      /\ Persist([kind |-> "draft_built", manifest |-> m], "succeeded") /\ Outdate(t, "drive")
      /\ UNCHANGED engine /\ UNCHANGED <<assisted, ledger, present>>
  BY DEF AcceptDraft
<1>2. "draft_built" \in CompletingKinds /\ m \in Manifests \cup {None}
  BY DEF CompletingKinds
<1>3. /\ Runs' /\ Where' = session'.state
      /\ \/ <<session.state, "draft_built", session'.state>> \in Steps
         \/ session'.state = "cancelled"
  BY <1>1, <1>2, ResultMoves
<1>4. session'.state \in {"validating", "cancelled"}
  BY <1>3 DEF Steps
<1>5. Calling' /\ Claimed'
  BY <1>1, OutdateKeeps DEF Places
<1>6. Assisted' /\ Ledger' /\ state' = state
  BY <1>1, SameKeeps DEF Ledger, ledger, engine
<1>7. state = "draft_ready"
  BY <1>1 DEF Assisted, EngineInv, A!SnapshotRestores, A!ShapeRestorable
<1>8. Placed'
  BY <1>3, <1>4, <1>6, <1>7 DEF Placed, Early, Late
<1>9. QED
  BY <1>3, <1>5, <1>6, <1>8

LEMMA RestartAssistantKeeps ==
    ASSUME IInv, NEW t \in Threads, RestartAssistant(t) PROVE IInv'
<1> USE DEF IInv
<1>1. /\ present /\ Persist(Act("restart_interrupted"), None) /\ Outdate(t, "idle")
      /\ session.recovery = "building_assistant" /\ Reopened
      /\ UNCHANGED <<assisted, ledger, present, bound>>
  BY DEF RestartAssistant, Reopened
<1>2. Runs' /\ session.state = "interrupted" /\ Where' = Where
  BY <1>1, PersistRestart
<1>3. Where = "building_assistant"
  BY <1>1, <1>2 DEF Where
<1>4. Calling' /\ Claimed'
  BY <1>1, OutdateKeeps DEF Places
<1>5. EngineInv' /\ state' = "ready"
  BY <1>1, EngineReopened DEF Assisted, Reopened
<1>6. Assisted' /\ Ledger'
  BY <1>1, <1>5 DEF Assisted, EngineInv, A!OnlyApprovedIsDisclosed, Ledger, ledger
<1>7. Placed'
  BY <1>1, <1>2, <1>3, <1>5 DEF Placed, Early, Late, Working
<1>8. QED
  BY <1>2, <1>4, <1>6, <1>7

(***************************************************************************)
(* A crash, and recovery.                                                  *)
(***************************************************************************)
LEMMA RecoverKeeps ==
    ASSUME IInv, RecoverUnfinished, Calling', Claimed' PROVE IInv'
<1> USE DEF IInv
<1> DEFINE known == op.status = "prepared" \/ op.kind \notin Billable
           outcome == IF known THEN "interrupted" ELSE "unknown"
<1>1. /\ SameAssistant /\ UNCHANGED <<assisted, ledger>>
      /\ \/ UNCHANGED <<session, op, begun>>
         \/ Persist(Interrupted(known), outcome)
  BY DEF RecoverUnfinished
<1>2. known \in BOOLEAN
  OBVIOUS
<1> HIDE DEF known
<1>3. outcome = IF known THEN "interrupted" ELSE "unknown"
  OBVIOUS
<1> HIDE DEF outcome
<1>4. Ledger' /\ Assisted' /\ UNCHANGED <<present, bound, state>>
  BY <1>1, SameKeeps DEF SameAssistant, Ledger, ledger, engine
<1>5. CASE UNCHANGED <<session, op, begun>>
  BY <1>4, <1>5, StillRuns, PlaceKept
<1>6. CASE Persist(Interrupted(known), outcome)
  <2>1. Runs' /\ (Where' = Where \/ Where' = "cancelled")
    BY <1>2, <1>3, <1>6, PersistInterrupt
  <2>2. Placed'
    BY <1>4, <2>1, PlaceKept, PlaceEnds DEF Terminal
  <2>3. QED
    BY <1>4, <2>1, <2>2
<1>7. QED
  BY <1>1, <1>5, <1>6

LEMMA CrashKeeps ==
    ASSUME IInv, Restart PROVE IInv'
<1>1. RecoverUnfinished /\ run' = [t \in Threads |-> Idle]
  BY DEF Restart
<1>2. Calling' /\ Claimed'
  BY <1>1 DEF Calling, Claimed, Executes, At, Idle, Places
<1>3. QED
  BY <1>1, <1>2, RecoverKeeps

LEMMA RecoverCommandKeeps ==
    ASSUME IInv, NEW t \in Threads, RecoverCommand(t) PROVE IInv'
<1>1. RecoverUnfinished /\ Outdate(t, "idle")
  BY DEF RecoverCommand
<1>2. Calling' /\ Claimed'
  BY <1>1, OutdateKeeps DEF IInv, Places
<1>3. QED
  BY <1>1, <1>2, RecoverKeeps

(***************************************************************************)
(* Every step keeps the invariant.                                         *)
(***************************************************************************)
LEMMA ExecuteKeeps ==
    ASSUME IInv, NEW t \in Threads, Execute(t) PROVE IInv'
<1>1. CASE \E ev \in SUBSET Evidence, kind \in {"no_candidates", "candidates", "documents_fetched"} :
             CollectEvidence(t, kind, ev)
  BY <1>1, CollectKeeps
<1>2. CASE \E m \in Manifest, kind \in StepResults : CompleteStep(t, kind, m)
  BY <1>2, CompleteStepKeeps
<1>3. CASE \E f \in Failures : OperationFails(t, f)
  BY <1>3, FailsKeeps
<1>4. CASE \/ ExtractDeterministic(t) \/ ExtractResumed(t) \/ ExtractRecommended(t)
           \/ ExtractNothing(t) \/ ResultRefused(t)
  BY <1>4, ExtractDeterministicKeeps, ExtractResumedKeeps, ExtractRecommendedKeeps,
     ExtractNothingKeeps, RefusedKeeps
<1>5. QED
  BY <1>1, <1>2, <1>3, <1>4 DEF Execute, StepResults

LEMMA DrivesKeeps ==
    ASSUME IInv, NEW t \in Threads, Drives(t) PROVE IInv'
  BY SettleKeeps, ReadKeeps, ClaimKeeps, CredentialMissingKeeps, ExecuteKeeps DEF Drives

LEMMA TurnsKeeps ==
    ASSUME IInv, NEW t \in Threads, Turns(t) PROVE IInv'
<1>1. CASE StartAssistantOperation(t) \/ EndLoop(t) \/ ToolFailed(t) \/ AnswerRefused(t)
  BY <1>1, StartKeeps, QuitLoopKeeps, ToolFailedKeeps DEF EndLoop, AnswerRefused
<1>2. CASE \E estimate \in Estimates : BeginTurn(t, estimate) \/ RefuseTurn(t, estimate)
  BY <1>2, BeginTurnKeeps, QuitLoopKeeps DEF RefuseTurn
<1>3. CASE \E about \in Evidence \cup {"questions", "nothing"} : AnswerWithTool(t, about)
  BY <1>3, AnswerToolKeeps
<1>4. CASE \E cites \in SUBSET Evidence, open \in BOOLEAN : AnswerWithDraft(t, cites, open)
  BY <1>4, AnswerDraftKeeps
<1>5. CASE AnswerWithQuestions(t)
  BY <1>5, AnswerQuestionsKeeps
<1>6. CASE \E retryable \in BOOLEAN : RecordFailure(t, retryable)
  BY <1>6, RecordFailureKeeps
<1>7. CASE \E cites \in SUBSET Evidence : SubmitToolResult(t, cites)
  BY <1>7, ToolResultKeeps
<1>8. QED
  BY <1>1, <1>2, <1>3, <1>4, <1>5, <1>6, <1>7 DEF Turns, Answers

LEMMA CommandsKeep ==
    ASSUME IInv, NEW t \in Threads, Commands(t) PROVE IInv'
<1>1. CASE \/ Begin(t) \/ RequestAssistant(t) \/ ApproveAssistant(t) \/ DeclineAssistant(t)
           \/ CancelDiscovery(t) \/ RecoverCommand(t)
  BY <1>1, BeginKeeps, RequestAssistantKeeps, ApproveAssistantKeeps, DeclineAssistantKeeps,
     CancelKeeps, RecoverCommandKeeps
<1>2. CASE \E kind \in PlainActions : ContinueDiscovery(t, kind)
  BY <1>2, ContinueKeeps
<1>3. CASE \E r \in {"no_effect", "manual"} : ResolveUnknownOutcome(t, r)
  BY <1>3, ResolveKeeps
<1>4. CASE \E ids \in SUBSET Evidence : SupplyMoreEvidence(t, ids) \/ SupplyFreshEvidence(t, ids)
  BY <1>4, SupplyMoreKeeps, SupplyFreshKeeps
<1>5. CASE \E outcome \in {"interrupted", "unknown"} : HostInterrupts(t, outcome)
  BY <1>5, InterruptAssistantKeeps DEF HostInterrupts
<1>6. CASE \E cites \in SUBSET Evidence : ResumeToolCall(t, cites)
  BY <1>6, ToolResultKeeps
<1>7. CASE ApproveRetry(t) \/ RequestDraftRevision(t) \/ RestartAssistant(t)
  BY <1>7, RetryKeeps, RestartAssistantKeeps
<1>8. CASE \E m \in Manifests : AcceptDraft(t, m)
  BY <1>8, AcceptKeeps
<1>9. QED
  BY <1>1, <1>2, <1>3, <1>4, <1>5, <1>6, <1>7, <1>8 DEF Commands

LEMMA NextKeeps == IInv /\ [Next]_vars => IInv'
<1> SUFFICES ASSUME IInv, [Next]_vars PROVE IInv'
  OBVIOUS
<1>1. CASE Next
  BY <1>1, CrashKeeps, DrivesKeeps, TurnsKeeps, CommandsKeep DEF Next
<1>2. CASE UNCHANGED vars
  <2> USE DEF IInv, vars
  <2>1. Runs' /\ Where' = Where
    BY <1>2, StillRuns
  <2>2. Calling' /\ Claimed'
    BY <1>2 DEF Calling, Claimed, Executes, At
  <2>3. Assisted' /\ Ledger' /\ UNCHANGED <<present, bound, state>>
    BY <1>2, SameKeeps DEF Ledger, ledger, engine
  <2>4. Placed'
    BY <2>1, <2>3, PlaceKept
  <2>5. QED
    BY <2>1, <2>2, <2>3, <2>4
<1>3. QED
  BY <1>1, <1>2

(* Every step of every caller, the user's decisions, recovery and crashes  *)
(* keep the inductive invariant.                                           *)
THEOREM Invariance == Spec => []IInv
<1>1. Init => IInv
  BY InitKeeps
<1>2. IInv /\ [Next]_vars => IInv'
  BY NextKeeps
<1>3. QED
  BY <1>1, <1>2, PTL DEF Spec

(* No document of a site the user has not approved reaches the model, and  *)
(* no assistant runs, or is resumed, without the consent bound to its      *)
(* session (approve_assistant, resume of an interrupted building).         *)
THEOREM ApprovalBound == Spec => []ApprovalIsBound
<1>1. IInv => ApprovalIsBound
  <2> SUFFICES ASSUME IInv PROVE ApprovalIsBound
    OBVIOUS
  <2> USE DEF IInv
  <2>1. A!OnlyApprovedIsDisclosed
    BY DEF Assisted, EngineInv, A!OnlyApprovedIsDisclosed, Ledger
  <2>2. ASSUME session.state = "building_assistant" \/ session.recovery = "building_assistant"
        PROVE  present /\ consented /\ bound
    <3>1. Where = "building_assistant"
      BY <2>2 DEF Runs, SessionValid, Where, None
    <3>2. present /\ bound /\ state \in Working
      BY <3>1 DEF Placed
    <3>3. consented
      BY <3>2 DEF Assisted, EngineInv, A!SnapshotRestores, A!ConsentRestorable, Working
    <3>4. QED
      BY <3>2, <3>3
  <2>3. QED
    BY <2>1, <2>2 DEF ApprovalIsBound
<1>2. QED
  BY <1>1, Invariance, PTL

LEMMA InvIsSound ==
    ASSUME IInv PROVE TypeOK /\ DraftRestores /\ EvidenceIsAwaited /\ WorkIsDoneOnce
<1> USE DEF IInv
<1>1. TypeOK
  BY DEF TypeOK, Runs, Sessions, Ledger, Calling, Places, Assisted
<1>2. DraftRestores
  BY DEF DraftRestores, Assisted, EngineInv
<1>3. EvidenceIsAwaited
  BY DEF EvidenceIsAwaited, Placed, Where
<1>4. WorkIsDoneOnce
  BY DEF WorkIsDoneOnce, Runs, Claimed, Executes
<1>5. QED
  BY <1>1, <1>2, <1>3, <1>4

(***************************************************************************)
(* What a step does to a session whose billable call is out.               *)
(***************************************************************************)
Accounted ==
    /\ session'.state # "interrupted"
    /\ session'.state = "building_assistant" /\ Awaited' => session'.cancelling \/ CallOut'

LEMMA CallIsOut ==
    ASSUME IInv, CallOut
    PROVE  /\ session.state = "building_assistant" /\ session.state \in Operations
           /\ op.kind = "building_assistant" /\ op.status = "started" /\ op # NoOp
           /\ present /\ state = "awaiting_assistant"
           /\ ~ Completable("interrupted") /\ Completable("succeeded")
<1>1. /\ session.state = "building_assistant" /\ session.state \in Operations
      /\ present /\ state = "awaiting_assistant" /\ op.status = "started"
  BY DEF CallOut, Awaited, Operations, Billable
<1>2. op.kind = "building_assistant" /\ op # NoOp
  BY <1>1, Names DEF IInv, Runs
<1>3. ~ Completable("interrupted") /\ Completable("succeeded")
  BY <1>1, <1>2 DEF Completable, Billable, None
<1>4. QED
  BY <1>1, <1>2, <1>3

(* The call stays out when nothing about it changes.                       *)
LEMMA CallStays ==
    ASSUME CallOut, UNCHANGED <<session, present, state>>, op'.status = "started",
           \A u \in Threads : At(u, "call") => At(u, "call")'
    PROVE  Accounted
  BY DEF Accounted, CallOut, Awaited

LEMMA GotoStays ==
    ASSUME IInv, CallOut, NEW t \in Threads, ~ At(t, "call"), NEW pc, Goto(t, pc), SameAssistant,
           UNCHANGED <<session, op>>
    PROVE  Accounted
<1>1. \A u \in Threads : At(u, "call") => At(u, "call")'
  BY DEF Goto, At, IInv, Calling
<1>2. UNCHANGED <<session, present, state>> /\ op'.status = "started"
  BY DEF SameAssistant, engine, CallOut
<1>3. QED
  BY <1>1, <1>2, CallStays

(* An answer, or another step that ends the turn.                          *)
LEMMA CheckpointAccounts ==
    ASSUME IInv, CallOut, Persist(Act("checkpointed"), None), state' # "awaiting_assistant"
    PROVE  Accounted
  BY PersistCheckpoint DEF IInv, Accounted, Awaited

LEMMA CommandsNeedRest ==
    ASSUME IInv, CallOut, NEW k \in WaitingKinds, Persist(Act(k), None) PROVE FALSE
  BY CallIsOut, CommandMoves DEF IInv

LEMMA NeverWithoutEffect ==
    ASSUME IInv, CallOut, Persist(Interrupted(TRUE), "interrupted") PROVE FALSE
  BY CallIsOut, Persisted

LEMMA RestartNeedsInterruption ==
    ASSUME IInv, CallOut, Persist(Act("restart_interrupted"), None) PROVE FALSE
  BY CallIsOut, PersistRestart DEF IInv

LEMMA DrivesAccount ==
    ASSUME IInv, CallOut, NEW t \in Threads, Drives(t) PROVE Accounted
<1>1. CASE SettlePreparedCancellation(t)
  <2>1. op.status # "prepared"
    BY CallIsOut
  <2>2. Goto(t, "drive") /\ SameAssistant /\ UNCHANGED <<session, op>> /\ ~ At(t, "call")
    BY <1>1, <2>1 DEF SettlePreparedCancellation, At
  <2>3. QED
    BY <2>2, GotoStays
<1>2. CASE ReadSession(t)
  <2>1. \A u \in Threads : At(u, "call") => At(u, "call")'
    BY <1>2 DEF ReadSession, At, IInv, Calling
  <2>2. UNCHANGED <<session, present, state>> /\ op'.status = "started"
    BY <1>2 DEF ReadSession, SameAssistant, engine, CallOut
  <2>3. QED
    BY <2>1, <2>2, CallStays
<1>3. CASE ClaimOperation(t)
  <2>1. op.kind \in HostDriven
    BY CallIsOut DEF HostDriven
  <2>2. Goto(t, "idle") /\ SameAssistant /\ UNCHANGED <<session, op>> /\ ~ At(t, "call")
    BY <1>3, <2>1 DEF ClaimOperation, At
  <2>3. QED
    BY <2>2, GotoStays
<1>4. CASE CredentialMissing(t)
  BY <1>4, CallIsOut DEF CredentialMissing
<1>5. CASE Execute(t)
  <2>1. CASE ResultRefused(t)
    <3>1. Goto(t, "idle") /\ SameAssistant /\ UNCHANGED <<session, op>> /\ ~ At(t, "call")
      BY <2>1 DEF ResultRefused, At
    <3>2. QED
      BY <3>1, GotoStays
  <2>2. CASE \E f \in Failures : OperationFails(t, f)
    <3>1. PICK f \in Failures : OperationFails(t, f)
      BY <2>2
    <3>2. Persist(f[1], f[2]) /\ f[2] # "unknown"
      BY <3>1, CallIsOut DEF OperationFails
    <3>3. f = <<Act("fail"), "failed">>
      <4>1. ASSUME f = <<Interrupted(FALSE), "unknown">> PROVE FALSE
        <5>1. f[2] = "unknown"
          BY <4>1
        <5>2. QED
          BY <3>2, <5>1
      <4>2. ASSUME f = <<Interrupted(TRUE), "interrupted">> PROVE FALSE
        <5>1. f[1] = Interrupted(TRUE) /\ f[2] = "interrupted"
          BY <4>2
        <5>2. QED
          BY <3>2, <5>1, NeverWithoutEffect
      <4>3. QED
        BY <4>1, <4>2 DEF Failures
    <3>4. session'.state \in {"failed", "cancelled"}
      BY <3>2, <3>3, PersistFail DEF IInv
    <3>5. QED
      BY <3>4 DEF Accounted
  <2>3. QED
    BY <1>5, <2>1, <2>2, CallIsOut DEF Execute, CollectEvidence, CompleteStep,
       ExtractDeterministic, ExtractResumed, ExtractRecommended, ExtractNothing
<1>6. QED
  BY <1>1, <1>2, <1>3, <1>4, <1>5 DEF Drives

LEMMA InterruptAccounts ==
    ASSUME IInv, CallOut, NEW t \in Threads, NEW outcome \in {"interrupted", "unknown"},
           InterruptAssistant(t, outcome, outcome = "interrupted")
    PROVE  Accounted
<1> DEFINE known == outcome = "interrupted"
<1>1. Persist(Interrupted(known), outcome)
  BY DEF InterruptAssistant
<1>2. known \in BOOLEAN /\ outcome = IF known THEN "interrupted" ELSE "unknown"
  OBVIOUS
<1> HIDE DEF known
<1>3. /\ session'.state \in {outcome, "cancelled"} /\ Completable(outcome)
  BY <1>1, <1>2, PersistInterrupt DEF IInv
<1>4. outcome = "unknown"
  BY <1>3, CallIsOut
<1>5. QED
  BY <1>3, <1>4 DEF Accounted

LEMMA TurnsAccount ==
    ASSUME IInv, CallOut, NEW t \in Threads, Turns(t) PROVE Accounted
<1>1. CASE StartAssistantOperation(t)
  <2>1. \A u \in Threads : At(u, "call") => At(u, "call")'
    BY <1>1 DEF StartAssistantOperation, At, IInv, Calling
  <2>2. op'.status = "started"
    BY <1>1, CallIsOut DEF StartAssistantOperation, IInv, Runs
  <2>3. UNCHANGED <<session, present, state>>
    BY <1>1 DEF StartAssistantOperation, SameAssistant, engine
  <2>4. QED
    BY <2>1, <2>2, <2>3, CallStays
<1>2. CASE EndLoop(t)
  BY <1>2, CallIsOut DEF EndLoop
<1>3. ASSUME NEW estimate \in Estimates, BeginTurn(t, estimate) PROVE Accounted
  BY <1>3, CallIsOut DEF BeginTurn, TurnPossible
<1>4. ASSUME NEW estimate \in Estimates, RefuseTurn(t, estimate) PROVE Accounted
  <2>1. Goto(t, "idle") /\ SameAssistant /\ UNCHANGED <<session, op>> /\ ~ At(t, "call")
    BY <1>4 DEF RefuseTurn, Quit, At
  <2>2. QED
    BY <2>1, GotoStays
<1>5. ASSUME NEW about, AnswerWithTool(t, about) PROVE Accounted
  BY <1>5, CheckpointAccounts DEF AnswerWithTool, A!CallTool
<1>6. ASSUME NEW cites, NEW open, AnswerWithDraft(t, cites, open) PROVE Accounted
  BY <1>6, CheckpointAccounts DEF AnswerWithDraft, Checkpoint, A!SubmitDraft
<1>7. CASE AnswerWithQuestions(t)
  <2>1. /\ "requested_evidence" \in CompletingKinds /\ None \in Manifests \cup {None}
        /\ Act("requested_evidence") = [kind |-> "requested_evidence", manifest |-> None]
        /\ Persist(Act("requested_evidence"), "succeeded")
    BY <1>7 DEF CompletingKinds, Act, AnswerWithQuestions
  <2>2. \/ <<session.state, "requested_evidence", session'.state>> \in Steps
        \/ session'.state = "cancelled"
    BY <2>1, ResultMoves DEF IInv
  <2>3. session'.state \in {"awaiting_evidence", "cancelled"}
    BY <2>2 DEF Steps
  <2>4. QED
    BY <2>3 DEF Accounted
<1>8. CASE AnswerRefused(t)
  BY <1>8, CallIsOut DEF AnswerRefused, Quit, Accounted, Awaited
<1>9. ASSUME NEW retryable \in BOOLEAN, RecordFailure(t, retryable) PROVE Accounted
  <2>1. /\ state' # "awaiting_assistant"
        /\ Persist(Act("fail"), "failed") \/ Persist(Act("checkpointed"), None)
    BY <1>9 DEF RecordFailure, A!RecordFailure, A!TransitionAfterFailure
  <2>2. CASE Persist(Act("fail"), "failed")
    <3>1. session'.state \in {"failed", "cancelled"}
      BY <2>2, PersistFail DEF IInv
    <3>2. QED
      BY <3>1 DEF Accounted
  <2>3. QED
    BY <2>1, <2>2, CheckpointAccounts
<1>10. ASSUME NEW cites, SubmitToolResult(t, cites) PROVE Accounted
  BY <1>10, CallIsOut DEF SubmitToolResult, A!SubmitToolResult
<1>11. CASE ToolFailed(t)
  <2>1. CASE Quit(t)
    <3>1. Goto(t, "idle") /\ SameAssistant /\ UNCHANGED <<session, op>> /\ ~ At(t, "call")
      BY <1>11, <2>1 DEF ToolFailed, Quit, At
    <3>2. QED
      BY <3>1, GotoStays
  <2>2. CASE InterruptAssistant(t, "interrupted", TRUE)
    BY <2>2, NeverWithoutEffect DEF InterruptAssistant
  <2>3. QED
    BY <1>11, <2>1, <2>2 DEF ToolFailed
<1>12. QED
  BY <1>1, <1>2, <1>3, <1>4, <1>5, <1>6, <1>7, <1>8, <1>9, <1>10, <1>11 DEF Turns, Answers

LEMMA RecoverAccounts ==
    ASSUME IInv, CallOut, RecoverUnfinished PROVE Accounted
<1>1. op # NoOp /\ state \notin Recoverable /\ ~ (op.status = "prepared" \/ op.kind \notin Billable)
  BY CallIsOut DEF Recoverable, Billable
<1>2. Persist(Interrupted(FALSE), "unknown")
  BY <1>1 DEF RecoverUnfinished
<1>3. session'.state = "unknown"
  BY <1>2, PersistInterrupt DEF IInv
<1>4. QED
  BY <1>3 DEF Accounted

LEMMA CommandsAccount ==
    ASSUME IInv, CallOut, NEW t \in Threads, Commands(t) PROVE Accounted
<1>1. ASSUME \/ Begin(t) \/ RequestAssistant(t) \/ ApproveAssistant(t) \/ DeclineAssistant(t)
             \/ \E ids \in SUBSET Evidence : SupplyMoreEvidence(t, ids) \/ SupplyFreshEvidence(t, ids)
      PROVE  FALSE
  <2>1. \E k \in WaitingKinds : Persist(Act(k), None)
    BY <1>1 DEF Begin, RequestAssistant, ApproveAssistant, DeclineAssistant, SupplyMoreEvidence,
       SupplyFreshEvidence, WaitingKinds
  <2>2. QED
    BY <2>1, CommandsNeedRest
<1>2. ASSUME NEW kind \in PlainActions, ContinueDiscovery(t, kind) PROVE FALSE
  <2>1. Persist(Act(kind), None)
    BY <1>2 DEF ContinueDiscovery
  <2>2. kind \in WaitingKinds \/ kind = "restart_interrupted"
    BY DEF PlainActions, WaitingKinds
  <2>3. QED
    BY <2>1, <2>2, CommandsNeedRest, RestartNeedsInterruption
<1>3. ASSUME NEW r \in {"no_effect", "manual"}, ResolveUnknownOutcome(t, r) PROVE FALSE
  BY <1>3, PersistResolve, CallIsOut DEF ResolveUnknownOutcome, IInv
<1>4. CASE CancelDiscovery(t)
  <2>1. session'.state = "cancelled" \/ (session'.state = session.state /\ session'.cancelling)
    BY <1>4, PersistCancel DEF CancelDiscovery, IInv
  <2>2. QED
    BY <2>1, CallIsOut DEF Accounted
<1>5. CASE RecoverCommand(t)
  BY <1>5, RecoverAccounts DEF RecoverCommand
<1>6. ASSUME NEW outcome \in {"interrupted", "unknown"}, HostInterrupts(t, outcome) PROVE Accounted
  BY <1>6, InterruptAccounts DEF HostInterrupts
<1>7. ASSUME NEW cites, ResumeToolCall(t, cites) PROVE FALSE
  BY <1>7, CallIsOut DEF ResumeToolCall, A!SubmitToolResult
<1>8. ASSUME ApproveRetry(t) \/ RequestDraftRevision(t) PROVE FALSE
  BY <1>8, CallIsOut DEF ApproveRetry, RequestDraftRevision, A!ApproveRetry, A!RequestDraftRevision
<1>9. ASSUME RestartAssistant(t) PROVE FALSE
  BY <1>9, CallIsOut DEF RestartAssistant
<1>10. ASSUME NEW m \in Manifests, AcceptDraft(t, m) PROVE FALSE
  BY <1>10, CallIsOut DEF AcceptDraft, IInv, Assisted, EngineInv, A!SnapshotRestores, A!ShapeRestorable
<1>11. QED
  BY <1>1, <1>2, <1>3, <1>4, <1>5, <1>6, <1>7, <1>8, <1>9, <1>10 DEF Commands

(* While a billable call is out, no step takes the session for one without *)
(* effect, and none leaves it waiting for an answer nobody will give       *)
(* (recover_unfinished_discovery_operations, cancellation and all drivers).*)
THEOREM CallsAccounted == Spec => CallsAreAccountedFor
<1>1. IInv /\ [Next]_vars => [CallOut => Accounted]_vars
  BY DrivesAccount, TurnsAccount, CommandsAccount, RecoverAccounts DEF Next, Restart
<1>2. QED
  BY <1>1, Invariance, PTL DEF Spec, CallsAreAccountedFor, Accounted

(* The types, the restorable draft, the awaited evidence and the single    *)
(* execution of every operation, for any number of concurrent callers.     *)
THEOREM SessionSound == Spec => [](TypeOK /\ DraftRestores /\ EvidenceIsAwaited /\ WorkIsDoneOnce)
<1>1. IInv => TypeOK /\ DraftRestores /\ EvidenceIsAwaited /\ WorkIsDoneOnce
  BY InvIsSound
<1>2. QED
  BY <1>1, Invariance, PTL

(* The same in the composition that is model-checked, where the session's  *)
(* scope shares its variables with the commit that follows.                *)
THEOREM SessionSoundInScope == MCSpec => []SessionIsSound
<1> DEFINE J == scope = "session" => IInv
<1>1. MCInit => J
  BY InitKeeps DEF MCInit
<1>2. J /\ [MCNext]_<<vars, scope, ledgerOnly, counters>> => J'
  <2> SUFFICES ASSUME J, [MCNext]_<<vars, scope, ledgerOnly, counters>>, scope' = "session" PROVE IInv'
    OBVIOUS
  <2>1. scope = "session" /\ [Next]_vars
    BY DEF MCNext, SessionNext, CommitNext
  <2>2. QED
    BY <2>1, NextKeeps
<1>3. J => SessionIsSound
  BY InvIsSound DEF SessionIsSound
<1>4. QED
  BY <1>1, <1>2, <1>3, PTL DEF MCSpec
=============================================================================
