-------------------------- MODULE ProviderCatalog --------------------------
(***************************************************************************)
(* The signed provider catalog (crates/core/src/catalog.rs over            *)
(* crates/storage/src/catalog.rs): signed envelopes are imported on top of *)
(* the bundled baseline, and an earlier local revision can be rolled back  *)
(* to.  Both are two-phase: a review plan is prepared from a handful of    *)
(* separate database reads and activated later, so other callers import,  *)
(* roll back or reopen the core between any two reads.                     *)
(*                                                                         *)
(* An envelope is abstracted to its revision, its time window and the one  *)
(* provider template it carries (a version and a content); a snapshot's    *)
(* hash to the snapshot itself.  The clock only moves forward.             *)
(***************************************************************************)
EXTENDS Naturals, Sequences, FiniteSets, FiniteSetsExt, SequencesExt

CONSTANTS Callers,            \* threads that call the catalog API
          Envelopes,          \* the signed files a user may pick
          MaxPending,         \* MAX_PENDING_CATALOG_IMPORT_PLANS
          PlanLifetime,       \* CATALOG_IMPORT_PLAN_ and ROLLBACK_PLAN_LIFETIME_MINUTES
          MaxTime,            \* bound on the clock
          MaxPlans            \* bound on the plans prepared in a behaviour

VARIABLES catalogState,  \* the singleton row: state_version, active local revision
                         \* (0: none) and guard
          updates,       \* accepted signed updates: [env, at] with at = accepted_at
          snapshots,     \* local revision -> immutable snapshot [chain, view, at]
          audit,         \* activation rows in order
          pendingPlans,  \* Core's registry of import reviews: plan id -> plan
          plans,         \* every plan handed to a client, who may present any of them
          calls,         \* what each caller is in the middle of
          time

vars == <<catalogState, updates, snapshots, audit, pendingPlans, plans, calls, time>>
db == <<catalogState, updates, snapshots, audit>>

Baseline == [chain |-> <<>>, view |-> {}, at |-> 0]
BundledTemplate == [version |-> 1, body |-> "bundled"]
NoGuard == [rev |-> 0, issued |-> 0]

(* The plan map and the snapshots are finite maps that grow.               *)
Put(f, k, v) == [x \in DOMAIN f \cup {k} |-> IF x = k THEN v ELSE f[x]]
Drop(f, K) == [x \in DOMAIN f \ K |-> f[x]]

Idle == [pc |-> "idle"]
Init == /\ catalogState = [ver |-> 0, active |-> 0, guard |-> NoGuard]
        /\ updates = {}
        /\ snapshots = << >>
        /\ audit = << >>
        /\ pendingPlans = << >>
        /\ plans = {}
        /\ calls = [c \in Callers |-> Idle]
        /\ time = 0

(***************************************************************************)
(* Verification and merging.                                               *)
(***************************************************************************)
EnvelopeOf(rev) == CHOOSE u \in updates : u.env.rev = rev

(* The signed time window and the revision guard of an envelope.           *)
Verifies(e, guard, now) ==
    /\ e.issued <= now /\ e.effective <= now /\ now < e.expires
    /\ e.rev > guard.rev
    /\ e.issued >= guard.issued

GuardAfter(e) == [rev |-> e.rev, issued |-> e.issued]

(* Accepted updates in revision order, each verified again at the time it  *)
(* was accepted against the guard the previous ones left.                  *)
InOrder(us) ==
    CHOOSE s \in [1..Cardinality(us) -> us] :
        /\ \A u \in us : \E i \in DOMAIN s : s[i] = u
        /\ \A i, j \in DOMAIN s : i < j => s[i].env.rev < s[j].env.rev
Reverified(us) ==
    LET s == InOrder(us)
        before(i) == IF i = 1 THEN NoGuard ELSE GuardAfter(s[i - 1].env)
    IN  \A i \in DOMAIN s : Verifies(s[i].env, before(i), s[i].at)
GuardOf(us) == IF us = {} THEN NoGuard ELSE GuardAfter(Last(InOrder(us)).env)

(* What load_verified_updates demands of the rows it finds, given the      *)
(* state row read before them.                                             *)
UpdatesMatch(st) == /\ Cardinality(updates) = st.count
                    /\ Reverified(updates)
                    /\ GuardOf(updates) = st.guard

(* Layers that count at a time: expired ones are ignored by the merge.     *)
Fresh(es, now) == {e \in es : e.effective <= now /\ now < e.expires}
ChainEnvelopes(chain) == {EnvelopeOf(r).env : r \in ToSet(chain)}

(* The merge fails when a later signed layer lowers a template's version.  *)
Mergeable(es) == \A d, e \in es : d.rev < e.rev => d.version <= e.version
View(es) == {e.rev : e \in es}
TemplateOf(view) ==
    IF view = {} THEN BundledTemplate
    ELSE LET e == EnvelopeOf(Max(view)).env IN [version |-> e.version, body |-> e.body]

ActiveOf(st) == IF st.active = 0 THEN Baseline ELSE snapshots[st.active]
RevisionOf(st) == IF st.active = 0 THEN 1 ELSE st.active

(* A template version that was ever published keeps its content.  The      *)
(* bundled templates are stored when the core opens.                       *)
KnownTemplates == {BundledTemplate} \cup {TemplateOf(snapshots[r].view) : r \in DOMAIN snapshots}
TemplatesStayImmutable(template) ==
    \A t \in KnownTemplates : t.version = template.version => t = template

(* A rollback target must show today what it showed when it was captured.  *)
Operational(snap, now) ==
    LET fresh == Fresh(ChainEnvelopes(snap.chain), now)
    IN  Mergeable(fresh) /\ View(fresh) = snap.view

(***************************************************************************)
(* One catalog_state read: the row and the counts beside it.               *)
(***************************************************************************)
StateRead ==
    [ver |-> catalogState.ver, active |-> catalogState.active, guard |-> catalogState.guard,
     count |-> Cardinality(updates), snaps |-> Cardinality(DOMAIN snapshots)]

Go(c, call) == calls' = [calls EXCEPT ![c] = call]
Return(c) == Go(c, Idle)
Free == \A c \in Callers : ~ (calls[c].pc # "idle" /\ calls[c].op = "activate")

(* prepare_signed_provider_catalog_import: its first read.                 *)
PrepareImport(c, e) ==
    /\ calls[c] = Idle
    /\ Cardinality(plans) < MaxPlans
    /\ Go(c, [pc |-> "updates", op |-> "prepare", env |-> e, now |-> time, st |-> StateRead])
    /\ UNCHANGED <<db, pendingPlans, plans, time>>

(* activate_signed_provider_catalog_import reads the clock and waits for   *)
(* the review lock.  (Presenting a plan that is no longer registered has   *)
(* no effect, now or later.)                                               *)
PresentImport(c, p) ==
    /\ calls[c] = Idle
    /\ p.kind = "import" /\ p.id \in DOMAIN pendingPlans
    /\ Go(c, [pc |-> "lock", op |-> "present", now |-> time, plan |-> p])
    /\ UNCHANGED <<db, pendingPlans, plans, time>>

(* The lock is taken and kept to the end.  The plan may be gone by then;   *)
(* one that had expired when it was presented, or is stale now, is         *)
(* consumed at once.                                                       *)
ActivateImport(c) ==
    LET call == calls[c]
        p    == call.plan
        unknown == p.id \notin DOMAIN pendingPlans
        refused == p.expires <= call.now \/ catalogState.ver # p.ver
    IN
    /\ call.pc = "lock" /\ Free
    /\ pendingPlans' =
          IF ~ unknown /\ refused THEN Drop(pendingPlans, {p.id}) ELSE pendingPlans
    /\ IF unknown \/ refused
       THEN Return(c)
       ELSE Go(c, [pc |-> "rebuild", op |-> "activate", env |-> p.env, now |-> call.now, plan |-> p])
    /\ UNCHANGED <<db, plans, time>>

(* The candidate is rebuilt from a state read of its own.                  *)
RebuildImport(c) ==
    /\ calls[c].pc = "rebuild"
    /\ Go(c, [pc |-> "updates", op |-> "activate", env |-> calls[c].env, now |-> calls[c].now,
              plan |-> calls[c].plan, st |-> StateRead])
    /\ UNCHANGED <<db, pendingPlans, plans, time>>

(* prepare_provider_catalog_rollback and activate_provider_catalog_rollback*)
(* begin with a state read; a plan for another state version is refused.   *)
PrepareRollback(c, target) ==
    /\ calls[c] = Idle
    /\ Cardinality(plans) < MaxPlans
    /\ Go(c, [pc |-> "updates", op |-> "plan_rollback", target |-> target, now |-> time,
              st |-> StateRead])
    /\ UNCHANGED <<db, pendingPlans, plans, time>>

ActivateRollback(c, p) ==
    /\ calls[c] = Idle
    /\ p.kind = "rollback" /\ catalogState.ver = p.ver
    /\ Go(c, [pc |-> "updates", op |-> "rollback", target |-> p.to, now |-> time,
              st |-> StateRead, plan |-> p])
    /\ UNCHANGED <<db, pendingPlans, plans, time>>

(* load_verified_updates: the next read must agree with the state read.    *)
(* A client's status call ends here; an import also verifies its envelope  *)
(* and merges it over the active chain.                                    *)
MergesOverActive(call) ==
    /\ Verifies(call.env, call.st.guard, call.now)
    /\ LET chained == ChainEnvelopes(ActiveOf(call.st).chain) \cup {call.env}
       IN  Mergeable(Fresh(chained, call.now))
ReadUpdates(c) ==
    LET call == calls[c] IN
    /\ call.pc = "updates"
    /\ IF /\ UpdatesMatch(call.st)
          /\ call.op \in {"prepare", "activate"} => MergesOverActive(call)
       THEN Go(c, [call EXCEPT !.pc = IF call.op \in {"prepare", "activate"}
                                      THEN "history" ELSE "target"])
       ELSE Return(c)
    /\ UNCHANGED <<db, pendingPlans, plans, time>>

(* next_local_revision and the immutability walk over every snapshot.      *)
(* The two reads are one step: a commit between them makes the candidate's *)
(* state version stale, whichever of the two saw it.                       *)
NextLocalRevision(st) == IF st.snaps = 0 THEN 2 ELSE Max(DOMAIN snapshots) + 1
Candidate(call, at) ==
    LET base  == ActiveOf(call.st)
        es    == ChainEnvelopes(base.chain) \cup {call.env}
    IN  [chain |-> Append(base.chain, call.env.rev), view |-> View(Fresh(es, call.now)), at |-> at]
CandidateTemplate(call) ==
    LET es == Fresh(ChainEnvelopes(ActiveOf(call.st).chain) \cup {call.env}, call.now)
        e  == CHOOSE x \in es : \A y \in es : y.rev <= x.rev
    IN  [version |-> e.version, body |-> e.body]

ImportPlan(id, call) ==
    [id |-> id, kind |-> "import", env |-> call.env, ver |-> call.st.ver,
     from |-> RevisionOf(call.st), guard |-> call.st.guard.rev,
     to |-> NextLocalRevision(call.st), snap |-> Candidate(call, call.now),
     at |-> call.now, expires |-> Min({call.now + PlanLifetime, call.env.expires})]

(* import_candidate_matches_review                                         *)
FaultyMatchesReview(call, p) ==
    /\ RevisionOf(call.st) = p.from
    /\ call.st.guard.rev = p.guard
    /\ NextLocalRevision(call.st) = p.to
MatchesReview(call, p) ==
    /\ call.st.ver = p.ver
    /\ RevisionOf(call.st) = p.from
    /\ call.st.guard.rev = p.guard
    /\ NextLocalRevision(call.st) = p.to
    /\ Candidate(call, p.at) = p.snap

ReadHistory(c) ==
    LET call == calls[c]
        refused == ~ TemplatesStayImmutable(CandidateTemplate(call))
        changed == call.op = "activate" /\ ~ MatchesReview(call, call.plan)
    IN
    /\ call.pc = "history"
    /\ pendingPlans' =
          IF ~ refused /\ changed THEN Drop(pendingPlans, {call.plan.id}) ELSE pendingPlans
    /\ IF refused \/ changed
       THEN Return(c)
       ELSE Go(c, IF call.op = "activate"
                  THEN [pc |-> "commit", op |-> "activate", env |-> call.env, now |-> call.now,
                        plan |-> call.plan, st |-> call.st, to |-> NextLocalRevision(call.st),
                        snap |-> Candidate(call, call.plan.at)]
                  ELSE [pc |-> "register", op |-> "prepare", env |-> call.env, now |-> call.now,
                        st |-> call.st, plan |-> ImportPlan(0, call)])
    /\ UNCHANGED <<db, plans, time>>

(* register_pending_catalog_import_plan                                    *)
RegisterPlan(c) ==
    LET call == calls[c]
        p    == [call.plan EXCEPT !.id = Cardinality(plans) + 1]
        gone == {i \in DOMAIN pendingPlans : \/ pendingPlans[i].expires <= call.now
                                             \/ pendingPlans[i].env = p.env}
        kept == Drop(pendingPlans, gone)
        fits == Cardinality(DOMAIN kept) < MaxPending
    IN
    /\ call.pc = "register"
    /\ Free /\ Cardinality(plans) < MaxPlans
    /\ pendingPlans' = IF fits THEN Put(kept, p.id, p) ELSE kept
    /\ plans' = IF fits THEN plans \cup {p} ELSE plans
    /\ Return(c)
    /\ UNCHANGED <<db, time>>

(* The target of a rollback is loaded after one more state read; a plan is *)
(* made, or the presented one is checked against what is active and its    *)
(* lifetime.                                                               *)
TargetFound(r) == IF catalogState.active = 0 /\ r = 1 THEN TRUE ELSE r \in DOMAIN snapshots
TargetSnapshot(r) == IF r \in DOMAIN snapshots THEN snapshots[r] ELSE Baseline
RollbackPlan(id, call) ==
    [id |-> id, kind |-> "rollback", ver |-> call.st.ver, from |-> RevisionOf(call.st),
     to |-> call.target, snap |-> TargetSnapshot(call.target),
     at |-> call.now, expires |-> call.now + PlanLifetime]
AppliesRollback(call) ==
    /\ call.now < call.plan.expires
    /\ RevisionOf(call.st) = call.plan.from
    /\ TargetSnapshot(call.target) = call.plan.snap
ReadTarget(c) ==
    LET call == calls[c]
        loads == /\ TargetFound(call.target)
                 /\ Operational(TargetSnapshot(call.target), call.now)
    IN
    /\ call.pc = "target"
    /\ \/ /\ call.op = "plan_rollback"
          /\ Cardinality(plans) < MaxPlans
          /\ plans' = IF loads /\ RevisionOf(call.st) # call.target
                      THEN plans \cup {RollbackPlan(Cardinality(plans) + 1, call)} ELSE plans
          /\ Return(c)
       \/ /\ call.op = "rollback"
          /\ Go(c, IF loads /\ AppliesRollback(call) THEN [call EXCEPT !.pc = "commit"] ELSE Idle)
          /\ UNCHANGED plans
    /\ UNCHANGED <<db, pendingPlans, time>>

(***************************************************************************)
(* The storage transactions.                                               *)
(***************************************************************************)
ExpectedState(st) == /\ catalogState.ver = st.ver
                     /\ catalogState.active = st.active
                     /\ catalogState.guard = st.guard

AuditRow(call, to, from) ==
    [ver |-> catalogState.ver + 1, kind |-> call.plan.kind, id |-> call.plan.id,
     from |-> from, to |-> to, at |-> call.now]

(* commit_catalog_import: the update, the baseline when it is the first,   *)
(* the snapshot, the advanced state row and the audit row, or nothing.     *)
ImportIsValid(call) ==
    /\ ExpectedState(call.st)
    /\ call.env.rev > call.st.guard.rev /\ call.env.issued >= call.st.guard.issued
    /\ call.to > Max({1} \cup DOMAIN snapshots)
    /\ call.snap.chain = Append(ActiveOf(catalogState).chain, call.env.rev)
CommitImport(c) ==
    LET call == calls[c]
        based == IF catalogState.active = 0 THEN Put(snapshots, 1, Baseline) ELSE snapshots
    IN
    /\ call.pc = "commit" /\ call.op = "activate"
    /\ IF ImportIsValid(call)
       THEN /\ updates' = updates \cup {[env |-> call.env, at |-> call.now]}
            /\ snapshots' = Put(based, call.to, call.snap)
            /\ catalogState' = [ver |-> catalogState.ver + 1, active |-> call.to,
                                guard |-> GuardAfter(call.env)]
            /\ audit' = Append(audit, AuditRow(call, call.to, RevisionOf(catalogState)))
       ELSE UNCHANGED db
    /\ pendingPlans' = Drop(pendingPlans, {call.plan.id})
    /\ Return(c)
    /\ UNCHANGED <<plans, time>>

(* activate_catalog_rollback: only the pointer moves; the guard stays.     *)
RollbackIsValid(call) ==
    /\ ExpectedState(call.st)
    /\ catalogState.active # 0 /\ catalogState.active # call.target
    /\ call.target \in DOMAIN snapshots
    /\ call.plan.from = catalogState.active /\ call.now < call.plan.expires
CommitRollback(c) ==
    LET call == calls[c] IN
    /\ call.pc = "commit" /\ call.op = "rollback"
    /\ IF RollbackIsValid(call)
       THEN /\ catalogState' = [catalogState EXCEPT !.ver = @ + 1, !.active = call.target]
            /\ audit' = Append(audit, AuditRow(call, call.target, catalogState.active))
       ELSE UNCHANGED <<catalogState, audit>>
    /\ Return(c)
    /\ UNCHANGED <<updates, snapshots, pendingPlans, plans, time>>

(* The core is reopened: reviews and calls are gone, rows and the clients' *)
(* plans are not.                                                          *)
Reopen ==
    /\ pendingPlans # << >> \/ \E c \in Callers : calls[c] # Idle
    /\ pendingPlans' = << >>
    /\ calls' = [c \in Callers |-> Idle]
    /\ UNCHANGED <<db, plans, time>>

Tick == /\ time < MaxTime
        /\ time' = time + 1
        /\ UNCHANGED <<db, pendingPlans, plans, calls>>

Next == \/ \E c \in Callers :
              \/ \E e \in Envelopes : PrepareImport(c, e)
              \/ \E p \in plans : PresentImport(c, p) \/ ActivateRollback(c, p)
              \/ \E r \in {1} \cup DOMAIN snapshots : PrepareRollback(c, r)
              \/ ActivateImport(c) \/ RebuildImport(c)
              \/ ReadUpdates(c) \/ ReadHistory(c) \/ RegisterPlan(c)
              \/ ReadTarget(c) \/ CommitImport(c) \/ CommitRollback(c)
        \/ Reopen
        \/ Tick

Spec == Init /\ [][Next]_vars

(***************************************************************************)
(* Properties.                                                             *)
(***************************************************************************)
SnapshotType(s) == /\ \A i \in DOMAIN s.chain : s.chain[i] \in {e.rev : e \in Envelopes}
                   /\ s.view \subseteq ToSet(s.chain)
                   /\ s.at \in 0..MaxTime

(* The shape of the catalog rows, of the review registry and of the calls. *)
TypeOK ==
    /\ catalogState.ver \in Nat /\ catalogState.active \in {0} \cup DOMAIN snapshots
    /\ catalogState.guard \in {NoGuard} \cup {GuardAfter(e) : e \in Envelopes}
    /\ updates \subseteq [env : Envelopes, at : 0..MaxTime]
    /\ \A r \in DOMAIN snapshots : r \in Nat \ {0} /\ SnapshotType(snapshots[r])
    /\ \A i \in DOMAIN pendingPlans : pendingPlans[i] \in plans /\ pendingPlans[i].id = i
    /\ \A c \in Callers : calls[c].pc \in
          {"idle", "lock", "rebuild", "updates", "history", "register", "target", "commit"}
    /\ time \in 0..MaxTime

(* The catalog never becomes unreadable.  Every reader verifies all        *)
(* accepted updates again in revision order and compares the result with   *)
(* the stored guard (load_verified_updates), and needs an envelope for     *)
(* every revision of a chain; whatever imports and rollbacks interleave,   *)
(* that verification succeeds, and the active layers still merge.          *)
CatalogStaysReadable ==
    /\ Reverified(updates) /\ GuardOf(updates) = catalogState.guard
    /\ \A u, v \in updates : u.env.rev = v.env.rev => u = v
    /\ \A r \in DOMAIN snapshots :
         ToSet(snapshots[r].chain) \subseteq {u.env.rev : u \in updates}
    /\ Mergeable(Fresh(ChainEnvelopes(ActiveOf(catalogState).chain), time))

(* The audit is the catalog's history: one row per state version, each row *)
(* starts where the one before it ended, the last one ends at the active   *)
(* revision, and no plan was activated twice - not even a rollback plan    *)
(* replayed when the revision it started from is active again.             *)
AuditIsTheHistory ==
    /\ Len(audit) = catalogState.ver
    /\ \A i \in DOMAIN audit :
         /\ audit[i].ver = i
         /\ audit[i].from = IF i = 1 THEN 1 ELSE audit[i - 1].to
         /\ \A j \in DOMAIN audit : audit[i].id = audit[j].id => i = j
    /\ catalogState.ver > 0 => catalogState.active = Last(audit).to

(* What was activated is what was reviewed: the plan of an audit row was   *)
(* alive when it was activated, expected the very state version it found,  *)
(* and the revision it produced holds the snapshot shown in the review.    *)
ActivatedAsReviewed ==
    \A i \in DOMAIN audit : \E p \in plans :
        /\ p.id = audit[i].id /\ p.kind = audit[i].kind
        /\ p.ver + 1 = audit[i].ver
        /\ p.from = audit[i].from /\ p.to = audit[i].to
        /\ audit[i].at < p.expires
        /\ snapshots[p.to] = p.snap

(* A published template version never changes its content, across every    *)
(* snapshot ever taken, also those of branches that were rolled back.      *)
PublishedTemplatesAgree ==
    \A t, u \in KnownTemplates : t.version = u.version => t = u

(* The registry holds one review per envelope, within its bound, and no    *)
(* review of an activation that is over.                                   *)
ReviewsAreCurrent ==
    /\ Cardinality(DOMAIN pendingPlans) <= MaxPending
    /\ \A i, j \in DOMAIN pendingPlans : pendingPlans[i].env = pendingPlans[j].env => i = j
    /\ \A i \in DOMAIN audit : audit[i].id \notin DOMAIN pendingPlans
=============================================================================
