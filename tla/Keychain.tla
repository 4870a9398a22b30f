------------------------------ MODULE Keychain ------------------------------
(***************************************************************************)
(* The credential record of one connection in the macOS keychains          *)
(* (plugins/lorepia-platform/src/desktop/macos.rs).  A record may live in  *)
(* the data-protection keychain, in the legacy keychain, or in both.       *)
(* Reading hardens or migrates it, storing and deleting check what they    *)
(* wrote and put the previous record back when a check fails.  Operations  *)
(* hold the keychain lock, so they follow one another, but each is a       *)
(* sequence of calls of which any may fail, and the process may die        *)
(* between two of them.                                                    *)
(*                                                                         *)
(* The calls of the operating system are external.  A call may report an   *)
(* error; a deletion that reports one may have happened ("an ambiguous     *)
(* delete result"); a write that reports success may have stored another   *)
(* value or another accessibility, the case the verification is for.       *)
(***************************************************************************)
EXTENDS Naturals

CONSTANTS
    Values,     \* credentials of the user
    Junk,       \* what a corrupted write leaves behind
    None,
    Migrate,    \* migrate_legacy_credentials of the build policy
    Corrupts,   \* may a write store something else
    CanDie      \* may the process die

VARIABLES
    protected,  \* record of the data-protection keychain
    legacy,     \* record of the legacy keychain
    op,         \* the operation under way
    truth,      \* values the user may expect to find (None: nothing)
    tainted     \* the last failure was reported as recovery required

vars == <<protected, legacy, op, truth, tainted>>

(***************************************************************************)
(* KeychainRecord.  "padded" is white space around the value, which        *)
(* normalize_credential removes; "exact" is the required accessibility.    *)
(***************************************************************************)
Records == [value : Values \cup {Junk}, padded : BOOLEAN, exact : BOOLEAN]
Hardened(v) == [value |-> v, padded |-> FALSE, exact |-> TRUE]
Conforms(record) == ~record.padded /\ record.exact

Idle == [kind |-> "idle", at |-> "rest", value |-> None, target |-> None,
         previous |-> None, result |-> "ok"]

(***************************************************************************)
(* What a reader of the credential would be given now                      *)
(***************************************************************************)
Readable ==
    IF protected # None THEN protected.value
    ELSE IF Migrate /\ legacy # None THEN legacy.value
    ELSE None

\* how an operation ends; "returned" is the value a read hands out
Expected(result, returned) ==
    IF result = "ok"
    THEN CASE op.kind = "read" -> truth \cap {returned}
           [] op.kind = "store" -> {op.value}
           [] op.kind = "delete" -> {None}
    ELSE CASE op.kind = "read" -> truth
           [] op.kind = "store" -> truth \cup {op.value}
           [] op.kind = "delete" -> truth \cup {None}

Finish(result, returned) ==
    /\ op' = [Idle EXCEPT !.kind = "idle", !.result = result]
    /\ truth' = Expected(result, returned)
    /\ tainted' = CASE result = "recovery" -> TRUE
                    [] result = "ok" /\ op.kind # "read" -> FALSE
                    [] OTHER -> tainted

Go(at) == op' = [op EXCEPT !.at = at] /\ UNCHANGED <<truth, tainted>>

(***************************************************************************)
(* Calls of the backend                                                    *)
(***************************************************************************)

\* upsert_data_protection: an error changes nothing
Upsert(record) ==
    \/ protected' = record
    \/ /\ Corrupts
       /\ protected' \in {[record EXCEPT !.value = Junk], [record EXCEPT !.exact = ~@]}

Erase(store) == store' = None
MayErase(store) == store' \in {None, store}

-----------------------------------------------------------------------------
(***************************************************************************)
(* Operations, call by call                                                *)
(***************************************************************************)

Start(kind, v) ==
    /\ op.kind = "idle"
    /\ op' = [Idle EXCEPT !.kind = kind, !.at = "probe", !.value = v]
    /\ UNCHANGED <<protected, legacy, truth, tainted>>

\* the first call of every operation: the protected record
Probe ==
    /\ op.at = "probe"
    /\ UNCHANGED <<protected, legacy>>
    /\ \/ Finish("error", None)
       \/ /\ op.kind = "read" /\ protected = None
          /\ IF Migrate THEN Go("legacy") ELSE Finish("ok", None)
       \/ /\ op.kind = "read" /\ protected # None /\ Conforms(protected)
          /\ IF Migrate THEN op' = [op EXCEPT !.at = "sweep", !.previous = protected,
                                              !.target = protected]
                             /\ UNCHANGED <<truth, tainted>>
                        ELSE Finish("ok", protected.value)
       \/ /\ op.kind = "read" /\ protected # None /\ ~Conforms(protected)
          /\ op' = [op EXCEPT !.at = "put", !.previous = protected,
                              !.target = Hardened(protected.value)]
          /\ UNCHANGED <<truth, tainted>>
       \/ /\ op.kind = "store"
          /\ op' = [op EXCEPT !.at = "put", !.previous = protected,
                              !.target = Hardened(op.value)]
          /\ UNCHANGED <<truth, tainted>>
       \/ /\ op.kind = "delete"
          /\ op' = [op EXCEPT !.at = "drop", !.previous = protected]
          /\ UNCHANGED <<truth, tainted>>

\* no protected record: look for one to migrate
ReadLegacy ==
    /\ op.at = "legacy"
    /\ UNCHANGED <<protected, legacy>>
    /\ \/ Finish("error", None)
       \/ legacy = None /\ Finish("ok", None)
       \/ /\ legacy # None
          /\ op' = [op EXCEPT !.at = "put", !.target = Hardened(legacy.value)]
          /\ UNCHANGED <<truth, tainted>>

Put ==
    /\ op.at = "put"
    /\ UNCHANGED legacy
    /\ \/ UNCHANGED protected /\ Finish("error", None)
       \/ Upsert(op.target) /\ Go("check")

\* mutant: the legacy record is left behind
FaultyVerified == Finish("ok", op.target.value)

Verified == IF Migrate THEN Go("sweep") ELSE Finish("ok", op.target.value)

Check ==
    /\ op.at = "check"
    /\ UNCHANGED <<protected, legacy>>
    /\ \/ Go("undo")                            \* the read fails
       \/ protected # op.target /\ Go("undo")
       \/ protected = op.target /\ Verified

Drop ==
    /\ op.at = "drop"
    /\ UNCHANGED legacy
    /\ \/ MayErase(protected) /\ Go("undo")
       \/ Erase(protected) /\ Go("gone")

Gone ==
    /\ op.at = "gone"
    /\ UNCHANGED <<protected, legacy>>
    /\ \/ Go("undo")
       \/ protected = None /\ (IF Migrate THEN Go("sweep") ELSE Finish("ok", None))

\* the legacy record is deleted last
Sweep ==
    /\ op.at = "sweep"
    /\ UNCHANGED protected
    /\ \/ /\ Erase(legacy)
          /\ Finish("ok", IF op.kind = "delete" THEN None ELSE op.target.value)
       \/ /\ MayErase(legacy)
          /\ IF op.kind = "delete" \/ (op.kind = "store" /\ op.previous # None)
             THEN Go("undo")
             ELSE Finish("error", None)

\* restore_data_protection
Undo ==
    /\ op.at = "undo"
    /\ UNCHANGED legacy
    /\ \/ /\ op.previous # None
          /\ \/ UNCHANGED protected /\ Finish("recovery", None)
             \/ Upsert(op.previous) /\ Go("undone")
       \/ /\ op.previous = None
          /\ \/ MayErase(protected) /\ Finish("recovery", None)
             \/ Erase(protected) /\ Go("undone")

Undone ==
    /\ op.at = "undone"
    /\ UNCHANGED <<protected, legacy>>
    /\ \/ Finish("recovery", None)
       \/ protected = op.previous /\ Finish("error", None)

Die ==
    /\ CanDie /\ op.kind # "idle"
    /\ Finish("died", None)
    /\ UNCHANGED <<protected, legacy>>

Init ==
    /\ protected \in {None} \cup {r \in Records : r.value \in Values}
    /\ legacy \in {None} \cup [value : Values, padded : BOOLEAN, exact : {FALSE}]
    /\ protected # None /\ legacy # None => protected.value = legacy.value
    /\ op = Idle
    /\ truth = {Readable}
    /\ tainted = FALSE

Next ==
    \/ Start("read", None)
    \/ Start("delete", None)
    \/ \E v \in Values : Start("store", v)
    \/ Probe \/ ReadLegacy \/ Put \/ Check \/ Drop \/ Gone \/ Sweep \/ Undo \/ Undone
    \/ Die

Spec == Init /\ [][Next]_vars

-----------------------------------------------------------------------------
TypeOK ==
    /\ protected \in Records \cup {None}
    /\ legacy \in Records \cup {None}
    /\ op.kind \in {"idle", "read", "store", "delete"}
    /\ op.previous \in Records \cup {None}
    /\ op.target \in {Hardened(v) : v \in Values \cup {Junk}} \cup {None}
    /\ truth \subseteq Values \cup {None}
    /\ tainted \in BOOLEAN

(***************************************************************************)
(* Between two operations a reader is given a value the user may expect:   *)
(* the one last stored, the one before when the last operation reported a  *)
(* failure or died, never a corrupted one and never one that a successful  *)
(* operation has replaced or deleted -- unless the failure was reported as *)
(* credential_recovery_required.                                           *)
(***************************************************************************)
ReadIsFaithful == op.kind = "idle" /\ ~tainted => Readable \in truth

(***************************************************************************)
(* While nobody asked for a deletion, some copy of an existing credential  *)
(* is in one of the two keychains after every single call, so that neither *)
(* a failure nor the death of the process can lose it.                     *)
(***************************************************************************)
AlwaysACopy ==
    None \notin truth /\ op.kind # "delete" /\ ~tainted
        => protected # None \/ (Migrate /\ legacy # None)

(***************************************************************************)
(* An operation that reports success has left the record the baseline      *)
(* demands: normalized, with the exact accessibility, and no second copy   *)
(* in the legacy keychain that could come back.                            *)
(***************************************************************************)
SuccessIsSettled ==
    op.kind # "idle" /\ op'.kind = "idle" /\ op'.result = "ok" =>
        /\ Migrate => legacy' = None
        /\ protected' = None \/ Conforms(protected')
        /\ op.kind = "store" => protected' = Hardened(op.value)
        /\ op.kind = "delete" => protected' = None

=============================================================================
