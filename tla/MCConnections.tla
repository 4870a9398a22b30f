---------------------------- MODULE MCConnections ----------------------------
(***************************************************************************)
(* Connections and their credentials: the provider graph, edited by users  *)
(* or while a discovery holds a captured selection; the commands that      *)
(* change a row and its secret, one after the other or two at once; and    *)
(* the keychain record of one credential, with calls that fail or with a   *)
(* process that dies.  A behaviour is one of one scope; the rest stays as  *)
(* it starts.                                                              *)
(***************************************************************************)
EXTENDS ProviderGraph, TLC

CONSTANTS
    Scopes, p1, o1, m1, m2, plain, r1, q1,
    Callers, Slots, Demanding, Legacies, Secrets, MaxLeftover, \* ConnectionVault
    Values, Junk                                               \* Keychain

VARIABLES
    scope,
    row, vault, unfinished, route, calls, leftover, sent,      \* ConnectionVault
    protected, legacy, op, truth, tainted                      \* Keychain

(* One legacy profile, one other connection, two models, and one route and *)
(* one preset of the user's.                                               *)
OneProfile == {p1}
OneOther == {o1}
TwoModels == {m1, m2}
OneConfig == {plain}
OneUserRoute == {r1}
OneUserPreset == {q1}

(* Connections that demand a credential, and some that do not.             *)
Alone == INSTANCE ConnectionVault WITH
    Connections <- Slots, Bound <- Demanding, Profiles <- Legacies, Overlap <- FALSE
Together == INSTANCE ConnectionVault WITH
    Connections <- Slots, Bound <- Demanding, Profiles <- Legacies, Overlap <- TRUE
CallerSymmetry == Permutations(Callers)

Faults == INSTANCE Keychain WITH
    Migrate <- TRUE, Corrupts <- TRUE, CanDie <- FALSE
Death == INSTANCE Keychain WITH
    Migrate <- TRUE, Corrupts <- FALSE, CanDie <- TRUE

(* Some connections demand a credential, those of legacy profiles always;  *)
(* and None is no connection, no secret and no record.                     *)
ASSUME ConnectionsAssumption ==
    /\ Legacies \subseteq Demanding /\ Demanding \subseteq Slots /\ None \notin Slots
    /\ None \notin Together!Keys /\ None \notin Faults!Records

vaultVars == <<row, vault, unfinished, route, calls, leftover, sent>>
keychainVars == <<protected, legacy, op, truth, tainted>>

MCInit ==
    /\ scope \in Scopes /\ Init /\ Together!Init /\ Faults!Init
    /\ scope \notin {"faults", "death"} => protected = None /\ legacy = None

(* Users edit all connections, or a discovery runs beside the profile.     *)
GraphNext ==
    /\ scope \in {"edits", "restore"} /\ Next /\ UNCHANGED <<scope, vaultVars, keychainVars>>
    /\ scope = "edits" => plan' = Absent
    /\ scope = "restore" => connections'[o1] = "absent"
(* Commands one after the other, where a synchronisation may hold up the   *)
(* deletion of a profile's connection and some undoing may fail.           *)
AloneNext ==
    /\ scope = "alone" /\ Alone!Next /\ UNCHANGED <<scope, vars, keychainVars>>
    /\ unfinished' \subseteq Legacies /\ Cardinality(leftover') <= MaxLeftover
(* Commands that overlap, on the connections that demand a credential.     *)
(* Undoing that fails is in the scope without overlaps.                    *)
TogetherNext ==
    /\ scope = "together" /\ Together!Next /\ UNCHANGED <<scope, vars, keychainVars>>
    /\ unfinished' = {} /\ leftover' = {}
    /\ \A c \in Callers : calls'[c].conn \in Demanding \cup {None}
FaultsNext == scope = "faults" /\ Faults!Next /\ UNCHANGED <<scope, vars, vaultVars>>
DeathNext == scope = "death" /\ Death!Next /\ UNCHANGED <<scope, vars, vaultVars>>

MCNext == GraphNext \/ AloneNext \/ TogetherNext \/ FaultsNext \/ DeathNext
MCSpec == MCInit /\ [][MCNext]_<<scope, vars, vaultVars, keychainVars>>

(* While users edit, archive and save in any order, what is selected stays *)
(* usable; only a selection a discovery restores may not be.               *)
SelectedStaysActive == scope = "edits" => SelectedIsActive

(* A secret goes out only to the connection it was entered for, whatever   *)
(* happens to the route, the row or the slot meanwhile, and a connection   *)
(* that demands one is called without only through a legacy profile;       *)
(* commands that follow one another leave no secret of a connection that   *)
(* is gone; and whichever call of the keychain fails, is corrupted or is   *)
(* its last, a reader is given a value the user may expect, and a          *)
(* credential nobody deletes has a copy after every single call.           *)
SecretsAreSound ==
    /\ Together!TypeOK /\ Faults!TypeOK
    /\ scope = "together" => Together!SecretReachesItsConnection
    /\ scope = "alone" => Alone!SecretReachesItsConnection /\ Alone!SecretHasConnection
    /\ Faults!ReadIsFaithful /\ Faults!AlwaysACopy

(* A command of the shell that ends has done all it says or, when it says  *)
(* that it failed, nothing, unless the undoing failed as well; and an      *)
(* operation of the keychain that reports success has left the one record  *)
(* the baseline demands.                                                   *)
CommandsAreWhole ==
    [][(scope = "alone" => Alone!AllOrNothing) /\ Faults!SuccessIsSettled]_<<vaultVars, keychainVars>>
=============================================================================
