--------------------------- MODULE ConnectionVault ---------------------------
(***************************************************************************)
(* Provider connections and their credentials.  The row of a connection is *)
(* in the database, its secret in the credential vault of the platform,    *)
(* and no transaction spans the two: the commands of the shell             *)
(* (src-tauri/provider_commands.rs and commands.rs) change one, then the   *)
(* other, and undo the first when the second refuses.  A generation reads  *)
(* the secret of its route's connection and hands both to Core, which      *)
(* resolves the route once more; one through a legacy profile hands over   *)
(* what the profile's slot holds, be it nothing.                           *)
(*                                                                         *)
(* Commands run as tasks and meet between any two of their calls.  What a  *)
(* vault call does inside is the matter of module Keychain; here it        *)
(* happens or reports an error and changes nothing.                        *)
(***************************************************************************)
EXTENDS Naturals, FiniteSets

CONSTANTS
    Callers,        \* commands that may be under way
    Connections,    \* connection ids
    Bound,          \* connections whose template demands a credential
    Profiles,       \* connections that stem from a legacy profile, of the same id
    Secrets,        \* credentials a user may enter
    None,
    Overlap         \* may commands overlap, or does each wait for the last

VARIABLES
    row,        \* state of each connection's row
    vault,      \* secret in each connection's slot
    unfinished, \* connections with an unfinished model synchronisation
    route,      \* connection the model route belongs to
    calls,      \* the commands under way
    leftover,   \* connections whose undoing failed, as was reported
    sent        \* last generation: how it was addressed, connection and secret

vars == <<row, vault, unfinished, route, calls, leftover, sent>>

\* a secret remembers the connection it was entered for
Keys == [of : Connections, secret : Secrets]

Idle == [cmd |-> "none", at |-> "rest", conn |-> None, key |-> None, previous |-> None,
         before |-> None, result |-> "ok"]

\* what the command found, remembered only when it runs alone
Found(conn) == IF Overlap \/ conn = None THEN None ELSE [row |-> row[conn], vault |-> vault[conn]]

Begin(c, cmd, conn, key) ==
    /\ calls[c].cmd = "none"
    /\ Overlap \/ \A d \in Callers : calls[d].cmd = "none"
    /\ calls' = [calls EXCEPT ![c] =
            [Idle EXCEPT !.cmd = cmd, !.at = "look", !.conn = conn, !.key = key,
                         !.before = Found(conn)]]
    /\ UNCHANGED <<row, vault, unfinished, route, leftover, sent>>

At(c, cmd, at) == calls[c].cmd = cmd /\ calls[c].at = at
Go(c, at) == calls' = [calls EXCEPT ![c].at = at]
Return(c, result) == calls' = [calls EXCEPT ![c] = [Idle EXCEPT !.result = result]]
Fail(c) == Return(c, "error")
Slot(c) == calls[c].conn

Store(c, key) == vault' = [vault EXCEPT ![Slot(c)] = key]
Keep == UNCHANGED <<row, vault, unfinished, route, leftover, sent>>
KeepButVault == UNCHANGED <<row, unfinished, route, leftover, sent>>

Active(conn) == row[conn] = "active"

(***************************************************************************)
(* create_provider_connection: the id must be free, the slot empty; the    *)
(* secret is stored before the row is inserted and taken out again when    *)
(* the insertion is refused.                                               *)
(***************************************************************************)
CreateLook(c) ==
    /\ At(c, "create", "look")
    /\ \/ Fail(c)
       \/ /\ ~Active(Slot(c))
          /\ IF calls[c].key = None THEN Go(c, "insert") ELSE Go(c, "status")
    /\ Keep

CreateStatus(c) ==
    /\ At(c, "create", "status")
    /\ \/ Fail(c)
       \/ vault[Slot(c)] = None /\ Go(c, "store")
    /\ Keep

CreateStore(c) ==
    /\ At(c, "create", "store")
    /\ \/ Fail(c) /\ UNCHANGED vault
       \/ Store(c, calls[c].key) /\ Go(c, "insert")
    /\ KeepButVault

\* an archived row keeps its id; any other validation may refuse as well
CreateInsert(c) ==
    /\ At(c, "create", "insert")
    /\ \/ /\ row[Slot(c)] = "absent"
          /\ calls[c].key # None => Slot(c) \in Bound
          /\ row' = [row EXCEPT ![Slot(c)] = "active"]
          /\ Return(c, "ok")
       \/ /\ IF calls[c].key = None THEN Fail(c) ELSE Go(c, "undo")
          /\ UNCHANGED row
    /\ UNCHANGED <<vault, unfinished, route, leftover, sent>>

CreateUndo(c) ==
    /\ At(c, "create", "undo")
    /\ \/ Store(c, None) /\ UNCHANGED leftover /\ Fail(c)
       \/ UNCHANGED vault /\ leftover' = leftover \cup {Slot(c)} /\ Return(c, "leftover")
    /\ UNCHANGED <<row, unfinished, route, sent>>

(***************************************************************************)
(* delete_provider_connection: the secret goes first and comes back when   *)
(* the row is not archived.                                                *)
(***************************************************************************)
DeleteLook(c) ==
    /\ At(c, "delete", "look")
    /\ \/ Fail(c)
       \/ Active(Slot(c)) /\ Go(c, "read")
    /\ Keep

DeleteRead(c) ==
    /\ At(c, "delete", "read")
    /\ \/ Fail(c)
       \/ calls' = [calls EXCEPT ![c].at = "erase", ![c].previous = vault[Slot(c)]]
    /\ Keep

DeleteErase(c) ==
    /\ At(c, "delete", "erase")
    /\ \/ Fail(c) /\ UNCHANGED vault
       \/ Store(c, None) /\ Go(c, "archive")
    /\ KeepButVault

\* mutant: a refused archiving forgets the secret it has erased
FaultyDeleteArchive(c) ==
    /\ At(c, "delete", "archive")
    /\ \/ /\ Active(Slot(c)) /\ Slot(c) \notin unfinished
          /\ row' = [row EXCEPT ![Slot(c)] = "archived"]
          /\ Return(c, "ok")
       \/ Fail(c) /\ UNCHANGED row
    /\ UNCHANGED <<vault, unfinished, route, leftover, sent>>

DeleteArchive(c) ==
    /\ At(c, "delete", "archive")
    /\ \/ /\ Active(Slot(c)) /\ Slot(c) \notin unfinished
          /\ row' = [row EXCEPT ![Slot(c)] = "archived"]
          /\ Return(c, "ok")
       \/ /\ IF calls[c].previous = None THEN Fail(c) ELSE Go(c, "undo")
          /\ UNCHANGED row
    /\ UNCHANGED <<vault, unfinished, route, leftover, sent>>

DeleteUndo(c) ==
    /\ At(c, "delete", "undo")
    /\ \/ Store(c, calls[c].previous) /\ UNCHANGED leftover /\ Fail(c)
       \/ UNCHANGED vault /\ leftover' = leftover \cup {Slot(c)} /\ Return(c, "leftover")
    /\ UNCHANGED <<row, unfinished, route, sent>>

(***************************************************************************)
(* set_credential and delete_credential: the connection is looked up, then *)
(* the slot is written.                                                    *)
(***************************************************************************)
SetLook(c) ==
    /\ calls[c].cmd \in {"set", "clear"} /\ calls[c].at = "look"
    /\ \/ Fail(c)
       \/ Active(Slot(c)) /\ Slot(c) \in Bound /\ Go(c, "store")
    /\ Keep

SetStore(c) ==
    /\ calls[c].cmd \in {"set", "clear"} /\ calls[c].at = "store"
    /\ \/ Fail(c) /\ UNCHANGED vault
       \/ Store(c, calls[c].key) /\ Return(c, "ok")
    /\ KeepButVault

(***************************************************************************)
(* A generation: credential_for_selection looks up the connection of the   *)
(* route and reads its slot; Core resolves the route again and compares    *)
(* (resolve_generation_target_with_connection_credential).                 *)
(***************************************************************************)
SendLook(c) ==
    /\ At(c, "send", "look")
    /\ \/ Fail(c)
       \/ /\ route # None /\ Active(route)
          /\ calls' = [calls EXCEPT ![c].conn = route,
                                    ![c].at = IF route \in Bound THEN "read" ELSE "resolve"]
    /\ Keep

SendRead(c) ==
    /\ At(c, "send", "read")
    /\ \/ Fail(c)
       \/ calls' = [calls EXCEPT ![c].at = "resolve", ![c].key = vault[Slot(c)]]
    /\ Keep

BindingAccepted(c) ==
    /\ calls[c].conn = route
    /\ (route \in Bound) = (calls[c].key # None)

SendResolve(c) ==
    /\ At(c, "send", "resolve")
    /\ \/ Fail(c) /\ UNCHANGED sent
       \/ /\ route # None /\ Active(route)
          /\ BindingAccepted(c)
          /\ sent' = [by |-> "route", to |-> route, key |-> calls[c].key]
          /\ Return(c, "ok")
    /\ UNCHANGED <<row, vault, unfinished, route, leftover>>

(***************************************************************************)
(* A generation through a legacy profile: the profile is found in the list *)
(* and its slot read, whatever the slot holds; Core looks the profile up   *)
(* again (an archived connection has none) and calls it with what it was   *)
(* given.  There is no binding check here, although legacy_provider_graph  *)
(* gives every profile's connection a credential_ref.                      *)
(***************************************************************************)
ProfileLook(c) ==
    /\ At(c, "profile", "look")
    /\ \/ Fail(c)
       \/ Active(Slot(c)) /\ Go(c, "read")
    /\ Keep

ProfileRead(c) ==
    /\ At(c, "profile", "read")
    /\ \/ Fail(c)
       \/ calls' = [calls EXCEPT ![c].at = "resolve", ![c].key = vault[Slot(c)]]
    /\ Keep

ProfileResolve(c) ==
    /\ At(c, "profile", "resolve")
    /\ \/ Fail(c) /\ UNCHANGED sent
       \/ /\ Active(Slot(c))
          /\ sent' = [by |-> "profile", to |-> Slot(c), key |-> calls[c].key]
          /\ Return(c, "ok")
    /\ UNCHANGED <<row, vault, unfinished, route, leftover>>

(***************************************************************************)
(* Edits of the graph that matter here                                     *)
(***************************************************************************)
SyncStarts(conn) ==
    /\ Active(conn)
    /\ unfinished' = unfinished \cup {conn}
    /\ UNCHANGED <<row, vault, route, calls, leftover, sent>>

SyncEnds(conn) ==
    /\ conn \in unfinished
    /\ unfinished' = unfinished \ {conn}
    /\ UNCHANGED <<row, vault, route, calls, leftover, sent>>

\* delete_model_route, and a route of the same id saved for a connection
DeleteRoute ==
    /\ route' = None /\ route # None
    /\ UNCHANGED <<row, vault, unfinished, calls, leftover, sent>>

SaveRoute(conn) ==
    /\ route = None /\ Active(conn)
    /\ route' = conn
    /\ UNCHANGED <<row, vault, unfinished, calls, leftover, sent>>

\* profiles are migrated from an earlier version; the shell does not add any
Init ==
    /\ row = [conn \in Connections |-> IF conn \in Profiles THEN "active" ELSE "absent"]
    /\ vault = [conn \in Connections |-> None]
    /\ unfinished = {}
    /\ route = None
    /\ calls = [c \in Callers |-> Idle]
    /\ leftover = {}
    /\ sent = None

Next ==
    \/ \E c \in Callers :
        \/ \E conn \in Connections :
            \/ Begin(c, "create", conn, None)
            \/ Begin(c, "delete", conn, None)
            \/ Begin(c, "clear", conn, None)
            \/ \E secret \in Secrets :
                \/ Begin(c, "create", conn, [of |-> conn, secret |-> secret])
                \/ Begin(c, "set", conn, [of |-> conn, secret |-> secret])
        \/ Begin(c, "send", None, None)
        \/ \E profile \in Profiles : Begin(c, "profile", profile, None)
        \/ CreateLook(c) \/ CreateStatus(c) \/ CreateStore(c) \/ CreateInsert(c)
        \/ CreateUndo(c)
        \/ DeleteLook(c) \/ DeleteRead(c) \/ DeleteErase(c) \/ DeleteArchive(c)
        \/ DeleteUndo(c)
        \/ SetLook(c) \/ SetStore(c)
        \/ SendLook(c) \/ SendRead(c) \/ SendResolve(c)
        \/ ProfileLook(c) \/ ProfileRead(c) \/ ProfileResolve(c)
    \/ \E conn \in Connections : SyncStarts(conn) \/ SyncEnds(conn) \/ SaveRoute(conn)
    \/ DeleteRoute

Spec == Init /\ [][Next]_vars

-----------------------------------------------------------------------------
TypeOK ==
    /\ row \in [Connections -> {"absent", "active", "archived"}]
    /\ vault \in [Connections -> Keys \cup {None}]
    /\ \A conn \in Connections : vault[conn] # None => vault[conn].of = conn
    /\ unfinished \subseteq Connections
    /\ route \in Connections \cup {None}
    /\ leftover \subseteq Connections

AtRest == \A c \in Callers : calls[c].cmd = "none"

(***************************************************************************)
(* A command either does all it says or nothing: one that reports an error *)
(* has left row and slot of its connection as it found them, unless the    *)
(* undoing itself failed.  What create_provider_connection and             *)
(* delete_provider_connection undo for.                                    *)
(***************************************************************************)
Ended(c) == calls[c].cmd # "none" /\ calls'[c].cmd = "none"

Done(call, row1, vault1) ==
    CASE call.cmd = "create" -> row1 = "active" /\ (call.key # None => vault1 = call.key)
      [] call.cmd = "delete" -> row1 = "archived" /\ vault1 = None
      [] OTHER -> row1 = "active" /\ vault1 = call.key

AllOrNothing ==
    \A c \in Callers :
        Ended(c) /\ calls[c].cmd \notin {"send", "profile"} /\ calls'[c].result # "leftover"
        => LET conn == calls[c].conn IN
           IF calls'[c].result = "ok"
           THEN Done(calls[c], row'[conn], vault'[conn])
           ELSE [row |-> row'[conn], vault |-> vault'[conn]] = calls[c].before

(***************************************************************************)
(* No secret stays in the vault for a connection that is gone: what        *)
(* deleteProviderConnection announces to the user.                         *)
(***************************************************************************)
SecretHasConnection ==
    AtRest => \A conn \in Connections \ leftover :
                vault[conn] # None => row[conn] = "active"

(***************************************************************************)
(* A secret goes out only to a connection that demands one, and only to    *)
(* the one it was entered for, whatever happens to the route, the row or   *)
(* the slot while the vault is being read; and a connection that demands   *)
(* one is called without only through a legacy profile, where the secret   *)
(* is optional.                                                            *)
(***************************************************************************)
SecretReachesItsConnection ==
    sent # None =>
        /\ sent.key # None => sent.to \in Bound /\ sent.key.of = sent.to
        /\ sent.to \in Bound /\ sent.key = None => sent.by = "profile" /\ sent.to \in Profiles

=============================================================================
