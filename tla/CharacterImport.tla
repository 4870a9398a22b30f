--------------------------- MODULE CharacterImport ---------------------------
(***************************************************************************)
(* Importing a character card: the transport ticket of the shell           *)
(* (src-tauri/src/state.rs, commands.rs), the inspection Core keeps in     *)
(* memory (crates/core/src/app.rs), the import journal, the               *)
(* content-addressed store and the records (crates/storage/src/           *)
(* database.rs), and recovery when the data root is opened again.          *)
(*                                                                         *)
(* Import i is one picked file with one ticket and one inspection; a       *)
(* command that has taken the ticket or the inspection owns it, and a      *)
(* second one finds nothing.  The files of an import are its source and    *)
(* its assets, in the order they are stored.                               *)
(*                                                                         *)
(* Durability.  A content-addressed file is written under a temporary name *)
(* and synced, renamed, and its directory synced: until then ("linked") a  *)
(* power loss may take the name away.  Database transactions are durable   *)
(* (synchronous = FULL).  The removals of recovery are taken to be.        *)
(*                                                                         *)
(* A definition Faulty<X> is what a plausible mistake would make of <X>.   *)
(* No specification uses it: it shows that a property notices the mistake. *)
(***************************************************************************)
EXTENDS Naturals, Sequences, FiniteSets

CONSTANTS
    Imports,      \* picked files
    Files,        \* contents, named by their hash
    FilesOf,      \* the source and the assets of each import
    Blocked,      \* imports the inspection refuses
    Tickets,      \* capacity of the ticket store (16)
    MaxCrashes    \* bound on process deaths

VARIABLES
    picked,      \* imports picked so far
    tickets,     \* the ticket store: live, or reserved by a command
    staging,     \* files in the two staging directories
    pending,     \* pending_imports
    work,        \* the command that owns each import
    partials,    \* temporary files in the content-addressed store
    cas,         \* the content-addressed store
    journal,     \* import_jobs
    rows,        \* content_sources and assets
    characters,  \* characters made of each inspection
    phase,       \* up, or the step of recovery
    crashes

memVars == <<tickets, pending, work>>
diskVars == <<staging, partials, cas>>
dbVars == <<journal, rows, characters>>
vars == <<picked, memVars, diskVars, dbVars, phase, crashes>>

StagedParts == {"transport", "snapshot", "assets"}
Idle == [pc |-> "none", at |-> 0, done |-> FALSE]
Commands == {"none", "snapshot", "prepare", "insert", "release", "ticket", "journal", "store",
             "publish", "sync", "records", "lookup", "restore", "cleanup"}

Contents(i) == {FilesOf[i][n] : n \in DOMAIN FilesOf[i]}
Current(i) == FilesOf[i][work[i].at]
Stored(f) == cas[f] # "absent"

Init ==
    /\ picked = {}
    /\ tickets = [i \in Imports |-> "none"]
    /\ staging = {}
    /\ pending = {}
    /\ work = [i \in Imports |-> Idle]
    /\ partials = {}
    /\ cas = [f \in Files |-> "absent"]
    /\ journal = [i \in Imports |-> "none"]
    /\ rows = {}
    /\ characters = [i \in Imports |-> 0]
    /\ phase = "up"
    /\ crashes = 0

At(i, pc) == phase = "up" /\ work[i].pc = pc
Goto(i, pc) == work' = [work EXCEPT ![i].pc = pc]
End(i) == work' = [work EXCEPT ![i] = Idle]

(* A removal whose failure is ignored. *)
TryRemove(S) == staging' \in {staging, staging \ S}
Owned(i) == {i} \X {"snapshot", "assets"}

-----------------------------------------------------------------------------
(* pick_import.  When the store is full the staged copy is dropped and the *)
(* command fails.                                                          *)
Held == {i \in Imports : tickets[i] # "none"}

PickImport(i) ==
    /\ phase = "up"
    /\ i \notin picked
    /\ picked' = picked \cup {i}
    /\ IF Cardinality(Held) < Tickets
       THEN /\ tickets' = [tickets EXCEPT ![i] = "live"]
            /\ staging' = staging \cup {<<i, "transport">>}
       ELSE UNCHANGED <<tickets, staging>>
    /\ UNCHANGED <<pending, work, partials, cas, dbVars, phase, crashes>>

(* discard_import of a ticket reserves it while the file is removed, and   *)
(* gives it back when that fails.                                          *)
ReserveTicket(i) ==
    /\ At(i, "none")
    /\ tickets[i] = "live"
    /\ tickets' = [tickets EXCEPT ![i] = "reserved"]
    /\ Goto(i, "ticket")
    /\ UNCHANGED <<picked, pending, diskVars, dbVars, phase, crashes>>

DiscardTicket(i) ==
    /\ At(i, "ticket")
    /\ \/ /\ staging' = staging \ {<<i, "transport">>}
          /\ tickets' = [tickets EXCEPT ![i] = "none"]
       \/ /\ tickets' = [tickets EXCEPT ![i] = "live"]
          /\ UNCHANGED staging
    /\ End(i)
    /\ UNCHANGED <<picked, pending, partials, cas, dbVars, phase, crashes>>

-----------------------------------------------------------------------------
(* inspect_import: the ticket is taken, the source is copied into Core's   *)
(* staging directory, inspected, and its assets are staged.                *)
TakeTicket(i) ==
    /\ At(i, "none")
    /\ tickets[i] = "live"
    /\ tickets' = [tickets EXCEPT ![i] = "none"]
    /\ Goto(i, "snapshot")
    /\ UNCHANGED <<picked, pending, diskVars, dbVars, phase, crashes>>

SnapshotSource(i) ==
    /\ At(i, "snapshot")
    /\ \/ staging' = staging \cup {<<i, "snapshot">>} /\ Goto(i, "prepare")
       \/ TryRemove({<<i, "snapshot">>}) /\ Goto(i, "release")
    /\ UNCHANGED <<picked, tickets, pending, partials, cas, dbVars, phase, crashes>>

PrepareImport(i) ==
    /\ At(i, "prepare")
    /\ \/ /\ staging' = staging \cup (IF i \in Blocked THEN {} ELSE {<<i, "assets">>})
          /\ Goto(i, "insert")
       \/ TryRemove({<<i, "snapshot">>}) /\ Goto(i, "release")
    /\ UNCHANGED <<picked, tickets, pending, partials, cas, dbVars, phase, crashes>>

InsertPending(i) ==
    /\ At(i, "insert")
    /\ pending' = pending \cup {i}
    /\ Goto(i, "release")
    /\ UNCHANGED <<picked, tickets, diskVars, dbVars, phase, crashes>>

(* The transport copy is discarded; if that fails, the inspection is too.  *)
(* (The dropped StagedImport then tries once more.)                        *)
ReleaseTransport(i) ==
    /\ At(i, "release")
    /\ \/ staging' = staging \ {<<i, "transport">>} /\ UNCHANGED pending
       \/ /\ pending' = pending \ {i}
          /\ TryRemove({<<i, "transport">>} \cup (IF i \in pending THEN Owned(i) ELSE {}))
    /\ End(i)
    /\ UNCHANGED <<picked, tickets, partials, cas, dbVars, phase, crashes>>

-----------------------------------------------------------------------------
(* commit_import claims the inspection; a blocked one is given back.       *)
CommitImport(i) ==
    /\ At(i, "none")
    /\ i \in pending
    /\ pending' = pending \ {i}
    /\ Goto(i, IF i \in Blocked THEN "restore" ELSE "journal")
    /\ UNCHANGED <<picked, tickets, diskVars, dbVars, phase, crashes>>

(* discard_import of an inspection. *)
DiscardImport(i) ==
    /\ At(i, "none")
    /\ i \in pending
    /\ pending' = pending \ {i}
    /\ Goto(i, "cleanup")
    /\ UNCHANGED <<picked, tickets, diskVars, dbVars, phase, crashes>>

FaultyCreateImportJournal(i) ==
    /\ At(i, "journal")
    /\ work' = [work EXCEPT ![i].pc = "store", ![i].at = 1]
    /\ UNCHANGED <<picked, tickets, pending, diskVars, dbVars, phase, crashes>>
CreateImportJournal(i) ==
    /\ At(i, "journal")
    /\ journal' = [journal EXCEPT ![i] = "preparing"]
    /\ work' = [work EXCEPT ![i].pc = "store", ![i].at = 1]
    /\ UNCHANGED <<picked, tickets, pending, diskVars, rows, characters, phase, crashes>>

(* store_verified_source.  A file that is there is verified and synced     *)
(* again: whoever put it there may not have come to its own sync.          *)
FileThere(i) ==
    /\ At(i, "store")
    /\ work[i].at \in DOMAIN FilesOf[i]
    /\ Stored(Current(i))
    /\ cas' = [cas EXCEPT ![Current(i)] = "durable"]
    /\ work' = [work EXCEPT ![i].at = @ + 1]
    /\ UNCHANGED <<picked, tickets, pending, staging, partials, dbVars, phase, crashes>>

CopyFile(i) ==
    /\ At(i, "store")
    /\ work[i].at \in DOMAIN FilesOf[i]
    /\ ~Stored(Current(i))
    /\ partials' = partials \cup {<<i, Current(i)>>}
    /\ Goto(i, "publish")
    /\ UNCHANGED <<picked, tickets, pending, staging, cas, dbVars, phase, crashes>>

(* The rename never replaces: a file that has appeared meanwhile is kept   *)
(* and verified instead.                                                   *)
PublishFile(i) ==
    /\ At(i, "publish")
    /\ cas' = [cas EXCEPT ![Current(i)] = IF @ = "absent" THEN "linked" ELSE @]
    /\ partials' = partials \ {<<i, Current(i)>>}
    /\ Goto(i, "sync")
    /\ UNCHANGED <<picked, tickets, pending, staging, dbVars, phase, crashes>>

SyncFile(i) ==
    /\ At(i, "sync")
    /\ cas' = [cas EXCEPT ![Current(i)] = "durable"]
    /\ work' = [work EXCEPT ![i].pc = "store", ![i].at = @ + 1]
    /\ UNCHANGED <<picked, tickets, pending, staging, partials, dbVars, phase, crashes>>

MarkFileStored(i) ==
    /\ At(i, "store")
    /\ work[i].at \notin DOMAIN FilesOf[i]
    /\ journal' = [journal EXCEPT ![i] = "file_stored"]
    /\ Goto(i, "records")
    /\ UNCHANGED <<picked, tickets, pending, diskVars, rows, characters, phase, crashes>>

(* The records and the end of the journal are one transaction; its commit  *)
(* may report an error although it took effect.                            *)
CommitImportRecords(i) ==
    /\ At(i, "records")
    /\ rows' = rows \cup Contents(i)
    /\ characters' = [characters EXCEPT ![i] = @ + 1]
    /\ journal' = [journal EXCEPT ![i] = "none"]
    /\ \E pc \in {"cleanup", "lookup"} :
          work' = [work EXCEPT ![i].pc = pc, ![i].done = TRUE]
    /\ UNCHANGED <<picked, tickets, pending, diskVars, phase, crashes>>

(* Any step of the commit may fail: on its input or output, or because the *)
(* staged file has changed.                                                *)
CommitFails(i) ==
    /\ phase = "up"
    /\ work[i].pc \in {"journal", "store", "publish", "sync", "records"}
    /\ partials' \in {partials, partials \ ({i} \X Files)}
    /\ Goto(i, "lookup")
    /\ UNCHANGED <<picked, tickets, pending, staging, cas, dbVars, phase, crashes>>

(* After an error the character is looked up.  If even that fails, the     *)
(* claim is neither restored nor cleaned up.                               *)
LookUpCharacter(i) ==
    /\ At(i, "lookup")
    /\ \/ work[i].done /\ Goto(i, "cleanup")
       \/ ~work[i].done /\ Goto(i, "restore")
       \/ End(i)
    /\ UNCHANGED <<picked, tickets, pending, diskVars, dbVars, phase, crashes>>

RestorePendingImport(i) ==
    /\ At(i, "restore")
    /\ pending' = pending \cup {i}
    /\ End(i)
    /\ UNCHANGED <<picked, tickets, diskVars, dbVars, phase, crashes>>

CleanupPendingImport(i) ==
    /\ At(i, "cleanup")
    /\ TryRemove(Owned(i))
    /\ End(i)
    /\ UNCHANGED <<picked, tickets, pending, partials, cas, dbVars, phase, crashes>>

-----------------------------------------------------------------------------
(* The process dies, or the machine loses power: names that were not       *)
(* synced may be lost.                                                     *)
Crash ==
    /\ crashes < MaxCrashes
    /\ crashes' = crashes + 1
    /\ phase' = "jobs"
    /\ tickets' = [i \in Imports |-> "none"]
    /\ pending' = {}
    /\ work' = [i \in Imports |-> Idle]
    /\ \E lost \in SUBSET {f \in Files : cas[f] = "linked"} :
          cas' = [f \in Files |-> IF f \in lost THEN "absent" ELSE cas[f]]
    /\ UNCHANGED <<picked, staging, partials, dbVars>>

(* recover_interrupted_work: files named by a journal row that no record   *)
(* refers to are removed, one by one; then the journal is emptied ...      *)
Unreferenced ==
    {f \in Files : /\ Stored(f)
                   /\ f \notin rows
                   /\ \E i \in Imports : journal[i] # "none" /\ f \in Contents(i)}

RemoveUnreferencedCas(f) ==
    /\ phase = "jobs"
    /\ f \in Unreferenced
    /\ cas' = [cas EXCEPT ![f] = "absent"]
    /\ UNCHANGED <<picked, memVars, staging, partials, dbVars, phase, crashes>>

ApplyRecovery ==
    /\ phase = "jobs"
    /\ Unreferenced = {}
    /\ staging' = staging \ {<<i, "snapshot">> : i \in {i \in Imports : journal[i] # "none"}}
    /\ journal' = [i \in Imports |-> "none"]
    /\ phase' = "partials"
    /\ UNCHANGED <<picked, memVars, partials, cas, rows, characters, crashes>>

(* ... and whatever is left in the stores and the staging directory goes.  *)
RemovePartialFiles ==
    /\ phase = "partials"
    /\ partials' = {}
    /\ phase' = "staging"
    /\ UNCHANGED <<picked, memVars, staging, cas, dbVars, crashes>>

RemoveAbandonedStagingFiles ==
    /\ phase = "staging"
    /\ staging' = {}
    /\ phase' = "up"
    /\ UNCHANGED <<picked, memVars, partials, cas, dbVars, crashes>>

-----------------------------------------------------------------------------
Command(i) ==
    \/ PickImport(i)
    \/ ReserveTicket(i)
    \/ DiscardTicket(i)
    \/ TakeTicket(i)
    \/ SnapshotSource(i)
    \/ PrepareImport(i)
    \/ InsertPending(i)
    \/ ReleaseTransport(i)
    \/ CommitImport(i)
    \/ DiscardImport(i)
    \/ CreateImportJournal(i)
    \/ FileThere(i)
    \/ CopyFile(i)
    \/ PublishFile(i)
    \/ SyncFile(i)
    \/ MarkFileStored(i)
    \/ CommitImportRecords(i)
    \/ CommitFails(i)
    \/ LookUpCharacter(i)
    \/ RestorePendingImport(i)
    \/ CleanupPendingImport(i)

Recovery ==
    \/ \E f \in Files : RemoveUnreferencedCas(f)
    \/ ApplyRecovery
    \/ RemovePartialFiles
    \/ RemoveAbandonedStagingFiles

Next ==
    \/ \E i \in Imports : Command(i)
    \/ Recovery
    \/ Crash

Spec == Init /\ [][Next]_vars

-----------------------------------------------------------------------------
(* Every variable keeps its shape. *)
TypeOK ==
    /\ picked \subseteq Imports
    /\ tickets \in [Imports -> {"none", "live", "reserved"}]
    /\ staging \subseteq Imports \X StagedParts
    /\ pending \subseteq Imports
    /\ work \in [Imports -> [pc : Commands, at : Nat, done : BOOLEAN]]
    /\ partials \subseteq Imports \X Files
    /\ cas \in [Files -> {"absent", "linked", "durable"}]
    /\ journal \in [Imports -> {"none", "preparing", "file_stored"}]
    /\ rows \subseteq Files
    /\ characters \in [Imports -> 0..1]
    /\ phase \in {"up", "jobs", "partials", "staging"}
    /\ crashes \in 0..MaxCrashes

(* A character in the library has its source and its assets, on disk and   *)
(* safe from a power loss, whatever other imports, failures and recoveries *)
(* do: files are shared by hash.                                           *)
CharactersHaveTheirFiles ==
    /\ \A i \in Imports : characters[i] > 0 => Contents(i) \subseteq rows
    /\ \A f \in rows : cas[f] = "durable"

(* No file of the content-addressed store is forgotten: a record refers to *)
(* it or the journal names it, so that the next start removes it.          *)
NoFileForgotten ==
    \A f \in Files : Stored(f) =>
        f \in rows \/ \E i \in Imports : journal[i] # "none" /\ f \in Contents(i)

(* An inspection that is listed can be committed or retried: its staged    *)
(* files are there, and no earlier attempt has made a character of it.     *)
PendingCanBeCommitted ==
    \A i \in pending :
        /\ phase = "up"
        /\ <<i, "snapshot">> \in staging
        /\ i \notin Blocked => <<i, "assets">> \in staging
        /\ characters[i] = 0

(* The ticket store is bounded although a reserved ticket may come back,   *)
(* and a ticket that is there still has its file.                          *)
TicketsAreBoundedAndBacked ==
    /\ Cardinality({i \in Imports : tickets[i] # "none"}) <= Tickets
    /\ \A i \in Imports : tickets[i] = "live" => <<i, "transport">> \in staging

(* "startup recovery removes abandoned staging and unreferenced            *)
(* interrupted CAS writes" (docs/architecture/import-pipeline.md), after   *)
(* any crash, one in the middle of a recovery included: once the journal   *)
(* has been worked off, every stored file has its record, and once the     *)
(* store has been swept, no partial file is left.                          *)
RecoveryCleans ==
    /\ phase \in {"partials", "staging"} => \A f \in Files : Stored(f) => f \in rows
    /\ phase = "staging" => partials = {}
=============================================================================
