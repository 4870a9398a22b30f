---------------------------- MODULE MCDiscovery ----------------------------
(***************************************************************************)
(* A discovery session up to its review, driven by two callers, and the    *)
(* commit that follows it: by one desktop command under every fault, or by *)
(* two commands at once.  A behaviour is one of these; the variables of    *)
(* the rest keep their first value.                                        *)
(***************************************************************************)
EXTENDS DiscoverySession, TLC

CONSTANTS First,          \* the command that commits alone
          MaxRequests, MaxCrashes, MaxVaultFailures, MaxRefusals, MaxSelections

ASSUME FirstAssumption == First \in Threads /\ None \notin Threads

VARIABLES scope,
          phase, steps, planned, selection, graph, vault,
          requests, crashes, failures, refusals, selections

Commit == INSTANCE DiscoveryCommit

(* One document of each of two sites.                                      *)
Documents == {"a", "b"}
SiteOf == [e \in Documents |-> e]
Callers == Permutations(Threads)

ledgerOnly == <<phase, steps, planned, selection, graph, vault>>
counters == <<requests, crashes, failures, refusals, selections>>
sessionOnly == <<assisted, ledger, present, begun, engine>>

MCInit ==
    \/ /\ scope = "session" /\ Init
       /\ phase = None /\ steps = <<>> /\ planned = None /\ selection = None
       /\ graph = FALSE /\ vault = None /\ requests = 0 /\ crashes = 0
       /\ failures = 0 /\ refusals = 0 /\ selections = 0
    \/ /\ scope \in {"faults", "race"} /\ Commit!Init
       /\ assisted = FALSE /\ stored = {} /\ found = {} /\ extra = {} /\ present = FALSE
       /\ begun = 0 /\ state = "cancelled" /\ evidence = {} /\ approved = {}
       /\ consented = FALSE /\ turns = 0 /\ toolCalls = 0 /\ retries = 0 /\ reserved = 0
       /\ nextCall = 1 /\ pendingOutput = 0 /\ pendingTool = A!NoTool /\ pendingRetry = FALSE
       /\ observations = << >> /\ questions = FALSE /\ draft = A!NoDraft
       /\ rounds = 0 /\ disclosed = {} /\ granted = {}

SessionNext == scope = "session" /\ Next /\ UNCHANGED <<ledgerOnly, counters>>

(* Beside another command: only crashes and requests.                     *)
CommitNext ==
    /\ scope # "session" /\ Commit!Next /\ UNCHANGED sessionOnly
    /\ scope = "faults" => \A t \in Threads \ {First} : run'[t] = run[t]
    /\ scope = "race" => failures' + refusals' + selections' = 0

MCNext == UNCHANGED scope /\ (SessionNext \/ CommitNext)
MCSpec == MCInit /\ [][MCNext]_<<vars, scope, ledgerOnly, counters>>

(* In every durable state of a commit, whatever crashes, recovery,         *)
(* cancellation, failing vault calls and concurrent commands did, the      *)
(* session, its operation, its attempt and the graph tell one story; the   *)
(* recipe has run strictly down; a session that ended has nothing of its   *)
(* commit left in the database; and a ready connection that needs a        *)
(* credential has one, as long as nobody else commits.                     *)
CommitIsAccountedFor ==
    /\ scope # "session" => Commit!CommitIsAccountedFor
    /\ scope = "faults" => Commit!ReadyHasCredential

(* A model the user chose after approving the review is never replaced by  *)
(* the plan's older choice (restore_discovery_provider_selection).         *)
NewerSelectionWins == Commit!NewerSelectionWins

(* Between the steps of all callers, and after every crash, the assistant  *)
(* in the draft can be restored, a session that waits for evidence has no  *)
(* assistant or one that asked for it, and an operation is executed by one *)
(* caller and once.                                                        *)
SessionIsSound ==
    scope = "session" => TypeOK /\ DraftRestores /\ EvidenceIsAwaited /\ WorkIsDoneOnce
=============================================================================
