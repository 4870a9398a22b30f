# A formal model of lorepia's core

Lorepia is a local chat application: a Rust core (`crates/`) keeps rooms, their
branching histories and provider settings in SQLite, talks to language-model
providers, and is driven by several shells (a Tauri application, and Apple,
Android and Windows applications through bindings). This directory holds TLA+
models of the core, the TLC configurations that check them on small instances,
and TLAPS proofs of the properties that matter most.

`PROJECT.json` is the index: every component, every run, the source lines each
definition stands for, the hazards the properties are for and the theorems.

## The system

| component | state | operations | interacts with |
| --- | --- | --- | --- |
| conversation store (`crates/storage/src/database.rs`) | tables `messages`, `conversation_branches`, `conversation_state`, `generations`, `settings` | append a generation, append an edit or regeneration on a new branch, remove, fork, select, checkpoint, finalize, compensate, recover | one connection behind a mutex: every call is one transaction |
| chat requests (`crates/core/src/app.rs`) | none of their own between calls, but each holds what it has read | send, edit, regenerate, cancel, remove | several storage calls per request, then a spawned task |
| generation pipeline (`crates/chat/src/generation.rs`, `app.rs`) | cancellation registry, two bounded channels, accumulated text, tool calls, the checkpoint text | run, forward, checkpoint, join, finalize, publish | provider (events), store (checkpoints, terminal transaction), subscribers (broadcast) |
| prompt planning (`crates/chat/src/prompt.rs`) | none | select a suffix of the history within a budget | called by chat requests |
| credential reflection guard (`generation.rs`) | a partial match per stream | push, finish | called by the runner |
| chat event stream (`crates/shell-api/src/stream.rs`, `channels.rs`, `chat-stream.ts`, `app-controller.ts`) | last sequence, terminal seen, stream epoch | receive, verify, reconcile, dispose | lossy broadcast of 256 events; reload from the store |
| character import (`app.rs`, `database.rs`, `crates/content`) | pending inspections, import journal, content-addressed files | inspect, commit, discard, recover | file system and SQLite in separate steps |
| model synchronisation (`crates/core/src/app/model_sync.rs`, `crates/storage/src/model_sync.rs`) | job row with revision, review, event outbox | start, fetch, review, approve, commit, cancel, poll, acknowledge, recover | provider, store |
| discovery sessions (`crates/core/src/provider_discovery.rs`, `crates/domain/src/discovery.rs`, `crates/storage/src/discovery*.rs`) | session row, durable operation, working draft, approvals | begin, drive, supply, approve, decline, cancel, resolve, recover | assistant provider, store |
| setup assistant (`crates/providers/src/setup_assistant.rs`) | dialogue state, budget, pending call, transcript; stored as a snapshot in the draft | consent, begin turn, answer, tool result, interrupt, retry, cancel | host loop of a discovery session |
| discovery commit (`discovery_repository.rs`, `provider_commands.rs`) | commit attempt, compensation recipe, credential slot | approve, commit, continue, resume, resolve, recover | store and credential vault in separate steps |
| signed catalog (`catalog.rs` in core and storage) | active revision, accepted updates, snapshots, audit, review registry | prepare, activate, roll back, reopen | store |
| provider adapters (`crates/providers/src/*.rs`, one per API family) | what one response has said so far: open calls, blocks, parts | frame the byte stream, turn wire events into provider events, return | provider (HTTP), runner of a generation |
| request plan (`parameter_mapping.rs`, `request_plan.rs`, `app.rs`) | the stored preset; the route's contract, listing and observed dialects | observe, list, save, preview, send | store, adapters |
| provider graph (`database.rs`, `app.rs`) | connections, routes, presets, profiles, the selection, what generations used | save, delete, archive, select, synchronise, capture and restore a selection | store; discovery commit |
| credentials (`provider_commands.rs`, `commands.rs`, `macos.rs`) | a row in the database, a secret in the vault, up to two keychain records | create, delete, set, read, harden, migrate | operating system, store, generations |
| document crawl (`discovery/fetcher.rs`) | queue, scope, budgets | fetch, redirect, read, extract links | network |
| shells, bindings, parsers, tooling | user interface, wire formats, files | | core |

What is hard in this code, and hard to test:

* **Requests that span transactions.** A send reads the prompt history in one
  transaction and appends in another; an edit is validated twice. Other windows,
  running generations and restarts come in between.
* **One history, many writers.** Heads are moved by appends, removals, dropped
  answers, compensation and recovery.
* **Three tasks, one stream.** The runner, the forwarder and the owning task
  publish one numbered sequence, connected by bounded channels, with a
  cancellation that may arrive at any point and a provider that may misbehave.
* **Failure of the last step.** The terminal transaction can fail, fail after it
  committed, and be compensated by a transaction that fails too.
* **Process death** at any of these points, with recovery at the next start by
  the settings of that moment.
* **Jobs that wait for a person.** A model synchronisation fetches, stores a
  review and applies it perhaps days later; the data it was computed from, the
  job and the process may all have changed.
* **Lossy delivery.** The broadcast drops events for a slow subscriber, and the
  renderer awaits a reload while its user goes somewhere else.
* **Work that spans two stores.** An import writes files and rows, a discovery
  commit a credential slot and rows; each step can fail, fail after it happened,
  or be the last one of its process.
* **Plans that go stale.** A catalog change is reviewed against one state and
  applied to another; an assistant's answer arrives after its turn was
  interrupted, cancelled or retried.
* **Streams cut anywhere.** Server-sent events, tool calls and credentials arrive
  in fragments whose borders the network or the provider chooses.
* **Settings that outlive their evidence.** A preset is saved under one listing,
  dialect or route and sent under another.

`hazards` in `PROJECT.json` lists these at their lines with the properties that
cover them.

What makes each component correct:

* conversation store: no dangling reference; a branch generates one answer at a
  time and nothing is built on an unfinished one; finished messages never change;
  heads move along their own lineage; a generation and its row record one
  outcome; nothing stays pending because of a crash.
* chat requests: a request is sent its own parent chain, and a stale writer fails.
* generation pipeline: events in order and nothing after the terminal one; what
  is announced is durable; what is stored is what was shown; well-formed tool
  calls; cancellation and completion always end it.
* prompt planning: the newest contiguous suffix that fits. Reflection guard: no
  occurrence of the credential passes, and everything else does, in order.
* event stream: the renderer paints a prefix of the published text or reloads.
* import: all of a character or none of it; no file is forgotten, and a listed
  inspection can be committed.
* model synchronisation: only the approved review is applied, to the graph it
  was computed from; every transition leaves exactly one event.
* discovery: work is done once, under an approval that still holds; every state
  has a way on; what a commit leaves behind is compensated.
* adapters: calls are started once, fed while open and completed once, and success
  means a whole response; framing does not depend on the chunks.
* request plan: what is sent is what was asked for, in fields the route has now.
* provider graph: the selection is whole and usable; history keeps its target.
* credentials: a secret is read as it was stored, goes to its own connection only
  and does not outlive it.
* document crawl: budgets and scope hold for the crawl as a whole, and it ends.
* catalog: what is activated is what was reviewed, against the state it finds;
  the catalog stays readable.

## Modules

| module | stands for | checked by |
| --- | --- | --- |
| `Conversation` | the conversation store, the requests that write to it, recovery | `MCConversation`, `ConversationProofs` |
| `GenerationContract` | what one generation promises to a watcher of its events and a reader of the store | `Generation` implements it |
| `Generation` | runner, forwarder, owning task, provider, storage failures, crash | `GenerationProofs` |
| `ModelSync` | model synchronisation jobs of one provider connection, the writers of its graph, archiving, recovery | `MCEnds`, `ModelSyncProofs` |
| `ChatStream` | the way of events from the broadcast to the screen of the Tauri shell | `MCChatStream`, `MCEnds`, `ChatStreamProofs` |
| `DiscoveryMachine` | the reducer of a discovery session: a pure function, no state of its own | used by the next two |
| `DiscoverySession` | a session from Begin to its review: composes `DiscoveryMachine` and `SetupAssistant` with callers and recovery | `MCDiscovery`, `MCEnds`, `DiscoverySessionProofs` |
| `DiscoveryCommit` | commit and compensation of a reviewed session; extends `DiscoveryMachine` | `MCDiscovery`, `DiscoveryCommitProofs` |
| `SetupAssistant` | the assistant's dialogue | `MCMaterial`, `MaterialProofs` |
| `CharacterImport` | tickets, inspections, files, journal, records and recovery of imports | `MCMaterial`, `MaterialProofs` |
| `ProviderCatalog` | reviewing and activating signed catalog revisions | `MCMaterial`, `MaterialProofs` |
| `DocumentCrawl` | the bounded crawl of a discovery | `MCMaterial`, `MCEnds`, `MaterialProofs` |
| `ProviderContract` | what an adapter promises to the runner of a generation | every adapter implements it |
| `ProviderSink` | what the adapters share: one event at a time, one send at a time, cancellation | extended by the adapters |
| `ChatCompletionsStream`, `MessagesStream`, `ResponsesStream`, `GenerateContentStream`, `OllamaStream` | the adapters of the five API families | `MCProviderResponses` |
| `OpenRouterReasoning` | the reasoning details of an OpenRouter response, collected for replay | `MCProviderResponses` |
| `SseFraming` | how chunks become server-sent events, in four of the adapters | `MCProviderResponses` |
| `ReflectionGuard` | the search for the credential in the text of a response | `MCProviderResponses` |
| `PromptPlanning` | what a request quotes of its history, and the three places that check it | `MCRequests` |
| `ReasoningWire`, `CacheWire`, `ParameterRules` | pure operators: reasoning, prompt-cache and parameter settings as request fields | used by the next |
| `RequestPlan` | a route and its preset, saved and sent while the evidence changes | `MCRequests` |
| `ProviderGraph` | connections, routes, presets, profiles and the selection | `MCConnections`, `ConnectionsProofs` |
| `ConnectionVault` | connections and their secrets, changed by commands that span database and vault | `MCConnections`, `ConnectionsProofs` |
| `Keychain` | the macOS keychain records of one credential | `MCConnections`, `ConnectionsProofs` |

An MC module prepares one or several component modules for TLC; `Generation` and
`ModelSync` need none and are checked as they are. The values of the constants are in
the `.cfg`: where theorems are proved about a composition, it keeps its parameters as
CONSTANTS with a named assumption, so that the run and the theorem speak of the same
specification. Where it joins several (`MCDiscovery`, `MCMaterial`, `MCProviderResponses`,
`MCConnections`, `MCRequests`, `MCEnds`), a variable `scope` or `part` is chosen in
the initial state and never changes: a behaviour is a behaviour of one component,
and the variables of the others stay as they start. The components of such a suite
share no state in the code either, or share it at a boundary that one of them models
(`DiscoveryCommit` begins where `DiscoverySession` ends).

A definition `Faulty<X>` in a module is what a plausible mistake would make of
`<X>`. No specification uses it; `mutants` in `PROJECT.json` names the property
that notices it.

### Conversation

One room. Tables are functions from ids to rows; ids are numbers in order of
creation, and the two rows inserted with generation `g` are `2g-1` (user) and
`2g` (assistant). Each storage call is one action, because `Storage::connection`
locks a mutex and each call commits one transaction:

| action | code |
| --- | --- |
| `BeginSend`, `BeginAction` | the reads a request makes before it appends |
| `AppendGeneration`, `AppendAction`, `AppendRefused` | `append_generation`, `append_message_generation_action`, a refused append and the permit's `Drop` |
| `RemoveMessage`, `CreateBranch`, `SelectBranch`, `SaveSettings` | the storage calls of those names |
| `Stream`, `CheckpointPendingAssistant` | the forwarder's accumulated text and its checkpoint |
| `FinalizeGeneration`, `FinalizeFails`, `CompensateGeneration`, `CompensationFails` | `persist_generation_terminal` |
| `Crash`, `Recover` | process death, `recover_interrupted_work` |

A user's text is a number, an assistant's the number of deltas it holds. The
clients are threads inside `Core`; each has at most one request in flight.
Prompt contents are the *set* of rows quoted. `fresh` in a request and task is
not in the code: it records whether the expected head was the branch's finished
head when the history was read, which is the premise of `PromptFollowsLineage`.

### Generation and its contract

One generation. `queue` and `channel` are the two bounded channels (64 and 128
in the code, small here). The runner's program counter follows `run_generation`:
*start*, *check* (the explicit look at the cancellation at the head of the
loop), *collect* (the select over cancellation, provider result and provider
event), *drain* (the provider has returned), *flush* (withheld text and
completed tool calls), *last*, *done*. `outbox` is the event whose send the
runner awaits; while it is full the runner can do nothing but send, see the
channel closed, or, where the code selects on it, be cancelled. The owning
task's position is `phase`. The bus is every event published.

The provider is the environment: it may send any input of `Inputs` in any order,
stall, keep its sender after it returned, or return any result. Every storage
call may fail; a terminal transaction may also commit and report an error. The
checks on sizes, limits and reflected credentials may refuse an event at any
time, and what the guard withholds of a stream is any amount up to what it has.

`GenerationContract` has five variables (text shown, row, stored outcome,
announced outcome, alive) and says what may happen to them. `Generation`
implements it: `KeepsContract` is its specification under the mapping at the end
of `Generation`.

`Conversation` abstracts `Generation` by hand at present: `Stream`,
`CheckpointPendingAssistant` and the four terminal actions are what a room sees
of the pipeline. Making that a checked refinement is in the plan.

### ModelSync

One provider connection. `jobs` is the table `model_sync_jobs`; `connection`,
`archived`, `routes` and `extras` (presets and capability observations, as one
version number) are the graph a job is computed from; `outbox` the events of
each job. A hash stands for what is hashed: `base` is the graph at creation, and
a review holds the connection, the routes and the models listed. A timestamp is
the next value of `clock`, so two writes never have the same one.

| action | code |
| --- | --- |
| `BeginStart`, `CreateModelSyncJob`, `CreateRefused`, `Launch` | `start_provider_model_sync`: read, create, register and spawn |
| `BeginCancel`, `CancelModelSyncJob`, `SignalTask` | `cancel_provider_model_sync`: read, transition, tell the task |
| `BeginApprove`, `MarkCommitting`, `MarkRefused`, `CommitModelSyncJob`, `CommitFails`, `AbortCommit` | `approve_provider_model_sync`: four transactions, the last only on failure |
| `TaskBegins` to `StoreReview` | `run_model_sync_inner`, one action per transaction or await |
| `ReadAttempted`, `CompareAttempted`, `SaveUnavailable`, `FailTask` | the failure path of `run_model_sync` |
| `BeginEdit`, `SaveEdit`, `SavePreset`, `DeleteModelRoute`, `DeleteProviderConnection` | the user's own writes |
| `Crash`, `RecoverInterruptedJobs` | process death, recovery at start |

With `StoreFails` a call may fail before its transaction commits, or after it,
when the row is read back; the caller then stops with the job where it is
(`Unread`). `touched` is not in the code: it records that someone other than the
job wrote the graph while the job was open.

### ChatStream

Start `n` of the renderer asks for stream `n`, which carries generation `n`. Core
publishes to a broadcast of `Ring` slots; a receiver that falls behind sees a gap.
The shell registers a receiver, starts the generation and forwards what the
filter lets through; the renderer is one thread whose steps are what it does
between two awaits.

| actions | code |
| --- | --- |
| `Publish`, `Settle`, `PublishTerminal` | Core: a delta, the terminal transaction, its event |
| `Register`, `StartGeneration`, `StartFails`, `Recv`, `StopForwarding`, `DisposeChatStream` | `start_chat_stream` and its forwarding task, the registry of `state.rs` |
| `StartReturns`, `ForkReturns`, `StartThrows` | the renderer's await of the start |
| `DropItem`, `ApplyDelta`, `FlushDeltas`, `BeginReconcile` | `chat-stream.ts`: verify, paint per frame, reconcile |
| `ReconcileDisposes`, `ReconcileReads`, `ReconcileApplies`, `ReconcileThrows` | `reconcileChat`, one action per await |
| `UserStep`, `RoomRead`, `Loaded`, `LoadThrows` | opening a room, selecting a branch, sending |
| `SetConversationMode`, `RemoveMessage`, `CreateBranch` | `setConversationMode`, `removeMessage`, `createBranch` up to their await |
| `StoreSetsMode`, `StoreRemoves`, `StoreCreates`, `ErrandFails` | what Core makes of them |
| `ModeArrives`, `RemovalArrives`, `BranchArrives` | what they write to the screen when answered |

Text is the sequence of events painted, so that "a prefix of what was published"
can be said. `view` is the branch of `conversation_state`, `shown` the one whose messages
are listed.

The last three rows of the table are the *errands*: these commands await and then write
without looking at an epoch. `stray` is not in the code. It records the room of the
errand that wrote `view` or `shown` last, and a guarded write (a load, a fork or a reload
that passed its epoch check) forgets it. `ScreenShowsTheRoom` is exact with it: streamed
text is always of the open room, and the rest is too unless it is what an errand of the
room in `stray` wrote. That a new branch selects only in its own room is Core's refusal,
and not the renderer's.

### CharacterImport

An import is one picked file with one ticket and one inspection. A file goes
through temporary name, link and directory sync; until the last a power loss may
take it away (`Crash` chooses). A command is a program counter over the steps of
`inspect`, `commit_import` and `discard`; each step can fail, and the commit
transaction can also commit and report an error, after which the code looks the
character up. Recovery is the four phases the code runs at open and can itself be
interrupted.

### ProviderCatalog

The catalog's rows (`catalogState`, `updates`, `snapshots`, `audit`) and the registry of
reviews (`pendingPlans`). Preparing reads the database several times (`ReadUpdates`,
`ReadHistory`, `RegisterPlan`); activating an import reads the clock (`PresentImport`),
waits for the review lock (`ActivateImport`), reads again (`RebuildImport`, ...) and writes
in one transaction (`CommitImport`; a rollback: `CommitRollback`). The clock read of the
other calls is one step with their first state read: a plan is checked again when it is
activated. Time moves, so plans and
layers expire. An envelope carries one template, enough to publish two that
disagree.

### Discovery: machine, commit, session, assistant

`DiscoveryMachine` is `ProviderDiscoverySession::apply`: `Steps` is the table of
ordinary transitions and `Apply` adds cancellation, failure, interruption,
unknown outcomes and their resolution, with the validation that refuses a result.
It is used by two modules that divide a session's life at the approved review.

`DiscoverySession` is the part before. `session`, `op` and the draft are rows;
`run` is each caller's position in `settle`, `drive`, the operation and the
assistant's host loop. Each write compares the revision the caller read; since a
revision never comes back, the model keeps one bit per caller (`fresh`). The
engine of the assistant is `SetupAssistant`, instantiated as `A`: a step of the
host takes one step of the engine. `Restart` is process death with startup
recovery; `RecoverCommand` is recovery while callers run.

`SetupAssistant` is the engine alone: every operation, and what `from_snapshot`
accepts (`SnapshotRestores`). The model's answers are arbitrary.

`DiscoveryCommit` is the part after: attempt, recipe of three steps, operation,
published graph, and the vault's slot. A desktop command is a program counter over
its vault calls and transactions; the vault may fail, and a crash may come between
any two.

### Provider adapters

`ProviderContract` has the calls of one response as its state: a call is started
once, takes arguments while it is open, is completed once, and success is returned
only with none open. `KeepsContract` of `MCProviderResponses` says that each adapter
implements it: what it has sent and how it returned are the contract's variables.
The runner (`Generation`) relies on it.

`ProviderSink` is the frame: a wire event is turned into a queue of provider
events, which are sent one by one to a bounded channel; cancellation is looked at
before and during each wait. An adapter adds what each wire event does. Wire
events are arbitrary: any order, any repetition, any cut. A piece of text or of
arguments is named by its place on the wire, so "in order, nothing lost, nothing
twice" can be said. Malformed data, error envelopes and size limits are one case
(`Break`).

In `ResponsesStream` an item comes with any `call_id`: the adapter keys its calls by item
and never compares those ids. Two items with one `call_id` start the call twice, and
what the contract says of that adapter ends before the second start (`Excused`, `Judged`);
the runner refuses the second. That each item is completed with the arguments its done
event names (`CompletedAsSaid`) holds with shared ids too. `SseFraming` cuts every text of
`r`, `n` and `x` in every way. `EventsAreProcessedAtOnce` and
`VerdictIgnoresChunks` are stated for texts of one line-ending convention: where
`\r\r` and `\n` are mixed and the cut falls between them, the end of a Gemini
response is judged differently with and without the cut.

### ReflectionGuard and PromptPlanning

`ReflectionGuard` is `ReflectionStream` with characters of one and two bytes; the
reference definition is the set of places where the credential occurs in the whole
text. `PromptPlanning` composes the four places with limits of their own: the rows
read, the planner, the runner's and the adapter's checks. Texts are sizes in
characters and bytes. The reference is the longest suffix that fits.

### Request plan

`ReasoningWire` has one operator per dialect for the mapping (`map_*`) and one for
what the editor is told to show (`render_reasoning_control`, the set of settings
its shown fields can compose). `CacheWire` does the same for prompt caching.
`ParameterRules` is the parameter engine: compiling a contract, the issues of a
preset's values, the fields applied, and how an OpenRouter listing restricts a
contract. A request field is the sequence of its path's segments and a body the set
of its fields, so that `insert_json_path` is a condition on prefixes.

`RequestPlan` puts them into a history: observations of any quality come, go stale
or are contradicted (`ObserveReasoning`, `ObserveCaching`), listings change
(`ListModel`), presets are saved (`upsert_generation_preset`) and sent (`Send`:
gate, patches, cache directive, the adapter's own checks).

Two presets may send the same reasoning fields in two cases (`Approximated`), and
`MeaningsStayApart` says that there is no third: a summary switched off and one left to the
provider at the Responses API, and thinking disabled and thinking enabled with a budget of
0 under a Gemini route whose minimum is 0. A listing makes a contract that compiled
unusable in three cases (`Orphaned`, `ChoiceAboveCap`, `NameTaken`), and
`RestrictedContractCompiles` says that there is no fourth. `PlannedCanBeSent` is about contracts
that demand an output limit, as the built-in Anthropic one does (`DemandsLimit`).

### ProviderGraph, ConnectionVault, Keychain

`ProviderGraph` has one action per transaction of the graph, with the cascades and
the normalisation of the settings inside. `ConnectionVault` is about the commands
that change a row and a secret one after the other; two commands meet between any
two calls. A generation is addressed by a route (`SendLook`, `SendRead`, `SendResolve`:
Core checks the connection and its secret against the route) or by a legacy profile
(`ProfileLook`, `ProfileRead`, `ProfileResolve`: the secret of the profile's own slot, if
there is one, and no further check). So a connection that demands a secret is called without
one only through its profile, which is what a test of the shell API expects
(`api.rs:846`). `Keychain` is what one vault call does on macOS: each operation is a
program counter over calls any of which may fail, deletions may have happened
although they report an error, writes may store something else, and the process may
die in between.

### DocumentCrawl

`BoundedDocumentFetcher::fetch`: the queue, the redirects followed by hand, the body
read chunk by chunk, the links and entries reserved, and the clock. The server is
arbitrary. `ReserveAll` reserves candidates one by one, each with the origins, the seen
pages and the link budget the ones before left; `Sorted` is the order in which `fetch`
sorts them (pages are numbered by priority). `evidence` keeps the raw links of a
document beside the ones the code stores. `ReadLinksAreFollowed` is about the first
`MaxLinksPerDocument + 1` of the raw links, which is all the crawl reads. Two losses are
silent in the code and outside the property: a link behind those, which a repeated link
among them keeps from being counted as overflow (`fetcher.rs:456`), and a related origin
after the limit of origins (`:556`). Both happen in the run.

## Runs

| run | instance | what it shows |
| --- | --- | --- |
| `conversation_requests` | two generations, two branches, one text; two clients without partial answers, or one client with one delta | `StoreIsSound` (types, `ReferencesResolve`, `PendingHasATask`, `OutcomesAgree`), `RunningOwnsItsBranch`, `NothingBuiltOnPending`, `PromptFollowsLineage`, `HeadMovesAlongLineage`, `HistoryIsImmutable` |
| `generation_events` | three provider events of every kind, one tool, channels of 1 and 2, failing storage, crashes | `EventsAreOneProtocol` (order, paired tool calls, forwarder ends before the terminal event), `ToldIsStored` (announced is durable, shown is stored, retired is settled), `KeepsContract`, liveness `GenerationEnds` (cancelled or returned, it ends) |
| `sync_jobs` | two clients; two jobs without edits, or one job and up to two edits; one model; a working or a failing store (`MaxWork` counts a job for two edits) | `JobsAreSound` (`OneActiveJob`, `SomeoneIsResponsible`, `EventsFollowRevisions`, `CommitKeepsOtherWrites`, `MissesCountOmissions`, `ArchivedIsQuiet`), `TerminalIsFinal` |
| `stream_screen` | two generations of one delta, two rooms, three branches, a ring and a registry of one, one move, one errand; the errand beside one generation and the move, or beside both generations | `TextHasNoGap` (`PaintedIsPrefix`, `ForwardedWithoutGap`), `ScreenShowsTheRoom` |
| `provider_responses` | for each adapter the wire events that start, feed, complete and misuse two calls, for Responses with equal and different call ids; Messages responses of up to eight wire events; OpenRouter fragments of three kinds; every text of six bytes in every cut; credentials of up to three characters in texts of up to four | `KeepsContract` of all five adapters, `SuccessIsWhole`, `ReplayIsFaithful`, `EventsAreTheLines`, `NeverShown` |
| `discovery` | a session with two callers, two sites, two turns, a tool and a retry; the commit by one command with one crash, vault failure, refusal and selection, or by two commands with a crash | `SessionIsSound` (`DraftRestores`, `EvidenceIsAwaited`, `WorkIsDoneOnce`), `ApprovalIsBound`, `CallsAreAccountedFor`; `CommitIsAccountedFor` (`LedgerMatchesSession`, `RecipeRunsDown`, `EndedMeansCompensated`, and alone `ReadyHasCredential`), `NewerSelectionWins` |
| `material` | the assistant: three documents of two sites, four turns, two tools, two retries; imports: two of three cards that share an asset, one ticket, two crashes; catalog: two callers, three envelopes, four plans, two reviews at once; crawl: three of five pages, two of their three origins, links that repeat | `SnapshotRestores`, `UserDecides`, `ImportsAreSound`, `CatalogIsSound`, `CrawlIsSound` |
| `connections` | graph: a profile, another connection, two models, a route and a preset of the user's, one recorded generation, with or without a discovery; vault: a connection that demands a secret, one that does not and one of a legacy profile, commands one at a time with failures, or two at once; keychain: two values, every call failing, or death at every point | `SelectionIsConsistent`, `SelectedStaysActive`, `EditsKeepTheirTargets`, `SecretsAreSound`, `CommandsAreWhole` |
| `requests` | prompts of three turns with an oversized legacy row and characters of three sizes; opaque state of two targets; every reasoning and cache dialect over settings at their bounds, a minimum budget of 0 included; thinking beside every field it excludes; contracts with references, rules and choices, ten listings, values of up to three parameters | `PromptIsTheLongestThatRuns`, `SentIsOffered`, `ThinkingIsWellFormed`, `NothingIsDropped` |
| `ends` | one generation and two moves, or one errand; one synchronisation of two clients on a working store with an edit; two of three pages; one caller of a session | liveness: `StreamsEnd` (`StaleStreamsEnd`, `SettledIsNoticed`), `WorkEnds` (`JobSettles`, `CrawlEnds`, `SessionComesToRest`) |
| `conversation_prompt_within` | one client, one branch | a violation: see Findings |
| `discovery_double` | two commands | a violation: see Findings |

A property that names several others in brackets is their conjunction; the parts
have their own definitions and comments in the component's module.

**Why the bounds are enough.** Two generations give an answer and a second
generation that builds on it, replaces it, races it or is refused because of it;
two branches give a source and a fork; two clients give every pairwise race of
requests, and requests do not otherwise communicate. One delta tells a
checkpointed, a kept and a dropped answer apart, including an answer whose last
text was never checkpointed. In `generation_events` three events are a full tool
call with arguments, or two events and one over the limit; a queue of 1 and a
channel of 2 let both channels fill while something waits. In `sync_jobs` a second
job is started beside, after or instead of the first, and a model can be missed
twice; two edits are one before and one after any read of the job, or one that
overwrites the other. One model shows a listed, an omitted and a deleted route,
since routes do not influence each other. In `stream_screen` one delta and a ring of
one are enough for a gap, a gap before the terminal event and one behind it; the
second generation can be started on another room, branch or fork while the first
goes on. `MaxDoings` counts starts and moves once and an errand twice: with four, an
errand comes with a move and a generation, or with two generations, so that its answer can meet
another room, a load, a stream or a reload; `ends` has three. The two imported cards share a file that is neither's first, so that one's
compensation and the other's commit compete for it, and two crashes put one into a
recovery. Four catalog plans are two that race and two planned on what either left.
Two turns of a session are a call and the call after a tool, a retry or an
interruption. Two calls, items or blocks are one that is open while the other
starts. Eight wire events are the least in which
a Messages response has preserved reasoning, text and an end: its start, two events of a
redacted thinking block, three of a text block, its delta and its stop. Six bytes hold two events. A credential of three characters has every kind
of overlap with itself. Efforts, summaries and budgets are compared only with their
lists and bounds, so members inside, outside and at the bounds stand for all.
With overlapping commands `connections` has no unfinished synchronisation and no undoing that
failed, and only connections that demand a secret; one at a time, a synchronisation holds up
only the profile's connection and the undoing fails for one connection
(`MaxLeftover`). The
keychain's two scopes are separate: a corrupted write followed by the death of the
process before its check is not covered, and could not be by this code. One failure
of each kind in a commit is a failed step and a second look at it; failures of
different kinds combine. The proofs have no such bounds: they hold for every value of
the constants.

**Symmetry.** Clients, callers and threads are interchangeable in the modules. In
`MCConversation` and `MCDiscovery` one scope names the `First` of them as the one
that works alone. TLC may then take a state in which the other is the busy one for
its mirror image; since in that scope only `First` ever leaves its idle state, no
such state is generated and no two different states are merged.

**Deadlock.** `conversation_requests`, `sync_jobs` and `connections` check it: a
process can always die and be restarted, and a user always edit. The other runs have
it off: their behaviours end when a response has ended, when the bounds on requests,
crashes or failures are used up, or with a finished session.

**Fairness.** `FairSpec` of `Generation` assumes weak fairness of the runner's, the
forwarder's and the task's steps: each is a tokio task on a multi-threaded runtime,
and the runtime polls a task that has been woken. Nothing is assumed of the
provider, the user, crashes or restarts. `CancelEnds` therefore holds of a provider
that never returns, and `ReturnEnds` of one that keeps a clone of its sender: the
code's drain takes only what is already queued. In `ModelSync`, `Fairness` assumes
that a call once begun runs to its end and that the task of a job is polled; listing
requests have a timeout (at most 600 seconds, `validate_provider_connection`), so the
task's wait for the provider ends. Nothing makes a user start, cancel or approve. A
store whose calls fail may leave a job waiting for a restart, which is why
`JobSettles` and `SomeoneIsResponsible` are stated for one that works. In
`ChatStream` the event loop runs every callback and answered await, the forwarding
task is polled, and Core announces what it has settled; no generation has to end. In
`DiscoverySession` a caller that has begun goes on, since every wait of its loop has
a timeout; nobody is made to give a command. In `DocumentCrawl` the crawl goes on
and time passes; every wait has a timeout. `DiscoveryCommit` has a `FairSpec` for
`CompensationEnds`, in which the user keeps continuing and resuming: strong fairness,
because another command's steps disable those buttons again and again.

## Proofs

`ConversationProofs` proves `Spec => []IndInv` for every value of the constants
(`Invariance`), and from it the type invariant, `ReferencesResolve`,
`PendingHasATask` and `OutcomesAgree` (together `StoreIsSound`, theorem `SoundStore`),
`RunningOwnsItsBranch`, `NothingBuiltOnPending`, and the action properties
`HistoryIsImmutable` and `OneHeadMovesAtATime`. The assumptions are `BoundsAssumption`
in `Conversation`: natural-number bounds, at least one branch, texts that are
not zero.

No safety invariant is inductive alone. `IndInv` adds four facts:

* `IdsInOrder`: ids are handed out in order and generation `g` owns rows `2g-1`
  and `2g`. It makes a freshly inserted row unreferenced.
* `RolesMatch`: only an assistant is pending, so a fork at a user row is never
  a fork at a pending row.
* `RequestsNameBranches`: what a request holds across its two calls stays
  meaningful, because branches are never deleted.
* `TasksAreRunning`: a live task's generation is still running, so a late
  checkpoint, finalize or compensation meets a row that is still its own.

The safety invariants depend on each other. For instance, a dropped answer is
safe to delete (`ReferencesResolve`) because nothing was built on it
(`NothingBuiltOnPending`), which holds because the head of a generating branch is
its own pending row (`RunningOwnsItsBranch`) and every writer refuses a pending
head. The proof follows that shape: `RowInv` is the part about the tables; one
lemma per kind of write shows that it is kept (`InsertRowInv`, `BranchRowInv`,
`CheckpointRowInv`, `KeepRowInv`, `DropRowInv`, `RecoverRowInv`), and one lemma
per group of actions (`ClientStepRowInv`, `RoomStepRowInv`, `TaskStepRowInv`)
shows that the actions do such writes.

`ConversationProofs` also proves what prompts and heads have to do with the parent chain:
`PromptFollowsLineage` (`PromptIsLineage`) and the action property
`HeadMovesAlongLineage` (`HeadAlongLineage`). `Lineage` is a recursive function, so its
meaning is an induction along parents. `SetInduction`, which follows from the least
element of a set of numbers, states that induction over a set instead of a predicate:
every set of rows that holds the roots and, with a row, its children holds every row
(`ChainInduction`). From it come `LineageIs` (the recursion equation, because parents
are older than their children), `LineageClosed`, `LineageSame` (rows that agree along
the chain have the same chain) and `FinishedLineage` (a finished row hangs on finished
rows). With `HistoryIsImmutable` a finished chain never changes (`FinishedStays`), which
is why a prompt read in one transaction is still the lineage when another appends: the
invariant `PromptInv` adds that to `IndInv` for requests in flight (`RequestsFollow`).

`MaterialProofs` proves `TypeOK`, `SnapshotRestores`, `EveryCallIsAskedFor`
and `OnlyApprovedIsDisclosed` (the last two together: `UserDecides`) of
`SetupAssistant` for every set of documents, sites and budgets, from
`AssistantAssumption`: budgets are natural numbers, an estimate is not zero, and two
marks are not documents. The inductive invariant is their conjunction with
`Outstanding`: a call in flight has paid for the tool call it may ask for, and a
pending tool call has no result yet. They need each other: the retry bound of a
snapshot rests on the account of the calls, and the account on the shape of the
states. One lemma per operation shows that all are kept. `SnapshotRestores` is the
validation the code runs when it loads a snapshot; proving it invariant means that no
sequence of operations writes a dialogue that cannot be read back.

The same module proves `ImportsAreSound` (`ImportsSound`) for any finite set of cards, each
a sequence of files, shared in any way (`ImportAssumption`), any capacity of the ticket
store and any number of crashes. The inductive invariant has three parts. `Stages`: an
import is in one place at a time (a ticket, an inspection under way, a listed inspection
or a commit), and as long as a character may still be made of it, its staged files are
there and none has been; a process that is not up has nothing in memory. `Stored`: a
commit has journalled its files before it touches the store, and made durable every file
it has passed (`OwnFiles`). That is what `CharactersHaveTheirFiles` and `NoFileForgotten`
need of each other: files only become more durable while the process is up
(`StoredStep`), so commits that share a file do not disturb one another; a crash takes
only names that were not synced, which no record refers to; and recovery removes only
files without a record, and empties the journal only when every stored file has one.
`TicketsFit`: a reserved ticket still counts, so giving it back needs no room.

And it proves `CatalogIsSound` (`CatalogSound`) for any callers, any signed files with
their revisions, times and template versions, and any capacity and lifetime of the
reviews; `CatalogAssumption` says only that revisions count from 1 and that the others
are natural numbers. Nothing in the properties mentions the calls under way, and all of
the proof is about them, as a plan is built from reads of several versions. `ReadEarlier`
says that a state read is current or of an older version, so that the compare in the
transaction decides which; `CallChecked` keeps what a call has found out for as long as
that version stands: its envelope merges over the chain it read, the template it publishes
agrees with every one published so far, its rollback target shows what the plan says.
Beside the calls the invariant has the rows. `Accepted`: revisions rise, times of
issue with them, the last is the guard, and the updates can be listed in that order; so
a reader's re-verification succeeds (`ReadsBack`). `Shelf`: a snapshot is made of
accepted revisions and no chain changes its meaning while rows are only added (`Grows`,
`ChainStays`, `TemplateStays`). `Trail`: the audit is one line of reviewed activations; no
plan is in it twice because a plan names the version it was made for. `Reviews`: plan
numbers are not used again. That the active layers merge *now* and not only when they
were activated needs one fact more, in `CallPlan`: everything accepted was accepted
no later than the time the activating call read. It may have waited for the lock since, but
then the version its plan was made for would be gone; so its layers are all in effect and
later only expire (`LayersExpire`).

Last, it proves `CrawlIsSound` (`CrawlSound`) for any finite web of pages with any origins,
links and redirects, any plan and any budgets; `CrawlAssumption` says that pages are
numbered, that lists of links are lists of pages and that bounds are natural numbers.
The properties speak of totals, and the invariant of what is owed: the page under way has
been charged before its request goes out, so requests sent are at most pages plus redirects,
counted with the one about to be sent, and bytes read so far at most the bytes charged
(`CrawlPaid`). A redirect and a request are judged by the scope of their moment; `CrawlScope`
has them permitted for ever, as origins only join and only related ones do. For
`ReadLinksAreFollowed` the invariant follows every page seen into the attempted ones or the
queue, and every raw link read of an accepted document into the seen ones (`CrawlReports`); the queue and the attempted ones are apart (`CrawlQueue`). The steps
are short but for `Process`, which reserves a list of candidates. What the list does is
shown candidate by candidate (`ReserveOne`, `ReserveList`): what is taken is new and
permitted; what is seen was taken, unless the link limit was reported; and every candidate
that the scope accepts *afterwards* has been seen, because what is refused for its origin
is refused for ever: origins only join, and the limit on them stays reached. `ReserveAll`, the total of the bytes and
the sort are recursive or chosen; that they exist and what they give is shown by induction
over the length, as a statement about a set of numbers (`UpTo`).

`ConnectionsProofs` proves of `ProviderGraph` that the selection is consistent
(`SelectionConsistent`), that generations keep what they were made with
(`HistoryKept`), that a save which changes a profile's model takes the selection
along (`SaveTakesSelectionAlong`; with the one before: `TargetsKept`), and, where no discovery restores a selection,
that what is selected is not archived (`SelectedActive`; with a discovery it fails,
see the observed divergences). The inductive invariant adds `IdsSayTheOwner` (an id derived from a
profile belongs to that profile's rows) and `PresetsHaveRoutes`: deleting a route is
safe for the selection because its presets go with it. `SelectedStays` is
`SelectedStaysActive` as the run states it.

Of the credentials the module proves `SecretsAreSound` (`SecretsSound`) and the action
property `CommandsAreWhole` (`CommandsWhole`), for any connections, secrets, values and
callers (`ConnectionsAssumption`: the marker for nothing is none of them).

* `Keychain`. What a read returns depends on which record an operation that failed left
  behind, so the invariant (`KeptInv`) follows the operation call by call: `Course` says
  which record the data-protection keychain holds at each point as far as the calls before
  settle it, whatever they reported, and `Faithful` that every copy it may fall back to
  (the legacy record, the record it found, the record a read rewrites) is one the user may
  expect. Where writes are not corrupted but the process may die, `Settled` says more: the
  record is known at every call.
* `ConnectionVault`. With overlapping commands (`VaultInv`) a command holds only secrets of
  its own connection (`OwnCall`), so restoring an old secret or sending one cannot hand
  it to another, be it sent by route or by profile. When commands follow one another (`LoneInv`), `Standing` relates the row
  and the slot to what the command found when it began, and `Tidy` says that a connection
  that is gone has no secret unless that was reported.

`DiscoverySessionProofs` proves `ApprovalIsBound` (`ApprovalBound`), `SessionIsSound`
(`SessionSoundInScope`) and the action property `CallsAreAccountedFor` (`CallsAccounted`) of
`DiscoverySession`, for any number of callers, documents, sites and any limit of the
assistant (`SessionAssumption`). The inductive invariant relates five things that different
transactions write: the operation row is that of the session's state (`Runs`); what was
found or supplied is stored (`Ledger`); a result that may still be recorded belongs to the
one caller that claimed the operation (`Claimed`); the snapshot in the draft satisfies all
that `SetupAssistant` promises (`Assisted`, the invariant of `MaterialProofs` stated over the
instance `A`); and the stage of the session allows the state of the engine (`Placed`), across
interruption and unknown outcomes, since `Where` is the state an interrupted session comes
back to. Without `Placed` a resumed session could meet a draft it does not expect; without
`Claimed` two callers could record one operation.

`DiscoveryCommitProofs` proves of `DiscoveryCommit` that `CommitIsAccountedFor`
(`CommitAccountedInScope`) and the action property `NewerSelectionWins` (`ChoiceWinsInScope`)
hold for any number of concurrent commands, crashes, recoveries, failing vault calls and
refused transactions, and that a connection that became ready has its credential when
commands follow one another (`ReadyIsUsable`; with two at once it fails, see Findings).
`Story` says in which phase the attempt is in the states `LedgerMatchesSession` leaves open,
`Recipe` that the steps of the compensation have run strictly down and a compensated attempt
has run all of them, `Provided` that the one command at work fills the slot before it
publishes the graph and empties or restores it only where no graph is published.

`ModelSyncProofs` proves `JobsAreSound` (`SoundJobs`) and the action property
`TerminalIsFinal` (`Finality`) of `ModelSync`, for any number of clients, models, jobs
and edits, with a store that works or fails and through restarts. Several of the parts of
`JobsAreSound` hold because of what is *held* between two transactions. The inductive
invariant says what that is: a call that launches a task is the only one to do so
(`LaunchedOnce`); with a store that works, a task and an approval know the revision of
their job (`TaskKnowsRevision`, `CommitKnowsRevision`); another writer's edit shows in the
graph a commit compares with its base (`WritesShow`, which needs `TimesAreOver`); and a
process that is down holds nothing (`DownIsIdle`).

`GenerationProofs` proves of `Generation` the invariants `EventsAreOneProtocol`
(`OneProtocol`) and `ToldIsStored` (`StoredAsTold`), and that it implements
`GenerationContract` (`ContractKept`), for any tools, inputs, event limit and
capacities. The inductive invariant speaks of `Sent`, what is on the bus followed by what
waits in the channel. Publishing moves an event inside `Sent` and a forwarder that
fails cuts it short, so order, pairing of tool calls and the sum of the text are about one
sequence and not about two. `CallsTracked` ties the runner's sets of calls to what was
sent of them, `Settled` says what verdict, row, generation record and terminal event
agree on at every point between the join and the end, where a transaction may fail or
take effect without a report. What one more event does to the text sum, a recursive
function, is again shown with `SetInduction`. For the refinement, under
the mapping at the end of `Generation`: starting the task is the contract's `Begin`, a step of the
forwarder `Stream` or a stutter, a terminal transaction that takes effect `Settle`,
publishing the terminal event `Announce`, a crash `Die`, recovery `Restart`; every other
step of runner, provider and task is a stutter.

`ChatStreamProofs` proves `TextHasNoGap` (`NoGap`) and `ScreenShowsTheRoom` (`RoomShown`)
of `ChatStream`, for any number of rooms, branches, streams and events and any capacity of
broadcast and registry. The inductive invariant is one line of numbers: the last number
the forwarder has taken, the items in the channel, the number of the verifier and the
length of the text follow each other, for a stream the renderer listens to or will when
its start returns (`Lines`, `Written`). The line is never picked up again once it is
dropped, because a stream is used once (`UsedOnce`) and a reconciliation of the present
epoch has silenced its stream and dropped its pending text (`Silenced`). `Placed` says
of everything on its way which room it belongs to: a load (`LoadPlaced`), a reconciliation
(`ReadAt`), an errand (`SentAt`) and a start. A start takes the branch that is active, and
an errand may have made that one of another room; but the store accepts a branch only
for the room it is asked for, so what has *started* is at home (`StartedAt`), and only that is
painted. `Shown` is the screen itself, with its exception. TLC has checked
this invariant on the instance of `ChatStream.cfg` before the proof.

TLC has checked the inductive invariants of the two discovery modules, the credentials, the
imports, the catalog and the crawl on the instances of their runs before the proofs. Several of these modules are
proved over a named instance in the composition that is model-checked (`Commit!Spec`,
`Faults!Next`, `Import!Next`), so that the theorem names the very property of the run.

Only model-checked: liveness and whatever needs `ENABLED` (fairness is outside the
prover); the contract of the adapters and the other properties of `provider_responses`,
whose responses are checked against a reference; the properties of `requests`, which rest
on folds over sequences, and so on induction over data. The pure operators among these are checked against a reference definition over
bounded inputs.

## Findings

Two runs expect a violation. The first is about
`send_message_to_branch_with_provider_options`, which reads the history of the
branch's *current* head (`app.rs:2049`) and leaves the comparison with the caller's
expected head to the append.

* `conversation_prompt_within`: the caller expects an older head than the one
  there is. It reads the newer messages; another caller removes them; the head
  is the expected one again and the append succeeds. The provider is sent rows
  that are not ancestors of the user message.
`docs/architecture/provider-and-chat.md` says that prompt history follows the
parent chain and that a stale writer fails. `PromptFollowsLineage` shows that it
does for edits, regenerations and every send whose expected head is the finished
head at the time of the read.

* `discovery_double`: two commit commands share the slot; the one that is refused
  restores what it read first, after the other has published the connection.

`findings` in `PROJECT.json` quotes the lines that disagree.

### Observed divergences

Statements of the repository that the code does not keep in some order of events. Each
is a definition of the module named; checking it there, with constants like those of
the module's run, gives the counterexample described. They have no run of their own.

| definition | module | what happens |
| --- | --- | --- |
| `PromptCoversLineage` | `Conversation` | the caller expects the assistant that is still being generated; the read skips pending rows, the answer completes, the append succeeds, and the request's parent chain has an answer its prompt lacks |
| `TextBelongsToBranch` | `ChatStream` | a branch is being loaded when a message is sent on the one still shown (`app-controller.ts:446`); the load ends and the text of the first is painted under the second. `ScreenShowsTheRoom` shows that another *room* never gets it |
| `OnlyTheOpenRoom` | `ChatStream` | a mode is set, or a message removed, and another room opened before the answer: the first room's branch becomes the active one of the second, or its messages are listed there (`app-controller.ts:496`, `:734`). No document promises otherwise |
| `NoCredentialLeftBehind` | `DiscoveryCommit` | `commit_provider_discovery` writes the entered credential before it knows that the session can be committed (`provider_commands.rs:934`); on a compensating session whose deletion is done it stays behind |
| `InterruptedCanGoOn` | `DiscoveryCommit` | an approved commit interrupted before it started is bound to the model selection of its plan (`discovery_repository.rs:3250`); after another selection it can be neither restarted nor cancelled |
| `CompensationEnds` (under `FairSpec`) | `DiscoveryCommit` | resuming a failed deletion puts it back to pending and keeps its attempt count, and the drive starts only a step with none (`provider_commands.rs:1232`) |
| `ConsentCanBeAnswered` | `DiscoverySession` | asking for the assistant while it waits for evidence leads to a consent without a proposal; neither answer is accepted (`provider_discovery.rs:2418`) |
| `AssistantCanGoOn` | `DiscoverySession` | `RestartInterrupted` restarts an assistant operation without its engine (`provider_discovery.rs:2522`) |
| `ReopeningEndsCancellation` | `DiscoverySession` | a cancelled assistant operation that waits for its user is classified as resumable at startup, and nothing ends it (`provider_discovery.rs:3056`) |
| `CancellationEnds` (under `FairSpec`) | `DiscoverySession` | cancelling a running read-only operation changes the revision its result is recorded at; the result is refused and the session stays (`provider_discovery.rs:2621`) |
| `NoEffectCanBeConfirmed` | `DiscoverySession` | the reducer's branch for a cancelled billable operation of unknown outcome keeps the approval its own validation then refuses (`discovery.rs:1466`) |
| `ToolFinishIsUnsupported` | `ChatCompletionsStream` | a response that ends for tool calls is a success of the legacy adapter (`openai_compatible.rs:1207`), which the architecture notes call unsupported |
| `HistoryNeverRefuses` (with opaque state) | `PromptPlanning` | the opaque states of all quoted answers are held against the limit of one generation (`app.rs:2514`); a long branch refuses every further message |
| `OfferedIsAccepted` | `RequestPlan` | with reasoning left to the provider the effort is still shown, and every effort is refused (`parameter_mapping.rs:2310`) |
| `NothingIsApproximated` | `RequestPlan` | the two cases of `Approximated`, although `parameter_mapping.rs:9` says that what cannot be represented is refused (`parameter_mapping.rs:3693`) |
| `ContextCanBeSent` | `RequestPlan` | an explicit Gemini context is offered and saved, and cannot be sent beside the system instruction every prompt has (`request_plan.rs:862`) |
| `SelectedIsActive` (with a discovery) | `ProviderGraph` | a compensated discovery selects again what was archived meanwhile (`database.rs:5534`) |
| `SelectedProfileIsCurrent`, `ProfileHasRoute`, `RoutesCanBeSaved` | `ProviderGraph` | what a profile's change of model leaves behind: a selection the next write refuses (`database.rs:5268`), a current route that can be deleted (`:2161`), an old route that cannot be saved (`:4315`) |
| `RouteIdentitiesAreUnique` | `ProviderGraph` | two routes of one model with different configurations are accepted, and every later synchronisation calls them corrupt (`app.rs:3066`) |
| `SecretHasConnection` (with `Overlap`) | `ConnectionVault` | a credential set while its connection is deleted outlives it (`commands.rs:365`) |
| `OnlyExplicitOrigins` | `DocumentCrawl` | hosts of the same registrable domain join the scope although only explicit additions should (`fetcher.rs:546`) |

## Not modelled

Polling and acknowledging the events of model synchronisation: the outbox keeps
every event here, so a host that reads late reads the same. Room creation and
deletion, titles, model and usage columns, and the value of a mode: no property is about
them (what setting a mode does to the screen is in `ChatStream`).
Archive and card parsing, the OpenAPI and curl readers, HTTP, TLS, cryptography and
user interfaces: data without protocol state. The language bindings and the shell
facade convert types and call Core. The size limits of the store are far above the
models' bounds. The vaults of the other platforms are single calls.

## Plan

Done: `Conversation`, `Generation` and its contract, `ModelSync`, `ChatStream`,
discovery sessions and commits, the assistant, imports, the provider graph, connections
and their secrets, the keychain, the signed catalog, the crawl, each with proofs; prompt
planning and the reflection guard against reference definitions; the adapters and their
contract; the request plan.

Left:

1. Theorems: the contract of one adapter.
2. `Generation` shown to implement the task part of `Conversation`.
3. Polling and acknowledging the outbox of model synchronisation.
