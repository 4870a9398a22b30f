----------------------------- MODULE MCMaterial -----------------------------
(***************************************************************************)
(* What comes into the application from outside: character cards, signed   *)
(* provider catalogs, the documents a discovery collects and the dialogue  *)
(* with the model that reads them.  The four keep no state in common; a    *)
(* behaviour is one of one part, and the others stay as they start.        *)
(***************************************************************************)
EXTENDS SetupAssistant, TLC

CONSTANTS
    Parts, Callers,
    Imports, Files, FilesOf, Blocked, Tickets, MaxCrashes, MaxPicked,         \* import
    Envelopes, MaxPending, PlanLifetime, MaxTime, MaxPlans,                   \* catalog
    Pages, Start, Origin, Related, Candidates, WellKnown, LinkLists,          \* crawl
    MaxPages, MaxRedirects, MaxDocument, MaxTotal, MaxDepth, MaxLinksPerDocument,
    MaxTotalLinks, MaxOrigins

VARIABLES
    part,
    picked, tickets, staging, pending, work, partials, cas, journal, rows, characters, phase,
    crashes,                                                                  \* import
    catalogState, updates, snapshots, audit, pendingPlans, plans, calls, time, \* catalog
    plan, queue, seen, tracker, doc, expired, fetched, issues, attempted, requested  \* crawl

(* Two documents of one site and one of another.                           *)
Documents == {"a1", "a2", "b1"}
SiteOf == [e \in Documents |-> IF e = "b1" THEN "b" ELSE "a"]

(* Two cards that share an asset, and a third whose inspection is blocked. *)
MCImports == {"one", "two", "three"}
MCFilesOf == [i \in MCImports |->
    IF i = "one" THEN <<"s", "a">> ELSE IF i = "two" THEN <<"t", "a">> ELSE <<"u">>]
Import == INSTANCE CharacterImport

(* Finitely many cards, each a sequence of files.                          *)
ASSUME ImportAssumption ==
    /\ IsFiniteSet(Imports) /\ FilesOf \in [Imports -> Seq(Files)]
    /\ Tickets \in Nat /\ MaxCrashes \in Nat

(* Three signed files: an early one that expires soon, one that publishes  *)
(* the same template version with another content, and a later one that    *)
(* moves the version on.                                                   *)
MCEnvelopes ==
    { [rev |-> 1, issued |-> 0, effective |-> 0, expires |-> 1, version |-> 2, body |-> "a"],
      [rev |-> 2, issued |-> 0, effective |-> 0, expires |-> 9, version |-> 2, body |-> "b"],
      [rev |-> 3, issued |-> 1, effective |-> 1, expires |-> 9, version |-> 3, body |-> "c"] }
Catalog == INSTANCE ProviderCatalog

(* Revisions are numbered from 1; times and versions are numbers.          *)
ASSUME CatalogAssumption ==
    /\ \A e \in Envelopes : /\ e.rev \in Nat \ {0} /\ e.version \in Nat
                            /\ e.issued \in Nat /\ e.effective \in Nat /\ e.expires \in Nat
    /\ MaxPending \in Nat /\ PlanLifetime \in Nat /\ MaxTime \in Nat /\ MaxPlans \in Nat

CallerSymmetry == Permutations(Callers)

(* Five pages: three of the start's origin, one of a related origin, one   *)
(* of a foreign origin that a plan may permit explicitly.                  *)
MCPages == 1..5
MCOrigin == <<"docs", "docs", "docs", "api", "other">>
MCCandidates == 1..4
MCWellKnown == <<2>>
MCLinkLists == {<<>>, <<4>>, <<4, 2, 3>>, <<3, 5, 3, 2>>}
Crawl == INSTANCE DocumentCrawl WITH evidence <- fetched

(* Pages are numbered by priority; a document holds finitely many links.   *)
ASSUME CrawlAssumption ==
    /\ Pages \subseteq Nat /\ IsFiniteSet(Pages) /\ Start \in Pages
    /\ WellKnown \in Seq(Pages) /\ LinkLists \subseteq Seq(Pages)
    /\ MaxPages \in Nat /\ MaxRedirects \in Nat /\ MaxDocument \in Nat /\ MaxTotal \in Nat
    /\ MaxDepth \in Nat /\ MaxLinksPerDocument \in Nat /\ MaxTotalLinks \in Nat
    /\ MaxOrigins \in Nat

MCInit ==
    /\ part \in Parts /\ Init /\ Import!Init /\ Catalog!Init /\ Crawl!Init
    /\ part # "assistant" => evidence = {"a1"}
    /\ part # "crawl" => ~ plan.public /\ ~ plan.follow /\ ~ plan.wellKnown /\ plan.origins = {Origin[Start]}

importVars == <<picked, tickets, staging, pending, work, partials, cas, journal, rows, characters,
                phase, crashes>>
catalogVars == <<catalogState, updates, snapshots, audit, pendingPlans, plans, calls, time>>
crawlVars == <<plan, queue, seen, tracker, doc, expired, fetched, issues, attempted, requested>>

AssistantNext == part = "assistant" /\ Next /\ UNCHANGED <<part, importVars, catalogVars, crawlVars>>
(* Not all of the cards are picked.                                        *)
ImportNext ==
    /\ part = "import" /\ Import!Next /\ UNCHANGED <<part, vars, catalogVars, crawlVars>>
    /\ Cardinality(picked') <= MaxPicked
CatalogNext == part = "catalog" /\ Catalog!Next /\ UNCHANGED <<part, vars, importVars, crawlVars>>
CrawlNext == part = "crawl" /\ Crawl!Next /\ UNCHANGED <<part, vars, importVars, catalogVars>>

MCNext == AssistantNext \/ ImportNext \/ CatalogNext \/ CrawlNext
MCSpec == MCInit /\ [][MCNext]_<<part, vars, importVars, catalogVars, crawlVars>>

(* Whatever imports, failures, crashes and crashes of the recovery itself  *)
(* do: a character has its files, no file is forgotten, what is listed can *)
(* be committed, a ticket has its file, and recovery leaves nothing.       *)
ImportsAreSound ==
    /\ Import!TypeOK /\ Import!CharactersHaveTheirFiles /\ Import!NoFileForgotten
    /\ Import!PendingCanBeCommitted /\ Import!TicketsAreBoundedAndBacked
    /\ Import!RecoveryCleans

(* Whatever imports and rollbacks interleave: the catalog can be read, its *)
(* audit is its history, what was activated is what was reviewed, and a    *)
(* published template keeps its content.                                   *)
CatalogIsSound ==
    /\ Catalog!TypeOK /\ Catalog!CatalogStaysReadable /\ Catalog!AuditIsTheHistory
    /\ Catalog!ActivatedAsReviewed /\ Catalog!PublishedTemplatesAgree
    /\ Catalog!ReviewsAreCurrent

(* However pages link and redirect to one another: the crawl stays within  *)
(* its budgets and its origins, takes no page twice, and what it reads of  *)
(* a document's links (the first of them, one more than the limit) and its *)
(* origins accept is attempted, unless an issue of a budget is reported.   *)
(* Links after those, and related origins beyond MaxOrigins, it leaves out *)
(* without a word.                                                         *)
CrawlIsSound ==
    /\ Crawl!TypeOK /\ Crawl!WithinBudget /\ Crawl!QueueIsFresh
    /\ Crawl!StaysInScope /\ Crawl!ReadLinksAreFollowed
=============================================================================
