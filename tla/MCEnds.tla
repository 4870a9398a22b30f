------------------------------- MODULE MCEnds -------------------------------
(***************************************************************************)
(* What must end: the streams of the chat, a model synchronisation, a      *)
(* crawl and the work of a discovery session.  A behaviour is one of one   *)
(* part; the others stay in a state in which no fair action is enabled.    *)
(***************************************************************************)
EXTENDS MCChatStream

CONSTANTS Clients, Models, Threads

VARIABLES
    part,
    connection, archived, routes, extras, clock, edits, jobs, jobCount,       \* ModelSync
    outbox, touched, calls, tasks, up, storeFails,
    plan, queue, seen, tracker, doc, expired, fetched, issues,                \* DocumentCrawl
    attempted, requested,
    session, op, assisted, stored, found, extra, present, bound, run, begun,  \* DiscoverySession
    state, evidence, approved, consented, turns, toolCalls, retries, reserved,
    nextCall, pendingOutput, pendingTool, observations, questions, pendingRetry,
    draft, rounds, disclosed, granted

Sync == INSTANCE ModelSync WITH MaxJobs <- 1, MaxEdits <- 1, MaxWork <- 3

(* Pages of one origin and of a related one.                               *)
Crawl == INSTANCE DocumentCrawl WITH
    Pages <- 1..3, Start <- 1, Origin <- <<"docs", "docs", "api">>,
    Related <- {"docs", "api"}, Candidates <- 1..3, WellKnown <- <<2>>,
    LinkLists <- {<<>>, <<3>>}, MaxPages <- 2, MaxRedirects <- 1, MaxDocument <- 1,
    MaxTotal <- 2, MaxDepth <- 1, MaxLinksPerDocument <- 2, MaxTotalLinks <- 1, MaxOrigins <- 3,
    evidence <- fetched

Session == INSTANCE DiscoverySession WITH
    Manifests <- {"m"}, Evidence <- {"a"}, Origins <- {"a"}, OriginOf <- [e \in {"a"} |-> e],
    MaxEvidence <- 1, MaxTurns <- 1, MaxToolCalls <- 1, MaxRetries <- 1, MaxOutput <- 1,
    Estimates <- {1}

syncVars == <<connection, archived, routes, extras, clock, edits, jobs, jobCount,
              outbox, touched, calls, tasks, up, storeFails>>
crawlVars == <<plan, queue, seen, tracker, doc, expired, fetched, issues, attempted, requested>>
sessionVars == <<session, op, assisted, stored, found, extra, present, bound, run, begun,
                 state, evidence, approved, consented, turns, toolCalls, retries, reserved,
                 nextCall, pendingOutput, pendingTool, observations, questions, pendingRetry,
                 draft, rounds, disclosed, granted>>
allVars == <<part, vars, syncVars, crawlVars, sessionVars>>

-----------------------------------------------------------------------------
NoCrawl ==
    /\ doc = [at |-> "done"]
    /\ plan = 0 /\ queue = 0 /\ seen = 0 /\ tracker = 0 /\ expired = TRUE
    /\ fetched = 0 /\ issues = 0 /\ attempted = 0 /\ requested = 0

MCInit ==
    /\ part \in {"stream", "sync", "crawl", "session"}
    /\ Init /\ Sync!Init /\ Session!Init
    /\ IF part = "crawl" THEN Crawl!Init ELSE NoCrawl
    /\ ~storeFails            \* a failing store stays one, and JobSettles is silent about it
    /\ part # "sync" => \A m \in Models : ~routes[m].known
    /\ part # "session" => ~assisted

StreamNext == part = "stream" /\ BoundedNext /\ UNCHANGED <<part, syncVars, crawlVars, sessionVars>>
SyncNext == part = "sync" /\ Sync!Next /\ UNCHANGED <<part, vars, crawlVars, sessionVars>>
CrawlNext == part = "crawl" /\ Crawl!Next /\ UNCHANGED <<part, vars, syncVars, sessionVars>>

SessionNext == part = "session" /\ Session!Next /\ UNCHANGED <<part, vars, syncVars, crawlVars>>

MCNext == StreamNext \/ SyncNext \/ CrawlNext \/ SessionNext

MCSpec ==
    /\ MCInit /\ [][MCNext]_allVars
    /\ Fairness /\ Sync!Fairness /\ Crawl!Fairness /\ Session!Fairness
-----------------------------------------------------------------------------
(* A receiver the renderer has turned away from gives its slot back, and a *)
(* settled generation does not stay on the screen as running.              *)
StreamsEnd == StaleStreamsEnd /\ SettledIsNoticed

(* Work that only the program can end does end: a synchronisation whose    *)
(* store works, a crawl whatever the server sends, and what a caller does  *)
(* for a discovery session before the user decides again.                  *)
WorkEnds == Sync!JobSettles /\ Crawl!CrawlEnds /\ Session!SessionComesToRest
=============================================================================
