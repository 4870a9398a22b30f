--------------------------- MODULE DocumentCrawl ---------------------------
(***************************************************************************)
(* The bounded document crawl of provider discovery                        *)
(* (providers/discovery/fetcher.rs, BoundedDocumentFetcher::fetch): a      *)
(* queue of documents within a scope of origins, redirects followed by     *)
(* hand, and budgets for pages, redirects, bytes, links, depth and time.   *)
(*                                                                         *)
(* The server is external: every request may fail, redirect to any page,   *)
(* or answer with a document of any size in chunks, empty chunks included, *)
(* and any of a few lists of links.  A page stands for a canonical URL;    *)
(* pages are numbered in the order in which fetch sorts candidates         *)
(* (discovery_link_priority, then the URL).                                *)
(***************************************************************************)
EXTENDS Naturals, Sequences, FiniteSets, SequencesExt

CONSTANTS
    Pages,              \* canonical URLs, numbered by priority
    Start,              \* page the crawl starts from
    Origin,             \* origin of each page
    Related,            \* origins of the start's registrable domain, default port
    Candidates,         \* pages is_discovery_candidate accepts
    WellKnown,          \* well_known_candidates of the start, in order
    LinkLists,          \* lists of links a document may contain
    MaxPages, MaxRedirects, MaxDocument, MaxTotal, MaxDepth,
    MaxLinksPerDocument, MaxTotalLinks,
    MaxOrigins          \* MAX_ALLOWED_DOCUMENT_ORIGINS

VARIABLES
    plan,       \* DiscoveryFetchPlan: policy, flags and explicit origins
    queue,      \* documents waiting, with their depth
    seen,       \* pages that have been queued
    tracker,    \* FetchTracker
    doc,        \* the document being fetched
    expired,    \* has the deadline passed
    evidence,   \* documents accepted: page, bytes, links, depth of the entry,
                \* and all the document links to (raw, history)
    issues,     \* kinds of issues reported
    attempted,  \* history: pages taken from the queue
    requested   \* history: pages a request was sent for, in order

vars == <<plan, queue, seen, tracker, doc, expired, evidence, issues, attempted, requested>>

Idle == [at |-> "pop", url |-> Start, depth |-> 0, hops |-> 0, bytes |-> 0,
         round |-> 0, links |-> <<>>]

BudgetIssues == {"wall_clock", "page_limit", "link_limit", "redirect_limit",
                 "document_too_large", "total_bytes"}

-----------------------------------------------------------------------------
(***************************************************************************)
(* Scope                                                                   *)
(***************************************************************************)
explicitly_permits(page) == Origin[page] \in plan.origins

permits_origin(t, page) == explicitly_permits(page) \/ Origin[page] \in t.origins

\* permit_related_public_origin, when the origin is not permitted yet
Relates(t, page) ==
    /\ plan.public
    /\ Cardinality(t.origins) < MaxOrigins
    /\ Origin[page] \in Related

Accepts(t, page) == permits_origin(t, page) \/ Relates(t, page)

(***************************************************************************)
(* reserve_candidate: depth, scope and seen refuse silently; the origin    *)
(* stays permitted and the page seen when the link limit refuses.          *)
(* s is [seen, tracker, issues, taken].                                    *)
(***************************************************************************)

Reserve(s, page, depth) ==
    LET t == s.tracker IN
    IF depth > MaxDepth \/ ~Accepts(t, page)
    THEN s
    ELSE LET u == [t EXCEPT !.origins = IF permits_origin(t, page) THEN @ ELSE @ \cup {Origin[page]}]
         IN  IF page \in s.seen
             THEN [s EXCEPT !.tracker = u]
             ELSE IF t.links >= MaxTotalLinks
             THEN [s EXCEPT !.tracker = [u EXCEPT !.stopped = TRUE],
                            !.seen = @ \cup {page}, !.issues = @ \cup {"link_limit"}]
             ELSE [s EXCEPT !.tracker = [u EXCEPT !.links = @ + 1],
                            !.seen = @ \cup {page}, !.taken = Append(@, page)]

ReserveAll(s, pages, depth) ==
    LET after[i \in 0..Len(pages)] == IF i = 0 THEN s ELSE Reserve(after[i - 1], pages[i], depth)
    IN  after[Len(pages)]

Entries(pages, depth) == [i \in DOMAIN pages |-> [url |-> pages[i], depth |-> depth]]

-----------------------------------------------------------------------------
Report(kind) ==
    /\ issues' = issues \cup {kind}
    /\ tracker' = [tracker EXCEPT !.stopped = @ \/ kind \in BudgetIssues]

\* an error of fetch_one: two kinds end the crawl
Fail(kind) ==
    /\ Report(kind)
    /\ doc' = [Idle EXCEPT !.at = IF kind \in {"wall_clock", "total_bytes"} THEN "done" ELSE "pop"]
    /\ UNCHANGED <<plan, queue, seen, expired, evidence, attempted, requested>>

Finish(kind) ==
    /\ Report(kind)
    /\ doc' = [Idle EXCEPT !.at = "done"]

\* the head of the loop
Pop ==
    /\ doc.at = "pop"
    /\ UNCHANGED <<plan, seen, expired, evidence, requested>>
    /\ \/ /\ queue = <<>>
          /\ doc' = [Idle EXCEPT !.at = "done"]
          /\ UNCHANGED <<queue, tracker, issues, attempted>>
       \/ /\ queue # <<>>
          /\ queue' = Tail(queue)
          /\ \/ /\ tracker.pages >= MaxPages
                /\ Finish("page_limit") /\ UNCHANGED attempted
             \/ /\ tracker.pages < MaxPages /\ expired
                /\ Finish("wall_clock") /\ UNCHANGED attempted
             \/ /\ tracker.pages < MaxPages /\ ~expired
                /\ tracker' = [tracker EXCEPT !.pages = @ + 1]
                /\ doc' = [Idle EXCEPT !.at = "connect", !.url = Head(queue).url,
                                       !.depth = Head(queue).depth]
                /\ attempted' = attempted \cup {Head(queue).url}
                /\ UNCHANGED issues

(***************************************************************************)
(* build_pinned_client and revalidate_dns: two lookups that must both be   *)
(* permitted and agree, then the request.                                  *)
(***************************************************************************)
Connect ==
    /\ doc.at = "connect"
    /\ \/ expired /\ Fail("wall_clock")
       \/ Fail("dns") \/ Fail("request_failed")
       \/ /\ ~expired
          /\ doc' = [doc EXCEPT !.at = "answer"]
          /\ requested' = Append(requested, doc.url)
          /\ UNCHANGED <<plan, queue, seen, tracker, expired, evidence, issues, attempted>>

\* the timeout of the request, its failure, a peer that was not validated
NoAnswer ==
    /\ doc.at = "answer"
    /\ \/ expired /\ Fail("wall_clock")
       \/ Fail("request_failed") \/ Fail("dns")

\* mutant: only the redirects of this document are counted
FaultyRedirect(target) ==
    /\ doc.at = "answer"
    /\ IF doc.hops >= MaxRedirects
       THEN Fail("redirect_limit")
       ELSE IF ~permits_origin(tracker, target)
       THEN Fail("redirect_refused")
       ELSE /\ tracker' = [tracker EXCEPT !.redirects = @ + 1]
            /\ doc' = [doc EXCEPT !.at = "connect", !.url = target, !.hops = @ + 1]
            /\ UNCHANGED <<plan, queue, seen, expired, evidence, issues, attempted, requested>>

Redirect(target) ==
    /\ doc.at = "answer"
    /\ IF doc.hops >= MaxRedirects \/ tracker.redirects >= MaxRedirects
       THEN Fail("redirect_limit")
       ELSE IF ~permits_origin(tracker, target)
       THEN Fail("redirect_refused")
       ELSE /\ tracker' = [tracker EXCEPT !.redirects = @ + 1]
            /\ doc' = [doc EXCEPT !.at = "connect", !.url = target, !.hops = @ + 1]
            /\ UNCHANGED <<plan, queue, seen, expired, evidence, issues, attempted, requested>>

\* no location, a location the policy refuses, a status, a media type...
Refused ==
    /\ doc.at = "answer"
    /\ Fail("refused")

\* a success: the announced length, if any, is compared before the body is read
Success ==
    /\ doc.at = "answer"
    /\ \/ Fail("document_too_large")                       \* announced
       \/ tracker.bytes + MaxDocument > MaxTotal /\ Fail("total_bytes")
       \/ /\ doc' = [doc EXCEPT !.at = "body"]
          /\ UNCHANGED <<plan, queue, seen, tracker, expired, evidence, issues, attempted, requested>>

\* mutant: every wait for a chunk has a timeout of its own, the body has none
FaultyChunk(size) ==
    /\ doc.at = "body"
    /\ doc.bytes + size <= MaxDocument /\ tracker.bytes + size <= MaxTotal
    /\ doc' = [doc EXCEPT !.bytes = @ + size, !.round = 1 - @]
    /\ tracker' = [tracker EXCEPT !.bytes = @ + size]
    /\ UNCHANGED <<plan, queue, seen, expired, evidence, issues, attempted, requested>>

(***************************************************************************)
(* read_bounded_body, chunk by chunk; round tells an empty chunk from no   *)
(* step at all                                                             *)
(***************************************************************************)
Chunk(size) ==
    /\ doc.at = "body"
    /\ IF expired THEN Fail("wall_clock")
       ELSE IF doc.bytes + size > MaxDocument THEN Fail("document_too_large")
       ELSE IF tracker.bytes + size > MaxTotal
       THEN /\ issues' = issues \cup {"total_bytes"}
            /\ tracker' = [tracker EXCEPT !.bytes = MaxTotal, !.stopped = TRUE]
            /\ doc' = [Idle EXCEPT !.at = "done"]
            /\ UNCHANGED <<plan, queue, seen, expired, evidence, attempted, requested>>
       ELSE /\ doc' = [doc EXCEPT !.bytes = @ + size, !.round = 1 - @]
            /\ tracker' = [tracker EXCEPT !.bytes = @ + size]
            /\ UNCHANGED <<plan, queue, seen, expired, evidence, issues, attempted, requested>>

BrokenBody ==
    /\ doc.at = "body"
    /\ Fail("request_failed")

\* the end of the body; a document that cannot be read is skipped
EndOfBody(links) ==
    /\ doc.at = "body"
    /\ IF expired THEN Fail("wall_clock")
       ELSE \/ Fail("invalid_document")
            \/ /\ doc' = [doc EXCEPT !.at = "process", !.round = 0, !.links = links]
               /\ UNCHANGED <<plan, queue, seen, tracker, expired, evidence, issues,
                              attempted, requested>>

\* a finite set of numbers in increasing order
Sorted(S) ==
    CHOOSE s \in [1..Cardinality(S) -> S] :
        /\ \A x \in S : \E i \in DOMAIN s : s[i] = x
        /\ \A i, j \in DOMAIN s : i < j => s[i] < s[j]

\* html_links and its like stop at one link more than the limit, before
\* canonicalize_links keeps the first of equal ones
FirstOf(links, n) == SubSeq(links, 1, IF Len(links) > n THEN n ELSE Len(links))

CanonicalLinks(links) ==
    LET raw == FirstOf(links, MaxLinksPerDocument + 1)
        firsts == Sorted({i \in DOMAIN raw : \A j \in 1..(i - 1) : raw[j] # raw[i]})
    IN  [n \in DOMAIN firsts |-> raw[firsts[n]]]

(***************************************************************************)
(* The accepted document and its links: evidence first, then, if links are *)
(* followed and the depth allows, the candidates by priority to the front  *)
(* of the queue.                                                           *)
(***************************************************************************)
Process ==
    /\ doc.at = "process"
    /\ UNCHANGED <<plan, expired, attempted, requested>>
    /\ LET all == CanonicalLinks(doc.links)
           bounded == FirstOf(all, MaxLinksPerDocument)
           noted == IF Len(all) > MaxLinksPerDocument THEN issues \cup {"link_limit"} ELSE issues
           sorted == Sorted(ToSet(bounded) \cap Candidates)
           base == [seen |-> seen, tracker |-> tracker, issues |-> noted, taken |-> <<>>]
           after == IF plan.follow /\ doc.depth < MaxDepth
                    THEN ReserveAll(base, sorted, doc.depth + 1)
                    ELSE base
       IN  IF expired
           THEN Finish("wall_clock") /\ UNCHANGED <<queue, seen, evidence>>
           ELSE /\ evidence' = Append(evidence, [url |-> doc.url, bytes |-> doc.bytes,
                                                 links |-> bounded, depth |-> doc.depth,
                                                 raw |-> doc.links])
                /\ seen' = after.seen
                /\ tracker' = after.tracker
                /\ issues' = after.issues
                /\ queue' = Entries(after.taken, doc.depth + 1) \o queue
                /\ doc' = Idle

TimePasses ==
    /\ ~expired /\ doc.at # "done"
    /\ expired' = TRUE
    /\ UNCHANGED <<plan, queue, seen, tracker, doc, evidence, issues, attempted, requested>>

-----------------------------------------------------------------------------
(***************************************************************************)
(* new_with_policy and its builders; the start and the well-known places   *)
(* are queued before the loop.                                             *)
(***************************************************************************)
Plans == { [public |-> public, follow |-> follow, wellKnown |-> known,
            origins |-> {Origin[Start]} \cup more] :
              public \in BOOLEAN, follow \in BOOLEAN, known \in BOOLEAN,
              more \in {{}, {Origin[page] : page \in Pages \ Candidates}} }

Init ==
    /\ plan \in Plans
    /\ LET base == [seen |-> {Start}, issues |-> {}, taken |-> <<>>,
                    tracker |-> [pages |-> 0, redirects |-> 0, bytes |-> 0, links |-> 0,
                                 stopped |-> FALSE, origins |-> plan.origins]]
           after == IF plan.wellKnown THEN ReserveAll(base, WellKnown, 1) ELSE base
       IN  /\ queue = Entries(<<Start>>, 0) \o Entries(after.taken, 1)
           /\ seen = after.seen /\ tracker = after.tracker /\ issues = after.issues
    /\ doc = Idle
    /\ expired = FALSE
    /\ evidence = <<>>
    /\ attempted = {}
    /\ requested = <<>>

Step ==
    \/ Pop \/ Connect \/ NoAnswer \/ Refused \/ Success \/ BrokenBody \/ Process
    \/ \E page \in Pages : Redirect(page)
    \/ \E size \in 0..(MaxDocument + 1) : Chunk(size)
    \/ \E links \in LinkLists : EndOfBody(links)

Next == Step \/ TimePasses

(***************************************************************************)
(* Every await of the crawl has a timeout, so it goes on whatever the      *)
(* server does, and the clock does not stop.                               *)
(***************************************************************************)
Spec == Init /\ [][Next]_vars
Fairness == WF_vars(Step) /\ WF_vars(TimePasses)
FairSpec == Spec /\ Fairness

-----------------------------------------------------------------------------
TypeOK ==
    /\ plan \in Plans
    /\ queue \in Seq([url : Pages, depth : 0..MaxDepth])
    /\ seen \subseteq Pages
    /\ doc.at \in {"pop", "connect", "answer", "body", "process", "done"}
    /\ doc.url \in Pages /\ doc.bytes \in 0..MaxDocument /\ doc.hops \in 0..MaxRedirects
    /\ expired \in BOOLEAN
    /\ attempted \subseteq seen

(***************************************************************************)
(* The budgets of DiscoveryFetchBudget hold for the crawl as a whole, over *)
(* documents that failed as well: pages, redirects, bytes and links, and   *)
(* with them the number of requests sent.                                  *)
(***************************************************************************)
Bytes ==
    LET sum[i \in 0..Len(evidence)] == IF i = 0 THEN 0 ELSE sum[i - 1] + evidence[i].bytes
    IN  sum[Len(evidence)]

WithinBudget ==
    /\ tracker.pages <= MaxPages /\ tracker.redirects <= MaxRedirects
    /\ tracker.bytes <= MaxTotal /\ tracker.links <= MaxTotalLinks
    /\ Len(requested) <= MaxPages + MaxRedirects
    /\ Bytes + doc.bytes <= tracker.bytes
    /\ Len(evidence) <= tracker.pages
    /\ \A i \in DOMAIN evidence : evidence[i].depth <= MaxDepth

(***************************************************************************)
(* No page is taken from the queue twice, however the documents link to    *)
(* one another.                                                            *)
(***************************************************************************)
QueueIsFresh ==
    \A i \in DOMAIN queue :
        /\ queue[i].url \notin attempted
        /\ \A j \in DOMAIN queue : queue[j].url = queue[i].url => i = j

(***************************************************************************)
(* A request leaves the explicit origins of the plan only for the start's  *)
(* own registrable domain, only in public mode, and never because a server *)
(* redirected it to an origin no document had linked to.                   *)
(***************************************************************************)
StaysInScope ==
    \A i \in DOMAIN requested :
        \/ Origin[requested[i]] \in plan.origins
        \/ plan.public /\ Origin[requested[i]] \in Related \cap tracker.origins

(***************************************************************************)
(* DiscoveryFetchPlan: "Only exact origins derived from the starting URL   *)
(* and URLs explicitly added through allow_document_url may be fetched."   *)
(***************************************************************************)
OnlyExplicitOrigins == \A i \in DOMAIN requested : Origin[requested[i]] \in plan.origins

(***************************************************************************)
(* What the crawl reads of its documents it follows or reports: when it    *)
(* ends without a budget issue, every page it queued was attempted, and so *)
(* was every candidate among the first MaxLinksPerDocument + 1 raw links   *)
(* of an accepted document that the scope accepts.                         *)
(*                                                                         *)
(* Two things are lost without an issue, and this says nothing of them:    *)
(* raw links after those, which are cut off before equal ones are dropped, *)
(* so that a repeated link hides the overflow; and pages of a related      *)
(* origin that came after MaxOrigins others.                               *)
(***************************************************************************)
ReadLinksAreFollowed ==
    doc.at = "done" /\ issues \cap BudgetIssues = {} =>
        /\ queue = <<>> /\ ~tracker.stopped
        /\ plan.follow =>
            \A i \in DOMAIN evidence : evidence[i].depth < MaxDepth =>
                \A page \in ToSet(FirstOf(evidence[i].raw, MaxLinksPerDocument + 1)) \cap Candidates :
                    Accepts(tracker, page) => page \in attempted

(***************************************************************************)
(* The crawl ends, even with a server that sends empty chunks for ever.    *)
(***************************************************************************)
CrawlEnds == <>(doc.at = "done")

=============================================================================
