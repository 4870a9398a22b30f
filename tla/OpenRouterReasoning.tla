------------------------ MODULE OpenRouterReasoning ------------------------
(***************************************************************************)
(* OpenRouterReasoningTracker (crates/providers/src/openai_compatible.rs)  *)
(* and the topology it builds (crates/domain/src/provider.rs): reasoning   *)
(* details arrive in fragments, neighbours of the same kind are merged,    *)
(* and the whole is released at the end, to be replayed to the provider.   *)
(*                                                                         *)
(* A fragment is [kind, index, id, format, signature, payload]; a metadata *)
(* field is <<>> when it is absent or null.  A detail also says which      *)
(* fragments of the response it is made of, by their place.  A malformed   *)
(* list and an exceeded byte limit are the fragment of kind "bad".         *)
(***************************************************************************)
EXTENDS Naturals, Sequences, SequencesExt

CONSTANTS
    Lists,       \* reasoning_details a chunk may carry
    MaxChunks,   \* bound on the chunks of a response
    MaxDetails   \* MAX_OPAQUE_REASONING_STATE_COUNT

VARIABLES
    chunks,     \* chunks received
    wire,       \* fragments received
    tracker,    \* OpenRouterReasoningTracker
    released,   \* the details of the topology released
    outcome     \* "open", "failed", "none", or "released"

vars == <<chunks, wire, tracker, released, outcome>>

Empty == [reasoning |-> FALSE, observed |-> FALSE, details |-> <<>>]
Metadata == {"index", "id", "format", "signature"}
Mergeable == {"reasoning.text", "reasoning.summary"}
Agree(left, right) == left = <<>> \/ right = <<>> \/ left = right

FaultyConflict(d, f) == ~ (Agree(d.index, f.index) /\ Agree(d.format, f.format))

(* can_merge_openrouter_fragments: a neighbour of the same kind that       *)
(* contradicts the detail is an error, and not a new detail.               *)
Conflict(d, f) == \E m \in Metadata : ~ Agree(d[m], f[m])

(* merge_openrouter_fragment: the payload is appended, and each field the  *)
(* detail lacks is taken over.                                             *)
Merge(d, f, n) ==
    [x \in DOMAIN d |->
        CASE x \in Metadata -> IF d[x] = <<>> THEN f[x] ELSE d[x]
          [] x = "payload"  -> d.payload \/ f.payload
          [] x = "made"     -> Append(d.made, n)
          [] x = "kind"     -> d.kind]

(* observe_detail, for the fragment at place n.                            *)
ObserveDetail(s, f, n) ==
    LET last == Last(s.details)
        joins == f.kind \in Mergeable /\ s.details # <<>> /\ last.kind = f.kind
        new == [x \in DOMAIN f \cup {"made"} |-> IF x = "made" THEN <<n>> ELSE f[x]]
        grown == IF joins THEN Append(Front(s.details), Merge(last, f, n))
                 ELSE Append(s.details, new)
    IN  [ok |-> /\ s.ok /\ f.kind # "bad" /\ ~ (joins /\ Conflict(last, f))
                /\ Len(grown) <= MaxDetails,
         details |-> grown]

Init ==
    /\ chunks = 0 /\ wire = <<>> /\ tracker = Empty
    /\ released = <<>> /\ outcome = "open"

(* Every error wipes what was collected.                                   *)
Fail == tracker' = Empty /\ outcome' = "failed" /\ UNCHANGED released

(* observe, for a chunk with visible reasoning.                            *)
ObserveReasoning ==
    /\ outcome = "open" /\ chunks < MaxChunks /\ chunks' = chunks + 1
    /\ tracker' = [tracker EXCEPT !.reasoning = TRUE]
    /\ UNCHANGED <<wire, released, outcome>>

(* observe, for a chunk with a list of details, possibly empty.            *)
ObserveDetails(list) ==
    LET step(s, k) == ObserveDetail(s, list[k], Len(wire) + k)
        s == FoldLeft(step, [ok |-> TRUE, details |-> tracker.details],
                      [k \in DOMAIN list |-> k])
    IN  /\ outcome = "open" /\ chunks < MaxChunks /\ chunks' = chunks + 1
        /\ wire' = wire \o list
        /\ \/ (~ s.ok \/ Len(list) > MaxDetails) /\ Fail
           \/ /\ s.ok /\ Len(list) <= MaxDetails
              /\ tracker' = [tracker EXCEPT !.observed = TRUE, !.details = s.details]
              /\ UNCHANGED <<released, outcome>>

(* OpenRouterReasoningDetail::from_value and the topology's validate: a    *)
(* summary and encrypted data have a payload, and an index is the place of *)
(* its detail.                                                             *)
Valid(details) ==
    \A k \in DOMAIN details :
        /\ details[k].kind # "reasoning.text" => details[k].payload
        /\ details[k].index \in {<<>>, <<k - 1>>}

(* finish, at a finish reason.                                             *)
Finish(hasToolCalls) ==
    LET any == tracker.reasoning \/ tracker.observed
    IN  /\ outcome = "open" /\ UNCHANGED <<chunks, wire>>
        /\ \/ any /\ (hasToolCalls \/ ~ Valid(tracker.details)) /\ Fail
           \/ ~ any /\ outcome' = "none" /\ UNCHANGED <<tracker, released>>
           \/ /\ any /\ ~ hasToolCalls /\ Valid(tracker.details)
              /\ released' = tracker.details /\ tracker' = Empty /\ outcome' = "released"

Next ==
    \/ ObserveReasoning
    \/ \E list \in Lists : ObserveDetails(list)
    \/ \E hasToolCalls \in BOOLEAN : Finish(hasToolCalls)

Spec == Init /\ [][Next]_vars

-----------------------------------------------------------------------------
(* The type invariant, with the bound on the details kept.                 *)
TypeOK ==
    /\ chunks \in 0 .. MaxChunks
    /\ DOMAIN tracker = DOMAIN Empty
    /\ Len(tracker.details) <= MaxDetails
    /\ outcome \in {"open", "failed", "none", "released"}

(* What is replayed is what was received: each fragment is in one detail,  *)
(* in the order of the wire, of its kind, and with all that the fragment   *)
(* says of itself.  How the fragments were spread over chunks and how the  *)
(* details were put together cannot be seen.                               *)
ReleasedVerbatim ==
    outcome = "released" =>
        /\ FlattenSeq([k \in DOMAIN released |-> released[k].made]) = [n \in DOMAIN wire |-> n]
        /\ \A k \in DOMAIN released : \A n \in ToSet(released[k].made) :
              /\ wire[n].kind = released[k].kind
              /\ \A m \in Metadata : wire[n][m] \in {<<>>, released[k][m]}

(* Indexes that were given, on whichever fragments, never go backwards in  *)
(* what is released, and two different ones are never one detail.          *)
IndexesInOrder ==
    outcome = "released" =>
        \A n, l \in DOMAIN wire :
            n <= l /\ wire[n].index # <<>> /\ wire[l].index # <<>> =>
                /\ wire[n].index[1] <= wire[l].index[1]
                /\ wire[n].index[1] < Len(released)

(* Once an error was reported, or the state was handed over, none of the   *)
(* reasoning is kept.                                                      *)
NothingLeftBehind == outcome \in {"failed", "released"} => tracker = Empty
=============================================================================
