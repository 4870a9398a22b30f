--------------------------- MODULE MessagesStream ---------------------------
(***************************************************************************)
(* The Anthropic adapter (crates/providers/src/anthropic_messages.rs): a   *)
(* message is a list of content blocks, one open at a time, each started,  *)
(* filled and stopped.  When reasoning is preserved the whole list is      *)
(* handed over at the end and replayed in later requests, provided its     *)
(* text is still the text of the message.                                  *)
(*                                                                         *)
(* A piece of a block is named by its place on the wire.                   *)
(***************************************************************************)
EXTENDS ProviderSink, TLC

CONSTANTS
    ToolIds,     \* tool-call ids
    MaxBlocks    \* MAX_CONTENT_BLOCKS

VARIABLES
    started,     \* message_start was seen
    deltaSeen,   \* message_delta was seen
    active,      \* active_blocks: the open blocks by index
    completed,   \* completed_blocks by index
    seen,        \* seen_blocks
    toolIds,     \* tool_call_ids
    preserve     \* preserve_opaque_reasoning_state

blockVars == <<started, deltaSeen, active, completed, seen, toolIds>>
vars == <<sinkVars, blockVars, preserve>>

ReasoningKinds == {"thinking", "redacted_thinking"}
BlockKinds == {"text", "tool_use"} \cup ReasoningKinds
DeltaOf == [text |-> {"text_delta"}, thinking |-> {"thinking_delta", "signature_delta"},
            redacted_thinking |-> {}, tool_use |-> {"input_json_delta"}]
Deltas == UNION {DeltaOf[k] : k \in BlockKinds}
Indexes == 0 .. MaxBlocks

Block(kind, id) == [kind |-> kind, id |-> id, pieces |-> <<>>, signed |-> FALSE]
Without(f, i) == [j \in DOMAIN f \ {i} |-> f[j]]
HasKind(blocks, kinds) == \E i \in DOMAIN blocks : blocks[i].kind \in kinds

Init ==
    /\ SinkInit /\ preserve \in BOOLEAN
    /\ started = FALSE /\ deltaSeen = FALSE
    /\ active = <<>> /\ completed = <<>> /\ seen = {} /\ toolIds = {}

(* Every refused event ends the response without an event of its own.      *)
Refused(e) == Take(e, <<>>, "fail") /\ UNCHANGED <<blockVars, preserve>>

ProcessMessageStart ==
    LET e == [kind |-> "message_start"]
    IN  \/ started /\ Refused(e)
        \/ /\ ~ started /\ Take(e, <<>>, "read") /\ started' = TRUE
           /\ UNCHANGED <<deltaSeen, active, completed, seen, toolIds, preserve>>

(* register_content_block_index: blocks follow each other without overlap, *)
(* in the order of their indexes, before message_delta.                    *)
RegisterContentBlockIndex(index) ==
    /\ started /\ ~ deltaSeen /\ DOMAIN active = {}
    /\ Cardinality(seen) < MaxBlocks /\ index = Cardinality(seen)

(* start_content_block: reasoning comes before visible text                *)
(* (ensure_reasoning_prefix), and a tool-call id is used once.             *)
MayStart(kind, id) ==
    /\ kind \in ReasoningKinds => ~ HasKind(completed, {"text"})
    /\ kind = "tool_use" => id \notin toolIds

StartContentBlock(index, kind, id) ==
    LET e == [kind |-> "content_block_start", index |-> index, block |-> kind, id |-> id]
        allowed == RegisterContentBlockIndex(index) /\ MayStart(kind, id)
        tool == kind = "tool_use"
    IN  /\ tool <=> id # None
        /\ \/ ~ allowed /\ Refused(e)
           \/ /\ allowed /\ Take(e, One(tool, Started(id)), "read")
              /\ seen' = seen \cup {index}
              /\ active' = (index :> Block(kind, id)) @@ active
              /\ toolIds' = IF tool THEN toolIds \cup {id} ELSE toolIds
              /\ UNCHANGED <<started, deltaSeen, completed, preserve>>

Grown(b, delta, n) ==
    [b EXCEPT !.signed = delta = "signature_delta",
              !.pieces = IF delta = "signature_delta" THEN @ ELSE Append(@, n)]

(* process_content_delta: a delta is for an open block and of its kind;    *)
(* thinking ends with its one signature.                                   *)
ProcessContentDelta(index, delta) ==
    LET e == [kind |-> "content_block_delta", index |-> index, delta |-> delta]
        b == active[index]
        fits == /\ started /\ index \in DOMAIN active
                /\ delta \in DeltaOf[b.kind] /\ ~ b.signed
        events == CASE delta = "text_delta" -> <<Text(Next1)>>
                    [] delta = "thinking_delta" -> <<Reasoning(Next1)>>
                    [] delta = "signature_delta" -> <<>>
                    [] delta = "input_json_delta" -> <<Arguments(b.id, Next1)>>
    IN  \/ ~ fits /\ Refused(e)
        \/ /\ fits /\ Take(e, events, "read")
           /\ active' = [active EXCEPT ![index] = Grown(@, delta, Next1)]
           /\ UNCHANGED <<started, deltaSeen, completed, seen, toolIds, preserve>>

(* What a block must be to be completed: thinking has a signature, and the *)
(* arguments of a tool call parse as an object.                            *)
BlockValid(b, parsed) ==
    (b.kind = "thinking" => b.signed) /\ (b.kind = "tool_use" /\ b.pieces # <<>> => parsed)

FinishContentBlock(index, parsed) ==
    LET e == [kind |-> "content_block_stop", index |-> index]
        b == active[index]
        valid == started /\ index \in DOMAIN active /\ BlockValid(b, parsed)
    IN  \/ ~ valid /\ Refused(e)
        \/ /\ valid /\ index \notin DOMAIN completed
           /\ Take(e, One(b.kind = "tool_use", Completed(b.id)), "read")
           /\ active' = Without(active, index) /\ completed' = (index :> b) @@ completed
           /\ UNCHANGED <<started, deltaSeen, seen, toolIds, preserve>>

ProcessMessageDelta ==
    LET e == [kind |-> "message_delta"]
        allowed == started /\ DOMAIN active = {}
    IN  \/ ~ allowed /\ Refused(e)
        \/ /\ allowed /\ Take(e, <<>>, "read") /\ deltaSeen' = TRUE
           /\ UNCHANGED <<started, active, completed, seen, toolIds, preserve>>

MessageComplete == started /\ DOMAIN active = {} /\ deltaSeen

(* message_stop and emit_anthropic_topology: with tools the topology would *)
(* miss their results, and is an error.                                    *)
ProcessMessageStop ==
    LET e == [kind |-> "message_stop"]
        keeps == preserve /\ HasKind(completed, ReasoningKinds)
        whole == MessageComplete /\ DOMAIN completed = seen
        topology == [i \in 1 .. Cardinality(seen) |-> completed[i - 1]]
        refused == ~ whole \/ (keeps /\ HasKind(completed, {"tool_use"}))
    IN  \/ refused /\ Refused(e)
        \/ /\ ~ refused /\ Take(e, One(keeps, Opaque(topology)), "done")
           /\ UNCHANGED <<blockVars, preserve>>

ProcessOther == Take([kind |-> "ping"], <<>>, "read") /\ UNCHANGED <<blockVars, preserve>>

Next ==
    \/ ProcessMessageStart \/ ProcessMessageDelta \/ ProcessMessageStop \/ ProcessOther
    \/ \E index \in Indexes :
          \/ \E kind \in BlockKinds, id \in ToolIds \cup {None} : StartContentBlock(index, kind, id)
          \/ \E delta \in Deltas : ProcessContentDelta(index, delta)
          \/ \E parsed \in BOOLEAN : FinishContentBlock(index, parsed)
    \/ SinkStep /\ UNCHANGED <<blockVars, preserve>>

Spec == Init /\ [][Next]_vars

-----------------------------------------------------------------------------
(* The type invariant; at most one block is open.                          *)
TypeOK ==
    /\ SinkTypeOK
    /\ {started, deltaSeen, preserve} \subseteq BOOLEAN
    /\ Cardinality(DOMAIN active) <= 1
    /\ DOMAIN active \cup DOMAIN completed = seen /\ seen \subseteq Indexes

(* The text of the blocks handed over is, piece by piece, the text that    *)
(* was sent and that the message is stored with; the replay of a later     *)
(* request refuses any difference.                                         *)
OpaqueEvents == SentOf({"opaque"})
TopologyHasTheText ==
    \A k \in DOMAIN OpaqueEvents :
        LET blocks == OpaqueEvents[k].of
            texts == SentOf({"text"})
        IN  FlattenSeq([i \in DOMAIN blocks |->
                IF blocks[i].kind = "text" THEN blocks[i].pieces ELSE <<>>])
              = [i \in DOMAIN texts |-> texts[i].of]

(* What is handed over can be replayed: every thinking block is signed and *)
(* none comes after visible text, no tool call is among them, and the      *)
(* blocks are those of the response in its order.                          *)
StartsOnWire == SelectSeq(wire, LAMBDA e : e.kind = "content_block_start")
TopologyCanBeReplayed ==
    \A k \in DOMAIN OpaqueEvents :
        LET blocks == OpaqueEvents[k].of
        IN  /\ \A i \in DOMAIN blocks :
                  /\ blocks[i].kind = "thinking" => blocks[i].signed
                  /\ blocks[i].kind # "tool_use"
                  /\ blocks[i].kind \in ReasoningKinds =>
                        \A j \in 1 .. i : blocks[j].kind # "text"
            /\ [i \in DOMAIN blocks |-> blocks[i].kind]
                 = [i \in DOMAIN StartsOnWire |-> StartsOnWire[i].block]

(* Success means that every block of the response was stopped before its   *)
(* message_delta, that all its text was sent, and that reasoning to be     *)
(* preserved was handed over.                                              *)
SuccessIsWhole ==
    outcome = "ok" =>
        /\ \E n \in DOMAIN wire :
              /\ wire[n].kind = "message_delta"
              /\ \A k \in n .. Len(wire) : wire[k].kind # "content_block_stop"
        /\ Len(StartsOnWire) = Len(SelectSeq(wire, LAMBDA e : e.kind = "content_block_stop"))
        /\ LET texts == SentOf({"text"})
           IN  [i \in DOMAIN texts |-> texts[i].of]
                 = SelectSeq([n \in DOMAIN wire |-> n],
                      LAMBDA n : wire[n].kind = "content_block_delta" /\ wire[n].delta = "text_delta")
        /\ preserve /\ (\E i \in DOMAIN StartsOnWire : StartsOnWire[i].block \in ReasoningKinds)
             => Len(OpaqueEvents) = 1
=============================================================================
