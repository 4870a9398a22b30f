---------------------------- MODULE ProviderSink ----------------------------
(***************************************************************************)
(* What the adapters of crates/providers share: a loop that takes one      *)
(* event of the response at a time, sends the provider events it stands    *)
(* for one by one, and looks at the cancellation before and during each    *)
(* wait.  The adapters extend this module with what an event means.        *)
(*                                                                         *)
(* A piece of text or of arguments is named by where it stood on the wire. *)
(* Malformed data, an error envelope, an exceeded size limit and a broken  *)
(* connection end a response at any event (Break); they are one case.      *)
(***************************************************************************)
EXTENDS Naturals, Sequences, FiniteSets, SequencesExt

CONSTANT MaxWire    \* bound on the events of a response

ASSUME WireAssumption == MaxWire \in Nat

VARIABLES
    wire,       \* events taken from the response
    outbox,     \* provider events still to be sent for the last one
    after,      \* what follows them: "read" on, "done", or "fail"
    sent,       \* events the runner has received
    outcome,    \* "running", or what generate returned
    cancelled   \* the cancellation flag

sinkVars == <<wire, outbox, after, sent, outcome, cancelled>>

None == "none"

Text(n)          == [kind |-> "text", of |-> n]
Reasoning(n)     == [kind |-> "reasoning", of |-> n]
Opaque(state)    == [kind |-> "opaque", of |-> state]
Started(id)      == [kind |-> "started", id |-> id]
Arguments(id, n) == [kind |-> "args", id |-> id, of |-> n]
Completed(id)    == [kind |-> "completed", id |-> id]

One(condition, e) == IF condition THEN <<e>> ELSE <<>>

SinkInit ==
    /\ wire = <<>> /\ outbox = <<>> /\ after = "read"
    /\ sent = <<>> /\ outcome = "running" /\ cancelled = FALSE

(* The loop waits for the next event.                                      *)
Reading == outcome = "running" /\ outbox = <<>> /\ after = "read"
Next1 == Len(wire) + 1

(* The loop has taken e, which stands for events and then goes on as next. *)
Take(e, events, next) ==
    /\ Reading /\ ~ cancelled /\ Len(wire) < MaxWire
    /\ wire' = Append(wire, e) /\ outbox' = events /\ after' = next
    /\ UNCHANGED <<sent, outcome, cancelled>>

Returns(o) ==
    /\ outcome' = o
    /\ UNCHANGED <<wire, outbox, after, sent, cancelled>>

(* send_provider_event: the biased select sees a cancellation first.       *)
SendProviderEvent ==
    /\ outcome = "running" /\ outbox # <<>> /\ ~ cancelled
    /\ sent' = Append(sent, Head(outbox)) /\ outbox' = Tail(outbox)
    /\ UNCHANGED <<wire, after, outcome, cancelled>>

ReceiverClosed == outcome = "running" /\ outbox # <<>> /\ Returns("error")
EnsureNotCancelled == outcome = "running" /\ cancelled /\ after # "fail" /\ Returns("cancelled")
Break == Reading /\ Returns("error")
Fail == outcome = "running" /\ outbox = <<>> /\ after = "fail" /\ Returns("error")
Done == outcome = "running" /\ outbox = <<>> /\ after = "done" /\ ~ cancelled /\ Returns("ok")
CancelledSending ==
    outcome = "running" /\ cancelled /\ outbox # <<>> /\ after = "fail" /\ Returns("cancelled")

(* The registry cancels the generation.                                    *)
Cancel ==
    /\ outcome = "running" /\ ~ cancelled /\ cancelled' = TRUE
    /\ UNCHANGED <<wire, outbox, after, sent, outcome>>

SinkStep == \/ SendProviderEvent \/ ReceiverClosed \/ EnsureNotCancelled \/ CancelledSending
            \/ Break \/ Fail \/ Done \/ Cancel

(* What the adapter does by itself once it was cancelled; a send may wait  *)
(* for the runner for ever.                                                *)
StopsWhenCancelled == EnsureNotCancelled \/ CancelledSending \/ Fail

(* The events of the given kinds, in the order they were sent.             *)
SentOf(kinds) == SelectSeq(sent, LAMBDA e : e.kind \in kinds)

SinkTypeOK ==
    /\ Len(wire) <= MaxWire
    /\ after \in {"read", "done", "fail"}
    /\ outcome \in {"running", "ok", "error", "cancelled"}
    /\ cancelled \in BOOLEAN
=============================================================================
