-------------------------- MODULE ProviderContract --------------------------
(***************************************************************************)
(* What an adapter promises to the runner of a generation                  *)
(* (Provider::generate in crates/providers/src/lib.rs): the events it      *)
(* sends describe tool calls that are started once, get their arguments    *)
(* while they are open and are completed once, and it returns success only *)
(* when none is left open.  Nothing is sent after it returned.             *)
(***************************************************************************)
EXTENDS Naturals, Sequences

VARIABLES sent,     \* events the runner has received
          outcome   \* what generate returned

vars == <<sent, outcome>>

Ids(kind) == {sent[i].id : i \in {j \in DOMAIN sent : sent[j].kind = kind}}

Legal(e) ==
    /\ e.kind = "started" => e.id \notin Ids("started")
    /\ e.kind \in {"args", "completed"} => e.id \in Ids("started") \ Ids("completed")

Init == sent = <<>> /\ outcome = "running"

(* Legal looks at what was sent before: the new event is the last one.     *)
Deliver ==
    /\ outcome = "running" /\ UNCHANGED outcome
    /\ Len(sent') = Len(sent) + 1 /\ sent = SubSeq(sent', 1, Len(sent))
    /\ Legal(sent'[Len(sent')])

Return ==
    /\ outcome = "running" /\ UNCHANGED sent
    /\ outcome' \in {"ok", "error", "cancelled"}
    /\ outcome' = "ok" => Ids("started") = Ids("completed")

Next == Deliver \/ Return
Spec == Init /\ [][Next]_vars
=============================================================================
