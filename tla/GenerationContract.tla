------------------------- MODULE GenerationContract -------------------------
(***************************************************************************)
(* What one generation promises to whoever watches its events and reads    *)
(* the store (docs/architecture/provider-and-chat.md): text is shown only  *)
(* while the generation runs, a checkpoint never runs ahead of it, the     *)
(* outcome is stored once and before it is announced, a complete answer is *)
(* exactly the text that was shown, and a restart cancels what was left    *)
(* running.                                                                *)
(***************************************************************************)
EXTENDS Naturals

VARIABLES
    shown,      \* units of text published
    row,        \* the assistant message: status and content
    outcome,    \* the generation's stored status
    announced,  \* the terminal event published, or "none"
    alive       \* the process that runs the generation is up

contractVars == <<shown, row, outcome, announced, alive>>

Absent == [status |-> "absent", content |-> 0]

Init ==
    /\ shown = 0
    /\ row = Absent
    /\ outcome = "absent"
    /\ announced = "none"
    /\ alive = TRUE

Begin ==
    /\ alive
    /\ outcome = "absent"
    /\ outcome' = "running"
    /\ row' = [status |-> "pending", content |-> 0]
    /\ UNCHANGED <<shown, announced, alive>>

Stream ==
    /\ alive
    /\ outcome = "running"
    /\ announced = "none"
    /\ shown' >= shown
    /\ row'.status = "pending"
    /\ row'.content >= row.content
    /\ row'.content <= shown'
    /\ UNCHANGED <<outcome, announced, alive>>

(* The answer as stored when the outcome is. *)
Kept(status) ==
    /\ row'.status = status
    /\ row'.content >= shown
    /\ status = "complete" => row'.content = shown

Settle(status) ==
    /\ alive
    /\ outcome = "running"
    /\ announced = "none"
    /\ outcome' = status
    /\ Kept(status) \/ (status # "complete" /\ row' = Absent)
    /\ UNCHANGED <<shown, announced, alive>>

Announce ==
    /\ alive
    /\ outcome # "absent"
    /\ announced = "none"
    /\ announced' \in {"finished", "cancelled", "failed"}
    /\ announced' = "finished" => outcome = "complete"
    /\ announced' = "cancelled" => outcome = "cancelled"
    /\ UNCHANGED <<shown, row, outcome, alive>>

Die ==
    /\ alive
    /\ alive' = FALSE
    /\ UNCHANGED <<shown, row, outcome, announced>>

Restart ==
    /\ ~alive
    /\ outcome = "running"
    /\ outcome' = "cancelled"
    /\ row' \in {Absent, [status |-> "cancelled", content |-> row.content]}
    /\ UNCHANGED <<shown, announced, alive>>

Next ==
    \/ Begin
    \/ Stream
    \/ \E status \in {"complete", "cancelled", "failed"} : Settle(status)
    \/ Announce
    \/ Die
    \/ Restart

Spec == Init /\ [][Next]_contractVars
=============================================================================
