---------------------------- MODULE MCChatStream ----------------------------
(* The chat event stream for TLC: the branches of the rooms r and q are    *)
(* named after them, and the user does MaxDoings things in all: starts of  *)
(* streams, moves, and errands, which count twice: for what is asked and   *)
(* for what is written.                                                    *)
EXTENDS ChatStream

CONSTANT MaxDoings

MCRoomOf == [b \in Branches |-> IF b = "q1" THEN "q" ELSE "r"]

Doings ==
    moves + Cardinality({s \in Stream : starts[s].pc # "none"})
          + 2 * Cardinality({e \in Errand : errands[e].pc # "none"})

BoundedNext == Next /\ Doings' <= MaxDoings

BoundedSpec == Init /\ [][BoundedNext]_vars
=============================================================================
