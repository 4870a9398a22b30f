--------------------------- MODULE MCConversation ---------------------------
(***************************************************************************)
(* Two scopes of Conversation in one run: two clients race on one room     *)
(* whose answers have no text, or one client works alone while texts are   *)
(* streamed, checkpointed and cut short.                                   *)
(***************************************************************************)
EXTENDS Conversation, TLC

CONSTANT First      \* the client that works alone

VARIABLE scope

ClientSymmetry == Permutations(Clients)

MCInit == Init /\ scope \in {"race", "text"}

MCNext ==
    /\ Next /\ UNCHANGED scope
    /\ scope = "race" => \A g \in GenerationId : tasks'[g].streamed = 0
    /\ scope = "text" => \A c \in Clients \ {First} : requests'[c] = Idle

MCSpec == MCInit /\ [][MCNext]_<<vars, scope>>
=============================================================================
