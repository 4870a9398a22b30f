\* Two clients race on one room, or one works alone while texts are streamed.
CONSTANTS
    c1 = c1
    c2 = c2
    Clients = {c1, c2}
    First = c1
    Texts = {1}
    MaxGenerations = 2
    MaxBranches = 2
    MaxDeltas = 1
SPECIFICATION MCSpec
SYMMETRY ClientSymmetry
INVARIANTS
    StoreIsSound
    RunningOwnsItsBranch
    NothingBuiltOnPending
    PromptFollowsLineage
PROPERTIES
    HeadMovesAlongLineage
    HistoryIsImmutable
