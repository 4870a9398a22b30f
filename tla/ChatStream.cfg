\* Two rooms, one of which an edit may fork; two generations of one delta.
CONSTANTS
    Rooms = {"r", "q"}
    Branches = {"r1", "r2", "q1"}
    RoomOf <- MCRoomOf
    FirstBranches = {"r1", "q1"}
    MaxStreams = 2
    MaxEvents = 1
    MaxMoves = 1
    MaxErrands = 1
    MaxDoings = 4
    Ring = 1
    Capacity = 1
SPECIFICATION BoundedSpec
INVARIANTS
    TextHasNoGap
    ScreenShowsTheRoom
CHECK_DEADLOCK FALSE
