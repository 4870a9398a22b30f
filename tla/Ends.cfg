\* One generation, and two moves or one errand of the user; one synchronisation of two
\* clients; three pages; one caller of a session.
CONSTANTS
    Rooms = {"r", "q"}
    Branches = {"r1", "r2", "q1"}
    RoomOf <- MCRoomOf
    FirstBranches = {"r1", "q1"}
    MaxStreams = 1
    MaxEvents = 1
    MaxMoves = 2
    MaxErrands = 1
    MaxDoings = 3
    Ring = 1
    Capacity = 1
    Clients = {"c1", "c2"}
    Models = {"m1"}
    Threads = {"t1"}
SPECIFICATION MCSpec
PROPERTIES
    StreamsEnd
    WorkEnds
CHECK_DEADLOCK FALSE
