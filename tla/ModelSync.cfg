\* Two clients; two jobs with no edit, or one job and two edits.
CONSTANTS
    c1 = c1
    c2 = c2
    m1 = m1
    Clients = {c1, c2}
    Models = {m1}
    MaxJobs = 2
    MaxEdits = 2
    MaxWork = 4
SPECIFICATION Spec
INVARIANT JobsAreSound
PROPERTY TerminalIsFinal
