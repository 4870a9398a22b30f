SPECIFICATION MCSpec
CONSTANTS
    Scopes = {"edits", "restore", "alone", "together", "faults", "death"}
    Callers = {c1, c2}
    Slots = {"a", "b", "p"}
    Demanding = {"a", "p"}
    Legacies = {"p"}
    MaxLeftover = 1
    Secrets = {s1}
    Values = {"u", "v"}
    p1 = p1
    o1 = o1
    m1 = m1
    m2 = m2
    plain = plain
    r1 = r1
    q1 = q1
    Junk = Junk
    Profiles <- OneProfile
    Others <- OneOther
    Models <- TwoModels
    Configs <- OneConfig
    UserRoutes <- OneUserRoute
    UserPresets <- OneUserPreset
    Default = plain
    None = None
    Absent = Absent
    MaxHistory = 1
    Discovery = TRUE
SYMMETRY CallerSymmetry
INVARIANTS SelectionIsConsistent SelectedStaysActive SecretsAreSound
PROPERTIES EditsKeepTheirTargets CommandsAreWhole
