\* A send that read the history when its expected head was behind the branch.
CONSTANTS
    c1 = c1
    Clients = {c1}
    Texts = {1}
    MaxGenerations = 2
    MaxBranches = 1
    MaxDeltas = 0
SPECIFICATION Spec
INVARIANT PromptWithinLineage
