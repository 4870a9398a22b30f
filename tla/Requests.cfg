SPECIFICATION Spec
CONSTANTS
    Scopes = {"budget", "opaque", "reasoning", "caching", "thinking", "parameters"}
    t1 = t1
    t2 = t2
    Nobody = Nobody
INVARIANTS
    PromptIsTheLongestThatRuns
    SentIsOffered
    ThinkingIsWellFormed
    NothingIsDropped
CHECK_DEADLOCK FALSE
