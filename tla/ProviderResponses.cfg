SPECIFICATION Spec
CONSTANTS
    MaxWire = 9
    Parts = {"completions", "messages", "responses", "gemini", "ollama", "reasoning", "framing", "guard"}
INVARIANTS
    SuccessIsWhole
    ReplayIsFaithful
    EventsAreTheLines
    NeverShown
PROPERTY KeepsContract
CHECK_DEADLOCK FALSE
