SPECIFICATION Spec
CONSTANTS
    item = item
    none = none
    Items <- MCItems
    None = none
    Threshold = 2
    ResolveAfter = 2
    SendsPerPoll = 1
    MaxAttempts = 2
    Slots = 1
    Scenes <- MCScenes
INVARIANTS
    MessagesOnce
    ToldOnce
PROPERTIES
    ForwarderSettles
    MessagesArrive
