SPECIFICATION Spec
CONSTANTS
    Sources <- MCSources
    Items = {1, 2, 3}
    Origin <- MCOrigin
    Malformed = {}
    Garbled = {3}
    MaxItems = 2
    SeenCap = 1
    Nobody = Nobody
    MaxEvents = 1
CHECK_DEADLOCK FALSE
INVARIANTS OneWakePerItem KnownItemsWake
PROPERTIES LeadersAreSeen
