SPECIFICATION Spec
CONSTANTS
    MaxTargets = 3
    Nil = Nil
    NotAString = "#"
    DefaultPath = "default"
    Durations <- MCDurations
    SchemaIDs = {7}
    Worlds <- MCWorlds
INVARIANTS
    SettingsAccepted
