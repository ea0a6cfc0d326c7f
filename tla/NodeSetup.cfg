SPECIFICATION Spec
CONSTANTS
    Keys = {1, 2, 3}
    Backups = {1, 2}
    Node = Node
    Old = Old
    Static = Static
    MaxHeight = 2
    MaxRuns = 3
INVARIANTS
    TypeOK
    Recoverable
PROPERTIES
    RestoresSigningState
CHECK_DEADLOCK FALSE
