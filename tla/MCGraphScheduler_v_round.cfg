SPECIFICATION Spec
CONSTANTS
    Workflows <- NoRoundFirst
    Limit = 2
    Most <- NoFaults
    Editions <- NoEdits
    EditAlone = TRUE
INVARIANTS RoundsInOrder
CHECK_DEADLOCK FALSE
