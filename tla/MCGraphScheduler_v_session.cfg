SPECIFICATION Spec
CONSTANTS
    Workflows <- LoopBesideHeir
    Limit = 2
    Most <- NoFaults
    Editions <- NoEdits
    EditAlone = TRUE
INVARIANTS NoSharedTurn
CHECK_DEADLOCK FALSE
