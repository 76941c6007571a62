SPECIFICATION Spec
CONSTANTS
    Workflows <- Every
    Limit = 2
    Most <- FaultsOf
    Editions <- Edits
    EditAlone = TRUE
INVARIANTS JoinWaits OneExecution RoundsInOrder NothingLeftBehind
           NoSharedTurn InheritHasSession NoParallelWriters
PROPERTIES DecidedIsFinal ResumeKeepsRound Settles
CHECK_DEADLOCK FALSE
