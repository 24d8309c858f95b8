SPECIFICATION Spec
CONSTANTS
    Params <- MCParams
    Programs <- LoopPrograms
INVARIANT NoUseAfterMove
