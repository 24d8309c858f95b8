SPECIFICATION Spec
CONSTANTS
    Params <- MCParams
    Programs <- MCPrograms
INVARIANTS
    NoUseAfterMove
    SingleOwner
    NoLeak
    ReverseDrops
