CONSTANTS
    WordSize = 4
    InstrSize = 1
    RegCount = 3
    Functs <- MCFuncts
    ZeroFunct = "ADD"
    MulDiv = {"MUL"}
    Memory <- MCMemory
    Alu <- MCAlu
    Taken <- MCTaken
    Load <- MCLoad
    Store <- MCStore
    Programs <- CorePrograms
    Images <- MCImages
    Entry = 0
    StackInit = 3
    Undef = Undef
SPECIFICATION FairSpec
INVARIANTS TypeOK UndefNeverUsed OperandsCurrent PathFollowed StagesFaithful
PROPERTIES ImplementsIsa WaitsOnce NeverDrains KeepsRetiring
