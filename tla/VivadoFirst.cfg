CONSTANTS
    WordSize = 4
    InstrSize = 1
    RegCount = 3
    Functs <- MCFuncts
    ZeroFunct = "ADD"
    MulDiv = {}
    Memory <- MCMemory
    Alu <- MCAlu
    Taken <- MCTaken
    Load <- MCLoad
    Store <- MCStore
    Programs <- AllPrograms
    Images <- MCImages
    Entry = 0
    StackInit = 3
    Undef = Undef
SPECIFICATION VivadoSpec
PROPERTIES ImplementsIsa
