CONSTANTS
    WordSize = 4
    InstrSize = 1
    RegCount = 7
    Functs <- MCFuncts
    ZeroFunct = "ADD"
    MulDiv = {}
    Memory <- MCMemory
    Alu <- MCAlu
    Taken <- MCTaken
    Load <- MCLoad
    Store <- MCStore
    Programs <- AllPrograms
    Images <- MCImages
    Entry = 0
    StackInit = 3
    Undef = Undef
    ArgRegs <- MCArgRegs
    IdReg = 3
    SysName <- MCSysName
    ByteFunct = "ADD"
    InputFile = 0
    OutputFile = 1
    HeapStart = 2
    HostBytes <- MCHostBytes
    HostResult <- MCHostResult
SPECIFICATION SimSpec
PROPERTIES PredecessorWriteKept
CHECK_DEADLOCK FALSE
