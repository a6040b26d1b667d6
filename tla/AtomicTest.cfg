CONSTANTS
    ByteSize = 2
    RegCount = 3
    Alu <- MCAlu
    Taken <- MCTaken
    Entry = 0
    StackInit = 0
    Undef = Undef
    Decode <- MCDecode
    ImProcess <- MCProcess
    DmProcess <- MCProcess
    ImContents <- MCContents
    DmContents <- MCContents
    NextProcess <- MCNextProcess
    Resets = {}
    Leftovers = {}
    Tests <- MCTests
    NumberOfCycles = 35
    NewCache <- MCNewCache
    Uninitialised = 0
    Array <- MCArray
SPECIFICATION TestSpec
INVARIANTS TestPasses
CHECK_DEADLOCK FALSE
