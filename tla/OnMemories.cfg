CONSTANTS
    ByteSize = 2
    RegCount = 3
    Alu <- MCAlu
    Taken <- MCTaken
    Entry = 0
    StackInit = 13
    Undef = 10
    Decode <- MCDecode
    ImProcess <- MCProcess
    DmProcess <- MCProcess
    ImContents <- MCContents
    DmContents <- MCContents
    NextProcess <- MCNextProcess
    Resets <- MCResets
    Leftovers <- MCLeftovers
SPECIFICATION Spec
PROPERTIES StepsAreCore OneStaleStore Settles KeepsRetiring
