CONSTANTS
    ByteSize = 2
    Places = 2
    LineWords = 2
    Tags = 2
    AgeSize = 2
    Addr <- MCAddr
    Requests <- MCRequests
    RequestsOf <- MCRequestsOf
    NoRequest = NoRequest
    Process <- MCProcess
    Contents <- MCContents
    NextProcess <- MCNextProcess
    Resets <- MCResets
SPECIFICATION Spec
INVARIANTS DroppableLinesBelow OnlyLastWayUsed
PROPERTIES ImplementsByteMemory EffectWithAnswer AccessAnswered
