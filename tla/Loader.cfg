\* The simulator ends, with or without having run the program.
CHECK_DEADLOCK FALSE
CONSTANTS
    ByteSize = 8
    DramSize = 44
    StackInit = 24
    Files <- MCFiles
    ArgLists <- MCArgLists
    Linked <- MCLinked
    Undef = Undef
SPECIFICATION Spec
INVARIANTS SectionsInPlace HeapStartsFree ArgumentsReadBack MarksAreLinked SignatureBytes
