\* An input is over once it is executed.
CHECK_DEADLOCK FALSE
CONSTANTS
    Xlen = 4
    Inputs <- MCInputs
    Undef = Undef
SPECIFICATION Spec
INVARIANTS ImmediatesFollowFormats ResultsFollowMeaning BranchesFollowMeaning UnrecognizedHasNoEffect
