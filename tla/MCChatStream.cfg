\* Every reply of up to MaxText symbols, cut into tokens anywhere.
SPECIFICATION Spec
CONSTANTS
    Requests <- ThirteenRequests
    Letters = {"a", " "}
    Blank = " "
    MaxText = 7
    TwoTags = FALSE
INVARIANTS
    ModesAgree
    NothingLost
CHECK_DEADLOCK FALSE
