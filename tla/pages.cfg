SPECIFICATION Spec
CONSTANTS
    Ids = {1, 2, 3, 4}
    MaxInt = 7
    Sent <- SentNumbers
    defaultPagesize = 2
    defaultPageindex = 1
INVARIANTS
    TypeOK
    PageIsSlice
    PageIsBounded
    WalkMissesNothing
    WalkRepeatsNothing
