CONSTANTS
    Modulus = 8
    SomeIds = {0, 1, 3, 4, 7}
    MaxLength = 5
    Written <- ShortSequences
SPECIFICATION Spec
INVARIANTS SearchIsRight SearchIsShort SortIsStable
