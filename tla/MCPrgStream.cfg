CONSTANTS
    Keys = {k0, k1}
    Lengths = {1, 7, 8, 16, 17, 33, 50}
    UintSize = 256
    Limit = 3
SPECIFICATION Spec
INVARIANT TypeOK
PROPERTY RefinesByteStream
\* No request is made beyond Limit.
CHECK_DEADLOCK FALSE
