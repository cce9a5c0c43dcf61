CONSTANT Sizes = {3, 5}
SPECIFICATION FairSpec
INVARIANTS TypeOK SeedPlaced SharedStreams
PROPERTY SetupEnds
\* A party that has all its seeds has nothing left to do.
CHECK_DEADLOCK FALSE
