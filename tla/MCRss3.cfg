CONSTANTS
    K = 2
    R = 3
    W = 4
    Programs <- MCPrograms
    InputShares <- MCInputShares
    Streams <- MCStreams
    Unknown = Unknown
SPECIFICATION FairSpec
INVARIANTS TypeOK ReplicasAgree StreamsInStep
PROPERTIES RefinesIdeal Completes
\* A program ends.
CHECK_DEADLOCK FALSE
