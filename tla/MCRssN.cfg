CONSTANTS
    K = 2
    W = 4
    Cases <- MCCases
    Input <- MCInput
    Prg <- MCPrg
    Unknown = Unknown
SPECIFICATION FairSpec
INVARIANTS TypeOK ReplicasAgree StreamsInStep
PROPERTIES RefinesIdeal Completes
\* A program ends.
CHECK_DEADLOCK FALSE
