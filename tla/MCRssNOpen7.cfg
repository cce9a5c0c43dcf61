CONSTANTS
    K = 2
    W = 4
    Cases <- Open7Cases
    Input <- MCInput
    Prg <- MCPrg
    Unknown = Unknown
SPECIFICATION FairSpec
INVARIANT ResultsRight
\* A program ends.
CHECK_DEADLOCK FALSE
