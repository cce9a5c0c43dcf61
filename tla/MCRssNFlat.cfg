CONSTANTS
    K = 2
    W = 3
    Cases <- FlatCases
    Input <- MCInput
    Prg <- MCPrg
    Unknown = Unknown
SPECIFICATION FairSpec
INVARIANT ResultsRight
\* A program ends.
CHECK_DEADLOCK FALSE
