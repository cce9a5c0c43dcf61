CONSTANTS
    W = 8
    Cases <- MCEda7
    Share <- MCShare
    Prg <- MCPrg
SPECIFICATION Spec
INVARIANT RandomRight
