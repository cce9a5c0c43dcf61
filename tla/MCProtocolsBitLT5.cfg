CONSTANTS
    W = 8
    Cases <- MCBitLT5
    Share <- MCShare
    Prg <- MCPrg
SPECIFICATION Spec
INVARIANT BitsRight
