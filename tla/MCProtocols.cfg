CONSTANTS
    W = 8
    Cases <- MCCases
    Share <- MCShare
    Prg <- MCPrg
SPECIFICATION Spec
INVARIANTS TypeOK ReplicasAgree CarriesRight BitsRight RandomRight SelectionRight RescalingRight ProductsRight PoolingRight ConvolutionRight PredictionRight
