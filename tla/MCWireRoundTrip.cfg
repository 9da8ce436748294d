SPECIFICATION Spec
CONSTANTS
    U32Max = 2147483647
    Types <- MCTypes
    Codes <- MCCodes
    Layout <- MCLayout
    Extra = 1
    Behind <- MCBehind
INVARIANTS
    ReencodingIsStable
    EveryByteKept
    DecodersAgree
CHECK_DEADLOCK FALSE
