SPECIFICATION ThinSpec
CONSTANTS
    Writer = {w1}
    Reader = {r1}
    Number = {0, 1}
    NaN = NaN
    PosInf = 9
    NegInf <- NegInfValue
    MaxLength = 4
    Windows <- OneWindow
VIEW NoHistory
INVARIANT BoundsCoverWindow
