SPECIFICATION ReadersSpec
CONSTANTS
    Writer = {w1}
    Reader = {r1, r2}
    Number = {0, 1}
    NaN = NaN
    PosInf = 9
    NegInf <- NegInfValue
    MaxLength = 3
    Windows <- TwoWindows
VIEW NoHistory
INVARIANT CachedBoundsValid
