SPECIFICATION GuardedSpec
CONSTANTS
    Writer = {w1, w2}
    Reader = {r1}
    Number = {0, 1}
    NaN = NaN
    PosInf = 9
    NegInf <- NegInfValue
    MaxLength = 3
    Windows <- AllWindows
VIEW NoHistory
SYMMETRY ThreadSymmetry
INVARIANT TypeOK
INVARIANT BoundsOrdered
INVARIANT BoundsCoverWindow
INVARIANT CachedBoundsValid
