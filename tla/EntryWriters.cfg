SPECIFICATION FairWriterSpec
CONSTANTS
    Writer = {w1, w2}
    Reader = {}
    Number = {0, 1, 2}
    NaN = NaN
    PosInf = 9
    NegInf <- NegInfValue
    MaxLength = 2
    Windows <- TwoWindows
INVARIANT ChangeSignalled
INVARIANT WrittenIsCovered
PROPERTY BoundsOnlyWiden
PROPERTY WriteTerminates
