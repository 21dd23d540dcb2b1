SPECIFICATION Spec
CONSTANTS
    IntBits = 3
    LongBits = 6
    Mantissa = 4
    Sixths <- MCSixths
    WholeNumbers <- MCWholeNumbers
    Enumerations <- MCEnumerations
    MaxListeners = 2
    GlitchIntegers = {0, 1, 2}
    WindowSizes = {0, 1, 2, 3}
    WindowInputs = {0, 12, 24}
    Delays = {0, 1, 3}
    AverageWindows = {1, 2, 3}
    MaxSamples = 4
    LimiterInputs <- MCLimiterInputs
    Limits = {0, 1, 2}
    NegativeLimits <- MCNegativeLimits
    Gains <- MCGains
    Dt = 1
    MaxMagnitude = 4
    Positions = {0, 4, 8}
    Velocities <- MCVelocities
    SlopTimes = {0, 1, 4}
    Times = {0, 1, 2}
    VelocityDt = 2
    HalfTurn = 4
    SmoothedInputs = {0, 4}
    Clock = {0, 1}
    Cutoffs = {0, 1}
    WrapInputs <- MCWrapInputs
    LowerLimit = 0
    UpperLimit = 6
    Frequencies <- MCFrequencies
    DampingRatios = {0, 1}
    MaxFrequency = 2
INVARIANTS
    ConversionsComeBack
    ListenersTold
    WindowsHoldLastInputs
    CoefficientsFollowParameters
    DifferencesWithinObserved
    SmoothedStayAmongInputs
PROPERTIES
    GlitchesFiltered
    LimitsKept
    ReversalsPlayedOut
    WrapsTheShorterWay
