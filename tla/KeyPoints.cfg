SPECIFICATION Spec
CONSTANTS
    Index = {0, 1, 2, 3}
    Listener = {l1, l2}
    MaxListeners = 2
VIEW NoHistory
INVARIANT KeyPointsOrdered
INVARIANT ListenersShowNothingStale
PROPERTY ImplementsSet
