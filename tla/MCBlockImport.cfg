SPECIFICATION Spec
CONSTANTS
    Genesis = "g"
    NoBlock = "none"
    Blocks = {"a", "b"}
    Parent <- SmallParent
    NVerifiers = 2
    MaxRound = 1
    Word = 16
INVARIANTS
    TypeOK
    SignalNotLost
    NoLostWakeup
    KeepsOrder
    OnlyFailuresAreBad
    NoChildOfBad
    SizesMatch
PROPERTIES
    QueuedIsSettled
    FlushReturns
    VerifiersExit
CHECK_DEADLOCK FALSE
