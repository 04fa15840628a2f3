SPECIFICATION Spec
CONSTANTS
    Genesis = "g"
    NoBlock = "none"
    Blocks = {"a", "b"}
    Parent <- SmallParent
    NVerifiers = 2
    MaxRound = 1
    Word = 16
PROPERTY MarkAsGoodSeesEmpty
CHECK_DEADLOCK FALSE
