CONSTANTS
    Programs <- GotoInsideIf
    x = x
    Names = {x}
    NoName = NoName
    MaxDepth = 9
    MaxSize = 1
SPECIFICATION Spec
INVARIANT JumpLandsForGood
