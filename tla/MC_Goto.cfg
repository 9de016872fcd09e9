CONSTANTS
    Programs <- Scripts
    x = x
    Names = {x}
    NoName = NoName
    MaxDepth = 9
    MaxSize = 5
SPECIFICATION FairSpec
INVARIANTS JumpLandsForGood JumpFindsLabel
PROPERTIES ImplementsStructured SearchEnds SkipEnds
