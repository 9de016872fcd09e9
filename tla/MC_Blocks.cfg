CONSTANTS
    Programs <- Scripts
    fn = fn
    Names = {fn}
    NoName = NoName
    MaxDepth = 9
    MaxSize = 5
SPECIFICATION Spec
INVARIANTS StackIsNesting LinksOK FramesMatchBlocks SkipInv DeadBlocksStayDead ContinueSkipsRest
PROPERTY ImplementsStructured
