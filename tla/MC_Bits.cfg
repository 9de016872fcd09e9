CONSTANTS
    W = 2
    INTSZ = 2
    Sizes = {1, 3}
    Modes = {"none"}
    MaxSize = 3
SPECIFICATION PlainSpec
INVARIANTS CacheFresh NumbersRight
PROPERTY ImplementsBitStream
