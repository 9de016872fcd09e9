CONSTANTS
    t = t
    MAX_ARRAYS = 2
    Num <- Numbers
    Text = {t}
    Hole = Hole
    Junk = Junk
    Rank <- Ranks
    Wrap = 8
    Blocks = 1
    Indices <- Around0
    MaxElements = 3
SPECIFICATION Spec
INVARIANTS TypeOK NothingStale RoomEnough
PROPERTIES SortAscends SortKeepsRows
