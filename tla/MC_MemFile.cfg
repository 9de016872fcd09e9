CONSTANTS
    m1 = m1
    m2 = m2
    Files = {m1, m2}
    x = x
    Zero = Zero
    Byte = {Zero, x}
    Junk = Junk
    Data <- Strings
    Offsets <- Around0
    MaxSize = 3
SYMMETRY AnyOrder
SPECIFICATION PlainSpec
INVARIANTS NothingUnwritten PosInside
PROPERTY ImplementsByteFile
