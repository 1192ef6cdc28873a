SPECIFICATION Spec
CONSTANTS
    Thread = {t1, t2}
    Handle = {h1, h2}
    Index = {i1, i2}
    Pool = {i1, i2}
    Block = {b1, b2, b3}
    BlockSize = 3
    Offset = 1
    ArrayNum = 1
    Invalid = Invalid
    None = None
    NoBlock = NoBlock
SYMMETRY Symmetry
INVARIANTS ObjectsApart Conserved ObjectsKept ReturnedEmpty
