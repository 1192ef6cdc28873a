SPECIFICATION Spec
CONSTANTS
    Storage = {s1, s2, s3, s4}
    MaxNodes = 4
    MaxInputs = 2
    MaxWrites = 1
    SizeSet = {1, 3}
    Extra = 1
    AlignTo = 2
    None = None
INVARIANTS InputsKept InsideWorkspace BucketsDisjoint
SYMMETRY StorageSymmetry
