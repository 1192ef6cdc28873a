SPECIFICATION Spec
CONSTANTS
    Storage = {s1, s2}
    MaxNodes = 4
    MaxInputs = 1
    MaxWrites = 2
    SizeSet = {1}
    Extra = 1
    AlignTo = 2
    None = None
INVARIANTS InputsKept
