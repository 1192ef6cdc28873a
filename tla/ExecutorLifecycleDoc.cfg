SPECIFICATION LifecycleSpec
CONSTANTS
    Thread = {t1}
    Handle = {h1}
    Index = {i1}
    Invalid = Invalid
    None = None
INVARIANTS HeldIsAlive
