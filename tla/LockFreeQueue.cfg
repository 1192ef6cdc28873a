SPECIFICATION RingLiveSpec
CONSTANTS
    Size = 3
    Value = {v1, v2}
    NoValue = NoValue
INVARIANTS NoSlotRace
PROPERTIES ImplementsFifo Drains
