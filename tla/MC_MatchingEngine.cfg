\* One instrument, engine-assigned ids, five sequence numbers: up to three
\* resting orders at two prices and a taker that sweeps two of them.
SPECIFICATION Spec
CONSTANTS
    OrderId = {1, 2, 3, 4, 5}
    TraderId = {1}
    MaxPrice = 1
    MaxQuantity = 2
    Instrument = {1}
    ClientIds = {}
    Tifs = {"GTC", "IOC"}
    MaxSequence = 5
INVARIANTS
    CrossedOnlyByModify
PROPERTIES
    PriceTimePriority
    SubmitKeepsLevels
CHECK_DEADLOCK FALSE
