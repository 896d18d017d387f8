\* A modify that moves an order to a price the other side holds.
SPECIFICATION Spec
CONSTANTS
    OrderId = {1, 2, 3, 4, 5}
    TraderId = {1}
    MaxPrice = 1
    MaxQuantity = 2
    Instrument = {1}
    ClientIds = {}
    Tifs = {"GTC"}
    MaxSequence = 5
INVARIANT
    NoFreedLevel
CHECK_DEADLOCK FALSE
