\* One instrument with two prices and a ring of two events, which wraps around
\* within one submission that trades twice.
SPECIFICATION MDSpec
CONSTANTS
    OrderId = {1, 2, 3, 4}
    TraderId = {1}
    MaxPrice = 1
    MaxQuantity = 2
    Instrument = {1}
    ClientIds = {}
    Tifs = {"GTC", "IOC"}
    MaxSequence = 4
    RingCapacity = 2
INVARIANTS
    TopOfBookCurrent
    
CHECK_DEADLOCK FALSE
