\* One instrument, two prices, four sequence numbers before the crash: two or three
\* submissions with trades between them, one operation that the file does not tell
\* of, and a crash at every point.
SPECIFICATION PSpec
CONSTANTS
    OrderId = {1, 2, 3, 4, 5, 6, 7, 8, 9}
    TraderId = {1}
    MaxPrice = 1
    MaxQuantity = 2
    Instrument = {1}
    ClientIds = {}
    Tifs = {"GTC", "IOC"}
    MaxSequence = 9
    MaxLive = 4
    MaxRecords = 4
    MaxLapses = 1
INVARIANTS
    RecoveryRebuildsBooks
    RecoveredUncrossed
    RecoveredIdsFresh

    
CHECK_DEADLOCK FALSE
