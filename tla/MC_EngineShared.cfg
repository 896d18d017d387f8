\* Two instruments that share the sequence counter, and clients that may choose
\* the id 2 themselves, so that chosen and assigned ids collide.
SPECIFICATION Spec
CONSTANTS
    OrderId = {1, 2, 3, 4}
    TraderId = {1}
    MaxPrice = 0
    MaxQuantity = 2
    Instrument = {1, 2}
    ClientIds = {2}
    Tifs = {"GTC", "IOC"}
    MaxSequence = 4
INVARIANTS
    BooksConsistent
    ResultMatchesTrades
    SequencesDistinct
PROPERTIES
    EverySubmissionAnswered
CHECK_DEADLOCK FALSE
