\* Three orders at two prices, quantities up to two: enough for a level with a
\* middle order, for both sides at once and for a partial and a full fill.
SPECIFICATION Spec
CONSTANTS
    OrderId = {1, 2, 3}
    TraderId = {1}
    MaxPrice = 1
    MaxQuantity = 2
INVARIANTS
    BookConsistent
    LevelsOwned
    FifoByPlacement
    DepthAggregatesOrders
PROPERTIES
    ImplementsPriceTimeBook
CHECK_DEADLOCK FALSE
