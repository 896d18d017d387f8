\* One trader (the buckets are independent), two tokens, one refilled every three
\* nanoseconds: the bucket is emptied and filled up again within the time.
SPECIFICATION Spec
CONSTANTS
    Trader = {t1}
    MaxPrice = 2
    MaxQuantity = 2
    QuantityLimit = 1
    NotionalLimit = 2
    Lower = 1
    Upper = 1
    Burst = 2
    Refill = 3
    MaxTime = 10
INVARIANTS
    RateBounded
    
CHECK_DEADLOCK FALSE
