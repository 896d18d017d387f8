\* Four slots and cursors that wrap around at eight: the ring fills, drains and
\* wraps without a bound on the number of pushes.
SPECIFICATION RingSpec
CONSTANTS
    N = 4
    W = 8
    Value = {1, 2}
INVARIANTS
    NoSlotRace
PROPERTIES
    ImplementsBoundedFifo
    FullRingDrains
