\* Three connections, of which the first may stop reading and the others trade:
\* a third one arrives when the second has or has not gone, so that its id is
\* new or taken, and two commands meet at the mutex of the engine.
\* A connection ends, and so does the program: the run may stop.
SPECIFICATION Spec
CONSTANTS
    MaxConn = 3
    Trading = {2, 3}
    Stalling = {1}
INVARIANTS
    NoGhostPeers
    ToldBeforeResult
    StopMisses
PROPERTIES
    
    MutexReleased
CHECK_DEADLOCK FALSE
