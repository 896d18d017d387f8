\* Two clients: the first sends orders, a modify, broken lines and queries, the
\* second a query and a cancel, in chunks of up to four tokens; the width makes
\* the two-digit number 70 overflow and 12 fit.
\* The program ends: the run may stop.
SPECIFICATION Spec
CONSTANTS
    Width = 6
    MaxConn = 2
    BufLen = 4
    Streams <- MCStreams
    Instruments = {1}
INVARIANTS
    SameAsProcessBuffer
    CalledAsWritten
    ListenersAlive

    
    
CHECK_DEADLOCK FALSE
