\* Two calls on three instruments, of which 1 and 3 share a bundle, while two
\* resets or snapshots pass over the bundles; two notionals of 9 overflow the
\* width.  The calls are used up: the run may stop.
SPECIFICATION Spec
CONSTANTS
    Threads = {t1, t2}
    Instruments = {1, 2, 3}
    Slots = 2
    Width = 4
    Calls <- MCCalls
    MaxCalls = 2
    MaxPasses = 2
SYMMETRY Symmetry
INVARIANTS
    CountsAtRest
    
CHECK_DEADLOCK FALSE
