\* Start/Stop joining and termination with a double Start, two Stop callers
\* and a Sleep.  Every goroutine returns in the end, so terminal states are
\* the normal end of the program, not a deadlock.
CONSTANTS
    s1 = s1
    s2 = s2
    t1 = t1
    t2 = t2
    g1 = g1
    None = None
    StartCallers <- MCStartCallers
    StopCallers <- MCStopCallers
    Sleepers <- MCSleepers
SPECIFICATION Spec
INVARIANT TypeOK StopJoins
PROPERTY StopReturns LifecycleContractSpec
CHECK_DEADLOCK FALSE
