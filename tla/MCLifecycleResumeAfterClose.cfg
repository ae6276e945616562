\* The resume goroutine of Sleep after the loop has closed the reader.
CONSTANTS
    s1 = s1
    s2 = s2
    t1 = t1
    t2 = t2
    g1 = g1
    None = None
    StartCallers <- MCStartCallers
    StopCallers <- MCStopCallers
    Sleepers <- MCSleepers
SPECIFICATION Spec
PROPERTY NoReaderUseAfterClose
CHECK_DEADLOCK FALSE
