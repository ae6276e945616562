\* Stop-before-return and termination of a 2-worker group; every goroutine
\* returns in the end, so terminal states are the program's end.
CONSTANT N = 2
SPECIFICATION Spec
INVARIANT TypeOK StoppedBeforeReturn SendNeverBlocks
PROPERTY GroupStopReturns WatcherExits
CHECK_DEADLOCK FALSE
