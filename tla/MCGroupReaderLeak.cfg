\* A worker whose consumer was stopped before it called Start leaves the reader open.
CONSTANT N = 2
SPECIFICATION Spec
INVARIANT ReadersClosed
CHECK_DEADLOCK FALSE
