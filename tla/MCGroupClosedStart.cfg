\* Start of a stopped group returns errors.Wrap(nil, ...) = nil.
CONSTANT N = 2
SPECIFICATION Spec
INVARIANT ClosedGroupStartFails
CHECK_DEADLOCK FALSE
