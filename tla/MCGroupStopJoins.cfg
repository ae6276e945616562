\* Group.Stop's g.wg.Wait() can pass before Start's g.wg.Add(1).
CONSTANT N = 2
SPECIFICATION Spec
INVARIANT GroupStopJoins
CHECK_DEADLOCK FALSE
