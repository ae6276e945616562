-------------------------- MODULE LifecycleContract --------------------------
(***************************************************************************)
(* What Start and Stop of one consumer promise its callers (spec section   *)
(* 4.2 and invariant 4), whatever goroutines call them: at most one event  *)
(* loop runs at a time, none starts once the consumer is cancelled, the    *)
(* cancellation is never undone, and Stop returns only when the consumer   *)
(* is cancelled and no loop runs.                                          *)
(***************************************************************************)
EXTENDS TLAPS

CONSTANT Callers   \* the goroutines that call Start

VARIABLES
    cancelled,  \* the consumer's context is cancelled
    running,    \* the callers whose Start is subscribing or in its loop
    stopped     \* some Stop call has returned

vars == <<cancelled, running, stopped>>

Init ==
    /\ cancelled = FALSE
    /\ running = {}
    /\ stopped = FALSE

Cancel ==
    /\ cancelled' = TRUE
    /\ UNCHANGED <<running, stopped>>

\* A Start call begins its loop: only on a live consumer, and only alone.
Enter(s) ==
    /\ ~cancelled
    /\ running = {}
    /\ running' = {s}
    /\ UNCHANGED <<cancelled, stopped>>

Leave(s) ==
    /\ s \in running
    /\ running' = running \ {s}
    /\ UNCHANGED <<cancelled, stopped>>

\* A Stop call returns.
StopReturn ==
    /\ cancelled
    /\ running = {}
    /\ stopped' = TRUE
    /\ UNCHANGED <<cancelled, running>>

Next ==
    \/ Cancel
    \/ \E s \in Callers : Enter(s) \/ Leave(s)
    \/ StopReturn

Spec == Init /\ [][Next]_vars

-----------------------------------------------------------------------------
(* The guarantee: two loops of the consumer never run at once, and after a *)
(* Stop has returned the consumer is cancelled and no loop runs, now or    *)
(* later.                                                                  *)
LifecycleGuarantee ==
    /\ \A s, r \in running : s = r
    /\ stopped => cancelled /\ running = {}

\* The contract keeps its guarantee, for every set of callers.
THEOREM LifecycleContractSafety == Spec => []LifecycleGuarantee
<1>1. Init => LifecycleGuarantee
  BY DEF Init, LifecycleGuarantee
<1>2. LifecycleGuarantee /\ [Next]_vars => LifecycleGuarantee'
  <2> SUFFICES ASSUME LifecycleGuarantee, [Next]_vars PROVE LifecycleGuarantee'
    OBVIOUS
  <2>1. CASE Cancel
    BY <2>1 DEF Cancel, LifecycleGuarantee
  <2>2. ASSUME NEW s \in Callers, Enter(s) PROVE LifecycleGuarantee'
    BY <2>2 DEF Enter, LifecycleGuarantee
  <2>3. ASSUME NEW s \in Callers, Leave(s) PROVE LifecycleGuarantee'
    BY <2>3 DEF Leave, LifecycleGuarantee
  <2>4. CASE StopReturn
    BY <2>4 DEF StopReturn, LifecycleGuarantee
  <2>5. CASE UNCHANGED vars
    BY <2>5 DEF vars, LifecycleGuarantee
  <2>6. QED
    BY <2>1, <2>2, <2>3, <2>4, <2>5 DEF Next
<1>3. QED
  BY <1>1, <1>2, PTL DEF Spec

=============================================================================
