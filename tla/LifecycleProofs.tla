---------------------------- MODULE LifecycleProofs ----------------------------
(***************************************************************************)
(* Proofs about the goroutines around one consumer (module                 *)
(* ConsumerLifecycle), for any sets of Start callers, Stop callers and     *)
(* resume goroutines: the type invariant, and that a returned Stop leaves  *)
(* no event loop running (StopJoins).  Both rest on who holds c.mu: a      *)
(* Start call from its Lock to its deferred Unlock, a Stop call from its   *)
(* Lock to its deferred Unlock after wg.Wait, and c.wg counts exactly the  *)
(* Start call that holds the mutex.                                        *)
(***************************************************************************)
EXTENDS ConsumerLifecycle, TLAPS

\* The labels of a Start call between c.mu.Lock() and its deferred Unlock.
Held == {"subscribe", "loop", "cbLock", "defers"}

LInv ==
    /\ TypeOK
    /\ \A s \in StartCallers : mu = s <=> spc[s] \in Held
    /\ \A t \in StopCallers : mu = t <=> tpc[t] = "wait"
    /\ wg = IF mu \in StartCallers THEN 1 ELSE 0
    /\ \A t \in StopCallers : tpc[t] # "idle" => ctxDone
    /\ StopJoins

LEMMA LInvInit == Init => LInv
<1> USE LifecycleAssumption
<1> SUFFICES ASSUME Init PROVE LInv
  OBVIOUS
<1>1. notified \in Seq({"Run", "Closed"})
  BY DEF Init
<1>2. QED
  BY <1>1 DEF Init, LInv, TypeOK, StartLabels, Held, StopJoins
LEMMA LInvStep == LInv /\ [Next]_vars => LInv'
<1> USE LifecycleAssumption
<1> SUFFICES ASSUME LInv, [Next]_vars PROVE LInv'
  OBVIOUS
<1> USE DEF LInv
<1>1. ASSUME NEW s \in StartCallers, CallStart(s) PROVE LInv'
  BY <1>1 DEF CallStart, TypeOK, StartLabels, Held, StopJoins
<1>2. ASSUME NEW s \in StartCallers, StartLock(s) PROVE LInv'
  <2>1. mu = None /\ wg = 0 /\ \A x \in StartCallers : spc[x] \notin Held
    BY <1>2 DEF StartLock, TypeOK
  <2>2. \A t \in StopCallers : tpc[t] # "wait"
    BY <1>2 DEF StartLock
  <2>3. notified' \in Seq({"Run", "Closed"})
    BY <1>2 DEF StartLock, TypeOK
  <2>4. ~ctxDone => \A t \in StopCallers : tpc[t] # "done"
    BY DEF TypeOK
  <2>5. QED
    BY <1>2, <2>1, <2>2, <2>3, <2>4 DEF StartLock, TypeOK, StartLabels, Held, StopJoins
<1>3. ASSUME NEW s \in StartCallers, Subscribe(s) PROVE LInv'
  BY <1>3 DEF Subscribe, TypeOK, StartLabels, Held, StopJoins
<1>4. ASSUME NEW s \in StartCallers, NEW cause \in {"ctx", "error", "panic"},
             LoopReturn(s, cause)
      PROVE LInv'
  BY <1>4 DEF LoopReturn, TypeOK, StartLabels, Held, StopJoins
<1>5. ASSUME NEW s \in StartCallers, NEW g \in Sleepers, LoopSleep(s, g) PROVE LInv'
  BY <1>5 DEF LoopSleep, TypeOK, StartLabels, Held, StopJoins
<1>6. ASSUME NEW s \in StartCallers, StartDefers(s) PROVE LInv'
  <2>1. mu = s /\ wg = 1
    BY <1>6 DEF StartDefers, Held
  <2>2. \A x \in StartCallers \ {s} : spc[x] \notin Held
    BY <2>1
  <2>3. \A t \in StopCallers : tpc[t] # "wait"
    BY <2>1
  <2>4. QED
    BY <1>6, <2>1, <2>2, <2>3 DEF StartDefers, TypeOK, StartLabels, Held, StopJoins
<1>7. ASSUME NEW s \in StartCallers, StartNotifyClosed(s) PROVE LInv'
  <2>1. notified' \in Seq({"Run", "Closed"})
    BY <1>7 DEF StartNotifyClosed, TypeOK
  <2>2. QED
    BY <1>7, <2>1 DEF StartNotifyClosed, TypeOK, StartLabels, Held, StopJoins
<1>8. ASSUME NEW t \in StopCallers, StopCancel(t) PROVE LInv'
  BY <1>8 DEF StopCancel, TypeOK, StopJoins
<1>9. ASSUME NEW t \in StopCallers, StopLock(t) PROVE LInv'
  <2>1. mu = None /\ wg = 0 /\ \A x \in StartCallers : spc[x] \notin Held
    BY <1>9 DEF StopLock, TypeOK
  <2>2. \A x \in StopCallers : tpc[x] # "wait"
    BY <1>9 DEF StopLock
  <2>3. QED
    BY <1>9, <2>1, <2>2 DEF StopLock, TypeOK, StopJoins
(* The step StopJoins is about: wg.Wait() passes only when no Start call   *)
(* holds the mutex, and this Stop call holds it, so no loop runs.          *)
<1>10. ASSUME NEW t \in StopCallers, StopWait(t) PROVE LInv'
  <2>1. mu = t /\ mu \notin StartCallers
    BY <1>10 DEF StopWait
  <2>2. \A s \in StartCallers : spc[s] \notin Held
    BY <2>1
  <2>3. \A x \in StopCallers \ {t} : tpc[x] # "wait"
    BY <2>1
  <2>4. QED
    BY <1>10, <2>1, <2>2, <2>3 DEF StopWait, TypeOK, Held, StopJoins
<1>11. ASSUME NEW g \in Sleepers, SleeperWake(g) \/ SleeperResume(g) \/ SleeperMetadata(g)
       PROVE LInv'
  BY <1>11 DEF SleeperWake, SleeperResume, SleeperMetadata, TypeOK, StopJoins
<1>12. CASE UNCHANGED vars
  BY <1>12 DEF vars, TypeOK, StopJoins
<1>13. QED
  BY <1>1, <1>2, <1>3, <1>4, <1>5, <1>6, <1>7, <1>8, <1>9, <1>10, <1>11, <1>12
     DEF Next, StartSteps, LoopCtxDone, LoopFails

(* Spec invariant 4, for any number of Start and Stop callers and resume   *)
(* goroutines: once a Stop call has returned, no Start call of the         *)
(* consumer is subscribing or in its event loop, and none will be, since   *)
(* Stop cancelled the context before it waited.                            *)
THEOREM StopJoinsThm == Spec => []StopJoins
<1>1. LInv => StopJoins
  BY DEF LInv
<1>2. QED
  BY LInvInit, LInvStep, <1>1, PTL DEF Spec

(* The type invariant, for every value of the constants: in particular the *)
(* deferred c.wg.Done() never takes c.wg below zero.                       *)
THEOREM LifecycleTypeCorrect == Spec => []TypeOK
<1>1. LInv => TypeOK
  BY DEF LInv
<1>2. QED
  BY LInvInit, LInvStep, <1>1, PTL DEF Spec

-----------------------------------------------------------------------------
(* The refinement of LifecycleContract.  Each step of a goroutine is a     *)
(* step of the contract or leaves the mapped state alone.                  *)

\* A step that changes none of the mapped state.
LEMMA LStutter ==
  ASSUME UNCHANGED <<ctxDone, spc, tpc>>
  PROVE  UNCHANGED LContract!vars
  BY DEF LContract!vars, Running, StopReturned

LEMMA LRefineStep == LInv /\ [Next]_vars => [LContract!Next]_LContract!vars
<1> USE LifecycleAssumption
<1> SUFFICES ASSUME LInv, [Next]_vars PROVE [LContract!Next]_LContract!vars
  OBVIOUS
<1> USE DEF LInv
<1>0. spc \in [StartCallers -> StartLabels] /\ tpc \in [StopCallers -> {"idle", "lock", "wait", "done"}]
  BY DEF TypeOK
<1>1. ASSUME NEW s \in StartCallers, CallStart(s) PROVE [LContract!Next]_LContract!vars
  <2>1. Running' = Running
    BY <1>0, <1>1 DEF CallStart, Running
  <2>2. QED
    BY <1>1, <2>1 DEF CallStart, LContract!vars, StopReturned
(* c.mu.Lock() then the ctx check: the loop starts only on a live consumer *)
(* and only while no other Start call holds the mutex.                     *)
<1>2. ASSUME NEW s \in StartCallers, StartLock(s) PROVE [LContract!Next]_LContract!vars
  <2>1. Running = {}
    BY <1>2 DEF StartLock, Running, Held
  <2>2. CASE ctxDone
    <3>1. Running' = Running
      BY <1>0, <1>2, <2>1, <2>2 DEF StartLock, Running
    <3>2. QED
      BY <1>2, <3>1 DEF StartLock, LContract!vars, StopReturned
  <2>3. CASE ~ctxDone
    <3>1. Running' = {s}
      BY <1>0, <1>2, <2>1, <2>3 DEF StartLock, Running
    <3>2. LContract!Enter(s)
      BY <1>2, <2>1, <2>3, <3>1 DEF StartLock, LContract!Enter, StopReturned
    <3>3. QED
      BY <3>2 DEF LContract!Next
  <2>4. QED
    BY <2>2, <2>3
<1>3. ASSUME NEW s \in StartCallers, Subscribe(s) PROVE [LContract!Next]_LContract!vars
  <2>1. CASE spc' = [spc EXCEPT ![s] = "defers"]
    <3>1. Running' = Running \ {s} /\ s \in Running
      BY <1>0, <1>3, <2>1 DEF Subscribe, Running
    <3>2. LContract!Leave(s)
      BY <1>3, <3>1 DEF Subscribe, LContract!Leave, StopReturned
    <3>3. QED
      BY <3>2 DEF LContract!Next
  <2>2. CASE spc' = [spc EXCEPT ![s] = "loop"]
    <3>1. Running' = Running
      BY <1>0, <1>3, <2>2 DEF Subscribe, Running
    <3>2. QED
      BY <1>3, <3>1 DEF Subscribe, LContract!vars, StopReturned
  <2>3. QED
    BY <1>3, <2>1, <2>2 DEF Subscribe
<1>4. ASSUME NEW s \in StartCallers, NEW cause \in {"ctx", "error", "panic"},
             LoopReturn(s, cause)
      PROVE [LContract!Next]_LContract!vars
  <2>1. Running' = Running \ {s} /\ s \in Running
    BY <1>0, <1>4 DEF LoopReturn, Running
  <2>2. LContract!Leave(s)
    BY <1>4, <2>1 DEF LoopReturn, LContract!Leave, StopReturned
  <2>3. QED
    BY <2>2 DEF LContract!Next
<1>5. ASSUME NEW s \in StartCallers, NEW g \in Sleepers, LoopSleep(s, g)
      PROVE [LContract!Next]_LContract!vars
  BY <1>5, LStutter DEF LoopSleep
<1>6. ASSUME NEW s \in StartCallers, StartDefers(s) PROVE [LContract!Next]_LContract!vars
  <2>1. Running' = Running
    BY <1>0, <1>6 DEF StartDefers, Running
  <2>2. LContract!Cancel \/ UNCHANGED LContract!vars
    BY <1>6, <2>1 DEF StartDefers, LContract!Cancel, LContract!vars, StopReturned
  <2>3. QED
    BY <2>2 DEF LContract!Next
<1>7. ASSUME NEW s \in StartCallers, StartNotifyClosed(s) PROVE [LContract!Next]_LContract!vars
  <2>1. Running' = Running
    BY <1>0, <1>7 DEF StartNotifyClosed, Running
  <2>2. QED
    BY <1>7, <2>1 DEF StartNotifyClosed, LContract!vars, StopReturned
<1>8. ASSUME NEW t \in StopCallers, StopCancel(t) PROVE [LContract!Next]_LContract!vars
  <2>1. StopReturned' = StopReturned
    BY <1>0, <1>8 DEF StopCancel, StopReturned
  <2>2. LContract!Cancel \/ UNCHANGED LContract!vars
    BY <1>8, <2>1 DEF StopCancel, LContract!Cancel, LContract!vars, Running
  <2>3. QED
    BY <2>2 DEF LContract!Next
<1>9. ASSUME NEW t \in StopCallers, StopLock(t) PROVE [LContract!Next]_LContract!vars
  <2>1. StopReturned' = StopReturned
    BY <1>0, <1>9 DEF StopLock, StopReturned
  <2>2. QED
    BY <1>9, <2>1 DEF StopLock, LContract!vars, Running
(* wg.Wait() passes with this Stop call holding c.mu after its cancel: the *)
(* consumer is cancelled and no Start call is in its loop.                 *)
<1>10. ASSUME NEW t \in StopCallers, StopWait(t) PROVE [LContract!Next]_LContract!vars
  <2>1. ctxDone /\ Running = {}
    BY <1>10 DEF StopWait, Running, Held
  <2>2. StopReturned'
    BY <1>0, <1>10 DEF StopWait, StopReturned
  <2>3. LContract!StopReturn
    BY <1>10, <2>1, <2>2 DEF StopWait, LContract!StopReturn, Running
  <2>4. QED
    BY <2>3 DEF LContract!Next
<1>11. ASSUME NEW g \in Sleepers, SleeperWake(g) \/ SleeperResume(g) \/ SleeperMetadata(g)
       PROVE [LContract!Next]_LContract!vars
  BY <1>11, LStutter DEF SleeperWake, SleeperResume, SleeperMetadata
<1>12. CASE UNCHANGED vars
  BY <1>12, LStutter DEF vars
<1>13. QED
  BY <1>1, <1>2, <1>3, <1>4, <1>5, <1>6, <1>7, <1>8, <1>9, <1>10, <1>11, <1>12
     DEF Next, StartSteps, LoopCtxDone, LoopFails

(* Start and Stop implement the lifecycle contract for any sets of         *)
(* callers: the loops of a double Start never overlap, none starts after   *)
(* cancellation, and Stop returns only with the consumer cancelled and no  *)
(* loop running.                                                           *)
THEOREM LifecycleRefinement == Spec => LifecycleContractSpec
<1>1. Init => LContract!Init
  BY DEF Init, LContract!Init, Running, StopReturned
<1>2. QED
  BY LInvInit, LInvStep, LRefineStep, <1>1, PTL DEF Spec, LifecycleContractSpec, LContract!Spec

=============================================================================
