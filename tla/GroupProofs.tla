----------------------------- MODULE GroupProofs -----------------------------
(***************************************************************************)
(* Proofs about the worker group of module Group, for every number N of    *)
(* workers: its type invariant, which needs g.wg to be the number of live  *)
(* workers (a deferred g.wg.Done() never takes it below zero), and that    *)
(* Group.Start stops every launched consumer before it returns.            *)
(***************************************************************************)
EXTENDS Group, FiniteSets, FiniteSetTheorems, TLAPS

\* A worker goroutine is counted in g.wg from g.wg.Add(1) to its g.wg.Done().
Live == {"call", "running", "send"}

LiveSet == {i \in Workers : kpc[i] \in Live}

\* Consumer.Stop of i has taken effect: cancelled, and no loop of it runs.
Stopped(i) == cctx[i] /\ kpc[i] # "running"

(* The inductive invariant.  g.wg counts the live workers; the deferred    *)
(* stop loop has stopped every consumer before the one it is at; before    *)
(* the spawn loop has passed a consumer, that consumer is not launched.    *)
GInv ==
    /\ TypeOK
    /\ gwg = Cardinality(LiveSet)
    /\ spc \in {"idle", "wait", "check", "recv"} => sidx = 1
    /\ spc \in {"idle", "wait", "check"} => \A i \in Workers : kpc[i] = "unspawned"
    /\ spc = "spawn" => \A i \in sidx .. N : kpc[i] = "unspawned"
    /\ spc \in {"stopCancel", "stopJoin"} => \A i \in 1 .. sidx - 1 : Stopped(i)
    /\ spc = "stopJoin" => cctx[sidx]
    /\ spc = "done" => \A i \in Workers : kpc[i] # "unspawned" => Stopped(i)

LEMMA LiveFinite == IsFiniteSet(LiveSet)
<1>1. IsFiniteSet(Workers)
  BY WorkersAssumption, FS_Interval DEF Workers
<1>2. QED
  BY <1>1, FS_Subset DEF LiveSet

LEMMA GInvInit == Init => GInv
<1> SUFFICES ASSUME Init PROVE GInv
  OBVIOUS
<1>1. LiveSet = {}
  BY DEF Init, LiveSet, Live
<1>2. gwg = Cardinality(LiveSet)
  BY <1>1, FS_EmptySet DEF Init
<1>3. TypeOK
  <2>1. retval \in Seq({"nil", "worker"})
    BY DEF Init
  <2>2. sidx \in Workers
    BY WorkersAssumption DEF Init, Workers
  <2>3. QED
    BY <2>1, <2>2 DEF Init, TypeOK
<1>4. QED
  BY <1>2, <1>3 DEF Init, GInv
(* g.wg.Add(1) of the spawn loop launches a worker that was not counted.   *)
LEMMA LiveAdd ==
  ASSUME TypeOK, NEW j \in Workers, kpc[j] = "unspawned",
         kpc' = [kpc EXCEPT ![j] = "call"]
  PROVE  Cardinality(LiveSet') = Cardinality(LiveSet) + 1
<1>1. LiveSet' = LiveSet \cup {j} /\ j \notin LiveSet
  BY DEF LiveSet, Live, TypeOK
<1>2. QED
  BY <1>1, LiveFinite, FS_AddElement

(* The deferred g.wg.Done() after a worker's send: the worker was counted, *)
(* so the count is positive and drops by one.                              *)
LEMMA LiveRemove ==
  ASSUME TypeOK, NEW j \in Workers, kpc[j] = "send",
         kpc' = [kpc EXCEPT ![j] = "done"]
  PROVE  /\ Cardinality(LiveSet') = Cardinality(LiveSet) - 1
         /\ Cardinality(LiveSet) - 1 \in Nat
<1>1. LiveSet' = LiveSet \ {j} /\ j \in LiveSet
  BY DEF LiveSet, Live, TypeOK
<1>2. IsFiniteSet(LiveSet \ {j})
  BY LiveFinite, FS_RemoveElement
<1>3. QED
  BY <1>1, <1>2, LiveFinite, FS_RemoveElement, FS_CardinalityType

(* A worker moving between live labels leaves the count alone.             *)
LEMMA LiveKeep ==
  ASSUME TypeOK, NEW j \in Workers, kpc[j] \in Live, NEW v \in Live,
         kpc' = [kpc EXCEPT ![j] = v]
  PROVE  LiveSet' = LiveSet
  BY DEF LiveSet, Live, TypeOK

\* The conjuncts of GInv that relate the deferred stop loop to the workers.
StopLoop ==
    /\ spc \in {"idle", "wait", "check", "recv"} => sidx = 1
    /\ spc \in {"idle", "wait", "check"} => \A i \in Workers : kpc[i] = "unspawned"
    /\ spc = "spawn" => \A i \in sidx .. N : kpc[i] = "unspawned"
    /\ spc \in {"stopCancel", "stopJoin"} => \A i \in 1 .. sidx - 1 : Stopped(i)
    /\ spc = "stopJoin" => cctx[sidx]
    /\ spc = "done" => \A i \in Workers : kpc[i] # "unspawned" => Stopped(i)

(* A step of worker i that keeps it launched, never makes it running once  *)
(* its context is cancelled, and changes nothing the Start call reads.     *)
LEMMA WorkerKeepsStopLoop ==
  ASSUME TypeOK, StopLoop, NEW j \in Workers,
         kpc[j] # "unspawned", kpc'[j] # "unspawned",
         kpc'[j] = "running" => kpc[j] = "running" \/ ~cctx[j],
         kpc[j] = "running" => ~Stopped(j),
         kpc' = [kpc EXCEPT ![j] = kpc'[j]],
         UNCHANGED <<spc, sidx, cctx>>
  PROVE  StopLoop'
<1>1. \A i \in Workers : Stopped(i) => Stopped(i)'
  BY DEF Stopped, TypeOK
<1>2. \A i \in Workers : kpc'[i] = "unspawned" <=> kpc[i] = "unspawned"
  BY DEF TypeOK
<1>3. spc \notin {"idle", "wait", "check"}
  BY DEF StopLoop
<1>4. (spc = "spawn" => \A i \in sidx .. N : kpc[i] = "unspawned") => 
      (spc = "spawn" => \A i \in sidx .. N : kpc'[i] = "unspawned")
  BY <1>2, WorkersAssumption DEF TypeOK, Workers
<1>5. QED
  BY <1>1, <1>2, <1>3, <1>4, WorkersAssumption DEF StopLoop, TypeOK, Workers

LEMMA GInvStep == GInv /\ [Next]_vars => GInv'
<1> SUFFICES ASSUME TypeOK, gwg = Cardinality(LiveSet), StopLoop, [Next]_vars
             PROVE  TypeOK' /\ gwg' = Cardinality(LiveSet') /\ StopLoop'
  BY DEF GInv, StopLoop
<1> USE WorkersAssumption
<1>1. CASE CallStart
  BY <1>1 DEF CallStart, TypeOK, StopLoop, LiveSet, Stopped
<1>2. CASE StartWait
  BY <1>2 DEF StartWait, TypeOK, StopLoop, LiveSet, Stopped
<1>3. CASE StartCheck
  <2>1. CASE gctx
    BY <1>3, <2>1 DEF StartCheck, TypeOK, StopLoop, LiveSet, Stopped
  <2>2. CASE ~gctx
    BY <1>3, <2>2 DEF StartCheck, TypeOK, StopLoop, LiveSet, Stopped, Workers
  <2>3. QED
    BY <2>1, <2>2
<1>4. CASE StartSpawn
  <2>1. kpc[sidx] = "unspawned" /\ sidx \in Workers
    BY <1>4 DEF StartSpawn, StopLoop, TypeOK, Workers
  <2>2. gwg' = Cardinality(LiveSet')
    BY <1>4, <2>1, LiveAdd DEF StartSpawn
  <2>3. TypeOK'
    BY <1>4, <2>1 DEF StartSpawn, TypeOK, Workers
  <2>4. StopLoop'
    BY <1>4, <2>1 DEF StartSpawn, StopLoop, TypeOK, Workers
  <2>5. QED
    BY <2>2, <2>3, <2>4
<1>5. CASE StartRecv
  <2>1. sidx = 1
    BY <1>5 DEF StartRecv, StopLoop
  <2>2. StopLoop'
    BY <1>5, <2>1 DEF StartRecv, StopLoop
  <2>3. CASE retval # <<>> /\ gresult' = Head(retval) /\ retval' = Tail(retval)
             /\ UNCHANGED <<gwg, wpc, kpc>>
    BY <1>5, <2>2, <2>3 DEF StartRecv, TypeOK, LiveSet
  <2>4. ASSUME NEW i \in Workers, Sender(i), gresult' = "worker", WorkerSent(i),
               UNCHANGED <<retval, wpc>>
        PROVE  TypeOK' /\ gwg' = Cardinality(LiveSet') /\ StopLoop'
    <3>1. Cardinality(LiveSet') = Cardinality(LiveSet) - 1
          /\ Cardinality(LiveSet) - 1 \in Nat
      BY <2>4, LiveRemove DEF Sender, WorkerSent
    <3>2. QED
      BY <1>5, <2>2, <2>4, <3>1 DEF StartRecv, WorkerSent, TypeOK
  <2>5. CASE /\ retval = <<>> /\ WatcherSending /\ gresult' = "nil"
             /\ wpc' = "done" /\ UNCHANGED <<gwg, kpc, retval>>
    BY <1>5, <2>2, <2>5 DEF StartRecv, TypeOK, LiveSet
  <2>6. QED
    BY <1>5, <2>3, <2>4, <2>5 DEF StartRecv
<1>6. CASE StartStopCancel
  BY <1>6 DEF StartStopCancel, TypeOK, StopLoop, LiveSet, Stopped, Workers
<1>7. CASE StartStopJoin
  <2>1. Stopped(sidx) /\ \A i \in 1 .. sidx - 1 : Stopped(i)
    BY <1>7 DEF StartStopJoin, StopLoop, Stopped
  <2>2. \A i \in 1 .. sidx : Stopped(i)'
    BY <1>7, <2>1 DEF StartStopJoin, Stopped, TypeOK, Workers
  <2>3. StopLoop'
    BY <1>7, <2>2 DEF StartStopJoin, StopLoop, TypeOK, Workers
  <2>4. QED
    BY <1>7, <2>3 DEF StartStopJoin, TypeOK, LiveSet, Workers
<1>8. CASE StopCancel
  BY <1>8 DEF StopCancel, TypeOK, StopLoop, LiveSet, Stopped
<1>15. CASE StopWait
  BY <1>15 DEF StopWait, TypeOK, StopLoop, LiveSet, Stopped
<1>9. CASE WatcherSend
  BY <1>9 DEF WatcherSend, TypeOK, StopLoop, LiveSet, Stopped
<1>10. ASSUME NEW i \in Workers, WorkerStart(i)
       PROVE  TypeOK' /\ gwg' = Cardinality(LiveSet') /\ StopLoop'
  <2>1. \E v \in Live : kpc' = [kpc EXCEPT ![i] = v] /\ (v = "running" => ~cctx[i])
    BY <1>10 DEF WorkerStart, Live
  <2>2. LiveSet' = LiveSet
    BY <2>1, <1>10, LiveKeep DEF WorkerStart, Live
  <2>3. StopLoop'
    BY <1>10, <2>1, WorkerKeepsStopLoop DEF WorkerStart, TypeOK, Live
  <2>4. QED
    BY <1>10, <2>1, <2>2, <2>3 DEF WorkerStart, TypeOK, Live
<1>11. ASSUME NEW i \in Workers, WorkerLoopEnd(i)
       PROVE  TypeOK' /\ gwg' = Cardinality(LiveSet') /\ StopLoop'
  <2>1. ~Stopped(i)
    BY <1>11 DEF WorkerLoopEnd, Stopped
  <2>2. LiveSet' = LiveSet
    BY <1>11, LiveKeep DEF WorkerLoopEnd, Live
  <2>3. StopLoop'
    BY <1>11, <2>1, WorkerKeepsStopLoop DEF WorkerLoopEnd, TypeOK
  <2>4. QED
    BY <1>11, <2>2, <2>3 DEF WorkerLoopEnd, TypeOK
<1>12. ASSUME NEW i \in Workers, WorkerSend(i)
       PROVE  TypeOK' /\ gwg' = Cardinality(LiveSet') /\ StopLoop'
  <2>1. Cardinality(LiveSet') = Cardinality(LiveSet) - 1
        /\ Cardinality(LiveSet) - 1 \in Nat
    BY <1>12, LiveRemove DEF WorkerSend, Sender, WorkerSent
  <2>2. StopLoop'
    BY <1>12, WorkerKeepsStopLoop DEF WorkerSend, Sender, WorkerSent, TypeOK
  <2>3. QED
    BY <1>12, <2>1, <2>2 DEF WorkerSend, WorkerSent, Sender, TypeOK
<1>13. CASE UNCHANGED vars
  BY <1>13 DEF vars, TypeOK, StopLoop, LiveSet, Stopped
<1>14. QED
  BY <1>1, <1>2, <1>3, <1>4, <1>5, <1>6, <1>7, <1>8, <1>9, <1>10, <1>11, <1>12, <1>13, <1>15
     DEF Next, StartSteps, WorkerSteps

(* The type invariant of the group, for every number of workers: in        *)
(* particular the deferred g.wg.Done() of a worker never takes g.wg below  *)
(* zero, because g.wg.Add(1) ran before that worker was launched.          *)
THEOREM GroupTypeCorrect == Spec => []TypeOK
<1>1. GInv => TypeOK
  BY DEF GInv
<1>2. QED
  BY GInvInit, GInvStep, <1>1, PTL DEF Spec

(* Spec 4.3, for every number of workers: whatever Group.Start returns, by *)
(* then its deferred loop has cancelled every launched consumer and waited *)
(* on its mutex, so no event loop of it runs, now or later; a worker whose *)
(* Consumer.Start comes after its Stop finds the context cancelled.        *)
THEOREM StopsBeforeReturn == Spec => []StoppedBeforeReturn
<1>1. GInv => StoppedBeforeReturn
  BY DEF GInv, StoppedBeforeReturn, Stopped
<1>2. QED
  BY GInvInit, GInvStep, <1>1, PTL DEF Spec

-----------------------------------------------------------------------------
(* The room in retval.  The senders that may still send are the live       *)
(* workers, the workers the spawn loop may still launch, and the watcher   *)
(* until it has sent (or, before StartCheck, may still be spawned).  Each  *)
(* of them, the values already buffered, and the value Start has taken    *)
(* once it has received, fit in the N+1 slots of retval together.          *)
Pending ==
    {i \in Workers : kpc[i] \in Live
                     \/ (kpc[i] = "unspawned" /\ spc \in {"idle", "wait", "check", "spawn"})}

WatcherPending ==
    wpc = "wait" \/ (wpc = "unspawned" /\ spc \in {"idle", "wait", "check"})

Received == spc \in {"stopCancel", "stopJoin", "done"}

WatcherSlot == IF WatcherPending THEN 1 ELSE 0

ReceivedSlot == IF Received THEN 1 ELSE 0

Room == Len(retval) + Cardinality(Pending) + WatcherSlot + ReceivedSlot <= RetvalCap

\* Before StartCheck, no watcher is spawned and retval is not yet made.
Fresh == spc \in {"idle", "wait", "check"} => wpc = "unspawned" /\ retval = <<>>

\* The inductive invariant behind SendNeverBlocks.
SInv == GInv /\ Fresh /\ Room

LEMMA WorkersSubsetFinite ==
  ASSUME NEW S \in SUBSET Workers
  PROVE  IsFiniteSet(S) /\ Cardinality(S) \in Nat /\ Cardinality(S) <= N
<1>1. IsFiniteSet(Workers) /\ Cardinality(Workers) = N
  BY WorkersAssumption, FS_Interval DEF Workers
<1>2. QED
  BY <1>1, FS_Subset, FS_CardinalityType

LEMMA SInvInit == Init => SInv
<1> SUFFICES ASSUME Init PROVE Fresh /\ Room
  BY GInvInit DEF SInv
<1>1. Pending = Workers
  BY DEF Init, Pending
<1>2. Cardinality(Pending) = N
  BY <1>1, WorkersAssumption, FS_Interval DEF Workers
<1>3. QED
  BY <1>2, WorkersAssumption DEF Init, Fresh, Room, WatcherSlot, WatcherPending,
     ReceivedSlot, Received, RetvalCap

(* A step that leaves the pending senders, the watcher's slot and the      *)
(* received slot alone, and retval too, keeps the room.                    *)
LEMMA RoomKeep ==
  ASSUME Room, Pending' = Pending, WatcherSlot' = WatcherSlot,
         ReceivedSlot' = ReceivedSlot, retval' = retval
  PROVE  Room'
  BY DEF Room

LEMMA SInvStep == SInv /\ [Next]_vars => SInv'
<1> SUFFICES ASSUME GInv, Fresh, Room, [Next]_vars PROVE Fresh' /\ Room'
  BY GInvStep DEF SInv
<1> USE WorkersAssumption
<1>0. TypeOK /\ StopLoop
  BY DEF GInv, StopLoop
<1>p. Pending \in SUBSET Workers /\ Pending' \in SUBSET Workers
  BY DEF Pending
<1>c. /\ IsFiniteSet(Pending) /\ Cardinality(Pending) \in Nat
      /\ IsFiniteSet(Pending') /\ Cardinality(Pending') \in Nat
  BY <1>p, WorkersSubsetFinite
<1>l. Len(retval) \in Nat
  BY <1>0 DEF TypeOK
<1>s. /\ WatcherSlot \in {0, 1} /\ WatcherSlot' \in {0, 1}
      /\ ReceivedSlot \in {0, 1} /\ ReceivedSlot' \in {0, 1}
  BY DEF WatcherSlot, ReceivedSlot
<1>1. CASE CallStart \/ StartWait
  <2>1. Pending' = Pending /\ WatcherSlot' = WatcherSlot /\ ReceivedSlot' = ReceivedSlot
    BY <1>1 DEF CallStart, StartWait, Pending, WatcherSlot, WatcherPending,
       ReceivedSlot, Received
  <2>2. QED
    BY <1>1, <2>1, RoomKeep DEF CallStart, StartWait, Fresh
<1>2. CASE StartCheck
  <2>1. Pending = Workers /\ Cardinality(Pending) = N
    <3>1. \A i \in Workers : kpc[i] = "unspawned"
      BY <1>0, <1>2 DEF StartCheck, StopLoop
    <3>2. Pending = Workers
      BY <1>2, <3>1 DEF StartCheck, Pending
    <3>3. QED
      BY <3>2, FS_Interval DEF Workers
  <2>2. retval = <<>> /\ wpc = "unspawned"
    BY <1>2 DEF StartCheck, Fresh
  <2>3. CASE gctx
    <3>1. Pending' = {}
      BY <1>0, <1>2, <2>3 DEF StartCheck, StopLoop, Pending, Live
    <3>2. Room'
      BY <1>2, <2>2, <2>3, <3>1, FS_EmptySet
         DEF StartCheck, Room, WatcherSlot, WatcherPending, ReceivedSlot, Received, RetvalCap
    <3>3. QED
      BY <1>2, <2>3, <3>2 DEF StartCheck, Fresh
  <2>4. CASE ~gctx
    <3>1. Pending' = Pending
      BY <1>2, <2>4 DEF StartCheck, Pending
    <3>2. Room'
      BY <1>2, <2>1, <2>4, <3>1
         DEF StartCheck, Room, WatcherSlot, WatcherPending, ReceivedSlot, Received, RetvalCap
    <3>3. QED
      BY <1>2, <2>4, <3>2 DEF StartCheck, Fresh
  <2>5. QED
    BY <2>3, <2>4
<1>3. CASE StartSpawn
  <2>1. kpc[sidx] = "unspawned" /\ sidx \in Workers
    BY <1>0, <1>3 DEF StartSpawn, StopLoop, TypeOK, Workers
  <2>2. Pending' \subseteq Pending
    BY <1>0, <1>3, <2>1 DEF StartSpawn, Pending, Live, TypeOK
  <2>3. Cardinality(Pending') <= Cardinality(Pending)
    BY <1>c, <2>2, FS_Subset
  <2>4. WatcherSlot' = WatcherSlot /\ ReceivedSlot' = ReceivedSlot
    BY <1>3 DEF StartSpawn, WatcherSlot, WatcherPending, ReceivedSlot, Received
  <2>5. Fresh'
    BY <1>3 DEF StartSpawn, Fresh
  <2>6. Room'
    BY <1>3, <1>c, <1>l, <1>s, <2>3, <2>4 DEF StartSpawn, Room, RetvalCap
  <2>7. QED
    BY <2>5, <2>6
<1>4. CASE StartRecv
  <2>0. ReceivedSlot = 0 /\ ReceivedSlot' = 1 /\ Fresh'
    BY <1>4 DEF StartRecv, ReceivedSlot, Received, Fresh
  <2>1. CASE retval # <<>> /\ retval' = Tail(retval) /\ UNCHANGED <<wpc, kpc>>
    <3>1. Pending' = Pending /\ WatcherSlot' = WatcherSlot
      BY <1>4, <2>1 DEF StartRecv, Pending, WatcherSlot, WatcherPending
    <3>2. Len(retval') = Len(retval) - 1
      BY <1>0, <2>1 DEF TypeOK
    <3>3. QED
      BY <1>c, <1>l, <2>0, <3>1, <3>2 DEF Room, WatcherSlot
  <2>2. ASSUME NEW i \in Workers, Sender(i), WorkerSent(i), UNCHANGED <<retval, wpc>>
        PROVE  Fresh' /\ Room'
    <3>a. Pending' = Pending \ {i} /\ i \in Pending
      BY <1>0, <1>4, <2>2 DEF StartRecv, Pending, Live, Sender, WorkerSent, TypeOK
    <3>b. Cardinality(Pending') = Cardinality(Pending) - 1
      BY <1>c, <3>a, FS_RemoveElement
    <3>c. WatcherSlot' = WatcherSlot
      BY <1>4, <2>2 DEF StartRecv, WatcherSlot, WatcherPending
    <3>d. QED
      BY <1>c, <1>l, <2>0, <2>2, <3>b, <3>c DEF Room, WatcherSlot
  <2>3. CASE WatcherSending /\ wpc' = "done" /\ UNCHANGED <<kpc, retval>>
    <3>a. Pending' = Pending
      BY <1>4, <2>3 DEF StartRecv, Pending
    <3>b. WatcherSlot = 1 /\ WatcherSlot' = 0
      BY <2>3 DEF WatcherSending, WatcherSlot, WatcherPending
    <3>c. QED
      BY <1>c, <1>l, <2>0, <2>3, <3>a, <3>b DEF Room
  <2>4. QED
    BY <1>4, <2>1, <2>2, <2>3 DEF StartRecv
<1>5. CASE StartStopCancel \/ StartStopJoin \/ StopCancel \/ StopWait
  <2>1. Pending' = Pending /\ WatcherSlot' = WatcherSlot /\ ReceivedSlot' = ReceivedSlot
    BY <1>5 DEF StartStopCancel, StartStopJoin, StopCancel, StopWait, Pending,
       WatcherSlot, WatcherPending, ReceivedSlot, Received
  <2>2. QED
    BY <1>5, <2>1, RoomKeep DEF StartStopCancel, StartStopJoin, StopCancel, StopWait, Fresh
<1>6. CASE WatcherSend
  <2>1. Pending' = Pending /\ ReceivedSlot' = ReceivedSlot
    BY <1>6 DEF WatcherSend, Pending, ReceivedSlot, Received
  <2>2. WatcherSlot = 1 /\ WatcherSlot' = 0
    BY <1>6 DEF WatcherSend, WatcherSending, WatcherSlot, WatcherPending
  <2>3. Len(retval') = Len(retval) + 1
    BY <1>0, <1>6 DEF WatcherSend, TypeOK
  <2>4. spc \notin {"idle", "wait", "check"}
    BY <1>6 DEF WatcherSend, WatcherSending, Fresh
  <2>5. QED
    BY <1>6, <1>c, <1>l, <2>1, <2>2, <2>3, <2>4 DEF Room, Fresh, WatcherSend
<1>7. ASSUME NEW i \in Workers, WorkerStart(i) \/ WorkerLoopEnd(i)
      PROVE  Fresh' /\ Room'
  <2>1. Pending' = Pending /\ WatcherSlot' = WatcherSlot /\ ReceivedSlot' = ReceivedSlot
    BY <1>0, <1>7 DEF WorkerStart, WorkerLoopEnd, Pending, Live, TypeOK,
       WatcherSlot, WatcherPending, ReceivedSlot, Received
  <2>2. QED
    BY <1>7, <2>1, RoomKeep DEF WorkerStart, WorkerLoopEnd, Fresh
<1>8. ASSUME NEW i \in Workers, WorkerSend(i)
      PROVE  Fresh' /\ Room'
  <2>1. Pending' = Pending \ {i} /\ i \in Pending
    BY <1>0, <1>8 DEF WorkerSend, Pending, Live, Sender, WorkerSent, TypeOK
  <2>2. Cardinality(Pending') = Cardinality(Pending) - 1
    BY <1>c, <2>1, FS_RemoveElement
  <2>3. WatcherSlot' = WatcherSlot /\ ReceivedSlot' = ReceivedSlot
    BY <1>8 DEF WorkerSend, WatcherSlot, WatcherPending, ReceivedSlot, Received
  <2>4. Len(retval') = Len(retval) + 1
    BY <1>0, <1>8 DEF WorkerSend, TypeOK
  <2>5. spc \notin {"idle", "wait", "check"}
    BY <1>0, <1>8 DEF WorkerSend, Sender, StopLoop
  <2>6. QED
    BY <1>8, <1>c, <1>l, <2>2, <2>3, <2>4, <2>5 DEF Room, Fresh, WorkerSend,
       WatcherSlot, ReceivedSlot
<1>9. CASE UNCHANGED vars
  BY <1>9, RoomKeep DEF vars, Fresh, Pending, WatcherSlot, WatcherPending,
     ReceivedSlot, Received
<1>10. QED
  BY <1>1, <1>2, <1>3, <1>4, <1>5, <1>6, <1>7, <1>8, <1>9
     DEF Next, StartSteps, WorkerSteps

(* The capacity of Group.Start's retval, for every number of workers: a    *)
(* worker's send and the watcher's send of nil always find a free slot, so *)
(* no goroutine of the group ever waits on retval, before Start receives   *)
(* or after it has returned.                                               *)
THEOREM SendNeverBlocksThm == Spec => []SendNeverBlocks
<1>1. SInv => SendNeverBlocks
  <2> SUFFICES ASSUME SInv PROVE SendNeverBlocks
    OBVIOUS
  <2>1. TypeOK /\ IsFiniteSet(Pending) /\ Cardinality(Pending) \in Nat
        /\ Len(retval) \in Nat
    BY WorkersSubsetFinite DEF SInv, GInv, Pending, TypeOK
  <2>2. ASSUME NEW i \in Workers, Sender(i) PROVE Len(retval) < RetvalCap
    <3>1. i \in Pending
      <4>1. kpc[i] \in Live
        BY <2>2 DEF Sender, Live
      <4>2. QED
        BY <4>1 DEF Pending
    <3>2. Cardinality(Pending) >= 1
      <4>1. Pending # {}
        BY <3>1
      <4>2. QED
        BY <2>1, <4>1, FS_EmptySet
    <3>3. QED
      BY <2>1, <3>2, WorkersAssumption DEF SInv, Room, WatcherSlot, ReceivedSlot, RetvalCap
  <2>3. ASSUME WatcherSending PROVE Len(retval) < RetvalCap
    BY <2>1, <2>3, WorkersAssumption DEF SInv, Room, WatcherSlot, WatcherPending, WatcherSending, ReceivedSlot,
       RetvalCap
  <2>4. QED
    BY <2>2, <2>3 DEF SendNeverBlocks
<1>2. QED
  BY SInvInit, SInvStep, <1>1, PTL DEF Spec

=============================================================================
