-------------------------------- MODULE Group --------------------------------
(***************************************************************************)
(* The worker group of src/kafka/consumer/group.go (lines 1-101): one call *)
(* of Group.Start, one call of Group.Stop, the context watcher goroutine   *)
(* that Start spawns, and one worker goroutine per consumer, each running  *)
(* Consumer.Start.  The consumers are in list order 1..N.                  *)
(*                                                                         *)
(* A consumer is abstracted to what the group observes of it (module       *)
(* ConsumerLifecycle has its goroutines in detail): its context, whether   *)
(* its Start holds its mutex inside the event loop, and its reader.        *)
(* Consumer.Stop is its two observable steps: cancel the context, then     *)
(* return once no Start of that consumer holds the mutex.                  *)
(***************************************************************************)
EXTENDS Naturals, Sequences

CONSTANT N   \* cfg.Workers after NewGroup's default (consumers.Len())

ASSUME WorkersAssumption == N \in Nat \ {0}

Workers == 1 .. N

VARIABLES
    gctx,      \* g.ctx has been cancelled
    gwg,       \* counter of g.wg
    retval,    \* contents of the retval channel of the running Start
    spc,       \* label of the Group.Start call
    sidx,      \* the consumer the Start loop (spawn, then deferred Stop) is at
    gresult,   \* what Group.Start returned
    tpc,       \* label of the Group.Stop call
    wpc,       \* label of the ctx watcher goroutine
    kpc,       \* label of each worker goroutine
    cctx,      \* each consumer's context has been cancelled
    readerOpen \* each consumer's reader has not been closed

vars == <<gctx, gwg, retval, spc, sidx, gresult, tpc, wpc, kpc, cctx, readerOpen>>

\* Mutant: an unbuffered channel, make(chan error).
RetvalCapUnbuffered == 0

\* Mutant: make(chan error, g.consumers.Len()), without the watcher's slot.
RetvalCapNoWatcher == N

\* make(chan error, g.consumers.Len()+1)
RetvalCap == N + 1

-----------------------------------------------------------------------------
Init ==
    /\ gctx = FALSE
    /\ gwg = 0
    /\ retval = <<>>
    /\ spc = "idle"
    /\ sidx = 1
    /\ gresult = "none"
    /\ tpc = "idle"
    /\ wpc = "unspawned"
    /\ kpc = [i \in Workers |-> "unspawned"]
    /\ cctx = [i \in Workers |-> FALSE]
    /\ readerOpen = [i \in Workers |-> TRUE]

CallStart ==
    /\ spc = "idle"
    /\ spc' = "wait"
    /\ UNCHANGED <<gctx, gwg, retval, sidx, gresult, tpc, wpc, kpc, cctx, readerOpen>>

\* g.wg.Wait() at the top of Start.
StartWait ==
    /\ spc = "wait"
    /\ gwg = 0
    /\ spc' = "check"
    /\ UNCHANGED <<gctx, gwg, retval, sidx, gresult, tpc, wpc, kpc, cctx, readerOpen>>

(* The ctx check: a closed group returns errors.Wrap(err, ...) of the      *)
(* named result err, which is nil, so Wrap returns nil.  Otherwise the     *)
(* deferred stop loop is installed, retval is made and the watcher is      *)
(* spawned.                                                                *)
StartCheck ==
    /\ spc = "check"
    /\ IF gctx
         THEN /\ spc' = "done"
              /\ gresult' = "nil"
              /\ UNCHANGED <<retval, wpc>>
         ELSE /\ spc' = "spawn"
              /\ retval' = <<>>
              /\ wpc' = "wait"
              /\ UNCHANGED gresult
    /\ UNCHANGED <<gctx, gwg, sidx, tpc, kpc, cctx, readerOpen>>

\* Mutant: the spawn loop without g.wg.Add(1).
StartSpawnNoAdd ==
    /\ spc = "spawn"
    /\ kpc' = [kpc EXCEPT ![sidx] = "call"]
    /\ IF sidx = N
         THEN spc' = "recv" /\ sidx' = 1
         ELSE sidx' = sidx + 1 /\ UNCHANGED spc
    /\ UNCHANGED <<gctx, gwg, retval, gresult, tpc, wpc, cctx, readerOpen>>

\* One iteration of the spawn loop: g.wg.Add(1) and go worker.
StartSpawn ==
    /\ spc = "spawn"
    /\ gwg' = gwg + 1
    /\ kpc' = [kpc EXCEPT ![sidx] = "call"]
    /\ IF sidx = N
         THEN spc' = "recv" /\ sidx' = 1
         ELSE sidx' = sidx + 1 /\ UNCHANGED spc
    /\ UNCHANGED <<gctx, retval, gresult, tpc, wpc, cctx, readerOpen>>

(* A sender blocked on retval: a worker whose Consumer.Start returned, or  *)
(* the watcher once g.ctx is done.                                         *)
Sender(i) == kpc[i] = "send"
WatcherSending == wpc = "wait" /\ gctx

\* A worker's send completes, then its deferred g.wg.Done().
WorkerSent(i) ==
    /\ kpc' = [kpc EXCEPT ![i] = "done"]
    /\ gwg' = gwg - 1

(* return <-retval: the buffered value first, otherwise straight from a    *)
(* blocked sender.                                                         *)
StartRecv ==
    /\ spc = "recv"
    /\ spc' = "stopCancel"
    /\ \/ /\ retval # <<>>
          /\ gresult' = Head(retval)
          /\ retval' = Tail(retval)
          /\ UNCHANGED <<gwg, wpc, kpc>>
       \/ /\ retval = <<>>
          /\ \/ \E i \in Workers :
                   /\ Sender(i)
                   /\ gresult' = "worker"
                   /\ WorkerSent(i)
                   /\ UNCHANGED wpc
             \/ /\ WatcherSending
                /\ gresult' = "nil"
                /\ wpc' = "done"
                /\ UNCHANGED <<gwg, kpc>>
          /\ UNCHANGED retval
    /\ UNCHANGED <<gctx, sidx, tpc, cctx, readerOpen>>

\* The deferred loop calls Consumer.Stop: ctxCancel ...
StartStopCancel ==
    /\ spc = "stopCancel"
    /\ cctx' = [cctx EXCEPT ![sidx] = TRUE]
    /\ spc' = "stopJoin"
    /\ UNCHANGED <<gctx, gwg, retval, sidx, gresult, tpc, wpc, kpc, readerOpen>>

\* Mutant: the deferred loop only cancels and moves on, without joining.
StartStopJoinNoWait ==
    /\ spc = "stopJoin"
    /\ IF sidx = N
         THEN spc' = "done" /\ sidx' = 1
         ELSE spc' = "stopCancel" /\ sidx' = sidx + 1
    /\ UNCHANGED <<gctx, gwg, retval, gresult, tpc, wpc, kpc, cctx, readerOpen>>

\* ... then mu.Lock and wg.Wait return once no Start of it is running.
StartStopJoin ==
    /\ spc = "stopJoin"
    /\ kpc[sidx] # "running"
    /\ IF sidx = N
         THEN spc' = "done" /\ sidx' = 1
         ELSE spc' = "stopCancel" /\ sidx' = sidx + 1
    /\ UNCHANGED <<gctx, gwg, retval, gresult, tpc, wpc, kpc, cctx, readerOpen>>

\* Group.Stop: g.ctxCancel() ...
StopCancel ==
    /\ tpc = "idle"
    /\ gctx' = TRUE
    /\ tpc' = "wait"
    /\ UNCHANGED <<gwg, retval, spc, sidx, gresult, wpc, kpc, cctx, readerOpen>>

\* ... g.wg.Wait().
StopWait ==
    /\ tpc = "wait"
    /\ gwg = 0
    /\ tpc' = "done"
    /\ UNCHANGED <<gctx, gwg, retval, spc, sidx, gresult, wpc, kpc, cctx, readerOpen>>

\* The watcher: <-g.ctx.Done(); retval <- nil (into the buffer).
WatcherSend ==
    /\ WatcherSending
    /\ Len(retval) < RetvalCap
    /\ retval' = Append(retval, "nil")
    /\ wpc' = "done"
    /\ UNCHANGED <<gctx, gwg, spc, sidx, gresult, tpc, kpc, cctx, readerOpen>>

(* The worker calls Consumer.Start: a cancelled consumer returns "already  *)
(* closed" with its reader untouched; SubscribeTopics may fail, also with  *)
(* the reader open; otherwise the loop runs holding the consumer's mutex.  *)
WorkerStart(i) ==
    /\ kpc[i] = "call"
    /\ \/ kpc' = [kpc EXCEPT ![i] = "send"]
       \/ /\ ~cctx[i]
          /\ kpc' = [kpc EXCEPT ![i] = "running"]
    /\ UNCHANGED <<gctx, gwg, retval, spc, sidx, gresult, tpc, wpc, cctx, readerOpen>>

(* The loop returns (on its context, on an error or by a recovered panic); *)
(* listen's defers close the reader and Start's defers release the mutex.  *)
WorkerLoopEnd(i) ==
    /\ kpc[i] = "running"
    /\ kpc' = [kpc EXCEPT ![i] = "send"]
    /\ readerOpen' = [readerOpen EXCEPT ![i] = FALSE]
    /\ UNCHANGED <<gctx, gwg, retval, spc, sidx, gresult, tpc, wpc, cctx>>

WorkerLoopCtxDone(i) == cctx[i] /\ WorkerLoopEnd(i)

\* retval <- worker.Start() into the buffer, then g.wg.Done().
WorkerSend(i) ==
    /\ Sender(i)
    /\ Len(retval) < RetvalCap
    /\ retval' = Append(retval, "worker")
    /\ WorkerSent(i)
    /\ UNCHANGED <<gctx, spc, sidx, gresult, tpc, wpc, cctx, readerOpen>>

StartSteps ==
    \/ StartWait \/ StartCheck \/ StartSpawn \/ StartRecv
    \/ StartStopCancel \/ StartStopJoin

WorkerSteps(i) == WorkerStart(i) \/ WorkerLoopEnd(i) \/ WorkerSend(i)

Next ==
    \/ CallStart \/ StartSteps
    \/ StopCancel \/ StopWait
    \/ WatcherSend
    \/ \E i \in Workers : WorkerSteps(i)

(* Every runnable goroutine runs; a worker loop whose context is cancelled *)
(* returns (its select takes the ready ctx.Done() case eventually).        *)
Fairness ==
    /\ WF_vars(StartSteps)
    /\ WF_vars(StopWait)
    /\ WF_vars(WatcherSend)
    /\ \A i \in Workers :
          /\ WF_vars(WorkerStart(i))
          /\ WF_vars(WorkerLoopCtxDone(i))
          /\ WF_vars(WorkerSend(i))

Spec == Init /\ [][Next]_vars /\ Fairness

-----------------------------------------------------------------------------
TypeOK ==
    /\ gctx \in BOOLEAN
    /\ gwg \in Nat
    /\ retval \in Seq({"nil", "worker"})
    /\ spc \in {"idle", "wait", "check", "spawn", "recv", "stopCancel", "stopJoin", "done"}
    /\ sidx \in Workers
    /\ gresult \in {"none", "nil", "worker"}
    /\ tpc \in {"idle", "wait", "done"}
    /\ wpc \in {"unspawned", "wait", "done"}
    /\ kpc \in [Workers -> {"unspawned", "call", "running", "send", "done"}]
    /\ cctx \in [Workers -> BOOLEAN]
    /\ readerOpen \in [Workers -> BOOLEAN]

(* Spec 4.3: every consumer the Group launched is stopped before Start     *)
(* returns, whatever result it returns: its context is cancelled and no    *)
(* event loop of it runs, now or later.                                    *)
StoppedBeforeReturn ==
    spc = "done" =>
        \A i \in Workers : kpc[i] # "unspawned" => cctx[i] /\ kpc[i] # "running"

(* The capacity comment of Group.Start ("+1 context closed"): retval has  *)
(* a slot for every sender, so no worker's send and no send of the         *)
(* watcher ever waits, whether Start has received yet or not.              *)
SendNeverBlocks ==
    /\ \A i \in Workers : Sender(i) => Len(retval) < RetvalCap
    /\ WatcherSending => Len(retval) < RetvalCap

(* Spec 4.3: with retval of capacity N+1, no worker or watcher blocks on   *)
(* its send for ever, so Group.Stop, which waits for every worker, returns.*)
GroupStopReturns == tpc = "wait" ~> tpc = "done"

(* The ctx watcher is not counted in g.wg, so nothing waits for it: once   *)
(* Group.Stop has cancelled g.ctx, its send of nil must still find room in *)
(* retval, even after Start has returned on a worker's value, or the       *)
(* goroutine stays blocked for the life of the process.                    *)
WatcherExits == (gctx /\ wpc = "wait") ~> wpc = "done"

(* Spec 4.3: Group.Stop waits for every worker's task to join: once it has *)
(* returned, no worker goroutine is alive.                                 *)
GroupStopJoins ==
    tpc = "done" => \A i \in Workers : kpc[i] \in {"unspawned", "done"}

(* Spec invariant 5: a Start of a group of N workers closes the N reader   *)
(* handles: once it has returned and every worker has ended, none is open. *)
ReadersClosed ==
    (spc = "done" /\ \A i \in Workers : kpc[i] = "done") =>
        \A i \in Workers : ~readerOpen[i]

(* The message "consumers group already closed": a Start of a stopped      *)
(* group, which launches no worker, reports an error.                      *)
ClosedGroupStartFails ==
    (spc = "done" /\ \A i \in Workers : kpc[i] = "unspawned") => gresult # "nil"

=============================================================================
