-------------------------- MODULE ConsumerLifecycle --------------------------
(***************************************************************************)
(* The goroutines around one Consumer (src/kafka/consumer/group.go, the    *)
(* consumer.go part): callers of Start, callers of Stop, and the resume    *)
(* goroutines that Sleep spawns, sharing the consumer's mutex mu, its      *)
(* WaitGroup wg, its context, its reader handle and its observable.        *)
(*                                                                         *)
(* The data of the event loop (offsets, commits) is abstracted away: that  *)
(* is module Consumer.  Here the loop only chooses how it ends, and may    *)
(* call Sleep from OnProcess.  A label of a goroutine is a point where     *)
(* another goroutine can interleave: a lock, a wait, a reader call made    *)
(* outside the loop, or a notification made after the unlock.             *)
(***************************************************************************)
EXTENDS Naturals, Sequences

CONSTANTS
    StartCallers,   \* goroutines that call c.Start()
    StopCallers,    \* goroutines that call c.Stop()
    Sleepers,       \* the resume goroutines Sleep may spawn (one per call)
    None            \* no goroutine holds mu

ASSUME LifecycleAssumption ==
    /\ StartCallers # {}
    /\ None \notin StartCallers \cup StopCallers
    /\ StartCallers \cap StopCallers = {}

VARIABLES
    mu,          \* holder of c.mu, or None
    wg,          \* counter of c.wg
    ctxDone,     \* c.ctx has been cancelled
    readerOpen,  \* c.reader has not been closed
    notified,    \* the states passed to c.observable.notify, in order
    spc,         \* label of each Start caller
    result,      \* what each Start call returned
    panicked,    \* Start callers whose loop ended in a recovered panic
    tpc,         \* label of each Stop caller
    gpc          \* label of each resume goroutine

vars == <<mu, wg, ctxDone, readerOpen, notified, spc, result, panicked, tpc, gpc>>

StartLabels == {"idle", "lock", "subscribe", "loop", "cbLock", "defers", "notify", "done"}

-----------------------------------------------------------------------------
Init ==
    /\ mu = None
    /\ wg = 0
    /\ ctxDone = FALSE
    /\ readerOpen = TRUE
    /\ notified = <<>>
    /\ spc = [s \in StartCallers |-> "idle"]
    /\ result = [s \in StartCallers |-> "none"]
    /\ panicked = {}
    /\ tpc = [t \in StopCallers |-> "idle"]
    /\ gpc = [g \in Sleepers |-> "unspawned"]

CallStart(s) ==
    /\ spc[s] = "idle"
    /\ spc' = [spc EXCEPT ![s] = "lock"]
    /\ UNCHANGED <<mu, wg, ctxDone, readerOpen, notified, result, panicked, tpc, gpc>>

\* Mutant: c.wg.Add(1) moved below the ctx check, defer c.wg.Done() kept.
StartLockAddAfterCheck(s) ==
    /\ spc[s] = "lock"
    /\ mu = None
    /\ mu' = s
    /\ wg' = IF ctxDone THEN wg ELSE wg + 1
    /\ IF ctxDone
         THEN /\ spc' = [spc EXCEPT ![s] = "defers"]
              /\ result' = [result EXCEPT ![s] = "err"]
              /\ UNCHANGED notified
         ELSE /\ spc' = [spc EXCEPT ![s] = "subscribe"]
              /\ notified' = Append(notified, "Run")
              /\ UNCHANGED result
    /\ UNCHANGED <<ctxDone, readerOpen, panicked, tpc, gpc>>

(* Start: c.mu.Lock(), c.wg.Add(1), then the ctx check: a cancelled        *)
(* consumer returns "consumer already closed", otherwise notify(StateRun)  *)
(* and listen.                                                             *)
StartLock(s) ==
    /\ spc[s] = "lock"
    /\ mu = None
    /\ mu' = s
    /\ wg' = wg + 1
    /\ IF ctxDone
         THEN /\ spc' = [spc EXCEPT ![s] = "defers"]
              /\ result' = [result EXCEPT ![s] = "err"]
              /\ UNCHANGED notified
         ELSE /\ spc' = [spc EXCEPT ![s] = "subscribe"]
              /\ notified' = Append(notified, "Run")
              /\ UNCHANGED result
    /\ UNCHANGED <<ctxDone, readerOpen, panicked, tpc, gpc>>

(* listen: SubscribeTopics; on failure listen returns before it installs   *)
(* the deferred Unsubscribe/Close, so the reader stays open.               *)
Subscribe(s) ==
    /\ spc[s] = "subscribe"
    /\ \/ /\ spc' = [spc EXCEPT ![s] = "defers"]
          /\ result' = [result EXCEPT ![s] = "err"]
       \/ /\ spc' = [spc EXCEPT ![s] = "loop"]
          /\ UNCHANGED result
    /\ UNCHANGED <<mu, wg, ctxDone, readerOpen, notified, panicked, tpc, gpc>>

(* The loop returns: on <-c.ctx.Done() with nil, on a handler or broker    *)
(* failure with the error, or by a panic in a callback, which the deferred *)
(* recover of Start swallows so that Start returns nil.  listen's deferred *)
(* final commit, Unsubscribe, Unassign and Close run in every case.        *)
LoopReturn(s, cause) ==
    /\ spc[s] = "loop"
    /\ spc' = [spc EXCEPT ![s] = "defers"]
    /\ readerOpen' = FALSE
    /\ result' = [result EXCEPT ![s] = IF cause = "error" THEN "err" ELSE "nil"]
    /\ panicked' = IF cause = "panic" THEN panicked \cup {s} ELSE panicked
    /\ UNCHANGED <<mu, wg, ctxDone, notified, tpc, gpc>>

LoopCtxDone(s) == ctxDone /\ LoopReturn(s, "ctx")

LoopFails(s) == LoopReturn(s, "error") \/ LoopReturn(s, "panic")

(* OnProcess calls Sleep(delay, partitions): Pause succeeds and a resume   *)
(* goroutine is spawned (a failed Pause is an error OnProcess returns).    *)
LoopSleep(s, g) ==
    /\ spc[s] = "loop"
    /\ gpc[g] = "unspawned"
    /\ gpc' = [gpc EXCEPT ![g] = "sleeping"]
    /\ UNCHANGED <<mu, wg, ctxDone, readerOpen, notified, spc, result, panicked, tpc>>

(* OnProcess calls c.Stop() on its own consumer: ctxCancel, then           *)
(* c.mu.Lock() on the mutex its own goroutine holds since Start.           *)
LoopCallbackStop(s) ==
    /\ spc[s] = "loop"
    /\ ctxDone' = TRUE
    /\ spc' = [spc EXCEPT ![s] = "cbLock"]
    /\ UNCHANGED <<mu, wg, readerOpen, notified, result, panicked, tpc, gpc>>

(* The deferred functions of Start, last registered first: recover,        *)
(* wg.Done, then ctxCancel and mu.Unlock; notify(StateClosed) runs last,   *)
(* after the unlock.                                                       *)
\* Mutant: the deferred function cancels the context but never unlocks mu.
StartDefersKeepLock(s) ==
    /\ spc[s] = "defers"
    /\ wg' = wg - 1
    /\ ctxDone' = TRUE
    /\ spc' = [spc EXCEPT ![s] = "notify"]
    /\ UNCHANGED <<mu, readerOpen, notified, result, panicked, tpc, gpc>>

StartDefers(s) ==
    /\ spc[s] = "defers"
    /\ wg' = wg - 1
    /\ ctxDone' = TRUE
    /\ mu' = None
    /\ spc' = [spc EXCEPT ![s] = "notify"]
    /\ UNCHANGED <<readerOpen, notified, result, panicked, tpc, gpc>>

StartNotifyClosed(s) ==
    /\ spc[s] = "notify"
    /\ notified' = Append(notified, "Closed")
    /\ spc' = [spc EXCEPT ![s] = "done"]
    /\ UNCHANGED <<mu, wg, ctxDone, readerOpen, result, panicked, tpc, gpc>>

\* Mutant: Stop only cancels the context and returns.
StopCancelOnly(t) ==
    /\ tpc[t] = "idle"
    /\ ctxDone' = TRUE
    /\ tpc' = [tpc EXCEPT ![t] = "done"]
    /\ UNCHANGED <<mu, wg, readerOpen, notified, spc, result, panicked, gpc>>

\* Stop: c.ctxCancel(), then c.mu.Lock() ...
StopCancel(t) ==
    /\ tpc[t] = "idle"
    /\ ctxDone' = TRUE
    /\ tpc' = [tpc EXCEPT ![t] = "lock"]
    /\ UNCHANGED <<mu, wg, readerOpen, notified, spc, result, panicked, gpc>>

StopLock(t) ==
    /\ tpc[t] = "lock"
    /\ mu = None
    /\ mu' = t
    /\ tpc' = [tpc EXCEPT ![t] = "wait"]
    /\ UNCHANGED <<wg, ctxDone, readerOpen, notified, spc, result, panicked, gpc>>

\* ... c.wg.Wait() and the deferred c.mu.Unlock().
StopWait(t) ==
    /\ tpc[t] = "wait"
    /\ wg = 0
    /\ mu' = None
    /\ tpc' = [tpc EXCEPT ![t] = "done"]
    /\ UNCHANGED <<wg, ctxDone, readerOpen, notified, spc, result, panicked, gpc>>

(* The resume goroutine of Sleep after time.Sleep(delay): a cancelled      *)
(* context ends it; otherwise it calls c.reader.Resume, then               *)
(* c.reader.GetMetadata for the partitions, logging failures.              *)
SleeperWake(g) ==
    /\ gpc[g] = "sleeping"
    /\ gpc' = [gpc EXCEPT ![g] = IF ctxDone THEN "done" ELSE "resume"]
    /\ UNCHANGED <<mu, wg, ctxDone, readerOpen, notified, spc, result, panicked, tpc>>

SleeperResume(g) ==
    /\ gpc[g] = "resume"
    /\ gpc' = [gpc EXCEPT ![g] = "metadata"]
    /\ UNCHANGED <<mu, wg, ctxDone, readerOpen, notified, spc, result, panicked, tpc>>

SleeperMetadata(g) ==
    /\ gpc[g] = "metadata"
    /\ gpc' = [gpc EXCEPT ![g] = "done"]
    /\ UNCHANGED <<mu, wg, ctxDone, readerOpen, notified, spc, result, panicked, tpc>>

StartSteps(s) ==
    \/ StartLock(s) \/ Subscribe(s) \/ LoopCtxDone(s) \/ LoopFails(s)
    \/ \E g \in Sleepers : LoopSleep(s, g)
    \/ StartDefers(s) \/ StartNotifyClosed(s)

Next ==
    \/ \E s \in StartCallers : CallStart(s) \/ StartSteps(s)
    \/ \E t \in StopCallers : StopCancel(t) \/ StopLock(t) \/ StopWait(t)
    \/ \E g \in Sleepers : SleeperWake(g) \/ SleeperResume(g) \/ SleeperMetadata(g)

(* Every runnable goroutine runs.  A goroutine blocked in Lock gets the    *)
(* mutex when it is free infinitely often (sync.Mutex starvation mode),    *)
(* hence strong fairness there.  The select of the loop takes a ready      *)
(* ctx.Done() case eventually (Go picks among ready cases at random).      *)
Fairness ==
    /\ \A s \in StartCallers :
          /\ SF_vars(StartLock(s))
          /\ WF_vars(Subscribe(s))
          /\ WF_vars(LoopCtxDone(s))
          /\ WF_vars(StartDefers(s))
          /\ WF_vars(StartNotifyClosed(s))
    /\ \A t \in StopCallers : SF_vars(StopLock(t)) /\ WF_vars(StopWait(t))
    /\ \A g \in Sleepers :
          WF_vars(SleeperWake(g) \/ SleeperResume(g) \/ SleeperMetadata(g))

Spec == Init /\ [][Next]_vars /\ Fairness

(* The same system when OnProcess may call Stop on its own consumer, which *)
(* the specification allows (section 4.2: "safe ... inside user            *)
(* callbacks").                                                            *)
NextCallbackStop == Next \/ \E s \in StartCallers : LoopCallbackStop(s)

SpecCallbackStop == Init /\ [][NextCallbackStop]_vars /\ Fairness

-----------------------------------------------------------------------------
TypeOK ==
    /\ mu \in StartCallers \cup StopCallers \cup {None}
    /\ wg \in Nat
    /\ ctxDone \in BOOLEAN
    /\ readerOpen \in BOOLEAN
    /\ notified \in Seq({"Run", "Closed"})
    /\ spc \in [StartCallers -> StartLabels]
    /\ result \in [StartCallers -> {"none", "nil", "err"}]
    /\ panicked \subseteq StartCallers
    /\ tpc \in [StopCallers -> {"idle", "lock", "wait", "done"}]
    /\ gpc \in [Sleepers -> {"unspawned", "sleeping", "resume", "metadata", "done"}]

(* Spec invariant 4: once a Stop call has returned, no event loop runs and *)
(* none can start, whatever the order of Start and Stop callers.           *)
StopJoins ==
    (\E t \in StopCallers : tpc[t] = "done") =>
        \A s \in StartCallers : spc[s] \notin {"subscribe", "loop"}

(* Stop is safe from any goroutine: every Stop call eventually returns.    *)
StopReturns == \A t \in StopCallers : tpc[t] = "lock" ~> tpc[t] = "done"

(* Spec invariant 3: StateClosed is notified at most once, and only after  *)
(* StateRun.                                                               *)
ClosedOnceAfterRun ==
    \A i \in 1 .. Len(notified) :
        notified[i] = "Closed" =>
            /\ \E j \in 1 .. i - 1 : notified[j] = "Run"
            /\ \A k \in 1 .. Len(notified) \ {i} : notified[k] # "Closed"

(* Spec section 8, invariant 6 and the open question of section 9: a      *)
(* resume goroutine never calls the reader once the consumer has closed   *)
(* it (Resume and GetMetadata on a closed kafka.Consumer).                *)
NoReaderUseAfterClose ==
    [][\A g \in Sleepers :
          gpc[g] \in {"resume", "metadata"} /\ gpc'[g] # gpc[g] => readerOpen]_vars

(* Spec section 4.2 (panic containment): a panic in a callback ends the    *)
(* loop with the recovered value surfaced as an error of Start.            *)
PanicSurfacesError ==
    \A s \in panicked : spc[s] = "done" => result[s] = "err"

(* Spec invariant 5, for one consumer: once Start has returned, the reader *)
(* handle New created has been closed.                                     *)
ReaderClosedOnReturn ==
    \A s \in StartCallers : spc[s] = "done" => ~readerOpen

-----------------------------------------------------------------------------
(* The refinement mapping to the lifecycle contract: a Start call runs     *)
(* from a successful ctx check to the return of its loop; the consumer is  *)
(* stopped once some Stop call has returned.                               *)
Running == {s \in StartCallers : spc[s] \in {"subscribe", "loop"}}

StopReturned == \E t \in StopCallers : tpc[t] = "done"

LContract == INSTANCE LifecycleContract WITH
    Callers <- StartCallers, cancelled <- ctxDone, running <- Running,
    stopped <- StopReturned

(* Start and Stop keep the contract of spec 4.2 under any interleaving of  *)
(* their callers: c.mu makes the loops of a double Start run one after    *)
(* the other, Start checks ctx after taking c.mu, and Stop returns only    *)
(* after cancelling, taking c.mu and waiting on c.wg.                      *)
LifecycleContractSpec == LContract!Spec

=============================================================================
