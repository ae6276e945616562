# Verification of the Kafka consumer core (`src/kafka/consumer`)

This directory holds TLA+ models of the Kafka consumer package of this
repository. It also holds TLC configurations that check them on small
instances, and TLAPS proofs of the main invariants for all values of the
constants.

## 1. The system

`src/kafka/consumer/group.go` holds three source files one after the other:

| lines | file | contents |
|---|---|---|
| 1-101 | group.go | `Group`, `NewGroup`, `Group.Start`, `Group.Stop` |
| 102-572 | consumer.go | `Consumer`, `New`, `Start`, `Stop`, `Sleep`, `listen`, the five event handlers, `commitOffsets` |
| 573-623 | mock | a generated mock of `IWriter` (not modelled) |

The offset tracker (`offset.go`), `checkPartitions`, the observable and the
configuration are not in the snapshot. The tracker is modelled from section
4.1 of the specification. Its definitions are marked `spec_modelled` in
PROJECT.json.

**How the parts interact.**

- A **Group** owns N **Consumers**.
- `Group.Start` launches one worker goroutine per consumer. Each worker sends
  the result of `Consumer.Start` into a channel of capacity N+1. A watcher
  goroutine sends `nil` there when the group's context is cancelled.
- `Group.Start` returns the first value it receives. Before it returns, a
  deferred loop calls `Consumer.Stop` on every consumer in order.
- `Consumer.Start` holds the consumer's mutex `mu` and a WaitGroup count for
  the whole event loop (`listen`).
- `Consumer.Stop` cancels the context, takes `mu`, and waits on the
  WaitGroup.
- The event loop is single threaded. It selects between:
  - the context;
  - a commit ticker;
  - the broker's event stream: assigned partitions, revoked partitions,
    messages, partition EOF, offsets committed, errors.
- The message handler calls the user's `OnProcess` and then adds the
  message's offset to the **offset tracker**. The tracker is flushed by
  `commitOffsets`:
  - by a count threshold;
  - on every tick;
  - before every rebalance, revoke and partition EOF, which then clear it;
  - when the loop ends.
- On an assignment, the committed offsets are read back from the broker and
  incremented before `Assign` (the workaround for confluent-kafka-go issue
  212).
- `Sleep` pauses partitions from a callback. It spawns a goroutine that
  later resumes them and probes metadata.

**What is hard here:**

- an offset may be skipped or redelivered across rebalance, revoke, a partial
  commit failure and a crash;
- goroutines race on `mu`, two WaitGroups, two contexts and the reader
  handle;
- a timer goroutine uses the reader after a check of the context;
- stopping must terminate, which depends on channel capacity and fair
  scheduling.

## 2. Modules

| module | models | state | actions |
|---|---|---|---|
| `OffsetTracker` | the tracker (spec 4.1) | a total map partition -> (last offset, count) | `Add`, `Remove`, `Keys` (Get), `Counter`, `NoOffsets` (new/Clear) |
| `Consumer` | `listen` and its handlers, `commitOffsets` | phase, ctx, reader, assignment, read position per partition, tracker, broker's committed offsets, history of processed offsets | `Start`, `Stop`, `CtxDone`, `Tick`, `HandleRebalance`, `HandleRevoke`, `HandleMessage`, `HandlePartitionEOF`, `HandleOffsetCommitted`, `ProcessRestart` |
| `ConsumerLifecycle` | the goroutines around one consumer | holder of `mu`, `wg`, ctx, reader open, notifications, a label per Start caller, Stop caller and resume goroutine | `StartLock`, `Subscribe`, `LoopCtxDone`, `LoopFails`, `LoopSleep`, `LoopCallbackStop`, `StartDefers`, `StartNotifyClosed`, `StopCancel`, `StopLock`, `StopWait`, `SleeperWake`, `SleeperResume`, `SleeperMetadata` |
| `Group` | `Group.Start`/`Stop`, the watcher and the workers | group ctx and WaitGroup, the retval channel, labels of Start, Stop, watcher and workers, each consumer's ctx and reader | `StartWait`, `StartCheck`, `StartSpawn`, `StartRecv`, `StartStopCancel`, `StartStopJoin`, `StopCancel`, `StopWait`, `WatcherSend`, `WorkerStart`, `WorkerLoopEnd`, `WorkerSend` |
| `DeliveryContract` | what one consumer promises (spec sections 1 and 8): the abstract specification `Consumer` refines | partitions being read, next offset per partition, committed offsets, processed offsets | one `Next` in which every partition commits (`Commit`: keep, or move up to a processed prefix) and reads (`Read`: stay, deliver the next message, stop, resume at the committed offset + 1) |
| `LifecycleContract` | what `Start` and `Stop` of one consumer promise (spec 4.2, invariant 4): the abstract specification `ConsumerLifecycle` refines | cancelled, the set of running Start calls, a Stop has returned | `Cancel`, `Enter`, `Leave`, `StopReturn` |
| `ConsumerProofs` | TLAPS proofs about `Consumer`, and of its refinement of `DeliveryContract` | | |
| `LifecycleProofs` | TLAPS proofs about `ConsumerLifecycle` | | |
| `GroupProofs` | TLAPS proofs about `Group` | | |

`MCConsumer`, `MCConsumerLifecycle` and `MCGroup` instantiate the models for
TLC.

**Granularity.** Each event handler is one atomic step of `Consumer`, because
the loop is single threaded and nothing else touches the tracker or the
assignment. A handler step includes its commit, its `Clear`, its broker calls
and, when it fails, the shutdown that `listen`'s defers perform. Every broker
call (`CommitOffsets`, `Committed`, `Assign`, `Unassign`) and every user
callback is a nondeterministic choice of outcome:

- `CommitOffsets` may apply any subset of the partitions, and the code sees
  success only when all were applied (a partial failure or a lost reply);
- a handler either succeeds or returns an error that ends the loop.

In `ConsumerLifecycle` and `Group`, a label is a point where another
goroutine can run: a lock, a wait, a channel operation, or a step made after
an unlock.

**Assumptions.**

- `auto.offset.reset` is `earliest`, so an unset committed offset starts at
  0.
- The broker delivers each partition in order from the assigned position.
- The client follows the eager rebalance protocol: it revokes every
  partition before it assigns again, and revokes only after an assignment.
  `HandleRebalance` is therefore enabled only with no partition assigned,
  and `HandleRevoke` only with some. These guards model the client, not
  lines of `group.go`.
- Only one consumer is assigned a partition at a time. Ownership across
  consumers is delegated to the Kafka client and not modelled.

## 3. Runs

| run | cfg | result | what it shows |
|---|---|---|---|
| consumer_safety | MCConsumer.cfg | pass (3 844 states) | `NoSkip`, `NoRedelivery`, `ContractSpec`, `CommitMonotone` |
| consumer_spec_next_offset | MCConsumerNextOffset.cfg | violation of `NoSkip` | the spec's "next offset" reading makes the +1 skip a message |
| lifecycle_stop | MCConsumerLifecycle.cfg | pass (4 580 states) | `TypeOK`, `StopJoins`, `StopReturns`, `LifecycleContractSpec` |
| lifecycle_callback_stop | MCLifecycleCallbackStop.cfg | violation of `StopReturns` | Stop from a callback deadlocks |
| lifecycle_closed_once | MCLifecycleClosedOnce.cfg | violation of `ClosedOnceAfterRun` | Closed notified without Run or twice |
| lifecycle_resume_after_close | MCLifecycleResumeAfterClose.cfg | violation of `NoReaderUseAfterClose` | Sleep's goroutine resumes a closed reader |
| lifecycle_panic | MCLifecyclePanic.cfg | violation of `PanicSurfacesError` | a recovered panic returns nil |
| lifecycle_reader_leak | MCLifecycleReaderLeak.cfg | violation of `ReaderClosedOnReturn` | the reader stays open after Start returns |
| group_stop | MCGroup.cfg | pass (1 092 states) | `TypeOK`, `StoppedBeforeReturn`, `SendNeverBlocks`, `GroupStopReturns`, `WatcherExits` |
| group_stop_joins | MCGroupStopJoins.cfg | violation of `GroupStopJoins` | Group.Stop returns before workers are even launched |
| group_reader_leak | MCGroupReaderLeak.cfg | violation of `ReadersClosed` | fewer than N readers are closed |
| group_closed_start | MCGroupClosedStart.cfg | violation of `ClosedGroupStartFails` | `errors.Wrap(nil, ...)` is nil |

**The properties of the passing runs:**

- **`NoSkip`:** while the loop runs, every offset of an assigned partition
  below its read position has been accepted by `OnProcess`. A message is
  never committed past without being processed.
- **`NoRedelivery`:** the read position of an assigned partition is above the
  broker's committed offset. An assignment resumes after the last committed
  message and does not re-read it.
- **`ContractSpec`:** every behaviour of the consumer is a behaviour of
  `DeliveryContract` under the refinement mapping below: commits never move
  back, only name processed prefixes, and a reassigned partition resumes
  just after its committed offset.
- **`CommitMonotone`** (action property): no step moves a partition's
  committed offset back, whether a flush fails in part, a rebalance or
  revoke flushes, or the consumer restarts.
- **`StopJoins`:** once a `Stop` has returned, no event loop runs or starts.
- **`StopReturns`:** every `Stop` call returns.
- **`LifecycleContractSpec`:** every behaviour of Start/Stop is one of
  `LifecycleContract` under the mapping `cancelled <- ctxDone`,
  `running <- Running` (the Start calls subscribing or in their loop) and
  `stopped <- StopReturned`: one loop at a time, none entered on a cancelled
  consumer, and `Stop` returns only once cancelled with no loop.
- **`StoppedBeforeReturn`:** when `Group.Start` returns, every consumer it
  launched is cancelled and not in its loop.
- **`SendNeverBlocks`:** a worker's send and the watcher's send on `retval`
  always find a free slot (the "+1 context closed" comment). This is stronger
  than what termination needs: with capacity N a send may wait until `Start`
  receives, yet everything still returns.
- **`GroupStopReturns`:** `Group.Stop` returns.
- **`WatcherExits`:** once `g.ctx` is cancelled, the ctx watcher goroutine
  of `Group.Start` ends. It is not counted in `g.wg`, so `GroupStopReturns`
  says nothing of it; after `Start` has returned on a worker's value its send
  of nil needs a free slot of `retval` (capacity N+1 for N workers and the
  watcher, of which `Start` takes one).

**Refinement.** `Consumer` maps to `DeliveryContract` by
`reading <- Reading` (the assigned partitions while the loop runs, else none),
`next <- ReadPos` (the read position of a partition being read, else 0) and
`NoOffset <- Unset`; `committed` and `processed` map to themselves. The
abstract specification is checked as `PROPERTY ContractSpec`. It holds only
because of the `+1` of `handleRebalance` and because `commitOffsets` publishes
only keys the tracker got from accepted messages; the mapping itself is not
code, so `DeliveryContract`, `Reading` and `ReadPos` have no map entry.

Each passing property has a mutant in PROJECT.json, a plausible bug in the
mapped code, and TLC finds the property violated by it:

- the `+1` dropped (`NoRedelivery`);
- the offset added before `OnProcess` (`NoSkip`);
- `wg.Add` moved below the ctx check (`TypeOK`: a negative WaitGroup, which
  panics in Go);
- `Stop` that only cancels (`StopJoins`);
- the deferred unlock forgotten (`StopReturns`);
- `g.wg.Add` forgotten (`TypeOK`);
- the deferred `Consumer.Stop` not joining (`StoppedBeforeReturn`);
- an unbuffered retval (`GroupStopReturns`, and `WatcherExits`: the watcher
  blocks for ever once `Start` has received a worker's value);
- the message's next offset stored in the tracker (`ContractSpec`: the
  commit names a message that was not processed);
- `Assign(kafka.OffsetBeginning)` in place of the committed offsets, so a
  partition is read again from offset 0 (`CommitMonotone`: a later flush
  commits below the old commit);
- `Stop` that only cancels (`LifecycleContractSpec`: a `Stop` returns while a
  loop runs, which no contract step allows);
- `make(chan error, g.consumers.Len())`, without the watcher's slot
  (`SendNeverBlocks`).

**Bounds.**

- `MCConsumer`: two partitions, logs of 2 messages, commit threshold 2. This
  is enough for a threshold flush, a flush on revoke with two keys, a partial
  commit of one of two keys, and a reassignment after a commit.
  `ProcessRestart` adds crashes at any point.
- `MCConsumerLifecycle`: two Start callers (a double Start), two Stop callers
  (racing Stops) and one Sleep goroutine.
- `MCGroup`: N = 2, the least N for which one consumer's deferred Stop can
  overtake another worker's Start.

The violation traces are 6 to 14 steps long.

**Fairness.** The liveness runs assume the following:

- Every runnable goroutine runs (weak fairness).
- A goroutine blocked in `Lock` gets the mutex if it is free infinitely often
  (strong fairness). `sync.Mutex` has a starvation mode that hands the lock
  to a waiter blocked for more than 1 ms.
- The loop's `select` eventually takes a ready `ctx.Done()` case. Go chooses
  uniformly at random among ready cases, so other events cannot starve it.

User choices are not fair: calling Start or Stop, a callback failing or
panicking, or calling Sleep. Terminal states in which every goroutine has
returned are the normal end of the program, so these runs use
`CHECK_DEADLOCK FALSE`. A goroutine stuck for ever shows up as a liveness
violation.

## 4. Findings

The findings are listed in full in PROJECT.json:

1. `Stop` called from `OnProcess` blocks for ever, because the mutex is held
   by its own goroutine (spec 4.2 says it is safe from callbacks).
2. `Closed` is notified without `Run`, or twice (spec invariant 3).
3. `Sleep`'s resume goroutine calls `Resume`/`GetMetadata` on a closed reader.
   After an error exit, `listen` closes the reader before `Start`'s deferred
   `ctxCancel` runs, so the goroutine's ctx check passes.
4. A panic in a callback makes `Start` return nil (spec 4.2/7 say errors
   propagate).
5. Readers leak:
   - on a `SubscribeTopics` failure;
   - when a consumer is started after it was stopped;
   - when the group's deferred Stop overtakes a worker (spec invariant 5).
6. `Group.Stop` can return before `Group.Start` has added its workers to the
   WaitGroup (spec 4.3; an Add concurrent with Wait at zero).
7. `Group.Start` on a stopped group returns `errors.Wrap(nil, ...)`, which is
   nil.
8. The spec says the tracker "already stores next-to-read" (property 1). If
   that were so, the `+1` in `handleRebalance` would skip a message after
   every revoke and reassign. The model takes the client to report each
   message's own offset, under which the code is correct (`consumer_safety`).

## 5. Proofs

Five modules hold theorems, all checked by `tlapm`: `DeliveryContract`,
`LifecycleContract`, `ConsumerProofs`, `LifecycleProofs` and `GroupProofs`.
Each inductive invariant below was checked with TLC as an invariant before it
was proved: `IInv` and `KeyAbove` on `MCConsumer` with `LogEnd = 3`, `LInv`
on `MCConsumerLifecycle`, and `GInv` and `SInv` on `MCGroup` with `N = 3`.

### Consumer (`ConsumerProofs.tla`)

The proofs cover every finite non-empty partition set, every log length
`LogEnd >= 1` and every `CommitOffsetCount >= 0`. These are the assumptions
`PartitionsAssumption` and `ConsumerAssumption`.

- **`TypeCorrect`:** `Spec => []TypeOK`. The consumer's `TypeOK` is proved
  but no run checks it: no plausible bug in `group.go` takes a position or an
  offset out of its type. Dropping the guard of the `+1` gives -1000, which
  is `kafka.OffsetStored`, and librdkafka resolves it like -1001. The proof
  rests on these lemmas:
  - `CommitStep`: what `commitOffsets` may set each partition's committed
    offset and tracker entry to;
  - `ClearStep`;
  - `UnsetFacts`.
- **`AtLeastOnce`:** `~ReportsNextOffset => (Spec => [](NoSkip /\ NoRedelivery))`,
  and its corollary **`NoRedeliveryThm`**.
- **`Refinement`:** `~ReportsNextOffset => (Spec => ContractSpec)`.
- **`CommitMonotoneThm`:** `~ReportsNextOffset => (Spec => CommitMonotone)`.

`NoSkip` and `NoRedelivery` are not inductive on their own. A commit can move
the committed offset, and a later reassignment sets the position from it. The
proof therefore uses the inductive invariant `IInv`, which adds:

- `CommittedProcessed`: every offset up to the broker's committed offset was
  processed;
- `TrackerProcessed`: every offset up to the tracker's entry was processed;
- `TrackerBelowPos`: in the loop, a tracker entry is below the read position;
- `IdleClean`: a fresh consumer has no assignment and an empty tracker.

With these conjuncts, a commit only publishes processed offsets, and a
reassignment at committed+1 has everything below it processed. The step proof
has one case per action, and under it one step per conjunct the action can
disturb.

The refinement needs one more fact: commits are monotone. That is not
obvious, because `commitOffsets` writes the tracker's entry whatever it is,
and a failed commit keeps the tracker. `KeyAbove` says every key of the
tracker is at or above the broker's committed offset. `handleMessage` adds
`pos[p]`, which `NoRedelivery` puts above the commit, and a commit keeps a
key only if it leaves it as it was. The lemmas:

- `CommitMono` and `ClearMono`: a commit of such a tracker moves no offset
  back;
- `ReadStill` and `ReadStop`: each partition's reading is a `Read` step of
  the contract;
- `ContractNextOf`: these facts together make a contract step;
- `RefineStep`: every action is a contract step or a stutter.

The theorem then follows from `Init => Contract!Init` by PTL.
`DeliveryContract` proves its own guarantee, **`ContractSafety`** (no
message of a partition being read is skipped, and the committed offsets name
processed messages), from the contract alone. So the consumer's at-least-once
property follows from either proof.

`CommitMonotoneThm` is read off the refinement step: under `RInv`, every step
of the consumer is a contract step or a stutter (`RefineStep`), and a
contract step's `Commit` keeps each committed offset or raises it to a
processed prefix. So `RInv /\ [Next]_vars => [Mono]_vars`, and PTL lifts it.

### Lifecycle (`LifecycleProofs.tla`)

`StopJoinsThm` (`Spec => []StopJoins`) and `LifecycleTypeCorrect` hold for
any sets of callers under `LifecycleAssumption`. They rest on `LInv`:

- a Start call holds `c.mu` exactly while it is between `Lock` and its
  deferred `Unlock` (`Held`);
- a Stop call holds it exactly while in `wg.Wait`;
- `c.wg` is 1 when a Start call holds the mutex and 0 otherwise;
- a Stop call past `ctxCancel` implies the context is cancelled.

So when `wg.Wait` passes, no Start call holds the mutex and none is in its
loop, and a later Start sees the cancelled context.

`LifecycleContract` proves its own guarantee, **`LifecycleContractSafety`**
(at most one loop runs, and a returned Stop leaves the consumer cancelled
with no loop), by a one-step induction. **`LifecycleRefinement`**
(`Spec => LifecycleContractSpec`) maps the detailed steps to contract steps
under `LInv` (`LRefineStep`, one case per action):

- `StartLock` on a live context is `Enter`: `Running` is empty because no
  one holds `c.mu`;
- a failed subscribe and the loop's end are `Leave`;
- `StartDefers` and `StopCancel` cancel, which is `Cancel` or a stutter;
- `StopWait` is `StopReturn`, because `LInv` says no Start holds the mutex;
- every other step leaves the mapped variables alone (`LStutter`).

### Group (`GroupProofs.tla`)

`GroupTypeCorrect` and `StopsBeforeReturn` (`Spec => []StoppedBeforeReturn`)
hold for every N >= 1. They rest on `GInv`:

- `g.wg` is the cardinality of the set of live workers. It is proved with
  `FS_AddElement`, `FS_RemoveElement`, `FS_Subset` and `FS_Interval` in the
  lemmas `LiveAdd`, `LiveRemove` and `LiveKeep`.
- `StopLoop` says how far the spawn loop and the deferred stop loop have got:
  - consumers at or past the spawn index are not launched;
  - consumers before the stop index are `Stopped`.

The lemma `WorkerKeepsStopLoop` shows that no worker step undoes a stop. A
cancelled consumer never enters its loop.

`SendNeverBlocksThm` (`Spec => []SendNeverBlocks`) holds for every N >= 1.
`SendNeverBlocks` is not inductive: whether a sender finds room depends on how
many other senders are still to come. `SInv` adds to `GInv`:

- `Room`: `Len(retval)`, plus the senders still to send (`Pending`, the live
  workers and those the spawn loop may still launch, and the watcher), plus
  one once `Start` has received, is at most N+1;
- `Fresh`: before `StartCheck` the watcher is unspawned and `retval` is
  empty.

Every send moves one sender into the buffer, and a receive moves one into
`Start`'s slot, so `Room` is kept. The spawn loop's last iteration and the
closed-group return only shrink `Pending` (`FS_Subset`, `FS_RemoveElement`).
A sender is in `Pending`, so the buffer has a free slot.

### Only model-checked

- The lifecycle and group properties that are violations (findings).
- All liveness (`StopReturns`, `GroupStopReturns`, `WatcherExits`): TLAPS
  does not handle liveness or ENABLED.
- `Counter` is a fold (`MapThenSumSet`). The proofs use only its type, not
  what it computes.

## 6. Not modelled

- Construction validation (`cfg.Check`, uuid, ConfigMap forcing).
- Logging.
- The observable's subscription streams.
- The registry request structs and the generated `IWriter` mock.
- The admin router test and the Makefile.
- The timing of `Sleep` (spec property 6 is about delays).
- Membership and partition ownership across consumers, which is the Kafka
  client's job.
- Repeated `Group.Start` calls: the model has one call. Each call spawns a
  watcher that stays parked until `Group.Stop`. `WatcherExits` shows that
  every watcher ends once the group is stopped.
