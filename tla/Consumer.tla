------------------------------ MODULE Consumer ------------------------------
(***************************************************************************)
(* One consumer worker of package consumer (src/kafka/consumer/group.go,   *)
(* the part that is consumer.go): Start, the event loop of listen, its     *)
(* handlers, commitOffsets and the deferred shutdown, run against a broker *)
(* that keeps the committed offset of every partition.                     *)
(*                                                                         *)
(* The event loop is one goroutine, so each handler, with every reader     *)
(* call it makes, is one atomic step.  The outcome of every reader call    *)
(* (CommitOffsets, Committed, Assign, Unassign, SubscribeTopics) and of    *)
(* the user's OnProcess is a nondeterministic choice.  The broker's        *)
(* committed offsets outlive the process: ProcessRestart models the        *)
(* program being killed at any point and a fresh consumer (New) starting   *)
(* from what the broker remembers.                                         *)
(*                                                                         *)
(* Each partition holds the messages with offsets 0 .. LogEnd-1.  A        *)
(* message's TopicPartition.Offset is its own offset in the Go client;     *)
(* ReportsNextOffset = TRUE models the reading of the specification        *)
(* (section 4.1) that the client reports the next offset to read instead.  *)
(***************************************************************************)
EXTENDS OffsetTracker

CONSTANTS
    LogEnd,             \* number of messages in every partition
    CommitOffsetCount,  \* Consumer.commitOffsetCount; 0 disables it
    ReportsNextOffset   \* does Message.TopicPartition.Offset name the next offset?

ASSUME ConsumerAssumption ==
    /\ LogEnd \in Nat \ {0}
    /\ CommitOffsetCount \in Nat
    /\ ReportsNextOffset \in BOOLEAN

VARIABLES
    phase,       \* "idle" (after New), "loop" (listen running), "closed"
    ctxDone,     \* the consumer's context has been cancelled (Stop)
    readerOpen,  \* the kafka.Consumer handle has not been closed
    assigned,    \* partitions currently assigned to the reader
    pos,         \* next offset the reader delivers, per partition
    trk,         \* the offset tracker consumerOffsets of listen
    committed,   \* the broker's committed offset, per partition
    processed    \* history: offsets OnProcess accepted, per partition

vars == <<phase, ctxDone, readerOpen, assigned, pos, trk, committed, processed>>

Offsets == 0 .. LogEnd - 1

\* The values an offset variable takes: Unset, or an offset up to LogEnd.
OffsetValue == {Unset} \cup 0 .. LogEnd

\* Fault: the tracker stores the offset after the message.
MsgOffsetNext(o) == o + 1

\* The value the client puts in Message.TopicPartition.Offset.
MsgOffset(o) == IF ReportsNextOffset THEN o + 1 ELSE o

-----------------------------------------------------------------------------
(* commitOffsets: one CommitOffsets RPC for every key of the tracker.  The *)
(* broker may apply any subset S of the keys (a partial failure, or a      *)
(* lost reply); the code sees success (ok) only if all were applied, and   *)
(* then removes every committed key; on an error it keeps the tracker.     *)
(* With an empty tracker no RPC is made and nothing changes.               *)

CommitAttempts(t) ==
    {a \in (SUBSET Keys(t)) \X BOOLEAN : a[2] => a[1] = Keys(t)}

CommitTo(t, S) == [p \in Partitions |-> IF p \in S THEN t[p].off ELSE committed[p]]

AfterCommit(t, a) ==
    IF a[2] THEN [p \in Partitions |-> IF p \in a[1] THEN Remove(t, p)[p] ELSE t[p]]
            ELSE t

commitOffsets(t) ==
    \E a \in CommitAttempts(t) :
        /\ committed' = CommitTo(t, a[1])
        /\ trk' = AfterCommit(t, a)

\* commitOffsets(consumerOffsets) followed by consumerOffsets.Clear().
commitAndClear(t) ==
    \E a \in CommitAttempts(t) :
        /\ committed' = CommitTo(t, a[1])
        /\ trk' = NoOffsets

(* The deferred functions of listen once the loop has returned: the final  *)
(* commitOffsets (passed in as part of the step that returns), the ticker  *)
(* stop, Unsubscribe, Unassign if that succeeded, and Close.  Whatever     *)
(* Unsubscribe and Unassign return, Close releases the handle and its      *)
(* assignment.                                                             *)
closeReader ==
    /\ phase' = "closed"
    /\ readerOpen' = FALSE
    /\ assigned' = {}

-----------------------------------------------------------------------------
Init ==
    /\ phase = "idle"
    /\ ctxDone = FALSE
    /\ readerOpen = TRUE
    /\ assigned = {}
    /\ pos = [p \in Partitions |-> 0]
    /\ trk = NoOffsets
    /\ committed = [p \in Partitions |-> Unset]
    /\ processed = [p \in Partitions |-> {}]

(* Start: a cancelled consumer returns "consumer already closed" at once;  *)
(* otherwise listen subscribes, and a failed SubscribeTopics returns       *)
(* before the deferred close is installed, leaving the reader open.        *)
Start ==
    /\ phase = "idle"
    /\ \/ /\ ctxDone
          /\ phase' = "closed"
       \/ /\ ~ctxDone
          /\ phase' \in {"loop", "closed"}
    /\ UNCHANGED <<ctxDone, readerOpen, assigned, pos, trk, committed, processed>>

\* Stop (and the Group's cancellation): cancel the context.
Stop ==
    /\ ~ctxDone
    /\ ctxDone' = TRUE
    /\ UNCHANGED <<phase, readerOpen, assigned, pos, trk, committed, processed>>

\* case <-c.ctx.Done(): return nil, then the deferred shutdown.
CtxDone ==
    /\ phase = "loop"
    /\ ctxDone
    /\ commitOffsets(trk)
    /\ closeReader
    /\ UNCHANGED <<ctxDone, pos, processed>>

\* case <-offsetsTicker.C
Tick ==
    /\ phase = "loop"
    /\ commitOffsets(trk)
    /\ UNCHANGED <<phase, ctxDone, readerOpen, assigned, pos, processed>>

(* handleRebalance for AssignedPartitions{P}: flush and clear, then        *)
(* checkPartitions, Committed, Assign; any of the three failing returns    *)
(* the error and listen shuts down (its final flush finds the tracker      *)
(* empty).  The committed offsets are read after the flush; one that is    *)
(* >= 0 is incremented, and an Unset one makes the client fall back to     *)
(* auto.offset.reset, taken to be the earliest offset.  The guard         *)
(* assigned = {} is not in the code: it is the eager rebalance protocol of *)
(* the client, which revokes every partition before it assigns again.      *)
\* Fault: Assign(kafka.OffsetBeginning) in place of the committed offsets:
\* the partition is read again from its first message, offset 0.
ReconcileEarliest(c) == 0

\* Fault: the committed offset assigned as it is, without the increment.
ReconcileVerbatim(c) == c

Reconcile(c) == IF c >= 0 THEN c + 1 ELSE c

AssignPos(o) == IF o = Unset THEN 0 ELSE o

HandleRebalance(P) ==
    /\ phase = "loop"
    /\ assigned = {}
    /\ commitAndClear(trk)
    /\ \/ closeReader /\ UNCHANGED pos
       \/ /\ assigned' = P
          /\ pos' = [p \in Partitions |->
                       IF p \in P THEN AssignPos(Reconcile(committed'[p])) ELSE pos[p]]
          /\ UNCHANGED <<phase, readerOpen>>
    /\ UNCHANGED <<ctxDone, processed>>

(* handleRevoke: flush and clear, checkPartitions, Unassign.  The guard   *)
(* assigned # {} is the eager protocol again: the client revokes only      *)
(* after an assignment.                                                    *)
HandleRevoke ==
    /\ phase = "loop"
    /\ assigned # {}
    /\ commitAndClear(trk)
    /\ \/ closeReader
       \/ assigned' = {} /\ UNCHANGED <<phase, readerOpen>>
    /\ UNCHANGED <<ctxDone, pos, processed>>

(* handleMessage for the next message of p: a TopicPartition error or an   *)
(* OnProcess error returns it (final flush, shutdown); on success the      *)
(* offset goes into the tracker and, when CommitOffsetCount > 0 and the    *)
(* tracker has counted that many messages, it is flushed at once.          *)
\* Fault: the offset is added to the tracker before OnProcess has accepted it.
HandleMessageAddFirst(p) ==
    /\ phase = "loop"
    /\ p \in assigned
    /\ pos[p] < LogEnd
    /\ pos' = [pos EXCEPT ![p] = pos[p] + 1]
    /\ \/ /\ commitOffsets(Add(trk, p, MsgOffset(pos[p])))
          /\ closeReader
          /\ UNCHANGED processed
       \/ /\ processed' = [processed EXCEPT ![p] = processed[p] \cup {pos[p]}]
          /\ LET t == Add(trk, p, MsgOffset(pos[p])) IN
             IF CommitOffsetCount > 0 /\ Counter(t) >= CommitOffsetCount
               THEN commitOffsets(t)
               ELSE trk' = t /\ UNCHANGED committed
          /\ UNCHANGED <<phase, readerOpen, assigned>>
    /\ UNCHANGED ctxDone

HandleMessage(p) ==
    /\ phase = "loop"
    /\ p \in assigned
    /\ pos[p] < LogEnd
    /\ pos' = [pos EXCEPT ![p] = pos[p] + 1]
    /\ \/ /\ commitOffsets(trk)
          /\ closeReader
          /\ UNCHANGED processed
       \/ /\ processed' = [processed EXCEPT ![p] = processed[p] \cup {pos[p]}]
          /\ LET t == Add(trk, p, MsgOffset(pos[p])) IN
             IF CommitOffsetCount > 0 /\ Counter(t) >= CommitOffsetCount
               THEN commitOffsets(t)
               ELSE trk' = t /\ UNCHANGED committed
          /\ UNCHANGED <<phase, readerOpen, assigned>>
    /\ UNCHANGED ctxDone

(* handlePartitionEOF, delivered once p has been read to its end: flush    *)
(* and clear; an embedded error other than ErrPartitionEOF returns it.     *)
HandlePartitionEOF(p) ==
    /\ phase = "loop"
    /\ p \in assigned
    /\ pos[p] = LogEnd
    /\ commitAndClear(trk)
    /\ \/ closeReader
       \/ UNCHANGED <<phase, readerOpen, assigned>>
    /\ UNCHANGED <<ctxDone, pos, processed>>

(* handleOffsetCommitted with an error (in the event or in one of its      *)
(* partitions) returns it; without one it only logs, a stuttering step,    *)
(* as are the kafka.Error and unknown-event cases of the loop.             *)
HandleOffsetCommitted ==
    /\ phase = "loop"
    /\ commitOffsets(trk)
    /\ closeReader
    /\ UNCHANGED <<ctxDone, pos, processed>>

(* The process dies at any point and is started again: New builds a fresh  *)
(* consumer (new reader, new context, empty tracker); only the broker's    *)
(* committed offsets and the history survive.                              *)
ProcessRestart ==
    /\ phase' = "idle"
    /\ ctxDone' = FALSE
    /\ readerOpen' = TRUE
    /\ assigned' = {}
    /\ trk' = NoOffsets
    /\ UNCHANGED <<pos, committed, processed>>

Next ==
    \/ Start
    \/ Stop
    \/ CtxDone
    \/ Tick
    \/ \E P \in (SUBSET Partitions) \ {{}} : HandleRebalance(P)
    \/ HandleRevoke
    \/ \E p \in Partitions : HandleMessage(p)
    \/ \E p \in Partitions : HandlePartitionEOF(p)
    \/ HandleOffsetCommitted
    \/ ProcessRestart

Spec == Init /\ [][Next]_vars

-----------------------------------------------------------------------------
TypeOK ==
    /\ phase \in {"idle", "loop", "closed"}
    /\ ctxDone \in BOOLEAN
    /\ readerOpen \in BOOLEAN
    /\ assigned \subseteq Partitions
    /\ pos \in [Partitions -> 0 .. LogEnd + 1]
    /\ trk \in [Partitions -> [off : OffsetValue, cnt : Nat]]
    /\ committed \in [Partitions -> OffsetValue]
    /\ processed \in [Partitions -> SUBSET Offsets]

(* At-least-once (spec section 1, invariant 1): while the loop runs, every *)
(* offset of an assigned partition below the reader's position has been   *)
(* accepted by OnProcess, across rebalances, failed and partial commits    *)
(* and process restarts.  It fails if a commit ever names a message that   *)
(* was not processed, or if the +1 of handleRebalance skips one.           *)
NoSkip ==
    phase = "loop" =>
        \A p \in assigned : \A o \in 0 .. pos[p] - 1 : o \in processed[p]

(* The fix for confluent-kafka-go issue 212 in handleRebalance (spec       *)
(* invariant 2): after an assignment the reader never delivers again a     *)
(* message whose offset the broker holds as committed.                     *)
NoRedelivery ==
    phase = "loop" => \A p \in assigned : pos[p] > committed[p]

(* A committed offset never moves back: no commitOffsets, whether it      *)
(* follows a failed or partial commit, a revoke, a reassignment or a       *)
(* restart, publishes an offset below what the broker already holds for  *)
(* that partition, so the group never rewinds.                             *)
CommitMonotone ==
    [][\A p \in Partitions : committed'[p] >= committed[p]]_vars

-----------------------------------------------------------------------------
(* The strengthening of NoSkip and NoRedelivery that is inductive: the     *)
(* broker and the tracker only ever hold offsets of processed messages,    *)
(* a fresh consumer starts with an empty tracker and no assignment, and    *)
(* while the loop runs every tracked offset is below the reader position.  *)
CommittedProcessed == \A p \in Partitions : \A o \in 0 .. committed[p] : o \in processed[p]

TrackerProcessed == \A p \in Partitions : \A o \in 0 .. trk[p].off : o \in processed[p]

IdleClean == phase = "idle" => assigned = {} /\ trk = NoOffsets

TrackerBelowPos == phase = "loop" => \A p \in Partitions : trk[p].off < pos[p]

IInv ==
    /\ TypeOK
    /\ CommittedProcessed
    /\ TrackerProcessed
    /\ IdleClean
    /\ TrackerBelowPos
    /\ NoSkip
    /\ NoRedelivery

-----------------------------------------------------------------------------
(* The refinement mapping to the delivery contract: a partition is being  *)
(* read while the loop runs with it assigned, at the reader's position.    *)
Reading == IF phase = "loop" THEN assigned ELSE {}

ReadPos == [p \in Partitions |-> IF p \in Reading THEN pos[p] ELSE 0]

Contract == INSTANCE DeliveryContract WITH
    NoOffset <- Unset, reading <- Reading, next <- ReadPos

(* The consumer implements at-least-once delivery: every step of the event *)
(* loop, a commit of the tracker, a rebalance, a crash and restart, is a   *)
(* step of the contract, so commits never move back nor pass an offset    *)
(* OnProcess has not accepted, and reassigned partitions resume right     *)
(* after the committed offset.                                             *)
ContractSpec == Contract!Spec

=============================================================================
