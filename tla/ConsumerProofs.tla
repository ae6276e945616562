--------------------------- MODULE ConsumerProofs ---------------------------
(***************************************************************************)
(* Proofs about the consumer event loop of module Consumer: its type       *)
(* invariant, and the at-least-once invariants NoSkip and NoRedelivery,    *)
(* for every set of partitions, every log length and every commit count.   *)
(***************************************************************************)
EXTENDS Consumer, TLAPS

\* The type of the tracker in TypeOK.
TrkT == [Partitions -> [off : OffsetValue, cnt : Nat]]

LEMMA UnsetFacts == Unset \in OffsetValue /\ Unset \in Int /\ Unset < 0
  BY DEF Unset, OffsetValue

LEMMA NoOffsetsType == NoOffsets \in TrkT /\ \A p \in Partitions : NoOffsets[p].off = Unset
  BY UnsetFacts DEF NoOffsets, TrkT

(* What one commitOffsets(t) leaves behind: each committed offset is the   *)
(* tracked one or the old one, and each tracked offset is kept or Unset.   *)
LEMMA CommitStep ==
  ASSUME NEW t \in TrkT,
         committed \in [Partitions -> OffsetValue],
         commitOffsets(t)
  PROVE  /\ committed' \in [Partitions -> OffsetValue]
         /\ trk' \in TrkT
         /\ \A p \in Partitions : committed'[p] \in {t[p].off, committed[p]}
         /\ \A p \in Partitions : trk'[p].off \in {t[p].off, Unset}
<1>1. PICK a \in CommitAttempts(t) :
         /\ committed' = CommitTo(t, a[1])
         /\ trk' = AfterCommit(t, a)
  BY DEF commitOffsets
<1>2. a[1] \subseteq Partitions /\ a[2] \in BOOLEAN
  BY DEF CommitAttempts, Keys
<1>3. committed' \in [Partitions -> OffsetValue]
      /\ \A p \in Partitions : committed'[p] \in {t[p].off, committed[p]}
  BY <1>1, <1>2 DEF CommitTo, TrkT
<1>4. trk' \in TrkT /\ \A p \in Partitions : trk'[p].off \in {t[p].off, Unset}
  BY <1>1, <1>2, UnsetFacts DEF AfterCommit, Remove, TrkT
<1>5. QED
  BY <1>3, <1>4

(* What commitOffsets(t) followed by Clear() leaves behind.                *)
LEMMA ClearStep ==
  ASSUME NEW t \in TrkT,
         committed \in [Partitions -> OffsetValue],
         commitAndClear(t)
  PROVE  /\ committed' \in [Partitions -> OffsetValue]
         /\ trk' = NoOffsets
         /\ \A p \in Partitions : committed'[p] \in {t[p].off, committed[p]}
<1>1. PICK a \in CommitAttempts(t) :
         /\ committed' = CommitTo(t, a[1])
         /\ trk' = NoOffsets
  BY DEF commitAndClear
<1>2. a[1] \subseteq Partitions
  BY DEF CommitAttempts, Keys
<1>3. QED
  BY <1>1, <1>2 DEF CommitTo, TrkT

-----------------------------------------------------------------------------
(* Init establishes the type invariant.                                   *)
LEMMA TypeInit == Init => TypeOK
<1> USE ConsumerAssumption
<1> SUFFICES ASSUME Init PROVE TypeOK
  OBVIOUS
<1>1. pos \in [Partitions -> 0 .. LogEnd + 1]
  BY DEF Init
<1>2. trk \in [Partitions -> [off : OffsetValue, cnt : Nat]]
  BY NoOffsetsType DEF Init, TrkT
<1>3. committed \in [Partitions -> OffsetValue]
  BY UnsetFacts DEF Init
<1>4. processed \in [Partitions -> SUBSET Offsets]
  BY DEF Init
<1>5. QED
  BY <1>1, <1>2, <1>3, <1>4 DEF Init, TypeOK

(* Every step of the event loop, of Stop and of a restart keeps the type.  *)
LEMMA TypeStep == TypeOK /\ [Next]_vars => TypeOK'
<1> USE ConsumerAssumption
<1> SUFFICES ASSUME TypeOK, [Next]_vars PROVE TypeOK'
  OBVIOUS
<1> trk \in TrkT
  BY DEF TypeOK, TrkT
<1>1. CASE Start
  BY <1>1 DEF Start, TypeOK
<1>2. CASE Stop
  BY <1>2 DEF Stop, TypeOK
<1>3. CASE CtxDone
  BY <1>3, CommitStep DEF CtxDone, closeReader, TypeOK, TrkT
<1>4. CASE Tick
  BY <1>4, CommitStep DEF Tick, TypeOK, TrkT
<1>5. ASSUME NEW P \in (SUBSET Partitions) \ {{}}, HandleRebalance(P)
      PROVE TypeOK'
  <2>1. committed' \in [Partitions -> OffsetValue] /\ trk' = NoOffsets
    BY <1>5, ClearStep DEF HandleRebalance, TypeOK
  <2>2. \A c \in OffsetValue : AssignPos(Reconcile(c)) \in 0 .. LogEnd + 1
    BY UnsetFacts DEF AssignPos, Reconcile, OffsetValue, Unset
  <2>3. pos' \in [Partitions -> 0 .. LogEnd + 1]
    BY <1>5, <2>1, <2>2 DEF HandleRebalance, TypeOK
  <2>4. QED
    BY <1>5, <2>1, <2>3, NoOffsetsType DEF HandleRebalance, closeReader, TypeOK, TrkT
<1>6. CASE HandleRevoke
  BY <1>6, ClearStep, NoOffsetsType DEF HandleRevoke, closeReader, TypeOK, TrkT
<1>7. ASSUME NEW p \in Partitions, HandleMessage(p)
      PROVE TypeOK'
  <2> DEFINE t == Add(trk, p, MsgOffset(pos[p]))
  <2>1. pos' \in [Partitions -> 0 .. LogEnd + 1]
    BY <1>7 DEF HandleMessage, TypeOK
  <2>2. t \in TrkT
    BY <1>7 DEF HandleMessage, TypeOK, TrkT, Add, MsgOffset, OffsetValue
  <2>3. processed' \in [Partitions -> SUBSET Offsets]
    BY <1>7 DEF HandleMessage, TypeOK, Offsets
  <2>4. committed' \in [Partitions -> OffsetValue] /\ trk' \in TrkT
    BY <1>7, <2>2, CommitStep DEF HandleMessage, TypeOK
  <2>5. QED
    BY <1>7, <2>1, <2>3, <2>4 DEF HandleMessage, closeReader, TypeOK, TrkT
<1>8. ASSUME NEW p \in Partitions, HandlePartitionEOF(p)
      PROVE TypeOK'
  BY <1>8, ClearStep, NoOffsetsType DEF HandlePartitionEOF, closeReader, TypeOK, TrkT
<1>9. CASE HandleOffsetCommitted
  BY <1>9, CommitStep DEF HandleOffsetCommitted, closeReader, TypeOK, TrkT
<1>10. CASE ProcessRestart
  BY <1>10, NoOffsetsType DEF ProcessRestart, TypeOK, TrkT
<1>11. CASE UNCHANGED vars
  BY <1>11 DEF vars, TypeOK
<1>12. QED
  BY <1>1, <1>2, <1>3, <1>4, <1>5, <1>6, <1>7, <1>8, <1>9, <1>10, <1>11 DEF Next

(* The type invariant of the consumer, for every value of the constants.   *)
THEOREM TypeCorrect == Spec => []TypeOK
  BY TypeInit, TypeStep, PTL DEF Spec
-----------------------------------------------------------------------------
(* The consumer's at-least-once invariants.  They need the Go client's     *)
(* meaning of Message.TopicPartition.Offset (the message's own offset):    *)
(* under the other meaning the +1 of handleRebalance skips a message, as   *)
(* the run consumer_spec_next_offset shows.                                *)

LEMMA IInvInit == Init => IInv
<1> USE ConsumerAssumption
<1> SUFFICES ASSUME Init PROVE IInv
  OBVIOUS
<1>1. TypeOK
  BY TypeInit
<1>2. CommittedProcessed /\ TrackerProcessed
  BY NoOffsetsType, UnsetFacts DEF Init, CommittedProcessed, TrackerProcessed
<1>3. QED
  BY <1>1, <1>2 DEF Init, IInv, IdleClean, TrackerBelowPos, NoSkip, NoRedelivery

(* The six conjuncts of IInv besides TypeOK.                               *)
Rest ==
    /\ CommittedProcessed
    /\ TrackerProcessed
    /\ IdleClean
    /\ TrackerBelowPos
    /\ NoSkip
    /\ NoRedelivery

LEMMA IInvStep == ~ReportsNextOffset /\ IInv /\ [Next]_vars => IInv'
<1> USE ConsumerAssumption
<1> SUFFICES ASSUME ~ReportsNextOffset, IInv, [Next]_vars PROVE IInv'
  OBVIOUS
<1> USE DEF IInv
<1>0. TypeOK'
  BY TypeStep
<1> SUFFICES Rest'
  BY <1>0 DEF Rest
<1> trk \in TrkT /\ committed \in [Partitions -> OffsetValue]
      /\ pos \in [Partitions -> 0 .. LogEnd + 1] /\ assigned \subseteq Partitions
      /\ processed \in [Partitions -> SUBSET Offsets]
  BY DEF TypeOK, TrkT
<1>1. CASE Start
  BY <1>1, NoOffsetsType, UnsetFacts
     DEF Start, Rest, IdleClean, CommittedProcessed, TrackerProcessed, TrackerBelowPos, NoSkip, NoRedelivery
<1>2. CASE Stop
  BY <1>2
     DEF Stop, Rest, IdleClean, CommittedProcessed, TrackerProcessed, TrackerBelowPos, NoSkip, NoRedelivery
<1>3. CASE CtxDone
  <2>1. /\ \A p \in Partitions : committed'[p] \in {trk[p].off, committed[p]}
        /\ \A p \in Partitions : trk'[p].off \in {trk[p].off, Unset}
    BY <1>3, CommitStep DEF CtxDone
  <2>2. CommittedProcessed' /\ TrackerProcessed'
    BY <1>3, <2>1, UnsetFacts DEF CtxDone, CommittedProcessed, TrackerProcessed
  <2>3. QED
    BY <1>3, <2>2 DEF CtxDone, closeReader, Rest, IdleClean, TrackerBelowPos, NoSkip, NoRedelivery
<1>4. CASE Tick
  <2>1. /\ \A p \in Partitions : committed'[p] \in {trk[p].off, committed[p]}
        /\ \A p \in Partitions : trk'[p].off \in {trk[p].off, Unset}
    BY <1>4, CommitStep DEF Tick
  <2>2. CommittedProcessed' /\ TrackerProcessed'
    BY <1>4, <2>1, UnsetFacts DEF Tick, CommittedProcessed, TrackerProcessed
  <2>3. TrackerBelowPos' /\ NoRedelivery'
    BY <1>4, <2>1, UnsetFacts DEF Tick, TrackerBelowPos, NoRedelivery
  <2>4. QED
    BY <1>4, <2>2, <2>3 DEF Tick, Rest, IdleClean, NoSkip
<1>5. ASSUME NEW P \in (SUBSET Partitions) \ {{}}, HandleRebalance(P)
      PROVE Rest'
  <2>1. /\ committed' \in [Partitions -> OffsetValue]
        /\ trk' = NoOffsets
        /\ \A p \in Partitions : committed'[p] \in {trk[p].off, committed[p]}
    BY <1>5, ClearStep DEF HandleRebalance
  <2>2. CommittedProcessed' /\ TrackerProcessed'
    BY <1>5, <2>1, NoOffsetsType, UnsetFacts
       DEF HandleRebalance, CommittedProcessed, TrackerProcessed
  <2>3. CASE closeReader /\ UNCHANGED pos
    BY <1>5, <2>2, <2>3 DEF closeReader, Rest, IdleClean, TrackerBelowPos, NoSkip, NoRedelivery
  <2>4. CASE /\ assigned' = P
             /\ pos' = [p \in Partitions |->
                          IF p \in P THEN AssignPos(Reconcile(committed'[p])) ELSE pos[p]]
             /\ UNCHANGED <<phase, readerOpen>>
    <3>1. \A p \in P : \A o \in 0 .. pos'[p] - 1 : o \in processed'[p]
      BY <1>5, <2>1, <2>2, <2>4, UnsetFacts
         DEF HandleRebalance, CommittedProcessed, AssignPos, Reconcile, OffsetValue
    <3>2. \A p \in P : pos'[p] > committed'[p]
      BY <2>1, <2>4, UnsetFacts DEF AssignPos, Reconcile, OffsetValue
    <3>3. \A p \in Partitions : pos'[p] >= 0
      BY <2>1, <2>4, UnsetFacts DEF AssignPos, Reconcile, OffsetValue
    <3>4. phase' = "loop"
      BY <1>5, <2>4 DEF HandleRebalance
    <3>5. TrackerBelowPos'
      BY <1>0, <2>1, <3>3, <3>4, NoOffsetsType, UnsetFacts DEF TrackerBelowPos, TypeOK
    <3>6. NoSkip' /\ NoRedelivery'
      BY <2>4, <3>1, <3>2 DEF NoSkip, NoRedelivery
    <3>7. QED
      BY <2>2, <3>4, <3>5, <3>6 DEF Rest, IdleClean
  <2>5. QED
    BY <1>5, <2>3, <2>4 DEF HandleRebalance
<1>6. CASE HandleRevoke
  <2>1. /\ trk' = NoOffsets
        /\ \A p \in Partitions : committed'[p] \in {trk[p].off, committed[p]}
    BY <1>6, ClearStep DEF HandleRevoke
  <2>2. CommittedProcessed' /\ TrackerProcessed'
    BY <1>6, <2>1, NoOffsetsType, UnsetFacts
       DEF HandleRevoke, CommittedProcessed, TrackerProcessed
  <2>3. CASE closeReader
    BY <2>2, <2>3 DEF closeReader, Rest, IdleClean, TrackerBelowPos, NoSkip, NoRedelivery
  <2>4. CASE assigned' = {} /\ UNCHANGED <<phase, readerOpen>>
    <3>1. TrackerBelowPos'
      BY <1>6, <2>1, NoOffsetsType, UnsetFacts DEF HandleRevoke, TrackerBelowPos
    <3>2. QED
      BY <1>6, <2>2, <2>4, <3>1 DEF HandleRevoke, Rest, IdleClean, NoSkip, NoRedelivery
  <2>5. QED
    BY <1>6, <2>3, <2>4 DEF HandleRevoke
<1>7. ASSUME NEW p \in Partitions, HandleMessage(p)
      PROVE Rest'
  <2> DEFINE t == Add(trk, p, MsgOffset(pos[p]))
  <2>0. phase = "loop" /\ p \in assigned /\ pos[p] < LogEnd
        /\ pos' = [pos EXCEPT ![p] = pos[p] + 1]
    BY <1>7 DEF HandleMessage
  <2>1. CASE /\ commitOffsets(trk)
             /\ closeReader
             /\ UNCHANGED processed
    <3>1. /\ \A q \in Partitions : committed'[q] \in {trk[q].off, committed[q]}
          /\ \A q \in Partitions : trk'[q].off \in {trk[q].off, Unset}
      BY <2>1, CommitStep
    <3>2. CommittedProcessed' /\ TrackerProcessed'
      BY <2>1, <3>1, UnsetFacts DEF CommittedProcessed, TrackerProcessed
    <3>3. QED
      BY <2>1, <3>2 DEF closeReader, Rest, IdleClean, TrackerBelowPos, NoSkip, NoRedelivery
  <2>2. CASE /\ processed' = [processed EXCEPT ![p] = processed[p] \cup {pos[p]}]
             /\ IF CommitOffsetCount > 0 /\ Counter(t) >= CommitOffsetCount
                  THEN commitOffsets(t)
                  ELSE trk' = t /\ UNCHANGED committed
             /\ UNCHANGED <<phase, readerOpen, assigned>>
    <3>1. t \in TrkT /\ t[p].off = pos[p] /\ \A q \in Partitions \ {p} : t[q] = trk[q]
      BY <2>0 DEF TypeOK, TrkT, Add, MsgOffset, OffsetValue
    <3>2. \A q \in Partitions : \A o \in 0 .. t[q].off : o \in processed'[q]
      BY <2>0, <2>2, <3>1 DEF NoSkip, TrackerProcessed
    <3>3. \A q \in Partitions : t[q].off < pos'[q]
      BY <2>0, <3>1 DEF TrackerBelowPos
    <3>4. /\ \A q \in Partitions : committed'[q] \in {t[q].off, committed[q]}
          /\ \A q \in Partitions : trk'[q].off \in {t[q].off, Unset}
      BY <2>2, <3>1, CommitStep, UnsetFacts
    <3>5. CommittedProcessed' /\ TrackerProcessed'
      BY <2>2, <3>2, <3>4, UnsetFacts DEF CommittedProcessed, TrackerProcessed
    <3>6. TrackerBelowPos' /\ NoRedelivery'
      <4>1. \A q \in Partitions : pos'[q] \in Int /\ pos'[q] >= 0 /\ pos'[q] >= pos[q]
        BY <1>0, <2>0 DEF TypeOK
      <4>2. TrackerBelowPos'
        BY <2>2, <3>3, <3>4, <4>1, UnsetFacts DEF TrackerBelowPos
      <4>3. NoRedelivery'
        <5> SUFFICES ASSUME NEW q \in assigned' PROVE pos'[q] > committed'[q]
          BY <2>2 DEF NoRedelivery
        <5>1. committed[q] < pos[q] /\ t[q].off < pos'[q] /\ q \in Partitions
          BY <2>0, <2>2, <3>3 DEF NoRedelivery
        <5>2. QED
          BY <3>1, <3>4, <4>1, <5>1, UnsetFacts DEF TrkT, OffsetValue
      <4>4. QED
        BY <4>2, <4>3
    <3>7. NoSkip'
      <4> SUFFICES ASSUME NEW q \in assigned', NEW o \in 0 .. pos'[q] - 1
                   PROVE o \in processed'[q]
        BY <2>0, <2>2 DEF NoSkip
      <4>1. CASE q = p
        BY <2>0, <2>2, <4>1 DEF NoSkip
      <4>2. CASE q # p
        BY <2>0, <2>2, <4>2 DEF NoSkip
      <4>3. QED
        BY <4>1, <4>2
    <3>8. QED
      BY <2>0, <2>2, <3>5, <3>6, <3>7 DEF Rest, IdleClean
  <2>3. QED
    BY <1>7, <2>1, <2>2 DEF HandleMessage
<1>8. ASSUME NEW p \in Partitions, HandlePartitionEOF(p)
      PROVE Rest'
  <2>1. /\ trk' = NoOffsets
        /\ \A q \in Partitions : committed'[q] \in {trk[q].off, committed[q]}
    BY <1>8, ClearStep DEF HandlePartitionEOF
  <2>2. CommittedProcessed' /\ TrackerProcessed'
    BY <1>8, <2>1, NoOffsetsType, UnsetFacts
       DEF HandlePartitionEOF, CommittedProcessed, TrackerProcessed
  <2>3. TrackerBelowPos' /\ NoRedelivery'
    BY <1>8, <2>1, NoOffsetsType, UnsetFacts
       DEF HandlePartitionEOF, closeReader, TrackerBelowPos, NoRedelivery
  <2>4. QED
    BY <1>8, <2>2, <2>3 DEF HandlePartitionEOF, closeReader, Rest, IdleClean, NoSkip
<1>9. CASE HandleOffsetCommitted
  <2>1. /\ \A p \in Partitions : committed'[p] \in {trk[p].off, committed[p]}
        /\ \A p \in Partitions : trk'[p].off \in {trk[p].off, Unset}
    BY <1>9, CommitStep DEF HandleOffsetCommitted
  <2>2. CommittedProcessed' /\ TrackerProcessed'
    BY <1>9, <2>1, UnsetFacts DEF HandleOffsetCommitted, CommittedProcessed, TrackerProcessed
  <2>3. QED
    BY <1>9, <2>2 DEF HandleOffsetCommitted, closeReader, Rest, IdleClean, TrackerBelowPos,
                      NoSkip, NoRedelivery
<1>10. CASE ProcessRestart
  BY <1>10, NoOffsetsType, UnsetFacts
     DEF ProcessRestart, Rest, IdleClean, CommittedProcessed, TrackerProcessed, TrackerBelowPos,
         NoSkip, NoRedelivery
<1>11. CASE UNCHANGED vars
  BY <1>11 DEF vars, Rest, IdleClean, CommittedProcessed, TrackerProcessed, TrackerBelowPos,
               NoSkip, NoRedelivery
<1>12. QED
  BY <1>1, <1>2, <1>3, <1>4, <1>5, <1>6, <1>7, <1>8, <1>9, <1>10, <1>11 DEF Next

(* At-least-once delivery of the event loop: with the Go client's offsets, *)
(* no message of an assigned partition below the reader position was      *)
(* skipped (NoSkip), and no committed message is delivered again after an *)
(* assignment (NoRedelivery), whatever the partitions, the log length and *)
(* the count threshold, and across failed commits and restarts.           *)
THEOREM AtLeastOnce == ~ReportsNextOffset => (Spec => [](NoSkip /\ NoRedelivery))
<1> SUFFICES ASSUME ~ReportsNextOffset PROVE Spec => [](NoSkip /\ NoRedelivery)
  OBVIOUS
<1>1. Init => IInv
  BY IInvInit
<1>2. IInv /\ [Next]_vars => IInv'
  BY IInvStep
<1>3. IInv => NoSkip /\ NoRedelivery
  BY DEF IInv
<1>4. QED
  BY <1>1, <1>2, <1>3, PTL DEF Spec

(* The fix for issue 212 on its own: with the Go client's offsets, a       *)
(* partition handleRebalance assigns is never read again from a message    *)
(* the broker holds as committed, for all constants.                       *)
THEOREM NoRedeliveryThm == ~ReportsNextOffset => (Spec => []NoRedelivery)
  BY AtLeastOnce, PTL

-----------------------------------------------------------------------------
(* The refinement of DeliveryContract.  A commit never moves an offset     *)
(* back because every key of the tracker is at or above the broker's      *)
(* committed offset: handleMessage adds pos[p], which NoRedelivery puts    *)
(* above it, and a commit only lowers nothing it does not also remove.     *)
KeyAbove == \A p \in Partitions : trk[p].cnt > 0 => trk[p].off >= committed[p]

RInv == IInv /\ KeyAbove

\* Keys of tracker t at or above the committed offsets.
KeysAbove(t) == \A p \in Partitions : t[p].cnt > 0 => t[p].off >= committed[p]

(* A commitOffsets(t) of such a tracker moves no committed offset back and *)
(* leaves every remaining key at or above the new committed offset.        *)
LEMMA CommitMono ==
  ASSUME NEW t \in TrkT,
         committed \in [Partitions -> OffsetValue],
         KeysAbove(t),
         commitOffsets(t)
  PROVE  /\ \A p \in Partitions : committed'[p] >= committed[p]
         /\ \A p \in Partitions : trk'[p].cnt > 0 => trk'[p].off >= committed'[p]
<1>1. PICK a \in CommitAttempts(t) :
         /\ committed' = CommitTo(t, a[1])
         /\ trk' = AfterCommit(t, a)
  BY DEF commitOffsets
<1>2. a[1] \subseteq Keys(t) /\ a[2] \in BOOLEAN
  BY DEF CommitAttempts
<1>3. \A p \in Partitions : committed'[p] \in Int /\ committed[p] \in Int /\ t[p].off \in Int
  BY <1>1, <1>2, UnsetFacts DEF CommitTo, TrkT, OffsetValue, Keys
<1>4. \A p \in Partitions : committed'[p] >= committed[p]
  BY <1>1, <1>2, <1>3 DEF CommitTo, KeysAbove, Keys
<1>5. \A p \in Partitions : trk'[p].cnt > 0 => trk'[p] = t[p]
  BY <1>1, <1>2 DEF AfterCommit, Remove, TrkT
<1>6. QED
  BY <1>1, <1>2, <1>3, <1>4, <1>5 DEF CommitTo, KeysAbove, Keys

(* commitOffsets(t) followed by Clear() moves no committed offset back.    *)
LEMMA ClearMono ==
  ASSUME NEW t \in TrkT,
         committed \in [Partitions -> OffsetValue],
         KeysAbove(t),
         commitAndClear(t)
  PROVE  /\ \A p \in Partitions : committed'[p] >= committed[p]
         /\ trk' = NoOffsets
<1>1. PICK a \in CommitAttempts(t) :
         /\ committed' = CommitTo(t, a[1])
         /\ trk' = NoOffsets
  BY DEF commitAndClear
<1>2. a[1] \subseteq Keys(t)
  BY DEF CommitAttempts
<1>3. \A p \in Partitions : committed[p] \in Int /\ t[p].off \in Int
  BY UnsetFacts DEF TrkT, OffsetValue
<1>4. QED
  BY <1>1, <1>2, <1>3 DEF CommitTo, KeysAbove, Keys

(* A step in which every partition either keeps its reading or stops being *)
(* read, with nothing processed, is a step of the contract for each one.   *)
LEMMA ReadStill ==
  ASSUME NEW p \in Partitions,
         p \in Reading' <=> p \in Reading,
         ReadPos'[p] = ReadPos[p],
         processed'[p] = processed[p]
  PROVE  Contract!Read(p)
  BY DEF ReadPos, Contract!Read

LEMMA ReadStop ==
  ASSUME NEW p \in Partitions,
         Reading' = {},
         processed'[p] = processed[p]
  PROVE  Contract!Read(p)
  BY DEF ReadPos, Contract!Read

(* Commits that move no offset back, with the readings of all partitions   *)
(* each a step of the contract, make a step of the contract.               *)
LEMMA ContractNextOf ==
  ASSUME TypeOK, TypeOK', CommittedProcessed',
         \A p \in Partitions : committed'[p] >= committed[p],
         \A p \in Partitions : Contract!Read(p)
  PROVE  Contract!Next
<1>1. Reading' \in SUBSET Partitions
  BY DEF Reading, TypeOK
<1>2. ReadPos' \in [Partitions -> 0 .. LogEnd + 1]
  BY ConsumerAssumption DEF ReadPos, TypeOK
<1>3. committed' \in [Partitions -> Contract!CommitValue]
      /\ processed' \in [Partitions -> SUBSET Contract!Offsets]
  BY DEF TypeOK, OffsetValue, Offsets, Contract!CommitValue, Contract!Offsets
<1>4. ASSUME NEW p \in Partitions PROVE Contract!Commit(p)
  <2>1. committed[p] \in Int /\ committed'[p] \in Int
    BY UnsetFacts DEF TypeOK, OffsetValue
  <2>2. committed'[p] = committed[p] \/ committed'[p] > committed[p]
    BY <2>1
  <2>3. QED
    BY <2>2 DEF Contract!Commit, Contract!ProcessedUpTo, CommittedProcessed
<1>5. QED
  BY <1>1, <1>2, <1>3, <1>4 DEF Contract!Next

(* Every step of the consumer is a step of the contract or leaves its      *)
(* variables alone, and keeps every tracker key above the commit.          *)
LEMMA RefineStep ==
  ~ReportsNextOffset /\ RInv /\ [Next]_vars => [Contract!Next]_Contract!vars /\ KeyAbove'
<1> USE ConsumerAssumption
<1> SUFFICES ASSUME ~ReportsNextOffset, IInv, KeyAbove, [Next]_vars
             PROVE  [Contract!Next]_Contract!vars /\ KeyAbove'
  BY DEF RInv
<1> USE DEF IInv
<1> trk \in TrkT /\ committed \in [Partitions -> OffsetValue] /\ KeysAbove(trk)
  BY DEF TypeOK, TrkT, KeyAbove, KeysAbove
<1>0. TypeOK' /\ CommittedProcessed'
  BY IInvStep
<1> DEFINE Mono == \A p \in Partitions : committed'[p] >= committed[p]
           Reads == \A p \in Partitions : Contract!Read(p)
<1>a. Mono /\ Reads => Contract!Next
  BY <1>0, ContractNextOf
<1>b. KeyAbove' <=> KeysAbove(trk)'
  BY DEF KeyAbove, KeysAbove
<1>c. NoOffsets = trk' => KeyAbove'
  BY NoOffsetsType DEF KeyAbove, NoOffsets
<1>1. CASE Start
  <2>1. Reading = {} /\ Reading' = {}
    BY <1>1 DEF Start, Reading, IdleClean
  <2>2. QED
    BY <1>1, <2>1 DEF Start, ReadPos, KeyAbove, Contract!vars
<1>2. CASE Stop
  BY <1>2 DEF Stop, Reading, ReadPos, KeyAbove, Contract!vars
<1>3. CASE CtxDone
  <2>1. Mono /\ KeyAbove'
    BY <1>3, CommitMono DEF CtxDone, KeyAbove
  <2>2. Reads
    BY <1>3, ReadStop DEF CtxDone, closeReader, Reading
  <2>3. QED
    BY <1>a, <2>1, <2>2
<1>4. CASE Tick
  <2>1. Mono /\ KeyAbove'
    BY <1>4, CommitMono DEF Tick, KeyAbove
  <2>2. Reads
    BY <1>4, ReadStill DEF Tick, Reading, ReadPos
  <2>3. QED
    BY <1>a, <2>1, <2>2
<1>5. ASSUME NEW P \in (SUBSET Partitions) \ {{}}, HandleRebalance(P)
      PROVE [Contract!Next]_Contract!vars /\ KeyAbove'
  <2>1. Mono /\ KeyAbove'
    BY <1>5, <1>c, ClearMono DEF HandleRebalance
  <2>2. CASE closeReader /\ UNCHANGED pos
    <3>1. Reading' = {} /\ UNCHANGED processed
      BY <1>5, <2>2 DEF HandleRebalance, closeReader, Reading
    <3>2. Reads
      BY <3>1, ReadStop
    <3>3. QED
      BY <1>a, <2>1, <3>2
  <2>3. CASE /\ assigned' = P
             /\ pos' = [p \in Partitions |->
                          IF p \in P THEN AssignPos(Reconcile(committed'[p])) ELSE pos[p]]
             /\ UNCHANGED <<phase, readerOpen>>
    <3>1. Reading = {} /\ Reading' = P
      BY <1>5, <2>3 DEF HandleRebalance, Reading
    <3>2. ASSUME NEW p \in Partitions PROVE Contract!Read(p)
      <4>1. CASE p \in P
        <5>1. committed'[p] \in OffsetValue
          BY <1>0 DEF TypeOK
        <5>2. ReadPos'[p] = Contract!ResumeAt(committed'[p])
          BY <2>3, <3>1, <4>1, <5>1, UnsetFacts
             DEF ReadPos, AssignPos, Reconcile, OffsetValue, Contract!ResumeAt
        <5>3. QED
          BY <1>5, <3>1, <4>1, <5>2 DEF HandleRebalance, Contract!Read
      <4>2. CASE p \notin P
        BY <1>5, <3>1, <4>2 DEF HandleRebalance, ReadPos, Contract!Read
      <4>3. QED
        BY <4>1, <4>2
    <3>3. QED
      BY <1>a, <2>1, <3>2
  <2>4. QED
    BY <1>5, <2>2, <2>3 DEF HandleRebalance
<1>6. CASE HandleRevoke
  <2>1. Mono /\ KeyAbove'
    BY <1>6, <1>c, ClearMono DEF HandleRevoke
  <2>2. Reading' = {} /\ UNCHANGED processed
    BY <1>6 DEF HandleRevoke, closeReader, Reading
  <2>3. Reads
    BY <2>2, ReadStop
  <2>4. QED
    BY <1>a, <2>1, <2>3
<1>7. ASSUME NEW p \in Partitions, HandleMessage(p)
      PROVE [Contract!Next]_Contract!vars /\ KeyAbove'
  <2> DEFINE t == Add(trk, p, MsgOffset(pos[p]))
  <2>0. phase = "loop" /\ p \in assigned /\ pos[p] < LogEnd
        /\ pos' = [pos EXCEPT ![p] = pos[p] + 1]
    BY <1>7 DEF HandleMessage
  <2>1. CASE /\ commitOffsets(trk)
             /\ closeReader
             /\ UNCHANGED processed
    <3>1. Mono /\ KeyAbove'
      BY <2>1, CommitMono DEF KeyAbove
    <3>2. Reads
      BY <2>1, ReadStop DEF closeReader, Reading
    <3>3. QED
      BY <1>a, <3>1, <3>2
  <2>2. CASE /\ processed' = [processed EXCEPT ![p] = processed[p] \cup {pos[p]}]
             /\ IF CommitOffsetCount > 0 /\ Counter(t) >= CommitOffsetCount
                  THEN commitOffsets(t)
                  ELSE trk' = t /\ UNCHANGED committed
             /\ UNCHANGED <<phase, readerOpen, assigned>>
    <3>1. t \in TrkT /\ KeysAbove(t)
      <4>1. t \in TrkT /\ t[p].off = pos[p] /\ \A q \in Partitions \ {p} : t[q] = trk[q]
        BY <2>0 DEF TypeOK, TrkT, Add, MsgOffset, OffsetValue
      <4>2. pos[p] > committed[p]
        BY <2>0 DEF NoRedelivery
      <4>3. ASSUME NEW q \in Partitions, t[q].cnt > 0 PROVE t[q].off >= committed[q]
        <5>1. CASE q = p
          BY <4>1, <4>2, <5>1, UnsetFacts DEF TypeOK, OffsetValue
        <5>2. CASE q # p
          BY <4>1, <4>3, <5>2 DEF KeysAbove
        <5>3. QED
          BY <5>1, <5>2
      <4>4. QED
        BY <4>1, <4>3 DEF KeysAbove
    <3>2. Mono /\ KeyAbove'
      <4>1. CASE CommitOffsetCount > 0 /\ Counter(t) >= CommitOffsetCount
        BY <2>2, <3>1, <4>1, CommitMono DEF KeyAbove
      <4>2. CASE ~(CommitOffsetCount > 0 /\ Counter(t) >= CommitOffsetCount)
        BY <2>2, <3>1, <4>2, UnsetFacts DEF KeyAbove, KeysAbove, OffsetValue
      <4>3. QED
        BY <4>1, <4>2
    <3>3. Reading' = Reading /\ p \in Reading
      BY <2>0, <2>2 DEF Reading
    <3>4. ASSUME NEW q \in Partitions PROVE Contract!Read(q)
      <4>1. CASE q = p
        <5>1. ReadPos[p] = pos[p] /\ ReadPos'[p] = pos[p] + 1
          BY <2>0, <3>3 DEF ReadPos, TypeOK
        <5>2. processed'[p] = processed[p] \cup {pos[p]}
          BY <2>2 DEF TypeOK
        <5>3. QED
          BY <2>0, <3>3, <4>1, <5>1, <5>2 DEF Contract!Read
      <4>2. CASE q # p
        BY <2>0, <2>2, <3>3, <4>2, ReadStill DEF ReadPos
      <4>3. QED
        BY <4>1, <4>2
    <3>5. QED
      BY <1>a, <3>2, <3>4
  <2>3. QED
    BY <1>7, <2>1, <2>2 DEF HandleMessage
<1>8. ASSUME NEW p \in Partitions, HandlePartitionEOF(p)
      PROVE [Contract!Next]_Contract!vars /\ KeyAbove'
  <2>1. Mono /\ KeyAbove'
    BY <1>8, <1>c, ClearMono DEF HandlePartitionEOF
  <2>2. Reads
    <3>1. CASE closeReader
      BY <1>8, <3>1, ReadStop DEF HandlePartitionEOF, closeReader, Reading
    <3>2. CASE UNCHANGED <<phase, readerOpen, assigned>>
      BY <1>8, <3>2, ReadStill DEF HandlePartitionEOF, Reading, ReadPos
    <3>3. QED
      BY <1>8, <3>1, <3>2 DEF HandlePartitionEOF
  <2>3. QED
    BY <1>a, <2>1, <2>2
<1>9. CASE HandleOffsetCommitted
  <2>1. Mono /\ KeyAbove'
    BY <1>9, CommitMono DEF HandleOffsetCommitted, KeyAbove
  <2>2. Reads
    BY <1>9, ReadStop DEF HandleOffsetCommitted, closeReader, Reading
  <2>3. QED
    BY <1>a, <2>1, <2>2
<1>10. CASE ProcessRestart
  <2>1. Mono /\ KeyAbove'
    BY <1>10, <1>c, UnsetFacts DEF ProcessRestart, OffsetValue
  <2>2. Reads
    BY <1>10, ReadStop DEF ProcessRestart, Reading
  <2>3. QED
    BY <1>a, <2>1, <2>2
<1>11. CASE UNCHANGED vars
  BY <1>11 DEF vars, Reading, ReadPos, KeyAbove, Contract!vars
<1>12. QED
  BY <1>1, <1>2, <1>3, <1>4, <1>5, <1>6, <1>7, <1>8, <1>9, <1>10, <1>11 DEF Next

(* The consumer implements the delivery contract (ContractSpec), with the *)
(* Go client's offsets, for every partition set, log length and count     *)
(* threshold: handleRebalance resumes right after the committed offset,   *)
(* commitOffsets never moves a partition's commit back nor past a message  *)
(* OnProcess has not accepted, across partial commits and restarts.        *)
THEOREM Refinement == ~ReportsNextOffset => (Spec => ContractSpec)
<1> SUFFICES ASSUME ~ReportsNextOffset PROVE Spec => ContractSpec
  OBVIOUS
<1>1. Init => RInv
  BY IInvInit, NoOffsetsType DEF Init, RInv, KeyAbove, NoOffsets
<1>2. Init => Contract!Init
  BY DEF Init, Reading, ReadPos, Contract!Init
<1>3. RInv /\ [Next]_vars => RInv'
  BY IInvStep, RefineStep DEF RInv
<1>4. RInv /\ [Next]_vars => [Contract!Next]_Contract!vars
  BY RefineStep
<1>5. QED
  BY <1>1, <1>2, <1>3, <1>4, PTL DEF Spec, ContractSpec, Contract!Spec

(* No commit rewinds the group, for all constants, with the Go client's    *)
(* offsets: every step of the event loop, of a failed or partial commit,   *)
(* of a rebalance and of a restart leaves each committed offset where it   *)
(* was or moves it up.  It follows from the contract step of RefineStep:   *)
(* Contract!Commit allows no other change.                                 *)
THEOREM CommitMonotoneThm == ~ReportsNextOffset => (Spec => CommitMonotone)
<1> SUFFICES ASSUME ~ReportsNextOffset PROVE Spec => CommitMonotone
  OBVIOUS
<1> DEFINE Mono == \A p \in Partitions : committed'[p] >= committed[p]
<1>1. Init => RInv
  BY IInvInit, NoOffsetsType DEF Init, RInv, KeyAbove, NoOffsets
<1>2. RInv /\ [Next]_vars => RInv'
  BY IInvStep, RefineStep DEF RInv
<1>3. RInv /\ [Next]_vars => [Mono]_vars
  <2> SUFFICES ASSUME RInv, [Next]_vars PROVE Mono
    OBVIOUS
  <2>1. \A p \in Partitions : committed[p] \in Int
    BY UnsetFacts DEF RInv, IInv, TypeOK, OffsetValue
  <2>2. CASE Contract!Next
    BY <2>1, <2>2, UnsetFacts DEF Mono, Contract!Next, Contract!Commit, Contract!CommitValue
  <2>3. CASE UNCHANGED Contract!vars
    BY <2>1, <2>3 DEF Mono, Contract!vars
  <2>4. QED
    BY <2>2, <2>3, RefineStep
<1>4. QED
  BY <1>1, <1>2, <1>3, PTL DEF Spec, CommitMonotone

=============================================================================
