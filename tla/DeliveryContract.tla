--------------------------- MODULE DeliveryContract ---------------------------
(***************************************************************************)
(* What one consumer promises its users about offsets (spec sections 1 and *)
(* 8): at-least-once delivery.  Per partition it reads messages in order   *)
(* from a position; it commits to the broker only offsets whose message,   *)
(* and every message before it, has been processed; a commit never moves   *)
(* back; and a partition taken up again is read from just after its        *)
(* committed offset.  Any number of partitions may change in one step, as *)
(* one handler of the event loop commits, processes and reassigns at once. *)
(***************************************************************************)
EXTENDS Integers, TLAPS

CONSTANTS
    Partitions,
    LogEnd,      \* messages 0 .. LogEnd-1 in every partition
    NoOffset     \* the broker holds no committed offset

VARIABLES
    reading,     \* the partitions being read
    next,        \* the next offset read, per partition being read (else 0)
    committed,   \* the broker's committed offset, per partition
    processed    \* the offsets handed to the user and accepted

vars == <<reading, next, committed, processed>>

Offsets == 0 .. LogEnd - 1

CommitValue == {NoOffset} \cup 0 .. LogEnd

\* Where reading resumes after the committed offset c.
ResumeAt(c) == IF c = NoOffset THEN 0 ELSE c + 1

ProcessedUpTo(p, o) == \A x \in 0 .. o : x \in processed'[p]

Init ==
    /\ reading = {}
    /\ next = [p \in Partitions |-> 0]
    /\ committed = [p \in Partitions |-> NoOffset]
    /\ processed = [p \in Partitions |-> {}]

\* A commit of p keeps its offset or moves it up to a processed prefix.
Commit(p) ==
    \/ committed'[p] = committed[p]
    \/ /\ committed'[p] > committed[p]
       /\ ProcessedUpTo(p, committed'[p])

\* What a step may do to the reading of p.
Read(p) ==
    \/ /\ p \in reading /\ p \in reading'           \* nothing delivered
       /\ next'[p] = next[p]
       /\ processed'[p] = processed[p]
    \/ /\ p \in reading /\ p \in reading'           \* one message processed
       /\ next[p] < LogEnd
       /\ next'[p] = next[p] + 1
       /\ processed'[p] = processed[p] \cup {next[p]}
    \/ /\ p \in reading /\ p \notin reading'        \* reading stops
       /\ next'[p] = 0
       /\ processed'[p] = processed[p]
    \/ /\ p \notin reading /\ p \in reading'        \* reading resumes
       /\ next'[p] = ResumeAt(committed'[p])
       /\ processed'[p] = processed[p]
    \/ /\ p \notin reading /\ p \notin reading'
       /\ next'[p] = 0
       /\ processed'[p] = processed[p]

Next ==
    /\ reading' \in SUBSET Partitions
    /\ next' \in [Partitions -> 0 .. LogEnd + 1]
    /\ committed' \in [Partitions -> CommitValue]
    /\ processed' \in [Partitions -> SUBSET Offsets]
    /\ \A p \in Partitions : Commit(p) /\ Read(p)

Spec == Init /\ [][Next]_vars

-----------------------------------------------------------------------------
(* The guarantee the contract gives: no message of a partition being read  *)
(* is skipped, and the broker's committed offset only names processed      *)
(* messages, so a restart from it loses nothing.                           *)
ContractInv ==
    /\ \A p \in reading : \A o \in 0 .. next[p] - 1 : o \in processed[p]
    /\ \A p \in Partitions : \A o \in 0 .. committed[p] : o \in processed[p]

\* The types the proof of ContractSafety carries along.
ContractType ==
    /\ committed \in [Partitions -> CommitValue]
    /\ next \in [Partitions -> Int]

\* The contract implies its guarantee, for every sentinel below 0.
THEOREM ContractSafety ==
    NoOffset \in Int /\ NoOffset < 0 /\ LogEnd \in Nat => (Spec => []ContractInv)
<1> SUFFICES ASSUME NoOffset \in Int, NoOffset < 0, LogEnd \in Nat
             PROVE Spec => []ContractInv
  OBVIOUS
<1>1. Init => ContractType /\ ContractInv
  BY DEF Init, ContractInv, ContractType, CommitValue
<1>2. ContractType /\ ContractInv /\ [Next]_vars => ContractType' /\ ContractInv'
  <2> SUFFICES ASSUME ContractType, ContractInv, [Next]_vars
               PROVE ContractType' /\ ContractInv'
    OBVIOUS
  <2>1. CASE UNCHANGED vars
    BY <2>1 DEF ContractInv, ContractType, vars
  <2>2. CASE Next
    <3>0. ContractType' /\ reading' \subseteq Partitions
      BY <2>2 DEF Next, ContractType
    <3>1. ASSUME NEW p \in reading', NEW o \in 0 .. next'[p] - 1
          PROVE o \in processed'[p]
      <4>1. Read(p) /\ Commit(p)
        BY <2>2 DEF Next
      <4>2. committed'[p] \in CommitValue
        BY <2>2 DEF Next
      <4>3. CASE p \in reading /\ next'[p] = next[p] /\ processed'[p] = processed[p]
        BY <4>3, <3>1 DEF ContractInv
      <4>4. CASE p \in reading /\ next'[p] = next[p] + 1
                 /\ processed'[p] = processed[p] \cup {next[p]}
        <5>1. next[p] \in Int
          BY <4>4, <3>0 DEF ContractType
        <5> QED
          BY <5>1, <4>4, <3>1 DEF ContractInv
      <4>5. CASE p \notin reading /\ next'[p] = ResumeAt(committed'[p])
                 /\ processed'[p] = processed[p]
        <5>1. o \in 0 .. committed'[p]
          BY <4>5, <4>2, <3>1 DEF ResumeAt, CommitValue
        <5>2. CASE committed'[p] = committed[p]
          BY <5>1, <5>2, <4>5, <3>0 DEF ContractInv
        <5>3. CASE ProcessedUpTo(p, committed'[p])
          BY <5>1, <5>3 DEF ProcessedUpTo
        <5> QED
          BY <5>2, <5>3, <4>1 DEF Commit
      <4> QED
        BY <4>1, <4>3, <4>4, <4>5, <3>1 DEF Read
    <3>2. ASSUME NEW p \in Partitions, NEW o \in 0 .. committed'[p]
          PROVE o \in processed'[p]
      <4>1. Read(p) /\ Commit(p)
        BY <2>2 DEF Next
      <4>2. processed[p] \subseteq processed'[p]
        BY <4>1 DEF Read
      <4> QED
        BY <4>1, <4>2 DEF Commit, ContractInv, ProcessedUpTo
    <3> QED
      BY <3>0, <3>1, <3>2 DEF ContractInv
  <2> QED
    BY <2>1, <2>2
<1> QED
  BY <1>1, <1>2, PTL DEF Spec

=============================================================================
