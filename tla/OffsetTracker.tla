--------------------------- MODULE OffsetTracker ---------------------------
(***************************************************************************)
(* The offset accumulator of one consumer (type `offset` of package        *)
(* consumer, built by newOffset() in listen).  Its source file is not part *)
(* of the repository snapshot, so its operators are written from the       *)
(* specification (section 4.1): a map from partition key to the last       *)
(* offset added and the number of messages added since the key entered    *)
(* the map.                                                                *)
(*                                                                         *)
(* A tracker is a total function on Partitions; a key is present exactly   *)
(* when its count is positive (Add is the only operation that creates a    *)
(* key, and it sets the count to at least 1).                              *)
(***************************************************************************)
EXTENDS Integers, FiniteSetsExt

CONSTANT Partitions   \* the (topic, partition) keys of the subscribed topics

ASSUME PartitionsAssumption == Partitions # {} /\ IsFiniteSet(Partitions)

\* kafka.OffsetInvalid: the client's "no offset" sentinel.
Unset == -1001

Entry == [off : Int, cnt : Nat]

Tracker == [Partitions -> Entry]

\* newOffset(), and the result of Clear().
NoOffsets == [p \in Partitions |-> [off |-> Unset, cnt |-> 0]]

\* The keys present in tracker t.
Keys(t) == {p \in Partitions : t[p].cnt > 0}

\* Add(TopicPartition): store the offset verbatim, count one more message.
Add(t, p, o) == [t EXCEPT ![p] = [off |-> o, cnt |-> t[p].cnt + 1]]

\* Remove(TopicPartition): drop the key whatever offset the argument has.
Remove(t, p) == [t EXCEPT ![p] = [off |-> Unset, cnt |-> 0]]

\* Counter(): the processed count summed over every key.
Counter(t) == MapThenSumSet(LAMBDA p : t[p].cnt, Partitions)

=============================================================================
