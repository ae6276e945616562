----------------------------- MODULE MCConsumer -----------------------------
(* Model-checking instance of Consumer: two partitions of two messages,    *)
(* and a count-based flush after two messages.                             *)
EXTENDS Consumer

MCPartitions == {"p1", "p2"}

=============================================================================
