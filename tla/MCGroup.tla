------------------------------- MODULE MCGroup -------------------------------
(* A group of two workers, so that a Consumer.Stop of the deferred loop    *)
(* can overtake the Consumer.Start of a later worker.                      *)
EXTENDS Group

=============================================================================
