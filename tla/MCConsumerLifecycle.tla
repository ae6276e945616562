------------------------ MODULE MCConsumerLifecycle ------------------------
(* Two Start callers (a double Start), two Stop callers and one resume     *)
(* goroutine of Sleep around one consumer.                                 *)
EXTENDS ConsumerLifecycle

CONSTANTS s1, s2, t1, t2, g1

MCStartCallers == {s1, s2}
MCStopCallers == {t1, t2}
MCSleepers == {g1}

=============================================================================
