------------------------- MODULE MCConsumerService -------------------------
(* TLC instance of ConsumerService: each kind of change to a configuration. *)
EXTENDS ConsumerService

Base     == [group |-> 0, timeout |-> 0, topic |-> 0]
MCConfig == {Base, [Base EXCEPT !.group = 1], [Base EXCEPT !.timeout = 1], [Base EXCEPT !.topic = 1]}
=============================================================================
