-------------------------- MODULE MCConsumerGroup --------------------------
(***************************************************************************)
(* A small consumer group member for TLC: the partitions hold between one  *)
(* and MaxLog messages of either kind.                                     *)
(***************************************************************************)
EXTENDS ConsumerGroup

CONSTANT MaxLog

MCLogs == UNION {[1 .. n -> Kinds] : n \in 1 .. MaxLog}
=============================================================================
