--------------------------- MODULE MCBatchProcessor ---------------------------
(* TLC instance of BatchProcessor: bad and worse cannot be encoded and     *)
(* share a key and a partition; m1 has a partition of its own.             *)
EXTENDS BatchProcessor

CONSTANTS bad, worse, m1

MCMessage == {bad, worse, m1}
MCKey == {"k1", "k2"}
MCPartition == {1, 2}
MCKeyOf == [m \in MCMessage |-> IF m = m1 THEN "k2" ELSE "k1"]
MCPartitionOf == [k \in MCKey |-> IF k = "k1" THEN 1 ELSE 2]
MCUnencodable == {bad, worse}
=============================================================================
