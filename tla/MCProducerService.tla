-------------------------- MODULE MCProducerService --------------------------
(***************************************************************************)
(* One worker, one outside caller, one device with two sensors.            *)
(***************************************************************************)
EXTENDS ProducerService

MCWorker == {"w1"}
MCCaller == {"c1"}
=============================================================================
