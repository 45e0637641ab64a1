---------------------------- MODULE MCDataPusher ----------------------------
(***************************************************************************)
(* A data pusher small enough for its liveness properties: one connection, *)
(* one queue and worker, one push goroutine that retries once.             *)
(***************************************************************************)
EXTENDS DataPusher

MCClient == {"c1"}
MCKind == {"device"}
MCPusher == {"p1"}
=============================================================================
