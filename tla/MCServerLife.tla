---------------------------- MODULE MCServerLife ----------------------------
(* Four commands for ServerLife: a server is started, two commands about   *)
(* guests come, and the server is stopped, in any order and overlapping.   *)
EXTENDS ServerLife

Commands ==
  [p \in Procs |-> CASE p = "start" -> "start-server"
                     [] p = "stop" -> "stop-server"
                     [] OTHER -> "guest"]
=============================================================================
