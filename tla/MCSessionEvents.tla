---------------------------- MODULE MCSessionEvents ----------------------------
(* SessionEvents on small instances: no operations and no flows, so that the  *)
(* transitions are the ones any goroutine may force.                          *)
EXTENDS SessionEvents
===============================================================================
