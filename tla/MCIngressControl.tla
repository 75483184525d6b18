--------------------------- MODULE MCIngressControl ---------------------------
(* IngressControl on small instances: one account, no operations, no flows.  *)
EXTENDS IngressControl, TLC

Symmetric == Permutations(Starts)
===============================================================================
