-------------------------- MODULE MCSessionLifecycle --------------------------
(* SessionLifecycle on small instances: no proxy flows, and no listeners, which *)
(* have modules of their own.                                                   *)
EXTENDS SessionLifecycle, TLC

Symmetric == Permutations(Ops) \cup Permutations(Users)
===============================================================================
