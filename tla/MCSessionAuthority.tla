-------------------------- MODULE MCSessionAuthority --------------------------
(* SessionAuthority on a small instance.  The listeners run in the modules    *)
(* that model them.                                                           *)
EXTENDS SessionAuthority
===============================================================================
