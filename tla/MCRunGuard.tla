---------------------------- MODULE MCRunGuard ----------------------------
EXTENDS RunGuard
CONSTANTS t1, t2, k1
=============================================================================
