-------------------------- MODULE MCConnectionPool --------------------------
(* Instances of ConnectionPool for TLC: two threads, one host.              *)
EXTENDS ConnectionPool, TLC

CONSTANTS t1, t2, h1

MCIds == 1..MaxRequests
MCSymmetry == Permutations({t1, t2})
=============================================================================
