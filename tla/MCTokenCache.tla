---------------------------- MODULE MCTokenCache ----------------------------
(* An instance of TokenCache for TLC: a process whose two threads share a  *)
(* cache in memory, beside two processes that share the cache file.        *)
EXTENDS TokenCache, TLC

CONSTANTS p1, p2, p3, t1, t2, t3, t4

MCProcOf == (t1 :> p1) @@ (t2 :> p1) @@ (t3 :> p2) @@ (t4 :> p3)
MCCacheKind == (p1 :> "memory") @@ (p2 :> "file") @@ (p3 :> "file")
=============================================================================
