--------------------------- MODULE MC_CachePool ---------------------------
(* Model-checking instance of CachePool: two stats clients, a pool of two  *)
(* connections, two Opens, two probe attempts.                             *)
EXTENDS CachePool

MC_Capacity == 2
MC_MaxAttempts == 2
MC_MaxGen == 2
=============================================================================
