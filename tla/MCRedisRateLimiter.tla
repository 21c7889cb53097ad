-------------------------- MODULE MCRedisRateLimiter ---------------------------
(* RedisRateLimiter for TLC: callers are interchangeable where only safety *)
(* is checked.                                                             *)
EXTENDS RedisRateLimiter, TLC

Symmetry == Permutations(Callers)
===============================================================================
