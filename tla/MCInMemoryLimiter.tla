--------------------------- MODULE MCInMemoryLimiter ---------------------------
(* InMemoryLimiter for TLC, over a window of a few ticks: a call takes at  *)
(* least two of them, three when it looks at a full window.                *)
EXTENDS InMemoryLimiter

MCWindow == 5
===============================================================================
