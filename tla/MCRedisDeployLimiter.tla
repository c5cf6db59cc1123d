------------------------ MODULE MCRedisDeployLimiter ------------------------
(***************************************************************************)
(* Instances of RedisDeployLimiter for TLC: two replicas whose clocks are  *)
(* one unit apart; the lease is the shortest that covers the longest       *)
(* deploy and the difference of the clocks.                                *)
(***************************************************************************)
EXTENDS RedisDeployLimiter

CONSTANTS d1, d2, d3, r1, r2

MCHome == [d \in Deploy |-> IF d = d1 THEN r1 ELSE r2]
MCOffset == [r \in Replica |-> IF r = r1 THEN 1 ELSE 0]

=============================================================================
