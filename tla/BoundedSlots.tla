---------------------------- MODULE BoundedSlots ----------------------------
(***************************************************************************)
(* What a deployLimiter promises (backend/internal/api/deploy_limiter.go): *)
(* at most MaxSlots artifacts hold an ingest slot at the same time, a slot *)
(* is given only while one is free and it comes back when its holder ends. *)
(* Several holders may end in one step: a process that dies takes all of   *)
(* its deploys with it.                                                    *)
(*                                                                         *)
(* RedisDeployLimiter implements this specification, and so does the       *)
(* limiter of a process without Redis (RequestGuard).                      *)
(***************************************************************************)
EXTENDS Naturals, FiniteSets

CONSTANTS
  Deploy,     \* the deploy requests
  MaxSlots    \* DEPLOY_MAX_CONCURRENT

VARIABLE holders

Init == holders = {}

Acquire(d) ==
  /\ d \notin holders
  /\ Cardinality(holders) < MaxSlots
  /\ holders' = holders \cup {d}

Release(S) ==
  /\ S # {}
  /\ S \subseteq holders
  /\ holders' = holders \ S

Next ==
  \/ \E d \in Deploy : Acquire(d)
  \/ \E S \in SUBSET Deploy : Release(S)

Spec == Init /\ [][Next]_holders

=============================================================================
