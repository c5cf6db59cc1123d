------------------------- MODULE RedisDeployLimiter -------------------------
(***************************************************************************)
(* The distributed deploy limiter of backend/internal/api/deploy_limiter.go*)
(* (redisDeployLimiter): a semaphore shared by all API replicas and kept   *)
(* in one Redis sorted set.  A member of the set is the random token of    *)
(* one deploy request, its score is the time at which the request was      *)
(* admitted, read from the clock of the replica that serves it.  A Lua     *)
(* script evicts the members whose lease is over and admits the caller     *)
(* while fewer than MaxSlots are left.                                     *)
(*                                                                         *)
(* Time is kept relative: age[d] is how long ago the score of d was        *)
(* written, spent[d] how long d has been queueing or running, keyAge how   *)
(* long ago the expiry of the whole key was renewed.  The clock of replica *)
(* r differs from real time by Offset[r].                                  *)
(***************************************************************************)
EXTENDS Integers, FiniteSets

CONSTANTS
  Deploy,       \* the deploy requests (one token each)
  Replica,      \* the API processes
  Home,         \* Home[d]: the replica that serves d
  Offset,       \* Offset[r]: clock of r minus real time
  MaxSkew,      \* bound on the difference of two clocks
  MaxSlots,     \* DEPLOY_MAX_CONCURRENT
  LeaseTTL,     \* DEPLOY_SLOT_TTL_SECONDS
  WaitBudget,   \* DEPLOY_QUEUE_WAIT_SECONDS
  MaxDeploy,    \* the longest a deploy runs
  RedisFaults   \* the deploys whose calls to Redis may fail

\* leaseTTL's comment: the lease "must exceed the longest possible deploy".
\* With the score and the eviction taken from two clocks the margin has to
\* cover their difference as well.
ASSUME LimiterAssumption ==
  /\ IsFiniteSet(Deploy)
  /\ Home \in [Deploy -> Replica]
  /\ Offset \in [Replica -> Int]
  /\ MaxSkew \in Nat
  /\ \A r, s \in Replica : Offset[r] - Offset[s] <= MaxSkew
  /\ MaxSlots \in Nat \ {0}
  /\ LeaseTTL \in Nat \ {0}
  /\ WaitBudget \in Nat
  /\ MaxDeploy \in Nat
  /\ MaxDeploy + MaxSkew < LeaseTTL
  /\ RedisFaults \subseteq Deploy

VARIABLES
  phase,     \* phase[d]: where acquire, or the handler around it, stands
  bypass,    \* running deploys that the fail-open path admitted
  gone,      \* queueing deploys whose client has disconnected
  members,   \* the sorted set modex:deploysem
  age,       \* age[d]: time since the token of d was scored
  spent,     \* spent[d]: time d has spent in acquire, or running since
  keyAge     \* time since the last PEXPIRE of the sorted set

vars == <<phase, bypass, gone, members, age, spent, keyAge>>

AgeCap  == LeaseTTL + MaxSkew    \* ages are not told apart beyond this
WaitCap == WaitBudget + 1      \* nor are waits past the deadline

Phase == {"idle", "trying", "full", "running"}

Running == {d \in Deploy : phase[d] = "running"}
Queueing == {d \in Deploy : phase[d] \in {"trying", "full"}}

\* The deploys that run under a slot of the semaphore.
Holders == Running \ bypass

-----------------------------------------------------------------------------
\* deployAcquireScript, run on behalf of d with the clock of its replica.

\* Mutant: the eviction uses a lease that is a unit short.
ExpiredEarly(r, m) == age[m] + Offset[r] - Offset[Home[m]] + 1 >= LeaseTTL

\* Mutant: the script evicts nothing.
ExpiredNever(r, m) == FALSE

\* ZREMRANGEBYSCORE -inf (now - ttl): score <= now - ttl.
Expired(r, m) == age[m] + Offset[r] - Offset[Home[m]] >= LeaseTTL

Live(d) == {m \in members : ~Expired(Home[d], m)}

HasRoom(d) == Cardinality(Live(d)) < MaxSlots

\* Mutant: the script admits without ZADD.
RunScriptNoAdd(d) ==
  /\ members' = Live(d)
  /\ keyAge' = IF HasRoom(d) THEN 0 ELSE keyAge
  /\ UNCHANGED age

\* The writes of the script: evict, then ZADD and PEXPIRE if there is room.  The
\* time it is sent with was read when the try began, a second ago at most; that
\* second counts towards MaxSkew.
RunScript(d) ==
  IF HasRoom(d)
  THEN /\ members' = Live(d) \cup {d}
       /\ age' = [age EXCEPT ![d] = 0]
       /\ keyAge' = 0
  ELSE /\ members' = Live(d)
       /\ UNCHANGED <<age, keyAge>>

-----------------------------------------------------------------------------
Init ==
  /\ phase = [d \in Deploy |-> "idle"]
  /\ bypass = {}
  /\ gone = {}
  /\ members = {}
  /\ age = [d \in Deploy |-> 0]
  /\ spent = [d \in Deploy |-> 0]
  /\ keyAge = 0

\* A request enters acquire with a token that is not in the set: tokens are
\* 16 random bytes, so d names a new request once its last token is gone.
Arrive(d) ==
  /\ phase[d] = "idle"
  /\ d \notin members
  /\ phase' = [phase EXCEPT ![d] = "trying"]
  /\ spent' = [spent EXCEPT ![d] = 0]
  /\ UNCHANGED <<bypass, gone, members, age, keyAge>>

\* tryAcquire returns true: the script answered 1.
Admit(d) ==
  /\ phase[d] = "trying"
  /\ HasRoom(d)
  /\ RunScript(d)
  /\ phase' = [phase EXCEPT ![d] = "running"]
  /\ spent' = [spent EXCEPT ![d] = 0]
  /\ gone' = gone \ {d}
  /\ UNCHANGED bypass

\* tryAcquire returns false: the script answered 0.
Refuse(d) ==
  /\ phase[d] = "trying"
  /\ ~HasRoom(d)
  /\ RunScript(d)
  /\ phase' = [phase EXCEPT ![d] = "full"]
  /\ UNCHANGED <<bypass, gone, spent>>

\* tryAcquire sees an error and fails open.  The error may be Redis trouble
\* or the cancelled context of a client that left, and the script may or may
\* not have run on the server before it.
FailOpen(d) ==
  /\ phase[d] = "trying"
  /\ d \in RedisFaults \cup gone
  /\ RunScript(d) \/ UNCHANGED <<members, age, keyAge>>
  /\ phase' = [phase EXCEPT ![d] = "running"]
  /\ spent' = [spent EXCEPT ![d] = 0]
  /\ bypass' = bypass \cup {d}
  /\ gone' = gone \ {d}

\* The script runs but its reply is lost and the client library sends the
\* script again with the same token: d is still trying.
ReplyLost(d) ==
  /\ d \in RedisFaults
  /\ phase[d] = "trying"
  /\ RunScript(d)
  /\ UNCHANGED <<phase, bypass, gone, spent>>

\* Mutant: the loop neither returns nor tries again past the deadline.
ShedNever(d) == FALSE

\* Refused and past the deadline: acquire returns ok = false, the handler 503.
Shed(d) ==
  /\ phase[d] = "full"
  /\ spent[d] > WaitBudget
  /\ phase' = [phase EXCEPT ![d] = "idle"]
  /\ gone' = gone \ {d}
  /\ UNCHANGED <<bypass, members, age, spent, keyAge>>

\* The ticker fires and the loop tries again.
Backoff(d) ==
  /\ phase[d] = "full"
  /\ spent[d] <= WaitBudget
  /\ phase' = [phase EXCEPT ![d] = "trying"]
  /\ UNCHANGED <<bypass, gone, members, age, spent, keyAge>>

\* ctx.Done is seen in the select: acquire returns ok = false.
GiveUp(d) ==
  /\ phase[d] = "full"
  /\ spent[d] <= WaitBudget
  /\ d \in gone
  /\ phase' = [phase EXCEPT ![d] = "idle"]
  /\ gone' = gone \ {d}
  /\ UNCHANGED <<bypass, members, age, spent, keyAge>>

\* Mutant: a release of a fail-open deploy is forgotten.
FinishKeepsBypass(d) ==
  /\ phase[d] = "running"
  /\ members' = members \ {d}
  /\ phase' = [phase EXCEPT ![d] = "idle"]
  /\ UNCHANGED <<bypass, gone, age, spent, keyAge>>

\* The deferred release: ZREM of the own token, or an error that is logged.
Finish(d) ==
  /\ phase[d] = "running"
  /\ \/ members' = members \ {d}
     \/ d \in RedisFaults /\ UNCHANGED members
  /\ phase' = [phase EXCEPT ![d] = "idle"]
  /\ bypass' = bypass \ {d}
  /\ UNCHANGED <<gone, age, spent, keyAge>>

\* The client of a queueing deploy goes away.
Disconnect(d) ==
  /\ d \in Queueing \ gone
  /\ gone' = gone \cup {d}
  /\ UNCHANGED <<phase, bypass, members, age, spent, keyAge>>

\* A replica dies: no deferred release runs.
Crash(r) ==
  LET dead == {d \in Deploy : Home[d] = r}
  IN  /\ \E d \in dead : phase[d] # "idle"
      /\ phase' = [d \in Deploy |-> IF d \in dead THEN "idle" ELSE phase[d]]
      /\ bypass' = bypass \ dead
      /\ gone' = gone \ dead
      /\ UNCHANGED <<members, age, spent, keyAge>>

Older(n, cap) == IF n < cap THEN n + 1 ELSE n

\* A unit of time passes.  No deploy runs longer than MaxDeploy.  The key as a
\* whole disappears when its PEXPIRE has not been renewed for LeaseTTL.
Tick ==
  /\ \A d \in Running : spent[d] < MaxDeploy
  /\ spent' = [d \in Deploy |->
               IF d \in Running THEN spent[d] + 1
               ELSE IF d \in Queueing THEN Older(spent[d], WaitCap) ELSE 0]
  /\ age' = [d \in Deploy |->
               IF d \in members THEN Older(age[d], AgeCap) ELSE 0]
  /\ members' = IF keyAge + 1 >= LeaseTTL THEN {} ELSE members
  /\ keyAge' = IF members' = {} THEN 0 ELSE keyAge + 1
  /\ UNCHANGED <<phase, bypass, gone>>

\* The goroutine that runs acquire for d.
AcquireStep(d) ==
  Admit(d) \/ Refuse(d) \/ Shed(d) \/ Backoff(d) \/ GiveUp(d)

Next ==
  \/ \E d \in Deploy :
       \/ Arrive(d) \/ AcquireStep(d) \/ FailOpen(d) \/ ReplyLost(d)
       \/ Finish(d) \/ Disconnect(d)
  \/ \E r \in Replica : Crash(r)
  \/ Tick

Spec == Init /\ [][Next]_vars

\* Goroutines are scheduled, a handler ends and time passes; clients, faults
\* and crashes owe nothing.
FairSpec ==
  /\ Spec
  /\ \A d \in Deploy : WF_vars(AcquireStep(d)) /\ WF_vars(Finish(d))
  /\ WF_vars(Tick)

-----------------------------------------------------------------------------
TypeOK ==
  /\ phase \in [Deploy -> Phase]
  /\ bypass \subseteq Running
  /\ gone \subseteq Queueing
  /\ members \subseteq Deploy
  /\ age \in [Deploy -> 0 .. AgeCap]
  /\ spent \in [Deploy -> 0 .. WaitCap + MaxDeploy]
  /\ keyAge \in 0 .. LeaseTTL

\* The sorted set never holds more tokens than there are slots, whatever
\* replies are lost and whichever clocks run the eviction.
SetBounded == Cardinality(members) <= MaxSlots

\* No in-flight holder is evicted while still working (the concern of
\* leaseTTL's comment), so a deploy admitted by the script stays counted.
HolderKeepsLease == Holders \subseteq members

\* The bound of newDeployLimiter is global across replicas: outside the
\* fail-open path at most MaxSlots artifacts are ingested at any time.
BoundedIngest == Cardinality(Holders) <= MaxSlots

\* The limiter implements the abstract semaphore.
Slots == INSTANCE BoundedSlots WITH holders <- Holders
ImplementsSlots == Slots!Spec

\* acquire does not queue for ever: a slot, a 503 or a disconnect ends it.
QueueDrains == \A d \in Deploy : d \in Queueing ~> d \notin Queueing

\* A slot whose deploy is over (release failed, or the replica crashed) does
\* not stay taken for ever: eviction or the expiry of the key reclaims it.
LeakedSlotReclaimed ==
  \A d \in Deploy : (d \in members /\ phase[d] = "idle") ~> d \notin members

=============================================================================
