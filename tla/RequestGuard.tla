---------------------------- MODULE RequestGuard ----------------------------
(***************************************************************************)
(* The guards in front of the handlers of one API process: requestGuards   *)
(* (api/request_guard.go), a fixed window of Limit requests for each       *)
(* client, kept in memory or in Redis, and behind it, in a process without *)
(* Redis, the in-process deploy limiter (localDeployLimiter,               *)
(* api/deploy_limiter.go); RedisDeployLimiter is the other one.            *)
(*                                                                         *)
(* A key is a client together with the class of its requests.  The local   *)
(* limiter reads the clock before it waits for its mutex, so requests pass *)
(* with times that are out of order by up to MaxStall; Redis uses its own  *)
(* clock.  Time is relative: an age is how long ago something happened.    *)
(***************************************************************************)
EXTENDS Integers, FiniteSets

CONSTANTS
  Request,     \* the requests served at the same time
  Key,         \* client address and request class
  None,        \* no window, no key
  Limit,       \* policy.requests
  Window,      \* policy.window
  MaxStall,    \* the longest a request waits for the mutex
  GCEvery,     \* 10 minutes: how often windows are collected
  GCKeep,      \* 2 hours: the age at which they are
  MaxSlots,    \* DEPLOY_MAX_CONCURRENT
  WaitBudget   \* DEPLOY_QUEUE_WAIT_SECONDS

\* A request does not wait for the mutex for a whole window, and a window that
\* is collected is over for everyone who still waits.
ASSUME GuardAssumption ==
  /\ IsFiniteSet(Request)
  /\ None \notin Key /\ None \notin [age : Nat, count : Nat]
  /\ Limit \in Nat \ {0} /\ Window \in Nat \ {0} /\ MaxSlots \in Nat \ {0}
  /\ MaxStall \in Nat /\ MaxStall < Window
  /\ GCEvery \in Nat /\ GCKeep \in Nat /\ Window + MaxStall <= GCKeep
  /\ WaitBudget \in Nat

VARIABLES
  backend,   \* "memory" or "redis": what newRateLimiter has found
  windows,   \* windows[k]: the window of k: [age, count], or None
  gcAge,     \* time since windows were collected
  phase,     \* phase[r]: where r is
  key,       \* key[r]: whose request r is
  spent,     \* spent[r]: time since r read the clock, or began to queue
  sem,       \* the number of elements in the channel of the deploy limiter
  recent,    \* history: recent[k][n], the requests of k that took a place of a
             \* window and were let through less than n units ago
  lost       \* history: lost[k], the places of k's window that runs of the
             \* script took whose reply was lost and asked for again

limiter == <<windows, gcAge, recent, lost>>
vars == <<backend, limiter, phase, key, spent, sem>>

\* Ages and waits are not told apart beyond these.
AgeCap == GCKeep + MaxStall + 1
GCCap == GCEvery + MaxStall + 1
WaitCap == WaitBudget + 1
Horizon == Window + MaxStall

Phase == {"idle", "permit", "handler", "queue", "running"}

\* The deploys that hold an element of the channel.
Holders == {r \in Request : phase[r] = "running"}

\* A request of k is let through now.
Permitted(k) ==
  recent' = [recent EXCEPT ![k] = [n \in 0 .. Horizon |-> IF n = 0 THEN 0 ELSE @[n] + 1]]

-----------------------------------------------------------------------------
Init ==
  /\ backend \in {"memory", "redis"}
  /\ windows = [k \in Key |-> None]
  /\ gcAge = 0
  /\ phase = [r \in Request |-> "idle"]
  /\ key = [r \in Request |-> None]
  /\ spent = [r \in Request |-> 0]
  /\ sem = 0
  /\ recent = [k \in Key |-> [n \in 0 .. Horizon |-> 0]]
  /\ lost = [k \in Key |-> 0]

Becomes(r, from, to) ==
  /\ phase[r] = from
  /\ phase' = [phase EXCEPT ![r] = to]
  /\ spent' = [spent EXCEPT ![r] = 0]
  /\ key' = [key EXCEPT ![r] = None]

\* A request arrives; permit reads the clock.
Arrive(r, k) ==
  /\ phase[r] = "idle"
  /\ phase' = [phase EXCEPT ![r] = "permit"]
  /\ key' = [key EXCEPT ![r] = k]
  /\ UNCHANGED <<backend, limiter, spent, sem>>

\* now.Sub(started) >= window, for a request that read the clock late units
\* ago.
Over(w, late) == w = None \/ w.age - late >= Window

\* The window that allow finds or starts.
Current(k, late) ==
  IF Over(windows[k], late) THEN [age |-> late, count |-> 0] ELSE windows[k]

\* Mutant: the windows that are collected may still be open.
CollectOpen(ws, late) ==
  [k \in Key |-> IF ws[k] # None /\ ws[k].age - late > 0 THEN None ELSE ws[k]]

\* The windows that the garbage collection leaves.
Collect(ws, late) ==
  [k \in Key |-> IF ws[k] # None /\ ws[k].age - late > GCKeep THEN None
                 ELSE ws[k]]

\* allow permits the request.
Allow(r) ==
  LET k == key[r]
      late == spent[r]
      now == Current(k, late)
      ws == [windows EXCEPT ![k] = [now EXCEPT !.count = @ + 1]]
      collect == gcAge - late > GCEvery
  IN  /\ backend = "memory"
      /\ phase[r] = "permit"
      /\ now.count < Limit
      /\ windows' = IF collect THEN Collect(ws, late) ELSE ws
      /\ gcAge' = IF collect THEN late ELSE gcAge
      /\ Permitted(k)
      /\ Becomes(r, "permit", "handler")
      /\ UNCHANGED <<backend, sem, lost>>

\* allow refuses the request: 429, and nothing is written.
Deny(r) ==
  /\ backend = "memory"
  /\ phase[r] = "permit"
  /\ Current(key[r], spent[r]).count >= Limit
  /\ Becomes(r, "permit", "idle")
  /\ UNCHANGED <<backend, limiter, sem>>

\* Mutant: every request renews the expiry of the counter.
IncrRenews(k) ==
  [age |-> 0, count |-> IF windows[k] = None THEN 1 ELSE windows[k].count + 1]

\* rateLimitScript: INCR, and PEXPIRE for the first request of a window.
Incr(k) ==
  IF windows[k] = None THEN [age |-> 0, count |-> 1]
  ELSE [windows[k] EXCEPT !.count = @ + 1]

\* Counters are not told apart once they are beyond the limit.
RunScript(k) ==
  windows' = [windows EXCEPT ![k] =
                [Incr(k) EXCEPT !.count = IF @ > Limit THEN Limit + 1 ELSE @]]

\* The script answers: the request is permitted, or 429.
Answer(r) ==
  LET k == key[r]
      ok == Incr(k).count <= Limit
  IN  /\ backend = "redis"
      /\ phase[r] = "permit"
      /\ RunScript(k)
      /\ IF ok THEN Permitted(k) ELSE UNCHANGED recent
      /\ Becomes(r, "permit", IF ok THEN "handler" ELSE "idle")
      /\ UNCHANGED <<backend, gcAge, sem, lost>>

\* The script has run and its reply is lost with the connection: the client,
\* which retries by default, sends it again.
ReplyLost(r) ==
  LET k == key[r]
  IN  /\ backend = "redis"
      /\ phase[r] = "permit"
      /\ RunScript(k)
      /\ lost' = IF Incr(k).count <= Limit THEN [lost EXCEPT ![k] = @ + 1] ELSE lost
      /\ UNCHANGED <<backend, gcAge, recent, phase, key, spent, sem>>

\* No answer within 200 ms, or an error: the request is let through, whether
\* or not the script has run.
FailOpen(r) ==
  LET k == key[r]
  IN  /\ backend = "redis"
      /\ phase[r] = "permit"
      /\ \/ /\ RunScript(k)
            /\ IF Incr(k).count <= Limit THEN Permitted(k) ELSE UNCHANGED recent
         \/ UNCHANGED <<windows, recent>>
      /\ Becomes(r, "permit", "handler")
      /\ UNCHANGED <<backend, gcAge, sem, lost>>

\* The handler of the request ends; that of a deploy may end before the deploy
\* asks for a slot.
Serve(r) ==
  /\ Becomes(r, "handler", "idle")
  /\ UNCHANGED <<backend, limiter, sem>>

\* acquireDeploySlot, with the limiter of a process without Redis: acquire
\* starts its timer.
Acquire(r) ==
  /\ backend = "memory"
  /\ Becomes(r, "handler", "queue")
  /\ UNCHANGED <<backend, limiter, sem>>

\* Mutant: the channel has room for one element more.
EnterOffByOne(r) ==
  /\ sem <= MaxSlots
  /\ sem' = sem + 1
  /\ Becomes(r, "queue", "running")
  /\ UNCHANGED <<backend, limiter>>

\* acquire: the send to the channel is chosen.
Enter(r) ==
  /\ sem < MaxSlots
  /\ sem' = sem + 1
  /\ Becomes(r, "queue", "running")
  /\ UNCHANGED <<backend, limiter>>

\* acquire: the client is gone.
GiveUp(r) ==
  /\ Becomes(r, "queue", "idle")
  /\ UNCHANGED <<backend, limiter, sem>>

\* acquire: the timer has fired.  A select with several ready cases takes any.
Timeout(r) == spent[r] >= WaitBudget /\ GiveUp(r)

\* Mutant: a handler that ends keeps its element.
LeaveKeeps(r) ==
  /\ Becomes(r, "running", "idle")
  /\ UNCHANGED <<backend, limiter, sem>>

\* The deferred release: a receive from the channel, which has an element.
Leave(r) ==
  /\ sem > 0
  /\ sem' = sem - 1
  /\ Becomes(r, "running", "idle")
  /\ UNCHANGED <<backend, limiter>>

Older(n, cap) == IF n < cap THEN n + 1 ELSE n

\* A window after a unit of time; Redis drops a counter that has expired.
Aged(w) ==
  IF w = None \/ (backend = "redis" /\ w.age + 1 >= Window) THEN None
  ELSE [w EXCEPT !.age = Older(@, AgeCap)]

\* A unit of time passes; the mutex is not held that long.
Tick ==
  /\ \A r \in Request : phase[r] = "permit" => spent[r] < MaxStall
  /\ windows' = [k \in Key |-> Aged(windows[k])]
  /\ gcAge' = IF backend = "memory" THEN Older(gcAge, GCCap) ELSE 0
  /\ spent' = [r \in Request |->
                 IF phase[r] \in {"permit", "queue"} THEN Older(spent[r],
                   IF phase[r] = "permit" THEN MaxStall ELSE WaitCap) ELSE 0]
  /\ recent' = [k \in Key |-> [n \in 0 .. Horizon |->
                  IF n = 0 THEN 0 ELSE recent[k][n - 1]]]
  /\ lost' = [k \in Key |-> IF Aged(windows[k]) = None THEN 0 ELSE lost[k]]
  /\ UNCHANGED <<backend, phase, key, sem>>

Decide(r) == Allow(r) \/ Deny(r) \/ Answer(r)

Next ==
  \/ \E r \in Request :
       \/ \E k \in Key : Arrive(r, k)
       \/ Decide(r) \/ ReplyLost(r) \/ FailOpen(r)
       \/ Serve(r) \/ Acquire(r) \/ Enter(r) \/ GiveUp(r) \/ Timeout(r) \/ Leave(r)
  \/ Tick

Spec == Init /\ [][Next]_vars

-----------------------------------------------------------------------------
TypeOK ==
  /\ backend \in {"memory", "redis"}
  /\ windows \in [Key -> [age : 0 .. AgeCap, count : 1 .. Limit + 1] \cup {None}]
  /\ gcAge \in 0 .. GCCap
  /\ phase \in [Request -> Phase]
  /\ key \in [Request -> Key \cup {None}]
  /\ \A r \in Request : key[r] # None <=> phase[r] = "permit"
  /\ spent \in [Request -> Nat]
  /\ \A r \in Request : phase[r] # "queue" => spent[r] <= MaxStall
  /\ sem = Cardinality(Holders)
  /\ lost \in [Key -> Nat]
  /\ \A k \in Key : IF backend = "memory" \/ windows[k] = None THEN lost[k] = 0
                    ELSE lost[k] <= windows[k].count

\* A fixed window lets fewer than two windows' worth of requests pass in any
\* period as long as a window.  The local limiter judges a request by the time
\* it read before it waited for the mutex, and then a third window may begin.
BurstBounded ==
  \A k \in Key :
    recent[k][Window] < (IF backend = "redis" THEN 2 ELSE 3) * Limit

\* A client that is refused had its share: Limit of its requests were let
\* through within a window of the time at which the refused one arrived, also
\* when Redis has counted requests whose answer did not come.  The client of
\* Redis repeats a script whose reply is lost, and INCR counts that run too: in
\* Redis, and only there, those places of the open window are missing from the
\* share.
RefusalJustified ==
  [][\A r \in Request :
       phase[r] = "permit" /\ phase'[r] = "idle"
       => /\ recent[key[r]][Window + spent[r]] + lost[key[r]] >= Limit
          /\ backend = "memory" => recent[key[r]][Window + spent[r]] >= Limit]_vars

\* The in-process deploy limiter implements the abstract semaphore.
Slots == INSTANCE BoundedSlots WITH Deploy <- Request, holders <- Holders
ImplementsSlots == Slots!Spec

=============================================================================
