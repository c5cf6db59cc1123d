------------------------- MODULE RequestGuardProofs -------------------------
(***************************************************************************)
(* Theorems about RequestGuard, for every finite set of requests, any keys *)
(* and every value of the bounds that GuardAssumption admits.              *)
(*                                                                         *)
(* The channel of the in-process limiter is a number, and what it promises *)
(* is about a set of deploys: the invariant that joins them, that the      *)
(* number is the size of the set, is part of TypeOK.  What the limiters    *)
(* promise is about every stretch of time, and a window knows only its     *)
(* own: GuardInv says what every window, old or new, leaves of it.         *)
(***************************************************************************)
EXTENDS RequestGuard, FiniteSetTheorems, TLAPS

-----------------------------------------------------------------------------
(***************************************************************************)
(* Phases and the channel.                                                 *)
(***************************************************************************)

\* The holders are finitely many.
LEMMA HoldersFinite ==
  /\ IsFiniteSet(Holders)
  /\ Cardinality(Holders) \in Nat
BY GuardAssumption, FS_Subset, FS_CardinalityType DEF Holders

\* A request that changes its phase keeps the types of phase, key and spent.
LEMMA BecomesType ==
  ASSUME TypeOK, NEW r \in Request, NEW from \in Phase,
         NEW to \in Phase \ {"permit"}, Becomes(r, from, to)
  PROVE  /\ phase' \in [Request -> Phase]
         /\ key' \in [Request -> Key \cup {None}]
         /\ spent' \in [Request -> Nat]
         /\ \A q \in Request : key'[q] # None <=> phase'[q] = "permit"
         /\ \A q \in Request : phase'[q] # "queue" => spent'[q] <= MaxStall
         /\ Holders' = IF to = "running" THEN Holders \cup {r}
                       ELSE Holders \ {r}
BY GuardAssumption DEF TypeOK, Becomes, Phase, Holders

\* A change of phase that neither begins nor ends a deploy at work leaves the
\* holders alone.
LEMMA BecomesHolders ==
  ASSUME TypeOK, NEW r \in Request, NEW from \in Phase \ {"running"},
         NEW to \in Phase \ {"permit", "running"}, Becomes(r, from, to)
  PROVE  Holders' = Holders
BY DEF TypeOK, Becomes, Phase, Holders

-----------------------------------------------------------------------------
(***************************************************************************)
(* Windows.                                                                *)
(***************************************************************************)

WindowType == [age : 0 .. AgeCap, count : 1 .. Limit + 1] \cup {None}

\* The caps are natural numbers beyond every delay.
LEMMA Caps ==
  /\ AgeCap \in Nat /\ GCCap \in Nat
  /\ MaxStall <= AgeCap /\ MaxStall <= GCCap
BY GuardAssumption DEF AgeCap, GCCap

\* Time adds at most one to an age and does not pass its cap.
LEMMA OlderType ==
  ASSUME NEW cap \in Nat, NEW n \in 0 .. cap
  PROVE  Older(n, cap) \in 0 .. cap
BY DEF Older

\* What allow writes is a window.
LEMMA AllowWindow ==
  ASSUME TypeOK, NEW k \in Key, NEW late \in 0 .. MaxStall,
         Current(k, late).count < Limit
  PROVE  [Current(k, late) EXCEPT !.count = @ + 1] \in WindowType
<1>1. CASE Over(windows[k], late)
  <2>1. Current(k, late) = [age |-> late, count |-> 0]
    BY <1>1 DEF Current
  <2>2. late \in 0 .. AgeCap
    BY Caps, GuardAssumption
  <2>. QED
    BY <2>1, <2>2, GuardAssumption DEF WindowType
<1>2. CASE ~Over(windows[k], late)
  <2>1. Current(k, late) = windows[k] /\ windows[k] # None
    BY <1>2 DEF Current, Over
  <2>2. windows[k] \in [age : 0 .. AgeCap, count : 1 .. Limit + 1]
    BY <2>1 DEF TypeOK
  <2>. QED
    BY <2>1, <2>2, GuardAssumption DEF WindowType
<1>. QED
  BY <1>1, <1>2

\* What the script writes is a window.
LEMMA ScriptWindows ==
  ASSUME TypeOK, NEW k \in Key, RunScript(k)
  PROVE  windows' \in [Key -> WindowType]
<1>. DEFINE w == [Incr(k) EXCEPT !.count = IF @ > Limit THEN Limit + 1 ELSE @]
<1>1. Incr(k) \in [age : 0 .. AgeCap, count : 1 .. Limit + 2]
  <2>1. CASE windows[k] = None
    BY <2>1, Caps, GuardAssumption DEF Incr
  <2>2. CASE windows[k] # None
    <3>1. windows[k] \in [age : 0 .. AgeCap, count : 1 .. Limit + 1]
      BY <2>2 DEF TypeOK
    <3>. QED
      BY <2>2, <3>1, GuardAssumption DEF Incr
  <2>. QED
    BY <2>1, <2>2
<1>2. w \in WindowType
  BY <1>1, GuardAssumption DEF WindowType
<1>3. windows \in [Key -> WindowType]
  BY DEF TypeOK, WindowType
<1>. QED
  BY <1>2, <1>3 DEF RunScript

\* The count of a window does not shrink while it is open.
LEMMA ScriptCounts ==
  ASSUME TypeOK, NEW k \in Key, RunScript(k)
  PROVE  \A q \in Key :
           /\ q # k => windows'[q] = windows[q]
           /\ windows'[k] # None /\ windows'[k].count \in Nat /\ windows'[k].count >= 1
           /\ windows[k] # None =>
                /\ windows[k].count \in Nat /\ windows'[k].count >= windows[k].count
                /\ Incr(k).count <= Limit => windows'[k].count = windows[k].count + 1
<1>. DEFINE w == windows[k]
            v == [Incr(k) EXCEPT !.count = IF @ > Limit THEN Limit + 1 ELSE @]
<1>1. windows \in [Key -> WindowType] /\ windows' = [windows EXCEPT ![k] = v]
  BY DEF TypeOK, WindowType, RunScript
<1>2. windows'[k] = v /\ \A q \in Key : q # k => windows'[q] = windows[q]
  BY <1>1
<1>3. CASE w = None
  <2>1. Incr(k) = [age |-> 0, count |-> 1]
    BY <1>3 DEF Incr
  <2>2. v = [age |-> 0, count |-> 1]
    BY <2>1, GuardAssumption
  <2>3. v \in [age : Nat, count : Nat] /\ v.count = 1
    BY <2>2
  <2>4. v # None
    BY <2>3, GuardAssumption
  <2>. QED
    BY <1>2, <1>3, <2>3, <2>4
<1>4. CASE w # None
  <2>1. w \in [age : 0 .. AgeCap, count : 1 .. Limit + 1]
    BY <1>1, <1>4 DEF WindowType
  <2>2. Incr(k) = [w EXCEPT !.count = @ + 1]
    BY <1>4 DEF Incr
  <2>3. /\ Incr(k) \in [age : 0 .. AgeCap, count : 2 .. Limit + 2]
        /\ Incr(k).count = w.count + 1
    BY <2>1, <2>2, GuardAssumption
  <2>4. /\ v \in [age : Nat, count : Nat]
        /\ v.count = IF w.count + 1 > Limit THEN Limit + 1 ELSE w.count + 1
    BY <2>3, Caps, GuardAssumption
  <2>5. v # None /\ w.count \in 1 .. Limit + 1
    BY <2>1, <2>4, GuardAssumption
  <2>. QED
    BY <1>2, <2>3, <2>4, <2>5, GuardAssumption
<1>. QED
  BY <1>3, <1>4

\* What TypeOK says of the lost runs.
LostType ==
  /\ lost \in [Key -> Nat]
  /\ \A k \in Key : IF backend = "memory" \/ windows[k] = None THEN lost[k] = 0
                    ELSE lost[k] <= windows[k].count

\* A run of the script whose reply arrives, or is not waited for, loses none.
LEMMA ScriptLost ==
  ASSUME TypeOK, NEW k \in Key, RunScript(k), backend = "redis", backend' = backend,
         lost' = lost
  PROVE  LostType'
<1>1. /\ lost \in [Key -> Nat]
      /\ \A q \in Key : IF windows[q] = None THEN lost[q] = 0 ELSE lost[q] <= windows[q].count
  BY DEF TypeOK
<1>2. ASSUME NEW q \in Key
      PROVE  IF windows'[q] = None THEN lost[q] = 0 ELSE lost[q] <= windows'[q].count
  <2>1. CASE q = k
    BY <1>1, <2>1, ScriptCounts
  <2>2. CASE q # k
    BY <1>1, <2>2, ScriptCounts
  <2>. QED
    BY <2>1, <2>2
<1>. QED
  BY <1>1, <1>2 DEF LostType

-----------------------------------------------------------------------------
(***************************************************************************)
(* The type invariant, action by action.                                   *)
(***************************************************************************)

\* An arriving request is one that waits with a key.
LEMMA ArriveTypeOK ==
  ASSUME TypeOK, NEW r \in Request, NEW k \in Key, Arrive(r, k)
  PROVE  TypeOK'
<1>1. Holders' = Holders
  BY DEF TypeOK, Arrive, Holders
<1>. QED
  BY <1>1, GuardAssumption DEF TypeOK, Arrive, limiter, Phase

\* allow writes a window and, when it collects, drops some.
LEMMA AllowTypeOK ==
  ASSUME TypeOK, NEW r \in Request, Allow(r)
  PROVE  TypeOK'
<1>. DEFINE k == key[r]
            late == spent[r]
            w == [Current(k, late) EXCEPT !.count = @ + 1]
            ws == [windows EXCEPT ![k] = w]
<1>1. k \in Key /\ late \in 0 .. MaxStall
  BY GuardAssumption DEF TypeOK, Allow
<1>2. w \in WindowType
  BY <1>1, AllowWindow DEF Allow
<1>3. windows' \in [Key -> WindowType]
  <2>1. ws \in [Key -> WindowType]
    BY <1>2 DEF TypeOK, WindowType
  <2>2. Collect(ws, late) \in [Key -> WindowType]
    <3>1. None \in WindowType
      BY DEF WindowType
    <3>. QED
      BY <2>1, <3>1 DEF Collect
  <2>3. windows' = ws \/ windows' = Collect(ws, late)
    BY DEF Allow
  <2>. QED
    BY <2>1, <2>2, <2>3
<1>4. gcAge' \in 0 .. GCCap
  <2>1. late \in 0 .. GCCap
    BY <1>1, Caps, GuardAssumption
  <2>. QED
    BY <2>1 DEF TypeOK, Allow
<1>5. Becomes(r, "permit", "handler") /\ backend' = backend /\ sem' = sem
  BY DEF Allow
<1>6. Holders' = Holders
  BY <1>5, BecomesHolders DEF Phase
<1>7. LostType'
  BY DEF TypeOK, LostType, Allow
<1>. QED
  BY <1>3, <1>4, <1>5, <1>6, <1>7, BecomesType DEF TypeOK, WindowType, LostType, Phase

\* A refusal changes nothing but the phase.
LEMMA DenyTypeOK ==
  ASSUME TypeOK, NEW r \in Request, Deny(r)
  PROVE  TypeOK'
<1>1. Becomes(r, "permit", "idle")
  BY DEF Deny
<1>2. Holders' = Holders
  BY <1>1, BecomesHolders DEF Phase
<1>. QED
  BY <1>1, <1>2, BecomesType DEF TypeOK, Deny, limiter, Phase

\* The script writes the window of the request alone.
LEMMA AnswerTypeOK ==
  ASSUME TypeOK, NEW r \in Request, Answer(r)
  PROVE  TypeOK'
<1>1. RunScript(key[r]) /\ key[r] \in Key
  BY DEF TypeOK, Answer
<1>2. windows' \in [Key -> WindowType]
  BY <1>1, ScriptWindows
<1>3. PICK to \in {"handler", "idle"} : Becomes(r, "permit", to)
  BY DEF Answer
<1>4. Holders' = Holders
  BY <1>3, BecomesHolders DEF Phase
<1>5. LostType'
  BY <1>1, ScriptLost DEF Answer
<1>. QED
  BY <1>2, <1>3, <1>4, <1>5, BecomesType DEF TypeOK, Answer, WindowType, LostType, Phase

\* A lost reply is one place more, when its run took one.
LEMMA ReplyLostTypeOK ==
  ASSUME TypeOK, NEW r \in Request, ReplyLost(r)
  PROVE  TypeOK' /\ Holders' = Holders
<1>1. RunScript(key[r]) /\ key[r] \in Key /\ backend = "redis" /\ backend' = "redis"
  BY DEF TypeOK, ReplyLost
<1>2. windows' \in [Key -> WindowType]
  BY <1>1, ScriptWindows
<1>3. Holders' = Holders
  BY DEF ReplyLost, Holders
<1>4. /\ lost \in [Key -> Nat]
      /\ \A q \in Key : IF windows[q] = None THEN lost[q] = 0 ELSE lost[q] <= windows[q].count
  BY <1>1 DEF TypeOK
<1>5. /\ lost' \in [Key -> Nat]
      /\ \A q \in Key : lost'[q] = IF q = key[r] /\ Incr(key[r]).count <= Limit
                                  THEN lost[q] + 1 ELSE lost[q]
  BY <1>1, <1>4 DEF ReplyLost
<1>6. ASSUME NEW q \in Key
      PROVE  IF windows'[q] = None THEN lost'[q] = 0 ELSE lost'[q] <= windows'[q].count
  <2>1. CASE q = key[r]
    <3>1. CASE windows[q] = None
      BY <1>1, <1>4, <1>5, <2>1, <3>1, ScriptCounts
    <3>2. CASE windows[q] # None
      BY <1>1, <1>4, <1>5, <2>1, <3>2, ScriptCounts
    <3>. QED
      BY <3>1, <3>2
  <2>2. CASE q # key[r]
    BY <1>1, <1>4, <1>5, <2>2, ScriptCounts
  <2>. QED
    BY <2>1, <2>2
<1>. QED
  BY <1>1, <1>2, <1>3, <1>5, <1>6 DEF TypeOK, ReplyLost, WindowType

\* The same, or nothing, when its answer does not come.
LEMMA FailOpenTypeOK ==
  ASSUME TypeOK, NEW r \in Request, FailOpen(r)
  PROVE  TypeOK'
<1>1. key[r] \in Key
  BY DEF TypeOK, FailOpen
<1>2. windows' \in [Key -> WindowType]
  <2>1. windows \in [Key -> WindowType]
    BY DEF TypeOK, WindowType
  <2>2. RunScript(key[r]) \/ windows' = windows
    BY DEF FailOpen
  <2>. QED
    BY <1>1, <2>1, <2>2, ScriptWindows
<1>3. Becomes(r, "permit", "handler")
  BY DEF FailOpen
<1>4. Holders' = Holders
  BY <1>3, BecomesHolders DEF Phase
<1>5. LostType'
  <2>1. CASE RunScript(key[r])
    BY <1>1, <2>1, ScriptLost DEF FailOpen
  <2>2. CASE windows' = windows
    BY <2>2 DEF FailOpen, TypeOK, LostType
  <2>. QED
    BY <2>1, <2>2 DEF FailOpen
<1>. QED
  BY <1>2, <1>3, <1>4, <1>5, BecomesType DEF TypeOK, FailOpen, WindowType, LostType, Phase

\* Serve, Acquire and GiveUp (and so Timeout) touch the phase alone.
LEMMA HandlerTypeOK ==
  ASSUME TypeOK, NEW r \in Request, Serve(r) \/ Acquire(r) \/ GiveUp(r)
  PROVE  TypeOK'
<1>1. PICK from \in {"handler", "queue"}, to \in {"idle", "queue"} :
        Becomes(r, from, to)
  BY DEF Serve, Acquire, GiveUp
<1>2. Holders' = Holders
  BY <1>1, BecomesHolders DEF Phase
<1>3. UNCHANGED <<backend, limiter, sem>>
  BY DEF Serve, Acquire, GiveUp
<1>. QED
  BY <1>1, <1>2, <1>3, BecomesType DEF TypeOK, limiter, Phase

\* A deploy that enters is a new holder.
LEMMA EnterTypeOK ==
  ASSUME TypeOK, NEW r \in Request, Enter(r)
  PROVE  /\ TypeOK'
         /\ r \notin Holders
         /\ Holders' = Holders \cup {r}
         /\ Cardinality(Holders) < MaxSlots
<1>1. Becomes(r, "queue", "running")
  BY DEF Enter
<1>2. r \notin Holders /\ Holders' = Holders \cup {r}
  BY <1>1, BecomesType DEF Phase, Holders, Becomes
<1>3. Cardinality(Holders') = Cardinality(Holders) + 1
  BY <1>2, HoldersFinite, FS_AddElement
<1>4. TypeOK'
  BY <1>1, <1>3, BecomesType DEF TypeOK, Enter, limiter, Phase
<1>. QED
  BY <1>2, <1>4 DEF TypeOK, Enter

\* A deploy that leaves was a holder.
LEMMA LeaveTypeOK ==
  ASSUME TypeOK, NEW r \in Request, Leave(r)
  PROVE  /\ TypeOK'
         /\ r \in Holders
         /\ Holders' = Holders \ {r}
<1>1. Becomes(r, "running", "idle")
  BY DEF Leave
<1>2. r \in Holders /\ Holders' = Holders \ {r}
  BY <1>1, BecomesType DEF Phase, Holders, Becomes
<1>3. Cardinality(Holders') = Cardinality(Holders) - 1
  BY <1>2, HoldersFinite, FS_RemoveElement
<1>4. TypeOK'
  BY <1>1, <1>3, BecomesType DEF TypeOK, Leave, limiter, Phase
<1>. QED
  BY <1>2, <1>4

\* Time ages windows and waits up to their caps and moves nobody.
LEMMA TickTypeOK ==
  ASSUME TypeOK, Tick
  PROVE  TypeOK' /\ Holders' = Holders
<1>1. Holders' = Holders
  BY DEF Tick, Holders
<1>2. windows' \in [Key -> WindowType]
  <2>1. ASSUME NEW k \in Key
        PROVE  Aged(windows[k]) \in WindowType
    <3>1. CASE Aged(windows[k]) = None
      BY <3>1 DEF WindowType
    <3>2. CASE Aged(windows[k]) # None
      <4>1. windows[k] \in [age : 0 .. AgeCap, count : 1 .. Limit + 1]
        BY <3>2 DEF Aged, TypeOK
      <4>2. Older(windows[k].age, AgeCap) \in 0 .. AgeCap
        BY <4>1, Caps, OlderType
      <4>. QED
        BY <3>2, <4>1, <4>2 DEF Aged, WindowType
    <3>. QED
      BY <3>1, <3>2
  <2>. QED
    BY <2>1 DEF Tick
<1>3. gcAge' \in 0 .. GCCap
  BY Caps, OlderType DEF Tick, TypeOK
<1>4. /\ spent' \in [Request -> Nat]
      /\ \A r \in Request : phase'[r] # "queue" => spent'[r] <= MaxStall
  <2>1. ASSUME NEW r \in Request
        PROVE  /\ spent'[r] \in Nat
               /\ phase'[r] # "queue" => spent'[r] <= MaxStall
    BY GuardAssumption DEF Tick, TypeOK, Older, WaitCap
  <2>. QED
    BY <2>1 DEF Tick
<1>5. LostType'
  <2>1. /\ lost \in [Key -> Nat]
        /\ \A k \in Key : IF backend = "memory" \/ windows[k] = None THEN lost[k] = 0
                          ELSE lost[k] <= windows[k].count
    BY DEF TypeOK
  <2>2. /\ lost' = [k \in Key |-> IF Aged(windows[k]) = None THEN 0 ELSE lost[k]]
        /\ windows' = [k \in Key |-> Aged(windows[k])] /\ backend' = backend
    BY DEF Tick
  <2>3. lost' \in [Key -> Nat]
    BY <2>1, <2>2
  <2>4. ASSUME NEW k \in Key
        PROVE  IF backend = "memory" \/ windows'[k] = None THEN lost'[k] = 0
               ELSE lost'[k] <= windows'[k].count
    <3>1. CASE Aged(windows[k]) = None
      BY <2>2, <3>1
    <3>2. CASE Aged(windows[k]) # None
      <4>1. /\ windows[k] \in [age : 0 .. AgeCap, count : 1 .. Limit + 1]
            /\ windows[k] # None /\ Aged(windows[k]).count = windows[k].count
        BY <3>2 DEF Aged, TypeOK
      <4>. QED
        BY <2>1, <2>2, <3>2, <4>1
    <3>. QED
      BY <3>1, <3>2
  <2>. QED
    BY <2>2, <2>3, <2>4 DEF LostType
<1>. QED
  BY <1>1, <1>2, <1>3, <1>4, <1>5 DEF TypeOK, Tick, WindowType, LostType

-----------------------------------------------------------------------------
(***************************************************************************)
(* The theorems.                                                           *)
(***************************************************************************)

\* Every step keeps the type invariant and is a step of the abstract
\* semaphore, or leaves its holders alone.
LEMMA GuardStep ==
  ASSUME TypeOK, [Next]_vars
  PROVE  TypeOK' /\ [Slots!Next]_Holders
<1>1. ASSUME NEW r \in Request, NEW k \in Key, Arrive(r, k)
      PROVE  TypeOK' /\ Holders' = Holders
  BY <1>1, ArriveTypeOK DEF TypeOK, Arrive, Holders
<1>2. ASSUME NEW r \in Request,
             \/ Decide(r) \/ FailOpen(r)
             \/ Serve(r) \/ Acquire(r) \/ GiveUp(r) \/ Timeout(r)
      PROVE  TypeOK' /\ Holders' = Holders
  <2>1. TypeOK'
    BY <1>2, AllowTypeOK, DenyTypeOK, AnswerTypeOK, FailOpenTypeOK,
       HandlerTypeOK DEF Decide, Timeout
  <2>2. PICK from \in {"permit", "handler", "queue"},
             to \in {"idle", "handler", "queue"} : Becomes(r, from, to)
    BY <1>2 DEF Decide, Allow, Deny, Answer, FailOpen, Serve, Acquire,
       GiveUp, Timeout
  <2>. QED
    BY <2>1, <2>2, BecomesHolders DEF Phase
<1>3. ASSUME NEW r \in Request, Enter(r)
      PROVE  TypeOK' /\ Slots!Acquire(r)
  <2>1. Slots!Cardinality(Holders) = Cardinality(Holders)
    BY DEF Slots!Cardinality, Cardinality
  <2>. QED
    BY <1>3, <2>1, EnterTypeOK DEF Slots!Acquire
<1>4. ASSUME NEW r \in Request, Leave(r)
      PROVE  TypeOK' /\ Slots!Release({r})
  BY <1>4, LeaveTypeOK DEF Slots!Release
<1>5. ASSUME Tick
      PROVE  TypeOK' /\ Holders' = Holders
  BY <1>5, TickTypeOK
<1>6. ASSUME UNCHANGED vars
      PROVE  TypeOK' /\ Holders' = Holders
  BY <1>6 DEF vars, limiter, TypeOK, Holders
<1>7. ASSUME NEW r \in Request, ReplyLost(r)
      PROVE  TypeOK' /\ Holders' = Holders
  BY <1>7, ReplyLostTypeOK
<1>. QED
  BY <1>1, <1>2, <1>3, <1>4, <1>5, <1>6, <1>7 DEF Next, Slots!Next

\* At the start no deploy holds a slot.
LEMMA InitTypeOK == Init => TypeOK /\ Slots!Init
<1>. SUFFICES ASSUME Init PROVE TypeOK /\ Slots!Init
  OBVIOUS
<1>1. Holders = {}
  BY DEF Init, Holders
<1>2. Cardinality(Holders) = 0
  BY <1>1, FS_EmptySet
<1>. QED
  BY <1>1, <1>2, Caps, GuardAssumption DEF Init, TypeOK, Phase, Slots!Init

\* Every variable of the guard keeps its type, and the channel of the deploy
\* limiter has as many elements as there are deploys at work with a slot.
THEOREM GuardTypeCorrect == Spec => []TypeOK
BY InitTypeOK, GuardStep, PTL DEF Spec

\* The in-process deploy limiter (localDeployLimiter) implements the abstract
\* semaphore: never more deploys at work than slots, whatever clients, timers
\* and the rate limiter in front of it do.
THEOREM ChannelImplementsSlots == Spec => ImplementsSlots
BY InitTypeOK, GuardStep, GuardTypeCorrect, PTL
DEF Spec, ImplementsSlots, Slots!Spec

-----------------------------------------------------------------------------
(***************************************************************************)
(* What the windows bound.                                                 *)
(*                                                                         *)
(* Nothing in BurstBounded speaks of the windows before the current one,   *)
(* and the state does not keep them.  But a window begins at least Window  *)
(* after the one before it, and its first request is let through at most   *)
(* Slack after it begins.  So of the requests that were let through since  *)
(* Slack after the current window began, all of them count in it but the   *)
(* first; going back one more Window adds at most one more Limit, and so   *)
(* on.  That is inductive: when a window begins, each of the bounds is the *)
(* one before it of the old window.                                        *)
(***************************************************************************)

\* How late a request may judge a window: Redis does it when it answers.
Slack == IF backend = "memory" THEN MaxStall ELSE 0

\* Requests of k let through less than n units ago, for every number n; no more
\* is kept than the last Horizon units.
Within(k, n) ==
  IF n <= 0 THEN 0 ELSE recent[k][IF n <= Horizon THEN n ELSE Horizon]

\* The places of a window that requests have taken.
Taken(w) == IF w.count <= Limit THEN w.count ELSE Limit

\* Each request that was let through in the last i units was in the last j.
RecentInv ==
  /\ recent \in [Key -> [0 .. Horizon -> Nat]]
  /\ \A k \in Key : /\ recent[k][0] = 0
                    /\ \A i, j \in 0 .. Horizon : i <= j => recent[k][i] <= recent[k][j]

\* What has been let through beside the window w of k.
Bound(k, w) ==
  IF w = None
  THEN /\ Within(k, Window) <= Limit - 1
       /\ Within(k, 2 * Window) <= 2 * Limit - 1
  ELSE /\ Within(k, w.age - Slack) <= Taken(w) - 1
       /\ Within(k, w.age + Window - Slack) <= Taken(w) + Limit - 1
       /\ Within(k, w.age + 2 * Window - Slack) <= Taken(w) + 2 * Limit - 1

\* The places of w were taken by requests that were let through since it began,
\* or by runs whose reply was lost; in Redis a window that is over is gone.
Share(k, w) ==
  w # None => /\ w.age < Horizon => Within(k, w.age + 1) + lost[k] >= Taken(w)
              /\ backend = "redis" => w.age < Window

WindowInv == \A k \in Key : Bound(k, windows[k]) /\ Share(k, windows[k])

GuardInv == TypeOK /\ RecentInv /\ WindowInv

\* The horizon lies beyond every window and every delay.
LEMMA HorizonType ==
  /\ Horizon \in Nat /\ Window \in Nat /\ Limit \in Nat /\ MaxStall \in Nat
  /\ Window >= 1 /\ Limit >= 1 /\ Horizon = Window + MaxStall
  /\ Slack \in 0 .. MaxStall /\ MaxStall < Window
BY GuardAssumption DEF Horizon, Slack

\* Within is a number, and grows with the time it looks back.
LEMMA WithinGrows ==
  ASSUME RecentInv, NEW k \in Key
  PROVE  /\ \A i \in Int : Within(k, i) \in Nat /\ (i <= 0 => Within(k, i) = 0)
         /\ \A i, j \in Int : i <= j => Within(k, i) <= Within(k, j)
<1>1. \A i \in 0 .. Horizon : recent[k][i] \in Nat
  BY DEF RecentInv
<1>2. \A i, j \in 0 .. Horizon : i <= j => recent[k][i] <= recent[k][j]
  BY DEF RecentInv
<1>3. \A i \in Int : /\ i <= 0 => Within(k, i) = 0
                     /\ i > 0 /\ i <= Horizon => i \in 0 .. Horizon /\ Within(k, i) = recent[k][i]
                     /\ i > Horizon => Within(k, i) = recent[k][Horizon]
  BY HorizonType DEF Within
<1>4. Horizon \in 0 .. Horizon
  BY HorizonType
<1>5. \A i \in Int : Within(k, i) \in Nat
  BY <1>1, <1>3, <1>4, HorizonType
<1>6. ASSUME NEW i \in Int, NEW j \in Int, i <= j
      PROVE  Within(k, i) <= Within(k, j)
  <2>1. CASE i <= 0
    BY <1>3, <1>5, <2>1
  <2>2. CASE i > 0 /\ i <= Horizon
    <3>1. CASE j <= Horizon
      BY <1>2, <1>3, <1>6, <2>2, <3>1
    <3>2. CASE j > Horizon
      BY <1>2, <1>3, <1>4, <2>2, <3>2
    <3>. QED
      BY <3>1, <3>2, HorizonType
  <2>3. CASE i > Horizon
    <3>1. j > Horizon
      BY <1>6, <2>3, HorizonType
    <3>2. Within(k, i) = Within(k, j) /\ Within(k, i) \in Nat
      BY <1>3, <1>5, <2>3, <3>1
    <3>. QED
      BY <3>2
  <2>. QED
    BY <2>1, <2>2, <2>3, HorizonType
<1>. QED
  BY <1>3, <1>5, <1>6

\* A request that is let through is one more in every time that ends now.
LEMMA PermittedWithin ==
  ASSUME RecentInv, NEW k \in Key, Permitted(k)
  PROVE  /\ RecentInv'
         /\ \A i \in Int : Within(k, i)' = IF i <= 0 THEN 0 ELSE Within(k, i) + 1
         /\ \A q \in Key \ {k} : recent'[q] = recent[q]
<1>1. /\ recent' \in [Key -> [0 .. Horizon -> Nat]]
      /\ recent'[k] = [n \in 0 .. Horizon |-> IF n = 0 THEN 0 ELSE recent[k][n] + 1]
      /\ \A q \in Key \ {k} : recent'[q] = recent[q]
  <2>1. /\ recent \in [Key -> [0 .. Horizon -> Nat]]
        /\ [n \in 0 .. Horizon |-> IF n = 0 THEN 0 ELSE recent[k][n] + 1] \in [0 .. Horizon -> Nat]
    BY HorizonType DEF RecentInv
  <2>. QED
    BY <2>1 DEF Permitted
<1>2. \A i \in 0 .. Horizon : /\ recent[k][i] \in Nat
                              /\ recent'[k][i] = IF i = 0 THEN 0 ELSE recent[k][i] + 1
  BY <1>1 DEF RecentInv
<1>3. RecentInv'
  <2>1. ASSUME NEW q \in Key, NEW i \in 0 .. Horizon, NEW j \in 0 .. Horizon, i <= j
        PROVE  recent'[q][i] <= recent'[q][j]
    <3>1. recent[q][i] <= recent[q][j]
      BY <2>1 DEF RecentInv
    <3>2. CASE q = k
      BY <1>2, <2>1, <3>1, <3>2, HorizonType
    <3>3. CASE q # k
      BY <1>1, <3>1, <3>3
    <3>. QED
      BY <3>2, <3>3
  <2>2. \A q \in Key : recent'[q][0] = 0
    <3>1. 0 \in 0 .. Horizon
      BY HorizonType
    <3>. QED
      BY <1>1, <1>2, <3>1 DEF RecentInv
  <2>. QED
    BY <1>1, <2>1, <2>2 DEF RecentInv, Horizon
<1>4. ASSUME NEW i \in Int
      PROVE  Within(k, i)' = IF i <= 0 THEN 0 ELSE Within(k, i) + 1
  <2>1. CASE i <= 0
    BY <2>1 DEF Within
  <2>2. CASE i > 0 /\ i <= Horizon
    <3>1. i \in 0 .. Horizon /\ i # 0
      BY <2>2, HorizonType
    <3>. QED
      BY <1>2, <2>2, <3>1 DEF Within, Horizon
  <2>3. CASE i > 0 /\ i > Horizon
    <3>1. Horizon \in 0 .. Horizon /\ Horizon # 0
      BY HorizonType
    <3>. QED
      BY <1>2, <2>3, <3>1 DEF Within, Horizon
  <2>. QED
    BY <2>1, <2>2, <2>3, HorizonType
<1>. QED
  BY <1>1, <1>3, <1>4

\* After a unit of time what was within i units is within one more.
LEMMA TickWithin ==
  ASSUME RecentInv, Tick
  PROVE  /\ RecentInv'
         /\ \A k \in Key, i \in Int :
              /\ Within(k, i)' \in Nat /\ Within(k, i)' <= Within(k, i - 1)
              /\ i <= Horizon => Within(k, i)' = Within(k, i - 1)
<1>1. /\ recent' = [k \in Key |-> [n \in 0 .. Horizon |-> IF n = 0 THEN 0 ELSE recent[k][n - 1]]]
      /\ \A k \in Key : \A i \in 0 .. Horizon :
           recent'[k][i] = IF i = 0 THEN 0 ELSE recent[k][i - 1]
  BY DEF Tick
<1>2. \A k \in Key : \A i \in 0 .. Horizon : recent[k][i] \in Nat
  BY DEF RecentInv
<1>3. \A i \in 0 .. Horizon : i # 0 => i - 1 \in 0 .. Horizon
  BY HorizonType
<1>4. RecentInv'
  <2>1. \A k \in Key : [n \in 0 .. Horizon |-> IF n = 0 THEN 0 ELSE recent[k][n - 1]]
                         \in [0 .. Horizon -> Nat]
    BY <1>2, <1>3
  <2>2. recent' \in [Key -> [0 .. Horizon -> Nat]]
    BY <1>1, <2>1
  <2>3. ASSUME NEW k \in Key, NEW i \in 0 .. Horizon, NEW j \in 0 .. Horizon, i <= j
        PROVE  recent'[k][i] <= recent'[k][j]
    <3>1. CASE i = 0
      <4>1. recent'[k][i] = 0 /\ recent'[k][j] \in Nat
        BY <1>1, <2>2, <3>1
      <4>. QED
        BY <4>1
    <3>2. CASE i # 0
      <4>1. j # 0 /\ i - 1 \in 0 .. Horizon /\ j - 1 \in 0 .. Horizon /\ i - 1 <= j - 1
        BY <1>3, <2>3, <3>2, HorizonType
      <4>2. recent[k][i - 1] <= recent[k][j - 1]
        BY <4>1 DEF RecentInv
      <4>. QED
        BY <1>1, <3>2, <4>1, <4>2
    <3>. QED
      BY <3>1, <3>2
  <2>4. \A k \in Key : recent'[k][0] = 0
    <3>1. 0 \in 0 .. Horizon
      BY HorizonType
    <3>. QED
      BY <1>1, <3>1
  <2>. QED
    BY <2>2, <2>3, <2>4 DEF RecentInv, Horizon
<1>5. ASSUME NEW k \in Key, NEW i \in Int
      PROVE  /\ Within(k, i)' \in Nat /\ Within(k, i)' <= Within(k, i - 1)
             /\ i <= Horizon => Within(k, i)' = Within(k, i - 1)
  <2>1. CASE i <= 0
    <3>1. Within(k, i)' = 0 /\ Within(k, i - 1) = 0
      BY <2>1 DEF Within
    <3>. QED
      BY <3>1
  <2>2. CASE i > 0 /\ i <= Horizon
    <3>1. i \in 0 .. Horizon /\ i # 0 /\ i - 1 <= Horizon /\ 0 \in 0 .. Horizon
      BY <2>2, HorizonType
    <3>2. recent'[k][i] = recent[k][i - 1] /\ recent'[k][i] \in Nat
      BY <1>1, <1>2, <1>3, <3>1
    <3>3. Within(k, i)' = recent'[k][i]
      BY <2>2 DEF Within, Horizon
    <3>4. CASE i = 1
      <4>1. recent[k][i - 1] = 0
        BY <3>4 DEF RecentInv
      <4>. QED
        BY <3>2, <3>3, <3>4, <4>1 DEF Within
    <3>5. CASE i > 1
      <4>1. Within(k, i - 1) = recent[k][i - 1]
        BY <3>1, <3>5 DEF Within
      <4>. QED
        BY <3>2, <3>3, <4>1
    <3>. QED
      BY <2>2, <3>4, <3>5
  <2>3. CASE i > Horizon
    <3>1. Horizon \in 0 .. Horizon /\ Horizon # 0 /\ Horizon - 1 \in 0 .. Horizon
      BY HorizonType
    <3>2. Within(k, i)' = recent[k][Horizon - 1]
      BY <1>1, <2>3, <3>1, HorizonType DEF Within, Horizon
    <3>3. Within(k, i - 1) = recent[k][Horizon]
      BY <2>3, <3>1, HorizonType DEF Within
    <3>4. recent[k][Horizon - 1] <= recent[k][Horizon]
      BY <3>1, HorizonType DEF RecentInv
    <3>5. recent[k][Horizon - 1] \in Nat /\ ~(i <= Horizon)
      BY <1>2, <2>3, <3>1, HorizonType
    <3>. QED
      BY <3>2, <3>3, <3>4, <3>5
  <2>. QED
    BY <2>1, <2>2, <2>3, HorizonType
<1>. QED
  BY <1>4, <1>5


\* A place of k's window is taken, by a request that is let through or by a run
\* whose reply is lost.
TakesPlace(k) ==
  \/ Permitted(k) /\ lost'[k] = lost[k]
  \/ recent'[k] = recent[k] /\ lost'[k] = lost[k] + 1

\* Either way the time that ends now has at most one more that was let through,
\* and exactly one more with the lost ones.
LEMMA PlaceWithin ==
  ASSUME RecentInv, NEW k \in Key, TakesPlace(k), lost[k] \in Nat
  PROVE  /\ lost'[k] \in Nat
         /\ \A i \in Int : /\ Within(k, i) \in Nat /\ Within(k, i)' \in Nat
                           /\ Within(k, i)' <= Within(k, i) + 1
                           /\ i <= 0 => Within(k, i)' = 0
                           /\ i > 0 => Within(k, i)' + lost'[k] = Within(k, i) + lost[k] + 1
<1>1. \A i \in Int : Within(k, i) \in Nat /\ (i <= 0 => Within(k, i) = 0)
  BY WithinGrows
<1>2. CASE Permitted(k) /\ lost'[k] = lost[k]
  <2>1. \A i \in Int : Within(k, i)' = IF i <= 0 THEN 0 ELSE Within(k, i) + 1
    BY <1>2, PermittedWithin
  <2>. QED
    BY <1>1, <1>2, <2>1
<1>3. CASE recent'[k] = recent[k] /\ lost'[k] = lost[k] + 1
  <2>1. \A i \in Int : Within(k, i)' = Within(k, i)
    BY <1>3 DEF Within, Horizon
  <2>. QED
    BY <1>1, <1>3, <2>1
<1>. QED
  BY <1>2, <1>3 DEF TakesPlace

\* A request that joins the window w: it takes one place.
LEMMA JoinBound ==
  ASSUME RecentInv, NEW k \in Key, NEW w \in [age : Nat, count : Nat],
         NEW v \in [age : Nat, count : Nat], v.age = w.age, v.count = w.count + 1,
         Bound(k, w), Share(k, w), w.count < Limit, TakesPlace(k), lost[k] \in Nat,
         backend' = backend
  PROVE  Bound(k, v)' /\ Share(k, v)'
<1>1. Taken(v) = Taken(w) + 1 /\ Taken(w) = w.count
  BY HorizonType DEF Taken
<1>2. Slack' = Slack /\ Slack \in Int
  BY HorizonType DEF Slack
<1>3. \A i \in Int : /\ Within(k, i)' <= Within(k, i) + 1
                     /\ Within(k, i) \in Nat /\ Within(k, i)' \in Nat
                     /\ i > 0 => Within(k, i)' + lost'[k] = Within(k, i) + lost[k] + 1
  BY PlaceWithin
<1>4. v # None /\ w # None
  BY GuardAssumption
<1>5. w.age \in Nat /\ w.count \in Nat
  OBVIOUS
<1>6. /\ Within(k, w.age - Slack) <= Taken(w) - 1
      /\ Within(k, w.age + Window - Slack) <= Taken(w) + Limit - 1
      /\ Within(k, w.age + 2 * Window - Slack) <= Taken(w) + 2 * Limit - 1
  BY <1>4 DEF Bound
<1>7. Bound(k, v)'
  <2>1. /\ Within(k, w.age - Slack)' <= Taken(v) - 1
        /\ Within(k, w.age + Window - Slack)' <= Taken(v) + Limit - 1
        /\ Within(k, w.age + 2 * Window - Slack)' <= Taken(v) + 2 * Limit - 1
    <3>1. \A i \in Int : Within(k, i)' <= Within(k, i) + 1
      BY <1>3
    <3>2. /\ w.age - Slack \in Int /\ w.age + Window - Slack \in Int
          /\ w.age + 2 * Window - Slack \in Int
      BY <1>2, <1>5, HorizonType
    <3>3. \A i \in Int : Within(k, i) \in Nat /\ Within(k, i)' \in Nat
      BY <1>3
    <3>. QED
      BY <1>1, <1>2, <1>5, <1>6, <3>1, <3>2, <3>3, HorizonType
  <2>. QED
    BY <1>2, <1>4, <2>1 DEF Bound, Taken
<1>8. Share(k, v)'
  <2>1. ASSUME w.age < Horizon
        PROVE  Within(k, w.age + 1)' + lost'[k] >= Taken(v)
    <3>1. Within(k, w.age + 1) + lost[k] >= Taken(w)
      BY <1>4, <2>1 DEF Share
    <3>2. w.age + 1 \in Int /\ w.age + 1 > 0
      BY <1>5
    <3>3. /\ Within(k, w.age + 1)' + lost'[k] = Within(k, w.age + 1) + lost[k] + 1
          /\ Within(k, w.age + 1) \in Nat
      BY <1>3, <3>2
    <3>. QED
      BY <1>1, <1>5, <3>1, <3>3
  <2>. QED
    BY <1>1, <1>4, <1>5, <2>1, HorizonType DEF Share, Taken, Horizon
<1>. QED
  BY <1>7, <1>8

\* A request that begins a window, late units ago: the old one, if there is
\* one, was over then.
LEMMA BeginBound ==
  ASSUME RecentInv, NEW k \in Key, NEW w \in [age : Nat, count : Nat] \cup {None},
         NEW late \in 0 .. Slack, w = None \/ w.age - late >= Window,
         NEW v \in [age : Nat, count : Nat], v.age = late, v.count = 1,
         Bound(k, w), TakesPlace(k), lost[k] \in Nat, backend' = backend
  PROVE  Bound(k, v)' /\ Share(k, v)'
<1>1. Taken(v) = 1 /\ v # None
  BY HorizonType, GuardAssumption DEF Taken
<1>2. Slack' = Slack /\ Slack \in Nat /\ Slack <= MaxStall /\ late \in Nat /\ late <= Slack
  BY HorizonType DEF Slack
<1>3. \A i \in Int : /\ Within(k, i)' <= Within(k, i) + 1
                     /\ Within(k, i) \in Nat /\ Within(k, i)' \in Nat
                     /\ i <= 0 => Within(k, i)' = 0
                     /\ i > 0 => Within(k, i)' + lost'[k] = Within(k, i) + lost[k] + 1
  BY PlaceWithin
<1>4. \A i, j \in Int : i <= j => Within(k, i) <= Within(k, j)
  BY WithinGrows
<1>5. /\ late - Slack \in Int /\ late + Window - Slack \in Int
      /\ late + 2 * Window - Slack \in Int
      /\ late - Slack <= 0
  BY <1>2, HorizonType
<1>6. /\ Within(k, late + Window - Slack) <= Limit - 1
      /\ Within(k, late + 2 * Window - Slack) <= 2 * Limit - 1
  <2>1. CASE w = None
    <3>1. Within(k, Window) <= Limit - 1 /\ Within(k, 2 * Window) <= 2 * Limit - 1
      BY <2>1 DEF Bound
    <3>2. /\ Within(k, late + Window - Slack) <= Within(k, Window)
          /\ Within(k, late + 2 * Window - Slack) <= Within(k, 2 * Window)
      BY <1>2, <1>4, <1>5, HorizonType
    <3>3. Window \in Int /\ 2 * Window \in Int
      BY HorizonType
    <3>. QED
      BY <1>3, <1>5, <3>1, <3>2, <3>3, HorizonType
  <2>2. CASE w # None
    <3>1. w.age \in Nat /\ w.count \in Nat
      BY <2>2
    <3>2. Taken(w) \in Nat /\ Taken(w) <= Limit
      BY <3>1, HorizonType DEF Taken
    <3>3. /\ Within(k, w.age - Slack) <= Taken(w) - 1
          /\ Within(k, w.age + Window - Slack) <= Taken(w) + Limit - 1
      BY <2>2 DEF Bound
    <3>4. /\ late + Window - Slack <= w.age - Slack
          /\ late + 2 * Window - Slack <= w.age + Window - Slack
          /\ w.age - Slack \in Int /\ w.age + Window - Slack \in Int
      BY <1>2, <2>2, <3>1, HorizonType
    <3>5. /\ Within(k, late + Window - Slack) <= Within(k, w.age - Slack)
          /\ Within(k, late + 2 * Window - Slack) <= Within(k, w.age + Window - Slack)
      BY <1>4, <1>5, <3>4
    <3>. QED
      BY <1>3, <1>5, <3>2, <3>3, <3>4, <3>5, HorizonType
  <2>. QED
    BY <2>1, <2>2
<1>7. Bound(k, v)'
  <2>1. /\ Within(k, late - Slack)' <= 0
        /\ Within(k, late + Window - Slack)' <= Limit
        /\ Within(k, late + 2 * Window - Slack)' <= 2 * Limit
    BY <1>2, <1>3, <1>5, <1>6, HorizonType
  <2>2. Taken(v)' = 1
    BY <1>1 DEF Taken
  <2>. QED
    BY <1>1, <1>2, <2>1, <2>2, HorizonType DEF Bound
<1>8. Share(k, v)'
  <2>1. Within(k, late + 1)' + lost'[k] >= 1
    BY <1>2, <1>3
  <2>2. backend = "redis" => late = 0
    BY <1>2 DEF Slack
  <2>. QED
    BY <1>1, <2>1, <2>2, HorizonType DEF Share, Taken, Horizon
<1>. QED
  BY <1>7, <1>8

\* A window that has been over for all who wait is as good as none.
LEMMA ForgetBound ==
  ASSUME RecentInv, NEW k \in Key, NEW w \in [age : Nat, count : Nat],
         w.age - Slack >= Window, Bound(k, w)
  PROVE  Bound(k, None) /\ Share(k, None)
<1>1. w # None /\ w.age \in Nat /\ w.count \in Nat
  BY GuardAssumption
<1>2. Taken(w) \in Nat /\ Taken(w) <= Limit
  BY <1>1, HorizonType DEF Taken
<1>3. /\ Within(k, w.age - Slack) <= Taken(w) - 1
      /\ Within(k, w.age + Window - Slack) <= Taken(w) + Limit - 1
  BY <1>1 DEF Bound
<1>4. /\ Window \in Int /\ 2 * Window \in Int /\ Window <= w.age - Slack
      /\ 2 * Window <= w.age + Window - Slack
      /\ w.age - Slack \in Int /\ w.age + Window - Slack \in Int
  BY <1>1, HorizonType
<1>5. /\ Within(k, Window) <= Within(k, w.age - Slack)
      /\ Within(k, 2 * Window) <= Within(k, w.age + Window - Slack)
  BY <1>4, WithinGrows
<1>6. \A i \in Int : Within(k, i) \in Nat
  BY WithinGrows
<1>. QED
  BY <1>2, <1>3, <1>4, <1>5, <1>6, HorizonType DEF Bound, Share

\* A unit of time takes nothing from the bounds of a window that stays.
LEMMA AgeBound ==
  ASSUME TypeOK, RecentInv, Tick, NEW k \in Key, Aged(windows[k]) # None,
         NEW w \in [age : Nat, count : Nat],
         NEW v \in [age : Nat, count : Nat], v.count = w.count,
         v.age = w.age + 1 \/ (v.age = w.age /\ w.age > Horizon),
         backend = "redis" => v.age < Window,
         Bound(k, w), Share(k, w)
  PROVE  Bound(k, v)' /\ Share(k, v)'
<1>1. Slack' = Slack /\ Slack \in Nat /\ backend' = backend
  BY HorizonType DEF Tick, Slack
<1>2. v # None /\ w # None /\ v.age \in Nat /\ w.age \in Nat /\ v.count \in Nat
  BY GuardAssumption
<1>3. Taken(v) = Taken(w) /\ Taken(v)' = Taken(v) /\ Taken(w) \in Nat
  BY <1>2, HorizonType DEF Taken
<1>4. \A i \in Int : Within(k, i) \in Nat
  BY WithinGrows
<1>5. \A i, j \in Int : i <= j => Within(k, i) <= Within(k, j)
  BY WithinGrows
<1>6. \A i \in Int : /\ Within(k, i)' \in Nat /\ Within(k, i)' <= Within(k, i - 1)
                     /\ i <= Horizon => Within(k, i)' = Within(k, i - 1)
  BY TickWithin
<1>7. ASSUME NEW i \in Int, NEW j \in Int, i - 1 <= j
      PROVE  Within(k, i)' <= Within(k, j)
  <2>1. i - 1 \in Int
    OBVIOUS
  <2>2. Within(k, i)' <= Within(k, i - 1) /\ Within(k, i - 1) <= Within(k, j)
    BY <1>5, <1>6, <1>7, <2>1
  <2>3. Within(k, i)' \in Nat /\ Within(k, i - 1) \in Nat /\ Within(k, j) \in Nat
    BY <1>4, <1>6, <2>1
  <2>. QED
    BY <2>2, <2>3
<1>8. Bound(k, v)'
  <2>1. /\ Within(k, w.age - Slack) <= Taken(w) - 1
        /\ Within(k, w.age + Window - Slack) <= Taken(w) + Limit - 1
        /\ Within(k, w.age + 2 * Window - Slack) <= Taken(w) + 2 * Limit - 1
    BY <1>2 DEF Bound
  <2>2. /\ v.age - Slack \in Int /\ v.age + Window - Slack \in Int
        /\ v.age + 2 * Window - Slack \in Int
        /\ w.age - Slack \in Int /\ w.age + Window - Slack \in Int
        /\ w.age + 2 * Window - Slack \in Int
        /\ (v.age - Slack) - 1 <= w.age - Slack
        /\ (v.age + Window - Slack) - 1 <= w.age + Window - Slack
        /\ (v.age + 2 * Window - Slack) - 1 <= w.age + 2 * Window - Slack
    BY <1>1, <1>2, HorizonType
  <2>3. /\ Within(k, v.age - Slack)' <= Within(k, w.age - Slack)
        /\ Within(k, v.age + Window - Slack)' <= Within(k, w.age + Window - Slack)
        /\ Within(k, v.age + 2 * Window - Slack)' <= Within(k, w.age + 2 * Window - Slack)
    BY <1>1, <1>7, <2>2
  <2>4. /\ Within(k, v.age - Slack)' <= Taken(w) - 1
        /\ Within(k, v.age + Window - Slack)' <= Taken(w) + Limit - 1
        /\ Within(k, v.age + 2 * Window - Slack)' <= Taken(w) + 2 * Limit - 1
    BY <1>1, <1>3, <1>4, <1>6, <2>1, <2>2, <2>3, HorizonType
  <2>. QED
    BY <1>1, <1>2, <1>3, <2>4 DEF Bound
<1>9. Share(k, v)'
  <2>0. lost'[k] = lost[k] /\ lost[k] \in Nat
    BY DEF Tick, TypeOK
  <2>1. ASSUME v.age < Horizon
        PROVE  Within(k, v.age + 1)' + lost'[k] >= Taken(v)
    <3>1. v.age = w.age + 1 /\ w.age < Horizon /\ w.age + 1 \in Int
      BY <1>2, <2>1, HorizonType
    <3>2. v.age + 1 \in Int /\ v.age + 1 <= Horizon /\ v.age + 1 - 1 = w.age + 1
      BY <1>2, <2>1, <3>1, HorizonType
    <3>3. Within(k, v.age + 1)' = Within(k, w.age + 1)
      BY <1>6, <3>2
    <3>4. Within(k, w.age + 1) + lost[k] >= Taken(w)
      BY <1>2, <3>1 DEF Share
    <3>. QED
      BY <1>3, <2>0, <3>3, <3>4
  <2>. QED
    BY <1>1, <1>2, <1>3, <2>1 DEF Share, Horizon
<1>. QED
  BY <1>8, <1>9

\* Neither does it when there is no window.
LEMMA AgeNone ==
  ASSUME RecentInv, Tick, NEW k \in Key, Bound(k, None)
  PROVE  Bound(k, None)' /\ Share(k, None)'
<1>1. Within(k, Window) <= Limit - 1 /\ Within(k, 2 * Window) <= 2 * Limit - 1
  BY DEF Bound
<1>2. \A i \in Int : /\ Within(k, i)' \in Nat /\ Within(k, i)' <= Within(k, i - 1)
                     /\ Within(k, i - 1) <= Within(k, i)
                     /\ Within(k, i - 1) \in Nat /\ Within(k, i) \in Nat
  BY TickWithin, WithinGrows
<1>3. \A i \in Int : Within(k, i)' <= Within(k, i) /\ Within(k, i)' \in Nat /\ Within(k, i) \in Nat
  BY <1>2
<1>4. Window \in Int /\ 2 * Window \in Int
  BY HorizonType
<1>5. /\ Within(k, Window)' <= Within(k, Window)
      /\ Within(k, 2 * Window)' <= Within(k, 2 * Window)
      /\ Within(k, Window)' \in Nat /\ Within(k, Window) \in Nat
      /\ Within(k, 2 * Window)' \in Nat /\ Within(k, 2 * Window) \in Nat
  BY <1>3, <1>4
<1>6. Within(k, Window)' <= Limit - 1 /\ Within(k, 2 * Window)' <= 2 * Limit - 1
  BY <1>1, <1>5, HorizonType
<1>. QED
  BY <1>6 DEF Bound, Share

\* Neither does it when the counter of Redis expires.
LEMMA ExpireBound ==
  ASSUME RecentInv, Tick, NEW k \in Key, NEW w \in [age : Nat, count : Nat],
         backend = "redis", w.age + 1 >= Window, Bound(k, w)
  PROVE  Bound(k, None)' /\ Share(k, None)'
<1>1. Slack = 0 /\ w # None /\ w.age \in Nat /\ w.count \in Nat
  BY GuardAssumption DEF Slack
<1>2. Taken(w) \in Nat /\ Taken(w) <= Limit
  BY <1>1, HorizonType DEF Taken
<1>3. /\ Within(k, w.age) <= Taken(w) - 1
      /\ Within(k, w.age + Window) <= Taken(w) + Limit - 1
  <2>1. w.age - Slack = w.age /\ w.age + Window - Slack = w.age + Window
    BY <1>1, HorizonType
  <2>. QED
    BY <1>1, <2>1 DEF Bound
<1>4. \A i \in Int : Within(k, i)' \in Nat /\ Within(k, i)' <= Within(k, i - 1)
  BY TickWithin
<1>5. /\ \A i \in Int : Within(k, i) \in Nat
      /\ \A i, j \in Int : i <= j => Within(k, i) <= Within(k, j)
  BY WithinGrows
<1>6. /\ Window \in Int /\ 2 * Window \in Int /\ Window - 1 \in Int /\ 2 * Window - 1 \in Int
      /\ w.age + Window \in Int /\ w.age \in Int
      /\ Window - 1 <= w.age /\ 2 * Window - 1 <= w.age + Window
  BY <1>1, HorizonType
<1>7. /\ Within(k, Window)' <= Within(k, Window - 1) /\ Within(k, Window - 1) <= Within(k, w.age)
      /\ Within(k, 2 * Window)' <= Within(k, 2 * Window - 1)
      /\ Within(k, 2 * Window - 1) <= Within(k, w.age + Window)
      /\ Within(k, Window)' \in Nat /\ Within(k, 2 * Window)' \in Nat
      /\ Within(k, Window - 1) \in Nat /\ Within(k, 2 * Window - 1) \in Nat
      /\ Within(k, w.age) \in Nat /\ Within(k, w.age + Window) \in Nat
  BY <1>4, <1>5, <1>6
<1>8. Within(k, Window)' <= Limit - 1 /\ Within(k, 2 * Window)' <= 2 * Limit - 1
  BY <1>2, <1>3, <1>7, HorizonType
<1>. QED
  BY <1>8 DEF Bound, Share

\* What is true of the window that k has afterwards is true of k's window.
LEMMA NextWindow ==
  ASSUME NEW k \in Key, NEW v, windows'[k] = v, Bound(k, v)', Share(k, v)'
  PROVE  Bound(k, windows[k])' /\ Share(k, windows[k])'
<1>1. Bound(k, windows[k])'
  BY DEF Bound, Taken
<1>2. Share(k, windows[k])'
  BY DEF Share, Taken
<1>. QED
  BY <1>1, <1>2

\* A unit of time, for the window of a key: it ages, or expires in Redis.
LEMMA TickBound ==
  ASSUME TypeOK, RecentInv, Tick, NEW k \in Key, Bound(k, windows[k]), Share(k, windows[k])
  PROVE  Bound(k, windows[k])' /\ Share(k, windows[k])'
<1>1. PICK w : w = windows[k]
  OBVIOUS
<1>2. Bound(k, w) /\ Share(k, w) /\ windows'[k] = Aged(w)
  BY <1>1 DEF Tick
<1>3. CASE w = None
  BY <1>2, <1>3, AgeNone, NextWindow DEF Aged
<1>4. CASE w # None
  <2>1. w \in [age : 0 .. AgeCap, count : 1 .. Limit + 1]
    BY <1>1, <1>4 DEF TypeOK
  <2>2. w \in [age : Nat, count : Nat] /\ w.age <= AgeCap
    BY <2>1, Caps, HorizonType
  <2>3. CASE backend = "redis" /\ w.age + 1 >= Window
    <3>1. windows'[k] = None
      BY <1>2, <2>3 DEF Aged
    <3>. QED
      BY <1>2, <2>2, <2>3, <3>1, ExpireBound, NextWindow
  <2>4. CASE ~(backend = "redis" /\ w.age + 1 >= Window)
    <3>1. windows'[k] = [w EXCEPT !.age = Older(@, AgeCap)]
      BY <1>2, <1>4, <2>4 DEF Aged
    <3>2. PICK v : v = [w EXCEPT !.age = Older(@, AgeCap)]
      OBVIOUS
    <3>3. v.count = w.count /\ v.age = Older(w.age, AgeCap) /\ v \in [age : Nat, count : Nat]
      BY <2>1, <2>2, <3>2, Caps, OlderType
    <3>4. AgeCap > Horizon /\ AgeCap \in Nat
      BY HorizonType, Caps, GuardAssumption DEF AgeCap
    <3>5. v.age = w.age + 1 \/ (v.age = w.age /\ w.age > Horizon)
      BY <2>2, <3>3, <3>4 DEF Older
    <3>6. backend = "redis" => v.age < Window
      BY <1>2, <1>4, <2>2, <2>4, <3>3, HorizonType DEF Share, Older
    <3>7. Aged(windows[k]) # None
      BY <1>1, <1>2, <3>1, <3>2, <3>3, GuardAssumption
    <3>8. Bound(k, v)' /\ Share(k, v)'
      BY <1>2, <2>2, <3>3, <3>5, <3>6, <3>7, AgeBound
    <3>. QED
      BY <3>1, <3>2, <3>8, NextWindow
  <2>. QED
    BY <2>3, <2>4
<1>. QED
  BY <1>3, <1>4

\* A step that leaves what was let through and the windows alone.
LEMMA StillBound ==
  ASSUME RecentInv, WindowInv, UNCHANGED <<backend, limiter>>
  PROVE  RecentInv' /\ WindowInv'
<1>1. recent' = recent /\ windows' = windows /\ backend' = backend /\ lost' = lost
  BY DEF limiter
<1>2. Horizon' = Horizon /\ RecentInv'
  BY <1>1 DEF RecentInv, Horizon
<1>3. \A k \in Key : \A w : Bound(k, w)' = Bound(k, w) /\ Share(k, w)' = Share(k, w)
  BY <1>1 DEF Bound, Share, Within, Taken, Slack, Horizon
<1>. QED
  BY <1>1, <1>2, <1>3 DEF WindowInv, Bound, Share, Within, Taken, Slack, Horizon

\* The windows of the other clients.
LEMMA OthersBound ==
  ASSUME NEW k \in Key, NEW w, Bound(k, w), Share(k, w),
         recent'[k] = recent[k], lost'[k] = lost[k], backend' = backend
  PROVE  Bound(k, w)' /\ Share(k, w)'
BY DEF Bound, Share, Within, Taken, Slack, Horizon

\* A window that is full counts no further.
LEMMA FullBound ==
  ASSUME NEW k \in Key, NEW w \in [age : Nat, count : Nat], NEW v \in [age : Nat, count : Nat],
         v.age = w.age, w.count >= Limit, v.count >= Limit,
         Bound(k, w), Share(k, w), recent'[k] = recent[k], lost'[k] = lost[k],
         backend' = backend
  PROVE  Bound(k, v)' /\ Share(k, v)'
<1>1. v # None /\ w # None
  BY GuardAssumption
<1>2. Taken(v) = Limit /\ Taken(w) = Limit
  BY HorizonType DEF Taken
<1>3. Bound(k, v) /\ Share(k, v)
  BY <1>1, <1>2 DEF Bound, Share
<1>. QED
  BY <1>3, OthersBound

\* The in-memory limiter permits a request: it joins the window or begins one,
\* and the collection takes only windows that are over for everyone.
LEMMA AllowBound ==
  ASSUME TypeOK, RecentInv, WindowInv, NEW r \in Request, Allow(r)
  PROVE  RecentInv' /\ WindowInv'
<1>1. PICK k, late, w : k = key[r] /\ late = spent[r] /\ w = windows[k]
  OBVIOUS
<1>2. /\ k \in Key /\ late \in 0 .. MaxStall /\ late \in Nat
      /\ backend = "memory" /\ backend' = backend /\ Permitted(k)
      /\ Current(k, late).count < Limit
      /\ lost' = lost /\ lost[k] \in Nat /\ TakesPlace(k)
  BY <1>1, HorizonType DEF TypeOK, Allow, TakesPlace
<1>3. Slack = MaxStall /\ late \in 0 .. Slack
  BY <1>2 DEF Slack
<1>4. PICK now, v : now = Current(k, late) /\ v = [now EXCEPT !.count = @ + 1]
  OBVIOUS
<1>5. \/ windows' = [windows EXCEPT ![k] = v]
      \/ windows' = Collect([windows EXCEPT ![k] = v], late)
  BY <1>1, <1>4 DEF Allow
<1>6. windows \in [Key -> [age : 0 .. AgeCap, count : 1 .. Limit + 1] \cup {None}]
  BY DEF TypeOK
<1>7. w \in [age : Nat, count : Nat] \cup {None} /\ Bound(k, w) /\ Share(k, w)
  BY <1>1, <1>2, <1>6, Caps, HorizonType DEF WindowInv
<1>8. RecentInv' /\ \A q \in Key \ {k} : recent'[q] = recent[q]
  BY <1>2, PermittedWithin
<1>9. /\ v \in [age : Nat, count : Nat] /\ v.age - late <= GCKeep
      /\ Bound(k, v)' /\ Share(k, v)'
  <2>1. CASE w = None \/ w.age - late >= Window
    <3>1. now = [age |-> late, count |-> 0]
      BY <1>1, <1>4, <2>1 DEF Current, Over
    <3>2. v = [age |-> late, count |-> 1]
      BY <1>4, <3>1
    <3>3. v \in [age : Nat, count : Nat] /\ v.age = late /\ v.count = 1
      BY <1>2, <3>2
    <3>4. v.age - late <= GCKeep
      BY <1>2, <3>3, GuardAssumption
    <3>. QED
      BY <1>2, <1>3, <1>7, <2>1, <3>3, <3>4, BeginBound
  <2>2. CASE ~(w = None \/ w.age - late >= Window)
    <3>1. now = w
      BY <1>1, <1>4, <2>2 DEF Current, Over
    <3>2. w \in [age : Nat, count : Nat] /\ w.age - late < Window
      BY <1>2, <1>7, <2>2, HorizonType
    <3>3. v \in [age : Nat, count : Nat] /\ v.age = w.age /\ v.count = w.count + 1
      BY <1>4, <3>1, <3>2
    <3>4. v.age - late <= GCKeep
      BY <1>2, <3>2, <3>3, GuardAssumption
    <3>5. w.count < Limit
      BY <1>2, <1>4, <3>1
    <3>. QED
      BY <1>2, <1>7, <3>2, <3>3, <3>4, <3>5, JoinBound
  <2>. QED
    BY <2>1, <2>2
<1>10. windows'[k] = v
  <2>1. PICK ws : ws = [windows EXCEPT ![k] = v]
    OBVIOUS
  <2>2. ws[k] = v
    BY <1>2, <1>6, <2>1
  <2>3. Collect(ws, late)[k] = v
    <3>1. ~(v.age - late > GCKeep)
      BY <1>2, <1>9, GuardAssumption
    <3>. QED
      BY <1>2, <2>2, <3>1 DEF Collect
  <2>. QED
    BY <1>5, <2>1, <2>2, <2>3
<1>11. ASSUME NEW q \in Key
       PROVE  Bound(q, windows[q])' /\ Share(q, windows[q])'
  <2>1. CASE q = k
    BY <1>9, <1>10, <2>1, NextWindow
  <2>2. CASE q # k
    <3>1. PICK x : x = windows[q]
      OBVIOUS
    <3>2. Bound(q, x) /\ Share(q, x) /\ recent'[q] = recent[q]
      BY <1>8, <2>2, <3>1 DEF WindowInv
    <3>3. CASE windows'[q] = x
      BY <1>2, <3>2, <3>3, OthersBound, NextWindow
    <3>4. CASE windows'[q] # x
      <4>1. /\ x # None /\ x.age - late > GCKeep /\ windows'[q] = None
            /\ x \in [age : 0 .. AgeCap, count : 1 .. Limit + 1]
        BY <1>5, <1>6, <2>2, <3>1, <3>4 DEF Collect
      <4>2. x \in [age : Nat, count : Nat] /\ x.age - Slack >= Window
        BY <1>2, <1>3, <4>1, Caps, HorizonType, GuardAssumption
      <4>3. Bound(q, None) /\ Share(q, None)
        BY <3>2, <4>2, ForgetBound
      <4>4. Bound(q, None)' /\ Share(q, None)'
        BY <1>2, <3>2, <4>3, OthersBound
      <4>. QED
        BY <4>1, <4>4, NextWindow
    <3>. QED
      BY <3>3, <3>4
  <2>. QED
    BY <2>1, <2>2
<1>. QED
  BY <1>8, <1>11 DEF WindowInv

\* What a run of the script is to the one who asked: a place, or nothing.
Ran(k) ==
  IF Incr(k).count <= Limit
  THEN \/ Permitted(k) /\ lost' = lost
       \/ recent' = recent /\ lost' = [lost EXCEPT ![k] = @ + 1]
  ELSE UNCHANGED <<recent, lost>>

\* A run that finds a place takes it, from the client of this key alone.
LEMMA RanTakes ==
  ASSUME RecentInv, lost \in [Key -> Nat], NEW k \in Key, Ran(k), Incr(k).count <= Limit
  PROVE  /\ TakesPlace(k) /\ RecentInv' /\ lost[k] \in Nat
         /\ \A q \in Key \ {k} : recent'[q] = recent[q] /\ lost'[q] = lost[q]
<1>1. CASE Permitted(k) /\ lost' = lost
  BY <1>1, PermittedWithin DEF TakesPlace
<1>2. CASE recent' = recent /\ lost' = [lost EXCEPT ![k] = @ + 1]
  <2>1. RecentInv'
    BY <1>2 DEF RecentInv, Horizon
  <2>. QED
    BY <1>2, <2>1 DEF TakesPlace
<1>. QED
  BY <1>1, <1>2 DEF Ran

\* The script of Redis, for a request that it permits or refuses, or whose reply
\* is lost.
LEMMA ScriptBound ==
  ASSUME TypeOK, RecentInv, WindowInv, NEW name \in Key, backend = "redis", backend' = backend,
         RunScript(name), Ran(name)
  PROVE  RecentInv' /\ WindowInv'
<1>0. lost \in [Key -> Nat]
  BY DEF TypeOK
<1>1. PICK k, w : k = name /\ w = windows[k]
  OBVIOUS
<1>2. windows \in [Key -> [age : 0 .. AgeCap, count : 1 .. Limit + 1] \cup {None}]
  BY DEF TypeOK
<1>3. w \in [age : Nat, count : Nat] \cup {None} /\ Bound(k, w) /\ Share(k, w) /\ k \in Key
  BY <1>1, <1>2, Caps, HorizonType DEF WindowInv
<1>4. \A q \in Key \ {k} : windows'[q] = windows[q]
  BY <1>1, <1>2 DEF RunScript
<1>5. /\ RecentInv'
      /\ \A q \in Key \ {k} : recent'[q] = recent[q] /\ lost'[q] = lost[q]
      /\ Bound(k, windows[k])' /\ Share(k, windows[k])'
  <2>1. CASE w = None
    <3>1. PICK v : v = [age |-> 0, count |-> 1]
      OBVIOUS
    <3>2. v \in [age : Nat, count : Nat] /\ v.age = 0 /\ v.count = 1
      BY <3>1
    <3>3. Incr(k) = v
      BY <1>1, <2>1, <3>1 DEF Incr
    <3>4. windows'[k] = v
      BY <1>1, <1>2, <1>3, <3>1, <3>3, HorizonType DEF RunScript
    <3>5. /\ TakesPlace(k) /\ RecentInv' /\ lost[k] \in Nat
          /\ \A q \in Key \ {k} : recent'[q] = recent[q] /\ lost'[q] = lost[q]
      BY <1>0, <1>1, <1>3, <3>2, <3>3, HorizonType, RanTakes
    <3>6. 0 \in 0 .. Slack
      BY HorizonType
    <3>7. Bound(k, v)' /\ Share(k, v)'
      BY <1>3, <2>1, <3>2, <3>5, <3>6, BeginBound
    <3>. QED
      BY <1>3, <3>4, <3>5, <3>7, NextWindow
  <2>2. CASE w # None /\ w.count < Limit
    <3>1. PICK v : v = [w EXCEPT !.count = @ + 1]
      OBVIOUS
    <3>2. w \in [age : Nat, count : Nat] /\ v \in [age : Nat, count : Nat]
          /\ v.age = w.age /\ v.count = w.count + 1
      BY <1>3, <2>2, <3>1
    <3>3. Incr(k) = v
      BY <1>1, <2>2, <3>1 DEF Incr
    <3>4. v.count <= Limit
      BY <2>2, <3>2, HorizonType
    <3>5. windows'[k] = [v EXCEPT !.count = v.count]
      BY <1>1, <1>2, <1>3, <3>2, <3>3, <3>4, HorizonType DEF RunScript
    <3>6. windows'[k] = v
      BY <3>2, <3>5
    <3>7. /\ TakesPlace(k) /\ RecentInv' /\ lost[k] \in Nat
          /\ \A q \in Key \ {k} : recent'[q] = recent[q] /\ lost'[q] = lost[q]
      BY <1>0, <1>1, <1>3, <3>3, <3>4, RanTakes
    <3>8. Bound(k, v)' /\ Share(k, v)'
      BY <1>3, <2>2, <3>2, <3>7, JoinBound
    <3>. QED
      BY <1>3, <3>6, <3>7, <3>8, NextWindow
  <2>3. CASE w # None /\ ~(w.count < Limit)
    <3>1. w \in [age : Nat, count : Nat] /\ w.count >= Limit /\ w.count \in Nat
      BY <1>3, <2>3, HorizonType
    <3>2. Incr(k) = [w EXCEPT !.count = @ + 1]
      BY <1>1, <2>3 DEF Incr
    <3>3. Incr(k).count = w.count + 1
      BY <3>1, <3>2
    <3>4. ~(Incr(k).count <= Limit)
      BY <3>1, <3>3, HorizonType
    <3>5. recent' = recent /\ lost' = lost
      BY <1>1, <3>4 DEF Ran
    <3>6. PICK v : v = [w EXCEPT !.count = Limit + 1]
      OBVIOUS
    <3>7. v \in [age : Nat, count : Nat] /\ v.age = w.age /\ v.count >= Limit
      BY <3>1, <3>6, HorizonType
    <3>8. windows'[k] = v
      <4>1. windows'[k] = [Incr(k) EXCEPT !.count = IF @ > Limit THEN Limit + 1 ELSE @]
        BY <1>1, <1>2, <1>3 DEF RunScript
      <4>2. Incr(k).count > Limit
        BY <3>1, <3>3, HorizonType
      <4>. QED
        BY <3>1, <3>2, <3>6, <4>1, <4>2
    <3>9. Bound(k, v)' /\ Share(k, v)'
      BY <1>3, <3>1, <3>5, <3>7, FullBound
    <3>10. RecentInv'
      BY <3>5 DEF RecentInv, Horizon
    <3>. QED
      BY <1>3, <3>5, <3>8, <3>9, <3>10, NextWindow
  <2>. QED
    BY <2>1, <2>2, <2>3
<1>6. ASSUME NEW q \in Key
      PROVE  Bound(q, windows[q])' /\ Share(q, windows[q])'
  <2>1. CASE q = k
    BY <1>5, <2>1
  <2>2. CASE q # k
    <3>1. PICK x : x = windows[q]
      OBVIOUS
    <3>2. /\ Bound(q, x) /\ Share(q, x) /\ windows'[q] = x
          /\ recent'[q] = recent[q] /\ lost'[q] = lost[q]
      BY <1>4, <1>5, <2>2, <3>1 DEF WindowInv
    <3>. QED
      BY <3>2, OthersBound, NextWindow
  <2>. QED
    BY <2>1, <2>2
<1>. QED
  BY <1>5, <1>6 DEF WindowInv

\* Every step keeps the bounds: only a request that is let through and the
\* time that passes change what they speak of.
LEMMA WindowStep ==
  ASSUME TypeOK, RecentInv, WindowInv, [Next]_vars
  PROVE  RecentInv' /\ WindowInv'
<1>1. ASSUME NEW r \in Request, Allow(r)
      PROVE  RecentInv' /\ WindowInv'
  BY <1>1, AllowBound
<1>2. ASSUME NEW r \in Request, Answer(r) \/ ReplyLost(r) \/ FailOpen(r)
      PROVE  RecentInv' /\ WindowInv'
  <2>1. key[r] \in Key /\ backend = "redis" /\ backend' = backend /\ gcAge' = gcAge
    BY <1>2 DEF TypeOK, Answer, ReplyLost, FailOpen
  <2>2. \/ RunScript(key[r]) /\ Ran(key[r])
        \/ UNCHANGED <<windows, recent, lost>>
    BY <1>2 DEF Answer, ReplyLost, FailOpen, Ran
  <2>3. CASE UNCHANGED <<windows, recent, lost>>
    BY <2>1, <2>3, StillBound DEF limiter
  <2>4. CASE ~(UNCHANGED <<windows, recent, lost>>)
    BY <2>1, <2>2, <2>4, ScriptBound
  <2>. QED
    BY <2>3, <2>4
<1>3. ASSUME Tick
      PROVE  RecentInv' /\ WindowInv'
  <2>1. RecentInv'
    BY <1>3, TickWithin
  <2>2. ASSUME NEW k \in Key
        PROVE  Bound(k, windows[k])' /\ Share(k, windows[k])'
    BY <1>3, TickBound DEF WindowInv
  <2>. QED
    BY <2>1, <2>2 DEF WindowInv
<1>4. CASE UNCHANGED <<backend, limiter>>
  BY <1>4, StillBound
<1>5. ASSUME NEW r \in Request,
             \/ \E k \in Key : Arrive(r, k)
             \/ Deny(r) \/ Serve(r) \/ Acquire(r) \/ Enter(r) \/ GiveUp(r)
             \/ Timeout(r) \/ Leave(r)
      PROVE  UNCHANGED <<backend, limiter>>
  BY <1>5 DEF Arrive, Deny, Serve, Acquire, Enter, GiveUp, Timeout, Leave
<1>6. CASE UNCHANGED vars
  BY <1>4, <1>6 DEF vars
<1>. QED
  BY <1>1, <1>2, <1>3, <1>4, <1>5, <1>6 DEF Next, Decide

\* At the start no request has been let through.
LEMMA InitWindow == Init => RecentInv /\ WindowInv
<1>. SUFFICES ASSUME Init PROVE RecentInv /\ WindowInv
  OBVIOUS
<1>1. \A k \in Key : /\ windows[k] = None
                     /\ recent[k] = [n \in 0 .. Horizon |-> 0]
  BY DEF Init
<1>2. RecentInv
  BY HorizonType DEF Init, RecentInv
<1>3. ASSUME NEW k \in Key
      PROVE  Bound(k, windows[k]) /\ Share(k, windows[k])
  <2>1. \A i \in Int : Within(k, i) = 0
    BY <1>1, HorizonType DEF Within
  <2>. QED
    BY <1>1, <2>1, HorizonType DEF Bound, Share
<1>. QED
  BY <1>2, <1>3 DEF WindowInv

\* The bounds leave less than two or three windows' worth to any period as long
\* as a window.
LEMMA BoundedBursts ==
  ASSUME GuardInv
  PROVE  BurstBounded
<1>. SUFFICES ASSUME NEW k \in Key
              PROVE  recent[k][Window] < (IF backend = "redis" THEN 2 ELSE 3) * Limit
  BY DEF BurstBounded
<1>1. recent[k][Window] = Within(k, Window)
  BY HorizonType DEF Within
<1>2. PICK w : w = windows[k]
  OBVIOUS
<1>3. Bound(k, w) /\ RecentInv
  BY <1>2 DEF GuardInv, WindowInv
<1>4. /\ \A i \in Int : Within(k, i) \in Nat
      /\ \A i, j \in Int : i <= j => Within(k, i) <= Within(k, j)
  BY <1>3, WithinGrows
<1>5. CASE w = None
  <2>1. Within(k, Window) <= Limit - 1 /\ Within(k, Window) \in Nat
    BY <1>3, <1>4, <1>5, HorizonType DEF Bound
  <2>. QED
    BY <1>1, <2>1, HorizonType
<1>6. CASE w # None
  <2>1. w.age \in Nat /\ w.count \in Nat
    <3>1. w \in [age : 0 .. AgeCap, count : 1 .. Limit + 1]
      BY <1>2, <1>6 DEF GuardInv, TypeOK
    <3>. QED
      BY <3>1, Caps, HorizonType
  <2>2. Taken(w) \in Nat /\ Taken(w) <= Limit
    BY <2>1, HorizonType DEF Taken
  <2>3. /\ w.age + Window - Slack \in Int /\ w.age + 2 * Window - Slack \in Int
        /\ Window <= w.age + 2 * Window - Slack
        /\ backend = "redis" => Window <= w.age + Window - Slack
    BY <2>1, HorizonType DEF Slack
  <2>4. /\ Within(k, w.age + Window - Slack) <= Taken(w) + Limit - 1
        /\ Within(k, w.age + 2 * Window - Slack) <= Taken(w) + 2 * Limit - 1
    BY <1>3, <1>6 DEF Bound
  <2>5. /\ Within(k, Window) <= Within(k, w.age + 2 * Window - Slack)
        /\ backend = "redis" => Within(k, Window) <= Within(k, w.age + Window - Slack)
        /\ Within(k, Window) \in Nat
        /\ Within(k, w.age + 2 * Window - Slack) \in Nat
        /\ Within(k, w.age + Window - Slack) \in Nat
    BY <1>4, <2>3, HorizonType
  <2>. QED
    BY <1>1, <2>2, <2>4, <2>5, HorizonType
<1>. QED
  BY <1>5, <1>6

\* A window that has no place left is not over for the request that it refuses,
\* so the requests that took its places were let through less than a window
\* before the refused one arrived, or the replies of their runs were lost.
LEMMA FullWindow ==
  ASSUME GuardInv, NEW k \in Key, NEW late \in 0 .. MaxStall,
         windows[k] # None, windows[k].age - late < Window, windows[k].count >= Limit
  PROVE  recent[k][Window + late] + lost[k] >= Limit
<1>1. PICK w : w = windows[k]
  OBVIOUS
<1>2. w.age \in Nat /\ w.count \in Nat
  <2>1. w \in [age : 0 .. AgeCap, count : 1 .. Limit + 1]
    BY <1>1 DEF GuardInv, TypeOK
  <2>. QED
    BY <2>1, Caps, HorizonType
<1>3. w.age < Horizon /\ w.age + 1 <= Window + late
  BY <1>1, <1>2, HorizonType
<1>4. Taken(w) = Limit
  BY <1>1, <1>2, HorizonType DEF Taken
<1>5. Within(k, w.age + 1) + lost[k] >= Limit /\ lost[k] \in Nat
  BY <1>1, <1>3, <1>4 DEF GuardInv, TypeOK, WindowInv, Share
<1>6. /\ Within(k, w.age + 1) <= Within(k, Window + late)
      /\ Within(k, w.age + 1) \in Nat /\ Within(k, Window + late) \in Nat
  <2>1. /\ \A i \in Int : Within(k, i) \in Nat
        /\ \A i, j \in Int : i <= j => Within(k, i) <= Within(k, j)
    BY WithinGrows DEF GuardInv
  <2>2. w.age + 1 \in Int /\ Window + late \in Int
    BY <1>2, HorizonType
  <2>. QED
    BY <1>3, <2>1, <2>2
<1>7. Within(k, Window + late) = recent[k][Window + late]
  BY HorizonType DEF Within
<1>. QED
  BY <1>5, <1>6, <1>7, HorizonType

\* A step that refuses a request finds a window without places.
LEMMA JustifiedStep ==
  ASSUME GuardInv, [Next]_vars, NEW r \in Request, phase[r] = "permit", phase'[r] = "idle"
  PROVE  /\ recent[key[r]][Window + spent[r]] + lost[key[r]] >= Limit
         /\ backend = "memory" => recent[key[r]][Window + spent[r]] >= Limit
<1>1. Deny(r) \/ Answer(r)
  <2>1. /\ phase \in [Request -> Phase] /\ phase' # phase
    BY DEF GuardInv, TypeOK
  <2>2. ~Tick /\ ~(UNCHANGED vars)
    BY <2>1 DEF Tick, vars
  <2>3. PICK q \in Request :
          \/ \E k \in Key : Arrive(q, k)
          \/ Decide(q) \/ ReplyLost(q) \/ FailOpen(q)
          \/ Serve(q) \/ Acquire(q) \/ Enter(q) \/ GiveUp(q) \/ Timeout(q) \/ Leave(q)
    BY <2>2 DEF Next
  <2>4. \A from, to : Becomes(q, from, to) /\ q = r => from = "permit" /\ to = "idle"
    BY <2>1 DEF Becomes
  <2>5. \A from, to : Becomes(q, from, to) => q = r
    BY <2>1 DEF Becomes
  <2>6. ~(\E k \in Key : Arrive(q, k)) /\ ~ReplyLost(q)
    BY <2>1 DEF Arrive, ReplyLost
  <2>. QED
    BY <2>3, <2>4, <2>5, <2>6
    DEF Decide, Allow, ReplyLost, FailOpen, Serve, Acquire, Enter, GiveUp, Timeout, Leave,
        Deny, Answer
<1>2. PICK k, late, w : k = key[r] /\ late = spent[r] /\ w = windows[k]
  OBVIOUS
<1>3. k \in Key /\ late \in 0 .. MaxStall
  BY <1>2, HorizonType DEF GuardInv, TypeOK
<1>4. w # None => w.age \in Nat /\ w.count \in Nat
  <2>1. w # None => w \in [age : 0 .. AgeCap, count : 1 .. Limit + 1]
    BY <1>2, <1>3 DEF GuardInv, TypeOK
  <2>. QED
    BY <2>1, Caps, HorizonType
<1>5. w # None /\ w.age - late < Window /\ w.count >= Limit
  <2>1. CASE Deny(r)
    <3>1. Current(k, late).count >= Limit
      BY <1>2, <2>1 DEF Deny
    <3>2. ~Over(w, late)
      <4>. SUFFICES ASSUME Over(w, late) PROVE FALSE
        OBVIOUS
      <4>1. Current(k, late) = [age |-> late, count |-> 0]
        BY <1>2 DEF Current
      <4>. QED
        BY <3>1, <4>1, HorizonType
    <3>3. Current(k, late) = w
      BY <1>2, <3>2 DEF Current
    <3>. QED
      BY <1>3, <1>4, <3>1, <3>2, <3>3, HorizonType DEF Over
  <2>2. CASE Answer(r)
    <3>1. ~(Incr(k).count <= Limit) /\ backend = "redis"
      <4>1. phase'[r] = IF Incr(k).count <= Limit THEN "handler" ELSE "idle"
        BY <1>2, <2>2 DEF Answer, Becomes, GuardInv, TypeOK
      <4>. QED
        BY <2>2, <4>1 DEF Answer
    <3>2. w # None
      BY <1>2, <3>1, HorizonType DEF Incr
    <3>3. Incr(k).count = w.count + 1
      <4>1. w \in [age : 0 .. AgeCap, count : 1 .. Limit + 1]
        BY <1>2, <1>3, <3>2 DEF GuardInv, TypeOK
      <4>. QED
        BY <1>2, <3>2, <4>1 DEF Incr
    <3>4. w.age < Window
      BY <1>2, <1>3, <3>1, <3>2 DEF GuardInv, WindowInv, Share
    <3>. QED
      BY <1>3, <1>4, <3>1, <3>2, <3>3, <3>4, HorizonType
  <2>. QED
    BY <1>1, <2>1, <2>2
<1>6. recent[k][Window + late] + lost[k] >= Limit
  BY <1>2, <1>3, <1>5, FullWindow
<1>7. backend = "memory" => recent[k][Window + late] >= Limit
  <2>1. Window + late \in 0 .. Horizon
    BY <1>3, HorizonType
  <2>2. recent[k][Window + late] \in Nat
    BY <1>3, <2>1 DEF GuardInv, RecentInv
  <2>3. backend = "memory" => lost[k] = 0
    BY <1>3 DEF GuardInv, TypeOK
  <2>. QED
    BY <1>6, <2>2, <2>3
<1>. QED
  BY <1>2, <1>6, <1>7

\* What was let through is bounded, for each client, by its windows.
THEOREM GuardInvariant == Spec => []GuardInv
<1>1. Init => GuardInv
  BY InitTypeOK, InitWindow DEF GuardInv
<1>2. GuardInv /\ [Next]_vars => GuardInv'
  BY GuardStep, WindowStep DEF GuardInv
<1>. QED
  BY <1>1, <1>2, PTL DEF Spec

\* A fixed window lets less than two windows' worth of a client's requests
\* through in any period as long as a window (rateLimitScript), and
\* localRateLimiter.allow, which judges a request by the time it read before it
\* waited for the mutex, less than three.
THEOREM BurstsAreBounded == Spec => []BurstBounded
BY GuardInvariant, BoundedBursts, PTL

\* A client that is answered 429 had its share: Limit of its requests were let
\* through within a window of the time the refused one arrived, but for those
\* whose place in Redis was taken by a run whose reply was lost.
THEOREM RefusalsAreJustified == Spec => RefusalJustified
<1>1. GuardInv /\ [Next]_vars =>
        [\A r \in Request :
           phase[r] = "permit" /\ phase'[r] = "idle"
           => /\ recent[key[r]][Window + spent[r]] + lost[key[r]] >= Limit
              /\ backend = "memory" => recent[key[r]][Window + spent[r]] >= Limit]_vars
  BY JustifiedStep
<1>. QED
  BY <1>1, GuardInvariant, PTL DEF Spec, RefusalJustified

=============================================================================
