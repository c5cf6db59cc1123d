----------------------- MODULE RedisDeployLimiterProofs ----------------------
(***************************************************************************)
(* Theorems about RedisDeployLimiter, for every finite set of deploys, any *)
(* replicas and clock offsets, and every value of the bounds that          *)
(* LimiterAssumption admits.                                               *)
(*                                                                         *)
(* The argument: a deploy that the script admitted is younger than         *)
(* MaxDeploy, so on no clock is its lease over; hence it stays in the      *)
(* sorted set, whose size the script bounds.                               *)
(***************************************************************************)
EXTENDS RedisDeployLimiter, FiniteSetTheorems, TLAPS

\* The strengthening that makes HolderKeepsLease inductive: a holder was
\* scored when it started to run, running is bounded by MaxDeploy, and the
\* key was renewed no earlier than any of its members was scored.
LeaseInv ==
  /\ \A d \in Running : spent[d] <= MaxDeploy
  /\ \A d \in Holders : d \in members /\ age[d] <= spent[d]
  /\ \A m \in members : keyAge <= age[m]

LimiterInv == TypeOK /\ SetBounded /\ LeaseInv

-----------------------------------------------------------------------------
(***************************************************************************)
(* What the script does to the sorted set.                                 *)
(***************************************************************************)

\* The script keeps the types, adds at most the caller and restarts its age.
LEMMA ScriptType ==
  ASSUME TypeOK, NEW d \in Deploy, RunScript(d)
  PROVE  /\ members' \subseteq Deploy
         /\ members' \subseteq members \cup {d}
         /\ age' \in [Deploy -> 0 .. AgeCap]
         /\ keyAge' \in 0 .. LeaseTTL
         /\ \A m \in Deploy \ {d} : age'[m] = age[m]
         /\ age'[d] = age[d] \/ age'[d] = 0
         /\ keyAge' <= keyAge
         /\ keyAge' = keyAge \/ keyAge' = 0
         /\ age' = age \/ keyAge' = 0
<1>1. AgeCap \in Nat
  BY LimiterAssumption DEF AgeCap
<1>2. Live(d) \subseteq members
  BY DEF Live
<1>. QED
  BY <1>1, <1>2, LimiterAssumption DEF RunScript, TypeOK

\* Adding an element to a finite set adds at most one to its size.
LEMMA AddBound ==
  ASSUME NEW S, NEW x, IsFiniteSet(S)
  PROVE  /\ Cardinality(S) \in Nat
         /\ Cardinality(S \cup {x}) \in Nat
         /\ Cardinality(S \cup {x}) <= Cardinality(S) + 1
<1>1. Cardinality(S) \in Nat
  BY FS_CardinalityType
<1>2. Cardinality(S \cup {x}) = IF x \in S THEN Cardinality(S)
                                         ELSE Cardinality(S) + 1
  BY FS_AddElement
<1>. QED
  BY <1>1, <1>2

\* The script never makes the set larger than MaxSlots.
LEMMA ScriptBounded ==
  ASSUME TypeOK, SetBounded, NEW d \in Deploy, RunScript(d)
  PROVE  SetBounded'
<1>1. IsFiniteSet(members) /\ Live(d) \in SUBSET members
  BY LimiterAssumption, FS_Subset DEF TypeOK, Live
<1>2. /\ IsFiniteSet(Live(d))
      /\ Cardinality(Live(d)) <= Cardinality(members)
      /\ Cardinality(Live(d)) \in Nat
      /\ Cardinality(members) \in Nat
  BY <1>1, FS_Subset, FS_CardinalityType
<1>3. CASE HasRoom(d)
  <2>1. /\ Cardinality(Live(d) \cup {d}) \in Nat
        /\ Cardinality(Live(d) \cup {d}) <= Cardinality(Live(d)) + 1
    BY <1>2, AddBound
  <2>2. members' = Live(d) \cup {d}
    BY <1>3 DEF RunScript
  <2>3. Cardinality(Live(d)) < MaxSlots
    BY <1>3 DEF HasRoom
  <2>4. MaxSlots \in Nat
    BY LimiterAssumption
  <2>5. Cardinality(Live(d) \cup {d}) <= MaxSlots
    BY <1>2, <2>1, <2>3, <2>4
  <2>. QED
    BY <2>2, <2>5 DEF SetBounded
<1>4. CASE ~HasRoom(d)
  BY <1>2, <1>4, LimiterAssumption DEF RunScript, SetBounded
<1>. QED BY <1>3, <1>4

\* No clock sees the lease of a holder as over.
LEMMA HolderNotExpired ==
  ASSUME TypeOK, LeaseInv, NEW h \in Holders, NEW r \in Replica
  PROVE  ~Expired(r, h)
<1>1. /\ h \in Deploy
      /\ age[h] \in Nat
      /\ spent[h] \in Nat
      /\ age[h] <= MaxDeploy
  BY LimiterAssumption DEF TypeOK, LeaseInv, Holders, Running, AgeCap, WaitCap
<1>2. Offset[r] - Offset[Home[h]] <= MaxSkew
  BY <1>1, LimiterAssumption
<1>3. Offset[r] \in Int /\ Offset[Home[h]] \in Int
  BY <1>1, LimiterAssumption
<1>. QED
  BY <1>1, <1>2, <1>3, LimiterAssumption DEF Expired

\* Hence the script keeps every holder, and admits its caller when there is
\* room.
LEMMA ScriptKeepsHolders ==
  ASSUME TypeOK, LeaseInv, NEW d \in Deploy, RunScript(d)
  PROVE  /\ Holders \subseteq members'
         /\ HasRoom(d) => d \in members' /\ age'[d] = 0
<1>1. Home[d] \in Replica
  BY LimiterAssumption
<1>2. \A h \in Holders : h \in Live(d)
  BY <1>1, HolderNotExpired DEF Live, LeaseInv
<1>. QED
  BY <1>2 DEF RunScript, TypeOK

-----------------------------------------------------------------------------
(***************************************************************************)
(* Type correctness.                                                       *)
(***************************************************************************)

LEMMA TypeStep == TypeOK /\ [Next]_vars => TypeOK'
<1>. SUFFICES ASSUME TypeOK, [Next]_vars
              PROVE  TypeOK'
  OBVIOUS
<1>. USE DEF Phase, Running, Queueing
<1>0. AgeCap \in Nat /\ WaitCap \in Nat /\ MaxDeploy \in Nat
  BY LimiterAssumption DEF AgeCap, WaitCap
<1>1. ASSUME NEW d \in Deploy, Arrive(d)
      PROVE  TypeOK'
  BY <1>0, <1>1 DEF Arrive, TypeOK
<1>2. ASSUME NEW d \in Deploy, Admit(d)
      PROVE  TypeOK'
  BY <1>0, <1>2, ScriptType DEF Admit, TypeOK
<1>3. ASSUME NEW d \in Deploy, Refuse(d)
      PROVE  TypeOK'
  BY <1>0, <1>3, ScriptType DEF Refuse, TypeOK
<1>4. ASSUME NEW d \in Deploy, FailOpen(d)
      PROVE  TypeOK'
  <2>1. CASE RunScript(d)
    BY <1>0, <1>4, <2>1, ScriptType DEF FailOpen, TypeOK
  <2>2. CASE UNCHANGED <<members, age, keyAge>>
    BY <1>0, <1>4, <2>2 DEF FailOpen, TypeOK
  <2>. QED BY <1>4, <2>1, <2>2 DEF FailOpen
<1>5. ASSUME NEW d \in Deploy, ReplyLost(d)
      PROVE  TypeOK'
  BY <1>0, <1>5, ScriptType DEF ReplyLost, TypeOK
<1>6. ASSUME NEW d \in Deploy, Shed(d) \/ Backoff(d) \/ GiveUp(d)
      PROVE  TypeOK'
  BY <1>0, <1>6 DEF Shed, Backoff, GiveUp, TypeOK
<1>7. ASSUME NEW d \in Deploy, Finish(d)
      PROVE  TypeOK'
  BY <1>0, <1>7 DEF Finish, TypeOK
<1>8. ASSUME NEW d \in Deploy, Disconnect(d)
      PROVE  TypeOK'
  BY <1>0, <1>8 DEF Disconnect, TypeOK
<1>9. ASSUME NEW r \in Replica, Crash(r)
      PROVE  TypeOK'
  BY <1>0, <1>9 DEF Crash, TypeOK
<1>10. ASSUME Tick
       PROVE  TypeOK'
  <2>1. \A d \in Deploy : spent[d] \in Nat /\ spent[d] <= WaitCap + MaxDeploy
    BY <1>0 DEF TypeOK
  <2>2. \A d \in Running : spent[d] + 1 \in 0 .. WaitCap + MaxDeploy
    BY <1>0, <1>10, <2>1 DEF Tick
  <2>3. \A d \in Deploy : Older(spent[d], WaitCap) \in 0 .. WaitCap + MaxDeploy
    BY <1>0, <2>1 DEF Older
  <2>4. spent' \in [Deploy -> 0 .. WaitCap + MaxDeploy]
    BY <1>0, <1>10, <2>2, <2>3 DEF Tick
  <2>5. \A d \in Deploy : Older(age[d], AgeCap) \in 0 .. AgeCap
    BY <1>0 DEF Older, TypeOK
  <2>6. age' \in [Deploy -> 0 .. AgeCap]
    BY <1>0, <1>10, <2>5 DEF Tick
  <2>7. members' \subseteq Deploy /\ keyAge' \in 0 .. LeaseTTL
    BY <1>10, LimiterAssumption DEF Tick, TypeOK
  <2>. QED
    BY <1>10, <2>4, <2>6, <2>7 DEF Tick, TypeOK
<1>11. CASE UNCHANGED vars
  BY <1>11 DEF vars, TypeOK
<1>. QED
  BY <1>1, <1>2, <1>3, <1>4, <1>5, <1>6, <1>7, <1>8, <1>9, <1>10, <1>11
  DEF Next, AcquireStep

\* Every variable keeps its type, whatever replies are lost, replicas crash
\* and clients disconnect.
THEOREM TypeCorrect == Spec => []TypeOK
<1>1. Init => TypeOK
  BY LimiterAssumption
  DEF Init, TypeOK, Phase, Running, Queueing, AgeCap, WaitCap
<1>. QED
  BY <1>1, TypeStep, PTL DEF Spec

-----------------------------------------------------------------------------
(***************************************************************************)
(* The lease covers every deploy, and the sorted set bounds them.          *)
(***************************************************************************)

\* Running and queueing are different phases.
LEMMA HolderFacts ==
  ASSUME TypeOK
  PROVE  /\ \A d \in Deploy : d \in Holders <=> phase[d] = "running" /\ d \notin bypass
         /\ Holders \subseteq Running
         /\ Running \subseteq Deploy
         /\ \A d \in Deploy : /\ age[d] \in Nat
                              /\ spent[d] \in Nat
                              /\ phase[d] # "running" => d \notin bypass
         /\ members \subseteq Deploy
         /\ keyAge \in Nat
  BY LimiterAssumption
  DEF TypeOK, Holders, Running, AgeCap, WaitCap

LEMMA BoundStep == LimiterInv /\ [Next]_vars => SetBounded'
<1>. SUFFICES ASSUME LimiterInv, [Next]_vars
              PROVE  SetBounded'
  OBVIOUS
<1>. USE DEF LimiterInv
<1>1. ASSUME NEW T \in SUBSET members, members' = T
      PROVE  SetBounded'
  <2>1. IsFiniteSet(members)
    BY LimiterAssumption, FS_Subset DEF TypeOK
  <2>2. /\ Cardinality(T) \in Nat
        /\ Cardinality(members) \in Nat
        /\ Cardinality(T) <= Cardinality(members)
    BY <2>1, FS_Subset, FS_CardinalityType
  <2>. QED
    BY <1>1, <2>2, LimiterAssumption DEF SetBounded
<1>2. ASSUME NEW d \in Deploy, RunScript(d)
      PROVE  SetBounded'
  BY <1>2, ScriptBounded
<1>3. ASSUME members' = members
      PROVE  SetBounded'
  BY <1>3, <1>1
<1>4. ASSUME NEW d \in Deploy, Finish(d)
      PROVE  SetBounded'
  BY <1>4, <1>1, <1>3 DEF Finish
<1>5. ASSUME Tick
      PROVE  SetBounded'
  BY <1>5, <1>1, <1>3 DEF Tick
<1>. QED
  BY <1>2, <1>3, <1>4, <1>5
  DEF Next, AcquireStep, Arrive, Admit, Refuse, FailOpen, ReplyLost, Shed,
      Backoff, GiveUp, Disconnect, Crash, vars

LEMMA LeaseStep == LimiterInv /\ [Next]_vars => LeaseInv'
<1>. SUFFICES ASSUME LimiterInv, [Next]_vars
              PROVE  LeaseInv'
  OBVIOUS
<1>. USE HolderFacts DEF LimiterInv
<1>0. TypeOK'
  BY TypeStep
<1>1. ASSUME NEW d \in Deploy, RunScript(d),
             \A m \in Deploy \ {d} : phase'[m] = phase[m] /\ spent'[m] = spent[m],
             \/ phase[d] # "running" /\ phase'[d] # "running"
             \/ phase'[d] = "running" /\ spent'[d] = 0
                /\ (HasRoom(d) \/ d \in bypass'),
             bypass \subseteq bypass',
             bypass' \subseteq bypass \cup {d}
      PROVE  LeaseInv'
  <2>1. /\ members' \subseteq members \cup {d}
        /\ \A m \in Deploy \ {d} : age'[m] = age[m]
        /\ age' = age \/ keyAge' = 0
        /\ keyAge' = keyAge \/ keyAge' = 0
        /\ Holders \subseteq members'
        /\ HasRoom(d) => d \in members' /\ age'[d] = 0
    BY <1>1, ScriptType, ScriptKeepsHolders
  <2>2. \A h \in Running' : spent'[h] <= MaxDeploy
    BY <1>0, <1>1, LimiterAssumption DEF LeaseInv, Running
  <2>3. ASSUME NEW h \in Holders'
        PROVE  h \in members' /\ age'[h] <= spent'[h]
    <3>1. h \in Deploy /\ phase'[h] = "running" /\ h \notin bypass'
      BY <2>3 DEF Holders, Running
    <3>2. CASE h = d
      BY <1>1, <2>1, <3>1, <3>2
    <3>3. CASE h # d
      BY <1>1, <2>1, <3>1, <3>3 DEF LeaseInv
    <3>. QED BY <3>2, <3>3
  <2>4. ASSUME NEW m \in members'
        PROVE  keyAge' <= age'[m]
    <3>1. CASE keyAge' = 0
      BY <1>0, <2>4, <3>1, LimiterAssumption DEF TypeOK, AgeCap
    <3>2. CASE keyAge' # 0
      <4>1. age' = age /\ keyAge' = keyAge /\ ~HasRoom(d)
        BY <1>1, <2>1, <3>2 DEF RunScript
      <4>2. m \in members
        BY <1>1, <2>4, <4>1 DEF RunScript, Live
      <4>. QED BY <4>1, <4>2 DEF LeaseInv
    <3>. QED BY <3>1, <3>2
  <2>. QED
    BY <2>2, <2>3, <2>4 DEF LeaseInv
<1>2. ASSUME NEW d \in Deploy, Admit(d)
      PROVE  LeaseInv'
  BY <1>1, <1>2 DEF Admit, TypeOK
<1>3. ASSUME NEW d \in Deploy, Refuse(d)
      PROVE  LeaseInv'
  BY <1>1, <1>3 DEF Refuse, TypeOK
<1>4. ASSUME NEW d \in Deploy, ReplyLost(d)
      PROVE  LeaseInv'
  BY <1>1, <1>4 DEF ReplyLost, TypeOK
<1>5. ASSUME NEW d \in Deploy, FailOpen(d)
      PROVE  LeaseInv'
  <2>1. CASE RunScript(d)
    BY <1>1, <1>5, <2>1 DEF FailOpen, TypeOK
  <2>2. CASE UNCHANGED <<members, age, keyAge>>
    <3>1. \A h \in Running' : spent'[h] <= MaxDeploy
      BY <1>5, LimiterAssumption DEF FailOpen, LeaseInv, Running, TypeOK
    <3>2. Holders' \subseteq Holders /\ \A h \in Holders' : spent'[h] = spent[h]
      BY <1>5 DEF FailOpen, Holders, Running, TypeOK
    <3>. QED
      BY <2>2, <3>1, <3>2 DEF LeaseInv
  <2>. QED BY <1>5, <2>1, <2>2 DEF FailOpen
<1>6. ASSUME members' \subseteq members, UNCHANGED <<age, keyAge>>,
             Running' \subseteq Running, Holders' \subseteq Holders,
             \A h \in Running' : spent'[h] = spent[h],
             \A h \in Holders' : h \in members => h \in members'
      PROVE  LeaseInv'
  <2>1. Holders' \subseteq Running'
    BY DEF Holders
  <2>2. \A h \in Running' : spent'[h] <= MaxDeploy
    BY <1>6 DEF LeaseInv
  <2>3. ASSUME NEW h \in Holders'
        PROVE  h \in members' /\ age'[h] <= spent'[h]
    <3>1. h \in Holders /\ spent'[h] = spent[h] /\ age'[h] = age[h]
      BY <1>6, <2>1, <2>3
    <3>. QED BY <1>6, <2>3, <3>1 DEF LeaseInv
  <2>4. \A m \in members' : keyAge' <= age'[m]
    BY <1>6 DEF LeaseInv
  <2>. QED
    BY <2>2, <2>3, <2>4 DEF LeaseInv
<1>7. ASSUME NEW d \in Deploy, Arrive(d)
      PROVE  LeaseInv'
  <2>1. /\ Running' = Running /\ Holders' = Holders
        /\ \A h \in Running' : spent'[h] = spent[h]
    BY <1>7 DEF Arrive, Running, Holders, TypeOK
  <2>. QED BY <1>6, <1>7, <2>1 DEF Arrive
<1>8. ASSUME NEW d \in Deploy, Shed(d) \/ Backoff(d) \/ GiveUp(d)
      PROVE  LeaseInv'
  <2>1. Running' = Running /\ Holders' = Holders /\ spent' = spent
    BY <1>8 DEF Shed, Backoff, GiveUp, Running, Holders, TypeOK
  <2>. QED BY <1>6, <1>8, <2>1 DEF Shed, Backoff, GiveUp
<1>9. ASSUME NEW d \in Deploy, Finish(d)
      PROVE  LeaseInv'
  <2>1. Running' = Running \ {d} /\ Holders' = Holders \ {d} /\ spent' = spent
    BY <1>9 DEF Finish, Running, Holders, TypeOK
  <2>. QED BY <1>6, <1>9, <2>1 DEF Finish
<1>10. ASSUME NEW d \in Deploy, Disconnect(d)
       PROVE  LeaseInv'
  <2>1. Running' = Running /\ Holders' = Holders /\ spent' = spent
    BY <1>10 DEF Disconnect, Running, Holders
  <2>. QED BY <1>6, <1>10, <2>1 DEF Disconnect
<1>11. ASSUME NEW r \in Replica, Crash(r)
       PROVE  LeaseInv'
  <2>1. Running' \subseteq Running /\ Holders' \subseteq Holders /\ spent' = spent
    BY <1>11 DEF Crash, Running, Holders, TypeOK
  <2>. QED BY <1>6, <1>11, <2>1 DEF Crash
<1>12. ASSUME Tick
       PROVE  LeaseInv'
  <2>1. /\ Running' = Running /\ Holders' = Holders
        /\ \A h \in Running : spent[h] < MaxDeploy /\ spent'[h] = spent[h] + 1
        /\ \A m \in members : age'[m] = Older(age[m], AgeCap)
        /\ members' \subseteq members
    BY <1>12 DEF Tick, Running, Holders
  <2>2. \A h \in Running' : spent'[h] <= MaxDeploy
    BY <2>1, LimiterAssumption
  <2>3. ASSUME NEW h \in Holders'
        PROVE  h \in members' /\ age'[h] <= spent'[h]
    <3>1. /\ h \in Holders /\ h \in Running /\ h \in Deploy
          /\ h \in members /\ age[h] <= spent[h] /\ keyAge <= age[h]
          /\ age[h] \in Nat /\ spent[h] \in Nat /\ keyAge \in Nat
      BY <2>1, <2>3 DEF LeaseInv
    <3>2. keyAge + 1 < LeaseTTL
      BY <2>1, <3>1, LimiterAssumption
    <3>3. members' = members
      BY <1>12, <3>2, LimiterAssumption DEF Tick
    <3>4. age'[h] <= age[h] + 1
      BY <2>1, <3>1 DEF Older
    <3>. QED
      BY <1>0, <2>1, <3>1, <3>3, <3>4 DEF Older
  <2>4. ASSUME NEW m \in members'
        PROVE  keyAge' <= age'[m]
    <3>1. /\ m \in members /\ m \in Deploy /\ keyAge <= age[m]
          /\ age[m] \in Nat /\ keyAge \in Nat
      BY <2>1, <2>4 DEF LeaseInv
    <3>2. keyAge' = keyAge + 1 /\ keyAge + 1 < LeaseTTL
      BY <1>12, <2>4, <3>1, LimiterAssumption DEF Tick
    <3>3. LeaseTTL <= AgeCap /\ AgeCap \in Nat
      BY LimiterAssumption DEF AgeCap
    <3>. QED
      BY <2>1, <3>1, <3>2, <3>3, LimiterAssumption DEF Older
  <2>. QED
    BY <2>2, <2>3, <2>4 DEF LeaseInv
<1>13. CASE UNCHANGED vars
  BY <1>13 DEF vars, LeaseInv, Running, Holders
<1>. QED
  BY <1>2, <1>3, <1>4, <1>5, <1>7, <1>8, <1>9, <1>10, <1>11, <1>12, <1>13
  DEF Next, AcquireStep

LEMMA LimiterInvariant == Spec => []LimiterInv
<1>1. Init => LimiterInv
  BY LimiterAssumption, FS_EmptySet
  DEF Init, LimiterInv, TypeOK, SetBounded, LeaseInv, Phase, Running, Queueing,
      Holders, AgeCap, WaitCap
<1>2. LimiterInv /\ [Next]_vars => LimiterInv'
  BY TypeStep, BoundStep, LeaseStep DEF LimiterInv
<1>. QED
  BY <1>1, <1>2, PTL DEF Spec

\* The sorted set never exceeds the bound.
THEOREM SortedSetBounded == Spec => []SetBounded
  BY LimiterInvariant, PTL DEF LimiterInv

\* No in-flight holder is evicted while still working: a lease that exceeds
\* the longest deploy by the difference of the clocks is enough.
THEOREM LeaseCoversDeploy == Spec => []HolderKeepsLease
<1>1. LimiterInv => HolderKeepsLease
  BY DEF LimiterInv, LeaseInv, HolderKeepsLease
<1>. QED
  BY <1>1, LimiterInvariant, PTL

LEMMA HoldersFit == LimiterInv => BoundedIngest
<1>. SUFFICES ASSUME LimiterInv
              PROVE  BoundedIngest
  OBVIOUS
<1>1. Holders \in SUBSET members /\ IsFiniteSet(members)
  BY LimiterAssumption, FS_Subset DEF LimiterInv, LeaseInv, TypeOK
<1>2. /\ Cardinality(Holders) \in Nat
      /\ Cardinality(members) \in Nat
      /\ Cardinality(Holders) <= Cardinality(members)
  BY <1>1, FS_Subset, FS_CardinalityType
<1>. QED
  BY <1>2, LimiterAssumption DEF LimiterInv, SetBounded, BoundedIngest

\* Across all replicas, at most MaxSlots deploys that the script admitted run
\* at the same time.
THEOREM IngestBounded == Spec => []BoundedIngest
  BY LimiterInvariant, HoldersFit, PTL

-----------------------------------------------------------------------------
(***************************************************************************)
(* The limiter implements the abstract semaphore.                          *)
(***************************************************************************)

\* Every step of the limiter takes a free slot, gives slots back, or is a
\* stutter of the semaphore.
LEMMA SlotsStep ==
  LimiterInv /\ [Next]_vars => [Slots!Next]_Holders
<1>. SUFFICES ASSUME LimiterInv, [Next]_vars
              PROVE  Slots!Next \/ Holders' = Holders
  OBVIOUS
<1>. USE HolderFacts DEF LimiterInv
<1>1. ASSUME NEW d \in Deploy, Admit(d)
      PROVE  Slots!Next
  <2>1. d \notin Holders /\ Holders' = Holders \cup {d}
    BY <1>1 DEF Admit, Holders, Running, TypeOK
  <2>2. Home[d] \in Replica /\ IsFiniteSet(members)
    BY LimiterAssumption, FS_Subset DEF TypeOK
  <2>3. Live(d) \in SUBSET members
    BY DEF Live
  <2>4. Holders \subseteq Live(d) /\ IsFiniteSet(Live(d))
    BY <2>2, <2>3, FS_Subset, HolderNotExpired DEF Live, LeaseInv
  <2>5. /\ Cardinality(Holders) \in Nat
        /\ Cardinality(Live(d)) \in Nat
        /\ Cardinality(Holders) <= Cardinality(Live(d))
    BY <2>4, FS_Subset, FS_CardinalityType
  <2>6. Cardinality(Holders) < MaxSlots
    BY <1>1, <2>5, LimiterAssumption DEF Admit, HasRoom
  <2>7. Slots!Cardinality(Holders) = Cardinality(Holders)
    BY DEF Slots!Cardinality, Cardinality
  <2>. QED
    BY <2>1, <2>6, <2>7 DEF Slots!Next, Slots!Acquire
<1>2. ASSUME NEW S \in SUBSET Deploy, Holders' = Holders \ S
      PROVE  Slots!Next \/ Holders' = Holders
  <2>1. CASE Holders \cap S = {}
    BY <1>2, <2>1
  <2>2. CASE Holders \cap S # {}
    <3>1. Slots!Release(Holders \cap S)
      BY <1>2, <2>2 DEF Slots!Release
    <3>. QED BY <3>1 DEF Slots!Next
  <2>. QED BY <2>1, <2>2
<1>3. ASSUME NEW d \in Deploy, Finish(d)
      PROVE  Slots!Next \/ Holders' = Holders
  <2>1. Holders' = Holders \ {d}
    BY <1>3 DEF Finish, Holders, Running, TypeOK
  <2>. QED BY <1>2, <2>1
<1>4. ASSUME NEW r \in Replica, Crash(r)
      PROVE  Slots!Next \/ Holders' = Holders
  <2>1. Holders' = Holders \ {d \in Deploy : Home[d] = r}
    BY <1>4 DEF Crash, Holders, Running, TypeOK
  <2>. QED BY <1>2, <2>1
<1>5. ASSUME NEW d \in Deploy, FailOpen(d)
      PROVE  Holders' = Holders
  BY <1>5 DEF FailOpen, Holders, Running, TypeOK
<1>6. ASSUME NEW d \in Deploy,
             Arrive(d) \/ Refuse(d) \/ ReplyLost(d) \/ Shed(d) \/ Backoff(d)
               \/ GiveUp(d) \/ Disconnect(d)
      PROVE  Holders' = Holders
  BY <1>6 DEF Arrive, Refuse, ReplyLost, Shed, Backoff, GiveUp, Disconnect,
              Holders, Running, TypeOK
<1>7. Tick \/ UNCHANGED vars => Holders' = Holders
  BY DEF Tick, vars, Holders, Running
<1>. QED
  BY <1>1, <1>3, <1>4, <1>5, <1>6, <1>7 DEF Next, AcquireStep

\* The Redis limiter is a correct semaphore for the deploys it admits, through
\* lost replies, failed releases, crashes and clock differences.
THEOREM LimiterImplementsSlots == Spec => ImplementsSlots
<1>1. Init => Slots!Init
  BY DEF Init, Slots!Init, Holders, Running
<1>. QED
  BY <1>1, SlotsStep, LimiterInvariant, PTL
  DEF Spec, ImplementsSlots, Slots!Spec

=============================================================================
