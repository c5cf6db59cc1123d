---------------------------- MODULE PortalProofs ----------------------------
(***************************************************************************)
(* Theorems about the reading statistics of Portal, for any readers,       *)
(* versions and durations, any number of deploys, and whatever the         *)
(* repositories contain; and about the chunks that texts are cut into.     *)
(*                                                                         *)
(* The argument for the statistics: a read that is not in "overlapped" has *)
(* one call open at most, and, when no UPDATE of it failed, while it is    *)
(* open there is no row of it; so the call that finds no row to change is  *)
(* the one that inserts it.  From  *)
(* then on there is the one row, which has the longest duration that was   *)
(* reported: commits only unlink it, and they return every row that they   *)
(* hold.                                                                   *)
(***************************************************************************)
EXTENDS Portal, FiniteSetTheorems, TLAPS

\* The rows of a read, and the calls that made or changed one.
ViewsOf(r) == {w \in views : w.read = r}
Done(r) == {c \in Call : calls[r][c].at = "done"}

\* What RecordPageView takes for the present is later than these.
Times == {calls[s][d].order : s \in Read, d \in Call}

\* The types of what the statistics depend on.
ReadingOK ==
  /\ number \in [Version -> Nat]
  /\ calls \in [Read -> [Call -> [at : {"new", "missed", "looked", "done", "dropped"},
                                  link : Nat, module : BOOLEAN, order : Nat]]]
  /\ views \subseteq [read : Read, duration : Call, link : Nat, module : BOOLEAN, order : Nat]

\* The rows an ingest has locked are there until it ends.
HeldInv == ingest # None => ingest.held \subseteq views

\* There is a latest time.
ClockInv == Read # {} => \E k \in Times : \A j \in Times : k >= j

\* The read is counted, with the longest of its durations.
OneRow(r) ==
  /\ Open(r) = {}
  /\ \E w \in views : /\ ViewsOf(r) = {w}
                      /\ w.duration \in Done(r)
                      /\ \A d \in Done(r) : w.duration >= d

\* A read without overlaps is not counted yet, or once.
CountInv ==
  \A r \in Read \ (overlapped \cup failed) :
    /\ \A c, d \in Open(r) : c = d
    /\ \/ ViewsOf(r) = {} /\ Done(r) = {}
       \/ OneRow(r)

PortalInv == ReadingOK /\ HeldInv /\ ClockInv /\ CountInv

\* A call is known by the duration it reports, a view by 0.
LEMMA CallIsNat == Call \subseteq Nat /\ 0 \in Call
  BY PortalAssumption DEF Call

\* The longer of two durations (GREATEST in RecordReadProgress).
LEMMA MaxOfTwo ==
  ASSUME NEW a \in Nat, NEW b \in Nat
  PROVE  Max({a, b}) \in {a, b} /\ Max({a, b}) >= a /\ Max({a, b}) >= b
<1>1. \E x \in {a, b} : \A y \in {a, b} : x >= y
  <2>1. CASE a >= b
    BY <2>1
  <2>2. CASE ~ (a >= b)
    BY <2>2
  <2> QED BY <2>1, <2>2
<1> QED BY <1>1 DEF Max

\* Nobody has read anything at the start.
LEMMA InitPortal == Init => PortalInv
<1> SUFFICES ASSUME Init PROVE PortalInv
  OBVIOUS
<1> USE DEF Init
<1>1. ReadingOK
  BY DEF ReadingOK
<1>2. HeldInv
  BY DEF HeldInv
<1>3. ClockInv
  <2> SUFFICES ASSUME NEW s \in Read
               PROVE  \E k \in Times : \A j \in Times : k >= j
    BY DEF ClockInv
  <2>0. \A q \in Read, c \in Call : calls[q][c].order = 0
    OBVIOUS
  <2>1. calls[s][0].order \in Times
    <3>1. s \in Read /\ 0 \in Call
      BY CallIsNat
    <3> HIDE DEF Init
    <3> QED BY <3>1, SMT DEF Times
  <2>2. \A j \in Times : j = 0
    <3> TAKE j \in Times
    <3> HIDE DEF Init
    <3>1. PICK q \in Read, c \in Call : j = calls[q][c].order
      BY SMT DEF Times
    <3> QED BY <2>0, <3>1, Zenon
  <2> HIDE DEF Init, Times
  <2>3. 0 \in Times
    BY <2>1, <2>2
  <2> QED BY <2>2, <2>3
<1>4. CountInv
  BY DEF CountInv, Open, ViewsOf, Done
<1> QED BY <1>1, <1>2, <1>3, <1>4 DEF PortalInv

\* A step of an ingest short of its commit.
LEMMA IngestStep ==
  ASSUME PortalInv, UNCHANGED <<site, reading>>,
         ingest' = None \/ ingest'.held \subseteq views
  PROVE  PortalInv'
<1> USE DEF PortalInv, site, reading
<1>1. ReadingOK'
  BY DEF ReadingOK
<1>2. HeldInv'
  BY DEF HeldInv
<1>3. ClockInv'
  BY DEF ClockInv, Times
<1>4. CountInv'
  BY DEF CountInv, OneRow, Open, ViewsOf, Done
<1> QED BY <1>1, <1>2, <1>3, <1>4

\* The commit of an ingest unlinks the rows that it holds and changes no other.
LEMMA CommitStep ==
  ASSUME PortalInv, CommitIngest
  PROVE  PortalInv'
<1> DEFINE Off(w) == [w EXCEPT !.link = 0]
<1>0. /\ ReadingOK /\ HeldInv /\ ClockInv /\ CountInv
      /\ ingest # None /\ ingest' = None
      /\ calls' = calls /\ overlapped' = overlapped /\ failed' = failed
      /\ \E v : number' = [number EXCEPT ![v] = @ + 1]
      /\ views' = (views \ ingest.held) \cup {Off(w) : w \in ingest.held}
  BY DEF PortalInv, CommitIngest
<1>1. ingest.held \subseteq views
  BY <1>0 DEF HeldInv
<1>2. \A w \in views : /\ w \in [read : Read, duration : Call, link : Nat, module : BOOLEAN, order : Nat]
                       /\ Off(w) \in [read : Read, duration : Call, link : Nat, module : BOOLEAN, order : Nat]
                       /\ Off(w).read = w.read /\ Off(w).duration = w.duration
  BY <1>0 DEF ReadingOK
<1>3. ReadingOK'
  <2>1. number' \in [Version -> Nat]
    <3>1. PICK v : number' = [number EXCEPT ![v] = @ + 1]
      BY <1>0
    <3>2. number \in [Version -> Nat]
      BY <1>0 DEF ReadingOK
    <3>3. \A x \in Version : number'[x] = IF x = v THEN number[x] + 1 ELSE number[x]
      BY <3>1, <3>2
    <3>4. number' = [x \in Version |-> number'[x]]
      BY <3>1, <3>2
    <3> QED BY <3>2, <3>3, <3>4
  <2>2. views' \subseteq [read : Read, duration : Call, link : Nat, module : BOOLEAN, order : Nat]
    BY <1>0, <1>1, <1>2
  <2> QED BY <1>0, <2>1, <2>2 DEF ReadingOK
<1>4. HeldInv'
  BY <1>0 DEF HeldInv
<1>5. ClockInv'
  BY <1>0 DEF ClockInv, Times
<1>6. CountInv'
  <2> SUFFICES ASSUME NEW r \in Read \ (overlapped \cup failed)
               PROVE  /\ \A c, d \in Open(r)' : c = d
                      /\ (ViewsOf(r)' = {} /\ Done(r)' = {}) \/ OneRow(r)'
    BY <1>0 DEF CountInv
  <2>1. Open(r)' = Open(r) /\ Done(r)' = Done(r)
    BY <1>0 DEF Open, Done
  <2>2. \A c, d \in Open(r) : c = d
    BY <1>0 DEF CountInv
  <2>3. CASE ViewsOf(r) = {} /\ Done(r) = {}
    <3>1. \A x \in views' : \E w \in views : x.read = w.read
      BY <1>0, <1>1, <1>2
    <3>2. ViewsOf(r)' = {}
      BY <2>3, <3>1 DEF ViewsOf
    <3> QED BY <2>1, <2>2, <2>3, <3>2
  <2>4. CASE OneRow(r)
    <3>1. PICK w \in views : /\ ViewsOf(r) = {w}
                             /\ w.duration \in Done(r)
                             /\ \A d \in Done(r) : w.duration >= d
      BY <2>4 DEF OneRow
    <3>2. w.read = r /\ \A x \in views : x.read = r => x = w
      BY <3>1 DEF ViewsOf
    <3>3. CASE w \in ingest.held
      <4>0. Off(w) \in views'
        BY <1>0, <3>3
      <4>1. Off(w) \in views' /\ \A x \in views' : x.read = r => x = Off(w)
        <5> SUFFICES ASSUME NEW x \in views', x.read = r PROVE x = Off(w)
          BY <4>0
        <5>1. CASE x \in views \ ingest.held
          BY <3>2, <3>3, <5>1
        <5>2. CASE x \notin views \ ingest.held
          <6>1. PICK y \in ingest.held : x = Off(y)
            BY <1>0, <5>2
          <6>2. y \in views /\ y.read = r
            BY <1>1, <1>2, <6>1
          <6>3. y = w
            BY <3>2, <6>2
          <6> QED BY <6>1, <6>3
        <5> QED BY <5>1, <5>2
      <4>2. ViewsOf(r)' = {Off(w)}
        BY <1>2, <3>2, <4>1 DEF ViewsOf
      <4> QED BY <1>2, <2>1, <2>2, <2>4, <3>1, <4>1, <4>2 DEF OneRow
    <3>4. CASE w \notin ingest.held
      <4>1. w \in views' /\ \A x \in views' : x.read = r => x = w
        BY <1>0, <1>1, <1>2, <3>2, <3>4
      <4>2. ViewsOf(r)' = {w}
        BY <3>2, <4>1 DEF ViewsOf
      <4> QED BY <2>1, <2>2, <2>4, <3>1, <4>1, <4>2 DEF OneRow
    <3> QED BY <3>3, <3>4
  <2> QED BY <1>0, <2>3, <2>4 DEF CountInv
<1> QED BY <1>3, <1>4, <1>5, <1>6 DEF PortalInv

\* One call of a read, as it comes in or goes on.
LEMMA StepKeeps ==
  ASSUME ReadingOK, NEW r \in Read, NEW c \in Call, NEW from, NEW to, Step(r, c, from, to),
         to \in {"new", "missed", "looked", "done", "dropped"}
  PROVE  /\ calls' \in [Read -> [Call -> [at : {"new", "missed", "looked", "done", "dropped"},
                                          link : Nat, module : BOOLEAN, order : Nat]]]
         /\ calls'[r][c].at = to
         /\ \A q \in Read, d \in Call :
              /\ calls'[q][d].order = calls[q][d].order
              /\ q # r \/ d # c => calls'[q][d].at = calls[q][d].at
         /\ Times' = Times
<1>1. calls' \in [Read -> [Call -> [at : {"new", "missed", "looked", "done", "dropped"},
                                    link : Nat, module : BOOLEAN, order : Nat]]]
  BY DEF ReadingOK, Step
<1>2. calls'[r][c].at = to
  BY DEF ReadingOK, Step
<1>3. \A q \in Read, d \in Call :
         /\ calls'[q][d].order = calls[q][d].order
         /\ q # r \/ d # c => calls'[q][d].at = calls[q][d].at
  BY DEF ReadingOK, Step
<1>4. Times' = Times
  BY <1>3 DEF Times
<1> QED BY <1>1, <1>2, <1>3, <1>4

\* The reads that are not overlapped afterwards were not before, and the call
\* came in alone.
LEMMA ComesAlone ==
  ASSUME NEW r \in Read, NEW c \in Call, Overlaps(r, c), r \notin overlapped'
  PROVE  /\ r \notin overlapped /\ Open(r) = {}
         /\ c = 0 => \A d \in Durations : calls[r][d].at = "new"
  BY DEF Overlaps

\* A view that comes in alone and first finds no row.
LEMMA ViewStep ==
  ASSUME PortalInv, NEW r \in Read, View(r)
  PROVE  PortalInv'
<1>0. /\ ReadingOK /\ HeldInv /\ ClockInv /\ CountInv
      /\ Step(r, 0, "new", "missed") /\ Overlaps(r, 0)
      /\ UNCHANGED <<site, ingest, views, failed>> /\ calls[r][0].at = "new"
  BY DEF PortalInv, View, Step
<1>1. /\ calls' \in [Read -> [Call -> [at : {"new", "missed", "looked", "done", "dropped"},
                                       link : Nat, module : BOOLEAN, order : Nat]]]
      /\ calls'[r][0].at = "missed"
      /\ \A q \in Read, d \in Call : q # r \/ d # 0 => calls'[q][d].at = calls[q][d].at
      /\ Times' = Times
  BY <1>0, CallIsNat, StepKeeps
<1>2. ReadingOK'
  BY <1>0, <1>1 DEF ReadingOK, site
<1>3. HeldInv'
  BY <1>0 DEF HeldInv
<1>4. ClockInv'
  BY <1>0, <1>1 DEF ClockInv
<1>5. CountInv'
  <2> SUFFICES ASSUME NEW q \in Read, q \notin overlapped', q \notin failed'
               PROVE  /\ \A c, d \in Open(q)' : c = d
                      /\ (ViewsOf(q)' = {} /\ Done(q)' = {}) \/ OneRow(q)'
    BY DEF CountInv
  <2>1. q \notin overlapped /\ q \notin failed /\ ViewsOf(q)' = ViewsOf(q)
    BY <1>0 DEF Overlaps, ViewsOf
  <2>2. /\ \A c, d \in Open(q) : c = d
        /\ (ViewsOf(q) = {} /\ Done(q) = {}) \/ OneRow(q)
    BY <1>0, <2>1 DEF CountInv
  <2>3. CASE q # r
    <3>1. Open(q)' = Open(q) /\ Done(q)' = Done(q)
      BY <1>1, <2>3 DEF Open, Done
    <3> QED BY <1>0, <2>1, <2>2, <3>1 DEF OneRow
  <2>4. CASE q = r
    <3>1. Open(r) = {} /\ \A d \in Durations : calls[r][d].at = "new"
      BY <1>0, <2>4, CallIsNat, ComesAlone
    <3>2. Done(r) = {}
      BY <1>0, <3>1 DEF Done, Call
    <3>3. ViewsOf(r) = {}
      BY <2>2, <2>4, <3>2 DEF OneRow
    <3>4. Open(r)' = {0} /\ Done(r)' = {}
      BY <1>1, <3>1, <3>2, CallIsNat DEF Open, Done
    <3> QED BY <2>1, <2>4, <3>3, <3>4
  <2> QED BY <2>3, <2>4
<1> QED BY <1>2, <1>3, <1>4, <1>5 DEF PortalInv

\* A report changes the one row that there is, or goes on to insert the first.
LEMMA ProgressStep ==
  ASSUME PortalInv, NEW r \in Read, NEW c \in Durations, Progress(r, c)
  PROVE  PortalInv'
<1>0. /\ ReadingOK /\ HeldInv /\ ClockInv /\ CountInv
      /\ Overlaps(r, c) /\ UNCHANGED <<site, ingest, failed>>
      /\ c \in Call /\ c \in Nat /\ c # 0
  BY CallIsNat, PortalAssumption DEF PortalInv, Progress, Call
<1>1. CASE Latest(r) = {}
  <2>0. Step(r, c, "new", "missed") /\ UNCHANGED views
    BY <1>1 DEF Progress
  <2>1. /\ calls' \in [Read -> [Call -> [at : {"new", "missed", "looked", "done", "dropped"},
                                         link : Nat, module : BOOLEAN, order : Nat]]]
        /\ calls'[r][c].at = "missed"
        /\ \A q \in Read, d \in Call : q # r \/ d # c => calls'[q][d].at = calls[q][d].at
        /\ Times' = Times
    BY <1>0, <2>0, StepKeeps
  <2>2. ReadingOK' /\ HeldInv' /\ ClockInv'
    BY <1>0, <2>0, <2>1 DEF ReadingOK, HeldInv, ClockInv, site
  <2>3. CountInv'
    <3> SUFFICES ASSUME NEW q \in Read, q \notin overlapped', q \notin failed'
                 PROVE  /\ \A d, e \in Open(q)' : d = e
                        /\ (ViewsOf(q)' = {} /\ Done(q)' = {}) \/ OneRow(q)'
      BY DEF CountInv
    <3>1. q \notin overlapped /\ q \notin failed /\ ViewsOf(q)' = ViewsOf(q)
      BY <1>0, <2>0 DEF Overlaps, ViewsOf
    <3>2. /\ \A d, e \in Open(q) : d = e
          /\ (ViewsOf(q) = {} /\ Done(q) = {}) \/ OneRow(q)
      BY <1>0, <3>1 DEF CountInv
    <3>3. CASE q # r
      <4>1. Open(q)' = Open(q) /\ Done(q)' = Done(q)
        BY <2>1, <3>3 DEF Open, Done
      <4> QED BY <2>0, <3>1, <3>2, <4>1 DEF OneRow
    <3>4. CASE q = r
      <4>1. Open(r) = {}
        BY <1>0, <3>4, ComesAlone
      <4>2. ~ OneRow(r)
        <5> SUFFICES ASSUME NEW w \in views, ViewsOf(r) = {w}
                     PROVE  FALSE
          BY DEF OneRow
        <5>1. w.read = r /\ \A u \in views : u.read = r => u = w
          BY DEF ViewsOf
        <5>2. w.order <= w.order
          BY <1>0 DEF ReadingOK
        <5>3. w \in Latest(r)
          BY <5>1, <5>2 DEF Latest
        <5> QED BY <1>1, <5>3
      <4>3. Open(r)' = {c} /\ Done(r)' = Done(r)
        BY <1>0, <2>0, <2>1, <4>1 DEF Open, Done, Step
      <4> QED BY <3>1, <3>2, <3>4, <4>2, <4>3
    <3> QED BY <3>3, <3>4
  <2> QED BY <2>2, <2>3 DEF PortalInv
<1>2. CASE Latest(r) # {}
  <2>0. PICK w \in Latest(r) : /\ ingest # None => w \notin ingest.held
                               /\ views' = (views \ {w}) \cup {[w EXCEPT !.duration = Max({@, c})]}
                               /\ Step(r, c, "new", "done")
    BY <1>2 DEF Progress, Prolong
  <2> DEFINE longer == [w EXCEPT !.duration = Max({@, c})]
  <2>1. /\ calls' \in [Read -> [Call -> [at : {"new", "missed", "looked", "done", "dropped"},
                                         link : Nat, module : BOOLEAN, order : Nat]]]
        /\ calls'[r][c].at = "done"
        /\ \A q \in Read, d \in Call : q # r \/ d # c => calls'[q][d].at = calls[q][d].at
        /\ Times' = Times
    BY <1>0, <2>0, StepKeeps
  <2>2. w \in views /\ w.read = r /\ w \in [read : Read, duration : Call, link : Nat, module : BOOLEAN, order : Nat]
    BY <1>0 DEF Latest, ReadingOK
  <2>3. w.duration \in Nat /\ w.duration \in Call
    BY <2>2, CallIsNat
  <2>4. /\ Max({w.duration, c}) \in {w.duration, c}
        /\ Max({w.duration, c}) >= w.duration /\ Max({w.duration, c}) >= c
    BY <1>0, <2>3, MaxOfTwo
  <2>5. /\ longer \in [read : Read, duration : Call, link : Nat, module : BOOLEAN, order : Nat]
        /\ longer.read = r /\ longer.duration = Max({w.duration, c})
    BY <1>0, <2>2, <2>3, <2>4
  <2>6. views' = (views \ {w}) \cup {longer}
    BY <2>0
  <2> HIDE DEF longer
  <2>7. ReadingOK'
    <3>1. views' \subseteq [read : Read, duration : Call, link : Nat, module : BOOLEAN, order : Nat]
      BY <1>0, <2>5, <2>6 DEF ReadingOK
    <3> QED BY <1>0, <2>1, <3>1 DEF ReadingOK, site
  <2>8. HeldInv'
    BY <1>0, <2>0, <2>6 DEF HeldInv
  <2>9. ClockInv'
    BY <1>0, <2>1 DEF ClockInv
  <2>10. CountInv'
    <3> SUFFICES ASSUME NEW q \in Read, q \notin overlapped', q \notin failed'
                 PROVE  /\ \A d, e \in Open(q)' : d = e
                        /\ (ViewsOf(q)' = {} /\ Done(q)' = {}) \/ OneRow(q)'
      BY DEF CountInv
    <3>1. q \notin overlapped /\ q \notin failed
      BY <1>0 DEF Overlaps
    <3>2. /\ \A d, e \in Open(q) : d = e
          /\ (ViewsOf(q) = {} /\ Done(q) = {}) \/ OneRow(q)
      BY <1>0, <3>1 DEF CountInv
    <3>3. CASE q # r
      <4>1. Open(q)' = Open(q) /\ Done(q)' = Done(q)
        BY <2>1, <3>3 DEF Open, Done
      <4>2. ViewsOf(q)' = ViewsOf(q)
        BY <2>2, <2>5, <2>6, <3>3 DEF ViewsOf
      <4>3. OneRow(q) => OneRow(q)'
        BY <4>1, <4>2 DEF OneRow, ViewsOf
      <4> QED BY <3>2, <4>1, <4>2, <4>3
    <3>4. CASE q = r
      <4>1. Open(r) = {}
        BY <1>0, <3>4, ComesAlone
      <4>2. Open(r)' = {} /\ Done(r)' = Done(r) \cup {c}
        BY <1>0, <2>1, <4>1 DEF Open, Done
      <4>3. w \in ViewsOf(r)
        BY <2>2 DEF ViewsOf
      <4>4. /\ ViewsOf(r) = {w} /\ w.duration \in Done(r)
            /\ \A d \in Done(r) : w.duration >= d
        BY <3>2, <3>4, <4>3 DEF OneRow
      <4>5. ViewsOf(r)' = {longer} /\ longer \in views'
        BY <2>5, <2>6, <4>4 DEF ViewsOf
      <4>6. longer.duration \in Done(r)'
        BY <2>4, <2>5, <4>2, <4>4
      <4>7. \A d \in Done(r)' : longer.duration >= d
        <5> TAKE d \in Done(r)'
        <5>1. CASE d = c
          BY <2>4, <2>5, <5>1
        <5>2. CASE d \in Done(r)
          <6>1. w.duration >= d /\ d \in Nat
            BY <4>4, <5>2, CallIsNat DEF Done
          <6>2. Max({w.duration, c}) \in Nat
            BY <1>0, <2>3, <2>4
          <6> QED BY <2>3, <2>4, <2>5, <6>1, <6>2
        <5> QED BY <4>2, <5>1, <5>2
      <4> QED BY <3>4, <4>2, <4>5, <4>6, <4>7 DEF OneRow
    <3> QED BY <3>3, <3>4
  <2> QED BY <2>7, <2>8, <2>9, <2>10 DEF PortalInv
<1> QED BY <1>1, <1>2

\* A report whose UPDATE fails goes on to insert another row, and the read is
\* not among those that are counted once.
LEMMA FailStep ==
  ASSUME PortalInv, NEW r \in Read, NEW c \in Durations, FailProgress(r, c)
  PROVE  PortalInv'
<1>0. /\ ReadingOK /\ HeldInv /\ ClockInv /\ CountInv
      /\ Overlaps(r, c) /\ UNCHANGED <<site, ingest>> /\ failed' = failed \cup {r}
      /\ Step(r, c, "new", "missed")
      /\ UNCHANGED views \/ Prolong(r, c)
      /\ c \in Call /\ c \in Nat
  BY CallIsNat, PortalAssumption DEF PortalInv, FailProgress, Call
<1>1. /\ calls' \in [Read -> [Call -> [at : {"new", "missed", "looked", "done", "dropped"},
                                       link : Nat, module : BOOLEAN, order : Nat]]]
      /\ \A q \in Read, d \in Call : q # r => calls'[q][d].at = calls[q][d].at
      /\ Times' = Times
  BY <1>0, StepKeeps
<1>2. /\ views' \subseteq [read : Read, duration : Call, link : Nat, module : BOOLEAN, order : Nat]
      /\ HeldInv'
      /\ \A q \in Read : q # r => ViewsOf(q)' = ViewsOf(q)
  <2>1. CASE UNCHANGED views
    BY <1>0, <2>1 DEF ReadingOK, HeldInv, ViewsOf
  <2>2. CASE Prolong(r, c)
    <3>1. PICK w \in Latest(r) : /\ ingest # None => w \notin ingest.held
                                /\ views' = (views \ {w}) \cup {[w EXCEPT !.duration = Max({@, c})]}
      BY <2>2 DEF Prolong
    <3>2. /\ w \in views /\ w.read = r
          /\ w \in [read : Read, duration : Call, link : Nat, module : BOOLEAN, order : Nat]
      BY <1>0 DEF Latest, ReadingOK
    <3>3. Max({w.duration, c}) \in Call
      BY <1>0, <3>2, CallIsNat, MaxOfTwo
    <3> DEFINE longer == [w EXCEPT !.duration = Max({@, c})]
    <3>4. /\ longer \in [read : Read, duration : Call, link : Nat, module : BOOLEAN, order : Nat]
          /\ longer.read = r
      BY <3>2, <3>3
    <3>5. views' = (views \ {w}) \cup {longer}
      BY <3>1
    <3> HIDE DEF longer
    <3>6. views' \subseteq [read : Read, duration : Call, link : Nat, module : BOOLEAN, order : Nat]
      BY <1>0, <3>4, <3>5 DEF ReadingOK
    <3>7. HeldInv'
      BY <1>0, <3>1, <3>5 DEF HeldInv
    <3>8. \A q \in Read : q # r => ViewsOf(q)' = ViewsOf(q)
      BY <3>2, <3>4, <3>5 DEF ViewsOf
    <3> QED BY <3>6, <3>7, <3>8
  <2> QED BY <1>0, <2>1, <2>2
<1>3. ReadingOK' /\ ClockInv'
  BY <1>0, <1>1, <1>2 DEF ReadingOK, ClockInv, site
<1>4. CountInv'
  <2> SUFFICES ASSUME NEW q \in Read, q \notin overlapped', q \notin failed'
               PROVE  /\ \A d, e \in Open(q)' : d = e
                      /\ (ViewsOf(q)' = {} /\ Done(q)' = {}) \/ OneRow(q)'
    BY DEF CountInv
  <2>1. q \notin overlapped /\ q \notin failed /\ q # r
    BY <1>0 DEF Overlaps
  <2>2. /\ \A d, e \in Open(q) : d = e
        /\ (ViewsOf(q) = {} /\ Done(q) = {}) \/ OneRow(q)
    BY <1>0, <2>1 DEF CountInv
  <2>3. Open(q)' = Open(q) /\ Done(q)' = Done(q) /\ ViewsOf(q)' = ViewsOf(q)
    BY <1>1, <1>2, <2>1 DEF Open, Done
  <2>4. OneRow(q) => OneRow(q)'
    BY <2>3 DEF OneRow, ViewsOf
  <2> QED BY <2>2, <2>3, <2>4
<1> QED BY <1>2, <1>3, <1>4 DEF PortalInv

\* RecordPageView takes the time and looks for the page; it writes nothing.
LEMMA LookStep ==
  ASSUME PortalInv, NEW r \in Read, NEW c \in Call, Look(r, c)
  PROVE  PortalInv'
<1> DEFINE v == VersionOf(r)
           order == Max(Times) + 1
<1>0. /\ ReadingOK /\ HeldInv /\ ClockInv /\ CountInv
      /\ calls[r][c].at = "missed"
      /\ UNCHANGED <<site, ingest, views, overlapped, failed>>
  BY DEF PortalInv, Look
<1>a. PICK found \in BOOLEAN, module \in BOOLEAN :
        calls' = [calls EXCEPT ![r][c] =
          [at |-> "looked", link |-> IF found THEN number[v] ELSE 0, module |-> module,
           order |-> order]]
  BY DEF Look, Times
<1> DEFINE link == IF found THEN number[v] ELSE 0
           new == [at |-> "looked", link |-> link, module |-> module, order |-> order]
<1>1. calls' = [calls EXCEPT ![r][c] = new]
  BY <1>a
<1>2. Max(Times) \in Times /\ \A j \in Times : Max(Times) >= j
  BY <1>0 DEF ClockInv, Max
<1>3. Times \subseteq Nat
  BY <1>0 DEF Times, ReadingOK
<1>4. order \in Nat /\ link \in Nat
  <2>1. v \in Version
    BY PortalAssumption DEF VersionOf
  <2>2. number[v] \in Nat
    BY <1>0, <2>1 DEF ReadingOK
  <2>3. Max(Times) \in Nat
    BY <1>2, <1>3
  <2> HIDE DEF v
  <2> QED BY <2>2, <2>3
<1> HIDE DEF link, order
<1>5. /\ calls' \in [Read -> [Call -> [at : {"new", "missed", "looked", "done", "dropped"},
                                       link : Nat, module : BOOLEAN, order : Nat]]]
      /\ calls'[r][c] = new
      /\ \A q \in Read, d \in Call : q # r \/ d # c => calls'[q][d] = calls[q][d]
  BY <1>0, <1>1, <1>4 DEF ReadingOK
<1>6. ReadingOK'
  BY <1>0, <1>5 DEF ReadingOK, site
<1>7. HeldInv'
  BY <1>0 DEF HeldInv
<1>8. ClockInv'
  <2>1. order \in Times'
    BY <1>5, SMT DEF Times
  <2>2. \A j \in Times' : order >= j
    <3> TAKE j \in Times'
    <3>1. PICK q \in Read, d \in Call : j = calls'[q][d].order
      BY DEF Times
    <3>2. CASE q = r /\ d = c
      BY <1>4, <1>5, <3>1, <3>2
    <3>3. CASE ~ (q = r /\ d = c)
      <4>1. j = calls[q][d].order
        BY <1>5, <3>1, <3>3
      <4>2. j \in Times
        BY <4>1 DEF Times
      <4>3. Max(Times) >= j /\ Max(Times) \in Nat /\ j \in Nat
        BY <1>2, <1>3, <4>2
      <4> HIDE DEF Times
      <4> QED BY <4>3 DEF order
    <3> QED BY <3>2, <3>3
  <2> QED BY <2>1, <2>2 DEF ClockInv
<1>9. CountInv'
  <2>1. \A q \in Read : Open(q)' = Open(q) /\ Done(q)' = Done(q)
    <3> TAKE q \in Read
    <3>1. \A d \in Call : /\ (calls'[q][d].at \in {"missed", "looked"}) = (calls[q][d].at \in {"missed", "looked"})
                          /\ (calls'[q][d].at = "done") = (calls[q][d].at = "done")
      BY <1>0, <1>5
    <3> QED BY <3>1 DEF Open, Done
  <2>2. \A q \in Read : ViewsOf(q)' = ViewsOf(q)
    BY <1>0 DEF ViewsOf
  <2>3. \A q \in Read : OneRow(q) => OneRow(q)'
    BY <1>0, <2>1, <2>2 DEF OneRow
  <2> QED BY <1>0, <2>1, <2>2, <2>3 DEF CountInv
<1> QED BY <1>6, <1>7, <1>8, <1>9 DEF PortalInv

\* The row that is inserted is the read's first.
LEMMA InsertStep ==
  ASSUME PortalInv, NEW r \in Read, NEW c \in Call, Insert(r, c)
  PROVE  PortalInv'
<1> DEFINE new == [read |-> r, duration |-> c, link |-> calls[r][c].link,
                   module |-> calls[r][c].module, order |-> calls[r][c].order]
<1>0. /\ ReadingOK /\ HeldInv /\ ClockInv /\ CountInv
      /\ Step(r, c, "looked", "done")
      /\ views' = views \cup {new}
      /\ UNCHANGED <<site, ingest, overlapped, failed>>
  BY DEF PortalInv, Insert, Inserted
<1>1. /\ calls' \in [Read -> [Call -> [at : {"new", "missed", "looked", "done", "dropped"},
                                       link : Nat, module : BOOLEAN, order : Nat]]]
      /\ calls'[r][c].at = "done"
      /\ \A q \in Read, d \in Call : q # r \/ d # c => calls'[q][d].at = calls[q][d].at
      /\ Times' = Times
  BY <1>0, StepKeeps
<1>2. new \in [read : Read, duration : Call, link : Nat, module : BOOLEAN, order : Nat]
  BY <1>0 DEF ReadingOK
<1>3. new.read = r /\ new.duration = c
  OBVIOUS
<1> HIDE DEF new
<1>4. ReadingOK'
  <2>1. views' \subseteq [read : Read, duration : Call, link : Nat, module : BOOLEAN, order : Nat]
    BY <1>0, <1>2 DEF ReadingOK
  <2> QED BY <1>0, <1>1, <2>1 DEF ReadingOK, site
<1>5. HeldInv'
  BY <1>0 DEF HeldInv
<1>6. ClockInv'
  BY <1>0, <1>1 DEF ClockInv
<1>7. CountInv'
  <2> SUFFICES ASSUME NEW q \in Read, q \notin overlapped', q \notin failed'
               PROVE  /\ \A d, e \in Open(q)' : d = e
                      /\ (ViewsOf(q)' = {} /\ Done(q)' = {}) \/ OneRow(q)'
    BY <1>0 DEF CountInv
  <2>1. /\ \A d, e \in Open(q) : d = e
        /\ (ViewsOf(q) = {} /\ Done(q) = {}) \/ OneRow(q)
    BY <1>0 DEF CountInv
  <2>2. CASE q # r
    <3>1. Open(q)' = Open(q) /\ Done(q)' = Done(q)
      BY <1>1, <2>2 DEF Open, Done
    <3>2. ViewsOf(q)' = ViewsOf(q)
      BY <1>0, <1>3, <2>2 DEF ViewsOf
    <3>3. OneRow(q) => OneRow(q)'
      BY <3>1, <3>2 DEF OneRow, ViewsOf
    <3> QED BY <2>1, <3>1, <3>2, <3>3
  <2>3. CASE q = r
    <3>1. c \in Open(r)
      BY <1>0 DEF Open, Step
    <3>2. ViewsOf(r) = {} /\ Done(r) = {}
      BY <2>1, <2>3, <3>1 DEF OneRow
    <3>3. Open(r)' = {}
      <4>1. \A d \in Open(r) : d = c
        BY <2>1, <2>3, <3>1
      <4>2. \A d \in Call : calls'[r][d].at \in {"missed", "looked"} => d # c /\ d \in Open(r)
        BY <1>1 DEF Open
      <4> QED BY <4>1, <4>2 DEF Open
    <3>4. ViewsOf(r)' = {new} /\ new \in views'
      BY <1>0, <1>3, <3>2 DEF ViewsOf
    <3>5. Done(r)' = {c}
      BY <1>1, <3>2 DEF Done
    <3>6. \A d \in Done(r)' : new.duration >= d
      BY <1>3, <3>5, CallIsNat
    <3> QED BY <1>3, <2>3, <3>3, <3>4, <3>5, <3>6 DEF OneRow
  <2> QED BY <2>2, <2>3
<1> QED BY <1>4, <1>5, <1>6, <1>7 DEF PortalInv

\* A row that is refused leaves the read as it was.
LEMMA DropStep ==
  ASSUME PortalInv, NEW r \in Read, NEW c \in Call, DropView(r, c)
  PROVE  PortalInv'
<1>0. /\ ReadingOK /\ HeldInv /\ ClockInv /\ CountInv
      /\ Step(r, c, "looked", "dropped")
      /\ UNCHANGED <<site, ingest, views, overlapped, failed>>
  BY DEF PortalInv, DropView
<1>1. /\ calls' \in [Read -> [Call -> [at : {"new", "missed", "looked", "done", "dropped"},
                                       link : Nat, module : BOOLEAN, order : Nat]]]
      /\ calls'[r][c].at = "dropped"
      /\ \A q \in Read, d \in Call : q # r \/ d # c => calls'[q][d].at = calls[q][d].at
      /\ Times' = Times
  BY <1>0, StepKeeps
<1>2. ReadingOK' /\ HeldInv' /\ ClockInv'
  BY <1>0, <1>1 DEF ReadingOK, HeldInv, ClockInv, site
<1>3. CountInv'
  <2> SUFFICES ASSUME NEW q \in Read, q \notin overlapped', q \notin failed'
               PROVE  /\ \A d, e \in Open(q)' : d = e
                      /\ (ViewsOf(q)' = {} /\ Done(q)' = {}) \/ OneRow(q)'
    BY <1>0 DEF CountInv
  <2>1. /\ \A d, e \in Open(q) : d = e
        /\ (ViewsOf(q) = {} /\ Done(q) = {}) \/ OneRow(q)
    BY <1>0 DEF CountInv
  <2>2. Open(q)' \subseteq Open(q) /\ Done(q)' = Done(q) /\ ViewsOf(q)' = ViewsOf(q)
    BY <1>0, <1>1 DEF Open, Done, ViewsOf, Step
  <2>3. Open(q) = {} => Open(q)' = {}
    BY <2>2
  <2>4. OneRow(q) => OneRow(q)'
    BY <2>2, <2>3 DEF OneRow, ViewsOf
  <2> QED BY <2>1, <2>2, <2>4
<1> QED BY <1>2, <1>3 DEF PortalInv

\* Every step keeps the invariant.
LEMMA NextPortal == PortalInv /\ [Next]_vars => PortalInv'
<1> SUFFICES ASSUME PortalInv, [Next]_vars PROVE PortalInv'
  OBVIOUS
<1>1. ASSUME NEW d \in Deploys, BeginIngest(d) PROVE PortalInv'
  <2>1. ingest'.held \subseteq views /\ UNCHANGED <<site, reading>>
    BY <1>1 DEF BeginIngest, Linked
  <2> QED BY <2>1, IngestStep
<1>2. CASE DeletePages
  <2>1. UNCHANGED <<site, reading>>
    BY <1>2 DEF DeletePages
  <2>2. ingest' = None \/ ingest'.held \subseteq views
    BY <1>2 DEF DeletePages, PortalInv, HeldInv
  <2> QED BY <2>1, <2>2, IngestStep
<1>3. CASE Rollback
  BY <1>3, IngestStep DEF Rollback
<1>4. CASE CommitIngest
  BY <1>4, CommitStep
<1>5. ASSUME NEW r \in Read, View(r) PROVE PortalInv'
  BY <1>5, ViewStep
<1>6. ASSUME NEW r \in Read, NEW c \in Durations, Progress(r, c) PROVE PortalInv'
  BY <1>6, ProgressStep
<1>7. ASSUME NEW r \in Read, NEW c \in Call, Look(r, c) PROVE PortalInv'
  BY <1>7, LookStep
<1>8. ASSUME NEW r \in Read, NEW c \in Call, Insert(r, c) PROVE PortalInv'
  BY <1>8, InsertStep
<1>10. ASSUME NEW r \in Read, NEW c \in Durations, FailProgress(r, c) PROVE PortalInv'
  BY <1>10, FailStep
<1>11. ASSUME NEW r \in Read, NEW c \in Call, DropView(r, c) PROVE PortalInv'
  BY <1>11, DropStep
<1>9. CASE UNCHANGED vars
  <2>1. UNCHANGED <<site, reading>> /\ ingest' = ingest
    BY <1>9 DEF vars
  <2>2. ingest' = None \/ ingest'.held \subseteq views
    BY <2>1 DEF PortalInv, HeldInv
  <2> QED BY <2>1, <2>2, IngestStep
<1> QED BY <1>1, <1>2, <1>3, <1>4, <1>5, <1>6, <1>7, <1>8, <1>9, <1>10, <1>11 DEF Next

\* The invariant of the statistics beside any number of deploys.
THEOREM PortalInvariant == Spec => []PortalInv
  BY InitPortal, NextPortal, PTL DEF Spec

\* A read whose calls do not overlap and of which no UPDATE fails is one row of
\* docs_page_view, with its longest duration, whatever IngestArtifact does to its
\* page meanwhile and whichever insertions are refused.
THEOREM ReadsCountOnce == Spec => []CountedOnce
<1>1. PortalInv => CountedOnce
  <2> SUFFICES ASSUME PortalInv, NEW r \in Read \ (overlapped \cup failed), Open(r) = {}
               PROVE  /\ Cardinality(ViewsOf(r)) = (IF Done(r) = {} THEN 0 ELSE 1)
                      /\ \A w \in ViewsOf(r) : w.duration = Max(Done(r))
    BY DEF CountedOnce, ViewsOf, Done
  <2>1. (ViewsOf(r) = {} /\ Done(r) = {}) \/ OneRow(r)
    BY DEF PortalInv, CountInv
  <2>2. CASE ViewsOf(r) = {} /\ Done(r) = {}
    BY <2>2, FS_EmptySet
  <2>3. CASE OneRow(r)
    <3>1. PICK w \in views : /\ ViewsOf(r) = {w}
                             /\ w.duration \in Done(r)
                             /\ \A d \in Done(r) : w.duration >= d
      BY <2>3 DEF OneRow
    <3>2. Cardinality(ViewsOf(r)) = 1
      BY <3>1, FS_Singleton
    <3>3. Done(r) \subseteq Nat
      BY CallIsNat DEF Done
    <3>4. Max(Done(r)) \in Done(r) /\ \A d \in Done(r) : Max(Done(r)) >= d
      BY <3>1 DEF Max
    <3>5. Max(Done(r)) = w.duration
      BY <3>1, <3>3, <3>4
    <3> QED BY <3>1, <3>2, <3>5
  <2> QED BY <2>1, <2>2, <2>3
<1> QED BY <1>1, PortalInvariant, PTL

\* While an ingest is open no row gets a page of its version and the module,
\* whose lock the ingest has.
LEMMA WaitStep ==
  ASSUME PortalInv, ViewsWait, [Next]_vars
  PROVE  ViewsWait'
<1> SUFFICES ASSUME ingest' # None, NEW u \in Linked(ingest.version)', u \notin ingest'.held
             PROVE  ~ u.module
  BY DEF ViewsWait
<1>0. /\ ReadingOK
      /\ \A w \in views : w \in [read : Read, duration : Call, link : Nat, module : BOOLEAN, order : Nat]
      /\ u \in views' /\ VersionOf(u.read) = ingest'.version
      /\ u.link = number'[ingest'.version] /\ u.link # 0
  BY DEF PortalInv, ReadingOK, Linked
<1>1. ASSUME NEW d \in Deploys, BeginIngest(d) PROVE ~ u.module
  <2>1. ingest'.held = Linked(ingest'.version) /\ UNCHANGED <<site, reading>>
    BY <1>1 DEF BeginIngest
  <2>2. u \in Linked(ingest'.version)
    BY <1>0, <2>1 DEF Linked, site, reading
  <2> QED BY <2>1, <2>2
<1>2. ASSUME ingest # None, ingest'.version = ingest.version, ingest'.held = ingest.held,
             number' = number,
             \/ u \in views
             \/ \E w \in views \ ingest.held : /\ u.read = w.read /\ u.link = w.link
                                               /\ u.module = w.module
      PROVE  ~ u.module
  <2>1. PICK w \in views \ ingest.held : /\ u.read = w.read /\ u.link = w.link
                                         /\ u.module = w.module
    BY <1>2
  <2>2. w \in Linked(ingest.version)
    BY <1>0, <1>2, <2>1 DEF Linked
  <2> QED BY <1>2, <2>1, <2>2 DEF ViewsWait
<1>3. CASE DeletePages
  <2>1. /\ ingest # None /\ UNCHANGED <<site, reading>>
        /\ ingest' = [ingest EXCEPT !.step = "deleted"]
    BY <1>3 DEF DeletePages
  <2>2. u \in views /\ number' = number
    BY <1>0, <2>1 DEF site, reading
  <2>3. ingest'.version = ingest.version /\ ingest'.held = ingest.held
    BY <2>1
  <2> QED BY <1>2, <2>1, <2>2, <2>3
<1>4. CASE Rollback \/ CommitIngest
  BY <1>4 DEF Rollback, CommitIngest
<1>5. ASSUME NEW r \in Read, NEW c \in Durations, Prolong(r, c), UNCHANGED <<site, ingest>>
      PROVE  ~ u.module
  <2>1. PICK w \in Latest(r) : /\ ingest # None => w \notin ingest.held
                              /\ views' = (views \ {w}) \cup {[w EXCEPT !.duration = Max({@, c})]}
    BY <1>5 DEF Prolong
  <2>2. w \in views /\ number' = number
    BY <1>5 DEF Latest, site
  <2>3. CASE u \in views
    BY <1>2, <1>5, <2>2, <2>3
  <2>4. CASE u = [w EXCEPT !.duration = Max({@, c})]
    <3>1. u.read = w.read /\ u.link = w.link /\ u.module = w.module
      BY <1>0, <2>2, <2>4
    <3> QED BY <1>2, <1>5, <2>1, <2>2, <3>1
  <2> QED BY <1>0, <2>1, <2>3, <2>4
<1>6. ASSUME UNCHANGED <<site, ingest, views>>
      PROVE  ~ u.module
  BY <1>0, <1>2, <1>6 DEF site
<1>7. ASSUME NEW r \in Read, NEW c \in Call, Insert(r, c) PROVE ~ u.module
  <2>1. /\ UNCHANGED <<site, ingest>> /\ ingest # None
        /\ ~ calls[r][c].module /\ Inserted(r, c)
    BY <1>7 DEF Insert, ModuleFree
  <2>2. CASE u \in views
    BY <1>2, <2>1, <2>2 DEF site
  <2>3. CASE u \notin views
    BY <1>0, <2>1, <2>3 DEF Inserted
  <2> QED BY <2>2, <2>3
<1>8. ASSUME NEW r \in Read, View(r) PROVE ~ u.module
  BY <1>6, <1>8 DEF View
<1>9. ASSUME NEW r \in Read, NEW c \in Durations, Progress(r, c) PROVE ~ u.module
  BY <1>5, <1>6, <1>9 DEF Progress
<1>10. ASSUME NEW r \in Read, NEW c \in Durations, FailProgress(r, c) PROVE ~ u.module
  BY <1>5, <1>6, <1>10 DEF FailProgress
<1>11. ASSUME NEW r \in Read, NEW c \in Call, Look(r, c) \/ DropView(r, c) PROVE ~ u.module
  BY <1>6, <1>11 DEF Look, DropView
<1>12. CASE UNCHANGED vars
  BY <1>6, <1>12 DEF vars, reading
<1> QED BY <1>1, <1>3, <1>4, <1>7, <1>8, <1>9, <1>10, <1>11, <1>12 DEF Next

\* No row with the module stands in the way of an ingest that has unlinked the
\* views of its pages.
THEOREM ViewsDoNotBlock == Spec => []ViewsWait
<1>1. Init => ViewsWait
  BY DEF Init, ViewsWait
<1> QED BY <1>1, WaitStep, PortalInvariant, PTL DEF Spec

\* No deploy, view or report takes a row away or makes a read shorter.
THEOREM ReadsAreKept == Spec => ReadsKept
<1> DEFINE Stays(w) == \E u \in views' :
                         u.read = w.read /\ u.order = w.order /\ u.duration >= w.duration
           Kept == \A w \in views : Stays(w)
<1>1. PortalInv /\ Next => Kept
  <2> SUFFICES ASSUME PortalInv, Next, NEW w \in views
               PROVE  Stays(w)
    OBVIOUS
  <2>0. /\ w \in [read : Read, duration : Call, link : Nat, module : BOOLEAN, order : Nat]
        /\ w.duration \in Nat
    <3>1. w \in [read : Read, duration : Call, link : Nat, module : BOOLEAN, order : Nat]
      BY DEF PortalInv, ReadingOK
    <3> QED BY <3>1, CallIsNat
  <2>1. w \in views' => Stays(w)
    BY <2>0
  <2>2. ASSUME NEW d \in Deploys, BeginIngest(d) PROVE Stays(w)
    BY <2>1, <2>2 DEF BeginIngest, reading
  <2>3. CASE DeletePages \/ Rollback
    BY <2>1, <2>3 DEF DeletePages, Rollback, reading
  <2>4. CASE CommitIngest
    <3>1. CASE w \in ingest.held
      <4>1. [w EXCEPT !.link = 0] \in views'
        BY <2>4, <3>1 DEF CommitIngest
      <4> QED BY <2>0, <4>1
    <3>2. CASE w \notin ingest.held
      BY <2>1, <2>4, <3>2 DEF CommitIngest
    <3> QED BY <3>1, <3>2
  <2>5. ASSUME NEW r \in Read, View(r) PROVE Stays(w)
    BY <2>1, <2>5 DEF View
  <2>6. ASSUME NEW r \in Read, NEW c \in Durations, Progress(r, c) PROVE Stays(w)
    <3>1. CASE w \in views'
      BY <2>1, <3>1
    <3>2. CASE w \notin views'
      <4>1. [w EXCEPT !.duration = Max({@, c})] \in views'
        BY <2>6, <3>2 DEF Progress, Prolong
      <4>2. Max({w.duration, c}) >= w.duration
        BY <2>0, PortalAssumption, MaxOfTwo
      <4> QED BY <2>0, <4>1, <4>2
    <3> QED BY <3>1, <3>2
  <2>7. ASSUME NEW r \in Read, NEW c \in Call, Look(r, c) PROVE Stays(w)
    BY <2>1, <2>7 DEF Look
  <2>8. ASSUME NEW r \in Read, NEW c \in Call, Insert(r, c) PROVE Stays(w)
    BY <2>1, <2>8 DEF Insert, Inserted
  <2>9. ASSUME NEW r \in Read, NEW c \in Durations, FailProgress(r, c) PROVE Stays(w)
    <3>1. CASE w \in views'
      BY <2>1, <3>1
    <3>2. CASE w \notin views'
      <4>1. [w EXCEPT !.duration = Max({@, c})] \in views'
        BY <2>9, <3>2 DEF FailProgress, Prolong
      <4>2. Max({w.duration, c}) >= w.duration
        BY <2>0, PortalAssumption, MaxOfTwo
      <4> QED BY <2>0, <4>1, <4>2
    <3> QED BY <3>1, <3>2
  <2>10. ASSUME NEW r \in Read, NEW c \in Call, DropView(r, c) PROVE Stays(w)
    BY <2>1, <2>10 DEF DropView
  <2> HIDE DEF Stays
  <2> QED BY <2>2, <2>3, <2>4, <2>5, <2>6, <2>7, <2>8, <2>9, <2>10 DEF Next
<1>2. PortalInv /\ [Next]_vars =>
        [\A w \in views : \E u \in views' :
           u.read = w.read /\ u.order = w.order /\ u.duration >= w.duration]_vars
  BY <1>1
<1> QED BY <1>2, PortalInvariant, PTL DEF Spec, ReadsKept

-----------------------------------------------------------------------------
(***************************************************************************)
(* The chunks of a text.                                                   *)
(*                                                                         *)
(* A text needs as many steps as lead its window to the end (StepsNeeded), *)
(* and a step is no longer than the window (ShapeFits), so a position is   *)
(* in the last window that begins before it.                               *)
(***************************************************************************)

\* The smaller of two numbers.
LEMMA MinOfTwo ==
  ASSUME NEW a \in Int, NEW b \in Int
  PROVE  /\ Min({a, b}) \in {a, b}
         /\ Min({a, b}) <= a /\ Min({a, b}) <= b
<1>1. \E x \in {a, b} : \A y \in {a, b} : x <= y
  <2>1. CASE a <= b
    BY <2>1
  <2>2. CASE ~(a <= b)
    BY <2>2
  <2>. QED
    BY <2>1, <2>2
<1>2. /\ Min({a, b}) \in {a, b}
      /\ \A y \in {a, b} : Min({a, b}) <= y
  BY <1>1, Zenon DEF Min
<1>. QED
  BY <1>2

\* Likewise of three.
LEMMA MinOfThree ==
  ASSUME NEW a \in Int, NEW b \in Int, NEW c \in Int
  PROVE  /\ Min({a, b, c}) \in {a, b, c}
         /\ Min({a, b, c}) <= a /\ Min({a, b, c}) <= b /\ Min({a, b, c}) <= c
<1>1. \E x \in {a, b, c} : \A y \in {a, b, c} : x <= y
  <2>1. CASE a <= b /\ a <= c
    BY <2>1
  <2>2. CASE ~(a <= b /\ a <= c) /\ b <= c
    BY <2>2
  <2>3. CASE ~(a <= b /\ a <= c) /\ ~(b <= c)
    BY <2>3
  <2>. QED
    BY <2>1, <2>2, <2>3
<1>2. /\ Min({a, b, c}) \in {a, b, c}
      /\ \A y \in {a, b, c} : Min({a, b, c}) <= y
  BY <1>1, Zenon DEF Min
<1>. QED
  BY <1>2

\* A number lies between a multiple of a step and the next one.
LEMMA StepsBelow ==
  ASSUME NEW a \in Nat, NEW s \in Nat \ {0}
  PROVE  /\ a \div s \in Nat
         /\ (a \div s) * s <= a
         /\ a < (a \div s) * s + s
OBVIOUS

\* More steps lead further.
LEMMA StepsGrow ==
  ASSUME NEW s \in Nat, NEW i \in Nat, NEW j \in Nat, i <= j
  PROVE  /\ i * s \in Nat /\ j * s \in Nat
         /\ i * s <= j * s
         /\ (i + 1) * s = i * s + s
OBVIOUS

\* What is left for the text when the prefix has been put in front, and a step
\* that moves on but leaves nothing out.
LEMMA ShapeFits ==
  ASSUME NEW prefix \in Nat, NEW limit \in Nat \ {0}, NEW overlap \in Int
  PROVE  LET shape == ChunkShape(prefix, limit, overlap)
         IN  /\ shape.head \in Nat /\ shape.body \in Nat /\ shape.step \in Nat
             /\ 1 <= shape.step /\ shape.step <= shape.body
             /\ shape.head = 0 => shape.body = limit
             /\ shape.head # 0 => shape.body + shape.head + 1 = limit
<1>. DEFINE shared == IF overlap < 0 THEN 0 ELSE IF overlap >= limit THEN limit \div 5 ELSE overlap
            head == Min({prefix, limit \div 4})
            fits == head > 0 /\ limit - head - 1 > 0
            body == IF fits THEN limit - head - 1 ELSE limit
<1>1. limit \div 5 \in Nat /\ limit \div 4 \in Nat
  OBVIOUS
<1>2. shared \in Nat
  BY <1>1
<1>3. head \in Nat
  <2>1. PICK part \in Nat : part = limit \div 4
    BY <1>1
  <2>2. Min({prefix, part}) \in {prefix, part}
    BY MinOfTwo
  <2>. QED
    BY <2>1, <2>2
<1>4. body \in Nat /\ body >= 1
  BY <1>3
<1>5. ChunkShape(prefix, limit, overlap) =
        [head |-> IF fits THEN head ELSE 0, body |-> body,
         step |-> IF body > shared THEN body - shared ELSE body]
  BY DEF ChunkShape
<1>6. fits => head # 0 /\ body + head + 1 = limit
  BY <1>3
<1>7. ~fits => body = limit
  OBVIOUS
<1>. HIDE DEF shared, head, fits, body
<1>. QED
  BY <1>2, <1>3, <1>4, <1>5, <1>6, <1>7

\* How many chunks a text needs.
Needed(text, body, step) ==
  IF text <= body THEN 1 ELSE 1 + (text - body + step - 1) \div step

\* After as many steps the end is in reach, and not before.
LEMMA StepsNeeded ==
  ASSUME NEW text \in Nat, NEW body \in Nat, NEW step \in Nat,
         1 <= step, step <= body, text > 0
  PROVE  /\ Needed(text, body, step) \in Nat /\ Needed(text, body, step) >= 1
         /\ (Needed(text, body, step) - 1) * step + body >= text
         /\ (Needed(text, body, step) - 1) * step < text
<1>. DEFINE needed == Needed(text, body, step)
<1>1. CASE text <= body
  BY <1>1 DEF Needed
<1>2. CASE text > body
  <2>. DEFINE a == text - body + step - 1
              q == a \div step
  <2>1. a \in Nat
    BY <1>2
  <2>2. q \in Nat /\ q * step <= a /\ a < q * step + step
    BY <2>1, StepsBelow
  <2>3. needed = 1 + q
    BY <1>2 DEF Needed
  <2>4. needed \in Nat /\ needed >= 1 /\ needed - 1 = q
    BY <2>2, <2>3
  <2>5. q * step \in Nat
    BY <2>2
  <2>6. a = text - body + step - 1
    OBVIOUS
  <2>. HIDE DEF a, q
  <2>. QED
    BY <2>1, <2>2, <2>4, <2>5, <2>6
<1>. QED
  BY <1>1, <1>2

\* The n-th chunk begins n - 1 steps into the text and goes as far as there is
\* room and text; there are as many as are needed, or as may be.
Windows(chunks, text, body, step, needed) ==
  /\ (needed = 0) <=> (text = 0)
  /\ text > 0 => /\ (needed - 1) * step + body >= text
                /\ (needed - 1) * step < text
  /\ DOMAIN chunks = 1 .. Len(chunks)
  /\ Len(chunks) \in Nat /\ Len(chunks) <= needed
  /\ Len(chunks) = needed \/ Len(chunks) >= MaxChunks
  /\ \A n \in 1 .. Len(chunks) :
       /\ chunks[n][1] = (n - 1) * step + 1
       /\ chunks[n][2] \in Int
       /\ chunks[n][2] \in {(n - 1) * step + body, text}
       /\ chunks[n][2] <= (n - 1) * step + body
       /\ chunks[n][2] <= text

\* The chunks of embeddingChunks are such windows.
LEMMA ChunkWindows ==
  ASSUME NEW length \in Nat, NEW prefix \in Nat, NEW limit \in Nat \ {0},
         NEW overlap \in Int, MaxChunks \in Nat
  PROVE  \E needed \in Nat :
           Windows(Chunks(length, prefix, limit, overlap),
                   IF length = 0 THEN prefix ELSE length,
                   ChunkShape(prefix, limit, overlap).body,
                   ChunkShape(prefix, limit, overlap).step, needed)
<1>. PICK text, body, step : /\ text = IF length = 0 THEN prefix ELSE length
                             /\ body = ChunkShape(prefix, limit, overlap).body
                             /\ step = ChunkShape(prefix, limit, overlap).step
  OBVIOUS
<1>. DEFINE shape == ChunkShape(prefix, limit, overlap)
            steps == Needed(text, body, step)
            kept == IF shape.head = 0 THEN limit ELSE limit - shape.head - 1
            count == IF text = 0 THEN 0 ELSE Min({steps, MaxChunks})
            needed == IF text = 0 THEN 0 ELSE steps
            End(n) == Min({(n - 1) * step + body, (n - 1) * step + kept, text})
            chunks == [n \in 1 .. count |-> <<(n - 1) * step + 1, End(n)>>]
<1>1. /\ body \in Nat /\ step \in Nat /\ 1 <= step /\ step <= body
      /\ kept = body /\ text \in Nat
  BY ShapeFits
<1>2. Chunks(length, prefix, limit, overlap) = chunks
  BY DEF Chunks, Needed
<1>. HIDE DEF shape, kept
<1>3. text > 0 => /\ steps \in Nat /\ steps >= 1
                  /\ (steps - 1) * step + body >= text
                  /\ (steps - 1) * step < text
  BY <1>1, StepsNeeded
<1>. HIDE DEF steps
<1>4. needed \in Nat /\ (needed = 0 <=> text = 0) /\ (text > 0 => needed = steps)
  BY <1>1, <1>3
<1>5. count \in Nat /\ count <= needed /\ (count = needed \/ count >= MaxChunks)
  <2>1. CASE text = 0
    BY <2>1
  <2>2. CASE text # 0
    <3>1. steps \in Int /\ MaxChunks \in Int
      BY <1>1, <1>3, <2>2
    <3>2. count = Min({steps, MaxChunks}) /\ needed = steps
      BY <2>2
    <3>3. count \in {steps, MaxChunks} /\ count <= steps
      BY <3>1, <3>2, MinOfTwo
    <3>. QED
      BY <1>4, <3>1, <3>2, <3>3
  <2>. QED
    BY <2>1, <2>2
<1>. HIDE DEF count, needed
<1>6. DOMAIN chunks = 1 .. count /\ Len(chunks) = count
  BY <1>5
<1>7. ASSUME NEW n \in 1 .. count
      PROVE  /\ chunks[n][1] = (n - 1) * step + 1
             /\ chunks[n][2] \in Int
             /\ chunks[n][2] \in {(n - 1) * step + body, text}
             /\ chunks[n][2] <= (n - 1) * step + body
             /\ chunks[n][2] <= text
  <2>1. n - 1 \in Nat
    BY <1>5
  <2>2. (n - 1) * step \in Nat
    BY <1>1, <2>1
  <2>3. PICK m \in Nat : m = (n - 1) * step
    BY <2>2
  <2>4. End(n) = Min({m + body, m + body, text})
    BY <1>1, <2>3
  <2>5. /\ End(n) \in {m + body, text}
        /\ End(n) <= m + body /\ End(n) <= text
    <3>1. PICK u \in Int : u = m + body
      BY <1>1
    <3>2. text \in Int
      BY <1>1
    <3>3. /\ Min({u, u, text}) \in {u, u, text}
          /\ Min({u, u, text}) <= u /\ Min({u, u, text}) <= text
      BY <3>2, MinOfThree
    <3>4. End(n) = Min({u, u, text})
      BY <2>4, <3>1
    <3>. HIDE DEF End
    <3>. QED
      BY <3>1, <3>3, <3>4
  <2>6. End(n) \in Int
    BY <1>1, <2>5
  <2>7. chunks[n] = <<(n - 1) * step + 1, End(n)>>
    OBVIOUS
  <2>. HIDE DEF End, chunks
  <2>. QED
    BY <2>3, <2>5, <2>6, <2>7
<1>. HIDE DEF End, chunks
<1>8. Windows(chunks, text, body, step, needed)
  BY <1>3, <1>4, <1>5, <1>6, <1>7 DEF Windows
<1>. QED
  BY <1>2, <1>4, <1>8

\* What Covers says, of the windows over a text of some length.
WindowsCover(length, prefix, cs) ==
  LET chunks == Chunks(length, prefix, cs.limit, cs.overlap)
      head == ChunkShape(prefix, cs.limit, cs.overlap).head
  IN  /\ Len(chunks) < MaxChunks =>
           1 .. length \subseteq UNION {c[1] .. c[2] : c \in Range(chunks)}
      /\ \A n \in DOMAIN chunks :
           /\ chunks[n][1] <= chunks[n][2]
           /\ chunks[n][2] - chunks[n][1] + 1 + (IF head > 0 THEN head + 1 ELSE 0) <= cs.limit
           /\ n > 1 => chunks[n - 1][2] + 1 >= chunks[n][1]

\* The chunks of a text of any length cover it, as many as there may be, follow
\* on each other without a gap and fit the provider with their prefix.
LEMMA AlwaysCovers ==
  ASSUME NEW length \in Nat, NEW prefix \in Nat, MaxChunks \in Nat,
         NEW cs, cs.limit \in Nat \ {0}, cs.overlap \in Int
  PROVE  WindowsCover(length, prefix, cs)
<1>. DEFINE shape == ChunkShape(prefix, cs.limit, cs.overlap)
            chunks == Chunks(length, prefix, cs.limit, cs.overlap)
            count == Len(chunks)
<1>1. PICK body, step : body = shape.body /\ step = shape.step
  OBVIOUS
<1>2. PICK text : text = IF length = 0 THEN prefix ELSE length
  OBVIOUS
<1>3. /\ body \in Nat /\ step \in Nat /\ 1 <= step /\ step <= body
      /\ shape.head \in Nat
      /\ shape.head = 0 => body = cs.limit
      /\ shape.head # 0 => body + shape.head + 1 = cs.limit
      /\ text \in Nat
  BY <1>1, <1>2, ShapeFits
<1>w. PICK needed \in Nat : Windows(chunks, text, body, step, needed)
  BY <1>1, <1>2, ChunkWindows
<1>. HIDE DEF chunks, shape
<1>4. /\ (needed = 0) <=> (text = 0)
      /\ text > 0 => /\ (needed - 1) * step + body >= text
                    /\ (needed - 1) * step < text
      /\ DOMAIN chunks = 1 .. count
      /\ count \in Nat /\ count <= needed
      /\ count = needed \/ count >= MaxChunks
      /\ \A n \in 1 .. count :
           /\ chunks[n][1] = (n - 1) * step + 1
           /\ chunks[n][2] \in Int
           /\ chunks[n][2] \in {(n - 1) * step + body, text}
           /\ chunks[n][2] <= (n - 1) * step + body
           /\ chunks[n][2] <= text
  BY <1>w DEF Windows
<1>. HIDE DEF count
<1>5. ASSUME NEW n \in 1 .. count
      PROVE  /\ n - 1 \in Nat /\ (n - 1) * step \in Nat
             /\ (n - 1) * step < text
  <2>1. n - 1 \in Nat /\ needed - 1 \in Nat /\ n - 1 <= needed - 1
    BY <1>4
  <2>2. (n - 1) * step <= (needed - 1) * step /\ (n - 1) * step \in Nat
        /\ (needed - 1) * step \in Nat
    BY <1>3, <2>1, StepsGrow
  <2>3. text > 0
    BY <1>3, <1>4, <2>1
  <2>4. (needed - 1) * step < text
    BY <1>4, <2>3
  <2>. QED
    BY <1>3, <2>1, <2>2, <2>4
<1>6. ASSUME count < MaxChunks, NEW i \in 1 .. length
      PROVE  \E n \in 1 .. count : i \in chunks[n][1] .. chunks[n][2]
  <2>1. text = length /\ text > 0 /\ count = needed /\ i - 1 \in Nat /\ needed - 1 \in Nat
    BY <1>2, <1>4, <1>6
  <2>2. PICK q : q = (i - 1) \div step
    OBVIOUS
  <2>3. q \in Nat /\ q * step <= i - 1 /\ i - 1 < q * step + step /\ q * step \in Nat
    <3>1. step \in Nat \ {0}
      BY <1>3
    <3>2. q \in Nat /\ q * step <= i - 1 /\ i - 1 < q * step + step
      BY <2>1, <2>2, <3>1, StepsBelow
    <3>. QED
      BY <1>3, <3>2
  <2>4. CASE q + 1 <= count
    <3>1. q + 1 \in 1 .. count
      BY <1>4, <2>3, <2>4
    <3>2. /\ chunks[q + 1][1] = q * step + 1
          /\ chunks[q + 1][2] \in {q * step + body, text}
      <4>1. (q + 1) - 1 = q
        BY <2>3
      <4>. QED
        BY <1>4, <3>1, <4>1
    <3>3. i \in chunks[q + 1][1] .. chunks[q + 1][2]
      BY <1>3, <2>1, <2>3, <3>2
    <3>. QED
      BY <3>1, <3>3
  <2>5. CASE ~(q + 1 <= count)
    <3>1. needed - 1 < q /\ needed \in 1 .. count
      BY <1>4, <2>1, <2>3, <2>5
    <3>2. /\ (needed - 1) * step <= q * step
          /\ (needed - 1) * step \in Nat
      BY <1>3, <2>1, <2>3, <3>1, StepsGrow
    <3>3. PICK m \in Nat : m = (needed - 1) * step
      BY <3>2
    <3>4. /\ chunks[needed][1] = m + 1
          /\ chunks[needed][2] \in {m + body, text}
          /\ m + body >= text
      BY <1>4, <2>1, <3>1, <3>3
    <3>5. i \in chunks[needed][1] .. chunks[needed][2]
      BY <1>3, <2>1, <2>3, <3>2, <3>3, <3>4
    <3>. QED
      BY <3>1, <3>5
  <2>. QED
    BY <2>4, <2>5
<1>7. ASSUME NEW n \in 1 .. count
      PROVE  /\ chunks[n][1] <= chunks[n][2]
             /\ chunks[n][2] - chunks[n][1] + 1
                  + (IF shape.head > 0 THEN shape.head + 1 ELSE 0) <= cs.limit
             /\ n > 1 => chunks[n - 1][2] + 1 >= chunks[n][1]
  <2>1. PICK m \in Nat : m = (n - 1) * step
    BY <1>5
  <2>2. /\ chunks[n][1] = m + 1
        /\ chunks[n][2] \in {m + body, text}
        /\ chunks[n][2] <= m + body
        /\ m < text
    BY <1>4, <1>5, <2>1
  <2>3. chunks[n][1] <= chunks[n][2]
    BY <1>3, <2>2
  <2>4. chunks[n][2] - chunks[n][1] + 1 + (IF shape.head > 0 THEN shape.head + 1 ELSE 0) <= cs.limit
    <3>1. chunks[n][2] - chunks[n][1] + 1 <= body /\ chunks[n][2] - chunks[n][1] + 1 \in Int
      BY <1>3, <1>4, <2>2
    <3>. QED
      BY <1>3, <3>1
  <2>5. ASSUME n > 1
        PROVE  chunks[n - 1][2] + 1 >= chunks[n][1]
    <3>1. n - 1 \in 1 .. count /\ n - 2 \in Nat /\ (n - 1) - 1 = n - 2
      BY <1>4, <2>5
    <3>2. PICK l \in Nat : l = (n - 2) * step
      BY <1>5, <3>1
    <3>3. chunks[n - 1][2] \in {l + body, text}
      BY <1>4, <3>1, <3>2
    <3>4. m = l + step
      <4>1. (n - 2) + 1 = n - 1
        BY <3>1
      <4>2. ((n - 2) + 1) * step = (n - 2) * step + step
        BY <1>3, <3>1, StepsGrow
      <4>. QED
        BY <2>1, <3>2, <4>1, <4>2
    <3>. QED
      BY <1>3, <2>2, <3>3, <3>4
  <2>. QED
    BY <2>3, <2>4, <2>5
<1>8. count < MaxChunks => 1 .. length \subseteq UNION {c[1] .. c[2] : c \in Range(chunks)}
  <2>. SUFFICES ASSUME count < MaxChunks, NEW i \in 1 .. length
                PROVE  i \in UNION {c[1] .. c[2] : c \in Range(chunks)}
    OBVIOUS
  <2>1. PICK n \in 1 .. count : i \in chunks[n][1] .. chunks[n][2]
    BY <1>6
  <2>2. chunks[n] \in Range(chunks)
    BY <1>4, <2>1 DEF Range
  <2>. QED
    BY <2>1, <2>2
<1>. QED
  BY <1>4, <1>7, <1>8 DEF WindowsCover, chunks, count, shape

\* What an open transaction will publish is a deploy.
IngestInv ==
  /\ DOMAIN served = Version
  /\ ingest # None => ingest.deploy \in Deploys

\* Only a commit changes what a version serves, and to a deploy.
LEMMA IngestInvStep ==
  ASSUME IngestInv, [Next]_vars
  PROVE  /\ IngestInv'
         /\ \A v \in Version : served'[v] # served[v] => served'[v] \in Deploys
<1>1. ASSUME NEW d \in Deploys, BeginIngest(d)
      PROVE  ingest'.deploy \in Deploys /\ served' = served
  BY <1>1 DEF BeginIngest, site
<1>2. ASSUME DeletePages
      PROVE  (ingest' # None => ingest'.deploy = ingest.deploy) /\ ingest # None /\ served' = served
  BY <1>2 DEF DeletePages, site
<1>3. ASSUME Rollback
      PROVE  ingest' = None /\ served' = served
  BY <1>3 DEF Rollback, site
<1>4. ASSUME CommitIngest
      PROVE  ingest' = None /\ ingest # None /\ \E v : served' = [served EXCEPT ![v] = ingest.deploy]
  BY <1>4 DEF CommitIngest
<1>5. ASSUME UNCHANGED <<site, ingest>>
      PROVE  ingest' = ingest /\ served' = served
  BY <1>5 DEF site
<1>6. CASE Next
  <2>1. \/ \E d \in Deploys : BeginIngest(d)
        \/ DeletePages \/ Rollback \/ CommitIngest
        \/ UNCHANGED <<site, ingest>>
    <3>1. ASSUME NEW r \in Read, View(r) PROVE UNCHANGED <<site, ingest>>
      BY <3>1 DEF View
    <3>2. ASSUME NEW r \in Read, NEW c \in Durations, Progress(r, c)
          PROVE  UNCHANGED <<site, ingest>>
      BY <3>2 DEF Progress
    <3>3. ASSUME NEW r \in Read, NEW c \in Call, Look(r, c) PROVE UNCHANGED <<site, ingest>>
      BY <3>3 DEF Look
    <3>4. ASSUME NEW r \in Read, NEW c \in Call, Insert(r, c) PROVE UNCHANGED <<site, ingest>>
      BY <3>4 DEF Insert
    <3>5. ASSUME NEW r \in Read, NEW c \in Durations, FailProgress(r, c)
          PROVE  UNCHANGED <<site, ingest>>
      BY <3>5 DEF FailProgress
    <3>6. ASSUME NEW r \in Read, NEW c \in Call, DropView(r, c) PROVE UNCHANGED <<site, ingest>>
      BY <3>6 DEF DropView
    <3>. QED
      BY <1>6, <3>1, <3>2, <3>3, <3>4, <3>5, <3>6 DEF Next
  <2>2. CASE \E d \in Deploys : BeginIngest(d)
    BY <1>1, <2>2 DEF IngestInv
  <2>3. CASE DeletePages
    BY <1>2, <2>3 DEF IngestInv
  <2>4. CASE Rollback
    BY <1>3, <2>4 DEF IngestInv
  <2>5. CASE CommitIngest
    BY <1>4, <2>5 DEF IngestInv
  <2>6. CASE UNCHANGED <<site, ingest>>
    BY <1>5, <2>6 DEF IngestInv
  <2>. QED
    BY <2>1, <2>2, <2>3, <2>4, <2>5, <2>6
<1>7. CASE UNCHANGED vars
  BY <1>5, <1>7 DEF vars, IngestInv
<1>. QED
  BY <1>6, <1>7

\* Whatever a deploy publishes, the chunks that embeddingChunks cuts its pages
\* into cover what plainText leaves of their texts (code blocks it does not)
\* without a gap, up to the number of chunks there may be, and fit the provider
\* with their prefix; for every length of text and prefix and every chunk size
\* and overlap.
THEOREM ChunksAlwaysCover == Spec => ChunksCover
<1>1. Init => IngestInv
  BY DEF Init, IngestInv
<1>2. IngestInv /\ [Next]_vars => IngestInv'
  BY IngestInvStep
<1>3. Deploys \subseteq Covered
  <2>. SUFFICES ASSUME NEW d \in Deploys, NEW p \in PagesIn(RowsOf(d)), NEW cs \in ChunkSettings,
                       NEW prefix \in 0 .. cs.limit
                PROVE  Covers(p.text, prefix, cs)
    BY DEF Covered
  <2>1. /\ PlainText(p.text) \in Nat /\ MaxChunks \in Nat
        /\ cs.limit \in Nat \ {0} /\ cs.overlap \in Int
    BY ChunksAssumption
  <2>2. prefix \in Nat
    BY <2>1
  <2>3. WindowsCover(PlainText(p.text), prefix, cs)
    BY <2>1, <2>2, AlwaysCovers
  <2>. QED
    BY <2>3 DEF Covers, WindowsCover, EmbeddingChunks
<1>4. IngestInv /\ [Next]_vars =>
        [\A v \in Version : served'[v] # served[v] => served'[v] \in Covered]_vars
  BY <1>3, IngestInvStep
<1>. QED
  BY <1>1, <1>2, <1>4, PTL DEF Spec, ChunksCover

=============================================================================
