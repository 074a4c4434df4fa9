-------------------------- MODULE ContainerStatsProofs --------------------------
(***************************************************************************)
(* Theorems about ContainerStats, for any number of readers and any        *)
(* processor time.                                                         *)
(***************************************************************************)
EXTENDS ContainerStats, TLAPS

\* The difference of two counters is a counter, and 0 for the smaller one.
LEMMA SaturatingSub ==
  ASSUME NEW a \in 0..MaxSystem, NEW b \in 0..MaxSystem
  PROVE  /\ saturating_sub(a, b) \in 0..MaxSystem
         /\ saturating_sub(a, b) # 0 => a > b /\ saturating_sub(a, b) = a - b
  BY StatsAssumption DEF saturating_sub

\* What Usage() gives is a usage.
LEMMA UsageType ==
  ASSUME NEW s \in Samples, NEW l \in Samples
  PROVE  Usage(s, l) \in Usages
<1>1. s.total \in 0..MaxSystem /\ l.total \in 0..MaxSystem
      /\ s.system \in 0..MaxSystem /\ l.system \in 0..MaxSystem
  BY DEF Samples
<1>2. saturating_sub(s.total, l.total) \in 0..MaxSystem
      /\ saturating_sub(s.system, l.system) \in 0..MaxSystem
  BY <1>1, SaturatingSub
<1>3. QED
  BY <1>2, StatsAssumption DEF Usage, Usages

\* A usage of two samples in order is in bounds, whichever is the later one.
LEMMA UsageOfOrdered ==
  ASSUME NEW s \in Samples, NEW l \in Samples, Ordered(s, l)
  PROVE  InBounds(Usage(s, l))
<1> DEFINE c == saturating_sub(s.total, l.total)
           y == saturating_sub(s.system, l.system)
<1>1. s.total \in 0..MaxSystem /\ l.total \in 0..MaxSystem
      /\ s.system \in 0..MaxSystem /\ l.system \in 0..MaxSystem
  BY DEF Samples
<1>2. /\ c \in 0..MaxSystem /\ y \in 0..MaxSystem
      /\ c # 0 => c = s.total - l.total
      /\ y # 0 => s.system > l.system /\ y = s.system - l.system
  BY <1>1, SaturatingSub
<1>3. CASE y = 0 \/ c = 0
  BY <1>3 DEF Usage, InBounds
<1>4. CASE y # 0 /\ c # 0
  <2>1. Usage(s, l) = [blank |-> FALSE, cpu |-> c, system |-> y]
    BY <1>4 DEF Usage
  <2>2. y > 0 /\ c <= y
    BY <1>1, <1>2, <1>4 DEF Ordered
  <2>3. QED
    BY <2>1, <2>2 DEF InBounds
<1>5. QED
  BY <1>3, <1>4

\* A step is one of the engine's or one reader's.
LEMMA StepCases ==
  ASSUME NEW P, Next,
         ASSUME Tick PROVE P,
         ASSUME ContainerChanges PROVE P,
         ASSUME NEW r \in Readers, Inspect(r) PROVE P,
         ASSUME NEW r \in Readers, GetStats(r) PROVE P,
         ASSUME NEW r \in Readers, GetCpu(r) PROVE P,
         ASSUME NEW r \in Readers, Status(r) PROVE P,
         ASSUME NEW r \in Readers, Fails(r) PROVE P
  PROVE  P
  BY DEF Next, Read

LEMMA TypeInit == Init => TypeOK
  BY StatsAssumption DEF Init, TypeOK, Incomplete, Blank, Samples, Usages, Buttons

LEMMA TypeNext == TypeOK /\ [Next]_vars => TypeOK'
<1> SUFFICES ASSUME TypeOK, [Next]_vars PROVE TypeOK'
  OBVIOUS
<1>0. Incomplete \in Samples /\ Blank \in Usages
  BY StatsAssumption DEF Incomplete, Blank, Samples, Usages
<1> USE StatsAssumption DEF TypeOK, engine, Goto
<1>1. CASE UNCHANGED vars
  BY <1>1 DEF vars
<1>2. CASE Next
  <2>1. ASSUME Tick PROVE TypeOK'
    BY <2>1 DEF Tick
  <2>2. ASSUME ContainerChanges PROVE TypeOK'
    BY <2>2 DEF ContainerChanges
  <2>4. ASSUME NEW r \in Readers, Inspect(r) PROVE TypeOK'
    BY <2>4, <1>0 DEF Inspect
  <2>5. ASSUME NEW r \in Readers, GetStats(r) PROVE TypeOK'
    <3>1. [complete |-> TRUE, total |-> total, system |-> system] \in Samples
      BY DEF Samples
    <3>2. stat' \in [Readers -> Samples]
      BY <2>5, <3>1, <1>0 DEF GetStats
    <3>3. QED
      BY <2>5, <3>2 DEF GetStats
  <2>6. ASSUME NEW r \in Readers, GetCpu(r) PROVE TypeOK'
    <3>1. stat[r] \in Samples /\ (last_cpu_stats # None => last_cpu_stats \in Samples)
      OBVIOUS
    <3>2. last_cpu_stats' \in Samples \cup {None}
      BY <2>6, <3>1 DEF GetCpu
    <3>3. used' \in [Readers -> Usages]
      BY <2>6, <3>1, <1>0, UsageType DEF GetCpu
    <3>4. at' \in [Readers -> {"inspect", "stats", "cpu", "status"}]
      BY <2>6 DEF GetCpu
    <3>5. stat' \in [Readers -> Samples]
      BY <2>6, <1>0 DEF GetCpu
    <3>6. QED
      BY <2>6, <3>2, <3>3, <3>4, <3>5 DEF GetCpu
  <2>7. ASSUME NEW r \in Readers, Status(r) PROVE TypeOK'
    <3>1. used[r].blank \in BOOLEAN
      BY DEF Usages
    <3>2. given' \in [blank : BOOLEAN, buttons : SUBSET Buttons]
      BY <2>7, <3>1 DEF Status, Buttons
    <3>3. QED
      BY <2>7, <3>2, <1>0 DEF Status
  <2>8. ASSUME NEW r \in Readers, Fails(r) PROVE TypeOK'
    BY <2>8, <1>0 DEF Fails
  <2>9. QED
    <3> HIDE DEF TypeOK
    <3> QED
      BY <1>2, <2>1, <2>2, <2>4, <2>5, <2>6, <2>7, <2>8, StepCases
<1>3. QED
  BY <1>1, <1>2

\* The counters, the samples and the readers' places keep their types.
THEOREM TypeCorrect == Spec => []TypeOK
<1>1. QED
  BY TypeInit, TypeNext, PTL DEF Spec

(***************************************************************************)
(* The samples                                                             *)
(***************************************************************************)

\* The two conjuncts of StatsInv about samples, over a set of them.
Past(S, t, y) == \A s \in S : s.system <= y /\ t - s.total <= y - s.system
InOrder(S) == \A s, l \in S : Ordered(s, l)

\* The present joins samples of the past.
LEMMA PresentJoins ==
  ASSUME NEW S \in SUBSET Samples, NEW t \in 0..MaxSystem, NEW y \in 0..MaxSystem,
         Past(S, t, y), InOrder(S),
         NEW T \in SUBSET (S \cup {[complete |-> TRUE, total |-> t, system |-> y]})
  PROVE  Past(T, t, y) /\ InOrder(T)
<1> DEFINE now == [complete |-> TRUE, total |-> t, system |-> y]
<1>1. now.total = t /\ now.system = y
  OBVIOUS
<1>2. \A s \in S : s.total \in 0..MaxSystem /\ s.system \in 0..MaxSystem
  BY DEF Samples
<1> HIDE DEF now
<1>3. Past(T, t, y)
  BY <1>1, StatsAssumption DEF Past, now
<1>4. ASSUME NEW s \in T, NEW l \in T PROVE Ordered(s, l)
  <2>1. CASE s \in S /\ l \in S
    BY <2>1 DEF InOrder
  <2>2. CASE s = now
    BY <1>1, <1>2, <1>4, <2>2, StatsAssumption DEF Ordered, Past, now
  <2>3. CASE l = now
    BY <1>1, <1>2, <1>4, <2>3, StatsAssumption DEF Ordered, Past, now
  <2>4. QED
    BY <1>4, <2>1, <2>2, <2>3 DEF now
<1>5. QED
  BY <1>3, <1>4 DEF InOrder

\* Time that passes leaves them in the past, whether the container goes on, has
\* stopped or counts anew.
LEMMA TimePasses ==
  ASSUME NEW S \in SUBSET Samples, NEW t \in 0..MaxSystem, NEW y \in 0..MaxSystem,
         NEW t2 \in 0..MaxSystem, NEW y2 \in 0..MaxSystem,
         y2 >= y, t2 - t <= y2 - y, Past(S, t, y)
  PROVE  Past(S, t2, y2)
<1> SUFFICES ASSUME NEW s \in S PROVE s.system <= y2 /\ t2 - s.total <= y2 - s.system
  BY DEF Past
<1>1. s.total \in 0..MaxSystem /\ s.system \in 0..MaxSystem
  BY DEF Samples
<1>2. s.system <= y /\ t - s.total <= y - s.system
  BY DEF Past
<1>3. QED
  BY <1>1, <1>2, StatsAssumption

LEMMA HeldSamples == TypeOK => Held \in SUBSET Samples
  BY DEF TypeOK, Held

\* The present is what a reader may be answered.
Present == [complete |-> TRUE, total |-> total, system |-> system]

LEMMA InvNext == StatsInv /\ [Next]_vars => StatsInv'
<1> SUFFICES ASSUME StatsInv, [Next]_vars PROVE StatsInv'
  OBVIOUS
<1>1. TypeOK /\ TypeOK'
  BY TypeNext DEF StatsInv
<1>2. Past(Held, total, system) /\ InOrder(Held)
  BY DEF StatsInv, Past, InOrder
<1>3. Held \in SUBSET Samples
  BY <1>1, HeldSamples
<1>4. SUFFICES Past(Held', total', system') /\ InOrder(Held') /\ UsageInBounds'
  BY <1>1 DEF StatsInv, Past, InOrder
<1>5. total \in 0..MaxSystem /\ system \in 0..MaxSystem
  BY <1>1, StatsAssumption DEF TypeOK
<1>6. InBounds(Blank)
  BY DEF InBounds, Blank
<1>7. UsageInBounds
  BY DEF StatsInv
\* Whoever leaves the engine alone and adds at most the present.
<1>8. ASSUME UNCHANGED engine, Held' \subseteq Held \cup {Present}
      PROVE  Past(Held', total', system') /\ InOrder(Held')
  BY <1>2, <1>3, <1>5, <1>8, PresentJoins DEF Present, engine
\* Whoever leaves the samples alone, while time passes.
<1>9. ASSUME Held' = Held, NEW t \in 0..MaxSystem, NEW y \in 0..MaxSystem, y >= system,
             t - total <= y - system, total' = t, system' = y
      PROVE  Past(Held', total', system') /\ InOrder(Held')
  <2>1. Past(Held, t, y)
    BY <1>2, <1>3, <1>5, <1>9, TimePasses
  <2>2. QED
    BY <1>2, <1>9, <2>1
<1>10. CASE UNCHANGED vars
  BY <1>2, <1>7, <1>10 DEF vars, Held, UsageInBounds
<1>11. CASE Next
  <2> DEFINE Goal == Past(Held', total', system') /\ InOrder(Held') /\ UsageInBounds'
  <2>1. ASSUME Tick PROVE Goal
    <3>1. Held' = Held /\ UsageInBounds'
      BY <1>7, <2>1 DEF Tick, Held, UsageInBounds
    <3>2. QED
      <4> DEFINE t == total'
                 y == system'
      <4>1. /\ t \in 0..MaxSystem /\ y \in 0..MaxSystem
            /\ y = system + 1 /\ t \in {total, total + 1}
        BY <1>1, <2>1, StatsAssumption DEF Tick, TypeOK
      <4> HIDE DEF t, y
      <4>2. y >= system /\ t - total <= y - system
        BY <1>5, <4>1, StatsAssumption
      <4>3. total' = t /\ system' = y
        BY DEF t, y
      <4>4. QED
        BY <1>9, <3>1, <4>1, <4>2, <4>3
  <2>2. ASSUME ContainerChanges PROVE Goal
    <3>1. Held' = Held /\ UsageInBounds'
      BY <1>7, <2>2 DEF ContainerChanges, Held, UsageInBounds
    <3>2. total' \in {0, total} /\ system' = system
      BY <2>2 DEF ContainerChanges
    <3>3. CASE total' = total
      BY <1>5, <1>9, <3>1, <3>2, <3>3, StatsAssumption
    <3>4. CASE total' = 0
      <4>1. 0 \in 0..MaxSystem /\ system >= system /\ 0 - total <= system - system
        BY <1>5, StatsAssumption
      <4>2. QED
        BY <1>5, <1>9, <3>1, <3>2, <3>4, <4>1
    <3>5. QED
      BY <3>2, <3>3, <3>4
  <2>4. ASSUME NEW r \in Readers, Inspect(r) PROVE Goal
    <3>1. Held' \subseteq Held
      BY <2>4 DEF Inspect, Held
    <3>2. UsageInBounds'
      BY <1>1, <1>6, <1>7, <2>4 DEF Inspect, UsageInBounds, TypeOK
    <3>3. QED
      BY <1>8, <2>4, <3>1, <3>2 DEF Inspect
  <2>5. ASSUME NEW r \in Readers, GetStats(r) PROVE Goal
    <3>1. ASSUME NEW q \in Readers
          PROVE  stat'[q] \in {stat[q], Present, Incomplete}
      BY <1>1, <2>5 DEF GetStats, Present, TypeOK
    <3>2. last_cpu_stats' = last_cpu_stats /\ UsageInBounds'
      BY <1>7, <2>5 DEF GetStats, UsageInBounds
    <3>3. Held' \subseteq Held \cup {Present}
      BY <3>1, <3>2 DEF Held, Incomplete
    <3>4. QED
      BY <1>8, <2>5, <3>2, <3>3 DEF GetStats
  <2>6. ASSUME NEW r \in Readers, GetCpu(r) PROVE Goal
    <3>1. \A q \in Readers : stat'[q] \in {stat[q], Incomplete}
      BY <1>1, <2>6 DEF GetCpu, TypeOK
    <3>2. last_cpu_stats' = stat[r]
      BY <2>6 DEF GetCpu
    <3>3. Held' \subseteq Held
      BY <3>1, <3>2 DEF Held, Incomplete
    <3>4. UsageInBounds'
      <4>1. ASSUME NEW q \in Readers PROVE InBounds(used'[q])
        <5>1. CASE used'[q] = used[q] \/ used'[q] = Blank
          BY <1>6, <1>7, <5>1 DEF UsageInBounds
        <5>2. CASE /\ used'[q] = Usage(stat[r], last_cpu_stats)
                   /\ last_cpu_stats # None
                   /\ stat[r].complete /\ last_cpu_stats.complete
          <6>1. stat[r] \in Held /\ last_cpu_stats \in Held
            BY <1>1, <5>2, StatsAssumption DEF Held, TypeOK
          <6>2. Ordered(stat[r], last_cpu_stats)
            BY <1>2, <6>1 DEF InOrder
          <6>3. QED
            BY <1>3, <5>2, <6>1, <6>2, UsageOfOrdered
        <5>3. QED
          BY <1>1, <2>6, <5>1, <5>2 DEF GetCpu, TypeOK
      <4>2. QED
        BY <4>1 DEF UsageInBounds
    <3>5. QED
      BY <1>8, <2>6, <3>3, <3>4 DEF GetCpu
  <2>7. ASSUME NEW r \in Readers, Status(r) PROVE Goal
    <3>1. Held' = Held
      BY <2>7 DEF Status, Held
    <3>2. UsageInBounds'
      BY <1>1, <1>6, <1>7, <2>7 DEF Status, UsageInBounds, TypeOK
    <3>3. QED
      BY <1>8, <2>7, <3>1, <3>2 DEF Status
  <2>8. ASSUME NEW r \in Readers, Fails(r) PROVE Goal
    <3>1. Held' = Held
      BY <2>8 DEF Fails, Held
    <3>2. UsageInBounds'
      BY <1>1, <1>6, <1>7, <2>8 DEF Fails, UsageInBounds, TypeOK
    <3>3. QED
      BY <1>8, <2>8, <3>1, <3>2 DEF Fails
  <2>9. QED
    <3> HIDE DEF Goal
    <3> Goal
      BY <1>11, <2>1, <2>2, <2>4, <2>5, <2>6, <2>7, <2>8, StepCases
    <3> QED
      BY DEF Goal
<1>12. QED
  BY <1>10, <1>11

LEMMA InvInit == Init => StatsInv
<1> SUFFICES ASSUME Init PROVE StatsInv
  OBVIOUS
<1>1. TypeOK
  BY TypeInit
<1>2. Held = {}
  BY DEF Init, Held, Incomplete
<1>3. UsageInBounds
  <2>1. InBounds(Blank)
    BY DEF InBounds, Blank
  <2>2. \A r \in Readers : used[r] = Blank
    BY DEF Init
  <2>3. QED
    BY <2>1, <2>2 DEF UsageInBounds
<1>4. QED
  BY <1>1, <1>2, <1>3 DEF StatsInv

\* The samples in use are of the past and in order, always.
THEOREM SamplesInOrder == Spec => []StatsInv
<1>1. QED
  BY InvInit, InvNext, PTL DEF Spec

\* The usage that is published is a share of the host's time (UsageInBounds):
\* neither a restart between two samples nor readers that overtake one another
\* make it more than all of it.
THEOREM UsageIsShare == Spec => []UsageInBounds
<1>1. StatsInv => UsageInBounds
  BY DEF StatsInv
<1>2. QED
  BY <1>1, SamplesInOrder, PTL

================================================================================
