--------------------------- MODULE HealthCheckProofs ---------------------------
(***************************************************************************)
(* Theorems about HealthCheck, for any number of health checks and of      *)
(* segments, with processes that are killed at any point.                  *)
(***************************************************************************)
EXTENDS HealthCheck, TLAPS

\* A step is an action of one actor, or kills a process.
LEMMA StepCases ==
  ASSUME NEW P, Next,
         ASSUME NEW a \in Actors, Create(a) PROVE P,
         ASSUME NEW a \in Actors, LinkExists(a) PROVE P,
         ASSUME NEW a \in Actors, Open(a) PROVE P,
         ASSUME NEW a \in Actors, CreateMutex(a) PROVE P,
         ASSUME NEW a \in Actors, Lock(a) PROVE P,
         ASSUME NEW a \in Actors, SetDefault(a) PROVE P,
         ASSUME NEW a \in Actors, Drop(a) PROVE P,
         ASSUME SetHealthy PROVE P,
         ASSUME NEW a \in Checks, CheckIfHealthy(a) PROVE P,
         ASSUME NEW A \in SUBSET Actors, Kill(A), Main \in A <=> Setter \in A PROVE P
  PROVE  P
<1>1. Main \in Actors /\ Setter \in Actors /\ Checks \subseteq Actors
  BY DEF Actors
<1>2. ASSUME KillProgram PROVE P
  BY <1>1, <1>2 DEF KillProgram
<1>3. ASSUME NEW c \in Checks, KillCheck(c) PROVE P
  BY <1>1, <1>3, HealthAssumption DEF KillCheck
<1>4. ASSUME NEW a \in Actors, Proceed(a) PROVE P
  BY <1>4 DEF Proceed
<1>5. QED
  BY <1>1, <1>2, <1>3, <1>4 DEF Next

\* The link, the memory and every actor's handle keep their types.
THEOREM TypeCorrect == Spec => []TypeOK
<1> USE HealthAssumption DEF Status, Actors
<1>1. Init => TypeOK
  BY DEF Init, TypeOK, ZeroStatus
<1>2. TypeOK /\ [Next]_vars => TypeOK'
  <2> SUFFICES ASSUME TypeOK, [Next]_vars PROVE TypeOK'
    OBVIOUS
  <2> USE DEF TypeOK, memory
  <2>1. CASE UNCHANGED vars
    BY <2>1 DEF vars
  <2>2. CASE Next
    <3>1. ASSUME NEW a \in Actors, Create(a) PROVE TypeOK'
      BY <3>1 DEF Create, MayBegin, InUse
    <3>2. ASSUME NEW a \in Actors, LinkExists(a) PROVE TypeOK'
      BY <3>2 DEF LinkExists, MayBegin
    <3>3. ASSUME NEW a \in Actors, Open(a) PROVE TypeOK'
      BY <3>3 DEF Open
    <3>4. ASSUME NEW a \in Actors, CreateMutex(a) PROVE TypeOK'
      <4>1. is_init' \in [Segments -> BOOLEAN]
        BY <3>4 DEF CreateMutex
      <4>2. holder' \in [Segments -> Actors \cup {None}]
        BY <3>4 DEF CreateMutex
      <4>3. pc' \in [Actors -> {"off", "opening", "defaulting", "defaultLock", "defaultIn",
                               "opened", "lock", "in", "done"}]
        BY <3>4 DEF CreateMutex
      <4>4. QED
        BY <3>4, <4>1, <4>2, <4>3 DEF CreateMutex
    <3>5. ASSUME NEW a \in Actors, Lock(a) PROVE TypeOK'
      BY <3>5 DEF Lock
    <3>6. ASSUME NEW a \in Actors, SetDefault(a) PROVE TypeOK'
      BY <3>6 DEF SetDefault, Release
    <3>7. ASSUME NEW a \in Actors, Drop(a) PROVE TypeOK'
      BY <3>7 DEF Drop, FreeUnused, ZeroStatus
    <3>8. ASSUME SetHealthy PROVE TypeOK'
      BY <3>8 DEF SetHealthy, Release
    <3>9. ASSUME NEW a \in Checks, CheckIfHealthy(a) PROVE TypeOK'
      BY <3>9 DEF CheckIfHealthy, Release
    <3>10. ASSUME NEW A \in SUBSET Actors, Kill(A) PROVE TypeOK'
      BY <3>10 DEF Kill, FreeUnused, ZeroStatus
    <3>11. QED
      <4> HIDE DEF TypeOK, Actors
      <4> QED
        BY <2>2, <3>1, <3>2, <3>3, <3>4, <3>5, <3>6, <3>7, <3>8, <3>9, <3>10, StepCases
  <2>3. QED
    BY <2>1, <2>2
<1>3. QED
  BY <1>1, <1>2, PTL DEF Spec

(***************************************************************************)
(* The inductive invariant.  Each step is split by the conjuncts it can    *)
(* disturb; what an action leaves alone follows from its UNCHANGED.        *)
(***************************************************************************)
LEMMA InvNext == TypeOK /\ HealthInv /\ [Next]_vars => HealthInv'
<1> SUFFICES ASSUME TypeOK, HealthInv, [Next]_vars PROVE HealthInv'
  OBVIOUS
<1>m. Main \in Actors /\ Setter \in Actors /\ Checks \subseteq Actors /\ None \notin Actors
      /\ None \notin Segments /\ Main # Setter /\ Main \notin Checks /\ Setter \notin Checks
  BY HealthAssumption DEF Actors
<1> USE <1>m
<1>1. CASE UNCHANGED vars
  BY <1>1
  DEF vars, memory, HealthInv, OwnerHoldsLink, ProgramServes, SharedIsSaid, Defaulting,
      Inside, InUse
<1>2. CASE Next
  <2>1. ASSUME NEW a \in Actors, Create(a) PROVE HealthInv'
    <3> DEFINE s == CHOOSE s \in Segments : ~InUse(s)
    <3>1. s \in Segments /\ ~InUse(s)
      BY <2>1 DEF Create
    <3> HIDE DEF s
    <3>2. \A b \in Actors : ~is_owner[b] /\ ~Defaulting(b)
      BY <2>1 DEF TypeOK, HealthInv, OwnerHoldsLink, Create
    <3>3. /\ pc[a] = "off"
          /\ flink = None
          /\ flink' = s
          /\ shm' = [shm EXCEPT ![a] = s]
          /\ is_owner' = [is_owner EXCEPT ![a] = TRUE]
          /\ pc' = [pc EXCEPT ![a] = "defaulting"]
          /\ a = Main => pc[Setter] = "off"
          /\ a = Setter => pc[Main] = "opened"
          /\ UNCHANGED <<is_init, holder, value, said>>
      BY <2>1 DEF Create, MayBegin, memory, s
    <3>4. ~is_init[s] /\ \A b \in Actors : shm[b] # s
      BY <3>1 DEF HealthInv, InUse
    <3>5. ASSUME NEW t \in Segments, is_init[t] PROVE InUse(t)'
      <4>1. PICK b \in Actors : shm[b] = t
        BY <3>3, <3>5 DEF HealthInv, InUse
      <4>2. shm[a] = None /\ shm'[b] = t
        BY <3>3, <4>1 DEF TypeOK, HealthInv
      <4>3. QED
        BY <4>2 DEF InUse
    <3>6. QED
      BY <3>1, <3>2, <3>3, <3>4, <3>5
      DEF TypeOK, HealthInv, OwnerHoldsLink, ProgramServes, SharedIsSaid, Defaulting, Inside
  <2>2. ASSUME NEW a \in Actors, LinkExists(a) PROVE HealthInv'
    BY <2>2
    DEF TypeOK, HealthInv, OwnerHoldsLink, ProgramServes, SharedIsSaid, Defaulting,
        Inside, InUse, LinkExists, MayBegin, memory
  <2>3. ASSUME NEW a \in Actors, Open(a) PROVE HealthInv'
    BY <2>3
    DEF TypeOK, HealthInv, OwnerHoldsLink, ProgramServes, SharedIsSaid, Defaulting,
        Inside, InUse, Open, memory
  <2>4. ASSUME NEW a \in Actors, CreateMutex(a) PROVE HealthInv'
    BY <2>4
    DEF TypeOK, HealthInv, OwnerHoldsLink, ProgramServes, SharedIsSaid, Defaulting,
        Inside, InUse, CreateMutex
  <2>5. ASSUME NEW a \in Actors, Lock(a) PROVE HealthInv'
    BY <2>5
    DEF TypeOK, HealthInv, OwnerHoldsLink, ProgramServes, SharedIsSaid, Defaulting,
        Inside, InUse, Lock
  <2>6. ASSUME NEW a \in Actors, SetDefault(a) PROVE HealthInv'
    BY <2>6
    DEF TypeOK, HealthInv, OwnerHoldsLink, ProgramServes, SharedIsSaid, Defaulting,
        Inside, InUse, SetDefault, Release
  <2>7. ASSUME NEW a \in Actors, Drop(a) PROVE HealthInv'
    BY <2>7
    DEF TypeOK, HealthInv, OwnerHoldsLink, ProgramServes, SharedIsSaid, Defaulting,
        Inside, InUse, Drop, FreeUnused
  <2>8. ASSUME SetHealthy PROVE HealthInv'
    BY <2>8
    DEF TypeOK, HealthInv, OwnerHoldsLink, ProgramServes, SharedIsSaid, Defaulting,
        Inside, InUse, SetHealthy, Release
  <2>9. ASSUME NEW a \in Checks, CheckIfHealthy(a) PROVE HealthInv'
    BY <2>9
    DEF TypeOK, HealthInv, OwnerHoldsLink, ProgramServes, SharedIsSaid, Defaulting,
        Inside, InUse, CheckIfHealthy, Release
  <2>10. ASSUME NEW A \in SUBSET Actors, Kill(A), Main \in A <=> Setter \in A PROVE HealthInv'
    BY <2>10
    DEF TypeOK, HealthInv, OwnerHoldsLink, ProgramServes, SharedIsSaid, Defaulting,
        Inside, InUse, Kill, FreeUnused
  <2>11. QED
    BY <1>2, <2>1, <2>2, <2>3, <2>4, <2>5, <2>6, <2>7, <2>8, <2>9, <2>10, StepCases
<1>3. QED
  BY <1>1, <1>2

LEMMA HealthSafe == Spec => [](TypeOK /\ HealthInv)
<1>1. Init => HealthInv
  <2>1. Main \in Actors /\ Setter \in Actors
    BY DEF Actors
  <2>2. QED
    BY <2>1 DEF Init, HealthInv, OwnerHoldsLink, ProgramServes, SharedIsSaid, Defaulting
<1>2. QED
  BY <1>1, InvNext, TypeCorrect, PTL DEF Spec

\* The process that created the memory in use is the one that will take its
\* file away, and no other is.
THEOREM OwnerLink == Spec => []OwnerHoldsLink
<1>1. HealthInv => OwnerHoldsLink
  BY DEF HealthInv
<1>2. QED
  BY <1>1, HealthSafe, PTL

\* The status in memory the program created is the one it said last, however
\* many health checks open, read and drop it or are killed while they do.
THEOREM StatusIsSaid == Spec => []SharedIsSaid
<1>1. HealthInv => SharedIsSaid
  BY DEF HealthInv
<1>2. QED
  BY <1>1, HealthSafe, PTL

\* No two handles are inside the mutex of memory the program created.
THEOREM Exclusive == Spec => []ExclusiveAccess
<1>1. HealthInv => ExclusiveAccess
  BY DEF HealthInv, ExclusiveAccess
<1>2. QED
  BY <1>1, HealthSafe, PTL

================================================================================
