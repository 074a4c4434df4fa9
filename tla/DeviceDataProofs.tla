---------------------------- MODULE DeviceDataProofs ----------------------------
(***************************************************************************)
(* Theorems about DeviceData, for devices of any shape, any readers and    *)
(* any duration.                                                           *)
(***************************************************************************)
EXTENDS DeviceData, TLAPS

\* A step is the clock's, a command's or one reader's.
LEMMA StepCases ==
  ASSUME NEW P, Next,
         ASSUME Tick PROVE P,
         ASSUME Press PROVE P,
         ASSUME GetLogs PROVE P,
         ASSUME NEW r \in Readers, StartRead(r) PROVE P,
         ASSUME NEW r \in Readers, AskPlain(r) PROVE P,
         ASSUME NEW r \in Readers, LoadLogs(r) PROVE P,
         ASSUME NEW r \in Readers, ClearLogs(r) PROVE P,
         ASSUME NEW r \in Readers, ReadClock(r) PROVE P,
         ASSUME NEW r \in Readers, EnterDebounced(r) PROVE P,
         ASSUME NEW r \in Readers, WaitedForLock(r) PROVE P,
         ASSUME NEW r \in Readers, Answered(r) PROVE P,
         ASSUME NEW r \in Readers, Returns(r) PROVE P,
         ASSUME NEW r \in Readers, env # {}, Abandon(r) PROVE P
  PROVE  P
<1>1. ASSUME NEW r \in Readers, Fails(r) \/ Cancelled(r) PROVE P
  BY <1>1 DEF Fails, Cancelled
<1>2. ASSUME NEW r \in Readers, Read(r) PROVE P
  BY <1>2 DEF Read
<1>3. QED
  BY <1>1, <1>2 DEF Next

\* A reader that is past the beginning of a handler is at a handler, of the kind
\* that has this place.
InHandler ==
  \A r \in Readers :
     /\ step[r] # "enter" => at[r] \in H
     /\ step[r] = "clear" => Kind(r) = "logs"
     /\ step[r] = "lock" => Kind(r) = "debounced"

DataInv == TypeOK /\ InHandler

\* The shape of a device, and where its handlers are.
LEMMA Shape ==
  ASSUME TypeOK
  PROVE  /\ Len(handlers) \in Nat
         /\ H = 1..Len(handlers)
         /\ \A h \in H : handlers[h] \in Kinds
         /\ \A r \in Readers : Kind(r) \in Kinds => at[r] \in H
<1>1. handlers \in Seq(Kinds)
  BY DeviceAssumption DEF TypeOK
<1>2. Len(handlers) \in Nat /\ H = 1..Len(handlers)
  BY <1>1 DEF H
<1>3. \A h \in H : handlers[h] \in Kinds
  BY <1>1 DEF H
<1>4. \A r \in Readers : Kind(r) \in Kinds => at[r] \in H
  BY DeviceAssumption DEF Kind
<1>5. QED
  BY <1>2, <1>3, <1>4

\* What a reader's step does to its own place, by the operators of the model.
LEMMA AdvanceType ==
  ASSUME DataInv, NEW r \in Readers, NEW data \in SUBSET H, at[r] \in H,
         handlers' = handlers, Advance(r, data)
  PROVE  /\ at' \in [Readers -> 0..Len(handlers) + 1]
         /\ step' \in [Readers -> {"enter", "clear", "lock", "request"}]
         /\ got' \in [Readers -> SUBSET H]
         /\ InHandler'
<1>1. TypeOK
  BY DEF DataInv
<1>2. at[r] + 1 \in 0..Len(handlers) + 1
  BY <1>1, Shape
<1>3. at' \in [Readers -> 0..Len(handlers) + 1]
  BY <1>1, <1>2 DEF TypeOK, Advance
<1>4. InHandler'
  BY <1>1 DEF DataInv, InHandler, Advance, TypeOK, Kind, H
<1>5. QED
  BY <1>1, <1>3, <1>4 DEF Advance, TypeOK

LEMMA AskType ==
  ASSUME DataInv, NEW r \in Readers, at[r] \in H, handlers' = handlers, Ask(r)
  PROVE  /\ step' \in [Readers -> {"enter", "clear", "lock", "request"}]
         /\ asked' \in [H -> [last : MinTime..MaxTime, before : MinTime..MaxTime]]
         /\ InHandler'
<1>1. now \in MinTime..MaxTime
  BY DeviceAssumption DEF DataInv, TypeOK, MinTime
<1>2. asked' \in [H -> [last : MinTime..MaxTime, before : MinTime..MaxTime]]
  <2>1. asked[at[r]].last \in MinTime..MaxTime
    BY DEF DataInv, TypeOK
  <2>2. [last |-> now, before |-> asked[at[r]].last]
          \in [last : MinTime..MaxTime, before : MinTime..MaxTime]
    BY <1>1, <2>1
  <2>3. QED
    BY <2>2 DEF DataInv, TypeOK, Ask
<1>3. QED
  BY <1>2 DEF DataInv, TypeOK, Ask, InHandler, Kind, H

LEMMA DebouncedType ==
  ASSUME DataInv, NEW r \in Readers, at[r] \in H, NEW time \in MinTime..MaxTime,
         stamp' \in [Readers -> MinTime..MaxTime], Debounced(r, time)
  PROVE  DataInv'
<1> USE DEF constant
<1>1. handlers' = handlers /\ H' = H
  BY DEF Debounced, H
<1>2. CASE Due(r, time)
  <2>1. Ask(r) /\ last_pool' \in [H -> MinTime..MaxTime]
        /\ last_pool_lock' \in [H -> Readers \cup {None}]
    BY <1>2 DEF Debounced, DataInv, TypeOK
  <2>2. QED
    BY <1>1, <2>1, AskType DEF Ask, Debounced, DataInv, TypeOK
<1>3. CASE ~Due(r, time)
  <2>1. Advance(r, {}) /\ UNCHANGED <<last_pool, last_pool_lock, asked>>
    BY <1>3 DEF Debounced
  <2>2. QED
    BY <1>1, <2>1, AdvanceType DEF Debounced, DataInv, TypeOK
<1>4. QED
  BY <1>2, <1>3

LEMMA TypeInit == Init => DataInv
<1>1. MinTime \in MinTime..MaxTime
  BY DeviceAssumption DEF MinTime
<1>2. ASSUME Init PROVE 0 \in 0..Len(handlers) + 1
  <2>1. handlers \in Seq(Kinds)
    BY <1>2, DeviceAssumption DEF Init
  <2>2. QED
    BY <2>1
<1>3. ASSUME Init PROVE TypeOK
  <2>1. asked \in [H -> [last : MinTime..MaxTime, before : MinTime..MaxTime]]
    BY <1>1, <1>3 DEF Init
  <2>2. now \in 0..MaxTime
    BY <1>3, DeviceAssumption DEF Init
  <2>3. QED
    BY <1>1, <1>2, <1>3, <2>1, <2>2 DEF Init, TypeOK
<1>4. Init => InHandler
  BY DEF Init, InHandler
<1>5. QED
  BY <1>3, <1>4 DEF DataInv

LEMMA TypeNext == DataInv /\ [Next]_vars => DataInv'
<1> SUFFICES ASSUME DataInv, [Next]_vars PROVE DataInv'
  OBVIOUS
<1>1. TypeOK /\ InHandler
  BY DEF DataInv
<1>2. /\ Len(handlers) \in Nat /\ H = 1..Len(handlers)
      /\ \A r \in Readers : Kind(r) \in Kinds => at[r] \in H
  BY <1>1, Shape
<1>3. now \in MinTime..MaxTime /\ MinTime \in MinTime..MaxTime
  BY <1>1, DeviceAssumption DEF TypeOK, MinTime
<1> USE DEF constant, debounce
<1>4. CASE UNCHANGED vars
  BY <1>1, <1>4 DEF vars, DataInv, TypeOK, InHandler, Kind, H
<1>5. CASE Next
  <2>1. ASSUME Tick PROVE DataInv'
    BY <1>1, <2>1, DeviceAssumption DEF Tick, DataInv, TypeOK, InHandler, Kind, H
  <2>2. ASSUME Press PROVE DataInv'
    BY <1>1, <2>2 DEF Press, DataInv, TypeOK, InHandler, Kind, H
  <2>3. ASSUME GetLogs PROVE DataInv'
    BY <1>1, <2>3 DEF GetLogs, DataInv, TypeOK, InHandler, Kind, H
  <2>4. ASSUME NEW r \in Readers, StartRead(r) PROVE DataInv'
    <3>1. at' \in [Readers -> 0..Len(handlers) + 1]
      BY <1>1, <1>2, <2>4 DEF StartRead, TypeOK
    <3>2. step[r] = "enter"
      BY <1>1, <1>2, <2>4 DEF StartRead, Reading, InHandler, TypeOK
    <3>3. InHandler'
      BY <1>1, <2>4, <3>2 DEF StartRead, InHandler, Kind, H, TypeOK
    <3>4. QED
      BY <1>1, <2>4, <3>1, <3>3 DEF StartRead, DataInv, TypeOK, H
  <2>5. ASSUME NEW r \in Readers, AskPlain(r) PROVE DataInv'
    <3>1. at[r] \in H /\ Ask(r) /\ handlers' = handlers
      BY <1>2, <2>5 DEF AskPlain, Kinds
    <3>2. QED
      BY <1>1, <2>5, <3>1, AskType DEF AskPlain, Ask, DataInv, TypeOK, H
  <2>6. ASSUME NEW r \in Readers, LoadLogs(r) PROVE DataInv'
    <3>1. at[r] \in H /\ handlers' = handlers
      BY <1>2, <2>6 DEF LoadLogs, Kinds
    <3>2. CASE should_get_logs
      BY <1>1, <2>6, <3>1, <3>2 DEF LoadLogs, DataInv, TypeOK, InHandler, Kind, H
    <3>3. CASE ~should_get_logs
      <4>1. Advance(r, {})
        BY <2>6, <3>3 DEF LoadLogs
      <4>2. QED
        BY <1>1, <2>6, <3>1, <4>1, AdvanceType DEF LoadLogs, DataInv, TypeOK, H
    <3>4. QED
      BY <3>2, <3>3
  <2>7. ASSUME NEW r \in Readers, ClearLogs(r) PROVE DataInv'
    <3>1. at[r] \in H /\ Ask(r) /\ handlers' = handlers
      BY <1>2, <2>7 DEF ClearLogs, Kinds
    <3>2. QED
      BY <1>1, <2>7, <3>1, AskType DEF ClearLogs, Ask, DataInv, TypeOK, H
  <2>8. ASSUME NEW r \in Readers, ReadClock(r) PROVE DataInv'
    <3>1. at[r] \in H
      BY <1>2, <2>8 DEF ReadClock, Kinds
    <3>2. InHandler'
      BY <1>1, <2>8, <3>1 DEF ReadClock, InHandler, Kind, H, TypeOK
    <3>3. QED
      BY <1>1, <1>3, <2>8, <3>2 DEF ReadClock, DataInv, TypeOK, H
  <2>9. ASSUME NEW r \in Readers, EnterDebounced(r) PROVE DataInv'
    <3>1. at[r] \in H /\ stamp' \in [Readers -> MinTime..MaxTime]
      BY <1>1, <1>2, <2>9 DEF EnterDebounced, Kinds, TypeOK
    <3>2. QED
      BY <1>3, <2>9, <3>1, DebouncedType DEF EnterDebounced
  <2>10. ASSUME NEW r \in Readers, WaitedForLock(r) PROVE DataInv'
    <3>1. at[r] \in H /\ stamp' \in [Readers -> MinTime..MaxTime]
          /\ stamp[r] \in MinTime..MaxTime
      BY <1>1, <1>3, <2>10 DEF WaitedForLock, InHandler, TypeOK
    <3>2. QED
      BY <2>10, <3>1, DebouncedType DEF WaitedForLock
  <2>11. ASSUME NEW r \in Readers, Answered(r) PROVE DataInv'
    <3>1. at[r] \in H /\ handlers' = handlers /\ Advance(r, {at[r]})
      BY <1>1, <2>11 DEF Answered, InHandler
    <3>2. last_pool_lock' \in [H -> Readers \cup {None}]
      BY <1>1, <2>11 DEF Answered, Unlocked, TypeOK
    <3>3. {at[r]} \in SUBSET H
      BY <3>1
    <3>4. QED
      BY <1>1, <2>11, <3>1, <3>2, <3>3, AdvanceType DEF Answered, DataInv, TypeOK, H
  <2>12. ASSUME NEW r \in Readers, Returns(r) PROVE DataInv'
    <3>1. at' \in [Readers -> 0..Len(handlers) + 1]
      BY <1>1, <1>2, <2>12 DEF Returns, TypeOK
    <3>2. at[r] \notin H
      BY <1>2, <2>12 DEF Returns
    <3>3. InHandler'
      BY <1>1, <2>12, <3>2 DEF Returns, InHandler, Kind, H, TypeOK
    <3>4. owed' \in BOOLEAN
      BY <1>1, <2>12 DEF Returns, TypeOK
    <3>5. QED
      BY <1>1, <2>12, <3>1, <3>3, <3>4 DEF Returns, DataInv, TypeOK, H
  <2>13. ASSUME NEW r \in Readers, env # {}, Abandon(r) PROVE DataInv'
    <3>1. at' \in [Readers -> 0..Len(handlers) + 1]
      BY <1>1, <1>2, <2>13 DEF Abandon, TypeOK
    <3>2. last_pool_lock' \in [H -> Readers \cup {None}]
      BY <1>1, <2>13 DEF Abandon, Unlocked, TypeOK
    <3>3. InHandler'
      BY <1>1, <2>13 DEF Abandon, InHandler, Kind, H, TypeOK
    <3>4. QED
      BY <1>1, <1>3, <2>13, <3>1, <3>2, <3>3 DEF Abandon, DataInv, TypeOK, H
  <2>14. QED
    BY <1>5, <2>1, <2>2, <2>3, <2>4, <2>5, <2>6, <2>7, <2>8, <2>9, <2>10, <2>11, <2>12,
       <2>13, StepCases
<1>6. QED
  BY <1>4, <1>5

LEMMA DataSafe == Spec => []DataInv
<1>1. QED
  BY TypeInit, TypeNext, PTL DEF Spec

\* The readers' places, what they have got, the lock and its times keep their
\* types.
THEOREM TypeCorrect == Spec => []TypeOK
<1>1. DataInv => TypeOK
  BY DEF DataInv
<1>2. QED
  BY <1>1, DataSafe, PTL

(***************************************************************************)
(* A press of the logs button                                              *)
(***************************************************************************)

\* Reader r has taken the request.
Has(r) == \/ Kind(r) = "logs" /\ step[r] = "request"
          \/ \E h \in got[r] : handlers[h] = "logs"

LEMMA KeptNext == DataInv /\ PressIsKept /\ [Next]_vars => PressIsKept'
<1> SUFFICES ASSUME DataInv, PressIsKept, [Next]_vars, owed', env' = {}
             PROVE  should_get_logs' \/ \E r \in Readers : Has(r)'
  BY DEF PressIsKept, Has
<1>1. TypeOK /\ InHandler
  BY DEF DataInv
<1> USE DEF constant, debounce
<1>2. owed /\ env = {} => should_get_logs \/ \E r \in Readers : Has(r)
  BY DEF PressIsKept, Has
\* A step that leaves the flag set, the press owed and every reader what it has.
<1>3. ASSUME owed, env = {}, should_get_logs => should_get_logs',
             \A r \in Readers : Has(r) => Has(r)'
      PROVE  should_get_logs' \/ \E r \in Readers : Has(r)'
  BY <1>2, <1>3
<1>4. \A r \in Readers : Kind(r) = "logs" => at[r] \in H
  BY <1>1, Shape DEF Kinds
<1>5. CASE UNCHANGED vars
  BY <1>3, <1>5 DEF vars, Has, Kind, H
<1>6. CASE Next
  <2> DEFINE Goal == should_get_logs' \/ \E r \in Readers : Has(r)'
  <2>1. ASSUME Tick PROVE Goal
    BY <1>3, <2>1 DEF Tick, Has, Kind, H
  <2>2. ASSUME Press PROVE Goal
    BY <1>3, <2>2 DEF Press, Has, Kind, H
  <2>3. ASSUME GetLogs PROVE Goal
    BY <2>3 DEF GetLogs
  <2>4. ASSUME NEW r \in Readers, StartRead(r) PROVE Goal
    <3>1. at[r] \notin H
      BY <1>1, <2>4, Shape DEF StartRead, Reading, TypeOK
    <3>2. Kind(r) # "logs"
      BY <1>4, <3>1
    <3>3. \A q \in Readers : Has(q) => Has(q)'
      BY <1>1, <2>4, <3>2 DEF StartRead, Has, Kind, H, TypeOK
    <3>4. QED
      BY <1>3, <2>4, <3>3 DEF StartRead
  <2>5. ASSUME NEW r \in Readers, AskPlain(r) PROVE Goal
    <3>1. \A q \in Readers : Has(q) => Has(q)'
      BY <1>1, <2>5 DEF AskPlain, Ask, Has, Kind, H, TypeOK
    <3>2. QED
      BY <1>3, <2>5, <3>1 DEF AskPlain
  <2>6. ASSUME NEW r \in Readers, LoadLogs(r) PROVE Goal
    <3>1. \A q \in Readers : Has(q) => Has(q)'
      BY <1>1, <2>6 DEF LoadLogs, Advance, Has, Kind, H, TypeOK
    <3>2. QED
      BY <1>3, <2>6, <3>1 DEF LoadLogs
  <2>7. ASSUME NEW r \in Readers, ClearLogs(r) PROVE Goal
    BY <1>1, <2>7 DEF ClearLogs, Ask, Has, Kind, H, TypeOK
  <2>8. ASSUME NEW r \in Readers, ReadClock(r) PROVE Goal
    <3>1. \A q \in Readers : Has(q) => Has(q)'
      BY <1>1, <2>8 DEF ReadClock, Has, Kind, H, TypeOK
    <3>2. QED
      BY <1>3, <2>8, <3>1 DEF ReadClock
  <2>9. ASSUME NEW r \in Readers, NEW time, Debounced(r, time), step[r] # "request" PROVE Goal
    <3>1. \A q \in Readers : Has(q) => Has(q)'
      BY <1>1, <2>9 DEF Debounced, Advance, Ask, Has, Kind, H, TypeOK
    <3>2. QED
      BY <1>3, <2>9, <3>1 DEF Debounced
  <2>10. ASSUME NEW r \in Readers, EnterDebounced(r) PROVE Goal
    BY <2>9, <2>10 DEF EnterDebounced
  <2>11. ASSUME NEW r \in Readers, WaitedForLock(r) PROVE Goal
    BY <2>9, <2>11 DEF WaitedForLock
  <2>12. ASSUME NEW r \in Readers, Answered(r) PROVE Goal
    <3>1. Has(r) => Has(r)'
      <4>1. at[r] \in H /\ handlers' = handlers /\ got'[r] = got[r] \cup {at[r]}
        BY <1>1, <2>12 DEF Answered, Advance, InHandler, TypeOK
      <4>2. CASE Kind(r) = "logs"
        <5>1. handlers'[at[r]] = "logs" /\ at[r] \in got'[r]
          BY <4>1, <4>2 DEF Kind
        <5>2. QED
          BY <5>1 DEF Has
      <4>3. CASE \E h \in got[r] : handlers[h] = "logs"
        BY <4>1, <4>3 DEF Has
      <4>4. QED
        BY <4>2, <4>3 DEF Has
    <3>2. \A q \in Readers \ {r} : Has(q) => Has(q)'
      BY <1>1, <2>12 DEF Answered, Advance, Has, Kind, H, TypeOK
    <3>3. QED
      BY <1>3, <2>12, <3>1, <3>2 DEF Answered
  <2>13. ASSUME NEW r \in Readers, Returns(r) PROVE Goal
    <3>1. at[r] \notin H
      BY <1>1, <2>13, Shape DEF Returns
    <3>2. ~Has(r)
      BY <1>4, <2>13, <3>1 DEF Returns, Has
    <3>3. \A q \in Readers : Has(q) => Has(q)'
      BY <1>1, <2>13, <3>2 DEF Returns, Has, Kind, H, TypeOK
    <3>4. QED
      BY <1>3, <2>13, <3>3 DEF Returns
  <2>14. ASSUME NEW r \in Readers, env # {}, Abandon(r) PROVE Goal
    BY <2>14 DEF Abandon
  <2>15. QED
    <3> HIDE DEF Goal
    <3> Goal
      BY <1>6, <2>1, <2>2, <2>3, <2>4, <2>5, <2>6, <2>7, <2>8, <2>10, <2>11, <2>12, <2>13,
         <2>14, StepCases
    <3> QED
      BY DEF Goal
<1>7. QED
  BY <1>5, <1>6

\* A press of the logs button is not forgotten (PressIsKept): readers that load
\* and clear the flag in between one another lose none.
THEOREM PressKept == Spec => []PressIsKept
<1>1. Init => PressIsKept
  BY DEF Init, PressIsKept
<1>2. QED
  BY <1>1, KeptNext, DataSafe, PTL DEF Spec

(***************************************************************************)
(* A debounced handler                                                     *)
(***************************************************************************)

\* As the program has them: the publisher's stream and initialize().
TwoReaders == \A p, q, r \in Readers : p = q \/ q = r \/ p = r

\* No time is ahead of the clock, and the time that was written down at the last
\* request is not before the request that preceded it.
TimesInOrder ==
  /\ \A h \in H : /\ asked[h].last <= now
                  /\ last_pool[h] <= now
                  /\ asked[h].before <= last_pool[h]
  /\ \A r \in Readers : stamp[r] <= now

\* The lock is held while the inner handler reads, and not longer.
HolderIsAsking ==
  \A h \in H : last_pool_lock[h] # None =>
     /\ step[last_pool_lock[h]] = "request"
     /\ at[last_pool_lock[h]] = h

\* The one holds the lock, so only the other can wait for it.
OneWaits ==
  \A q, r \in Readers : step[q] = "lock" /\ step[r] = "lock" /\ at[q] = at[r] => q = r

\* A reader that waited so long that the handler was read again in the meantime
\* finds its read not due: that one wrote down a later time than the reader has.
OldIsNotDue ==
  \A r \in Readers : step[r] = "lock" =>
     \/ asked[at[r]].last <= stamp[r]
     \/ stamp[r] <= last_pool[at[r]]

OverloadInv == TimesInOrder /\ HolderIsAsking /\ OneWaits /\ OldIsNotDue

\* What the times and the waiting depend on.
LEMMA Times ==
  ASSUME TypeOK
  PROVE  /\ now \in Int /\ Duration \in Int /\ 0 <= Duration
         /\ \A h \in H : /\ last_pool[h] \in Int
                         /\ asked[h].last \in Int
                         /\ asked[h].before \in Int
         /\ \A r \in Readers : stamp[r] \in Int
<1>1. MinTime \in Int /\ MaxTime \in Int /\ Duration \in Int /\ 0 <= Duration
  BY DeviceAssumption DEF MinTime
<1>2. \A h \in H : asked[h] \in [last : MinTime..MaxTime, before : MinTime..MaxTime]
  BY DEF TypeOK
<1>3. \A h \in H : asked[h].last \in MinTime..MaxTime /\ asked[h].before \in MinTime..MaxTime
  BY <1>2
<1>4. \A h \in H : last_pool[h] \in MinTime..MaxTime
  BY DEF TypeOK
<1>5. now \in Int
  BY <1>1 DEF TypeOK
<1>6. \A r \in Readers : stamp[r] \in MinTime..MaxTime
  BY DEF TypeOK
<1>7. QED
  BY <1>1, <1>3, <1>4, <1>5, <1>6

\* A reader that goes elsewhere than to wait for a lock, and asks for no
\* debounced data, disturbs nobody.
LEMMA Undisturbed ==
  ASSUME DataInv, OverloadInv, NEW r \in Readers,
         UNCHANGED <<handlers, now, last_pool, asked>>,
         \A q \in Readers \ {r} : at'[q] = at[q] /\ step'[q] = step[q] /\ stamp'[q] = stamp[q],
         step'[r] # "lock",
         stamp'[r] <= now,
         \/ last_pool_lock' = Unlocked(r)
         \/ last_pool_lock' = last_pool_lock /\ step[r] # "request"
         \/ last_pool_lock' = last_pool_lock /\ at[r] \notin H
  PROVE  OverloadInv'
<1>1. H' = H
  BY DEF H
<1>2. TimesInOrder'
  BY <1>1 DEF OverloadInv, TimesInOrder
<1>3. HolderIsAsking'
  <2> SUFFICES ASSUME NEW h \in H, last_pool_lock'[h] # None
               PROVE  /\ step'[last_pool_lock'[h]] = "request"
                      /\ at'[last_pool_lock'[h]] = h
    BY <1>1 DEF HolderIsAsking
  <2>1. last_pool_lock'[h] = last_pool_lock[h] /\ last_pool_lock[h] # r
    BY DEF Unlocked, OverloadInv, HolderIsAsking
  <2>2. last_pool_lock[h] \in Readers
    BY <2>1 DEF DataInv, TypeOK
  <2>3. QED
    BY <2>1, <2>2 DEF OverloadInv, HolderIsAsking
<1>4. OneWaits'
  BY DEF OverloadInv, OneWaits
<1>5. OldIsNotDue'
  BY DEF OverloadInv, OldIsNotDue
<1>6. QED
  BY <1>2, <1>3, <1>4, <1>5 DEF OverloadInv

\* A reader that is due asks: nobody else waits with a time that is due.
LEMMA DueAsks ==
  ASSUME DataInv, OverloadInv, NEW r \in Readers, NEW time \in Int,
         at[r] \in H, Kind(r) = "debounced", step[r] # "request", time <= now,
         asked[at[r]].last <= time,
         \A q \in Readers \ {r} : step[q] = "lock" /\ at[q] = at[r] => stamp[q] <= time,
         \A q \in Readers : stamp'[q] <= now,
         \A q \in Readers \ {r} : stamp'[q] = stamp[q],
         Due(r, time), Debounced(r, time)
  PROVE  /\ OverloadInv'
         /\ asked'[at[r]].last = now /\ now > asked[at[r]].before + Duration
         /\ \A h \in H \ {at[r]} : asked'[h] = asked[h]
<1> DEFINE h0 == at[r]
<1>1. TypeOK /\ InHandler
  BY DEF DataInv
<1>2. /\ last_pool_lock[h0] = None
      /\ last_pool' = [last_pool EXCEPT ![h0] = time]
      /\ last_pool_lock' = [last_pool_lock EXCEPT ![h0] = r]
      /\ step' = [step EXCEPT ![r] = "request"]
      /\ asked' = [asked EXCEPT ![h0] = [last |-> now, before |-> asked[h0].last]]
      /\ at' = at /\ now' = now /\ handlers' = handlers /\ H' = H
  BY DEF Debounced, Ask, constant, H
<1>3. /\ asked'[h0].last = now /\ asked'[h0].before = asked[h0].last
      /\ last_pool'[h0] = time
      /\ \A h \in H \ {h0} : asked'[h] = asked[h] /\ last_pool'[h] = last_pool[h]
  BY <1>1, <1>2 DEF TypeOK
<1>4. now > asked[h0].before + Duration
  BY <1>1, Times DEF Due, OverloadInv, TimesInOrder
<1>5. TimesInOrder'
  BY <1>1, <1>2, <1>3, Times DEF OverloadInv, TimesInOrder
<1>6. HolderIsAsking'
  <2> SUFFICES ASSUME NEW h \in H, last_pool_lock'[h] # None
               PROVE  /\ step'[last_pool_lock'[h]] = "request"
                      /\ at[last_pool_lock'[h]] = h
    BY <1>2 DEF HolderIsAsking
  <2>1. CASE h = h0
    BY <1>1, <1>2, <2>1 DEF TypeOK
  <2>2. CASE h # h0
    BY <1>1, <1>2, <2>2 DEF TypeOK, OverloadInv, HolderIsAsking
  <2>3. QED
    BY <2>1, <2>2
<1>7. \A q \in Readers : step'[q] = "lock" => q # r /\ step[q] = "lock"
  BY <1>1, <1>2 DEF TypeOK
<1>8. OneWaits'
  BY <1>2, <1>7 DEF OverloadInv, OneWaits
<1>9. OldIsNotDue'
  <2> SUFFICES ASSUME NEW q \in Readers, step'[q] = "lock"
               PROVE  asked'[at[q]].last <= stamp[q] \/ stamp[q] <= last_pool'[at[q]]
    BY <1>2, <1>7 DEF OldIsNotDue
  <2>1. step[q] = "lock" /\ q # r /\ at[q] \in H
    BY <1>1, <1>7 DEF InHandler
  <2>2. CASE at[q] = h0
    BY <1>3, <2>1, <2>2
  <2>3. CASE at[q] # h0
    BY <1>3, <2>1, <2>3 DEF OverloadInv, OldIsNotDue
  <2>4. QED
    BY <2>2, <2>3
<1>10. QED
  BY <1>3, <1>4, <1>5, <1>6, <1>8, <1>9 DEF OverloadInv

\* What a step may do to the requests.
Bounded == \A h \in H : asked'[h] # asked[h] => asked'[h].last > asked[h].before + Duration

\* A debounced handler's lock is taken, and its read is due or is not.
LEMMA DebouncedBounded ==
  ASSUME DataInv, OverloadInv, NEW r \in Readers, NEW time \in Int,
         at[r] \in H, Kind(r) = "debounced", step[r] # "request", time <= now,
         asked[at[r]].last <= time \/ time <= last_pool[at[r]],
         \A q \in Readers \ {r} : step[q] = "lock" /\ at[q] = at[r] => stamp[q] <= time,
         \A q \in Readers : stamp'[q] <= now,
         \A q \in Readers \ {r} : stamp'[q] = stamp[q],
         Debounced(r, time)
  PROVE  OverloadInv' /\ Bounded
<1>1. TypeOK
  BY DEF DataInv
<1>2. CASE Due(r, time)
  <2>1. asked[at[r]].last <= time
    BY <1>1, <1>2, Times DEF Due
  <2>2. /\ OverloadInv'
        /\ asked'[at[r]].last = now /\ now > asked[at[r]].before + Duration
        /\ \A h \in H \ {at[r]} : asked'[h] = asked[h]
    BY <1>2, <2>1, DueAsks
  <2>3. QED
    BY <2>2 DEF Bounded
<1>3. CASE ~Due(r, time)
  <2>1. /\ Advance(r, {})
        /\ UNCHANGED <<handlers, now, last_pool, last_pool_lock, asked>>
    BY <1>3 DEF Debounced, constant
  <2>2. /\ step'[r] # "lock"
        /\ \A q \in Readers \ {r} : at'[q] = at[q] /\ step'[q] = step[q]
    BY <1>1, <2>1 DEF Advance, TypeOK
  <2>3. OverloadInv'
    BY <2>1, <2>2, Undisturbed
  <2>4. QED
    BY <2>1, <2>3 DEF Bounded
<1>4. QED
  BY <1>2, <1>3

LEMMA OverloadInit == Init => OverloadInv
<1> SUFFICES ASSUME Init PROVE OverloadInv
  OBVIOUS
<1>1. MinTime \in Int /\ MinTime <= 0
  BY DeviceAssumption DEF MinTime
<1>2. TimesInOrder
  BY <1>1 DEF Init, TimesInOrder
<1>3. QED
  BY <1>2 DEF Init, OverloadInv, HolderIsAsking, OneWaits, OldIsNotDue

LEMMA OverloadNext ==
  TwoReaders /\ DataInv /\ OverloadInv /\ [Next]_vars => OverloadInv' /\ Bounded
<1> SUFFICES ASSUME TwoReaders, DataInv, OverloadInv, [Next]_vars
             PROVE  OverloadInv' /\ Bounded
  OBVIOUS
<1>1. TypeOK /\ InHandler
  BY DEF DataInv
<1>2. /\ Len(handlers) \in Nat /\ H = 1..Len(handlers)
      /\ \A r \in Readers : Kind(r) \in Kinds => at[r] \in H
  BY <1>1, Shape
<1>3. /\ now \in Int /\ MinTime <= now
      /\ \A r \in Readers : stamp[r] \in Int /\ stamp[r] <= now
  BY <1>1, Times, DeviceAssumption DEF OverloadInv, TimesInOrder, MinTime, TypeOK
<1> USE DEF constant, debounce
<1>4. ASSUME UNCHANGED <<handlers, at, step, stamp, last_pool, last_pool_lock, asked>>,
             now' = now \/ now' = now + 1
      PROVE  OverloadInv' /\ Bounded
  <2>1. H' = H
    BY <1>4 DEF H
  <2>2. TimesInOrder'
    BY <1>1, <1>4, <2>1, Times DEF OverloadInv, TimesInOrder
  <2>3. HolderIsAsking' /\ OneWaits' /\ OldIsNotDue'
    BY <1>4, <2>1 DEF OverloadInv, HolderIsAsking, OneWaits, OldIsNotDue
  <2>4. QED
    BY <1>4, <2>2, <2>3 DEF OverloadInv, Bounded
<1>5. CASE UNCHANGED vars
  BY <1>4, <1>5 DEF vars
<1>6. CASE Next
  <2> DEFINE Goal == OverloadInv' /\ Bounded
  <2>1. ASSUME Tick PROVE Goal
    BY <1>4, <2>1 DEF Tick
  <2>2. ASSUME Press PROVE Goal
    BY <1>4, <2>2 DEF Press
  <2>3. ASSUME GetLogs PROVE Goal
    BY <1>4, <2>3 DEF GetLogs
  \* A reader's steps away from the debounced handlers' locks.
  <2>4. ASSUME NEW r \in Readers,
               UNCHANGED <<handlers, now, last_pool, asked>>,
               \A q \in Readers \ {r} :
                  at'[q] = at[q] /\ step'[q] = step[q] /\ stamp'[q] = stamp[q],
               step'[r] # "lock", stamp'[r] <= now,
               \/ last_pool_lock' = Unlocked(r)
               \/ last_pool_lock' = last_pool_lock /\ step[r] # "request"
               \/ last_pool_lock' = last_pool_lock /\ at[r] \notin H
        PROVE  Goal
    BY <2>4, Undisturbed DEF Bounded
  <2>5. ASSUME NEW r \in Readers, StartRead(r) PROVE Goal
    <3>1. step[r] = "enter"
      BY <1>1, <1>2, <2>5 DEF StartRead, Reading, InHandler
    <3>2. QED
      BY <1>1, <1>3, <2>4, <2>5, <3>1 DEF StartRead, TypeOK
  <2>6. ASSUME NEW r \in Readers, AskPlain(r) PROVE Goal
    BY <1>1, <1>3, <2>4, <2>6 DEF AskPlain, Ask, TypeOK
  <2>7. ASSUME NEW r \in Readers, LoadLogs(r) PROVE Goal
    BY <1>1, <1>3, <2>4, <2>7 DEF LoadLogs, Advance, TypeOK
  <2>8. ASSUME NEW r \in Readers, ClearLogs(r) PROVE Goal
    BY <1>1, <1>3, <2>4, <2>8 DEF ClearLogs, Ask, TypeOK
  <2>9. ASSUME NEW r \in Readers, ReadClock(r) PROVE Goal
    <3>1. /\ at[r] \in H /\ last_pool_lock[at[r]] # None /\ H' = H
          /\ stamp' = [stamp EXCEPT ![r] = now]
          /\ step' = [step EXCEPT ![r] = "lock"]
          /\ UNCHANGED <<now, at, last_pool, last_pool_lock, asked>>
      BY <1>2, <2>9 DEF ReadClock, Kinds, H
    <3>2. PICK p \in Readers : p = last_pool_lock[at[r]]
      BY <1>1, <3>1 DEF TypeOK
    <3>3. step[p] = "request" /\ at[p] = at[r] /\ p # r
      BY <2>9, <3>1, <3>2 DEF OverloadInv, HolderIsAsking, ReadClock
    <3>4. \A q \in Readers : q = p \/ q = r
      BY <3>3 DEF TwoReaders
    <3>5. /\ stamp'[r] = now /\ step'[r] = "lock"
          /\ stamp'[p] = stamp[p] /\ step'[p] = "request"
      BY <1>1, <3>1, <3>3 DEF TypeOK
    <3>6. TimesInOrder'
      BY <1>3, <3>1, <3>4, <3>5 DEF OverloadInv, TimesInOrder
    <3>7. HolderIsAsking'
      <4> SUFFICES ASSUME NEW h \in H, last_pool_lock[h] # None
                   PROVE  step'[last_pool_lock[h]] = "request" /\ at[last_pool_lock[h]] = h
        BY <3>1 DEF HolderIsAsking
      <4>1. step[last_pool_lock[h]] = "request" /\ at[last_pool_lock[h]] = h
        BY DEF OverloadInv, HolderIsAsking
      <4>2. QED
        BY <1>1, <2>9, <3>1, <4>1 DEF ReadClock, TypeOK
    <3>8. OneWaits'
      BY <3>4, <3>5 DEF OneWaits
    <3>9. OldIsNotDue'
      BY <3>1, <3>4, <3>5 DEF OldIsNotDue, OverloadInv, TimesInOrder
    <3>10. QED
      BY <3>1, <3>6, <3>7, <3>8, <3>9 DEF OverloadInv, Bounded
  <2>10. ASSUME NEW r \in Readers, EnterDebounced(r) PROVE Goal
    <3>1. at[r] \in H /\ Kind(r) = "debounced" /\ step[r] # "request"
          /\ Debounced(r, now) /\ stamp' = stamp
      BY <1>2, <2>10 DEF EnterDebounced, Kinds
    <3>2. now <= now /\ asked[at[r]].last <= now
      BY <1>3, <3>1 DEF OverloadInv, TimesInOrder
    <3>3. QED
      BY <1>3, <3>1, <3>2, DebouncedBounded
  <2>11. ASSUME NEW r \in Readers, WaitedForLock(r) PROVE Goal
    <3>1. at[r] \in H /\ Kind(r) = "debounced" /\ step[r] = "lock"
          /\ Debounced(r, stamp[r]) /\ stamp' = [stamp EXCEPT ![r] = MinTime]
      BY <1>1, <2>11 DEF WaitedForLock, InHandler
    <3>2. asked[at[r]].last <= stamp[r] \/ stamp[r] <= last_pool[at[r]]
      BY <3>1 DEF OverloadInv, OldIsNotDue
    <3>3. \A q \in Readers \ {r} : step[q] = "lock" /\ at[q] = at[r] => stamp[q] <= stamp[r]
      BY <3>1 DEF OverloadInv, OneWaits
    <3>4. /\ \A q \in Readers : stamp'[q] <= now
          /\ \A q \in Readers \ {r} : stamp'[q] = stamp[q]
      BY <1>1, <1>3, <3>1 DEF TypeOK
    <3>5. QED
      BY <1>3, <3>1, <3>2, <3>3, <3>4, DebouncedBounded
  <2>12. ASSUME NEW r \in Readers, Answered(r) PROVE Goal
    BY <1>1, <1>3, <2>4, <2>12 DEF Answered, Advance, TypeOK
  <2>13. ASSUME NEW r \in Readers, Returns(r) PROVE Goal
    <3>1. at[r] \notin H /\ step[r] = "enter"
      BY <1>1, <1>2, <2>13 DEF Returns, InHandler
    <3>2. QED
      BY <1>1, <1>3, <2>4, <2>13, <3>1 DEF Returns, TypeOK
  <2>14. ASSUME NEW r \in Readers, env # {}, Abandon(r) PROVE Goal
    BY <1>1, <1>3, <2>4, <2>14 DEF Abandon, TypeOK
  <2>15. QED
    <3> HIDE DEF Goal
    <3>1. Goal
      BY <1>6, <2>1, <2>2, <2>3, <2>5, <2>6, <2>7, <2>8, <2>9, <2>10, <2>11, <2>12,
         <2>13, <2>14, StepCases
    <3>2. QED
      BY <3>1 DEF Goal
<1>7. QED
  BY <1>5, <1>6

\* Of three requests of a debounced handler's data the first and the last are
\* further apart than the duration (OverloadBounded), for two readers, whatever
\* the durations, the failures and the cancellations.
THEOREM RequestsAreApart ==
  ASSUME TwoReaders
  PROVE  Spec => OverloadBounded
<1>1. DataInv /\ OverloadInv /\ [Next]_vars => OverloadInv'
  BY OverloadNext
<1>2. DataInv /\ OverloadInv /\ [Next]_vars =>
        [\A h \in H :
            asked'[h] # asked[h] => asked'[h].last > asked[h].before + Duration]_vars
  BY OverloadNext DEF Bounded
<1>3. QED
  BY <1>1, <1>2, OverloadInit, DataSafe, PTL DEF Spec, OverloadBounded

================================================================================
