--------------------------- MODULE AvailabilityProofs ---------------------------
(***************************************************************************)
(* Theorems about Availability, for a queue of any size, any number of     *)
(* initializations and any surroundings: type correctness, and that a      *)
(* clean end leaves the devices unavailable.                               *)
(***************************************************************************)
EXTENDS Availability, SequenceTheorems, TLAPS

\* A step is the surroundings' or, while the program runs, one of its tasks'.
LEMMA StepCases ==
  ASSUME NEW P, Next,
         ASSUME Connect PROVE P,
         ASSUME Drop PROVE P,
         ASSUME HaStops PROVE P,
         ASSUME HaStarts PROVE P,
         ASSUME Command PROVE P,
         ASSUME StopRequest PROVE P,
         ASSUME Deliver PROVE P,
         ASSUME Running, NEW i \in Initializers, InitDiscovery(i) PROVE P,
         ASSUME Running, NEW i \in Initializers, InitSubscribe(i) PROVE P,
         ASSUME Running, NEW i \in Initializers, InitSubscribeFails(i) PROVE P,
         ASSUME Running, NEW i \in Initializers, InitSettled(i) PROVE P,
         ASSUME Running, NEW i \in Initializers, InitData(i) PROVE P,
         ASSUME Running, MakeAvailable PROVE P,
         ASSUME Running, TakeConnected PROVE P,
         ASSUME Running, TakeDisconnected PROVE P,
         ASSUME Running, TakeStopping PROVE P,
         ASSUME Running, TakeOnline PROVE P,
         ASSUME Running, TakeOffline PROVE P,
         ASSUME Running, TakeCommand PROVE P,
         ASSUME Running, PublishUpdate PROVE P,
         ASSUME Running, Joined PROVE P,
         ASSUME Running, MakeUnavailable PROVE P,
         ASSUME Running, MakeUnavailableFails PROVE P,
         ASSUME Running, Disconnect PROVE P,
         ASSUME Running, PublishData PROVE P,
         ASSUME Running, DevicesCreated PROVE P,
         ASSUME Running, PublisherRequests PROVE P
  PROVE  P
<1>1. ASSUME Running, NEW i \in Initializers, Initialize(i) PROVE P
  BY <1>1 DEF Initialize
<1>2. ASSUME Running, TrafficTask PROVE P
  BY <1>2 DEF TrafficTask
<1>3. ASSUME Running, Publisher PROVE P
  BY <1>3 DEF Publisher
<1>4. QED
  BY <1>1, <1>2, <1>3 DEF Next

--------------------------------------------------------------------------------
(* The queue                                                               *)

QueueOK(q) == q \in Seq(Requests) /\ Len(q) <= QueueSize

\* A request that finds room is the last one of the queue.
LEMMA RequestAppends ==
  ASSUME QueueOK(queue), NEW r \in Requests, Request(r)
  PROVE  /\ QueueOK(queue')
         /\ Len(queue') = Len(queue) + 1
         /\ \A i \in 1..Len(queue) : queue'[i] = queue[i]
         /\ queue'[Len(queue) + 1] = r
<1>1. queue' = Append(queue, r) /\ Len(queue) < QueueSize
  BY DEF Request
<1>2. queue \in Seq(Requests)
  BY DEF QueueOK
<1>3. /\ Append(queue, r) \in Seq(Requests)
      /\ Len(Append(queue, r)) = Len(queue) + 1
      /\ \A i \in 1..Len(queue) : Append(queue, r)[i] = queue[i]
      /\ Append(queue, r)[Len(queue) + 1] = r
  BY <1>2, AppendProperties
<1>4. Len(queue) \in Nat
  BY <1>2, LenProperties
<1>5. QED
  BY <1>1, <1>3, <1>4, AvailabilityAssumption DEF QueueOK

\* What a task may do to the queue when it makes request r.
LEMMA QueueStays ==
  ASSUME QueueOK(queue), NEW r \in Requests,
         Request(r) \/ RequestIfConnected(r) \/ RequestFails \/ UNCHANGED queue
  PROVE  QueueOK(queue')
BY RequestAppends DEF RequestIfConnected, RequestFails

\* The event loop takes the first request.
LEMMA DeliverTakes ==
  ASSUME QueueOK(queue), Deliver
  PROVE  /\ QueueOK(queue')
         /\ Len(queue) \in Nat \ {0}
         /\ Len(queue') = Len(queue) - 1
         /\ \A i \in 1..Len(queue') : queue'[i] = queue[i + 1]
         /\ Head(queue) = queue[1]
         /\ Head(queue) \in Requests
<1>1. queue \in Seq(Requests) /\ queue # <<>> /\ queue' = Tail(queue)
  BY DEF QueueOK, Deliver
<1>2. /\ Head(queue) \in Requests
      /\ Tail(queue) \in Seq(Requests)
      /\ Len(Tail(queue)) = Len(queue) - 1
      /\ \A i \in 1..Len(Tail(queue)) : Tail(queue)[i] = queue[i + 1]
  BY <1>1, HeadTailProperties
<1>3. Len(queue) \in Nat \ {0}
  BY <1>1, EmptySeq
<1>4. Head(queue) = queue[1]
  BY <1>1
<1>5. QED
  BY <1>1, <1>2, <1>3, <1>4, AvailabilityAssumption DEF QueueOK

--------------------------------------------------------------------------------
(* Types                                                                   *)

LEMMA TypeInit == Init => TypeOK
<1> SUFFICES ASSUME Init PROVE TypeOK
  OBVIOUS
<1>1. queue \in Seq(Requests) /\ Len(queue) <= QueueSize
  BY EmptySeq, AvailabilityAssumption DEF Init
<1>2. env \subseteq Events
  BY AvailabilityAssumption DEF Init
<1>3. pending \in 0..MaxPending
  BY AvailabilityAssumption DEF Init
<1>4. /\ at \in [Initializers -> {"off", "delay", "discovery", "subscribe", "settle", "data"}]
      /\ ha \in [up : BOOLEAN, known : BOOLEAN, available : BOOLEAN]
  BY DEF Init
<1>5. QED
  BY <1>1, <1>2, <1>3, <1>4 DEF Init, TypeOK

LEMMA TypeNext == TypeOK /\ [Next]_vars => TypeOK'
<1> SUFFICES ASSUME TypeOK, [Next]_vars PROVE TypeOK'
  OBVIOUS
<1> USE AvailabilityAssumption
<1>q. QueueOK(queue)
  BY DEF TypeOK, QueueOK
<1>0. CASE UNCHANGED vars
  BY <1>0 DEF vars, TypeOK
<1>1. CASE Connect
  BY <1>1 DEF Connect, tasks, TypeOK, Statuses
<1>2. CASE Drop
  <2>1. QueueOK(<<>>)
    BY EmptySeq DEF QueueOK
  <2>2. QueueOK(queue')
    BY <1>q, <1>2, <2>1 DEF Drop
  <2>3. QED
    BY <1>2, <2>2 DEF Drop, tasks, TypeOK, QueueOK, Statuses
<1>3. CASE HaStops
  BY <1>3 DEF HaStops, Message, tasks, TypeOK, Statuses
<1>4. CASE HaStarts
  BY <1>4 DEF HaStarts, Message, tasks, TypeOK, Statuses
<1>c. CASE Command
  BY <1>c DEF Command, Message, tasks, TypeOK, Statuses
<1>5. CASE StopRequest
  BY <1>5 DEF StopRequest, tasks, TypeOK, Statuses
<1>6. CASE Deliver
  <2>1. QueueOK(queue')
    BY <1>q, <1>6, DeliverTakes
  <2>2. link' \in {"down", "up", "ended"} /\ subscribed' \subseteq Topics
    BY <1>6 DEF Deliver, TypeOK, Topics
  <2>3. ha' \in [up : BOOLEAN, known : BOOLEAN, available : BOOLEAN]
    BY <1>6 DEF Deliver, TypeOK
  <2>4. QED
    BY <1>6, <2>1, <2>2, <2>3 DEF Deliver, tasks, TypeOK, QueueOK
<1>r. \A r \in Requests :
        Request(r) \/ RequestIfConnected(r) \/ RequestFails => QueueOK(queue')
  BY <1>q, QueueStays
<1> USE DEF outside, Goto, Requests
<1>7. ASSUME NEW i \in Initializers, InitDiscovery(i) PROVE TypeOK'
  BY <1>7, <1>r DEF InitDiscovery, TypeOK, QueueOK
<1>8. ASSUME NEW i \in Initializers, InitSubscribe(i) PROVE TypeOK'
  BY <1>8, <1>r DEF InitSubscribe, TypeOK, QueueOK
<1>9. ASSUME NEW i \in Initializers, InitSubscribeFails(i) PROVE TypeOK'
  BY <1>9, <1>r DEF InitSubscribeFails, TypeOK, QueueOK
<1>10. ASSUME NEW i \in Initializers, InitSettled(i) PROVE TypeOK'
  BY <1>10 DEF InitSettled, TypeOK
<1>11. ASSUME NEW i \in Initializers, InitData(i) PROVE TypeOK'
  BY <1>11, <1>r DEF InitData, TypeOK, QueueOK
<1>12. CASE MakeAvailable
  <2>1. told' \in BOOLEAN
    BY <1>12 DEF MakeAvailable
  <2>2. QED
    BY <1>12, <1>r, <2>1 DEF MakeAvailable, TypeOK, QueueOK
<1>13. CASE TakeConnected
  BY <1>13 DEF TakeConnected, Take, TypeOK, Initializers
<1>14. CASE TakeDisconnected
  BY <1>14 DEF TakeDisconnected, Take, TypeOK
<1>15. CASE TakeStopping
  BY <1>15 DEF TakeStopping, Take, TypeOK
<1>16. CASE TakeOnline
  BY <1>16 DEF TakeOnline, Take, TypeOK
<1>o. CASE TakeOffline
  BY <1>o DEF TakeOffline, Take, TypeOK
<1>t. CASE TakeCommand
  BY <1>t DEF TakeCommand, Take, TypeOK
<1>u. CASE PublishUpdate
  BY <1>u, <1>r DEF PublishUpdate, TypeOK, QueueOK
<1>17. CASE Joined
  BY <1>17 DEF Joined, TypeOK
<1>18. CASE MakeUnavailable
  <2>1. told' \in BOOLEAN
    BY <1>18 DEF MakeUnavailable
  <2>2. QED
    BY <1>18, <1>r, <2>1 DEF MakeUnavailable, TypeOK, QueueOK
<1>19. CASE MakeUnavailableFails
  BY <1>19, <1>r DEF MakeUnavailableFails, TypeOK, QueueOK
<1>20. CASE Disconnect
  <2>1. Request("disconnect") \/ UNCHANGED queue
    BY <1>20 DEF Disconnect, Request
  <2>2. QueueOK(queue')
    BY <1>q, <1>r, <2>1
  <2>3. QED
    BY <1>20, <2>2 DEF Disconnect, TypeOK, QueueOK
<1>21. CASE PublishData
  BY <1>21, <1>r DEF PublishData, tasks, TypeOK, QueueOK
<1>22. CASE DevicesCreated
  BY <1>22 DEF DevicesCreated, TypeOK
<1>23. CASE PublisherRequests
  BY <1>23, <1>r DEF PublisherRequests, TypeOK, QueueOK
<1>24. QED
  BY <1>0, <1>1, <1>2, <1>3, <1>4, <1>5, <1>6, <1>7, <1>8, <1>9, <1>10, <1>11, <1>12, <1>13,
     <1>14, <1>15, <1>16, <1>17, <1>18, <1>19, <1>20, <1>21, <1>22, <1>23, <1>c, <1>o, <1>t,
     <1>u, StepCases

\* The queue holds requests and no more than it has room for, and no more tasks
\* than the bound wait to make devices available, whatever breaks.
THEOREM TypeCorrect == Spec => []TypeOK
BY TypeInit, TypeNext, PTL DEF Spec

--------------------------------------------------------------------------------
(* A clean end                                                             *)

\* The traffic task initializes while it says so; when it comes to make the
\* devices unavailable there is no publisher, and none is started after that.
StopSequence ==
  /\ at[Traffic] # "off" => traffic = "initialize"
  /\ traffic \in {"offline", "disconnect", "ended"} => publisher = "off"
  /\ told => traffic \in {"disconnect", "ended", "failed"} /\ publisher = "off"

\* The disconnect is the last thing a stop queues, behind its `offline`.
DisconnectIsLast ==
  /\ \A i \in 1..Len(queue) : queue[i] = "disconnect" => traffic = "ended"
  /\ \A i, j \in 1..Len(queue) :
       queue[i] = "disconnect" /\ queue[j] = "offline" => j < i

\* As long as the stop's `offline` is the last word, whatever says otherwise is
\* followed by it: what Home Assistant takes for available, and an `online` that
\* is still queued.
OfflineFollows ==
  told =>
    /\ ha.available => link # "ended" /\ \E i \in 1..Len(queue) : queue[i] = "offline"
    /\ link # "ended" =>
         \A i \in 1..Len(queue) :
           queue[i] = "online" => \E j \in i + 1..Len(queue) : queue[j] = "offline"

StopInv == StopSequence /\ DisconnectIsLast /\ OfflineFollows

\* Steps that leave the queue alone.
LEMMA QueueUntouched ==
  ASSUME StopInv, UNCHANGED queue, StopSequence',
         ha'.available => ha.available, told' => told,
         link' = "ended" <=> link = "ended", traffic = "ended" => traffic' = "ended"
  PROVE  StopInv'
BY DEF StopInv, DisconnectIsLast, OfflineFollows

\* Requests that are not a stop's: an `online` only once the stop's word is not
\* the last.
LEMMA OtherRequest ==
  ASSUME TypeOK, StopInv, StopSequence',
         NEW r \in Requests \ {"offline", "disconnect"},
         \/ Request(r) \/ RequestIfConnected(r) \/ RequestFails,
         told' => told /\ (r # "online" \/ UNCHANGED queue),
         UNCHANGED <<ha, link>>, traffic = "ended" => traffic' = "ended"
  PROVE  StopInv'
<1>1. CASE UNCHANGED queue
  BY <1>1, QueueUntouched
<1>2. CASE Request(r)
  <2>1. QueueOK(queue)
    BY DEF TypeOK, QueueOK
  <2>2. Len(queue) \in Nat
    BY <2>1, LenProperties DEF QueueOK
  <2>3. /\ Len(queue') = Len(queue) + 1
        /\ \A i \in 1..Len(queue) : queue'[i] = queue[i]
        /\ queue'[Len(queue) + 1] = r
    BY <1>2, <2>1, RequestAppends
  <2>4. ~UNCHANGED queue
    BY <2>2, <2>3
  <2>5. DisconnectIsLast'
    BY <2>2, <2>3 DEF StopInv, DisconnectIsLast
  <2>6. OfflineFollows'
    <3> SUFFICES ASSUME told' PROVE OfflineFollows'
      BY DEF OfflineFollows
    <3>1. told /\ r # "online"
      BY <2>4
    <3>2. ha.available => link # "ended" /\ \E i \in 1..Len(queue') : queue'[i] = "offline"
      BY <2>2, <2>3, <3>1 DEF StopInv, OfflineFollows
    <3>3. ASSUME link # "ended", NEW i \in 1..Len(queue'), queue'[i] = "online"
          PROVE  \E j \in i + 1..Len(queue') : queue'[j] = "offline"
      <4>1. i \in 1..Len(queue) /\ queue[i] = "online"
        BY <2>2, <2>3, <3>1, <3>3
      <4>2. PICK j \in i + 1..Len(queue) : queue[j] = "offline"
        BY <3>1, <3>3, <4>1 DEF StopInv, OfflineFollows
      <4>3. j \in 1..Len(queue) /\ j \in i + 1..Len(queue')
        BY <2>2, <2>3, <4>1, <4>2
      <4>4. QED
        BY <2>3, <4>2, <4>3
    <3>4. QED
      BY <3>2, <3>3 DEF OfflineFollows
  <2>7. QED
    BY <2>5, <2>6 DEF StopInv
<1>3. QED
  BY <1>1, <1>2 DEF RequestIfConnected, RequestFails

LEMMA StopInit == Init => StopInv
<1> SUFFICES ASSUME Init PROVE StopInv
  OBVIOUS
<1>1. at[Traffic] = "off"
  BY DEF Init, Initializers
<1>2. QED
  BY <1>1 DEF Init, StopInv, StopSequence, DisconnectIsLast, OfflineFollows

\* What the event loop delivers.
LEMMA StopDeliver == TypeOK /\ StopInv /\ Deliver => StopInv'
<1> SUFFICES ASSUME TypeOK, StopInv, Deliver PROVE StopInv'
  OBVIOUS
<1>1. /\ Len(queue) \in Nat \ {0}
      /\ Len(queue') = Len(queue) - 1
      /\ \A i \in 1..Len(queue') : queue'[i] = queue[i + 1]
      /\ Head(queue) = queue[1]
  BY DeliverTakes DEF TypeOK, QueueOK
<1>2. UNCHANGED <<traffic, at, publisher, told>> /\ link = "up"
  BY DEF Deliver, tasks
<1>3. StopSequence'
  BY <1>2 DEF StopInv, StopSequence
<1>4. DisconnectIsLast'
  BY <1>1, <1>2 DEF StopInv, DisconnectIsLast
<1>5. OfflineFollows'
  <2> SUFFICES ASSUME told PROVE OfflineFollows'
    BY <1>2 DEF OfflineFollows
  <2>1. ASSUME NEW i \in 1..Len(queue), i # 1, queue[i] = "offline"
        PROVE  \E j \in 1..Len(queue') : queue'[j] = "offline"
    <3>1. i - 1 \in 1..Len(queue') /\ queue'[i - 1] = queue[(i - 1) + 1]
      BY <1>1, <2>1
    <3>2. QED
      BY <2>1, <3>1
  <2>2. ASSUME ha'.available
        PROVE  link' # "ended" /\ \E i \in 1..Len(queue') : queue'[i] = "offline"
    <3>1. Head(queue) # "offline" /\ (ha.available \/ Head(queue) = "online")
      BY <2>2 DEF Deliver, TypeOK
    <3>2. PICK i \in 1..Len(queue) : queue[i] = "offline"
      BY <1>1, <1>2, <3>1 DEF StopInv, OfflineFollows
    <3>3. i # 1
      BY <1>1, <3>1, <3>2
    <3>4. Head(queue) # "disconnect"
      BY <1>1, <3>2, <3>3 DEF StopInv, DisconnectIsLast
    <3>5. link' # "ended"
      BY <1>2, <3>4 DEF Deliver
    <3>6. QED
      BY <2>1, <3>2, <3>3, <3>5
  <2>3. ASSUME NEW i \in 1..Len(queue'), queue'[i] = "online"
        PROVE  \E j \in i + 1..Len(queue') : queue'[j] = "offline"
    <3>1. i + 1 \in 1..Len(queue) /\ queue[i + 1] = "online"
      BY <1>1, <2>3
    <3>2. PICK j \in (i + 1) + 1..Len(queue) : queue[j] = "offline"
      BY <1>2, <3>1 DEF StopInv, OfflineFollows
    <3>3. j - 1 \in i + 1..Len(queue') /\ queue'[j - 1] = queue[(j - 1) + 1]
      BY <1>1, <3>1, <3>2
    <3>4. QED
      BY <3>2, <3>3
  <2>4. QED
    BY <2>2, <2>3 DEF OfflineFollows
<1>6. QED
  BY <1>3, <1>4, <1>5 DEF StopInv

\* What a stop queues.
LEMMA StopQueues ==
  TypeOK /\ StopInv /\ Running /\ (MakeUnavailable \/ Disconnect) => StopInv'
<1> SUFFICES ASSUME TypeOK, StopInv, Running, MakeUnavailable \/ Disconnect PROVE StopInv'
  OBVIOUS
<1>1. QueueOK(queue) /\ Len(queue) \in Nat
  BY LenProperties DEF TypeOK, QueueOK
<1>2. CASE MakeUnavailable
  <2>1. /\ traffic = "offline" /\ traffic' = "disconnect" /\ told' = (link = "up")
        /\ RequestIfConnected("offline") /\ UNCHANGED <<link, ha, at, publisher>>
    BY <1>2 DEF MakeUnavailable, outside
  <2>2. StopSequence'
    BY <2>1 DEF StopInv, StopSequence
  <2>3. CASE link # "up"
    BY <2>1, <2>2, <2>3, QueueUntouched DEF RequestIfConnected
  <2>4. CASE link = "up"
    <3>1. Request("offline")
      BY <2>1, <2>4 DEF RequestIfConnected
    <3>2. /\ Len(queue') = Len(queue) + 1
          /\ \A i \in 1..Len(queue) : queue'[i] = queue[i]
          /\ queue'[Len(queue) + 1] = "offline"
      BY <1>1, <3>1, RequestAppends DEF Requests
    <3>3. \A i \in 1..Len(queue) : queue[i] # "disconnect"
      BY <2>1 DEF StopInv, DisconnectIsLast
    <3>4. \A i \in 1..Len(queue') : queue'[i] # "disconnect"
      BY <1>1, <3>2, <3>3
    <3>5. \A i \in 1..Len(queue') :
            queue'[i] = "online" => Len(queue) + 1 \in i + 1..Len(queue')
      BY <1>1, <3>2
    <3>6. OfflineFollows'
      BY <1>1, <2>1, <2>4, <3>2, <3>5 DEF OfflineFollows
    <3>7. QED
      BY <2>2, <3>4, <3>6 DEF StopInv, DisconnectIsLast
  <2>5. QED
    BY <2>3, <2>4
<1>3. CASE Disconnect
  <2>1. /\ traffic = "disconnect" /\ traffic' \in {"ended", "failed"}
        /\ UNCHANGED <<link, ha, at, publisher, told>>
    BY <1>3 DEF Disconnect, outside
  <2>2. StopSequence'
    BY <2>1 DEF StopInv, StopSequence
  <2>3. CASE UNCHANGED queue
    BY <2>1, <2>2, <2>3, QueueUntouched
  <2>4. CASE Request("disconnect") /\ traffic' = "ended"
    <3>1. /\ Len(queue') = Len(queue) + 1
          /\ \A i \in 1..Len(queue) : queue'[i] = queue[i]
          /\ queue'[Len(queue) + 1] = "disconnect"
      BY <1>1, <2>4, RequestAppends DEF Requests
    <3>2. \A i \in 1..Len(queue) : queue[i] # "disconnect"
      BY <2>1 DEF StopInv, DisconnectIsLast
    <3>3. DisconnectIsLast'
      BY <1>1, <2>4, <3>1, <3>2 DEF DisconnectIsLast
    <3>4. OfflineFollows'
      <4> SUFFICES ASSUME told PROVE OfflineFollows'
        BY <2>1 DEF OfflineFollows
      <4>1. ha.available => \E i \in 1..Len(queue') : queue'[i] = "offline"
        BY <1>1, <3>1 DEF StopInv, OfflineFollows
      <4>2. ASSUME NEW i \in 1..Len(queue'), queue'[i] = "online"
            PROVE  \E j \in i + 1..Len(queue') : queue'[j] = "offline"
        <5>1. i \in 1..Len(queue) /\ queue[i] = "online"
          BY <1>1, <3>1, <4>2
        <5>2. PICK j \in i + 1..Len(queue) : queue[j] = "offline"
          BY <5>1 DEF StopInv, OfflineFollows, Running
        <5>3. j \in 1..Len(queue) /\ j \in i + 1..Len(queue')
          BY <1>1, <3>1, <5>1, <5>2
        <5>4. QED
          BY <3>1, <5>2, <5>3
      <4>3. QED
        BY <2>1, <4>1, <4>2 DEF OfflineFollows, Running
    <3>5. QED
      BY <2>2, <3>3, <3>4 DEF StopInv
  <2>5. QED
    BY <1>3, <2>3, <2>4 DEF Disconnect, Request
<1>4. QED
  BY <1>2, <1>3

LEMMA StopNext == TypeOK /\ StopInv /\ [Next]_vars => StopInv'
<1> SUFFICES ASSUME TypeOK, StopInv, [Next]_vars PROVE StopInv'
  OBVIOUS
<1> USE DEF tasks, outside, Goto
<1>a. StopSequence
  BY DEF StopInv
<1>0. CASE UNCHANGED vars
  BY <1>0, <1>a, QueueUntouched DEF vars, StopSequence
<1>1. CASE Connect
  BY <1>1, <1>a, QueueUntouched DEF Connect, StopSequence
<1>2. CASE Drop
  <2>1. StopSequence' /\ link' # "ended" /\ ~ha'.available
    BY <1>2, <1>a DEF Drop, StopSequence, TypeOK
  <2>2. CASE UNCHANGED queue
    BY <1>2, <2>1, <2>2, QueueUntouched DEF Drop
  <2>3. CASE queue' = <<>>
    BY <2>1, <2>3 DEF StopInv, DisconnectIsLast, OfflineFollows
  <2>4. QED
    BY <1>2, <2>2, <2>3 DEF Drop
<1>3. CASE HaStops
  BY <1>3, <1>a, QueueUntouched DEF HaStops, StopSequence
<1>4. CASE HaStarts
  <2>1. ha'.available = ha.available
    BY <1>4 DEF HaStarts, TypeOK
  <2>2. QED
    BY <1>4, <1>a, <2>1, QueueUntouched DEF HaStarts, StopSequence
<1>c. CASE Command
  BY <1>c, <1>a, QueueUntouched DEF Command, StopSequence
<1>5. CASE StopRequest
  BY <1>5, <1>a, QueueUntouched DEF StopRequest, StopSequence
<1>6. CASE Deliver
  BY <1>6, StopDeliver
<1> USE DEF Requests
<1>7. ASSUME NEW i \in Initializers, InitDiscovery(i) PROVE StopInv'
  <2>1. StopSequence'
    BY <1>7, <1>a DEF InitDiscovery, StopSequence, TypeOK
  <2>2. QED
    BY <1>7, <2>1, OtherRequest DEF InitDiscovery
<1>8. ASSUME NEW i \in Initializers, InitSubscribe(i) PROVE StopInv'
  <2>1. StopSequence'
    BY <1>8, <1>a DEF InitSubscribe, StopSequence, TypeOK
  <2>2. QED
    BY <1>8, <2>1, OtherRequest DEF InitSubscribe
<1>9. ASSUME NEW i \in Initializers, InitSubscribeFails(i) PROVE StopInv'
  <2>1. StopSequence' /\ (traffic = "ended" => traffic' = "ended")
    BY <1>9, <1>a DEF InitSubscribeFails, StopSequence, TypeOK
  <2>2. QED
    BY <1>9, <2>1, QueueUntouched DEF InitSubscribeFails, RequestFails
<1>10. ASSUME NEW i \in Initializers, InitSettled(i) PROVE StopInv'
  <2>1. StopSequence'
    BY <1>10, <1>a DEF InitSettled, StopSequence, TypeOK
  <2>2. QED
    BY <1>10, <2>1, QueueUntouched DEF InitSettled
<1>11. ASSUME NEW i \in Initializers, InitData(i) PROVE StopInv'
  <2>1. StopSequence' /\ (traffic = "ended" => traffic' = "ended")
    BY <1>11, <1>a DEF InitData, StopSequence, TypeOK
  <2>2. QED
    BY <1>11, <2>1, OtherRequest DEF InitData
<1>12. CASE MakeAvailable
  <2>1. StopSequence'
    BY <1>12, <1>a DEF MakeAvailable, StopSequence
  <2>2. told' => told /\ UNCHANGED queue
    BY <1>12 DEF MakeAvailable
  <2>3. QED
    BY <1>12, <2>1, <2>2, OtherRequest DEF MakeAvailable
<1>13. CASE TakeConnected
  <2>1. StopSequence'
    BY <1>13, <1>a DEF TakeConnected, Take, StopSequence, TypeOK
  <2>2. QED
    BY <1>13, <2>1, QueueUntouched DEF TakeConnected, Take
<1>14. CASE TakeDisconnected
  <2>1. StopSequence'
    BY <1>14, <1>a DEF TakeDisconnected, Take, StopSequence
  <2>2. QED
    BY <1>14, <2>1, QueueUntouched DEF TakeDisconnected, Take
<1>15. CASE TakeStopping
  <2>1. StopSequence'
    BY <1>15, <1>a DEF TakeStopping, Take, StopSequence
  <2>2. QED
    BY <1>15, <2>1, QueueUntouched DEF TakeStopping, Take
<1>16. CASE TakeOnline
  <2>1. StopSequence'
    BY <1>16, <1>a, AvailabilityAssumption DEF TakeOnline, Take, StopSequence, TypeOK, Initializers
  <2>2. QED
    BY <1>16, <2>1, QueueUntouched DEF TakeOnline, Take
<1>o. CASE TakeOffline
  <2>1. StopSequence'
    BY <1>o, <1>a DEF TakeOffline, Take, StopSequence
  <2>2. QED
    BY <1>o, <2>1, QueueUntouched DEF TakeOffline, Take
<1>t. CASE TakeCommand
  <2>1. StopSequence'
    BY <1>t, <1>a DEF TakeCommand, Take, StopSequence
  <2>2. QED
    BY <1>t, <2>1, QueueUntouched DEF TakeCommand, Take
<1>u. CASE PublishUpdate
  <2>1. StopSequence' /\ (traffic = "ended" => traffic' = "ended")
    BY <1>u, <1>a DEF PublishUpdate, StopSequence
  <2>2. QED
    BY <1>u, <2>1, OtherRequest DEF PublishUpdate
<1>17. CASE Joined
  <2>1. StopSequence'
    BY <1>17, <1>a DEF Joined, StopSequence
  <2>2. QED
    BY <1>17, <2>1, QueueUntouched DEF Joined
<1>18. CASE Running /\ MakeUnavailable
  BY <1>18, StopQueues
<1>19. CASE MakeUnavailableFails
  <2>1. StopSequence'
    BY <1>19, <1>a DEF MakeUnavailableFails, StopSequence
  <2>2. QED
    BY <1>19, <2>1, QueueUntouched DEF MakeUnavailableFails, RequestFails
<1>20. CASE Running /\ Disconnect
  BY <1>20, StopQueues
<1>21. CASE PublishData
  <2>1. StopSequence'
    BY <1>21, <1>a DEF PublishData, StopSequence
  <2>2. QED
    BY <1>21, <2>1, OtherRequest DEF PublishData
<1>22. CASE DevicesCreated
  <2>1. StopSequence'
    BY <1>22, <1>a DEF DevicesCreated, StopSequence
  <2>2. QED
    BY <1>22, <2>1, QueueUntouched DEF DevicesCreated
<1>23. CASE PublisherRequests
  <2>1. publisher # "off" /\ ~told /\ ~told'
    BY <1>23, <1>a DEF PublisherRequests, StopSequence
  <2>2. StopSequence'
    BY <1>23, <1>a, <2>1 DEF PublisherRequests, StopSequence
  <2>3. QED
    BY <1>23, <2>1, <2>2, OtherRequest DEF PublisherRequests
<1>24. QED
  BY <1>0, <1>1, <1>2, <1>3, <1>4, <1>5, <1>6, <1>7, <1>8, <1>9, <1>10, <1>11, <1>12, <1>13,
     <1>14, <1>15, <1>16, <1>17, <1>18, <1>19, <1>20, <1>21, <1>22, <1>23, <1>c, <1>o, <1>t,
     <1>u, StepCases

\* In whatever order the stop, initializations and detached tasks queue their
\* requests, and whatever is lost with a connection: a clean end leaves the
\* devices unavailable, unless a task has spoken behind the stop.
THEOREM CleanEnd == Spec => []StopEndsOffline
<1>1. StopInv => StopEndsOffline
  BY DEF StopInv, OfflineFollows, StopEndsOffline
<1>2. QED
  BY <1>1, StopInit, StopNext, TypeCorrect, PTL DEF Spec

================================================================================
