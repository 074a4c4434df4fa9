--------------------------- MODULE DeviceManagerProofs ---------------------------
(***************************************************************************)
(* Theorems about DeviceManager, for every set of publishers and whatever  *)
(* the surroundings do: type correctness, and the inductive invariant with *)
(* the safety properties it implies. Each part of the invariant is         *)
(* inductive by itself or on top of TypeOK and the parts named.            *)
(***************************************************************************)
EXTENDS DeviceManager, TLAPS

\* What a send leaves in the channel is a message.
LEMMA SendType ==
  ASSUME TypeOK, NEW m \in Messages, Send(m)
  PROVE  chan' \in Messages /\ unread' \in BOOLEAN
BY DEF TypeOK, Send, channel

\* Every field, flag, channel value and program counter keeps its type.
THEOREM TypeCorrect == Spec => []TypeOK
<1>1. Init => TypeOK
  BY ManagerAssumption
  DEF Init, TypeOK, LoopMessages, Messages, Tasks, Connection, Links, LoopSteps,
      TrafficSteps, StopSteps
<1>2. TypeOK /\ [Next]_vars => TypeOK'
  <2> SUFFICES ASSUME TypeOK, [Next]_vars PROVE TypeOK'
    OBVIOUS
  <2> USE DEF TypeOK
  <2>1. CASE StartUp
    BY <2>1 DEF StartUp, shared, channel, broker, pmVars, pubVars, LoopSteps,
           LoopMessages, TrafficSteps
  <2>2. CASE StartUpCancelled
    BY <2>2 DEF StartUpCancelled, shared, channel, broker, mtVars, pmVars, pubVars,
           LoopSteps, LoopMessages
  <2>3. CASE ConnAck
    BY <2>3 DEF ConnAck, Polled, channel, mtVars, pmVars, pubVars, LoopSteps,
           LoopMessages, Links, Connection
  <2>4. CASE ConnectFails
    BY <2>4 DEF ConnectFails, Polled, got_disconnected, channel, broker, mtVars, pmVars,
           pubVars, LoopSteps, LoopMessages, Connection
  <2>5. CASE ConnectionRefused
    BY <2>5 DEF ConnectionRefused, Polled, shared, channel, broker, mtVars, pmVars,
           pubVars, LoopSteps, LoopMessages
  <2>6. CASE IncomingPublish
    BY <2>6 DEF IncomingPublish, Polled, shared, channel, broker, mtVars, pmVars,
           pubVars, LoopSteps, LoopMessages
  <2>7. CASE IncomingDisconnect
    BY <2>7 DEF IncomingDisconnect, Polled, got_disconnected, channel, mtVars, pmVars,
           pubVars, LoopSteps, LoopMessages, Links, Connection
  <2>8. CASE LinkError
    BY <2>8 DEF LinkError, Polled, got_disconnected, channel, mtVars, pmVars, pubVars,
           LoopSteps, LoopMessages, Links, Connection
  <2>9. CASE StateError
    BY <2>9 DEF StateError, Polled, got_disconnected, channel, mtVars, pmVars, pubVars,
           LoopSteps, LoopMessages, Links, Connection
  <2>10. CASE OutgoingDisconnect
    BY <2>10 DEF OutgoingDisconnect, Polled, shared, channel, mtVars, pmVars, pubVars,
           LoopMessages, Links
  <2>11. CASE OtherEvent
    BY <2>11 DEF OtherEvent, Polled, shared, channel, broker, mtVars, pmVars, pubVars,
           LoopMessages
  <2>12. CASE SendEvent
    <3>1. chan' \in Messages /\ unread' \in BOOLEAN
      BY <2>12, SendType DEF SendEvent, Messages, LoopMessages
    <3>2. QED
      BY <2>12, <3>1 DEF SendEvent, shared, broker, mtVars, pmVars, pubVars, LoopSteps
  <2>13. CASE WakeUp
    BY <2>13 DEF WakeUp, shared, channel, broker, mtVars, pmVars, pubVars, LoopSteps,
           LoopMessages
  <2>14. CASE LoopRefused
    BY <2>14 DEF LoopRefused, shared, channel, broker, mtVars, pmVars, pubVars,
           LoopSteps, LoopMessages
  <2>15. CASE LoopLoadsStopped
    BY <2>15 DEF LoopLoadsStopped, shared, channel, broker, mtVars, pmVars, pubVars,
           LoopSteps, LoopMessages, Tasks
  <2>16. CASE LoopStoresStopped
    BY <2>16 DEF LoopStoresStopped, channel, broker, mtVars, pmVars, pubVars, LoopSteps,
           LoopMessages, Tasks
  <2>17. CASE Exit
    BY <2>17 DEF Exit, shared, channel, broker, mtVars, pmVars, pubVars, LoopSteps,
           LoopMessages
  <2>18. CASE TakeMessage
    BY <2>18 DEF TakeMessage, TrafficGoes, shared, broker, elVars, pmVars, pubVars,
           TrafficSteps, Messages
  <2>19. CASE TrafficRefused
    BY <2>19 DEF TrafficRefused, TrafficGoes, shared, channel, broker, elVars, pmVars,
           pubVars, TrafficSteps
  <2>20. CASE set_healthy_shared
    BY <2>20 DEF set_healthy_shared, TrafficGoes, channel, broker, elVars, pmVars,
           pubVars, TrafficSteps
  <2>21. CASE StatusUnchanged
    BY <2>21 DEF StatusUnchanged, TrafficGoes, AfterStatus, StatusMessage, shared,
           channel, broker, elVars, pmVars, pubVars, TrafficSteps
  <2>22. CASE StatusWithoutPublisher
    BY <2>22 DEF StatusWithoutPublisher, TrafficGoes, StatusDealtWith, AfterStatus,
           StatusMessage, shared, channel, broker, elVars, pubVars, TrafficSteps
  <2>23. CASE CancelPublisher
    BY <2>23 DEF CancelPublisher, TrafficGoes, StatusMessage, shared, channel, broker,
           elVars, TrafficSteps
  <2>24. CASE JoinFinished
    BY <2>24 DEF JoinFinished, TrafficGoes, StatusDealtWith, AfterStatus, StatusMessage,
           shared, channel, broker, elVars, TrafficSteps
  <2>25. CASE JoinTimesOut
    BY <2>25 DEF JoinTimesOut, TrafficGoes, StatusDealtWith, AfterStatus, StatusMessage,
           shared, channel, broker, elVars, TrafficSteps
  <2>26. ASSUME NEW p \in Publishers, InitializeAndSpawn(p) PROVE TypeOK'
    BY <2>26 DEF InitializeAndSpawn, TrafficGoes, AfterStatus, shared, channel, broker,
           elVars, TrafficSteps
  <2>27. CASE DealWithCommand
    BY <2>27 DEF DealWithCommand, TrafficGoes, shared, channel, broker, elVars, pmVars,
           pubVars, TrafficSteps
  <2>28. CASE MakeUnavailable
    BY <2>28 DEF MakeUnavailable, TrafficGoes, shared, channel, broker, elVars, pmVars,
           pubVars, TrafficSteps
  <2>29. CASE StopPublishingAndDisconnect
    BY <2>29 DEF StopPublishingAndDisconnect, TrafficGoes, shared, channel, elVars,
           TrafficSteps
  <2>30. CASE TrafficLoadsStopped
    BY <2>30 DEF TrafficLoadsStopped, TrafficGoes, shared, channel, broker, elVars,
           pmVars, pubVars, TrafficSteps, Tasks
  <2>31. CASE TrafficStoresStopped
    BY <2>31 DEF TrafficStoresStopped, TrafficGoes, channel, broker, elVars, pmVars,
           pubVars, TrafficSteps, Tasks
  <2>32. CASE TrafficFails
    BY <2>32 DEF TrafficFails, TrafficGoes, shared, channel, broker, elVars, pmVars,
           pubVars, TrafficSteps
  <2>33. ASSUME NEW p \in Publishers, PublisherReturns(p) PROVE TypeOK'
    BY <2>33 DEF PublisherReturns, shared, channel, broker, elVars, mtVars, pmVars
  <2>34. ASSUME NEW p \in Publishers, PublisherDropped(p) PROVE TypeOK'
    BY <2>34 DEF PublisherDropped, shared, channel, broker, elVars, mtVars, pmVars
  <2>35. CASE Signal
    BY <2>35 DEF Signal, shared, channel, broker, elVars, mtVars, pmVars, pubVars,
           StopSteps
  <2>36. CASE SetStopFlag
    BY <2>36 DEF SetStopFlag, channel, broker, elVars, mtVars, pmVars, pubVars,
           StopSteps
  <2>37. CASE SendStopping
    <3>1. chan' \in Messages /\ unread' \in BOOLEAN
      BY <2>37, SendType DEF SendStopping, Messages, LoopMessages
    <3>2. QED
      BY <2>37, <3>1 DEF SendStopping, shared, broker, elVars, mtVars, pmVars, pubVars,
              StopSteps
  <2>38. CASE SeeStoppedTask
    BY <2>38 DEF SeeStoppedTask, shared, channel, broker, elVars, mtVars, pmVars,
           pubVars, StopSteps
  <2>39. CASE CancelEventLoop
    BY <2>39 DEF CancelEventLoop, shared, channel, broker, mtVars, pmVars, pubVars,
           LoopMessages, StopSteps
  <2>40. CASE ForceStop
    BY <2>40 DEF ForceStop, shared, channel, broker, elVars, pmVars, pubVars, StopSteps
  <2>41. CASE UNCHANGED vars
    BY <2>41 DEF vars, shared, channel, broker, elVars, mtVars, pmVars, pubVars
  <2>42. QED
    BY <2>1, <2>2, <2>3, <2>4, <2>5, <2>6, <2>7, <2>8, <2>9, <2>10, <2>11, <2>12, <2>13,
       <2>14, <2>15, <2>16, <2>17, <2>18, <2>19, <2>20, <2>21, <2>22, <2>23, <2>24,
       <2>25, <2>26, <2>27, <2>28, <2>29, <2>30, <2>31, <2>32, <2>33, <2>34, <2>35,
       <2>36, <2>37, <2>38, <2>39, <2>40, <2>41
    DEF Next, EventLoop, MessageTraffic, PublisherTask, StopTask
<1>3. QED
  BY <1>1, <1>2, PTL DEF Spec

\* The handle, the token source and the publishers move together.
LEMMA PublisherStep == TypeOK /\ StoppedInv /\ PublisherInv /\ [Next]_vars => PublisherInv'
<1> SUFFICES ASSUME TypeOK, StoppedInv, PublisherInv, [Next]_vars PROVE PublisherInv'
  OBVIOUS
<1> USE ManagerAssumption DEF TypeOK, StoppedInv, PublisherInv, AtMostOnePublisher,
            Live, TrafficAlive, Handling, HandlesStop
<1>1. CASE StartUp
  BY <1>1 DEF StartUp, shared, channel, broker, pmVars, pubVars
<1>2. CASE StartUpCancelled
  BY <1>2 DEF StartUpCancelled, shared, channel, broker, mtVars, pmVars, pubVars
<1>3. CASE ConnAck
  BY <1>3 DEF ConnAck, Polled, channel, mtVars, pmVars, pubVars
<1>4. CASE ConnectFails
  BY <1>4 DEF ConnectFails, Polled, got_disconnected, channel, broker, mtVars, pmVars,
         pubVars
<1>5. CASE ConnectionRefused
  BY <1>5 DEF ConnectionRefused, Polled, shared, channel, broker, mtVars, pmVars,
         pubVars
<1>6. CASE IncomingPublish
  BY <1>6 DEF IncomingPublish, Polled, shared, channel, broker, mtVars, pmVars, pubVars
<1>7. CASE IncomingDisconnect
  BY <1>7 DEF IncomingDisconnect, Polled, got_disconnected, channel, mtVars, pmVars,
         pubVars
<1>8. CASE LinkError
  BY <1>8 DEF LinkError, Polled, got_disconnected, channel, mtVars, pmVars, pubVars
<1>9. CASE StateError
  BY <1>9 DEF StateError, Polled, got_disconnected, channel, mtVars, pmVars, pubVars
<1>10. CASE OutgoingDisconnect
  BY <1>10 DEF OutgoingDisconnect, Polled, shared, channel, mtVars, pmVars, pubVars
<1>11. CASE OtherEvent
  BY <1>11 DEF OtherEvent, Polled, shared, channel, broker, mtVars, pmVars, pubVars
<1>12. CASE SendEvent
  BY <1>12 DEF SendEvent, Send, shared, channel, broker, mtVars, pmVars, pubVars
<1>13. CASE WakeUp
  BY <1>13 DEF WakeUp, shared, channel, broker, mtVars, pmVars, pubVars
<1>14. CASE LoopRefused
  BY <1>14 DEF LoopRefused, shared, channel, broker, mtVars, pmVars, pubVars
<1>15. CASE LoopLoadsStopped
  BY <1>15 DEF LoopLoadsStopped, shared, channel, broker, mtVars, pmVars, pubVars
<1>16. CASE LoopStoresStopped
  BY <1>16 DEF LoopStoresStopped, channel, broker, mtVars, pmVars, pubVars
<1>17. CASE Exit
  BY <1>17 DEF Exit, shared, channel, broker, mtVars, pmVars, pubVars
<1>18. CASE TakeMessage
  BY <1>18 DEF TakeMessage, TrafficGoes, shared, broker, elVars, pmVars, pubVars
<1>19. CASE TrafficRefused
  BY <1>19 DEF TrafficRefused, TrafficGoes, shared, channel, broker, elVars, pmVars,
         pubVars
<1>20. CASE set_healthy_shared
  BY <1>20 DEF set_healthy_shared, TrafficGoes, channel, broker, elVars, pmVars, pubVars
<1>21. CASE StatusUnchanged
  BY <1>21 DEF StatusUnchanged, TrafficGoes, AfterStatus, StatusMessage, shared,
         channel, broker, elVars, pmVars, pubVars
<1>22. CASE StatusWithoutPublisher
  BY <1>22 DEF StatusWithoutPublisher, TrafficGoes, StatusDealtWith, AfterStatus,
         StatusMessage, shared, channel, broker, elVars, pubVars
<1>23. CASE CancelPublisher
  BY <1>23 DEF CancelPublisher, TrafficGoes, StatusMessage, shared, channel, broker,
         elVars
<1>24. CASE JoinFinished
  BY <1>24 DEF JoinFinished, TrafficGoes, StatusDealtWith, AfterStatus, StatusMessage,
         shared, channel, broker, elVars
<1>25. CASE JoinTimesOut
  BY <1>25 DEF JoinTimesOut, TrafficGoes, StatusDealtWith, AfterStatus, StatusMessage,
         shared, channel, broker, elVars
<1>26. ASSUME NEW p \in Publishers, InitializeAndSpawn(p) PROVE PublisherInv'
  BY <1>26 DEF InitializeAndSpawn, TrafficGoes, AfterStatus, shared, channel, broker,
         elVars
<1>27. CASE DealWithCommand
  BY <1>27 DEF DealWithCommand, TrafficGoes, shared, channel, broker, elVars, pmVars,
         pubVars
<1>28. CASE MakeUnavailable
  BY <1>28 DEF MakeUnavailable, TrafficGoes, shared, channel, broker, elVars, pmVars,
         pubVars
<1>29. CASE StopPublishingAndDisconnect
  BY <1>29 DEF StopPublishingAndDisconnect, TrafficGoes, shared, channel, elVars
<1>30. CASE TrafficLoadsStopped
  BY <1>30 DEF TrafficLoadsStopped, TrafficGoes, shared, channel, broker, elVars,
         pmVars, pubVars
<1>31. CASE TrafficStoresStopped
  BY <1>31 DEF TrafficStoresStopped, TrafficGoes, channel, broker, elVars, pmVars,
         pubVars
<1>32. CASE TrafficFails
  BY <1>32 DEF TrafficFails, TrafficGoes, StepFails, shared, channel, broker, elVars,
         pmVars, pubVars
<1>33. ASSUME NEW p \in Publishers, PublisherReturns(p) PROVE PublisherInv'
  BY <1>33 DEF PublisherReturns, shared, channel, broker, elVars, mtVars, pmVars
<1>34. ASSUME NEW p \in Publishers, PublisherDropped(p) PROVE PublisherInv'
  BY <1>34 DEF PublisherDropped, shared, channel, broker, elVars, mtVars, pmVars
<1>35. CASE Signal
  BY <1>35 DEF Signal, shared, channel, broker, elVars, mtVars, pmVars, pubVars
<1>36. CASE SetStopFlag
  BY <1>36 DEF SetStopFlag, channel, broker, elVars, mtVars, pmVars, pubVars
<1>37. CASE SendStopping
  BY <1>37 DEF SendStopping, Send, shared, channel, broker, elVars, mtVars, pmVars,
         pubVars
<1>38. CASE SeeStoppedTask
  BY <1>38 DEF SeeStoppedTask, shared, channel, broker, elVars, mtVars, pmVars, pubVars
<1>39. CASE CancelEventLoop
  BY <1>39 DEF CancelEventLoop, shared, channel, broker, mtVars, pmVars, pubVars
<1>40. CASE ForceStop
  BY <1>40 DEF ForceStop, shared, channel, broker, elVars, pmVars, pubVars
<1>41. CASE UNCHANGED vars
  BY <1>41 DEF vars, shared, channel, broker, elVars, mtVars, pmVars, pubVars
<1>42. QED
  BY <1>1, <1>2, <1>3, <1>4, <1>5, <1>6, <1>7, <1>8, <1>9, <1>10, <1>11, <1>12, <1>13,
     <1>14, <1>15, <1>16, <1>17, <1>18, <1>19, <1>20, <1>21, <1>22, <1>23, <1>24, <1>25,
     <1>26, <1>27, <1>28, <1>29, <1>30, <1>31, <1>32, <1>33, <1>34, <1>35, <1>36, <1>37,
     <1>38, <1>39, <1>40, <1>41
  DEF Next, EventLoop, MessageTraffic, PublisherTask, StopTask

\* The two halves of a task's read-modify-write of stopped_tasks invent no bit.
LEMMA StoppedStep == StoppedInv /\ [Next]_vars => StoppedInv'
<1> SUFFICES ASSUME StoppedInv, [Next]_vars PROVE StoppedInv'
  OBVIOUS
<1> USE DEF StoppedInv
<1>1. CASE StartUp
  BY <1>1 DEF StartUp, shared, channel, broker, pmVars, pubVars
<1>2. CASE StartUpCancelled
  BY <1>2 DEF StartUpCancelled, shared, channel, broker, mtVars, pmVars, pubVars
<1>3. CASE ConnAck
  BY <1>3 DEF ConnAck, Polled, channel, mtVars, pmVars, pubVars
<1>4. CASE ConnectFails
  BY <1>4 DEF ConnectFails, Polled, got_disconnected, channel, broker, mtVars, pmVars,
         pubVars
<1>5. CASE ConnectionRefused
  BY <1>5 DEF ConnectionRefused, Polled, shared, channel, broker, mtVars, pmVars,
         pubVars
<1>6. CASE IncomingPublish
  BY <1>6 DEF IncomingPublish, Polled, shared, channel, broker, mtVars, pmVars, pubVars
<1>7. CASE IncomingDisconnect
  BY <1>7 DEF IncomingDisconnect, Polled, got_disconnected, channel, mtVars, pmVars,
         pubVars
<1>8. CASE LinkError
  BY <1>8 DEF LinkError, Polled, got_disconnected, channel, mtVars, pmVars, pubVars
<1>9. CASE StateError
  BY <1>9 DEF StateError, Polled, got_disconnected, channel, mtVars, pmVars, pubVars
<1>10. CASE OutgoingDisconnect
  BY <1>10 DEF OutgoingDisconnect, Polled, shared, channel, mtVars, pmVars, pubVars
<1>11. CASE OtherEvent
  BY <1>11 DEF OtherEvent, Polled, shared, channel, broker, mtVars, pmVars, pubVars
<1>12. CASE SendEvent
  BY <1>12 DEF SendEvent, Send, TrafficAlive, shared, channel, broker, mtVars, pmVars,
         pubVars
<1>13. CASE WakeUp
  BY <1>13 DEF WakeUp, shared, channel, broker, mtVars, pmVars, pubVars
<1>14. CASE LoopRefused
  BY <1>14 DEF LoopRefused, shared, channel, broker, mtVars, pmVars, pubVars
<1>15. CASE LoopLoadsStopped
  BY <1>15 DEF LoopLoadsStopped, shared, channel, broker, mtVars, pmVars, pubVars
<1>16. CASE LoopStoresStopped
  BY <1>16 DEF LoopStoresStopped, channel, broker, mtVars, pmVars, pubVars
<1>17. CASE Exit
  BY <1>17 DEF Exit, shared, channel, broker, mtVars, pmVars, pubVars
<1>18. CASE TakeMessage
  BY <1>18 DEF TakeMessage, TrafficGoes, ProcessRuns, shared, broker, elVars, pmVars,
         pubVars
<1>19. CASE TrafficRefused
  BY <1>19 DEF TrafficRefused, TrafficGoes, ProcessRuns, shared, channel, broker,
         elVars, pmVars, pubVars
<1>20. CASE set_healthy_shared
  BY <1>20 DEF set_healthy_shared, TrafficGoes, ProcessRuns, channel, broker, elVars,
         pmVars, pubVars
<1>21. CASE StatusUnchanged
  BY <1>21 DEF StatusUnchanged, TrafficGoes, AfterStatus, StatusMessage, ProcessRuns,
         shared, channel, broker, elVars, pmVars, pubVars
<1>22. CASE StatusWithoutPublisher
  BY <1>22 DEF StatusWithoutPublisher, TrafficGoes, StatusDealtWith, AfterStatus,
         StatusMessage, ProcessRuns, shared, channel, broker, elVars, pubVars
<1>23. CASE CancelPublisher
  BY <1>23 DEF CancelPublisher, TrafficGoes, StatusMessage, ProcessRuns, shared,
         channel, broker, elVars
<1>24. CASE JoinFinished
  BY <1>24 DEF JoinFinished, TrafficGoes, StatusDealtWith, AfterStatus, StatusMessage,
         ProcessRuns, shared, channel, broker, elVars
<1>25. CASE JoinTimesOut
  BY <1>25 DEF JoinTimesOut, TrafficGoes, StatusDealtWith, AfterStatus, StatusMessage,
         ProcessRuns, shared, channel, broker, elVars
<1>26. ASSUME NEW p \in Publishers, InitializeAndSpawn(p) PROVE StoppedInv'
  BY <1>26 DEF InitializeAndSpawn, TrafficGoes, AfterStatus, ProcessRuns, shared,
         channel, broker, elVars
<1>27. CASE DealWithCommand
  BY <1>27 DEF DealWithCommand, TrafficGoes, ProcessRuns, shared, channel, broker,
         elVars, pmVars, pubVars
<1>28. CASE MakeUnavailable
  BY <1>28 DEF MakeUnavailable, TrafficGoes, ProcessRuns, shared, channel, broker,
         elVars, pmVars, pubVars
<1>29. CASE StopPublishingAndDisconnect
  BY <1>29 DEF StopPublishingAndDisconnect, TrafficGoes, ProcessRuns, shared, channel,
         elVars
<1>30. CASE TrafficLoadsStopped
  BY <1>30 DEF TrafficLoadsStopped, TrafficGoes, ProcessRuns, shared, channel, broker,
         elVars, pmVars, pubVars
<1>31. CASE TrafficStoresStopped
  BY <1>31 DEF TrafficStoresStopped, TrafficGoes, ProcessRuns, channel, broker, elVars,
         pmVars, pubVars
<1>32. CASE TrafficFails
  BY <1>32 DEF TrafficFails, TrafficGoes, ProcessRuns, StepFails, shared, channel,
         broker, elVars, pmVars, pubVars
<1>33. ASSUME NEW p \in Publishers, PublisherReturns(p) PROVE StoppedInv'
  BY <1>33 DEF PublisherReturns, ProcessRuns, shared, channel, broker, elVars, mtVars,
         pmVars
<1>34. ASSUME NEW p \in Publishers, PublisherDropped(p) PROVE StoppedInv'
  BY <1>34 DEF PublisherDropped, ProcessRuns, shared, channel, broker, elVars, mtVars,
         pmVars
<1>35. CASE Signal
  BY <1>35 DEF Signal, ProcessRuns, shared, channel, broker, elVars, mtVars, pmVars,
         pubVars
<1>36. CASE SetStopFlag
  BY <1>36 DEF SetStopFlag, ProcessRuns, channel, broker, elVars, mtVars, pmVars,
         pubVars
<1>37. CASE SendStopping
  BY <1>37 DEF SendStopping, Send, TrafficAlive, ProcessRuns, shared, channel, broker,
         elVars, mtVars, pmVars, pubVars
<1>38. CASE SeeStoppedTask
  BY <1>38 DEF SeeStoppedTask, ProcessRuns, shared, channel, broker, elVars, mtVars,
         pmVars, pubVars
<1>39. CASE CancelEventLoop
  BY <1>39 DEF CancelEventLoop, ProcessRuns, shared, channel, broker, mtVars, pmVars,
         pubVars
<1>40. CASE ForceStop
  BY <1>40 DEF ForceStop, ProcessRuns, shared, channel, broker, elVars, pmVars, pubVars
<1>41. CASE UNCHANGED vars
  BY <1>41 DEF vars, shared, channel, broker, elVars, mtVars, pmVars, pubVars
<1>42. QED
  BY <1>1, <1>2, <1>3, <1>4, <1>5, <1>6, <1>7, <1>8, <1>9, <1>10, <1>11, <1>12, <1>13,
     <1>14, <1>15, <1>16, <1>17, <1>18, <1>19, <1>20, <1>21, <1>22, <1>23, <1>24, <1>25,
     <1>26, <1>27, <1>28, <1>29, <1>30, <1>31, <1>32, <1>33, <1>34, <1>35, <1>36, <1>37,
     <1>38, <1>39, <1>40, <1>41
  DEF Next, EventLoop, MessageTraffic, PublisherTask, StopTask

\* The loop is the only one to change the connected flag and to send statuses.
LEMMA ChannelStep == TypeOK /\ StoppedInv /\ ChannelInv /\ [Next]_vars => ChannelInv'
<1> SUFFICES ASSUME TypeOK, StoppedInv, ChannelInv, [Next]_vars PROVE ChannelInv'
  OBVIOUS
<1> USE DEF TypeOK, Connection, LoopMessages, Messages, StoppedInv, ChannelInv,
            ChannelFollowsConnection, TrafficAlive
<1>1. CASE StartUp
  BY <1>1 DEF StartUp, shared, channel, broker, pmVars, pubVars
<1>2. CASE StartUpCancelled
  BY <1>2 DEF StartUpCancelled, shared, channel, broker, mtVars, pmVars, pubVars
<1>3. CASE ConnAck
  BY <1>3 DEF ConnAck, Polled, channel, mtVars, pmVars, pubVars
<1>4. CASE ConnectFails
  BY <1>4 DEF ConnectFails, Polled, got_disconnected, channel, broker, mtVars, pmVars,
         pubVars
<1>5. CASE ConnectionRefused
  BY <1>5 DEF ConnectionRefused, Polled, shared, channel, broker, mtVars, pmVars,
         pubVars
<1>6. CASE IncomingPublish
  BY <1>6 DEF IncomingPublish, Polled, shared, channel, broker, mtVars, pmVars, pubVars
<1>7. CASE IncomingDisconnect
  BY <1>7 DEF IncomingDisconnect, Polled, got_disconnected, channel, mtVars, pmVars,
         pubVars
<1>8. CASE LinkError
  BY <1>8 DEF LinkError, Polled, got_disconnected, channel, mtVars, pmVars, pubVars
<1>9. CASE StateError
  BY <1>9 DEF StateError, Polled, got_disconnected, channel, mtVars, pmVars, pubVars
<1>10. CASE OutgoingDisconnect
  BY <1>10 DEF OutgoingDisconnect, Polled, shared, channel, mtVars, pmVars, pubVars
<1>11. CASE OtherEvent
  BY <1>11 DEF OtherEvent, Polled, shared, channel, broker, mtVars, pmVars, pubVars
<1>12. CASE SendEvent
  BY <1>12 DEF SendEvent, Send, shared, channel, broker, mtVars, pmVars, pubVars
<1>13. CASE WakeUp
  BY <1>13 DEF WakeUp, shared, channel, broker, mtVars, pmVars, pubVars
<1>14. CASE LoopRefused
  BY <1>14 DEF LoopRefused, shared, channel, broker, mtVars, pmVars, pubVars
<1>15. CASE LoopLoadsStopped
  BY <1>15 DEF LoopLoadsStopped, shared, channel, broker, mtVars, pmVars, pubVars
<1>16. CASE LoopStoresStopped
  BY <1>16 DEF LoopStoresStopped, channel, broker, mtVars, pmVars, pubVars
<1>17. CASE Exit
  BY <1>17 DEF Exit, shared, channel, broker, mtVars, pmVars, pubVars
<1>18. CASE TakeMessage
  BY <1>18 DEF TakeMessage, TrafficGoes, shared, broker, elVars, pmVars, pubVars
<1>19. CASE TrafficRefused
  BY <1>19 DEF TrafficRefused, TrafficGoes, shared, channel, broker, elVars, pmVars,
         pubVars
<1>20. CASE set_healthy_shared
  BY <1>20 DEF set_healthy_shared, TrafficGoes, channel, broker, elVars, pmVars, pubVars
<1>21. CASE StatusUnchanged
  BY <1>21 DEF StatusUnchanged, TrafficGoes, AfterStatus, StatusMessage, shared,
         channel, broker, elVars, pmVars, pubVars
<1>22. CASE StatusWithoutPublisher
  BY <1>22 DEF StatusWithoutPublisher, TrafficGoes, StatusDealtWith, AfterStatus,
         StatusMessage, shared, channel, broker, elVars, pubVars
<1>23. CASE CancelPublisher
  BY <1>23 DEF CancelPublisher, TrafficGoes, StatusMessage, shared, channel, broker,
         elVars
<1>24. CASE JoinFinished
  BY <1>24 DEF JoinFinished, TrafficGoes, StatusDealtWith, AfterStatus, StatusMessage,
         shared, channel, broker, elVars
<1>25. CASE JoinTimesOut
  BY <1>25 DEF JoinTimesOut, TrafficGoes, StatusDealtWith, AfterStatus, StatusMessage,
         shared, channel, broker, elVars
<1>26. ASSUME NEW p \in Publishers, InitializeAndSpawn(p) PROVE ChannelInv'
  BY <1>26 DEF InitializeAndSpawn, TrafficGoes, AfterStatus, shared, channel, broker,
         elVars
<1>27. CASE DealWithCommand
  BY <1>27 DEF DealWithCommand, TrafficGoes, shared, channel, broker, elVars, pmVars,
         pubVars
<1>28. CASE MakeUnavailable
  BY <1>28 DEF MakeUnavailable, TrafficGoes, shared, channel, broker, elVars, pmVars,
         pubVars
<1>29. CASE StopPublishingAndDisconnect
  BY <1>29 DEF StopPublishingAndDisconnect, TrafficGoes, shared, channel, elVars
<1>30. CASE TrafficLoadsStopped
  BY <1>30 DEF TrafficLoadsStopped, TrafficGoes, shared, channel, broker, elVars,
         pmVars, pubVars
<1>31. CASE TrafficStoresStopped
  BY <1>31 DEF TrafficStoresStopped, TrafficGoes, channel, broker, elVars, pmVars,
         pubVars
<1>32. CASE TrafficFails
  BY <1>32 DEF TrafficFails, TrafficGoes, StepFails, shared, channel, broker, elVars,
         pmVars, pubVars
<1>33. ASSUME NEW p \in Publishers, PublisherReturns(p) PROVE ChannelInv'
  BY <1>33 DEF PublisherReturns, shared, channel, broker, elVars, mtVars, pmVars
<1>34. ASSUME NEW p \in Publishers, PublisherDropped(p) PROVE ChannelInv'
  BY <1>34 DEF PublisherDropped, shared, channel, broker, elVars, mtVars, pmVars
<1>35. CASE Signal
  BY <1>35 DEF Signal, shared, channel, broker, elVars, mtVars, pmVars, pubVars
<1>36. CASE SetStopFlag
  BY <1>36 DEF SetStopFlag, channel, broker, elVars, mtVars, pmVars, pubVars
<1>37. CASE SendStopping
  BY <1>37 DEF SendStopping, Send, shared, channel, broker, elVars, mtVars, pmVars,
         pubVars
<1>38. CASE SeeStoppedTask
  BY <1>38 DEF SeeStoppedTask, shared, channel, broker, elVars, mtVars, pmVars, pubVars
<1>39. CASE CancelEventLoop
  BY <1>39 DEF CancelEventLoop, shared, channel, broker, mtVars, pmVars, pubVars
<1>40. CASE ForceStop
  BY <1>40 DEF ForceStop, shared, channel, broker, elVars, pmVars, pubVars
<1>41. CASE UNCHANGED vars
  BY <1>41 DEF vars, shared, channel, broker, elVars, mtVars, pmVars, pubVars
<1>42. QED
  BY <1>1, <1>2, <1>3, <1>4, <1>5, <1>6, <1>7, <1>8, <1>9, <1>10, <1>11, <1>12, <1>13,
     <1>14, <1>15, <1>16, <1>17, <1>18, <1>19, <1>20, <1>21, <1>22, <1>23, <1>24, <1>25,
     <1>26, <1>27, <1>28, <1>29, <1>30, <1>31, <1>32, <1>33, <1>34, <1>35, <1>36, <1>37,
     <1>38, <1>39, <1>40, <1>41
  DEF Next, EventLoop, MessageTraffic, PublisherTask, StopTask

\* What the traffic task applies is what it last took.
LEMMA StatusStep == TypeOK /\ PublisherInv /\ StoppedInv /\ StatusInv /\ [Next]_vars => StatusInv'
<1> SUFFICES ASSUME TypeOK, PublisherInv, StoppedInv, StatusInv, [Next]_vars PROVE StatusInv'
  OBVIOUS
<1> USE DEF TypeOK, Messages, StatusInv, PublisherInv, StoppedInv, Handling, HandlesStop
<1>1. CASE StartUp
  BY <1>1 DEF StartUp, shared, channel, broker, pmVars, pubVars
<1>2. CASE StartUpCancelled
  BY <1>2 DEF StartUpCancelled, shared, channel, broker, mtVars, pmVars, pubVars
<1>3. CASE ConnAck
  BY <1>3 DEF ConnAck, Polled, channel, mtVars, pmVars, pubVars
<1>4. CASE ConnectFails
  BY <1>4 DEF ConnectFails, Polled, got_disconnected, channel, broker, mtVars, pmVars,
         pubVars
<1>5. CASE ConnectionRefused
  BY <1>5 DEF ConnectionRefused, Polled, shared, channel, broker, mtVars, pmVars,
         pubVars
<1>6. CASE IncomingPublish
  BY <1>6 DEF IncomingPublish, Polled, shared, channel, broker, mtVars, pmVars, pubVars
<1>7. CASE IncomingDisconnect
  BY <1>7 DEF IncomingDisconnect, Polled, got_disconnected, channel, mtVars, pmVars,
         pubVars
<1>8. CASE LinkError
  BY <1>8 DEF LinkError, Polled, got_disconnected, channel, mtVars, pmVars, pubVars
<1>9. CASE StateError
  BY <1>9 DEF StateError, Polled, got_disconnected, channel, mtVars, pmVars, pubVars
<1>10. CASE OutgoingDisconnect
  BY <1>10 DEF OutgoingDisconnect, Polled, shared, channel, mtVars, pmVars, pubVars
<1>11. CASE OtherEvent
  BY <1>11 DEF OtherEvent, Polled, shared, channel, broker, mtVars, pmVars, pubVars
<1>12. CASE SendEvent
  BY <1>12 DEF SendEvent, Send, TrafficAlive, shared, channel, broker, mtVars, pmVars,
         pubVars
<1>13. CASE WakeUp
  BY <1>13 DEF WakeUp, shared, channel, broker, mtVars, pmVars, pubVars
<1>14. CASE LoopRefused
  BY <1>14 DEF LoopRefused, shared, channel, broker, mtVars, pmVars, pubVars
<1>15. CASE LoopLoadsStopped
  BY <1>15 DEF LoopLoadsStopped, shared, channel, broker, mtVars, pmVars, pubVars
<1>16. CASE LoopStoresStopped
  BY <1>16 DEF LoopStoresStopped, channel, broker, mtVars, pmVars, pubVars
<1>17. CASE Exit
  BY <1>17 DEF Exit, shared, channel, broker, mtVars, pmVars, pubVars
<1>18. CASE TakeMessage
  BY <1>18 DEF TakeMessage, TrafficGoes, ProcessRuns, shared, broker, elVars, pmVars,
         pubVars
<1>19. CASE TrafficRefused
  BY <1>19 DEF TrafficRefused, TrafficGoes, ProcessRuns, shared, channel, broker,
         elVars, pmVars, pubVars
<1>20. CASE set_healthy_shared
  BY <1>20 DEF set_healthy_shared, TrafficGoes, ProcessRuns, channel, broker, elVars,
         pmVars, pubVars
<1>21. CASE StatusUnchanged
  BY <1>21 DEF StatusUnchanged, TrafficGoes, AfterStatus, StatusMessage, ProcessRuns,
         shared, channel, broker, elVars, pmVars, pubVars
<1>22. CASE StatusWithoutPublisher
  BY <1>22 DEF StatusWithoutPublisher, TrafficGoes, StatusDealtWith, AfterStatus,
         StatusMessage, ProcessRuns, shared, channel, broker, elVars, pubVars
<1>23. CASE CancelPublisher
  BY <1>23 DEF CancelPublisher, TrafficGoes, StatusMessage, ProcessRuns, shared,
         channel, broker, elVars
<1>24. CASE JoinFinished
  BY <1>24 DEF JoinFinished, TrafficGoes, StatusDealtWith, AfterStatus, StatusMessage,
         ProcessRuns, shared, channel, broker, elVars
<1>25. CASE JoinTimesOut
  BY <1>25 DEF JoinTimesOut, TrafficGoes, StatusDealtWith, AfterStatus, StatusMessage,
         ProcessRuns, shared, channel, broker, elVars
<1>26. ASSUME NEW p \in Publishers, InitializeAndSpawn(p) PROVE StatusInv'
  BY <1>26 DEF InitializeAndSpawn, TrafficGoes, AfterStatus, ProcessRuns, shared,
         channel, broker, elVars
<1>27. CASE DealWithCommand
  BY <1>27 DEF DealWithCommand, TrafficGoes, ProcessRuns, shared, channel, broker,
         elVars, pmVars, pubVars
<1>28. CASE MakeUnavailable
  BY <1>28 DEF MakeUnavailable, TrafficGoes, ProcessRuns, shared, channel, broker,
         elVars, pmVars, pubVars
<1>29. CASE StopPublishingAndDisconnect
  BY <1>29 DEF StopPublishingAndDisconnect, TrafficGoes, ProcessRuns, shared, channel,
         elVars
<1>30. CASE TrafficLoadsStopped
  BY <1>30 DEF TrafficLoadsStopped, TrafficGoes, ProcessRuns, shared, channel, broker,
         elVars, pmVars, pubVars
<1>31. CASE TrafficStoresStopped
  BY <1>31 DEF TrafficStoresStopped, TrafficGoes, ProcessRuns, channel, broker, elVars,
         pmVars, pubVars
<1>32. CASE TrafficFails
  BY <1>32 DEF TrafficFails, TrafficGoes, ProcessRuns, StepFails, shared, channel,
         broker, elVars, pmVars, pubVars
<1>33. ASSUME NEW p \in Publishers, PublisherReturns(p) PROVE StatusInv'
  BY <1>33 DEF PublisherReturns, ProcessRuns, shared, channel, broker, elVars, mtVars,
         pmVars
<1>34. ASSUME NEW p \in Publishers, PublisherDropped(p) PROVE StatusInv'
  BY <1>34 DEF PublisherDropped, ProcessRuns, shared, channel, broker, elVars, mtVars,
         pmVars
<1>35. CASE Signal
  BY <1>35 DEF Signal, ProcessRuns, shared, channel, broker, elVars, mtVars, pmVars,
         pubVars
<1>36. CASE SetStopFlag
  BY <1>36 DEF SetStopFlag, ProcessRuns, channel, broker, elVars, mtVars, pmVars,
         pubVars
<1>37. CASE SendStopping
  BY <1>37 DEF SendStopping, Send, TrafficAlive, ProcessRuns, shared, channel, broker,
         elVars, mtVars, pmVars, pubVars
<1>38. CASE SeeStoppedTask
  BY <1>38 DEF SeeStoppedTask, ProcessRuns, shared, channel, broker, elVars, mtVars,
         pmVars, pubVars
<1>39. CASE CancelEventLoop
  BY <1>39 DEF CancelEventLoop, ProcessRuns, shared, channel, broker, mtVars, pmVars,
         pubVars
<1>40. CASE ForceStop
  BY <1>40 DEF ForceStop, ProcessRuns, shared, channel, broker, elVars, pmVars, pubVars
<1>41. CASE UNCHANGED vars
  BY <1>41 DEF vars, shared, channel, broker, elVars, mtVars, pmVars, pubVars
<1>42. QED
  BY <1>1, <1>2, <1>3, <1>4, <1>5, <1>6, <1>7, <1>8, <1>9, <1>10, <1>11, <1>12, <1>13,
     <1>14, <1>15, <1>16, <1>17, <1>18, <1>19, <1>20, <1>21, <1>22, <1>23, <1>24, <1>25,
     <1>26, <1>27, <1>28, <1>29, <1>30, <1>31, <1>32, <1>33, <1>34, <1>35, <1>36, <1>37,
     <1>38, <1>39, <1>40, <1>41
  DEF Next, EventLoop, MessageTraffic, PublisherTask, StopTask

\* The inductive invariant, whatever the broker, the signals and the timeouts do.
THEOREM ManagerSafe == Spec => []ManagerInv
<1>1. Init => ManagerInv
  BY ManagerAssumption
  DEF Init, ManagerInv, PublisherInv, AtMostOnePublisher, Live, Handling, HandlesStop,
      StoppedInv, ChannelInv, ChannelFollowsConnection, StatusInv, TrafficAlive
<1>2. TypeOK /\ ManagerInv /\ [Next]_vars => ManagerInv'
  BY PublisherStep, StoppedStep, ChannelStep, StatusStep DEF ManagerInv
<1>3. QED
  BY <1>1, <1>2, TypeCorrect, PTL DEF Spec

\* At most one publisher goes on publishing.
THEOREM OnePublisher == Spec => []AtMostOnePublisher
<1>1. ManagerInv => AtMostOnePublisher
  BY DEF ManagerInv, PublisherInv
<1>2. QED
  BY <1>1, ManagerSafe, PTL

\* Between messages PublishManager's three fields agree with its publisher.
THEOREM ManagerAgrees == Spec => []ManagerMatchesPublisher
<1>1. ManagerInv => ManagerMatchesPublisher
  BY DEF ManagerInv, PublisherInv, Handling, TrafficAlive, ManagerMatchesPublisher
<1>2. QED
  BY <1>1, ManagerSafe, PTL

\* The last status taken is the one in effect.
THEOREM StatusApplied == Spec => []LastStatusIsApplied
<1>1. ManagerInv => LastStatusIsApplied
  BY DEF ManagerInv, StatusInv, LastStatusIsApplied
<1>2. QED
  BY <1>1, ManagerSafe, PTL

\* The channel's status is the connection's, but while the loop is sending.
THEOREM ChannelFollows == Spec => []ChannelFollowsConnection
<1>1. ManagerInv => ChannelFollowsConnection
  BY DEF ManagerInv, ChannelInv
<1>2. QED
  BY <1>1, ManagerSafe, PTL

\* Nothing is published past a Disconnect or past the traffic task's bit, even
\* though the bits are stored without compare-and-swap.
THEOREM QuietStop == Spec => []QuietOnceStopped
<1>1. ManagerInv => QuietOnceStopped
  BY DEF ManagerInv, PublisherInv, HandlesStop, StoppedInv, QuietOnceStopped
<1>2. QED
  BY <1>1, ManagerSafe, PTL

supervised == <<mt, mtMsg, healthy, pmVars, pubVars>>

\* The event loop and the stop task leave alone what the supervisor is made of,
\* once the event loop has spawned the traffic task.
LEMMA OthersStayOut ==
  EventLoop \/ StopTask => StartUp \/ UNCHANGED supervised
<1>1. EventLoop => StartUp \/ UNCHANGED supervised
  BY DEF EventLoop, StartUpCancelled, ConnAck, ConnectFails, ConnectionRefused,
         IncomingPublish, IncomingDisconnect, LinkError, StateError, OutgoingDisconnect,
         OtherEvent, SendEvent, WakeUp, LoopRefused, LoopLoadsStopped,
         LoopStoresStopped, Exit, shared, mtVars, pmVars, pubVars, supervised
<1>2. StopTask => UNCHANGED supervised
  BY DEF StopTask, Signal, SetStopFlag, SendStopping, SeeStoppedTask, CancelEventLoop,
         ForceStop, shared, mtVars, pmVars, pubVars, supervised
<1>3. QED
  BY <1>1, <1>2

\* A status is in force when the next message is taken.
LEMMA InForceStep == TypeOK /\ ManagerInv /\ InForceInv /\ [Next]_vars => InForceInv'
<1> SUFFICES ASSUME TypeOK, ManagerInv, InForceInv, [Next]_vars PROVE InForceInv'
  OBVIOUS
<1> USE ManagerAssumption
        DEF TypeOK, Messages, ManagerInv, PublisherInv, StatusInv, StoppedInv, InForceInv,
            Handling, HandlesStop, Live, TrafficAlive
<1>1. CASE UNCHANGED supervised
  BY <1>1 DEF supervised, pmVars, pubVars
<1>2. CASE StartUp
  BY <1>2 DEF StartUp, shared, pmVars, pubVars
<1>3. CASE TakeMessage
  BY <1>3 DEF TakeMessage, TrafficGoes, shared, pmVars, pubVars
<1>4. CASE TrafficRefused
  BY <1>4 DEF TrafficRefused, TrafficGoes, shared, pmVars, pubVars
<1>5. CASE set_healthy_shared
  BY <1>5 DEF set_healthy_shared, TrafficGoes, pmVars, pubVars
<1>6. CASE StatusUnchanged
  BY <1>6 DEF StatusUnchanged, TrafficGoes, AfterStatus, StatusMessage, shared, pmVars,
         pubVars
<1>7. CASE StatusWithoutPublisher
  BY <1>7 DEF StatusWithoutPublisher, StatusDealtWith, TrafficGoes, AfterStatus,
         StatusMessage, shared, pubVars
<1>8. CASE CancelPublisher
  BY <1>8 DEF CancelPublisher, TrafficGoes, StatusMessage, shared
<1>9. CASE JoinFinished
  BY <1>9 DEF JoinFinished, StatusDealtWith, TrafficGoes, AfterStatus, StatusMessage,
         shared
<1>10. CASE JoinTimesOut
  BY <1>10 DEF JoinTimesOut, StatusDealtWith, TrafficGoes, AfterStatus, StatusMessage,
         shared
<1>11. ASSUME NEW p \in Publishers, InitializeAndSpawn(p) PROVE InForceInv'
  BY <1>11 DEF InitializeAndSpawn, TrafficGoes, AfterStatus, shared
<1>12. CASE DealWithCommand
  BY <1>12 DEF DealWithCommand, TrafficGoes, shared, pmVars, pubVars
<1>13. CASE MakeUnavailable
  BY <1>13 DEF MakeUnavailable, TrafficGoes, shared, pmVars, pubVars
<1>14. CASE StopPublishingAndDisconnect
  BY <1>14 DEF StopPublishingAndDisconnect, TrafficGoes, shared
<1>15. CASE TrafficLoadsStopped
  BY <1>15 DEF TrafficLoadsStopped, TrafficGoes, shared, pmVars, pubVars
<1>16. CASE TrafficStoresStopped
  BY <1>16 DEF TrafficStoresStopped, TrafficGoes, pmVars, pubVars
<1>17. CASE TrafficFails
  BY <1>17 DEF TrafficFails, StepFails, TrafficGoes, shared, pmVars, pubVars
<1>18. ASSUME NEW p \in Publishers, PublisherTask(p) PROVE InForceInv'
  BY <1>18 DEF PublisherTask, PublisherReturns, PublisherDropped, shared, mtVars, pmVars
<1>19. CASE UNCHANGED vars
  BY <1>19 DEF vars, shared, mtVars, pmVars, pubVars
<1>20. QED
  BY <1>1, <1>2, <1>3, <1>4, <1>5, <1>6, <1>7, <1>8, <1>9, <1>10, <1>11, <1>12, <1>13,
     <1>14, <1>15, <1>16, <1>17, <1>18, <1>19, OthersStayOut
  DEF Next, MessageTraffic

\* Between messages the manager's publisher lives and health says so.
THEOREM InForce == Spec => []InForceInv
<1>1. Init => InForceInv
  BY DEF Init, InForceInv, Handling
<1>2. QED
  BY <1>1, InForceStep, TypeCorrect, ManagerSafe, PTL DEF Spec

\* The tasks implement the supervisor: every step of theirs is one of its steps or
\* leaves health, the publishers that go on, and the status taken as they are.
THEOREM TasksImplementSupervisor == Spec => ImplementsSupervisor
<1>1. Init => Supervisor!SupervisorInit
  BY DEF Init, Supervisor!SupervisorInit, Told, Phase, Serving, Live
<1>2. TypeOK /\ ManagerInv /\ InForceInv /\ [Next]_vars
        => [Supervisor!SupervisorNext]_(Supervisor!supervisorVars)
  <2> SUFFICES ASSUME TypeOK, ManagerInv, InForceInv, [Next]_vars
               PROVE  \/ Supervisor!SupervisorNext
                      \/ UNCHANGED <<Told, healthy, Serving, Phase>>
    BY DEF Supervisor!supervisorVars, Serving
  <2> USE ManagerAssumption
          DEF TypeOK, Messages, ManagerInv, PublisherInv, StatusInv, StoppedInv,
              InForceInv, Handling, HandlesStop, Live, TrafficAlive, Told, Phase, Serving
  <2>1. CASE UNCHANGED supervised
    BY <2>1 DEF supervised, pmVars, pubVars
  <2>2. CASE StartUp
    BY <2>2 DEF StartUp, shared, pmVars, pubVars
  <2>3. CASE TakeMessage
    <3>1. UNCHANGED <<Serving, healthy>> /\ Phase = "working" /\ Phase' = "working"
      BY <2>3 DEF TakeMessage, TrafficGoes, shared, pmVars, pubVars
    <3>2. CASE chan = "message"
      BY <2>3, <3>1, <3>2 DEF TakeMessage, TrafficGoes, shared, pmVars, pubVars
    <3>3. CASE chan # "message"
      <4>1. Told # "stopping" /\ Told' = chan
        BY <2>3, <3>3 DEF TakeMessage, TrafficGoes
      <4>2. Supervisor!InForce
        BY <2>3 DEF TakeMessage, Supervisor!InForce
      <4>3. Supervisor!Take(chan)
        BY <3>1, <4>1, <4>2 DEF Supervisor!Take
      <4>4. QED
        BY <3>3, <4>3 DEF Supervisor!SupervisorNext
    <3>4. QED
      BY <3>2, <3>3
  <2>4. CASE TrafficRefused
    BY <2>4 DEF TrafficRefused, TrafficGoes, shared, pmVars, pubVars,
           Supervisor!SupervisorNext, Supervisor!Fail
  <2>5. CASE set_healthy_shared
    BY <2>5 DEF set_healthy_shared, TrafficGoes, pmVars, pubVars,
           Supervisor!SupervisorNext, Supervisor!SayHealth
  <2>6. CASE StatusUnchanged
    BY <2>6 DEF StatusUnchanged, TrafficGoes, AfterStatus, shared, pmVars, pubVars
  <2>7. CASE StatusWithoutPublisher
    BY <2>7 DEF StatusWithoutPublisher, StatusDealtWith, TrafficGoes, AfterStatus,
           shared, pubVars
  <2>8. CASE CancelPublisher
    BY <2>8 DEF CancelPublisher, TrafficGoes, shared
  <2>9. CASE JoinFinished
    BY <2>9 DEF JoinFinished, StatusDealtWith, TrafficGoes, AfterStatus, shared
  <2>10. CASE JoinTimesOut
    <3>1. PICK q \in Publishers : q = join_handle
      BY <2>10 DEF JoinTimesOut
    <3>2. CASE Live(q)
      <4>1. Serving' = Serving \ {q}
        BY <2>10, <3>1 DEF JoinTimesOut
      <4>2. Supervisor!Retire(q)
        BY <2>10, <3>1, <3>2, <4>1 DEF JoinTimesOut, StatusDealtWith, TrafficGoes,
                   AfterStatus, shared, Supervisor!Retire
      <4>3. Supervisor!SupervisorNext
        BY ONLY <4>2 DEF Supervisor!SupervisorNext
      <4>4. QED
        BY <4>3
    <3>3. CASE ~Live(q)
      BY <2>10, <3>1, <3>3 DEF JoinTimesOut, StatusDealtWith, TrafficGoes, AfterStatus,
                   shared
    <3>4. QED
      BY <3>2, <3>3
  <2>11. ASSUME NEW p \in Publishers, InitializeAndSpawn(p) PROVE Supervisor!SupervisorNext
    <3>1. Serving = {} /\ Serving' = {p}
      BY <2>11 DEF InitializeAndSpawn
    <3>2. Supervisor!Start(p)
      BY <2>11, <3>1 DEF InitializeAndSpawn, TrafficGoes, AfterStatus, shared,
                 Supervisor!Start
    <3>3. QED
      BY <3>2 DEF Supervisor!SupervisorNext
  <2>12. CASE DealWithCommand
    BY <2>12 DEF DealWithCommand, TrafficGoes, shared, pmVars, pubVars
  <2>13. CASE MakeUnavailable
    BY <2>13 DEF MakeUnavailable, TrafficGoes, shared, pmVars, pubVars
  <2>14. CASE StopPublishingAndDisconnect
    <3>1. Serving = {} /\ Serving' = {}
      BY <2>14 DEF StopPublishingAndDisconnect
    <3>2. Supervisor!Close
      BY <2>14, <3>1 DEF StopPublishingAndDisconnect, TrafficGoes, shared,
                 Supervisor!Close
    <3>3. QED
      BY <3>2 DEF Supervisor!SupervisorNext
  <2>15. CASE TrafficLoadsStopped
    BY <2>15 DEF TrafficLoadsStopped, TrafficGoes, shared, pmVars, pubVars
  <2>16. CASE TrafficStoresStopped
    BY <2>16 DEF TrafficStoresStopped, TrafficGoes, pmVars, pubVars
  <2>17. CASE TrafficFails
    BY <2>17 DEF TrafficFails, StepFails, TrafficGoes, shared, pmVars, pubVars,
           Supervisor!SupervisorNext, Supervisor!Fail
  <2>18. ASSUME NEW p \in Publishers, PublisherReturns(p)
         PROVE  Supervisor!SupervisorNext \/ UNCHANGED <<Told, healthy, Serving, Phase>>
    <3>1. CASE Live(p)
      <4>1. Serving' = Serving \ {p} /\ p \in Serving
        BY <2>18, <3>1 DEF PublisherReturns, pmVars
      <4>2. mt = "joining"
        BY <2>18, <3>1 DEF PublisherReturns, TrafficSteps
      <4>3. Supervisor!Retire(p)
        BY <2>18, <4>1, <4>2 DEF PublisherReturns, shared, mtVars, pmVars,
                   Supervisor!Retire
      <4>4. QED
        BY <4>3 DEF Supervisor!SupervisorNext
    <3>2. CASE ~Live(p)
      BY <2>18, <3>2 DEF PublisherReturns, shared, mtVars, pmVars
    <3>3. QED
      BY <3>1, <3>2
  <2>19. ASSUME NEW p \in Publishers, PublisherDropped(p)
         PROVE  UNCHANGED <<Told, healthy, Serving, Phase>>
    BY <2>19 DEF PublisherDropped, shared, mtVars, pmVars
  <2>20. CASE UNCHANGED vars
    BY <2>20 DEF vars, shared, mtVars, pmVars, pubVars
  <2>21. QED
    BY <2>1, <2>2, <2>3, <2>4, <2>5, <2>6, <2>7, <2>8, <2>9, <2>10, <2>11, <2>12, <2>13,
       <2>14, <2>15, <2>16, <2>17, <2>18, <2>19, <2>20, OthersStayOut
    DEF Next, MessageTraffic, PublisherTask
<1>3. QED
  BY <1>1, <1>2, TypeCorrect, ManagerSafe, InForce, PTL
  DEF Spec, ImplementsSupervisor, Supervisor!SupervisorSpec

================================================================================
