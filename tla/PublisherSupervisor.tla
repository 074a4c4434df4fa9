-------------------------- MODULE PublisherSupervisor --------------------------
(***************************************************************************)
(* What the message traffic task of device_manager.rs promises about       *)
(* health and publishers, without the watch channel, the join handles and  *)
(* token sources, the waits and their time limits: a status is taken only  *)
(* once the one before is in force, health is told before a publisher is   *)
(* retired or started, a publisher starts only when none is left, and the  *)
(* task closes the connection only once none is left. A task that fails    *)
(* leaves everything as it is, its publisher included.                     *)
(***************************************************************************)

CONSTANT Publishers   \* publisher tasks that may exist

VARIABLES told,       \* the last status the task has taken
          healthy,    \* what it has last said of health
          live,       \* the publishers that go on publishing
          phase       \* "working", "closed" (a stop dealt with) or "failed"

supervisorVars == <<told, healthy, live, phase>>

SupervisorInit ==
  /\ told = "disconnected"
  /\ healthy = FALSE
  /\ live = {}
  /\ phase = "working"

\* The last status is in force: health and a publisher exactly when connected.
InForce ==
  /\ healthy <=> told = "connected"
  /\ live # {} <=> told = "connected"

Take(status) ==
  /\ phase = "working"
  /\ told # "stopping"
  /\ InForce
  /\ told' = status
  /\ UNCHANGED <<healthy, live, phase>>

SayHealth ==
  /\ phase = "working"
  /\ told # "stopping"
  /\ healthy' = (told = "connected")
  /\ UNCHANGED <<told, live, phase>>

\* A publisher returns, or is given up, and nobody starts it again. Health is not
\* told of a stop.
Retire(p) ==
  /\ phase = "working"
  /\ told = "stopping" \/ (told = "disconnected" /\ ~healthy)
  /\ p \in live
  /\ live' = live \ {p}
  /\ UNCHANGED <<told, healthy, phase>>

Start(p) ==
  /\ phase = "working"
  /\ told = "connected" /\ healthy
  /\ live = {}
  /\ live' = {p}
  /\ UNCHANGED <<told, healthy, phase>>

Close ==
  /\ phase = "working"
  /\ told = "stopping"
  /\ live = {}
  /\ phase' = "closed"
  /\ UNCHANGED <<told, healthy, live>>

Fail ==
  /\ phase = "working"
  /\ phase' = "failed"
  /\ UNCHANGED <<told, healthy, live>>

SupervisorNext ==
  \/ \E status \in {"connected", "disconnected", "stopping"} : Take(status)
  \/ SayHealth
  \/ \E p \in Publishers : Retire(p) \/ Start(p)
  \/ Close
  \/ Fail

SupervisorSpec == SupervisorInit /\ [][SupervisorNext]_supervisorVars

================================================================================
