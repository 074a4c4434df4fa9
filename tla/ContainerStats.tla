----------------------------- MODULE ContainerStats -----------------------------
(* What a container's device says of its container (container_device.rs,    *)
(* ContainerStats and ContainerStatus): the share of the host's processor     *)
(* time between two samples, and the buttons that make sense.  Two readers    *)
(* (the publisher's stream and initialize()) share the last sample, while the *)
(* container is started, paused, restarted and stopped between their requests. *)
EXTENDS Integers

CONSTANTS
    Readers,
    MaxSystem,  \* bound on the host's processor time
    Envs,       \* what may go wrong: see Events
    None

\* fail: a request fails; stateless: an answer says nothing of the state.
Events == {"fail", "stateless"}

\* The flags of a container's state: none when it is created or has exited.  One
\* that is paused, or waits to be restarted, is running for Docker; Podman says
\* that it is paused only.
States == {{}, {"running"}, {"running", "paused"}, {"paused"}, {"running", "restarting"}}

\* A sample of a container that has stopped lacks the counters.
Samples == [complete : BOOLEAN, total : 0..MaxSystem, system : 0..MaxSystem]
Incomplete == [complete |-> FALSE, total |-> 0, system |-> 0]

ASSUME StatsAssumption ==
    /\ MaxSystem \in Nat
    /\ Envs \subseteq SUBSET Events
    /\ None \notin Samples

VARIABLES
    env,
    state,          \* the container's flags
    total,          \* its processor time since it was started (total_usage)
    system,         \* the host's, of all containers (system_cpu_usage)
    last_cpu_stats, \* the last sample, or None
    at,             \* at[r]: the request r makes next, or what it does with an answer
    stat,           \* stat[r]: the sample r was answered, while it needs it
    used,           \* used[r]: the usage it will give
    given           \* what was read last: whether usage is blank, and the buttons

vars == <<env, state, total, system, last_cpu_stats, at, stat, used, given>>

\* A share cpu/system of the host's time, of all its processors; blank without.
Blank == [blank |-> TRUE, cpu |-> 0, system |-> 1]
Usages == [blank : BOOLEAN, cpu : 0..MaxSystem, system : 0..MaxSystem + 1]

Buttons == {"start", "stop"}    \* restart goes with stop

TypeOK ==
    /\ env \in Envs
    /\ state \in States
    /\ system \in 0..MaxSystem
    /\ total \in 0..system
    /\ last_cpu_stats \in Samples \cup {None}
    /\ at \in [Readers -> {"inspect", "stats", "cpu", "status"}]
    /\ stat \in [Readers -> Samples]
    /\ used \in [Readers -> Usages]
    /\ given \in [blank : BOOLEAN, buttons : SUBSET Buttons]

Init ==
    /\ env \in Envs
    /\ state \in States
    /\ total = 0
    /\ system = 0
    /\ last_cpu_stats = None
    /\ at = [r \in Readers |-> "inspect"]
    /\ stat = [r \in Readers |-> Incomplete]
    /\ used = [r \in Readers |-> Blank]
    /\ given = [blank |-> TRUE, buttons |-> Buttons]

(***************************************************************************)
(* The container engine                                                    *)
(***************************************************************************)

\* Its control group counts, and is gone when it exits.
HasGroup(flags) == flags # {} /\ "restarting" \notin flags

\* Time passes, and the container has some of it.
Tick ==
    /\ system < MaxSystem
    /\ system' = system + 1
    /\ total' \in {total} \cup (IF state = {"running"} THEN {total + 1} ELSE {})
    /\ UNCHANGED <<env, state, last_cpu_stats, at, stat, used, given>>

\* It is started, paused, resumed, restarted or stopped: a new control group
\* counts from zero.
ContainerChanges ==
    /\ state' \in States \ {state}
    /\ total' = IF HasGroup(state') /\ ~HasGroup(state) THEN 0 ELSE total
    /\ UNCHANGED <<env, system, last_cpu_stats, at, stat, used, given>>

engine == <<env, state, total, system>>

(***************************************************************************)
(* ContainerStats::get_entity_data()                                       *)
(***************************************************************************)

Goto(r, p) == at' = [at EXCEPT ![r] = p]

\* Whether it runs, by the flag alone; an answer without a state says no.
Inspect(r) ==
    /\ at[r] = "inspect"
    /\ \/ /\ "running" \in state
          /\ Goto(r, "stats")
          /\ UNCHANGED <<last_cpu_stats, used>>
       \/ /\ "running" \notin state \/ "stateless" \in env
          /\ last_cpu_stats' = None
          /\ used' = [used EXCEPT ![r] = Blank]
          /\ Goto(r, "status")
    /\ UNCHANGED <<engine, stat, given>>

GetStats(r) ==
    /\ at[r] = "stats"
    /\ stat' = [stat EXCEPT ![r] =
                  IF HasGroup(state) THEN [complete |-> TRUE, total |-> total, system |-> system]
                  ELSE Incomplete]
    /\ Goto(r, "cpu")
    /\ UNCHANGED <<engine, last_cpu_stats, used, given>>

\* Mutant: the distance, in whichever direction.
X_saturating_sub(a, b) == IF a >= b THEN a - b ELSE b - a

saturating_sub(a, b) == IF a >= b THEN a - b ELSE 0

Usage(s, l) ==
    LET cpu_delta == saturating_sub(s.total, l.total)
        system_cpu_delta == saturating_sub(s.system, l.system)
    IN  IF system_cpu_delta = 0 \/ cpu_delta = 0
        THEN [blank |-> FALSE, cpu |-> 0, system |-> 1]
        ELSE [blank |-> FALSE, cpu |-> cpu_delta, system |-> system_cpu_delta]

\* Mutant: the last sample is replaced where a usage can be given only.
X_GetCpu(r) ==
    LET l == last_cpu_stats
        s == stat[r]
    IN  /\ at[r] = "cpu"
        /\ IF l = None \/ (s.complete /\ l.complete)
           THEN last_cpu_stats' = s ELSE UNCHANGED last_cpu_stats
        /\ IF l = None \/ (s.complete /\ l.complete)
           THEN /\ used' = [used EXCEPT ![r] = IF l = None THEN Blank ELSE Usage(s, l)]
                /\ Goto(r, "status")
           ELSE Goto(r, "inspect") /\ UNCHANGED used
        /\ stat' = [stat EXCEPT ![r] = Incomplete]
        /\ UNCHANGED <<engine, given>>

\* The last sample is taken and replaced under its lock.  If either lacks a
\* counter this is an error, which ends the read of the whole device.
GetCpu(r) ==
    LET l == last_cpu_stats
        s == stat[r]
    IN  /\ at[r] = "cpu"
        /\ last_cpu_stats' = s
        /\ IF l = None \/ (s.complete /\ l.complete)
           THEN /\ used' = [used EXCEPT ![r] = IF l = None THEN Blank ELSE Usage(s, l)]
                /\ Goto(r, "status")
           ELSE Goto(r, "inspect") /\ UNCHANGED used
        /\ stat' = [stat EXCEPT ![r] = Incomplete]
        /\ UNCHANGED <<engine, given>>

(***************************************************************************)
(* ContainerStatus::get_entity_data(), the last request of the device      *)
(***************************************************************************)

\* Mutant: by the flag the statistics go by.
X_is_running == "running" \in state

is_running == state # {}

\* Without a state the buttons stay as they were.
Status(r) ==
    /\ at[r] = "status"
    /\ \/ given' = [blank |-> used[r].blank,
                    buttons |-> IF is_running THEN {"stop"} ELSE {"start"}]
       \/ "stateless" \in env /\ given' = [given EXCEPT !.blank = used[r].blank]
    /\ Goto(r, "inspect")
    /\ used' = [used EXCEPT ![r] = Blank]
    /\ UNCHANGED <<engine, last_cpu_stats, stat>>

\* A request fails: no data of this device.
Fails(r) ==
    /\ "fail" \in env
    /\ at[r] # "cpu"
    /\ Goto(r, "inspect")
    /\ used' = [used EXCEPT ![r] = Blank]
    /\ UNCHANGED <<engine, last_cpu_stats, stat, given>>

Read(r) == Inspect(r) \/ GetStats(r) \/ GetCpu(r) \/ Status(r)

Next ==
    \/ Tick
    \/ ContainerChanges
    \/ \E r \in Readers : Read(r) \/ Fails(r)

\* Both readers come back again and again, and the engine answers.
Spec == Init /\ [][Next]_vars /\ \A r \in Readers : WF_vars(Read(r))

(***************************************************************************)
(* Properties                                                              *)
(***************************************************************************)

InBounds(u) == u.system > 0 /\ u.cpu <= u.system

\* A share is never more than the whole (container_device.rs:697-704), though
\* the container may have been started anew between the samples, and a reader
\* may compare an older sample with a newer one.
UsageInBounds == \A r \in Readers : InBounds(used[r])

\* Of two samples still in use the later one has at most as much more of the
\* container's time as of the host's.
Held == {s \in {stat[r] : r \in Readers} \cup {last_cpu_stats} : s # None /\ s.complete}

Ordered(s, l) == s.system > l.system => s.total - l.total <= s.system - l.system

\* The inductive invariant behind it: samples are of the past, and lie between
\* one another and the present.
StatsInv ==
    /\ TypeOK
    /\ \A s \in Held : s.system <= system /\ total - s.total <= system - s.system
    /\ \A s, l \in Held : Ordered(s, l)
    /\ UsageInBounds

\* A sample without counters costs at most the reads that compare it
\* (container_device.rs:686-709): a container that goes on running, be it paused
\* now and then, has its usage read again and again.
StatsRecover ==
    env = {} /\ <>[](HasGroup(state) /\ "running" \in state)
        => []<>(\E r \in Readers : at[r] = "status" /\ ~used[r].blank)

\* In the end what is read is that the container can be stopped, or that it can be
\* started, with no usage left over.  Statistics and buttons look at different
\* flags (container_device.rs:641, 745): one that is paused without being said to
\* run can be stopped and has no usage.  A container that waits to be restarted
\* for ever is not read: its statistics lack the counters.
ReadsFollowContainer ==
    env = {} =>
        /\ <>[](state = {}) => <>[](given = [blank |-> TRUE, buttons |-> {"start"}])
        /\ <>[](state = {"paused"}) => <>[](given = [blank |-> TRUE, buttons |-> {"stop"}])
        /\ <>[]HasGroup(state) => <>[](given.buttons = {"stop"})

================================================================================
