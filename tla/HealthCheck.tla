------------------------------ MODULE HealthCheck ------------------------------
(* The status the program shares with its health checks (healthcheck.rs,   *)
(* shared_memory.rs).  The program (Main) opens or creates the memory when *)
(* it starts and keeps it; its traffic task (Setter) opens it again for    *)
(* every status it sets; a health check is a process of its own that opens *)
(* it, reads and ends.  Whoever creates the memory owns it: it initializes *)
(* the mutex on each access, and takes the file away when it is dropped.   *)
EXTENDS FiniteSets

CONSTANTS
    Main, Setter,   \* the program's own handle, and the one of set_healthy_shared
    Checks,         \* processes of `cmha health-check`
    Segments,       \* pieces of shared memory the system can map
    None,
    Env             \* what may go wrong: "kill" a process

Actors == {Main, Setter} \cup Checks

ASSUME HealthAssumption ==
    /\ Main # Setter
    /\ {Main, Setter} \cap Checks = {}
    /\ None \notin Actors \cup Segments
    /\ Env \subseteq {"kill"}

VARIABLES
    flink,      \* the segment the file names, or None
    is_init,    \* is_init[s]: the mutex in segment s can be used
    holder,     \* holder[s]: who holds that mutex
    value,      \* value[s]: the status in segment s
    pc,         \* where each actor is
    shm,        \* the segment an actor has mapped
    is_owner,   \* whether it created it
    request,    \* what the Setter is about to set
    said        \* what the program last said in this run

memory == <<is_init, holder, value>>
vars == <<flink, memory, pc, shm, is_owner, request, said>>

Status == {"Healthy", "Unhealthy"}

\* The first variant of the enumeration is what zeroed memory reads as.
ZeroStatus == "Healthy"

TypeOK ==
    /\ flink \in Segments \cup {None}
    /\ is_init \in [Segments -> BOOLEAN]
    /\ holder \in [Segments -> Actors \cup {None}]
    /\ value \in [Segments -> Status]
    /\ pc \in [Actors -> {"off", "opening", "defaulting", "defaultLock", "defaultIn",
                          "opened", "lock", "in", "done"}]
    /\ shm \in [Actors -> Segments \cup {None}]
    /\ is_owner \in [Actors -> BOOLEAN]
    /\ request \in Status
    /\ said \in Status

Init ==
    /\ flink = None
    /\ is_init = [s \in Segments |-> FALSE]
    /\ holder = [s \in Segments |-> None]
    /\ value = [s \in Segments |-> ZeroStatus]
    /\ pc = [a \in Actors |-> "off"]
    /\ shm = [a \in Actors |-> None]
    /\ is_owner = [a \in Actors |-> FALSE]
    /\ request = "Unhealthy"
    /\ said = "Unhealthy"

(***************************************************************************)
(* Opening and dropping the memory                                         *)
(***************************************************************************)

\* The traffic task sets a status while the program holds its own handle.
MayBegin(a) ==
    /\ pc[a] = "off"
    /\ a = Setter => pc[Main] = "opened"
    /\ a = Main => pc[Setter] = "off"

\* The system frees a segment when nothing names or maps it any more, and
\* gives a new one out zeroed.  Which one it is makes no difference.
InUse(s) == flink = s \/ \E a \in Actors : shm[a] = s

FreeUnused ==
    /\ is_init' = [s \in Segments |-> is_init[s] /\ InUse(s)']
    /\ holder' = [s \in Segments |-> IF InUse(s)' THEN holder[s] ELSE None]
    /\ value' = [s \in Segments |-> IF InUse(s)' THEN value[s] ELSE ZeroStatus]

\* ShmemConf::create() with a link that does not exist yet.
Create(a) ==
    /\ MayBegin(a)
    /\ flink = None
    /\ \E s \in Segments : ~InUse(s)
    /\ flink' = CHOOSE s \in Segments : ~InUse(s)
    /\ shm' = [shm EXCEPT ![a] = flink']
    /\ is_owner' = [is_owner EXCEPT ![a] = TRUE]
    /\ pc' = [pc EXCEPT ![a] = "defaulting"]
    /\ request' \in IF a = Setter THEN Status ELSE {request}
    /\ UNCHANGED <<memory, said>>

\* ... or with one that does.
LinkExists(a) ==
    /\ MayBegin(a)
    /\ flink # None
    /\ pc' = [pc EXCEPT ![a] = "opening"]
    /\ request' \in IF a = Setter THEN Status ELSE {request}
    /\ UNCHANGED <<flink, memory, shm, is_owner, said>>

\* Mutant: new() sets the default in memory it did not create, too.
X_Open(a) ==
    /\ pc[a] = "opening"
    /\ shm' = [shm EXCEPT ![a] = flink]
    /\ pc' = [pc EXCEPT ![a] = IF flink = None THEN "off" ELSE "defaulting"]
    /\ UNCHANGED <<flink, memory, is_owner, request, said>>

\* ShmemConf::open(): the link may be gone by now, which is an error.
Open(a) ==
    /\ pc[a] = "opening"
    /\ shm' = [shm EXCEPT ![a] = flink]
    /\ pc' = [pc EXCEPT ![a] = IF flink = None THEN "off" ELSE "opened"]
    /\ said' = IF a = Main THEN "Unhealthy" ELSE said
    /\ UNCHANGED <<flink, memory, is_owner, request>>

\* Mutant: every handle removes the file when it is dropped.
X_Drop(a) ==
    /\ pc[a] = IF a = Main THEN "opened" ELSE "done"
    /\ flink' = None
    /\ pc' = [pc EXCEPT ![a] = "off"]
    /\ shm' = [shm EXCEPT ![a] = None]
    /\ is_owner' = [is_owner EXCEPT ![a] = FALSE]
    /\ FreeUnused
    /\ UNCHANGED <<request, said>>

\* Dropping a handle: the owner removes the file, the memory stays mapped
\* where others have it.  Main's handle is dropped when run() returns.
Drop(a) ==
    /\ pc[a] = IF a = Main THEN "opened" ELSE "done"
    /\ flink' = IF is_owner[a] THEN None ELSE flink
    /\ pc' = [pc EXCEPT ![a] = "off"]
    /\ shm' = [shm EXCEPT ![a] = None]
    /\ is_owner' = [is_owner EXCEPT ![a] = FALSE]
    /\ FreeUnused
    /\ UNCHANGED <<request, said>>

(***************************************************************************)
(* One access: create_mutex(), lock, read or write, unlock                 *)
(***************************************************************************)

\* Mutant: every process makes the mutex anew.
X_CreateMutexAlways(a) ==
    /\ \/ pc[a] = "defaulting" /\ pc' = [pc EXCEPT ![a] = "defaultLock"]
       \/ pc[a] = "opened" /\ a # Main /\ pc' = [pc EXCEPT ![a] = "lock"]
    /\ is_init' = [is_init EXCEPT ![shm[a]] = TRUE]
    /\ holder' = [holder EXCEPT ![shm[a]] = None]
    /\ UNCHANGED <<flink, value, shm, is_owner, request, said>>

\* Mutant: the owner does not say that the mutex is there.
X_CreateMutexSilent(a) ==
    /\ \/ pc[a] = "defaulting" /\ pc' = [pc EXCEPT ![a] = "defaultLock"]
       \/ pc[a] = "opened" /\ a # Main /\ pc' = [pc EXCEPT ![a] = "lock"]
    /\ is_owner[a] \/ is_init[shm[a]]
    /\ holder' = [holder EXCEPT ![shm[a]] = IF is_owner[a] THEN None ELSE @]
    /\ UNCHANGED <<flink, is_init, value, shm, is_owner, request, said>>

\* The owner makes a new mutex in place, others wait for is_init.
CreateMutex(a) ==
    /\ \/ pc[a] = "defaulting" /\ pc' = [pc EXCEPT ![a] = "defaultLock"]
       \/ pc[a] = "opened" /\ a # Main /\ pc' = [pc EXCEPT ![a] = "lock"]
    /\ IF is_owner[a]
       THEN /\ is_init' = [is_init EXCEPT ![shm[a]] = TRUE]
            /\ holder' = [holder EXCEPT ![shm[a]] = None]
       ELSE is_init[shm[a]] /\ UNCHANGED <<is_init, holder>>
    /\ UNCHANGED <<flink, value, shm, is_owner, request, said>>

Lock(a) ==
    /\ \/ pc[a] = "defaultLock" /\ pc' = [pc EXCEPT ![a] = "defaultIn"]
       \/ pc[a] = "lock" /\ pc' = [pc EXCEPT ![a] = "in"]
    /\ holder[shm[a]] = None
    /\ holder' = [holder EXCEPT ![shm[a]] = a]
    /\ UNCHANGED <<flink, is_init, value, shm, is_owner, request, said>>

Release(s) == holder' = [holder EXCEPT ![s] = None]

\* The last step of new() for the one that created the memory.
SetDefault(a) ==
    /\ pc[a] = "defaultIn"
    /\ value' = [value EXCEPT ![shm[a]] = "Unhealthy"]
    /\ Release(shm[a])
    /\ pc' = [pc EXCEPT ![a] = "opened"]
    /\ said' = IF a = Main THEN "Unhealthy" ELSE said
    /\ UNCHANGED <<flink, is_init, shm, is_owner, request>>

SetHealthy ==
    /\ pc[Setter] = "in"
    /\ value' = [value EXCEPT ![shm[Setter]] = request]
    /\ Release(shm[Setter])
    /\ pc' = [pc EXCEPT ![Setter] = "done"]
    /\ said' = request
    /\ UNCHANGED <<flink, is_init, shm, is_owner, request>>

CheckIfHealthy(c) ==
    /\ pc[c] = "in"
    /\ Release(shm[c])
    /\ pc' = [pc EXCEPT ![c] = "done"]
    /\ UNCHANGED <<flink, is_init, value, shm, is_owner, request, said>>

(***************************************************************************)
(* A process killed runs no destructor: file and mutex stay as they are    *)
(***************************************************************************)

Kill(A) ==
    /\ "kill" \in Env
    /\ \E a \in A : pc[a] # "off"
    /\ pc' = [a \in Actors |-> IF a \in A THEN "off" ELSE pc[a]]
    /\ shm' = [a \in Actors |-> IF a \in A THEN None ELSE shm[a]]
    /\ is_owner' = [a \in Actors |-> is_owner[a] /\ a \notin A]
    /\ UNCHANGED <<flink, request, said>>
    /\ FreeUnused

KillProgram == Kill({Main, Setter})
KillCheck(c) == Kill({c})

Proceed(a) ==
    \/ Open(a)
    \/ CreateMutex(a)
    \/ Lock(a)
    \/ SetDefault(a)
    \/ a # Main /\ Drop(a)
    \/ a = Setter /\ SetHealthy
    \/ a \in Checks /\ CheckIfHealthy(a)

Next ==
    \/ \E a \in Actors : Create(a) \/ LinkExists(a) \/ Proceed(a)
    \/ Drop(Main)
    \/ KillProgram
    \/ \E c \in Checks : KillCheck(c)

\* The scheduler runs every process, and a mutex that is free again and
\* again is got.
Spec == Init /\ [][Next]_vars /\ \A a \in Actors : SF_vars(Proceed(a))

(***************************************************************************)
(* Properties                                                              *)
(***************************************************************************)

\* Whoever created the memory that is in use owns the file: nobody opens one
\* memory by name while another process believes it serves the name.
OwnerHoldsLink == \A a \in Actors : is_owner[a] => flink = shm[a]

ProgramServes == is_owner[Main] /\ pc[Main] = "opened"

\* While the program that created the memory runs, the memory says what the
\* program last said: no check, no late default and no new mutex changes it.
SharedIsSaid == ProgramServes => value[shm[Main]] = said

Defaulting(a) == pc[a] \in {"defaulting", "defaultLock", "defaultIn"}
Inside(a) == pc[a] \in {"defaultIn", "in"}

\* In memory the program created, the mutex excludes: no access makes it anew
\* while another is under way.
ExclusiveAccess ==
    is_owner[Main] => \A a, b \in Actors :
        Inside(a) /\ Inside(b) /\ shm[a] = shm[Main] /\ shm[b] = shm[Main] => a = b

\* Why these hold: memory that is given out has no mutex yet; ownership comes with
\* the default and the link; while the program owns the memory, a mutex that is in
\* use was made before, by the program and once; the traffic task works on the
\* program's memory.
HealthInv ==
    /\ \A s \in Segments : is_init[s] => InUse(s)
    /\ \A a \in Actors : shm[a] = None <=> pc[a] \in {"off", "opening"}
    /\ \A a \in Actors : Defaulting(a) => is_owner[a]
    /\ \A a \in Actors : is_owner[a] => shm[a] # None
    /\ \A a, b \in Actors : is_owner[a] /\ is_owner[b] => a = b
    /\ OwnerHoldsLink
    /\ pc[Main] \in {"off", "opening", "opened"} \/ Defaulting(Main)
    /\ pc[Main] = "opening" \/ Defaulting(Main) => pc[Setter] = "off"
    /\ ProgramServes => shm[Setter] \in {None, shm[Main]}
    /\ is_owner[Main] =>
        /\ pc[Main] = "defaulting" => ~is_init[shm[Main]]
        /\ pc[Main] # "defaulting" => is_init[shm[Main]]
        /\ \A a \in Actors : shm[a] = shm[Main] /\ pc[a] \in {"lock", "in"}
                => is_init[shm[Main]]
        /\ \A a \in Actors : shm[a] = shm[Main] /\ Inside(a) => holder[shm[Main]] = a
    /\ SharedIsSaid

\* Memory left unusable: a process was killed before it made the mutex, or
\* while it held it.
Abandoned(s) ==
    \/ ~is_init[s] /\ \A a \in Actors : ~(is_owner[a] /\ shm[a] = s)
    \/ holder[s] # None /\ ~(Inside(holder[s]) /\ shm[holder[s]] = s)

\* A health check ends, unless a killed process left the memory it uses
\* unusable: the wait for is_init and the lock are otherwise short.
CheckEnds ==
    \A c \in Checks :
        pc[c] # "off" ~> (pc[c] = "off" \/ (shm[c] # None /\ Abandoned(shm[c])))

\* "this will hold the shared memory in the main process until exit and will
\* be used to check if the main process is healthy" (main.rs:53).
ProgramHoldsMemory == pc[Main] = "opened" => flink = shm[Main]

================================================================================
