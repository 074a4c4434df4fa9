------------------------------- MODULE DeviceData -------------------------------
(* Reading one device and commanding it (devices/device.rs get_entities_data *)
(* and handle_command, devices/mod.rs DebouncedHandler, container_device.rs   *)
(* LogText and GetLogsButton).  A device is a sequence of data handlers       *)
(* behind a reader-writer lock.  A read takes what they give in order; the    *)
(* first that fails ends it, and what the others gave is lost.  Readers are   *)
(* the publisher's stream and initialize(), the writer is a command.          *)
EXTENDS Integers, Sequences, FiniteSets

CONSTANTS
    Shapes,     \* the devices to consider: sequences of kinds of handlers
    Readers,
    Duration,   \* of a debounced handler (one hour in the code)
    MaxTime,    \* bound on the clock
    Envs,       \* what may go wrong: "fail" a request, "cancel" a read
    None

Kinds == {"plain", "debounced", "logs"}

ASSUME DeviceAssumption ==
    /\ Shapes \subseteq Seq(Kinds)
    /\ Duration \in Nat /\ MaxTime \in Nat
    /\ None \notin Readers \cup Kinds
    /\ Envs \subseteq SUBSET {"fail", "cancel"}

VARIABLES
    env,
    handlers,           \* the kinds of this device's handlers
    now,                \* Utc::now()
    at,                 \* at[r]: the handler r is at, 0 when it is not reading
    step,               \* step[r]: where it is in that handler
    got,                \* got[r]: the handlers that gave data to this read
    command,            \* a press of the logs button
    should_get_logs,
    stamp,              \* stamp[r]: the time r has read, for a debounced handler
    last_pool,          \* last_pool[h]: time of the last read of a debounced handler
    last_pool_lock,     \* last_pool_lock[h]: the reader in its critical section
    asked,              \* asked[h]: when the engine was asked for a debounced h, the last two times
    owed                \* a press has not been answered

vars == <<env, handlers, now, at, step, got, command, should_get_logs, stamp,
          last_pool, last_pool_lock, asked, owed>>

H == DOMAIN handlers
\* chrono's MIN_UTC: before any time by more than any duration.
MinTime == -Duration - 1

TypeOK ==
    /\ env \in Envs
    /\ handlers \in Shapes
    /\ now \in 0..MaxTime
    /\ at \in [Readers -> 0..Len(handlers) + 1]
    /\ step \in [Readers -> {"enter", "clear", "lock", "request"}]
    /\ got \in [Readers -> SUBSET H]
    /\ command \in {"none", "waiting"}
    /\ should_get_logs \in BOOLEAN
    /\ stamp \in [Readers -> MinTime..MaxTime]
    /\ last_pool \in [H -> MinTime..MaxTime]
    /\ last_pool_lock \in [H -> Readers \cup {None}]
    /\ asked \in [H -> [last : MinTime..MaxTime, before : MinTime..MaxTime]]
    /\ owed \in BOOLEAN

Init ==
    /\ env \in Envs
    /\ handlers \in Shapes
    /\ now = 0
    /\ at = [r \in Readers |-> 0]
    /\ step = [r \in Readers |-> "enter"]
    /\ got = [r \in Readers |-> {}]
    /\ command = "none"
    /\ should_get_logs = FALSE
    /\ stamp = [r \in Readers |-> MinTime]
    /\ last_pool = [h \in H |-> MinTime]
    /\ last_pool_lock = [h \in H |-> None]
    /\ asked = [h \in H |-> [last |-> MinTime, before |-> MinTime]]
    /\ owed = FALSE

constant == <<env, handlers>>
debounce == <<stamp, last_pool, last_pool_lock>>
Reading(r) == at[r] # 0
Kind(r) == IF at[r] \in H THEN handlers[at[r]] ELSE None

Tick ==
    /\ now < MaxTime
    /\ now' = now + 1
    /\ UNCHANGED <<constant, at, step, got, command, should_get_logs, debounce, asked, owed>>

(***************************************************************************)
(* Commands: the lock serves in turn, so readers wait behind a writer      *)
(***************************************************************************)

Press ==
    /\ command = "none"
    /\ "logs" \in {handlers[h] : h \in H}
    /\ command' = "waiting"
    /\ UNCHANGED <<constant, now, at, step, got, should_get_logs, debounce, asked, owed>>

\* Mutant: the button asks nothing of the log's handler.
X_GetLogs ==
    /\ command = "waiting"
    /\ \A r \in Readers : ~Reading(r)
    /\ command' = "none"
    /\ owed' = TRUE
    /\ UNCHANGED <<constant, now, at, step, got, should_get_logs, debounce, asked>>

\* GetLogsButton::do_handle_command(), with the device's lock for writing.
GetLogs ==
    /\ command = "waiting"
    /\ \A r \in Readers : ~Reading(r)
    /\ command' = "none"
    /\ should_get_logs' = TRUE
    /\ owed' = TRUE
    /\ UNCHANGED <<constant, now, at, step, got, debounce, asked>>

(***************************************************************************)
(* Device::get_entities_data()                                             *)
(***************************************************************************)

\* Mutant: readers are let in while a command waits for the lock.
X_StartRead(r) ==
    /\ ~Reading(r)
    /\ at' = [at EXCEPT ![r] = 1]
    /\ UNCHANGED <<constant, now, step, got, command, should_get_logs, debounce, asked, owed>>

StartRead(r) ==
    /\ ~Reading(r)
    /\ command = "none"
    /\ at' = [at EXCEPT ![r] = 1]
    /\ UNCHANGED <<constant, now, step, got, command, should_get_logs, debounce, asked, owed>>

\* The handler is done, with or without data.
Advance(r, data) ==
    /\ at' = [at EXCEPT ![r] = @ + 1]
    /\ step' = [step EXCEPT ![r] = "enter"]
    /\ got' = [got EXCEPT ![r] = @ \cup data]

Ask(r) ==
    /\ step' = [step EXCEPT ![r] = "request"]
    /\ asked' = IF Kind(r) = "debounced"
                THEN [asked EXCEPT ![at[r]] = [last |-> now, before |-> @.last]]
                ELSE asked
    /\ UNCHANGED <<at, got>>

AskPlain(r) ==
    /\ Kind(r) = "plain" /\ step[r] = "enter"
    /\ Ask(r)
    /\ UNCHANGED <<constant, now, command, should_get_logs, debounce, owed>>

\* LogText: the flag is loaded, then cleared, then the logs are fetched.
LoadLogs(r) ==
    /\ Kind(r) = "logs" /\ step[r] = "enter"
    /\ IF should_get_logs
       THEN step' = [step EXCEPT ![r] = "clear"] /\ UNCHANGED <<at, got>>
       ELSE Advance(r, {})
    /\ UNCHANGED <<constant, now, command, should_get_logs, debounce, asked, owed>>

ClearLogs(r) ==
    /\ Kind(r) = "logs" /\ step[r] = "clear"
    /\ should_get_logs' = FALSE
    /\ Ask(r)
    /\ UNCHANGED <<constant, now, command, debounce, owed>>

\* DebouncedHandler: the clock is read, then the lock of the last time taken.
\* While another reader holds it, for as long as the inner handler reads, the
\* time that was read grows old.
ReadClock(r) ==
    /\ Kind(r) = "debounced" /\ step[r] = "enter"
    /\ last_pool_lock[at[r]] # None
    /\ stamp' = [stamp EXCEPT ![r] = now]
    /\ step' = [step EXCEPT ![r] = "lock"]
    /\ UNCHANGED <<constant, now, at, got, command, should_get_logs, last_pool,
                   last_pool_lock, asked, owed>>

\* Mutant: a read is due as soon as the time is over.
X_Due(r, time) == time >= last_pool[at[r]] + Duration

Due(r, time) == time > last_pool[at[r]] + Duration

\* The time is set before the inner handler reads: a read that fails is not due
\* again.
Debounced(r, time) ==
    /\ last_pool_lock[at[r]] = None
    /\ IF Due(r, time)
       THEN /\ last_pool' = [last_pool EXCEPT ![at[r]] = time]
            /\ last_pool_lock' = [last_pool_lock EXCEPT ![at[r]] = r]
            /\ Ask(r)
       ELSE Advance(r, {}) /\ UNCHANGED <<last_pool, last_pool_lock, asked>>
    /\ UNCHANGED <<constant, now, command, should_get_logs, owed>>

EnterDebounced(r) ==
    /\ Kind(r) = "debounced" /\ step[r] = "enter"
    /\ Debounced(r, now)
    /\ UNCHANGED stamp

WaitedForLock(r) ==
    /\ step[r] = "lock"
    /\ Debounced(r, stamp[r])
    /\ stamp' = [stamp EXCEPT ![r] = MinTime]

\* Mutant: the lock is kept.
X_Unlocked(r) == last_pool_lock

Unlocked(r) == [h \in H |-> IF last_pool_lock[h] = r THEN None ELSE last_pool_lock[h]]

Answered(r) ==
    /\ step[r] = "request"
    /\ Advance(r, {at[r]})
    /\ last_pool_lock' = Unlocked(r)
    /\ UNCHANGED <<constant, now, command, should_get_logs, stamp, last_pool, asked, owed>>

\* The `?` of the loop, or a cancelled read: what was read is dropped.
Abandon(r) ==
    /\ at' = [at EXCEPT ![r] = 0]
    /\ step' = [step EXCEPT ![r] = "enter"]
    /\ got' = [got EXCEPT ![r] = {}]
    /\ last_pool_lock' = Unlocked(r)
    /\ stamp' = [stamp EXCEPT ![r] = MinTime]
    /\ UNCHANGED <<constant, now, command, should_get_logs, last_pool, asked, owed>>

Fails(r) == "fail" \in env /\ step[r] = "request" /\ Abandon(r)

Cancelled(r) == "cancel" \in env /\ Reading(r) /\ Abandon(r)

Returns(r) ==
    /\ at[r] = Len(handlers) + 1
    /\ at' = [at EXCEPT ![r] = 0]
    /\ got' = [got EXCEPT ![r] = {}]
    /\ owed' = (owed /\ \A h \in got[r] : handlers[h] # "logs")
    /\ UNCHANGED <<constant, now, step, command, should_get_logs, debounce, asked>>

Read(r) ==
    \/ StartRead(r)
    \/ AskPlain(r)
    \/ LoadLogs(r)
    \/ ClearLogs(r)
    \/ ReadClock(r)
    \/ EnterDebounced(r)
    \/ WaitedForLock(r)
    \/ Answered(r)
    \/ Returns(r)

Next ==
    \/ Tick
    \/ Press
    \/ GetLogs
    \/ \E r \in Readers : Read(r) \/ Fails(r) \/ Cancelled(r)

\* Both readers come back again and again; the lock and the engine answer.
Spec ==
    /\ Init /\ [][Next]_vars
    /\ WF_vars(GetLogs)
    /\ \A r \in Readers : SF_vars(Read(r))

(***************************************************************************)
(* Properties                                                              *)
(***************************************************************************)

\* However often a device is read, by whom, and whatever fails (mod.rs:138-143):
\* the engine is asked for a debounced handler's data at most as often as there
\* are readers within the duration.  With two readers, of three requests the
\* first and the last are further apart.  (A reader that has waited for the
\* lock decides with an old time, so two requests may be closer.)
OverloadBounded ==
    [][\A h \in H :
         asked'[h] # asked[h] => asked'[h].last > asked[h].before + Duration]_vars

\* A press of the logs button is not forgotten (container_device.rs:452-455,
\* 489): as long as nothing fails, the request is in the flag, or a reader
\* that has taken it will bring the logs.
PressIsKept ==
    owed /\ env = {} =>
        \/ should_get_logs
        \/ \E r \in Readers :
              \/ Kind(r) = "logs" /\ step[r] = "request"
              \/ \E h \in got[r] : handlers[h] = "logs"

\* A press gets through to its device although readers come back again and
\* again (devices.rs:157 takes the lock for writing), and then the logs are
\* given to a reader.
PressIsAnswered ==
    env = {} =>
        /\ command = "waiting" ~> command = "none"
        /\ owed ~> ~owed

\* A read comes to its end, whatever the other reader fails in while it holds a
\* debounced handler's lock (mod.rs:136).
ReadReturns == \A r \in Readers : at[r] # 0 ~> at[r] = 0

================================================================================
