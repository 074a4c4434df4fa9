--------------------------- MODULE CancellationLatch ---------------------------
(***************************************************************************)
(* What a caller of cancellation_token.rs relies on, without the source's  *)
(* list of tokens, its lock or its Notify: every token is a latch that     *)
(* never reopens, a wait begun on a closed latch is refused, and a wait in *)
(* progress is refused only when its latch has closed.                     *)
(***************************************************************************)

CONSTANTS Tokens,    \* the tokens a source may hand out
          Waiters,   \* the calls to wait_on that may be in progress at once
          NoToken    \* the token of a waiter that has not called wait_on yet

VARIABLES latched,   \* latched[t]: token t is cancelled, for good
          wait,      \* wait[w]: how far w's call to wait_on has got
          on         \* on[w]: the token of w's last call

latchVars == <<latched, wait, on>>

LatchInit ==
  /\ latched = [t \in Tokens |-> FALSE]
  /\ wait = [w \in Waiters |-> "none"]
  /\ on = [w \in Waiters |-> NoToken]

Close(t) ==
  /\ latched' = [latched EXCEPT ![t] = TRUE]
  /\ UNCHANGED <<wait, on>>

Begin(w, t) ==
  /\ wait[w] = "none"
  /\ on' = [on EXCEPT ![w] = t]
  /\ \/ latched[t]  /\ wait' = [wait EXCEPT ![w] = "refused"]
     \/ ~latched[t] /\ wait' = [wait EXCEPT ![w] = "pending"]
  /\ UNCHANGED latched

\* A pending wait ends with its future's value, or because its latch closed.
Finish(w) ==
  /\ wait[w] = "pending"
  /\ \/ wait' = [wait EXCEPT ![w] = "completed"]
     \/ latched[on[w]] /\ wait' = [wait EXCEPT ![w] = "refused"]
  /\ UNCHANGED <<latched, on>>

\* The caller takes the result and may call again, or drops the wait unfinished.
Leave(w) ==
  /\ wait[w] # "none"
  /\ wait' = [wait EXCEPT ![w] = "none"]
  /\ UNCHANGED <<latched, on>>

LatchNext ==
  \/ \E t \in Tokens : Close(t)
  \/ \E w \in Waiters : Finish(w) \/ Leave(w)
  \/ \E w \in Waiters, t \in Tokens : Begin(w, t)

LatchSpec == LatchInit /\ [][LatchNext]_latchVars

================================================================================
