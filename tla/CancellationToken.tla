--------------------------- MODULE CancellationToken ---------------------------
(***************************************************************************)
(* cmha/src/cancellation_token.rs: one CancellationTokenSource, the tokens *)
(* it hands out and the calls to wait_on racing its cancel().              *)
(*                                                                         *)
(* cancel() keeps the write lock of the token list from its first line to  *)
(* its last, so a second cancel() only ever finds is_cancelled set and     *)
(* returns (line 77): it changes nothing and is no action here. wait_on    *)
(* loads the token's flag (line 143) and creates the Notified future (line *)
(* 152) in two steps; tokio delivers notify_waiters() to the Notified      *)
(* futures that exist at that moment and remembers it for no later one.    *)
(* waiters_count exists in debug builds only, for a log line; left out.    *)
(***************************************************************************)

CONSTANTS Tokens,    \* the tokens the source may hand out
          Preissued, \* the token new_with_a_token() returned, {} for new()
          Waiters,   \* the calls to wait_on that may be in progress at once
          NoToken    \* the token of a waiter that has not called wait_on yet

ASSUME TokenAssumption ==
  /\ Preissued \subseteq Tokens
  /\ NoToken \notin Tokens

VARIABLES
  issued,          \* the tokens some caller holds
  tokens,          \* CancellationTokenSource.tokens
  source_cancelled,\* CancellationTokenSource.is_cancelled
  cancelling,      \* cancel() is running and holds the write lock of tokens
  remaining,       \* the tokens cancel()'s loop has not reached
  is_cancelled,    \* is_cancelled[t]: CancellationToken.is_cancelled
  phase,           \* phase[w]: how far w's call to wait_on has got
  on,              \* on[w]: the token of w's last call
  notified         \* notified[w]: w's Notified future has been notified

sourceVars == <<issued, tokens, source_cancelled, cancelling, remaining, is_cancelled>>
waitVars   == <<phase, on, notified>>
vars       == <<sourceVars, waitVars>>

Phases == {"idle", "checked", "waiting", "completed", "refused"}

TypeOK ==
  /\ issued \in SUBSET Tokens
  /\ tokens \in SUBSET issued
  /\ source_cancelled \in BOOLEAN
  /\ cancelling \in BOOLEAN
  /\ remaining \in SUBSET tokens
  /\ is_cancelled \in [Tokens -> BOOLEAN]
  /\ phase \in [Waiters -> Phases]
  /\ on \in [Waiters -> Tokens \cup {NoToken}]
  /\ notified \in [Waiters -> BOOLEAN]

\* new() starts with no token; new_with_a_token() pushes its token into a local
\* vector it then discards, so the token exists but the source does not list it.
Init ==
  /\ issued = Preissued
  /\ tokens = {}
  /\ source_cancelled = FALSE
  /\ cancelling = FALSE
  /\ remaining = {}
  /\ is_cancelled = [t \in Tokens |-> FALSE]
  /\ phase = [w \in Waiters |-> "idle"]
  /\ on = [w \in Waiters |-> NoToken]
  /\ notified = [w \in Waiters |-> FALSE]

--------------------------------------------------------------------------------
(* The source                                                              *)

\* Mutant: pushes its token without the lock, under a running cancel().
create_token_without_lock(t) ==
  /\ t \notin issued
  /\ issued' = issued \cup {t}
  /\ tokens' = tokens \cup {t}
  /\ UNCHANGED <<source_cancelled, cancelling, remaining, is_cancelled, waitVars>>

\* create_token(): a fresh, uncancelled token, even on a source already cancelled.
create_token(t) ==
  /\ ~cancelling
  /\ t \notin issued
  /\ issued' = issued \cup {t}
  /\ tokens' = tokens \cup {t}
  /\ UNCHANGED <<source_cancelled, cancelling, remaining, is_cancelled, waitVars>>

\* cancel() takes the lock, finds the source not cancelled and marks it.
CancelStart ==
  /\ ~cancelling
  /\ ~source_cancelled
  /\ source_cancelled' = TRUE
  /\ cancelling' = TRUE
  /\ remaining' = tokens
  /\ UNCHANGED <<issued, tokens, is_cancelled, waitVars>>

\* One turn of cancel()'s loop.
CancelOneToken(t) ==
  /\ cancelling
  /\ t \in remaining
  /\ is_cancelled' = [is_cancelled EXCEPT ![t] = TRUE]
  /\ remaining' = remaining \ {t}
  /\ UNCHANGED <<issued, tokens, source_cancelled, cancelling, waitVars>>

\* Mutant: notifies before the loop has set every flag.
NotifyWaiters_before_flags ==
  /\ cancelling
  /\ remaining # {}
  /\ cancelling' = FALSE
  /\ notified' = [w \in Waiters |-> notified[w] \/ phase[w] = "waiting"]
  /\ UNCHANGED <<issued, tokens, source_cancelled, remaining, is_cancelled, phase, on>>

\* notify_waiters(), then cancel() returns and releases the lock.
NotifyWaiters ==
  /\ cancelling
  /\ remaining = {}
  /\ cancelling' = FALSE
  /\ notified' = [w \in Waiters |-> notified[w] \/ phase[w] = "waiting"]
  /\ UNCHANGED <<issued, tokens, source_cancelled, remaining, is_cancelled, phase, on>>

--------------------------------------------------------------------------------
(* wait_on(future)                                                         *)

\* Mutant: wait_on goes straight to its select.
CheckFlag_skipped(w, t) ==
  /\ phase[w] = "idle"
  /\ t \in issued
  /\ on' = [on EXCEPT ![w] = t]
  /\ phase' = [phase EXCEPT ![w] = "checked"]
  /\ UNCHANGED <<sourceVars, notified>>

\* The load at the head of wait_on: refuse at once, or go on to the select.
CheckFlag(w, t) ==
  /\ phase[w] = "idle"
  /\ t \in issued
  /\ on' = [on EXCEPT ![w] = t]
  /\ phase' = [phase EXCEPT ![w] = IF is_cancelled[t] THEN "refused" ELSE "checked"]
  /\ UNCHANGED <<sourceVars, notified>>

\* select! creates the Notified future and polls both branches.
Register(w) ==
  /\ phase[w] = "checked"
  /\ phase' = [phase EXCEPT ![w] = "waiting"]
  /\ notified' = [notified EXCEPT ![w] = FALSE]
  /\ UNCHANGED <<sourceVars, on>>

\* The notified branch of select!.
Refuse(w) ==
  /\ phase[w] = "waiting"
  /\ notified[w]
  /\ phase' = [phase EXCEPT ![w] = "refused"]
  /\ UNCHANGED <<sourceVars, on, notified>>

\* The future's branch; select! picks either branch when both are ready.
Complete(w) ==
  /\ phase[w] = "waiting"
  /\ phase' = [phase EXCEPT ![w] = "completed"]
  /\ UNCHANGED <<sourceVars, on, notified>>

\* The caller goes round its loop, or an outer select! drops the pending wait.
Return(w) ==
  /\ phase[w] \in {"waiting", "completed", "refused"}
  /\ phase' = [phase EXCEPT ![w] = "idle"]
  /\ UNCHANGED <<sourceVars, on, notified>>

Cancel == CancelStart \/ NotifyWaiters \/ (\E t \in Tokens : CancelOneToken(t))

Wait(w) ==
  \/ \E t \in Tokens : CheckFlag(w, t)
  \/ Register(w) \/ Refuse(w) \/ Complete(w) \/ Return(w)

Next ==
  \/ Cancel
  \/ \E t \in Tokens : create_token(t)
  \/ \E w \in Waiters : Wait(w)

Spec == Init /\ [][Next]_vars

\* The runtime runs every task that can run: a cancel() under way goes on to its
\* end, and so does a wait_on past its check. No future need ever complete.
RuntimeFairness ==
  /\ WF_vars(NotifyWaiters \/ \E t \in Tokens : CancelOneToken(t))
  /\ \A w \in Waiters : WF_vars(Register(w)) /\ WF_vars(Refuse(w))

FairSpec == Spec /\ RuntimeFairness

\* The callers' futures are sleeps, timeouts and bounded requests: they complete.
LoopSpec == FairSpec /\ \A w \in Waiters : WF_vars(Complete(w))

--------------------------------------------------------------------------------
(* Properties                                                              *)

\* cancel() returns with every token the source lists cancelled, whatever
\* create_token() calls race it: the lock of the list is held throughout.
CancelSetsAll ==
  [][cancelling /\ ~cancelling' => \A t \in tokens' : is_cancelled'[t]]_vars

\* No wait is refused on a source nobody cancelled.
RefusedOnlyAfterCancel ==
  \A w \in Waiters : phase[w] = "refused" => source_cancelled

\* A loop that waits on its token again and again stops doing so once the token
\* is cancelled: a notification lost between the load and the select! costs at
\* most the wait under way, as long as the awaited futures complete.
CancelStopsLoopingCallers ==
  \A w \in Waiters, t \in Tokens :
    is_cancelled[t] ~> [](phase[w] \in {"checked", "waiting"} => on[w] # t)

\* What the test at cancellation_token.rs:299-301 expects of a source's token,
\* asked of the token new_with_a_token() returns.
CancelReachesPreissued ==
  source_cancelled /\ ~cancelling => \A t \in Preissued : is_cancelled[t]

\* The callers' view: where each call to wait_on stands.
WaitView ==
  [w \in Waiters |-> IF phase[w] = "idle" THEN "none"
                     ELSE IF phase[w] \in {"checked", "waiting"} THEN "pending"
                     ELSE phase[w]]

Latch == INSTANCE CancellationLatch WITH latched <- is_cancelled, wait <- WaitView

\* Without a preissued token, the source and its tokens implement the latch:
\* above all, a wait in progress is refused only when its own token is cancelled.
ImplementsLatch == Latch!LatchSpec

--------------------------------------------------------------------------------
(* The inductive invariant behind the theorems of CancellationTokenProofs  *)

\* The loop of cancel() has set the flag of every token it has passed.
PassedTokensAreCancelled ==
  cancelling => \A t \in tokens \ remaining : is_cancelled[t]

\* Nothing is cancelled, notified or refused before somebody calls cancel().
NothingBeforeCancel ==
  ~source_cancelled =>
    /\ ~cancelling
    /\ \A t \in Tokens : ~is_cancelled[t]
    /\ \A w \in Waiters : ~notified[w] /\ phase[w] # "refused"

\* A notification that can still refuse a wait comes from the wait's own token,
\* provided the source lists every token it issued.
NotifiedMeansCancelled ==
  Preissued = {} =>
    /\ issued = tokens
    /\ \A w \in Waiters :
         phase[w] = "waiting" /\ notified[w] => is_cancelled[on[w]]

\* The safety of cancel() and wait_on, in the form every step preserves.
CancellationInv ==
  /\ PassedTokensAreCancelled
  /\ NothingBeforeCancel
  /\ NotifiedMeansCancelled
  /\ \A w \in Waiters : phase[w] # "idle" => on[w] \in issued

================================================================================
