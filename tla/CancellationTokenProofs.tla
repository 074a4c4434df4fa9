------------------------ MODULE CancellationTokenProofs ------------------------
(***************************************************************************)
(* Theorems about CancellationToken, for every set of tokens and waiters:  *)
(* type correctness, the inductive invariant, the two safety properties    *)
(* and, for a source without a preissued token, the refinement of          *)
(* CancellationLatch.                                                      *)
(***************************************************************************)
EXTENDS CancellationToken, TLAPS

\* Every variable of the source and of its callers keeps its type: in
\* particular, cancel()'s loop only ever visits tokens the source lists.
THEOREM TypeCorrect == Spec => []TypeOK
<1>1. Init => TypeOK
  BY TokenAssumption DEF Init, TypeOK, Phases
<1>2. TypeOK /\ [Next]_vars => TypeOK'
  <2> SUFFICES ASSUME TypeOK, [Next]_vars PROVE TypeOK'
    OBVIOUS
  <2> USE DEF TypeOK, Phases
  <2>1. CASE CancelStart
    BY <2>1 DEF CancelStart, waitVars
  <2>2. CASE NotifyWaiters
    BY <2>2 DEF NotifyWaiters
  <2>3. ASSUME NEW t \in Tokens, CancelOneToken(t) PROVE TypeOK'
    BY <2>3 DEF CancelOneToken, waitVars
  <2>4. ASSUME NEW t \in Tokens, create_token(t) PROVE TypeOK'
    BY <2>4 DEF create_token, waitVars
  <2>5. ASSUME NEW w \in Waiters, NEW t \in Tokens, CheckFlag(w, t) PROVE TypeOK'
    BY <2>5 DEF CheckFlag, sourceVars
  <2>6. ASSUME NEW w \in Waiters, Register(w) PROVE TypeOK'
    BY <2>6 DEF Register, sourceVars
  <2>7. ASSUME NEW w \in Waiters, Refuse(w) PROVE TypeOK'
    BY <2>7 DEF Refuse, sourceVars
  <2>8. ASSUME NEW w \in Waiters, Complete(w) PROVE TypeOK'
    BY <2>8 DEF Complete, sourceVars
  <2>9. ASSUME NEW w \in Waiters, Return(w) PROVE TypeOK'
    BY <2>9 DEF Return, sourceVars
  <2>10. CASE UNCHANGED vars
    BY <2>10 DEF vars, sourceVars, waitVars
  <2>11. QED
    BY <2>1, <2>2, <2>3, <2>4, <2>5, <2>6, <2>7, <2>8, <2>9, <2>10
    DEF Next, Cancel, Wait
<1>3. QED
  BY <1>1, <1>2, PTL DEF Spec

\* The safety of cancel() and wait_on: passed tokens are cancelled, nothing is
\* refused before a cancel(), and a notified wait belongs to a cancelled token.
THEOREM CancellationSafe == Spec => []CancellationInv
<1>1. Init => CancellationInv
  BY TokenAssumption DEF Init, CancellationInv, PassedTokensAreCancelled,
     NothingBeforeCancel, NotifiedMeansCancelled
<1>2. TypeOK /\ CancellationInv /\ [Next]_vars => CancellationInv'
  <2> SUFFICES ASSUME TypeOK, CancellationInv, [Next]_vars PROVE CancellationInv'
    OBVIOUS
  <2> USE DEF TypeOK, Phases, CancellationInv, PassedTokensAreCancelled,
              NothingBeforeCancel, NotifiedMeansCancelled
  <2>1. CASE CancelStart
    BY <2>1 DEF CancelStart, waitVars
  <2>2. CASE NotifyWaiters
    BY <2>2 DEF NotifyWaiters
  <2>3. ASSUME NEW t \in Tokens, CancelOneToken(t) PROVE CancellationInv'
    BY <2>3 DEF CancelOneToken, waitVars
  <2>4. ASSUME NEW t \in Tokens, create_token(t) PROVE CancellationInv'
    BY <2>4 DEF create_token, waitVars
  <2>5. ASSUME NEW w \in Waiters, NEW t \in Tokens, CheckFlag(w, t)
        PROVE  CancellationInv'
    BY <2>5 DEF CheckFlag, sourceVars
  <2>6. ASSUME NEW w \in Waiters, Register(w) PROVE CancellationInv'
    BY <2>6 DEF Register, sourceVars
  <2>7. ASSUME NEW w \in Waiters, Refuse(w) PROVE CancellationInv'
    BY <2>7 DEF Refuse, sourceVars
  <2>8. ASSUME NEW w \in Waiters, Complete(w) PROVE CancellationInv'
    BY <2>8 DEF Complete, sourceVars
  <2>9. ASSUME NEW w \in Waiters, Return(w) PROVE CancellationInv'
    BY <2>9 DEF Return, sourceVars
  <2>10. CASE UNCHANGED vars
    BY <2>10 DEF vars, sourceVars, waitVars
  <2>11. QED
    BY <2>1, <2>2, <2>3, <2>4, <2>5, <2>6, <2>7, <2>8, <2>9, <2>10
    DEF Next, Cancel, Wait
<1>3. QED
  BY <1>1, <1>2, TypeCorrect, PTL DEF Spec

\* No wait is refused on a source that nobody cancelled, even for the token
\* new_with_a_token() returns.
THEOREM RefusalsAreCancellations == Spec => []RefusedOnlyAfterCancel
<1>1. TypeOK /\ CancellationInv => RefusedOnlyAfterCancel
  BY DEF TypeOK, CancellationInv, NothingBeforeCancel, RefusedOnlyAfterCancel
<1>2. QED
  BY <1>1, TypeCorrect, CancellationSafe, PTL

\* cancel() returns with every listed token cancelled.
THEOREM CancelIsComplete == Spec => CancelSetsAll
<1>1. TypeOK /\ CancellationInv /\ [Next]_vars
      => [cancelling /\ ~cancelling' => \A t \in tokens' : is_cancelled'[t]]_vars
  <2> SUFFICES ASSUME TypeOK, CancellationInv, Next, cancelling, ~cancelling'
               PROVE  \A t \in tokens' : is_cancelled'[t]
    OBVIOUS
  <2>1. NotifyWaiters
    BY DEF Next, Cancel, CancelStart, CancelOneToken, create_token, Wait, CheckFlag,
           Register, Refuse, Complete, Return, sourceVars
  <2>2. QED
    BY <2>1 DEF NotifyWaiters, CancellationInv, PassedTokensAreCancelled
<1>2. QED
  BY <1>1, TypeCorrect, CancellationSafe, PTL DEF Spec, CancelSetsAll

\* A source that lists every token it issues gives its callers the latch of
\* CancellationLatch: each of its steps is a step of the latch or changes
\* nothing the callers see.
THEOREM SourceImplementsLatch ==
  ASSUME Preissued = {} PROVE Spec => ImplementsLatch
<1>1. Init => Latch!LatchInit
  BY DEF Init, Latch!LatchInit, WaitView
<1>2. TypeOK /\ CancellationInv /\ [Next]_vars => [Latch!LatchNext]_(Latch!latchVars)
  <2> SUFFICES ASSUME TypeOK, CancellationInv, [Next]_vars
               PROVE  Latch!LatchNext \/ UNCHANGED Latch!latchVars
    BY DEF Latch!latchVars
  <2> USE DEF TypeOK, Phases, WaitView
  <2>1. CASE CancelStart
    BY <2>1 DEF CancelStart, waitVars, Latch!latchVars
  <2>2. CASE NotifyWaiters
    BY <2>2 DEF NotifyWaiters, Latch!latchVars
  <2>3. ASSUME NEW t \in Tokens, CancelOneToken(t) PROVE Latch!LatchNext
    BY <2>3 DEF CancelOneToken, waitVars, Latch!LatchNext, Latch!Close
  <2>4. ASSUME NEW t \in Tokens, create_token(t) PROVE UNCHANGED Latch!latchVars
    BY <2>4 DEF create_token, waitVars, Latch!latchVars
  <2>5. ASSUME NEW w \in Waiters, NEW t \in Tokens, CheckFlag(w, t)
        PROVE  Latch!LatchNext
    BY <2>5 DEF CheckFlag, sourceVars, Latch!LatchNext, Latch!Begin
  <2>6. ASSUME NEW w \in Waiters, Register(w) PROVE UNCHANGED Latch!latchVars
    BY <2>6 DEF Register, sourceVars, Latch!latchVars
  <2>7. ASSUME NEW w \in Waiters, Refuse(w) PROVE Latch!LatchNext
    BY <2>7 DEF Refuse, sourceVars, Latch!LatchNext, Latch!Finish, CancellationInv,
                NotifiedMeansCancelled
  <2>8. ASSUME NEW w \in Waiters, Complete(w) PROVE Latch!LatchNext
    BY <2>8 DEF Complete, sourceVars, Latch!LatchNext, Latch!Finish
  <2>9. ASSUME NEW w \in Waiters, Return(w) PROVE Latch!LatchNext
    BY <2>9 DEF Return, sourceVars, Latch!LatchNext, Latch!Leave
  <2>10. CASE UNCHANGED vars
    BY <2>10 DEF vars, sourceVars, waitVars, Latch!latchVars
  <2>11. QED
    BY <2>1, <2>2, <2>3, <2>4, <2>5, <2>6, <2>7, <2>8, <2>9, <2>10
    DEF Next, Cancel, Wait
<1>3. QED
  BY <1>1, <1>2, TypeCorrect, CancellationSafe, PTL
  DEF Spec, ImplementsLatch, Latch!LatchSpec

================================================================================
