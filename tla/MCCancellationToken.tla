-------------------------- MODULE MCCancellationToken --------------------------
(* Instances of CancellationToken for TLC.                                 *)
EXTENDS CancellationToken

CONSTANTS t1, t2, t3, w1, w2

MCTokens == {t1, t2, t3}
MCWaiters == {w1, w2}
MCNone == {}
MCPreissued == {t1}

================================================================================
