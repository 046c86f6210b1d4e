----------------------------- MODULE MCMultiplex -----------------------------
EXTENDS Multiplex

CONSTANTS t1, t2, t3

\* Five pre-reserved ids.
MCCap == 5
\* Two ids past the pre-reserved ones: two get_next_id/subscribe pairs,
\* which two tasks can interleave.
MCMaxIdTwo == 7

\* The nested test opens two subscriptions on clones of one connection at
\* once (lines 347 and 367); a third task adds contention.
MCTasks == {t1, t2, t3}

=============================================================================
