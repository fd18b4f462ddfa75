----------------------------- MODULE MCBreaker -----------------------------
(***************************************************************************)
(* Small breakers.                                                         *)
(***************************************************************************)
EXTENDS Breaker

D(clearing, tap, attempts) ==
    [clearing |-> clearing, reclose1 |-> 1, reclose2 |-> 2, tap |-> tap,
     attempts |-> attempts, reset |-> 2]

\* Breakers that trip at once, after a clearing time, and by the curve.
MCBreakers == {D(0, FALSE, 0), D(0, FALSE, 2), D(1, FALSE, 1), D(2, FALSE, 2),
               D(0, TRUE, 2), D(1, TRUE, 1)}

\* A breaker with a clearing time and no recloses (mMaxRecloseAttempts is 0
\* by default).
MCNoReclose == {D(1, FALSE, 0)}
=============================================================================
