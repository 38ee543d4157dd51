----------------------------- MODULE MCJobQueue -----------------------------
(* Small instances of JobQueue for TLC.                                      *)
EXTENDS JobQueue, TLC

CONSTANTS j1, j2, w1, w2, p1, p2, q1, q2, k1

opt(q, k, p, m, d) ==
    [queue |-> q, key |-> k, priority |-> p, max_attempts |-> m, delay |-> d]

\* The numbers of attempts asked for are one beyond I32Max, one, and zero.
MCOptions == {opt(q1, k1, 0, I32Max + 1, 0), opt(q1, None, 1, 1, 1), opt(q2, k1, 0, 0, -1)}

\* Both workers serve q1, nobody serves q2.
MCWorkerQueue == w1 :> q1 @@ w2 :> q1
MCStaleAfter == w1 :> 1 @@ w2 :> 1
\* Nothing tells the two row ids, the two workers, or the two producers, apart.
MCSymmetry == Permutations({j1, j2}) \cup Permutations({w1, w2}) \cup Permutations({p1, p2})

\* For liveness: one queue, two interchangeable workers, leases that end at once.
MCPlainOptions == {opt(q1, None, 0, None, 0)}
MCShortLease == w1 :> 0 @@ w2 :> 0
=============================================================================
