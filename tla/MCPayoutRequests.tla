-------------------------- MODULE MCPayoutRequests --------------------------
\* Two callers of the Organization and two operators on one queue.
EXTENDS PayoutRequests, TLC

CONSTANTS s1, b1, b2, a1, a2, o1, o2

QueueSymmetry == Permutations({b1, b2}) \cup Permutations({a1, a2})
                 \cup Permutations({o1, o2})
=============================================================================
