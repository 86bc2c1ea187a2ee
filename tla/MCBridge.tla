------------------------------ MODULE MCBridge ------------------------------
EXTENDS Bridge, TLC

CONSTANTS b1, d1, d2, i1, m1, m2, a1, r1, noConn

\* Every client announces every capability: the handlers that refuse a client
\* for a missing one change nothing.
RoleOf(conns) ==
    [c \in conns |-> IF c \in {d1, d2} THEN "ide" ELSE "browser"]
FullCaps(conns) == [c \in conns |-> Capability]

TwoIdes == {b1, d1, d2}
TwoIdesRole == RoleOf(TwoIdes)
TwoIdesCaps == FullCaps(TwoIdes)
TwoIdesSymmetry ==
    {p @@ q : p \in Permutations({d1, d2}), q \in Permutations({m1, m2})}

Pair == {b1, d1}
PairRole == RoleOf(Pair)
PairCaps == FullCaps(Pair)
=============================================================================
