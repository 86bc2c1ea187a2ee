------------------------ MODULE MCReplyRouteRegistry ------------------------
EXTENDS ReplyRouteRegistry, TLC

CONSTANTS c1, c2, i1, i2, m1, a1, r1, noConn

MCConn == {c1, c2}
MCInspect == {i1, i2}
MCMatch == {m1}
MCAuth == {a1}
MCRuleRef == {r1}

Symmetry == Permutations(MCConn) \cup Permutations(MCInspect)
=============================================================================
