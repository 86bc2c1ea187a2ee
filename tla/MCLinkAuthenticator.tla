------------------------ MODULE MCLinkAuthenticator ------------------------
EXTENDS LinkAuthenticator, TLC

CONSTANTS t1, t2, t3

MCToken == {t1, t2, t3}
Symmetry == Permutations(MCToken)
=============================================================================
