------------------------ MODULE MCWindowConnection ------------------------
(* Instances of WindowConnection.                                          *)
EXTENDS WindowConnection, TLC

CONSTANTS p1, p2, t1, l1, l2, o1, o2

OnePanel == {p1}
TwoPanels == {p1, p2}
OneTab == {t1}
OneLink == {l1}
TwoLinks == {l1, l2}
TwoOps == {o1, o2}
=============================================================================
