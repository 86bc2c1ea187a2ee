---------------------------- MODULE MCIdeRuntime ----------------------------
EXTENDS IdeRuntime, TLC

CONSTANTS n1, n2

MCInstance == {n1, n2}
=============================================================================
