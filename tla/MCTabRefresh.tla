---------------------------- MODULE MCTabRefresh ----------------------------
EXTENDS TabRefresh

CONSTANTS w1, w2

OneWindow == {w1}
TwoWindows == {w1, w2}

OnlyFirst ==
    /\ \A t \in Tab : disk[t] = None \/ disk[t].window = w1
    /\ \A t \in Tab : mem.panel[t] # w2
    /\ mem.mark[w2] = None /\ w2 \notin mem.removing
    /\ \A i \in DOMAIN store : store[i].window # w2
    /\ \A i \in DOMAIN tasks : tasks[i].window # w2

Calls == {"open", "settings", "close", "remove", "window"}

\* Two calls, two tasks or one of each overlap in the first window; once the
\* second one comes into play, a call and a task of the first one.
FewAtATime ==
    LET calls == Cardinality({i \in DOMAIN store : store[i].kind \in Calls})
    IN  IF OnlyFirst THEN calls + Len(tasks) <= 2
        ELSE /\ calls <= 1 /\ Len(tasks) <= 1
             /\ \A i \in DOMAIN tasks : tasks[i].window = w1
=============================================================================
