--------------------------- MODULE AcceptedTokens ---------------------------
(***************************************************************************)
(* What the bridge relies on when a client says hello (module Bridge): a   *)
(* set of tokens that are accepted, each accepted from the moment it was   *)
(* issued until it is lost once and for all, by expiry, by revocation or   *)
(* because newer tokens took its place.                                    *)
(***************************************************************************)
CONSTANT Token

VARIABLES accepted, used

Init ==
    /\ accepted = {}
    /\ used = {}

Issue ==
    \E t \in Token \ used :
        /\ used' = used \cup {t}
        /\ t \in accepted'
        /\ accepted' \subseteq accepted \cup {t}

Lose ==
    /\ accepted' \subseteq accepted
    /\ UNCHANGED used

Spec == Init /\ [][Issue \/ Lose]_<<accepted, used>>
=============================================================================
