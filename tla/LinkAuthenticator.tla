-------------------------- MODULE LinkAuthenticator --------------------------
(***************************************************************************)
(* packages/bridge/src/linkAuthenticator.ts and auth.ts: the PIN with its  *)
(* rate limit, and the tokens a client presents in its hello.  Every call  *)
(* is synchronous, so each is one action; the clock moves between calls.   *)
(* All tokens of a bridge carry its own session and instance id, so those  *)
(* comparisons are not coordinates of the state.  The code's two lists are *)
(* kept in the order of their entries' issue or failure and are only       *)
(* appended to and filtered, so each is the set of the positions its       *)
(* entries have in the history it is filtered from.                        *)
(***************************************************************************)
EXTENDS Integers, FiniteSets, Sequences

CONSTANTS
    Role,         \* roles a token may be issued to
    Token,        \* token values
    MaxTokens,    \* MAX_ACTIVE_TOKENS_PER_ROLE, 64 in the code
    MaxFailures,  \* MAX_FAILURES, 5 in the code
    Window,       \* FAILURE_WINDOW_MS, 60 s in the code
    Cooldown,     \* COOLDOWN_MS, 60 s in the code
    Ttl,          \* TOKEN_TTL_MS, 24 h in the code
    MaxTime,      \* bound on the clock
    MaxWrong      \* bound on the wrong PINs compared since the last right one

ASSUME AuthenticatorAssumption ==
    /\ MaxTokens \in Nat \ {0}
    /\ MaxFailures \in Nat \ {0}
    /\ Window \in Nat \ {0}
    /\ Cooldown >= Window /\ Cooldown \in Nat
    /\ Ttl \in Nat \ {0}
    /\ "ide" \in Role
    /\ MaxTime \in Nat
    /\ MaxWrong \in Nat

VARIABLES
    now,            \* the clock
    tokens,         \* the tokens kept: their positions in issued
    failures,       \* the recent wrong PINs: their positions in wrong
    cooldownUntil,  \* -1 when undefined
    wrong,          \* the times of all wrong PINs since the last right one
    issued,         \* every token ever issued, oldest first
    revoked         \* the values ever revoked

vars == <<now, tokens, failures, cooldownUntil, wrong, issued, revoked>>

Issuance == [value : Token, role : Role, expiresAt : Nat]

TypeOK ==
    /\ now \in 0..MaxTime
    /\ tokens \subseteq DOMAIN issued
    /\ failures \subseteq DOMAIN wrong
    /\ cooldownUntil \in Nat \cup {-1}
    /\ wrong \in Seq(0..MaxTime)
    /\ issued \in Seq(Issuance)
    /\ revoked \subseteq Token

Init ==
    /\ now = 0
    /\ tokens = {} /\ failures = {} /\ cooldownUntil = -1
    /\ wrong = <<>> /\ issued = <<>> /\ revoked = {}

-----------------------------------------------------------------------------
Fresh == { t \in Token : \A k \in DOMAIN issued : issued[k].value # t }

\* pruneExpiredTokens
Unexpired(ts) == { k \in ts : issued[k].expiresAt > now }

OfRole(ts, r) == { k \in ts : issued[k].role = r }

Oldest(ts) == CHOOSE k \in ts : \A l \in ts : k <= l

\* Mutants of MakeRoom: a limit one too high; a limit on all roles together.
MakeRoom_Above(ts, r) ==
    IF Cardinality(OfRole(ts, r)) > MaxTokens
    THEN ts \ {Oldest(OfRole(ts, r))} ELSE ts

MakeRoom_AnyRole(ts, r) ==
    IF Cardinality(ts) >= MaxTokens THEN ts \ {Oldest(ts)} ELSE ts

\* The oldest tokens of the role go until there is room; the limit was kept
\* by every earlier call, so one is enough.
MakeRoom(ts, r) ==
    IF Cardinality(OfRole(ts, r)) >= MaxTokens
    THEN ts \ {Oldest(OfRole(ts, r))} ELSE ts

\* issueToken
IssueToken(r) ==
    \E t \in Fresh :
        /\ tokens' = MakeRoom(Unexpired(tokens), r) \cup {Len(issued) + 1}
        /\ issued' = Append(issued, [value |-> t, role |-> r,
                                    expiresAt |-> now + Ttl])

\* pruneFailures
Recent == { k \in failures : wrong[k] >= now - Window }

-----------------------------------------------------------------------------
\* An attempt during the cooldown: whatever the PIN, it is not looked at.
RateLimited ==
    /\ cooldownUntil # -1
    /\ now < cooldownUntil
    /\ failures' = Recent
    /\ UNCHANGED <<now, tokens, cooldownUntil, wrong, issued, revoked>>

CooledDown == cooldownUntil = -1 \/ now >= cooldownUntil

\* The failures an attempt that is compared starts from.
Counted == IF cooldownUntil = -1 THEN Recent ELSE {}

\* Mutant of WrongPin: the failure that starts the cooldown is one late.
WrongPin_Late ==
    /\ CooledDown
    /\ Len(wrong) < MaxWrong
    /\ wrong' = Append(wrong, now)
    /\ failures' = Counted \cup {Len(wrong) + 1}
    /\ cooldownUntil' = IF Cardinality(Counted) < MaxFailures THEN -1 ELSE now + Cooldown
    /\ UNCHANGED <<now, tokens, issued, revoked>>

\* attemptLink with a wrong PIN.
WrongPin ==
    /\ CooledDown
    /\ Len(wrong) < MaxWrong
    /\ wrong' = Append(wrong, now)
    /\ failures' = Counted \cup {Len(wrong) + 1}
    /\ cooldownUntil' = IF Cardinality(Counted) + 1 < MaxFailures
                        THEN -1 ELSE now + Cooldown
    /\ UNCHANGED <<now, tokens, issued, revoked>>

\* attemptLink with the right one.
RightPin(r) ==
    /\ CooledDown
    /\ failures' = {}
    /\ cooldownUntil' = -1
    /\ wrong' = <<>>
    /\ IssueToken(r)
    /\ UNCHANGED <<now, revoked>>

IssueTrustedToken ==
    /\ IssueToken("ide")
    /\ UNCHANGED <<now, failures, cooldownUntil, wrong, revoked>>

\* Mutant of ValidateToken: use extends a token's life, expired or not.
ValidateToken_Extends ==
    /\ issued' = [k \in DOMAIN issued |->
                     IF k \in tokens THEN [issued[k] EXCEPT !.expiresAt = now + 1]
                     ELSE issued[k]]
    /\ UNCHANGED <<now, tokens, failures, cooldownUntil, wrong, revoked>>

\* validateToken answers from the tokens that are left.
ValidateToken ==
    /\ tokens' = Unexpired(tokens)
    /\ UNCHANGED <<now, failures, cooldownUntil, wrong, issued, revoked>>

\* revokeToken, revokeRole and revokeAll keep the others.
Revoke(values) ==
    /\ tokens' = { k \in tokens : issued[k].value \notin values }
    /\ revoked' = revoked \cup values
    /\ UNCHANGED <<now, failures, cooldownUntil, wrong, issued>>

Values(ts) == { issued[k].value : k \in ts }

RevokeToken(t) == Revoke({t})
RevokeRole(r) == Revoke(Values(OfRole(tokens, r)))
RevokeAll == Revoke(Values(tokens))

Tick(n) ==
    /\ now + n <= MaxTime
    /\ now' = now + n
    /\ UNCHANGED <<tokens, failures, cooldownUntil, wrong, issued, revoked>>

Linking == RateLimited \/ WrongPin \/ \E r \in Role \ {"ide"} : RightPin(r)

Revoking ==
    \/ \E t \in Values(DOMAIN issued) : RevokeToken(t)
    \/ \E r \in Role : RevokeRole(r)
    \/ RevokeAll

Next == Linking \/ IssueTrustedToken \/ ValidateToken \/ Revoking \/ Tick(1)

Spec == Init /\ [][Next]_vars

-----------------------------------------------------------------------------
\* No window sees more than MaxFailures wrong PINs compared, however they are
\* spread over the cooldown's edges, unless a right one came between.
GuessesBounded ==
    \A t \in 0..MaxTime :
        Cardinality({ k \in DOMAIN wrong : t <= wrong[k] /\ wrong[k] < t + Window })
            <= MaxFailures

\* At most MaxTokens tokens are kept for each role.
TokensBounded ==
    /\ TypeOK
    /\ \A r \in Role : Cardinality(OfRole(tokens, r)) <= MaxTokens

LaterOfRole(k) ==
    { l \in DOMAIN issued : l > k /\ issued[l].role = issued[k].role }

\* A token that is neither revoked nor expired is accepted until MaxTokens
\* newer ones of its own role exist: linking a browser never costs an IDE its
\* token.
TokensKept ==
    \A k \in DOMAIN issued :
        \/ issued[k].value \in revoked
        \/ issued[k].expiresAt <= now
        \/ Cardinality(LaterOfRole(k)) >= MaxTokens
        \/ issued[k].value \in Values(tokens)

\* A token is accepted from its issue until it is lost for good.
Accepted == INSTANCE AcceptedTokens
                WITH accepted <- Values(Unexpired(tokens)),
                     used <- Values(DOMAIN issued)
LostForGood == Accepted!Spec
=============================================================================
