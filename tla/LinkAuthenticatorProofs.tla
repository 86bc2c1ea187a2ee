----------------------- MODULE LinkAuthenticatorProofs -----------------------
(***************************************************************************)
(* What the authenticator promises, for every limit, window, cooldown and  *)
(* lifetime the assumptions allow: how many guesses a window sees, how     *)
(* many tokens a role keeps, that a token is only ever lost to newer ones  *)
(* of its own role, and that it is lost once and for all.                  *)
(***************************************************************************)
EXTENDS LinkAuthenticator, FiniteSetTheorems,
        WellFoundedInduction, TLAPS

\* The wrong PINs compared in the window that starts at t.
InWindow(t) == { k \in DOMAIN wrong : t <= wrong[k] /\ wrong[k] < t + Window }

\* The wrong PINs that are too recent to be forgotten.
Remembered == { k \in DOMAIN wrong : wrong[k] > now - Window }

\* Before a cooldown every recent wrong PIN is counted; a cooldown outlasts
\* the window of each.
GuessesCounted ==
    /\ \A k \in DOMAIN wrong : wrong[k] <= now
    /\ cooldownUntil = -1 => /\ Remembered \subseteq failures
                             /\ Cardinality(failures) < MaxFailures
    /\ cooldownUntil # -1 =>
           \A k \in DOMAIN wrong : wrong[k] <= cooldownUntil - Cooldown

\* TokensKept, of positions rather than values.
PositionsKept ==
    \A k \in DOMAIN issued :
        \/ issued[k].value \in revoked
        \/ issued[k].expiresAt <= now
        \/ Cardinality(LaterOfRole(k)) >= MaxTokens
        \/ k \in tokens

GInv == TypeOK /\ GuessesCounted /\ GuessesBounded

KInv == TokensBounded /\ PositionsKept

-----------------------------------------------------------------------------
LEMMA PositionsFinite ==
  ASSUME NEW s, NEW S, s \in Seq(S)
  PROVE  IsFiniteSet(DOMAIN s) /\ Len(s) \in Nat /\ DOMAIN s = 1..Len(s)
<1>1. Len(s) \in Nat /\ DOMAIN s = 1..Len(s)
  OBVIOUS
<1> QED BY <1>1, FS_Interval

LEMMA IssuedParts ==
  ASSUME TypeOK
  PROVE  /\ DOMAIN issued \subseteq Nat
         /\ \A k \in DOMAIN issued : /\ issued[k].value \in Token
                                     /\ issued[k].expiresAt \in Nat
<1>1. \A k \in DOMAIN issued : issued[k] \in Issuance
  BY DEF TypeOK
<1>2. \A i \in Issuance : i.value \in Token /\ i.expiresAt \in Nat
  BY DEF Issuance
<1>3. DOMAIN issued \subseteq Nat
  BY DEF TypeOK
<1> QED BY <1>1, <1>2, <1>3

\* One more element than a set of at most n - 1.
LEMMA OneMore ==
  ASSUME NEW S, IsFiniteSet(S), NEW x
  PROVE  /\ IsFiniteSet(S \cup {x})
         /\ Cardinality(S) \in Nat
         /\ Cardinality(S \cup {x}) <= Cardinality(S) + 1
         /\ x \notin S => Cardinality(S \cup {x}) = Cardinality(S) + 1
<1>1. /\ IsFiniteSet(S \cup {x})
      /\ Cardinality(S \cup {x}) =
             IF x \in S THEN Cardinality(S) ELSE Cardinality(S) + 1
  BY FS_AddElement
<1>2. Cardinality(S) \in Nat
  BY FS_CardinalityType
<1> QED BY <1>1, <1>2

LEMMA Fewer ==
  ASSUME NEW S, IsFiniteSet(S), NEW T, T \subseteq S
  PROVE  /\ IsFiniteSet(T)
         /\ Cardinality(T) \in Nat /\ Cardinality(S) \in Nat
         /\ Cardinality(T) <= Cardinality(S)
<1>1. IsFiniteSet(T) /\ Cardinality(T) <= Cardinality(S)
  BY FS_Subset
<1> QED BY <1>1, FS_CardinalityType

-----------------------------------------------------------------------------
LEMMA TypeInvariance == Spec => []TypeOK
<1> USE AuthenticatorAssumption
<1>1. Init => TypeOK
  BY DEF Init, TypeOK
<1>2. ASSUME TypeOK, [Next]_vars PROVE TypeOK'
  <2> USE <1>2 DEF TypeOK
  <2>1. ASSUME NEW r \in Role, IssueToken(r), now' = now, revoked' = revoked
        PROVE  tokens' \subseteq DOMAIN issued' /\ issued' \in Seq(Issuance)
    <3>1. PICK t \in Fresh :
            /\ tokens' = MakeRoom(Unexpired(tokens), r) \cup {Len(issued) + 1}
            /\ issued' = Append(issued, [value |-> t, role |-> r,
                                         expiresAt |-> now + Ttl])
      BY <2>1 DEF IssueToken
    <3>2. [value |-> t, role |-> r, expiresAt |-> now + Ttl] \in Issuance
      BY DEF Issuance, Fresh
    <3>3. /\ issued' \in Seq(Issuance) /\ DOMAIN issued = 1..Len(issued)
          /\ DOMAIN issued' = 1..(Len(issued) + 1) /\ Len(issued) \in Nat
      BY <3>1, <3>2
    <3>4. MakeRoom(Unexpired(tokens), r) \subseteq tokens
      BY DEF MakeRoom, Unexpired
    <3> QED BY <3>1, <3>3, <3>4
  <2>2. CASE RateLimited
    BY <2>2 DEF RateLimited, Recent
  <2>3. CASE WrongPin
    <3>1. /\ wrong' \in Seq(0..MaxTime) /\ DOMAIN wrong = 1..Len(wrong)
          /\ DOMAIN wrong' = 1..(Len(wrong) + 1) /\ Len(wrong) \in Nat
      BY <2>3 DEF WrongPin
    <3>2. Counted \subseteq failures
      BY DEF Counted, Recent
    <3>3. failures' \subseteq DOMAIN wrong'
      BY <2>3, <3>1, <3>2 DEF WrongPin
    <3> QED BY <2>3, <3>1, <3>3 DEF WrongPin
  <2>4. ASSUME NEW r \in Role, RightPin(r) PROVE TypeOK'
    BY <2>1, <2>4 DEF RightPin
  <2>5. CASE IssueTrustedToken
    BY <2>1, <2>5 DEF IssueTrustedToken
  <2>6. CASE ValidateToken
    BY <2>6 DEF ValidateToken, Unexpired
  <2>7. ASSUME NEW S, S \subseteq Token, Revoke(S) PROVE TypeOK'
    BY <2>7 DEF Revoke
  <2>8. CASE Revoking
    <3>1. \A K : K \subseteq DOMAIN issued => Values(K) \subseteq Token
      BY IssuedParts DEF Values
    <3>2. \A r : OfRole(tokens, r) \subseteq DOMAIN issued
      BY DEF OfRole
    <3> QED BY <2>7, <2>8, <3>1, <3>2
            DEF Revoking, RevokeToken, RevokeRole, RevokeAll
  <2>9. CASE Tick(1)
    BY <2>9 DEF Tick
  <2>10. CASE UNCHANGED vars
    BY <2>10 DEF vars
  <2> QED BY <1>2, <2>2, <2>3, <2>4, <2>5, <2>6, <2>8, <2>9, <2>10
          DEF Next, Linking
<1> QED BY <1>1, <1>2, PTL DEF Spec

-----------------------------------------------------------------------------
\* A wrong PIN is compared: at most the MaxFailures-th in any window.
LEMMA WrongPinCounts ==
  ASSUME GInv, TypeOK', WrongPin
  PROVE  GuessesCounted' /\ GuessesBounded'
<1> DEFINE n == Len(wrong) + 1
           past == IF cooldownUntil = -1 THEN Remembered ELSE {}
<1> USE AuthenticatorAssumption
<1>1. /\ now \in Nat /\ now' = now /\ Len(wrong) \in Nat
      /\ DOMAIN wrong = 1..Len(wrong) /\ DOMAIN wrong' = DOMAIN wrong \cup {n}
      /\ n \notin DOMAIN wrong /\ wrong'[n] = now
      /\ \A k \in DOMAIN wrong : wrong'[k] = wrong[k] /\ wrong[k] \in Nat
  BY DEF GInv, TypeOK, WrongPin
<1>2. IsFiniteSet(DOMAIN wrong) /\ failures \subseteq DOMAIN wrong
  BY PositionsFinite DEF GInv, TypeOK
<1>3. CooledDown /\ cooldownUntil \in Nat \cup {-1}
  BY DEF WrongPin, GInv, TypeOK
<1>4. cooldownUntil # -1 => Remembered = {}
  <2> SUFFICES ASSUME cooldownUntil # -1, NEW k \in DOMAIN wrong
               PROVE  ~(wrong[k] > now - Window)
    BY DEF Remembered
  <2>1. wrong[k] <= cooldownUntil - Cooldown /\ now >= cooldownUntil
    BY <1>3 DEF GInv, GuessesCounted, CooledDown
  <2> QED BY <1>1, <1>3, <2>1
<1>5. Remembered \subseteq Counted
  <2>1. CASE cooldownUntil = -1
    <3>1. Remembered \subseteq failures
      BY <2>1 DEF GInv, GuessesCounted
    <3>2. \A k \in Remembered : wrong[k] >= now - Window
      BY <1>1 DEF Remembered
    <3> QED BY <2>1, <3>1, <3>2 DEF Counted, Recent
  <2> QED BY <1>4, <2>1
<1>6. IsFiniteSet(Counted) /\ Cardinality(Counted) \in Nat
      /\ Cardinality(Counted) < MaxFailures
  <2>1. CASE cooldownUntil = -1
    <3>1. Counted \subseteq failures
      BY <2>1 DEF Counted, Recent
    <3>2. IsFiniteSet(failures) /\ Cardinality(failures) < MaxFailures
      BY <1>2, <2>1, Fewer DEF GInv, GuessesCounted
    <3>3. /\ IsFiniteSet(Counted)
          /\ Cardinality(Counted) \in Nat /\ Cardinality(failures) \in Nat
          /\ Cardinality(Counted) <= Cardinality(failures)
      BY <3>1, <3>2, Fewer
    <3> QED BY <3>2, <3>3
  <2>2. CASE cooldownUntil # -1
    <3>1. Counted = {}
      BY <2>2 DEF Counted
    <3> QED BY <3>1, FS_EmptySet
  <2> QED BY <2>1, <2>2
<1>7. GuessesCounted'
  <2>1. \A k \in DOMAIN wrong' : wrong'[k] <= now'
    BY <1>1 DEF GInv, GuessesCounted
  <2>2. cooldownUntil' = -1 => /\ Remembered' \subseteq failures'
                               /\ Cardinality(failures') < MaxFailures
    <3> SUFFICES ASSUME cooldownUntil' = -1
                 PROVE  /\ Remembered' \subseteq failures'
                        /\ Cardinality(failures') < MaxFailures
      OBVIOUS
    <3>1. Cardinality(Counted) + 1 < MaxFailures /\ failures' = Counted \cup {n}
      BY <1>1 DEF WrongPin
    <3>2. Remembered' \subseteq Remembered \cup {n}
      BY <1>1 DEF Remembered
    <3>3. Cardinality(failures') <= Cardinality(Counted) + 1
          /\ Cardinality(failures') \in Nat
      <4>1. IsFiniteSet(failures')
        BY <1>6, <3>1, OneMore
      <4> QED BY <1>6, <3>1, <4>1, OneMore, FS_CardinalityType
    <3> QED BY <1>5, <1>6, <3>1, <3>2, <3>3
  <2>3. cooldownUntil' # -1 =>
          \A k \in DOMAIN wrong' : wrong'[k] <= cooldownUntil' - Cooldown
    <3>1. cooldownUntil' # -1 => cooldownUntil' = now + Cooldown
      BY DEF WrongPin
    <3> QED BY <1>1, <2>1, <3>1
  <2> QED BY <2>1, <2>2, <2>3 DEF GuessesCounted
<1>8. ASSUME NEW t \in 0..MaxTime
      PROVE  Cardinality(InWindow(t)') <= MaxFailures
  <2>1. t \in Nat
    BY <1>8
  <2>2. IsFiniteSet(InWindow(t)) /\ Cardinality(InWindow(t)) \in Nat
    BY <1>2, Fewer DEF InWindow
  <2>3. CASE t <= now /\ now < t + Window
    <3>1. InWindow(t) \subseteq Remembered
      BY <1>1, <2>1, <2>3 DEF InWindow, Remembered
    <3>2. Cardinality(InWindow(t)) <= Cardinality(Counted)
      BY <1>5, <1>6, <3>1, Fewer
    <3>3. InWindow(t)' = InWindow(t) \cup {n}
      BY <1>1, <2>3 DEF InWindow
    <3>4. Cardinality(InWindow(t) \cup {n}) <= Cardinality(InWindow(t)) + 1
          /\ Cardinality(InWindow(t) \cup {n}) \in Nat
      BY <2>2, OneMore, FS_CardinalityType
    <3> QED BY <1>6, <2>2, <3>2, <3>3, <3>4
  <2>4. CASE ~(t <= now /\ now < t + Window)
    <3>1. InWindow(t)' = InWindow(t)
      BY <1>1, <2>4 DEF InWindow
    <3>2. Cardinality(InWindow(t)) <= MaxFailures
      BY <1>8 DEF GInv, GuessesBounded, InWindow
    <3> QED BY <3>1, <3>2
  <2> QED BY <2>3, <2>4
<1>9. GuessesBounded'
  BY <1>8 DEF GuessesBounded, InWindow
<1> QED BY <1>7, <1>9

\* GuessesBounded: within any window of the failure window's length at most
\* MaxFailures wrong PINs are compared, unless a right one came between.
THEOREM GuessesAreBounded == Spec => []GuessesBounded
<1> USE AuthenticatorAssumption
<1>1. Init => GInv
  <2> SUFFICES ASSUME Init PROVE GInv
    OBVIOUS
  <2>1. TypeOK
    BY DEF Init, TypeOK
  <2>2. DOMAIN wrong = {} /\ Cardinality({}) = 0
    BY FS_EmptySet DEF Init
  <2>3. GuessesCounted
    BY <2>2 DEF GuessesCounted, Remembered, Init
  <2>4. GuessesBounded
    <3>1. \A t : InWindow(t) = {}
      BY <2>2 DEF InWindow
    <3> QED BY <2>2, <3>1 DEF GuessesBounded, InWindow
  <2> QED BY <2>1, <2>3, <2>4 DEF GInv
<1>2. ASSUME GInv, TypeOK', [Next]_vars PROVE GInv'
  <2>1. CASE WrongPin
    BY <1>2, <2>1, WrongPinCounts DEF GInv
  <2>2. ASSUME wrong' = wrong, now' = now, failures' = failures,
               cooldownUntil' = cooldownUntil
        PROVE  GInv'
    BY <1>2, <2>2 DEF GInv, GuessesCounted, GuessesBounded, Remembered
  <2>3. CASE RateLimited
    <3>1. cooldownUntil' # -1 /\ wrong' = wrong /\ now' = now
          /\ cooldownUntil' = cooldownUntil
      BY <2>3 DEF RateLimited
    <3> QED BY <1>2, <3>1 DEF GInv, GuessesCounted, GuessesBounded
  <2>4. ASSUME NEW r, RightPin(r) PROVE GInv'
    <3>1. wrong' = <<>> /\ cooldownUntil' = -1 /\ failures' = {}
      BY <2>4 DEF RightPin
    <3>2. DOMAIN wrong' = {} /\ Cardinality({}) = 0
      BY <3>1, FS_EmptySet
    <3>3. GuessesCounted'
      BY <3>1, <3>2 DEF GuessesCounted, Remembered
    <3>4. \A t : InWindow(t)' = {}
      BY <3>2 DEF InWindow
    <3> QED BY <1>2, <3>2, <3>3, <3>4 DEF GInv, GuessesBounded, InWindow
  <2>5. CASE Tick(1)
    <3>1. /\ wrong' = wrong /\ failures' = failures
          /\ cooldownUntil' = cooldownUntil /\ now' = now + 1
      BY <2>5 DEF Tick
    <3>2. now \in Nat /\ \A k \in DOMAIN wrong : wrong[k] \in Nat
      BY <1>2 DEF GInv, TypeOK
    <3>3. Remembered' \subseteq Remembered
      BY <3>1, <3>2 DEF Remembered
    <3>4. \A k \in DOMAIN wrong' : wrong'[k] <= now'
      BY <1>2, <3>1, <3>2 DEF GInv, GuessesCounted
    <3>5. GuessesCounted'
      BY <1>2, <3>1, <3>3, <3>4 DEF GInv, GuessesCounted
    <3> QED BY <1>2, <3>1, <3>5 DEF GInv, GuessesBounded
  <2>6. CASE IssueTrustedToken
    BY <2>2, <2>6 DEF IssueTrustedToken
  <2>7. CASE ValidateToken
    BY <2>2, <2>7 DEF ValidateToken
  <2>8. CASE Revoking
    BY <2>2, <2>8 DEF Revoking, RevokeToken, RevokeRole, RevokeAll, Revoke
  <2>9. CASE UNCHANGED vars
    BY <2>2, <2>9 DEF vars
  <2> QED BY <1>2, <2>1, <2>3, <2>4, <2>5, <2>6, <2>7, <2>8, <2>9
          DEF Next, Linking
<1>3. GInv => GuessesBounded
  BY DEF GInv
<1> QED BY <1>1, <1>2, <1>3, TypeInvariance, PTL DEF Spec

-----------------------------------------------------------------------------
LEMMA OldestExists ==
  ASSUME TypeOK, NEW S, S \subseteq DOMAIN issued, S # {}
  PROVE  Oldest(S) \in S /\ \A l \in S : Oldest(S) <= l
<1> DEFINE below(k) == { l \in S : l < k }
           T == { below(k) : k \in S }
<1>1. S \subseteq Nat /\ IsFiniteSet(S)
  BY IssuedParts, PositionsFinite, FS_Subset DEF TypeOK
<1>2. T \subseteq FiniteSubsetsOf(S) /\ T # {}
  <2>1. \A k \in S : below(k) \in SUBSET S
    OBVIOUS
  <2> HIDE DEF below
  <2>2. \A k \in S : below(k) \in FiniteSubsetsOf(S)
    BY <1>1, <2>1, FS_Subset DEF FiniteSubsetsOf
  <2> QED BY <2>2
<1>3. PICK X \in T : \A Y \in T : <<Y, X>> \notin StrictSubsetOrdering(S)
  BY <1>2, WFMin, FS_StrictSubsetOrderingWellFounded
<1>4. PICK k \in S : X = below(k)
  BY <1>3
<1>5. ASSUME NEW l \in S, l < k PROVE FALSE
  <2>1. below(l) \in T /\ below(l) \subseteq below(k)
    BY <1>1, <1>5
  <2>2. l \in below(k) /\ l \notin below(l)
    BY <1>1, <1>5
  <2> HIDE DEF below, T
  <2>3. <<below(l), X>> \in StrictSubsetOrdering(S)
    BY <1>2, <1>3, <1>4, <2>1, <2>2 DEF StrictSubsetOrdering, FiniteSubsetsOf
  <2> QED BY <1>3, <2>1, <2>3
<1>6. \A l \in S : k <= l
  BY <1>1, <1>5
<1> QED BY <1>6 DEF Oldest

\* A token is issued for the role r.
LEMMA IssueKeeps ==
  ASSUME TypeOK, KInv, NEW r \in Role, IssueToken(r), TypeOK',
         now' = now, revoked' = revoked
  PROVE  KInv'
<1> DEFINE n == Len(issued) + 1
           U == Unexpired(tokens)
           M == MakeRoom(U, r)
           Room == /\ Cardinality(OfRole(M, r) \cup {n}) <= MaxTokens
                   /\ \A k \in U \ M : Cardinality(LaterOfRole(k)') >= MaxTokens
<1> USE AuthenticatorAssumption
<1>1. /\ Len(issued) \in Nat /\ DOMAIN issued = 1..Len(issued)
      /\ DOMAIN issued' = DOMAIN issued \cup {n} /\ n \notin DOMAIN issued
      /\ \A k \in DOMAIN issued : issued'[k] = issued[k] /\ k < n
      /\ issued'[n].role = r /\ issued'[n].expiresAt = now + Ttl
      /\ tokens' = M \cup {n}
  <2>1. PICK t \in Fresh :
          /\ tokens' = M \cup {n}
          /\ issued' = Append(issued, [value |-> t, role |-> r,
                                       expiresAt |-> now + Ttl])
    BY DEF IssueToken
  <2> HIDE DEF M
  <2>2. issued \in Seq(Issuance)
    BY DEF TypeOK
  <2> QED BY <2>1, <2>2
<1>2. /\ M \subseteq U /\ U \subseteq tokens /\ tokens \subseteq DOMAIN issued
      /\ IsFiniteSet(DOMAIN issued)
  BY PositionsFinite DEF MakeRoom, Unexpired, TypeOK
<1>3. ASSUME NEW q \in Role, NEW K, K \subseteq tokens
      PROVE  /\ IsFiniteSet(OfRole(K, q))
             /\ Cardinality(OfRole(K, q)) \in Nat
             /\ Cardinality(OfRole(K, q)) <= MaxTokens
  <2>1. OfRole(tokens, q) \subseteq DOMAIN issued
        /\ OfRole(K, q) \subseteq OfRole(tokens, q)
    BY <1>2, <1>3 DEF OfRole
  <2>2. IsFiniteSet(OfRole(tokens, q))
    BY <1>2, <2>1, Fewer
  <2>3. Cardinality(OfRole(tokens, q)) <= MaxTokens
    BY DEF KInv, TokensBounded
  <2> QED BY <2>1, <2>2, <2>3, Fewer
<1>4. \A q \in Role : OfRole(tokens, q)'
                      = OfRole(M, q) \cup (IF q = r THEN {n} ELSE {})
  <2> HIDE DEF M, U
  <2> QED BY <1>1, <1>2 DEF OfRole
<1>5. ASSUME Cardinality(OfRole(U, r)) >= MaxTokens PROVE Room
  <2>1. /\ IsFiniteSet(OfRole(U, r)) /\ Cardinality(OfRole(U, r)) = MaxTokens
    BY <1>2, <1>3, <1>5
  <2>2. OfRole(U, r) # {} /\ OfRole(U, r) \subseteq DOMAIN issued
    <3>1. Cardinality({}) = 0
      BY FS_EmptySet
    <3>2. OfRole(U, r) \subseteq U
      BY DEF OfRole
    <3> QED BY <1>2, <2>1, <3>1, <3>2
  <2>3. PICK x \in OfRole(U, r) : /\ x = Oldest(OfRole(U, r))
                                 /\ \A l \in OfRole(U, r) : x <= l
    BY <2>2, OldestExists
  <2>4. M = U \ {x}
    BY <1>5, <2>3 DEF MakeRoom
  <2> HIDE DEF M, U, n
  <2>5. OfRole(M, r) = OfRole(U, r) \ {x}
    BY <2>4 DEF OfRole
  <2>6. IsFiniteSet(OfRole(M, r)) /\ Cardinality(OfRole(M, r)) = MaxTokens - 1
    BY <2>1, <2>3, <2>5, FS_RemoveElement
  <2>7. n \notin OfRole(M, r)
    BY <1>1, <1>2 DEF OfRole
  <2>8. Cardinality(OfRole(M, r) \cup {n}) = MaxTokens
    BY <2>6, <2>7, OneMore
  <2>9. \A l \in (OfRole(M, r) \cup {n}) : l > x
    <3>1. \A l \in OfRole(M, r) : l \in OfRole(U, r) /\ l # x
      BY <2>5
    <3>2. \A l \in OfRole(U, r) : l \in Nat
      BY <1>1, <2>2
    <3>3. x < n
      BY <1>1, <2>2, <2>3
    <3> QED BY <1>1, <2>3, <3>1, <3>2, <3>3
  <2>10. /\ x \in DOMAIN issued' /\ issued'[x].role = r
         /\ OfRole(M, r) \cup {n} \subseteq LaterOfRole(x)'
    <3>1. x \in DOMAIN issued' /\ issued'[x].role = r
      BY <1>1, <2>2, <2>3 DEF OfRole
    <3>2. \A l \in OfRole(M, r) : l \in DOMAIN issued /\ issued[l].role = r
      BY <1>2 DEF OfRole
    <3> QED BY <1>1, <2>9, <3>1, <3>2 DEF LaterOfRole
  <2>11. Cardinality(LaterOfRole(x)') >= MaxTokens
    <3>1. IsFiniteSet(LaterOfRole(x)')
      <4>1. LaterOfRole(x)' \subseteq DOMAIN issued \cup {n}
        BY <1>1 DEF LaterOfRole
      <4> QED BY <1>2, <4>1, OneMore, FS_Subset
    <3> QED BY <2>8, <2>10, <3>1, Fewer
  <2> QED BY <2>4, <2>8, <2>11 DEF Room
<1>6. ASSUME ~(Cardinality(OfRole(U, r)) >= MaxTokens) PROVE Room
  <2>1. M = U
    BY <1>6 DEF MakeRoom
  <2>2. /\ IsFiniteSet(OfRole(U, r)) /\ Cardinality(OfRole(U, r)) \in Nat
        /\ Cardinality(OfRole(U, r)) < MaxTokens
    BY <1>2, <1>3, <1>6
  <2> HIDE DEF M, U, n
  <2>3. /\ Cardinality(OfRole(U, r) \cup {n}) <= Cardinality(OfRole(U, r)) + 1
        /\ IsFiniteSet(OfRole(U, r) \cup {n})
    BY <2>2, OneMore
  <2>4. Cardinality(OfRole(U, r) \cup {n}) \in Nat
    BY <2>3, FS_CardinalityType
  <2> QED BY <2>1, <2>2, <2>3, <2>4 DEF Room
<1>7. /\ Room
      /\ \A k \in DOMAIN issued :
             Cardinality(LaterOfRole(k)) >= MaxTokens
                 => Cardinality(LaterOfRole(k)') >= MaxTokens
  <2>1. Room
    BY <1>5, <1>6
  <2>2. ASSUME NEW k \in DOMAIN issued, Cardinality(LaterOfRole(k)) >= MaxTokens
        PROVE  Cardinality(LaterOfRole(k)') >= MaxTokens
    <3> HIDE DEF M, U, n
    <3>1. /\ LaterOfRole(k)' \subseteq DOMAIN issued \cup {n}
          /\ LaterOfRole(k) \subseteq LaterOfRole(k)'
      BY <1>1, <2>2 DEF LaterOfRole
    <3>2. IsFiniteSet(LaterOfRole(k)')
      BY <1>2, <3>1, OneMore, FS_Subset
    <3> QED BY <2>2, <3>1, <3>2, Fewer
  <2> QED BY <2>1, <2>2
<1>8. TokensBounded'
  <2>1. ASSUME NEW q \in Role
        PROVE  Cardinality(OfRole(tokens, q)') <= MaxTokens
    <3>1. CASE q = r
      BY <1>4, <1>7, <3>1
    <3>2. CASE q # r
      BY <1>2, <1>3, <1>4, <3>2
    <3> QED BY <3>1, <3>2
  <2> QED BY <2>1 DEF TokensBounded
<1>9. PositionsKept'
  <2> HIDE DEF M
  <2> SUFFICES ASSUME NEW k \in DOMAIN issued', k # n,
                      issued[k].value \notin revoked,
                      ~(issued[k].expiresAt <= now), k \notin M
               PROVE  Cardinality(LaterOfRole(k)') >= MaxTokens
    BY <1>1 DEF PositionsKept
  <2>1. k \in DOMAIN issued
    BY <1>1
  <2>2. CASE k \in tokens
    <3>1. issued[k].expiresAt > now
      BY <2>1, IssuedParts DEF TypeOK
    <3>2. k \in U
      BY <2>2, <3>1 DEF Unexpired
    <3> QED BY <1>7, <3>2
  <2>3. CASE k \notin tokens
    <3>1. Cardinality(LaterOfRole(k)) >= MaxTokens
      BY <2>1, <2>3 DEF KInv, PositionsKept
    <3> QED BY <1>7, <2>1, <3>1
  <2> QED BY <2>2, <2>3
<1> QED BY <1>8, <1>9 DEF KInv

-----------------------------------------------------------------------------
LEMMA KeptInvariance == Spec => []KInv
<1> USE AuthenticatorAssumption
<1>1. Init /\ TypeOK => KInv
  <2> SUFFICES ASSUME Init, TypeOK PROVE KInv
    OBVIOUS
  <2>1. DOMAIN issued = {} /\ \A r : OfRole(tokens, r) = {}
    BY DEF Init, OfRole
  <2>2. Cardinality({}) = 0
    BY FS_EmptySet
  <2>3. TokensBounded
    <3>1. 0 <= MaxTokens
      OBVIOUS
    <3>2. \A r \in Role : Cardinality(OfRole(tokens, r)) = 0
      BY <2>1, <2>2
    <3> QED BY <3>1, <3>2 DEF TokensBounded
  <2> QED BY <2>1, <2>3 DEF KInv, PositionsKept
<1>2. ASSUME TypeOK, KInv, TypeOK', [Next]_vars PROVE KInv'
  \* A step that issues nothing drops only what is expired or revoked.
  <2>1. ASSUME issued' = issued, revoked \subseteq revoked', now <= now',
               tokens' \subseteq tokens,
               \A k \in tokens \ tokens' : \/ issued[k].value \in revoked'
                                           \/ issued[k].expiresAt <= now'
        PROVE  KInv'
    <3>1. ASSUME NEW q \in Role
          PROVE  Cardinality(OfRole(tokens, q)') <= MaxTokens
      <4>1. /\ OfRole(tokens, q)' \subseteq OfRole(tokens, q)
            /\ OfRole(tokens, q) \subseteq DOMAIN issued
        BY <1>2, <2>1 DEF OfRole, TypeOK
      <4>2. IsFiniteSet(OfRole(tokens, q))
        BY <1>2, <4>1, PositionsFinite, FS_Subset DEF TypeOK
      <4>3. Cardinality(OfRole(tokens, q)) <= MaxTokens
        BY <1>2 DEF KInv, TokensBounded
      <4> QED BY <4>1, <4>2, <4>3, Fewer
    <3>2. TokensBounded'
      BY <1>2, <3>1 DEF TokensBounded
    <3>3. \A k : LaterOfRole(k)' = LaterOfRole(k)
      BY <2>1 DEF LaterOfRole
    <3>4. \A k \in DOMAIN issued : issued[k].expiresAt \in Nat
      BY <1>2, IssuedParts
    <3>5. now \in Nat /\ now' \in Nat
      BY <1>2 DEF TypeOK
    <3>6. PositionsKept'
      <4> SUFFICES ASSUME NEW k \in DOMAIN issued,
                          issued[k].value \notin revoked',
                          ~(issued[k].expiresAt <= now'), k \notin tokens'
                   PROVE  Cardinality(LaterOfRole(k)) >= MaxTokens
        BY <2>1, <3>3 DEF PositionsKept
      <4>1. issued[k].value \notin revoked /\ k \notin tokens
        BY <2>1
      <4>2. ~(issued[k].expiresAt <= now)
        BY <2>1, <3>4, <3>5
      <4> QED BY <1>2, <4>1, <4>2 DEF KInv, PositionsKept
    <3> QED BY <3>2, <3>6 DEF KInv
  <2>2. now \in Nat
    BY <1>2 DEF TypeOK
  <2>3. ASSUME NEW r \in Role \ {"ide"}, RightPin(r) PROVE KInv'
    BY <1>2, <2>3, IssueKeeps DEF RightPin
  <2>4. CASE IssueTrustedToken
    BY <1>2, <2>4, IssueKeeps DEF IssueTrustedToken
  <2>5. CASE ValidateToken
    <3>1. \A k \in DOMAIN issued : issued[k].expiresAt \in Nat
      BY <1>2, IssuedParts
    <3>2. /\ issued' = issued /\ revoked' = revoked /\ now' = now
          /\ tokens' = Unexpired(tokens) /\ tokens \subseteq DOMAIN issued
      BY <1>2, <2>5 DEF ValidateToken, TypeOK
    <3> QED BY <2>1, <2>2, <3>1, <3>2 DEF Unexpired
  <2>6. ASSUME NEW S, Revoke(S) PROVE KInv'
    BY <2>1, <2>2, <2>6 DEF Revoke
  <2>7. CASE Revoking
    BY <2>6, <2>7 DEF Revoking, RevokeToken, RevokeRole, RevokeAll
  <2>8. CASE RateLimited \/ WrongPin \/ UNCHANGED vars
    BY <2>1, <2>2, <2>8 DEF RateLimited, WrongPin, vars
  <2>9. CASE Tick(1)
    BY <2>1, <2>2, <2>9 DEF Tick
  <2> QED BY <1>2, <2>3, <2>4, <2>5, <2>7, <2>8, <2>9 DEF Next, Linking
<1> QED BY <1>1, <1>2, TypeInvariance, PTL DEF Spec

\* TokensBounded: no role keeps more than MaxTokens tokens.
THEOREM TokensAreBounded == Spec => []TokensBounded
<1>1. KInv => TokensBounded
  BY DEF KInv
<1> QED BY <1>1, KeptInvariance, PTL

\* TokensKept: a token that is neither revoked nor expired is accepted until
\* MaxTokens newer ones of its own role exist.
THEOREM TokensAreKept == Spec => []TokensKept
<1>1. KInv => TokensKept
  BY DEF KInv, PositionsKept, TokensKept, Values
<1> QED BY <1>1, KeptInvariance, PTL

-----------------------------------------------------------------------------
\* LostForGood: the authenticator implements AcceptedTokens, so a token that
\* is no longer accepted never is again.
THEOREM TokensAreLostForGood == Spec => LostForGood
<1> DEFINE kept == Values(Unexpired(tokens))
           used == Values(DOMAIN issued)
<1> USE AuthenticatorAssumption
<1>1. Init => Accepted!Init
  BY DEF Init, Accepted!Init, Values, Unexpired
<1>2. ASSUME TypeOK, TypeOK', [Next]_vars
      PROVE  [Accepted!Issue \/ Accepted!Lose]_<<kept, used>>
  <2>1. ASSUME issued' = issued, now <= now', tokens' \subseteq tokens
        PROVE  Accepted!Lose
    <3>1. used' = used
      BY <2>1 DEF Values
    <3>2. \A k \in DOMAIN issued : issued[k].expiresAt \in Nat
      BY <1>2, IssuedParts
    <3>3. now \in Nat /\ now' \in Nat /\ tokens \subseteq DOMAIN issued
      BY <1>2 DEF TypeOK
    <3>4. Unexpired(tokens)' \subseteq Unexpired(tokens)
      BY <2>1, <3>2, <3>3 DEF Unexpired
    <3>5. kept' \subseteq kept
      BY <2>1, <3>4 DEF Values
    <3> QED BY <3>1, <3>5 DEF Accepted!Lose
  <2>2. ASSUME NEW r \in Role, IssueToken(r), now' = now
        PROVE  Accepted!Issue
    <3> DEFINE n == Len(issued) + 1
               M == MakeRoom(Unexpired(tokens), r)
    <3>1. PICK t \in Fresh :
            /\ tokens' = M \cup {n}
            /\ issued' = Append(issued, [value |-> t, role |-> r,
                                         expiresAt |-> now + Ttl])
      BY <2>2 DEF IssueToken
    <3>2. M \subseteq Unexpired(tokens) /\ Unexpired(tokens) \subseteq DOMAIN issued
      BY <1>2 DEF MakeRoom, Unexpired, TypeOK
    <3>3. issued \in Seq(Issuance) /\ now \in Nat
      BY <1>2 DEF TypeOK
    <3> HIDE DEF M
    <3>4. /\ DOMAIN issued' = DOMAIN issued \cup {n}
          /\ \A k \in DOMAIN issued : issued'[k] = issued[k]
          /\ issued'[n].value = t /\ issued'[n].expiresAt > now'
      BY <2>2, <3>1, <3>3
    <3> HIDE DEF n
    <3>5. used' = used \cup {t} /\ t \in Token \ used
      BY <3>1, <3>4 DEF Values, Fresh
    <3>6. n \in Unexpired(tokens)'
      BY <3>1, <3>4 DEF Unexpired
    <3>7. t \in kept'
      BY <3>4, <3>6 DEF Values
    <3>8. Unexpired(tokens)' \subseteq Unexpired(tokens) \cup {n}
      BY <3>1, <3>2 DEF Unexpired
    <3>9. kept' \subseteq kept \cup {t}
      BY <3>2, <3>4, <3>8 DEF Values
    <3> QED BY <3>5, <3>7, <3>9 DEF Accepted!Issue
  <2>3. now \in Nat
    BY <1>2 DEF TypeOK
  <2>4. CASE Linking
    <3>1. CASE RateLimited \/ WrongPin
      BY <2>1, <2>3, <3>1 DEF RateLimited, WrongPin
    <3>2. ASSUME NEW r \in Role \ {"ide"}, RightPin(r) PROVE Accepted!Issue
      BY <2>2, <3>2 DEF RightPin
    <3> QED BY <2>4, <3>1, <3>2 DEF Linking
  <2>5. CASE IssueTrustedToken
    BY <2>2, <2>5 DEF IssueTrustedToken
  <2>6. CASE ValidateToken
    BY <2>1, <2>3, <2>6 DEF ValidateToken, Unexpired
  <2>7. CASE Revoking
    BY <2>1, <2>3, <2>7 DEF Revoking, RevokeToken, RevokeRole, RevokeAll, Revoke
  <2>8. CASE Tick(1) \/ UNCHANGED vars
    BY <2>1, <2>3, <2>8 DEF Tick, vars
  <2> QED BY <1>2, <2>4, <2>5, <2>6, <2>7, <2>8 DEF Next
<1>3. Accepted!Spec <=> Accepted!Init /\ [][Accepted!Issue \/ Accepted!Lose]_<<kept, used>>
  BY DEF Accepted!Spec
<1> QED BY <1>1, <1>2, <1>3, TypeInvariance, PTL DEF Spec, LostForGood
=============================================================================
