---------------------- MODULE ReplyRouteRegistryProofs ----------------------
(***************************************************************************)
(* The table of routes, for any set of connections, inspect ids, matches,  *)
(* authorities and rule references, and for any limit.                     *)
(*                                                                         *)
(* First what the operators of ReplyRoutes preserve.  Sound says that the  *)
(* table is well formed, that the two indexes list exactly the live        *)
(* routes, and that authority is owned; Bounded that no client outgrows    *)
(* the limit.  BridgeProofs builds on these lemmas too.                    *)
(*                                                                         *)
(* Then the theorems about ReplyRouteRegistry.  Preparations need one fact *)
(* more: a fresh one still meets the condition it was made under, because  *)
(* every mutation makes all stale.  A committed registration keeps the     *)
(* table bounded because the route it pushes out is still the oldest.      *)
(***************************************************************************)
EXTENDS ReplyRouteRegistry, FiniteSetTheorems, TLAPS

\* The tables, functions on the ids that are live, and the registries, as sets.
Tables == UNION { [live -> Route] : live \in SUBSET Inspect }

Registry == [ routes   : Tables,
              byClient : [Conn -> SUBSET Inspect],
              byIde    : [Conn -> SUBSET Inspect],
              older    : SUBSET (Inspect \X Inspect) ]

Sound(r) == r \in Registry /\ IndexesExact(r) /\ AuthorityOwned(r)

\* AuthorityOwned of one route, and NoRegression of one route and of a registry.
Owned(t) ==
    /\ t.resGen # NoGen => t.ide # None
    /\ t.claimed => t.resGen # NoGen
    /\ t.matches # {} => t.claimed
    /\ t.rulesGen # NoGen => t.ide # None /\ t.rulesGen >= 1
    /\ t.auths # {} => t.rulesGen # NoGen

Follows(t, u) ==
    /\ u.origin = t.origin
    /\ u.expected = t.expected
    /\ t.ide # None => u.ide = t.ide
    /\ u.resGen >= t.resGen
    /\ u.rulesGen >= t.rulesGen
    /\ u.rulesGen = t.rulesGen => u.auths = t.auths

Advances(r, s) ==
    \A i \in Live(r) \cap Live(s) : Follows(r.routes[i], s.routes[i])

\* s is r with another answer for i, of this IDE and with these matches.
Answered(r, s, i, ide, matches) ==
    /\ Live(s) = Live(r)
    /\ \A j \in Live(r) \ {i} : s.routes[j] = r.routes[j]
    /\ s.routes[i].origin = r.routes[i].origin
    /\ s.routes[i].ide = ide
    /\ s.routes[i].matches = matches

Published(r, s, i, g, as) ==
    /\ s.routes[i].resGen = r.routes[i].resGen
    /\ s.routes[i].rulesGen = g
    /\ s.routes[i].auths = as

SameRules(r, s, i) ==
    /\ s.routes[i].rulesGen = r.routes[i].rulesGen
    /\ s.routes[i].auths = r.routes[i].auths

-----------------------------------------------------------------------------
(* What the operators preserve.                                            *)

\* A table maps each live id to a route, and any such function is a table.
LEMMA TableType ==
  ASSUME NEW f
  PROVE  f \in Tables <=> /\ DOMAIN f \subseteq Inspect
                          /\ f \in [DOMAIN f -> Route]
  BY DEF Tables

\* The members of Registry are what IsRegistry accepts.
LEMMA RegistryType == ASSUME NEW r PROVE r \in Registry <=> IsRegistry(r)
<1>1. ASSUME r \in Registry PROVE IsRegistry(r)
  <2>1. PICK live \in SUBSET Inspect : r.routes \in [live -> Route]
    BY <1>1 DEF Registry, Tables
  <2>2. r \in RegistryOn(live)
    BY <1>1, <2>1 DEF Registry, RegistryOn
  <2> QED BY <2>2 DEF IsRegistry
<1>2. ASSUME IsRegistry(r) PROVE r \in Registry
  <2>1. PICK live \in SUBSET Inspect : r \in RegistryOn(live)
    BY <1>2 DEF IsRegistry
  <2>2. r.routes \in Tables
    BY <2>1 DEF RegistryOn, Tables
  <2> QED BY <2>1, <2>2 DEF RegistryOn, Registry
<1> QED BY <1>1, <1>2

\* The parts of a sound registry.
LEMMA SoundParts ==
  ASSUME NEW r, Sound(r), NEW i \in Live(r)
  PROVE  /\ i \in Inspect
         /\ r.routes[i] \in Route
         /\ r.routes[i].origin \in Conn
         /\ i \in r.byClient[r.routes[i].origin]
<1>1. r.routes \in Tables
  BY DEF Sound, Registry
<1>2. i \in Inspect /\ r.routes[i] \in Route
  BY <1>1, TableType DEF Live
<1>3. r.routes[i].origin \in Conn
  BY <1>2 DEF Route
<1> QED BY <1>2, <1>3 DEF Sound, IndexesExact

\* The empty registry is sound.
LEMMA EmptyIsSound == Sound(EmptyRegistry)
<1>1. EmptyRegistry.routes \in Tables
  BY TableType DEF EmptyRegistry
<1> QED BY <1>1 DEF Sound, EmptyRegistry, Registry, IndexesExact, AuthorityOwned, Live

\* Touching a live route changes the order only.
LEMMA TouchIsSound ==
  ASSUME NEW r, Sound(r), NEW i \in Live(r)
  PROVE  Sound(Touch(r, i)) /\ Touch(r, i).routes = r.routes
<1> DEFINE c == r.routes[i].origin
           s == Touch(r, i)
<1>1. c \in Conn /\ i \in Inspect /\ i \in r.byClient[c]
  BY SoundParts
<1>2. r \in Registry
  BY DEF Sound
<1>3. [r.byClient EXCEPT ![c] = @ \cup {i}] = r.byClient
  BY <1>1, <1>2 DEF Registry
<1>4. /\ s.routes = r.routes
      /\ s.byClient = r.byClient
      /\ s.byIde = r.byIde
  BY <1>2, <1>3 DEF Touch, Registry
<1>5. Newest(r, c, i) \subseteq Inspect \X Inspect
  BY <1>1, <1>2 DEF Newest, Registry
<1>6. s \in Registry
  BY <1>1, <1>2, <1>5 DEF Touch, Registry
<1>7. IndexesExact(s) /\ AuthorityOwned(s)
  BY <1>4 DEF Sound, IndexesExact, AuthorityOwned, Live
<1> QED BY <1>4, <1>6, <1>7 DEF Sound

\* Dropping routes drops them from the table and from both indexes, and leaves
\* the other routes as they are.
LEMMA DropIsSound ==
  ASSUME NEW r, Sound(r), NEW S
  PROVE  /\ Sound(DropRoutes(r, S))
         /\ Live(DropRoutes(r, S)) = Live(r) \ S
         /\ \A j \in Live(r) \ S : DropRoutes(r, S).routes[j] = r.routes[j]
<1> DEFINE s == DropRoutes(r, S)
           gone == S \cap Live(r)
<1>1. /\ s.routes = [j \in Live(r) \ gone |-> r.routes[j]]
      /\ s.byClient = [c \in Conn |-> r.byClient[c]
                         \ { j \in gone : r.routes[j].origin = c }]
      /\ s.byIde = [c \in Conn |-> r.byIde[c]
                         \ { j \in gone : r.routes[j].ide = c }]
      /\ s.older = { p \in r.older : p[1] \notin gone /\ p[2] \notin gone }
      /\ s = [ routes |-> s.routes, byClient |-> s.byClient,
               byIde |-> s.byIde, older |-> s.older ]
  BY DEF DropRoutes
<1>2. Live(s) = Live(r) \ S /\ \A j \in Live(s) : s.routes[j] = r.routes[j]
  BY <1>1 DEF Live
<1>3. s.routes \in Tables
  <2>1. \A j \in Live(s) : j \in Inspect /\ s.routes[j] \in Route
    BY <1>2, SoundParts
  <2> QED BY <1>1, <1>2, <2>1, TableType DEF Live
<1>4. s \in Registry
  BY <1>1, <1>3 DEF Sound, Registry
<1>5. IndexesExact(s)
  BY <1>1, <1>2 DEF Sound, IndexesExact, Live
<1>6. AuthorityOwned(s)
  BY <1>2 DEF Sound, AuthorityOwned
<1> QED BY <1>2, <1>4, <1>5, <1>6 DEF Sound

\* A route follows itself.
LEMMA FollowsItself == ASSUME NEW t \in Route PROVE Follows(t, t)
  BY DEF Follows, Route, Gen, NoGen

\* A registry that keeps its routes advances.
LEMMA SameRoutesAdvance ==
  ASSUME NEW r, Sound(r), NEW s,
         \A i \in Live(r) \cap Live(s) : s.routes[i] = r.routes[i]
  PROVE  Advances(r, s)
  BY SoundParts, FollowsItself DEF Advances

\* A new route under an id that was free, with or without evictions.
LEMMA AddIsSound ==
  ASSUME NEW r, Sound(r), NEW i \in Inspect, i \notin Live(r),
         NEW c \in Conn, NEW refs \in SUBSET RuleRef, NEW S
  PROVE  LET s == AddRoute(r, i, c, refs, S)
         IN /\ Sound(s) /\ Advances(r, s)
            /\ s.routes[i] = NewRoute(c, refs)
            /\ \A j \in Live(s) \ {i} : j \in Live(r) /\ s.routes[j] = r.routes[j]
<1> DEFINE d == DropRoutes(r, S)
           s == AddRoute(r, i, c, refs, S)
<1>1. /\ Sound(d) /\ i \notin Live(d)
      /\ \A j \in Live(d) : j \in Live(r) /\ d.routes[j] = r.routes[j]
  BY DropIsSound
<1>2. d \in Registry
  BY <1>1 DEF Sound
<1>3. /\ s.routes = [j \in Live(d) \cup {i} |->
                       IF j = i THEN NewRoute(c, refs) ELSE d.routes[j]]
      /\ s.byClient = [d.byClient EXCEPT ![c] = @ \cup {i}]
      /\ s.byIde = d.byIde
      /\ s.older = Newest(d, c, i)
  BY <1>2 DEF AddRoute, Registry
<1>4. NewRoute(c, refs) \in Route /\ Owned(NewRoute(c, refs))
  BY DEF NewRoute, Route, Owned, NoGen
<1>5. Live(s) = Live(d) \cup {i}
  BY <1>3 DEF Live
<1>6. s.routes \in Tables
  <2>1. \A j \in Live(s) : j \in Inspect /\ s.routes[j] \in Route
    BY <1>1, <1>3, <1>4, <1>5, SoundParts
  <2> QED BY <1>3, <2>1, TableType DEF Live
<1>7. Newest(d, c, i) \subseteq Inspect \X Inspect
  BY <1>2 DEF Newest, Registry
<1>8. s \in Registry
  <2> DEFINE t == [j \in Live(d) \cup {i} |->
                    IF j = i THEN NewRoute(c, refs) ELSE d.routes[j]]
  <2>1. t \in Tables
    BY <1>3, <1>6
  <2>2. s = [d EXCEPT !.routes = t, !.byClient[c] = @ \cup {i},
                      !.older = Newest(d, c, i)]
    BY DEF AddRoute
  <2> SUFFICES ASSUME NEW f \in Tables, NEW o \in SUBSET (Inspect \X Inspect)
               PROVE  [d EXCEPT !.routes = f, !.byClient[c] = @ \cup {i},
                                !.older = o] \in Registry
    BY <1>7, <2>1, <2>2
  <2> HIDE DEF d
  <2> QED BY <1>2 DEF Registry
<1>9. IndexesExact(s)
  <2>1. IndexesExact(d) /\ d.byClient \in [Conn -> SUBSET Inspect]
    BY <1>1, <1>2 DEF Sound, Registry
  <2>2. s.routes[i].origin = c /\ s.routes[i].ide = None
    BY <1>3 DEF NewRoute
  <2>3. \A j \in Live(d) : s.routes[j] = d.routes[j] /\ j # i
    BY <1>1, <1>3
  <2>4. \A e \in Conn : s.byIde[e] = { j \in Live(s) : s.routes[j].ide = e }
    BY <1>3, <1>5, <2>1, <2>2, <2>3, RoutesAssumption DEF IndexesExact
  <2>5. \A e \in Conn : s.byClient[e] = { j \in Live(s) : s.routes[j].origin = e }
    BY <1>3, <1>5, <2>1, <2>2, <2>3 DEF IndexesExact
  <2> QED BY <2>4, <2>5 DEF IndexesExact
<1>10. AuthorityOwned(s)
  BY <1>1, <1>3, <1>4, <1>5 DEF Sound, AuthorityOwned, Owned
<1>11. Advances(r, s)
  BY <1>1, <1>3, <1>5, SameRoutesAdvance
<1>12. /\ s.routes[i] = NewRoute(c, refs)
       /\ \A j \in Live(s) \ {i} : j \in Live(r) /\ s.routes[j] = r.routes[j]
  BY <1>1, <1>3, <1>5
<1> QED BY <1>8, <1>9, <1>10, <1>11, <1>12 DEF Sound

\* Binding an unowned route to an IDE indexes it under that IDE.
LEMMA BindIsSound ==
  ASSUME NEW r, Sound(r), NEW i \in Live(r), NEW d \in Conn, OwnedOrFree(r, i, d)
  PROVE  LET b == BindIde(r, i, d)
             t == r.routes[i]
             u == b.routes[i]
         IN /\ Sound(b) /\ Live(b) = Live(r)
            /\ u.ide = d /\ u.origin = t.origin /\ u.expected = t.expected
            /\ u.resGen = t.resGen /\ u.rulesGen = t.rulesGen /\ u.auths = t.auths
            /\ u.claimed = t.claimed /\ u.matches = t.matches
            /\ \A j \in Live(r) \ {i} : b.routes[j] = r.routes[j]
<1> DEFINE b == BindIde(r, i, d)
           t == r.routes[i]
<1>0. t \in Route /\ i \in Inspect /\ r \in Registry /\ r.routes \in Tables
  BY SoundParts DEF Sound, Registry
<1>1. CASE t.ide # None
  BY <1>1 DEF BindIde, OwnedOrFree
<1>2. CASE t.ide = None
  <2> DEFINE u == [t EXCEPT !.ide = d]
             x == [r.byIde EXCEPT ![d] = @ \cup {i}]
  <2>1. b = [r EXCEPT !.routes[i].ide = d, !.byIde[d] = @ \cup {i}]
    BY <1>2 DEF BindIde
  <2>2. /\ b.routes = [r.routes EXCEPT ![i] = u] /\ b.byIde = x
        /\ b.byClient = r.byClient /\ b.older = r.older
    BY <1>0, <2>1 DEF Registry
  <2>3. /\ u \in Route /\ u.ide = d /\ u.origin = t.origin
        /\ u.expected = t.expected /\ u.resGen = t.resGen
        /\ u.rulesGen = t.rulesGen /\ u.auths = t.auths
        /\ u.claimed = t.claimed /\ u.matches = t.matches
    BY <1>0 DEF Route
  <2>4. r.routes \in [Live(r) -> Route] /\ Live(r) \subseteq Inspect
    BY <1>0, TableType DEF Live
  <2>5. b.routes \in [Live(r) -> Route] /\ Live(b) = Live(r)
    BY <2>2, <2>3, <2>4 DEF Live
  <2>6. /\ b.routes[i] = u
        /\ \A j \in Live(r) \ {i} : b.routes[j] = r.routes[j]
    BY <2>2, <2>4
  <2>7. b \in Registry
    <3>1. [r.routes EXCEPT ![i] = u] \in Tables
      BY <2>2, <2>4, <2>5, TableType
    <3>2. x \in [Conn -> SUBSET Inspect]
      BY <1>0 DEF Registry
    <3>3. b = [r EXCEPT !.routes = [r.routes EXCEPT ![i] = u], !.byIde = x]
      BY <2>1
    <3> QED BY <1>0, <3>1, <3>2, <3>3 DEF Registry
  <2>8. IndexesExact(b)
    <3>1. \A c \in Conn : b.byClient[c] = { j \in Live(b) : b.routes[j].origin = c }
      BY <2>2, <2>3, <2>5, <2>6 DEF Sound, IndexesExact
    <3>2. r.byIde \in [Conn -> SUBSET Inspect]
      BY <1>0 DEF Registry
    <3>3. \A c \in Conn : b.byIde[c] = { j \in Live(b) : b.routes[j].ide = c }
      BY <1>2, <2>2, <2>3, <2>5, <2>6, <3>2, RoutesAssumption DEF Sound, IndexesExact
    <3> QED BY <3>1, <3>3 DEF IndexesExact
  <2>9. AuthorityOwned(b)
    <3>1. \A j \in Live(r) : Owned(r.routes[j])
      BY DEF Sound, AuthorityOwned, Owned
    <3>2. d # None
      BY RoutesAssumption
    <3>3. Owned(u)
      BY <2>3, <3>1, <3>2 DEF Owned
    <3>4. \A j \in Live(b) : Owned(b.routes[j])
      BY <2>5, <2>6, <3>1, <3>3
    <3> QED BY <3>4 DEF AuthorityOwned, Owned
  <2> QED BY <2>3, <2>5, <2>6, <2>7, <2>8, <2>9 DEF Sound
<1> QED BY <1>1, <1>2

\* Replacing the answer of a route keeps its asker and its owner indexed.
LEMMA AnswerIsSound ==
  ASSUME NEW r, Sound(r), NEW i \in Live(r), NEW u \in Route, Owned(u),
         u.origin = r.routes[i].origin, u.ide = r.routes[i].ide
  PROVE  LET s == WithRoute(r, i, u)
         IN /\ Sound(s) /\ Live(s) = Live(r) /\ s.routes[i] = u
            /\ \A j \in Live(r) \ {i} : s.routes[j] = r.routes[j]
<1> DEFINE s == WithRoute(r, i, u)
<1>1. r \in Registry /\ r.routes \in Tables
  BY DEF Sound, Registry
<1>2. r.routes \in [Live(r) -> Route] /\ Live(r) \subseteq Inspect
  BY <1>1, TableType DEF Live
<1>3. /\ s.routes = [r.routes EXCEPT ![i] = u] /\ s.byIde = r.byIde
      /\ s.byClient = r.byClient /\ s.older = r.older
  BY <1>1 DEF WithRoute, Registry
<1>4. /\ s.routes \in [Live(r) -> Route] /\ Live(s) = Live(r)
      /\ s.routes[i] = u
      /\ \A j \in Live(r) \ {i} : s.routes[j] = r.routes[j]
  BY <1>2, <1>3 DEF Live
<1>5. s \in Registry
  <2>1. [r.routes EXCEPT ![i] = u] \in Tables
    BY <1>2, <1>3, <1>4, TableType
  <2>2. s = [r EXCEPT !.routes = [r.routes EXCEPT ![i] = u]]
    BY DEF WithRoute
  <2> QED BY <1>1, <2>1, <2>2 DEF Registry
<1>6. IndexesExact(s)
  BY <1>3, <1>4 DEF Sound, IndexesExact
<1>7. AuthorityOwned(s)
  BY <1>4 DEF Sound, AuthorityOwned, Owned
<1> QED BY <1>4, <1>5, <1>6, <1>7 DEF Sound

\* A claim by the owner, or by the first IDE to answer.
LEMMA ClaimIsSound ==
  ASSUME NEW r, Sound(r), NEW i, NEW d \in Conn, NEW g \in Nat,
         CanClaim(r, i, d, g), NEW claimed \in BOOLEAN
  PROVE  LET s == Claim(r, i, d, g, claimed)
         IN /\ Sound(s) /\ Advances(r, s)
            /\ Answered(r, s, i, d, {}) /\ SameRules(r, s, i)
            /\ s.routes[i].resGen = g
<1> DEFINE b == BindIde(r, i, d)
           u == [b.routes[i] EXCEPT !.resGen = g, !.claimed = claimed,
                                    !.matches = {}]
           s == WithRoute(b, i, u)
<1>1. /\ Sound(b) /\ Live(b) = Live(r) /\ i \in Live(b)
      /\ b.routes[i].ide = d /\ d # None
      /\ b.routes[i].origin = r.routes[i].origin
      /\ b.routes[i].expected = r.routes[i].expected
      /\ b.routes[i].rulesGen = r.routes[i].rulesGen
      /\ b.routes[i].auths = r.routes[i].auths
      /\ r.routes[i].ide \in {None, d} /\ g >= r.routes[i].resGen
      /\ \A j \in Live(r) \ {i} : b.routes[j] = r.routes[j]
  BY BindIsSound, RoutesAssumption DEF CanClaim, OwnedOrFree
<1>2. b.routes[i] \in Route /\ r.routes[i] \in Route
  BY <1>1, SoundParts
<1>3. /\ u \in Route /\ u.resGen = g /\ u.claimed = claimed /\ u.matches = {}
      /\ u.origin = b.routes[i].origin /\ u.expected = b.routes[i].expected
      /\ u.ide = d /\ u.rulesGen = b.routes[i].rulesGen
      /\ u.auths = b.routes[i].auths
  BY <1>1, <1>2 DEF Route, Gen
<1>4. Owned(u)
  BY <1>1, <1>3 DEF Owned, Sound, AuthorityOwned, NoGen
<1>5. Claim(r, i, d, g, claimed) = Touch(s, i)
  BY DEF Claim
<1> HIDE DEF b, u
<1>6. /\ Sound(s) /\ Live(s) = Live(r) /\ s.routes[i] = u
      /\ \A j \in Live(r) \ {i} : s.routes[j] = r.routes[j]
  BY <1>1, <1>3, <1>4, AnswerIsSound
<1>7. Follows(r.routes[i], u)
  BY <1>1, <1>2, <1>3 DEF Follows, Route, Gen, NoGen
<1>8. Advances(r, s)
  BY <1>6, <1>7, SoundParts, FollowsItself DEF Advances
<1> HIDE DEF s
<1>9. Sound(Touch(s, i)) /\ Touch(s, i).routes = s.routes
  BY <1>1, <1>6, TouchIsSound
<1>10. /\ u.origin = r.routes[i].origin /\ u.ide = d /\ u.resGen = g
       /\ u.matches = {} /\ u.rulesGen = r.routes[i].rulesGen
       /\ u.auths = r.routes[i].auths
  BY <1>1, <1>3
<1> QED BY <1>5, <1>6, <1>8, <1>9, <1>10 DEF Advances, Answered, SameRules, Live

\* An invalidation claims an owned route and clears an unowned one.
LEMMA InvalidateIsSound ==
  ASSUME NEW r, Sound(r), NEW i, NEW d \in Conn, NEW g \in Nat,
         CanInvalidate(r, i, d, g)
  PROVE  LET s == Invalidate(r, i, d, g)
         IN /\ Sound(s) /\ Advances(r, s)
            /\ Answered(r, s, i, r.routes[i].ide, {}) /\ SameRules(r, s, i)
<1>1. CASE r.routes[i].ide # None
  <2> DEFINE s == Claim(r, i, d, g, FALSE)
  <2>1. CanClaim(r, i, d, g) /\ r.routes[i].ide = d
    BY <1>1 DEF CanInvalidate, CanClaim, OwnedOrFree
  <2>2. /\ Sound(s) /\ Advances(r, s)
        /\ Answered(r, s, i, d, {}) /\ SameRules(r, s, i)
    BY <2>1, ClaimIsSound
  <2>3. Invalidate(r, i, d, g) = s
    BY <1>1 DEF Invalidate
  <2> HIDE DEF s
  <2> QED BY <2>1, <2>2, <2>3
<1>2. CASE r.routes[i].ide = None
  <2> DEFINE t == r.routes[i]
             u == [t EXCEPT !.matches = {}]
             s == WithRoute(r, i, u)
  <2>1. i \in Live(r) /\ t \in Route
    BY SoundParts DEF CanInvalidate
  <2>2. /\ u \in Route /\ u.matches = {} /\ u.origin = t.origin /\ u.ide = t.ide
        /\ u.expected = t.expected /\ u.resGen = t.resGen
        /\ u.claimed = t.claimed /\ u.rulesGen = t.rulesGen /\ u.auths = t.auths
    BY <2>1 DEF Route
  <2>3. Owned(u)
    BY <2>1, <2>2 DEF Owned, Sound, AuthorityOwned
  <2>4. Invalidate(r, i, d, g) = Touch(s, i)
    BY <1>2 DEF Invalidate
  <2>5. Follows(t, u)
    BY <2>1, <2>2 DEF Follows, Route, Gen, NoGen
  <2> HIDE DEF u
  <2>6. /\ Sound(s) /\ Live(s) = Live(r) /\ s.routes[i] = u
        /\ \A j \in Live(r) \ {i} : s.routes[j] = r.routes[j]
    BY <2>1, <2>2, <2>3, AnswerIsSound
  <2>7. Advances(r, s)
    BY <2>5, <2>6, SoundParts, FollowsItself DEF Advances
  <2> HIDE DEF s
  <2>8. Sound(Touch(s, i)) /\ Touch(s, i).routes = s.routes
    BY <2>1, <2>6, TouchIsSound
  <2>9. /\ u.origin = t.origin /\ u.ide = t.ide /\ u.matches = {}
        /\ u.rulesGen = t.rulesGen /\ u.auths = t.auths
    BY <2>2
  <2> QED BY <2>4, <2>6, <2>7, <2>8, <2>9 DEF Advances, Answered, SameRules, Live
<1> QED BY <1>1, <1>2

\* The excerpts of a claimed resolution.
LEMMA ReplaceIsSound ==
  ASSUME NEW r, Sound(r), NEW i, NEW d, NEW g, CanReplaceMatches(r, i, d, g),
         NEW ms \in SUBSET Match
  PROVE  LET s == ReplaceMatches(r, i, ms)
         IN /\ Sound(s) /\ Advances(r, s)
            /\ Answered(r, s, i, r.routes[i].ide, ms) /\ SameRules(r, s, i)
            /\ s.routes[i].resGen = r.routes[i].resGen
<1> DEFINE t == r.routes[i]
           u == [t EXCEPT !.matches = ms]
           s == WithRoute(r, i, u)
<1>1. i \in Live(r) /\ t \in Route /\ t.claimed
  BY SoundParts DEF CanReplaceMatches
<1>2. /\ u \in Route /\ u.origin = t.origin /\ u.ide = t.ide /\ u.matches = ms
      /\ u.expected = t.expected /\ u.resGen = t.resGen
      /\ u.claimed = t.claimed /\ u.rulesGen = t.rulesGen /\ u.auths = t.auths
  BY <1>1 DEF Route
<1>3. Owned(u)
  BY <1>1, <1>2 DEF Owned, Sound, AuthorityOwned
<1>4. ReplaceMatches(r, i, ms) = Touch(s, i)
  BY DEF ReplaceMatches
<1>5. Follows(t, u)
  BY <1>1, <1>2 DEF Follows, Route, Gen, NoGen
<1> HIDE DEF u
<1>6. /\ Sound(s) /\ Live(s) = Live(r) /\ s.routes[i] = u
      /\ \A j \in Live(r) \ {i} : s.routes[j] = r.routes[j]
  BY <1>1, <1>2, <1>3, AnswerIsSound
<1>7. Advances(r, s)
  BY <1>5, <1>6, SoundParts, FollowsItself DEF Advances
<1> HIDE DEF s
<1>8. Sound(Touch(s, i)) /\ Touch(s, i).routes = s.routes
  BY <1>1, <1>6, TouchIsSound
<1>9. /\ u.origin = t.origin /\ u.ide = t.ide /\ u.resGen = t.resGen
      /\ u.matches = ms /\ u.rulesGen = t.rulesGen /\ u.auths = t.auths
  BY <1>2
<1> QED BY <1>4, <1>6, <1>7, <1>8, <1>9 DEF Advances, Answered, SameRules, Live

\* Rule sources of a newer generation, from the owner or the first to answer.
LEMMA PublishIsSound ==
  ASSUME NEW r, Sound(r), NEW i, NEW d \in Conn, NEW g \in Nat,
         NEW as \in SUBSET Auth, CanPublishRules(r, i, d, g, as)
  PROVE  LET s == PublishRules(r, i, d, g, as)
         IN /\ Sound(s) /\ Advances(r, s)
            /\ Answered(r, s, i, d, r.routes[i].matches)
            /\ Published(r, s, i, g, as)
<1> DEFINE b == BindIde(r, i, d)
           u == [b.routes[i] EXCEPT !.rulesGen = g, !.auths = as]
           s == WithRoute(b, i, u)
<1>1. /\ Sound(b) /\ Live(b) = Live(r) /\ i \in Live(b)
      /\ b.routes[i].ide = d /\ d # None
      /\ b.routes[i].origin = r.routes[i].origin
      /\ b.routes[i].expected = r.routes[i].expected
      /\ b.routes[i].resGen = r.routes[i].resGen
      /\ b.routes[i].rulesGen = r.routes[i].rulesGen
      /\ b.routes[i].matches = r.routes[i].matches
      /\ r.routes[i].ide \in {None, d}
      /\ \A j \in Live(r) \ {i} : b.routes[j] = r.routes[j]
  BY BindIsSound, RoutesAssumption DEF CanPublishRules, OwnedOrFree
<1>2. b.routes[i] \in Route /\ r.routes[i] \in Route
  BY <1>1, SoundParts
<1>3. g >= 1 /\ g > r.routes[i].rulesGen
  <2>1. Owned(r.routes[i])
    BY <1>1 DEF Sound, AuthorityOwned, Owned
  <2> QED BY <1>2, <2>1 DEF CanPublishRules, Owned, Route, Gen, NoGen
<1>4. /\ u \in Route /\ u.rulesGen = g /\ u.auths = as
      /\ u.origin = b.routes[i].origin /\ u.expected = b.routes[i].expected
      /\ u.ide = d /\ u.resGen = b.routes[i].resGen
      /\ u.claimed = b.routes[i].claimed /\ u.matches = b.routes[i].matches
  BY <1>1, <1>2 DEF Route, Gen
<1>5. Owned(u)
  <2>1. Owned(b.routes[i])
    BY <1>1 DEF Sound, AuthorityOwned, Owned
  <2> HIDE DEF b, u
  <2>2. u.rulesGen # NoGen
    BY <1>3, <1>4 DEF NoGen
  <2> QED BY <1>1, <1>3, <1>4, <2>1, <2>2 DEF Owned
<1>6. PublishRules(r, i, d, g, as) = Touch(s, i)
  BY DEF PublishRules
<1> HIDE DEF b, u
<1>7. /\ Sound(s) /\ Live(s) = Live(r) /\ s.routes[i] = u
      /\ \A j \in Live(r) \ {i} : s.routes[j] = r.routes[j]
  BY <1>1, <1>4, <1>5, AnswerIsSound
<1>8. Follows(r.routes[i], u)
  <2>1. /\ r.routes[i].resGen \in Int /\ r.routes[i].rulesGen \in Int
        /\ r.routes[i].ide # None => r.routes[i].ide = d
    BY <1>1, <1>2 DEF Route, Gen, NoGen
  <2>2. u.resGen >= r.routes[i].resGen
    BY <1>1, <1>4, <2>1
  <2>3. u.rulesGen >= r.routes[i].rulesGen /\ u.rulesGen # r.routes[i].rulesGen
    BY <1>3, <1>4, <2>1
  <2>4. /\ u.origin = r.routes[i].origin
        /\ u.expected = r.routes[i].expected
        /\ r.routes[i].ide # None => u.ide = r.routes[i].ide
    BY <1>1, <1>4, <2>1
  <2> QED BY <2>2, <2>3, <2>4 DEF Follows
<1>9. Advances(r, s)
  BY <1>7, <1>8, SoundParts, FollowsItself DEF Advances
<1> HIDE DEF s
<1>10. Sound(Touch(s, i)) /\ Touch(s, i).routes = s.routes
  BY <1>1, <1>7, TouchIsSound
<1>11. /\ u.origin = r.routes[i].origin /\ u.ide = d
       /\ u.resGen = r.routes[i].resGen /\ u.matches = r.routes[i].matches
       /\ u.rulesGen = g /\ u.auths = as
  BY <1>1, <1>4
<1> QED BY <1>6, <1>7, <1>9, <1>10, <1>11 DEF Advances, Answered, Published, Live
-----------------------------------------------------------------------------
(***************************************************************************)
(* Why a client never has more routes than the limit: the touch order is a *)
(* strict total order on the routes of each client, so a client at the     *)
(* limit has an oldest route, and the registration that exceeds the limit  *)
(* pushes it out.                                                          *)
(***************************************************************************)
\* The order o on the routes that b lists for each client.
Ordered(b, o) ==
    /\ \A c, d \in Conn : \A i \in b[c] \cap b[d] : c = d
    /\ \A i, j : <<i, j>> \in o => \E c \in Conn : i \in b[c] /\ j \in b[c]
    /\ \A i, j : <<i, j>> \in o => <<j, i>> \notin o
    /\ \A c \in Conn : \A i, j \in b[c] :
           i # j => <<i, j>> \in o \/ <<j, i>> \in o
    /\ \A i, j, k : <<i, j>> \in o /\ <<j, k>> \in o => <<i, k>> \in o

Limited(b) ==
    \A c \in Conn : IsFiniteSet(b[c]) /\ Cardinality(b[c]) <= MaxRoutes

Bounded(r) == Ordered(r.byClient, r.older) /\ Limited(r.byClient)

-----------------------------------------------------------------------------
\* A route becomes the newest of its client's.
LEMMA NewestOrders ==
  ASSUME NEW r \in Registry, Ordered(r.byClient, r.older), NEW c \in Conn,
         NEW i \in Inspect, \A d \in Conn \ {c} : i \notin r.byClient[d]
  PROVE  Ordered([r.byClient EXCEPT ![c] = @ \cup {i}], Newest(r, c, i))
<1> DEFINE b == r.byClient
           o == r.older
           b2 == [b EXCEPT ![c] = @ \cup {i}]
           o2 == Newest(r, c, i)
<1>1. /\ b \in [Conn -> SUBSET Inspect] /\ o \in SUBSET (Inspect \X Inspect)
      /\ Ordered(b, o)
  BY DEF Registry
<1>2. /\ \A d \in Conn \ {c} : b2[d] = b[d]
      /\ b2[c] = b[c] \cup {i}
  BY <1>1
<1>3. \A j, k : <<j, k>> \in o2 <=> \/ <<j, k>> \in o /\ j # i /\ k # i
                                    \/ k = i /\ j \in b[c] \ {i}
  BY DEF Newest
<1> HIDE DEF b, o, b2, o2
<1>4. \A d, e \in Conn : \A j \in b2[d] \cap b2[e] : d = e
  BY <1>1, <1>2 DEF Ordered, b
<1>5. \A j, k : <<j, k>> \in o2 => \E d \in Conn : j \in b2[d] /\ k \in b2[d]
  BY <1>1, <1>2, <1>3 DEF Ordered
<1>6. \A j, k : <<j, k>> \in o2 => <<k, j>> \notin o2
  BY <1>1, <1>3 DEF Ordered
<1>7. \A d \in Conn : \A j, k \in b2[d] :
         j # k => <<j, k>> \in o2 \/ <<k, j>> \in o2
  <2> SUFFICES ASSUME NEW d \in Conn, NEW j \in b2[d], NEW k \in b2[d], j # k
               PROVE  <<j, k>> \in o2 \/ <<k, j>> \in o2
    OBVIOUS
  <2>1. CASE j # i /\ k # i
    <3>1. j \in b[d] /\ k \in b[d]
      BY <1>2, <2>1
    <3> QED BY <1>1, <1>3, <2>1, <3>1 DEF Ordered
  <2>2. CASE j = i \/ k = i
    <3>1. d = c
      BY <1>2, <2>2 DEF b
    <3> QED BY <1>2, <1>3, <2>2, <3>1
  <2> QED BY <2>1, <2>2
<1>8. ASSUME NEW j, NEW k, NEW l, <<j, k>> \in o2, <<k, l>> \in o2
      PROVE  <<j, l>> \in o2
  <2>1. k # i /\ <<j, k>> \in o /\ j # i
    BY <1>3, <1>8
  <2>2. CASE l = i
    <3>1. k \in b[c]
      BY <1>3, <1>8, <2>1, <2>2
    <3>2. j \in b[c]
      BY <1>1, <2>1, <3>1 DEF Ordered
    <3> QED BY <1>3, <2>1, <2>2, <3>2
  <2>3. CASE l # i
    <3>1. <<k, l>> \in o
      BY <1>3, <1>8, <2>3
    <3>2. <<j, l>> \in o
      BY <1>1, <2>1, <3>1 DEF Ordered
    <3> QED BY <1>3, <2>1, <2>3, <3>2
  <2> QED BY <2>2, <2>3
<1> QED BY <1>4, <1>5, <1>6, <1>7, <1>8 DEF Ordered, b, b2, o2

LEMMA EmptyIsBounded == Bounded(EmptyRegistry)
<1>1. EmptyRegistry.older = {} /\ \A c \in Conn : EmptyRegistry.byClient[c] = {}
  BY DEF EmptyRegistry
<1>2. Cardinality({}) = 0 /\ IsFiniteSet({})
  BY FS_EmptySet
<1>3. Limited(EmptyRegistry.byClient)
  BY <1>1, <1>2, RoutesAssumption DEF Limited
<1>4. Ordered(EmptyRegistry.byClient, EmptyRegistry.older)
  BY <1>1 DEF Ordered
<1> QED BY <1>3, <1>4 DEF Bounded

\* Touching a live route keeps the index, in a registry s in which only its
\* answer may differ from that of r.
LEMMA TouchIsBounded ==
  ASSUME NEW r, Sound(r), Bounded(r), NEW i \in Live(r), NEW s,
         DOMAIN s = DOMAIN r, s.byClient = r.byClient, s.older = r.older,
         s.routes[i].origin = r.routes[i].origin
  PROVE  Bounded(Touch(s, i))
<1> DEFINE c == r.routes[i].origin
           b2 == [r.byClient EXCEPT ![c] = @ \cup {i}]
<1>1. /\ r \in Registry /\ r.byClient \in [Conn -> SUBSET Inspect]
      /\ c \in Conn /\ i \in Inspect /\ i \in r.byClient[c]
  BY SoundParts DEF Sound, Registry
<1>2. b2 = r.byClient
  BY <1>1
<1>3. Touch(s, i).byClient = b2 /\ Touch(s, i).older = Newest(r, c, i)
  <2>1. "byClient" \in DOMAIN s /\ "older" \in DOMAIN s
    BY <1>1 DEF Registry
  <2> QED BY <2>1 DEF Touch, Newest
<1>4. \A d \in Conn \ {c} : i \notin r.byClient[d]
  BY <1>1 DEF Bounded, Ordered
<1>5. Ordered(b2, Newest(r, c, i))
  BY <1>1, <1>4, NewestOrders DEF Bounded
<1> QED BY <1>2, <1>3, <1>5 DEF Bounded

\* Answering a route, by the IDE that owns it or is the first.
LEMMA AnswerIsBounded ==
  ASSUME NEW r, Sound(r), Bounded(r), NEW i \in Live(r), NEW d, NEW u,
         u.origin = r.routes[i].origin
  PROVE  Bounded(Touch(WithRoute(r, i, u), i))
         /\ Bounded(Touch(WithRoute(BindIde(r, i, d), i, u), i))
<1> DEFINE b == BindIde(r, i, d)
<1>1. r \in Registry /\ DOMAIN r = {"routes", "byClient", "byIde", "older"}
  BY DEF Sound, Registry
<1>2. /\ DOMAIN b = DOMAIN r /\ b.byClient = r.byClient /\ b.older = r.older
      /\ DOMAIN b.routes = DOMAIN r.routes
  BY <1>1 DEF BindIde
<1> HIDE DEF b
<1>3. ASSUME NEW q, DOMAIN q = DOMAIN r, q.byClient = r.byClient,
             q.older = r.older, DOMAIN q.routes = DOMAIN r.routes
      PROVE  Bounded(Touch(WithRoute(q, i, u), i))
  <2> DEFINE s == WithRoute(q, i, u)
  <2>1. /\ DOMAIN s = DOMAIN r /\ s.byClient = r.byClient /\ s.older = r.older
        /\ s.routes[i] = u
    BY <1>1, <1>3 DEF WithRoute, Live
  <2> HIDE DEF s
  <2>2. Bounded(Touch(s, i))
    BY <2>1, TouchIsBounded
  <2> QED BY <2>2 DEF s
<1>4. Bounded(Touch(WithRoute(r, i, u), i))
  BY <1>3
<1>5. Bounded(Touch(WithRoute(b, i, u), i))
  BY <1>2, <1>3
<1> QED BY <1>4, <1>5 DEF b

\* The operations on the answer of one route.
LEMMA AnswersAreBounded ==
  ASSUME NEW r, Sound(r), Bounded(r), NEW i \in Live(r), NEW d \in Conn, NEW g,
         NEW claimed, NEW ms, NEW as
  PROVE  /\ Bounded(Claim(r, i, d, g, claimed))
         /\ Bounded(Invalidate(r, i, d, g))
         /\ Bounded(ReplaceMatches(r, i, ms))
         /\ Bounded(PublishRules(r, i, d, g, as))
<1> DEFINE t == r.routes[i]
           b == BindIde(r, i, d).routes[i]
<1>1. t \in Route /\ r \in Registry
  BY SoundParts DEF Sound
<1>2. b.origin = t.origin /\ DOMAIN b = DOMAIN t
  BY <1>1 DEF BindIde, Route, Registry, Live
<1>3. ASSUME NEW q, q.origin = t.origin, DOMAIN q = DOMAIN t
      PROVE  /\ \A x, y : [q EXCEPT !.resGen = g, !.claimed = x,
                                    !.matches = y].origin = t.origin
             /\ \A y : [q EXCEPT !.matches = y].origin = t.origin
             /\ [q EXCEPT !.rulesGen = g, !.auths = as].origin = t.origin
  BY <1>1, <1>3 DEF Route
<1> HIDE DEF t, b
<1>4. \A x : Bounded(Claim(r, i, d, g, x))
  BY <1>2, <1>3, AnswerIsBounded DEF Claim, t, b
<1>5. Bounded(ReplaceMatches(r, i, ms))
  BY <1>3, AnswerIsBounded DEF ReplaceMatches, t
<1>6. Bounded(PublishRules(r, i, d, g, as))
  BY <1>2, <1>3, AnswerIsBounded DEF PublishRules, t, b
<1>7. Bounded(Touch(WithRoute(r, i, [t EXCEPT !.matches = {}]), i))
  BY <1>3, AnswerIsBounded DEF t
<1>8. Bounded(Invalidate(r, i, d, g))
  BY <1>4, <1>7 DEF Invalidate, t
<1> QED BY <1>4, <1>5, <1>6, <1>8

\* Dropping routes leaves what remains in order.
LEMMA DropIsBounded ==
  ASSUME NEW r, Sound(r), Bounded(r), NEW S
  PROVE  Bounded(DropRoutes(r, S))
<1> DEFINE s == DropRoutes(r, S)
           gone == S \cap Live(r)
<1>1. /\ r.byClient \in [Conn -> SUBSET Inspect] /\ IndexesExact(r)
      /\ Ordered(r.byClient, r.older) /\ Limited(r.byClient)
  BY DEF Sound, Registry, Bounded
<1>2. \A c \in Conn : s.byClient[c] = r.byClient[c] \ gone
  BY <1>1 DEF DropRoutes, IndexesExact
<1>3. \A i, j : <<i, j>> \in s.older
                   <=> <<i, j>> \in r.older /\ i \notin gone /\ j \notin gone
  BY DEF DropRoutes
<1> HIDE DEF s, gone
<1>4. Ordered(s.byClient, s.older)
  <2>1. \A i, j : <<i, j>> \in s.older =>
            \E c \in Conn : i \in s.byClient[c] /\ j \in s.byClient[c]
    <3> SUFFICES ASSUME NEW i, NEW j, <<i, j>> \in s.older
                 PROVE  \E c \in Conn : i \in s.byClient[c] /\ j \in s.byClient[c]
      OBVIOUS
    <3>1. /\ i \notin gone /\ j \notin gone
          /\ \E c \in Conn : i \in r.byClient[c] /\ j \in r.byClient[c]
      BY <1>1, <1>3 DEF Ordered
    <3> QED BY <1>2, <3>1
  <2>2. /\ \A c, d \in Conn : \A i \in s.byClient[c] \cap s.byClient[d] : c = d
        /\ \A i, j : <<i, j>> \in s.older => <<j, i>> \notin s.older
    BY <1>1, <1>2, <1>3 DEF Ordered
  <2>3. /\ \A c \in Conn : \A i, j \in s.byClient[c] :
              i # j => <<i, j>> \in s.older \/ <<j, i>> \in s.older
        /\ \A i, j, k : <<i, j>> \in s.older /\ <<j, k>> \in s.older
                           => <<i, k>> \in s.older
    BY <1>1, <1>2, <1>3 DEF Ordered
  <2> QED BY <2>1, <2>2, <2>3 DEF Ordered
<1>5. ASSUME NEW c \in Conn
      PROVE  IsFiniteSet(s.byClient[c]) /\ Cardinality(s.byClient[c]) <= MaxRoutes
  <2>1. s.byClient[c] \in SUBSET r.byClient[c] /\ IsFiniteSet(r.byClient[c])
    BY <1>1, <1>2 DEF Limited
  <2>2. /\ IsFiniteSet(s.byClient[c])
        /\ Cardinality(s.byClient[c]) <= Cardinality(r.byClient[c])
    BY <2>1, FS_Subset
  <2>3. /\ Cardinality(s.byClient[c]) \in Nat /\ Cardinality(r.byClient[c]) \in Nat
        /\ Cardinality(r.byClient[c]) <= MaxRoutes /\ MaxRoutes \in Nat
    BY <1>1, <2>1, <2>2, FS_CardinalityType, RoutesAssumption DEF Limited
  <2> QED BY <2>2, <2>3
<1> QED BY <1>4, <1>5 DEF Bounded, Limited, s

\* A client that has routes has an oldest one: of the finite sets of the routes
\* older than each, one is minimal, and that one is empty.
LEMMA OldestExists ==
  ASSUME NEW r, Sound(r), Bounded(r), NEW c \in Conn, r.byClient[c] # {}
  PROVE  Oldest(r, c) # {}
<1> DEFINE B == r.byClient[c]
           before(i) == { j \in B : <<j, i>> \in r.older }
           T == { before(i) : i \in B }
<1>1. IsFiniteSet(B) /\ Ordered(r.byClient, r.older) /\ B # {}
  BY DEF Bounded, Limited
<1>2. T \subseteq FiniteSubsetsOf(B) /\ T # {}
  <2>1. \A i \in B : before(i) \in SUBSET B
    OBVIOUS
  <2> HIDE DEF before
  <2>2. \A i \in B : before(i) \in FiniteSubsetsOf(B)
    BY <1>1, <2>1, FS_Subset DEF FiniteSubsetsOf
  <2> QED BY <1>1, <2>2
<1>3. PICK X \in T : \A Y \in T : ~(<<Y, X>> \in StrictSubsetOrdering(B))
  BY <1>2, WFMin, FS_StrictSubsetOrderingWellFounded
<1>4. PICK i \in B : X = before(i)
  BY <1>3
<1>5. ASSUME NEW j \in before(i) PROVE FALSE
  <2>1. j \in B /\ <<j, i>> \in r.older
    OBVIOUS
  <2>2. before(j) \in T /\ before(j) \subseteq before(i)
    <3>1. ASSUME NEW k \in before(j) PROVE k \in before(i)
      <4>1. k \in B /\ <<k, j>> \in r.older
        OBVIOUS
      <4>2. <<k, i>> \in r.older
        BY <1>1, <2>1, <4>1 DEF Ordered
      <4> QED BY <4>1, <4>2
    <3>2. before(j) \in T
      BY <2>1
    <3> QED BY <3>1, <3>2
  <2>3. j \notin before(j)
    BY <1>1 DEF Ordered
  <2>4. before(j) # before(i)
    BY <2>3, <1>5
  <2>5. <<before(j), X>> \in StrictSubsetOrdering(B)
    <3>1. before(i) \in SUBSET B /\ before(j) \in SUBSET B
      OBVIOUS
    <3> QED BY <1>4, <2>2, <2>4, <3>1 DEF StrictSubsetOrdering
  <2> QED BY <1>3, <2>2, <2>5
<1>6. \A j \in B \ {i} : <<i, j>> \in r.older
  BY <1>1, <1>4, <1>5 DEF Ordered
<1>7. i \in Oldest(r, c)
  BY <1>4, <1>6 DEF Oldest
<1> QED BY <1>7

\* The limit is kept by the registration that exceeds it.
LEMMA AddIsBounded ==
  ASSUME NEW r, Sound(r), Bounded(r), NEW i \in Inspect, i \notin Live(r),
         NEW c \in Conn, NEW refs
  PROVE  Bounded(AddRoute(r, i, c, refs, Evicted(r, c)))
<1> DEFINE s == DropRoutes(r, Evicted(r, c))
           n == AddRoute(r, i, c, refs, Evicted(r, c))
           b2 == [s.byClient EXCEPT ![c] = @ \cup {i}]
<1>1. Sound(s) /\ Bounded(s) /\ Live(s) = Live(r) \ Evicted(r, c)
  BY DropIsSound, DropIsBounded
<1>2. s \in Registry /\ s.byClient \in [Conn -> SUBSET Inspect] /\ IndexesExact(s)
  BY <1>1 DEF Sound, Registry
<1>3. n.byClient = b2 /\ n.older = Newest(s, c, i)
  BY <1>2 DEF AddRoute, Registry
<1>4. s.byClient[c] = r.byClient[c] \ Evicted(r, c)
  BY <1>1 DEF DropRoutes, Sound, IndexesExact
<1> HIDE DEF s, n
<1>5. \A d \in Conn : i \notin s.byClient[d]
  BY <1>1, <1>2 DEF IndexesExact
<1>6. Ordered(b2, n.older)
  BY <1>1, <1>2, <1>3, <1>5, NewestOrders DEF Bounded
<1>7. IsFiniteSet(s.byClient[c]) /\ Cardinality(s.byClient[c]) < MaxRoutes
  <2>1. /\ IsFiniteSet(r.byClient[c]) /\ Cardinality(r.byClient[c]) <= MaxRoutes
        /\ IsFiniteSet(s.byClient[c])
    BY <1>1 DEF Bounded, Limited
  <2>2. /\ Cardinality(r.byClient[c]) \in Nat /\ Cardinality(s.byClient[c]) \in Nat
        /\ MaxRoutes \in Nat \ {0}
    BY <2>1, FS_CardinalityType, RoutesAssumption
  <2>3. CASE Cardinality(r.byClient[c]) < MaxRoutes
    <3>1. s.byClient[c] \in SUBSET r.byClient[c]
      BY <1>4
    <3>2. Cardinality(s.byClient[c]) <= Cardinality(r.byClient[c])
      BY <2>1, <3>1, FS_Subset
    <3> QED BY <2>1, <2>2, <2>3, <3>2
  <2>4. CASE Cardinality(r.byClient[c]) = MaxRoutes
    <3>1. r.byClient[c] # {}
      BY <2>2, <2>4, FS_EmptySet
    <3>2. PICK x \in Oldest(r, c) : TRUE
      BY <3>1, OldestExists
    <3>3. x \in r.byClient[c] /\ Evicted(r, c) = Oldest(r, c)
      BY <2>2, <2>4, <3>2 DEF Evicted, Oldest
    <3>4. s.byClient[c] \in SUBSET r.byClient[c] /\ s.byClient[c] # r.byClient[c]
      BY <1>4, <3>2, <3>3
    <3>5. /\ Cardinality(s.byClient[c]) <= Cardinality(r.byClient[c])
          /\ Cardinality(s.byClient[c]) # Cardinality(r.byClient[c])
      BY <2>1, <3>4, FS_Subset
    <3> QED BY <2>1, <2>2, <2>4, <3>5
  <2> QED BY <2>1, <2>2, <2>3, <2>4
<1>8. Limited(b2)
  <2> SUFFICES ASSUME NEW d \in Conn
               PROVE  IsFiniteSet(b2[d]) /\ Cardinality(b2[d]) <= MaxRoutes
    BY DEF Limited
  <2>1. CASE d = c
    <3>1. b2[d] = s.byClient[c] \cup {i}
      BY <1>2, <2>1
    <3>2. /\ IsFiniteSet(s.byClient[c] \cup {i})
          /\ Cardinality(s.byClient[c] \cup {i}) = Cardinality(s.byClient[c]) + 1
      BY <1>5, <1>7, FS_AddElement
    <3>3. Cardinality(s.byClient[c]) \in Nat /\ MaxRoutes \in Nat
      BY <1>7, FS_CardinalityType, RoutesAssumption
    <3>4. Cardinality(s.byClient[c]) + 1 <= MaxRoutes
      BY <1>7, <3>3
    <3> HIDE DEF b2
    <3> QED BY <3>1, <3>2, <3>4
  <2>2. CASE d # c
    <3>1. b2[d] = s.byClient[d]
      BY <1>2, <2>2
    <3> QED BY <1>1, <3>1 DEF Bounded, Limited
  <2> QED BY <2>1, <2>2
<1> QED BY <1>3, <1>6, <1>8 DEF Bounded, n

-----------------------------------------------------------------------------
\* What the runs check of a bounded registry.
LEMMA BoundedParts ==
  ASSUME NEW r \in Registry, Bounded(r)
  PROVE  OrderTotal(r) /\ WithinLimit(r)
<1>1. /\ r.older \subseteq Inspect \X Inspect
      /\ Ordered(r.byClient, r.older) /\ Limited(r.byClient)
  BY DEF Registry, Bounded
<1>2. \A p \in r.older : <<p[2], p[1]>> \notin r.older
  <2> SUFFICES ASSUME NEW p \in r.older PROVE <<p[2], p[1]>> \notin r.older
    OBVIOUS
  <2>1. p = <<p[1], p[2]>>
    BY <1>1
  <2> QED BY <1>1, <2>1 DEF Ordered
<1>3. OrderTotal(r)
  BY <1>1, <1>2 DEF OrderTotal, Ordered
<1> QED BY <1>1, <1>3 DEF WithinLimit, Limited

-----------------------------------------------------------------------------
(* The inductive invariant and what every step does.                       *)

IInv == RegistryTypeOK /\ Sound(registry) /\ FreshStillHolds

\* A mutation to a sound registry leaves no preparation fresh.
LEMMA StaleHolds ==
  ASSUME RegistryTypeOK, NEW P \in SUBSET prepared, prepared' = Stale(P),
         registry' \in Registry
  PROVE  RegistryTypeOK' /\ FreshStillHolds'
<1> DEFINE Preparation == NewRegistration \cup Refreshment \cup Publication
<1>1. \A p \in P : [p EXCEPT !.fresh = FALSE] \in Preparation
  <2> TAKE p \in P
  <2>1. p \in Preparation
    BY DEF RegistryTypeOK
  <2>2. CASE p \in NewRegistration
    BY <2>2 DEF NewRegistration
  <2>3. CASE p \in Refreshment
    BY <2>3 DEF Refreshment
  <2>4. CASE p \in Publication
    BY <2>4 DEF Publication
  <2> QED BY <2>1, <2>2, <2>3, <2>4
<1>2. \A p \in P : [p EXCEPT !.fresh = FALSE].fresh = FALSE
  BY DEF RegistryTypeOK, NewRegistration, Refreshment, Publication
<1>3. prepared' \subseteq Preparation /\ \A p \in prepared' : p.fresh = FALSE
  BY <1>1, <1>2 DEF Stale
<1>4. IsRegistry(registry')
  BY RegistryType
<1>5. RegistryTypeOK'
  BY <1>3, <1>4 DEF RegistryTypeOK
<1>6. FreshStillHolds'
  BY <1>3 DEF FreshStillHolds
<1> QED BY <1>5, <1>6

\* A mutation that keeps the registry sound and its routes advancing.
LEMMA MutateIsSound ==
  ASSUME IInv, NEW r, Sound(r), Advances(registry, r), Mutate(r)
  PROVE  IInv' /\ Advances(registry, registry')
<1>1. registry' \in Registry
  BY DEF Mutate, Sound
<1>2. RegistryTypeOK' /\ FreshStillHolds'
  BY <1>1, StaleHolds DEF IInv, Mutate
<1> QED BY <1>2 DEF IInv, Mutate

\* A preparation changes nothing else and meets its condition.
LEMMA PrepareIsSound ==
  ASSUME IInv, NEW p \in NewRegistration \cup Refreshment \cup Publication,
         Prepare(p),
         CASE p.kind = "created" ->
                 /\ p.inspect \notin Live(registry)
                 /\ p.evicted = Evicted(registry, p.conn)
           [] p.kind = "refreshed" -> p.inspect \in Live(registry)
           [] p.kind = "rules" ->
                 CanPublishRules(registry, p.inspect, p.conn, p.gen, p.auths)
  PROVE  IInv' /\ registry' = registry
<1>1. RegistryTypeOK' /\ registry' = registry
  BY DEF IInv, RegistryTypeOK, Prepare
<1>2. FreshStillHolds'
  BY DEF IInv, FreshStillHolds, Prepare
<1>3. Sound(registry')
  BY <1>1 DEF IInv
<1> QED BY <1>1, <1>2, <1>3 DEF IInv

\* Registering prepares only.
LEMMA RegisteringIsSound ==
  ASSUME IInv, Registering
  PROVE  IInv' /\ registry' = registry
<1>1. PICK i \in Inspect, c \in Conn, refs \in SUBSET RuleRef :
        PrepareNew(i, c, refs) \/ PrepareRefresh(i, c, refs)
  BY DEF Registering
<1>2. CASE PrepareNew(i, c, refs)
  <2> DEFINE p == [ kind |-> "created", inspect |-> i, conn |-> c, refs |-> refs,
                    evicted |-> Evicted(registry, c), fresh |-> TRUE ]
  <2>1. Prepare(p) /\ i \notin Live(registry)
    BY <1>2 DEF PrepareNew
  <2>2. Evicted(registry, c) \subseteq Inspect
    BY DEF IInv, Sound, Registry, Evicted, Oldest
  <2>3. p \in NewRegistration
    BY <2>2 DEF NewRegistration
  <2>4. /\ p.kind = "created" /\ p.inspect \notin Live(registry)
        /\ p.evicted = Evicted(registry, p.conn)
    BY <2>1
  <2> HIDE DEF p
  <2> QED BY <2>1, <2>3, <2>4, PrepareIsSound
<1>3. CASE PrepareRefresh(i, c, refs)
  <2> DEFINE p == [ kind |-> "refreshed", inspect |-> i, fresh |-> TRUE ]
  <2>1. Prepare(p) /\ i \in Live(registry)
    BY <1>3 DEF PrepareRefresh
  <2>2. p \in Refreshment
    BY DEF Refreshment
  <2>3. p.kind = "refreshed" /\ p.inspect \in Live(registry)
    BY <2>1
  <2> HIDE DEF p
  <2> QED BY <2>1, <2>2, <2>3, PrepareIsSound
<1> QED BY <1>1, <1>2, <1>3

\* A commit that applies performs its preparation's operation.
LEMMA CommittedIsSound ==
  ASSUME IInv, NEW p \in prepared, p.fresh
  PROVE  Sound(Committed(p)) /\ Advances(registry, Committed(p))
<1>1. p \in NewRegistration \cup Refreshment \cup Publication
  BY DEF IInv, RegistryTypeOK
<1>2. Sound(registry)
  BY DEF IInv
<1>3. CASE p \in NewRegistration
  <2>1. /\ p.kind = "created" /\ p.inspect \in Inspect /\ p.conn \in Conn
        /\ p.refs \in SUBSET RuleRef
    BY <1>3 DEF NewRegistration
  <2>2. p.inspect \notin Live(registry)
    BY <2>1 DEF IInv, FreshStillHolds
  <2>3. Committed(p) = AddRoute(registry, p.inspect, p.conn, p.refs, p.evicted)
    BY <2>1 DEF Committed
  <2> DEFINE s == AddRoute(registry, p.inspect, p.conn, p.refs, p.evicted)
  <2>4. Sound(s) /\ Advances(registry, s)
    BY <1>2, <2>1, <2>2, AddIsSound
  <2> QED BY <2>3, <2>4
<1>4. CASE p \in Refreshment
  <2>1. p.kind = "refreshed"
    BY <1>4 DEF Refreshment
  <2>2. p.inspect \in Live(registry)
    BY <2>1 DEF IInv, FreshStillHolds
  <2>3. Committed(p) = Touch(registry, p.inspect)
    BY <2>1 DEF Committed
  <2>4. /\ Sound(Committed(p))
        /\ Committed(p).routes = registry.routes
    BY <1>2, <2>2, <2>3, TouchIsSound
  <2> QED BY <1>2, <2>4, SameRoutesAdvance
<1>5. CASE p \in Publication
  <2>1. /\ p.kind = "rules" /\ p.conn \in Conn /\ p.gen \in Nat
        /\ p.auths \in SUBSET Auth
    BY <1>5 DEF Publication, Gen
  <2>2. CanPublishRules(registry, p.inspect, p.conn, p.gen, p.auths)
    BY <2>1 DEF IInv, FreshStillHolds
  <2>3. Committed(p) = PublishRules(registry, p.inspect, p.conn, p.gen, p.auths)
    BY <2>1 DEF Committed
  <2> DEFINE s == PublishRules(registry, p.inspect, p.conn, p.gen, p.auths)
  <2>4. Sound(s) /\ Advances(registry, s)
    BY <1>2, <2>1, <2>2, PublishIsSound
  <2> QED BY <2>3, <2>4
<1> QED BY <1>1, <1>3, <1>4, <1>5

LEMMA SettlingIsSound ==
  ASSUME IInv, Settling
  PROVE  IInv' /\ Advances(registry, registry')
<1>1. PICK p \in prepared : Commit(p) \/ Settle(p)
  BY DEF Settling
<1>2. CASE Commit(p)
  <2>1. p.fresh /\ registry' = Committed(p) /\ prepared' = Stale(prepared \ {p})
    BY <1>2 DEF Commit
  <2>2. Sound(registry') /\ Advances(registry, registry')
    BY <2>1, CommittedIsSound
  <2>3. registry' \in Registry
    BY <2>2 DEF Sound
  <2>4. RegistryTypeOK' /\ FreshStillHolds'
    BY <2>1, <2>3, StaleHolds DEF IInv
  <2> QED BY <2>2, <2>4 DEF IInv
<1>3. CASE Settle(p)
  <2>1. registry' = registry /\ prepared' \subseteq prepared
    BY <1>3 DEF Settle
  <2>2. RegistryTypeOK' /\ Sound(registry')
    BY <2>1 DEF IInv, RegistryTypeOK
  <2>3. FreshStillHolds'
    BY <2>1 DEF IInv, FreshStillHolds
  <2>4. Advances(registry, registry')
    BY <2>1, SameRoutesAdvance DEF IInv
  <2> QED BY <2>2, <2>3, <2>4 DEF IInv
<1> QED BY <1>1, <1>2, <1>3

\* Opening a rule or resolving a reply touches the route.
LEMMA TouchStep ==
  ASSUME IInv, NEW i \in Live(registry), Mutate(Touch(registry, i))
  PROVE  IInv' /\ Advances(registry, registry')
<1>1. /\ Sound(registry) /\ Sound(Touch(registry, i))
      /\ Touch(registry, i).routes = registry.routes
  BY TouchIsSound DEF IInv
<1>2. Advances(registry, Touch(registry, i))
  BY <1>1, SameRoutesAdvance
<1> QED BY <1>1, <1>2, MutateIsSound

LEMMA DropStep ==
  ASSUME IInv, NEW S, Mutate(DropRoutes(registry, S))
  PROVE  IInv' /\ Advances(registry, registry')
<1> DEFINE s == DropRoutes(registry, S)
<1>1. /\ Sound(registry) /\ Sound(s)
      /\ \A j \in Live(registry) \cap Live(s) : s.routes[j] = registry.routes[j]
  BY DropIsSound DEF IInv
<1> HIDE DEF s
<1>2. Advances(registry, s)
  BY <1>1, SameRoutesAdvance
<1> QED BY <1>1, <1>2, MutateIsSound DEF s

LEMMA AnsweringIsSound ==
  ASSUME IInv, Claiming
  PROVE  IInv' /\ Advances(registry, registry')
<1>1. PICK i \in Inspect, d \in Conn, g \in 0..MaxResGen :
        \/ ClaimResolution(i, d, g)
        \/ ClaimSourceInvalidation(i, d, g)
        \/ \E ms \in SUBSET Match : ReplaceMatchIds(i, d, g, ms)
  BY DEF Claiming
<1>2. g \in Nat /\ Sound(registry)
  BY RoutesAssumption DEF IInv
<1>3. CASE ClaimResolution(i, d, g)
  BY <1>2, <1>3, ClaimIsSound, MutateIsSound DEF ClaimResolution
<1>4. CASE ClaimSourceInvalidation(i, d, g)
  BY <1>2, <1>4, InvalidateIsSound, MutateIsSound DEF ClaimSourceInvalidation
<1>5. ASSUME NEW ms \in SUBSET Match, ReplaceMatchIds(i, d, g, ms)
      PROVE  IInv' /\ Advances(registry, registry')
  BY <1>2, <1>5, ReplaceIsSound, MutateIsSound DEF ReplaceMatchIds
<1> QED BY <1>1, <1>3, <1>4, <1>5

LEMMA PublishingIsSound ==
  ASSUME IInv, Publishing
  PROVE  IInv' /\ Advances(registry, registry')
<1>1. PICK i \in Inspect, d \in Conn, g \in 1..MaxRulesGen :
        \/ \E as \in SUBSET Auth : PrepareRules(i, d, g, as)
        \/ \E a \in Auth : AuthorizeRulesOpen(i, d, g, a)
  BY DEF Publishing
<1>2. Sound(registry) /\ g \in Nat
  BY RoutesAssumption DEF IInv
<1>3. ASSUME NEW as \in SUBSET Auth, PrepareRules(i, d, g, as)
      PROVE  IInv' /\ Advances(registry, registry')
  <2> DEFINE p == [ kind |-> "rules", inspect |-> i, conn |-> d, gen |-> g,
                    auths |-> as, fresh |-> TRUE ]
  <2>1. Prepare(p) /\ CanPublishRules(registry, i, d, g, as)
    BY <1>3 DEF PrepareRules
  <2>2. p \in Publication
    BY <1>2 DEF Publication, Gen
  <2>3. /\ p.kind = "rules"
        /\ CanPublishRules(registry, p.inspect, p.conn, p.gen, p.auths)
    BY <2>1
  <2> HIDE DEF p
  <2>4. IInv' /\ registry' = registry
    BY <2>1, <2>2, <2>3, PrepareIsSound
  <2> QED BY <1>2, <2>4, SameRoutesAdvance
<1>4. ASSUME NEW a \in Auth, AuthorizeRulesOpen(i, d, g, a)
      PROVE  IInv' /\ Advances(registry, registry')
  BY <1>4, TouchStep DEF AuthorizeRulesOpen, MayOpenRule
<1> QED BY <1>1, <1>3, <1>4

LEMMA RemovingIsSound ==
  ASSUME IInv, Removing
  PROVE  IInv' /\ Advances(registry, registry')
<1>1. ASSUME NEW i \in Inspect, Resolve(i)
      PROVE  IInv' /\ Advances(registry, registry')
  BY <1>1, TouchStep DEF Resolve
<1>2. ASSUME NEW i \in Inspect, Remove(i)
      PROVE  IInv' /\ Advances(registry, registry')
  BY <1>2, DropStep DEF Remove, RemoveRoute
<1>3. ASSUME NEW c \in Conn, RemoveConnection(c)
      PROVE  IInv' /\ Advances(registry, registry')
  BY <1>3, DropStep DEF RemoveConnection, RemoveClient
<1>4. CASE Clear
  <2>1. Advances(registry, EmptyRegistry)
    BY DEF Advances, EmptyRegistry, Live
  <2> QED BY <1>4, <2>1, EmptyIsSound, MutateIsSound DEF Clear
<1> QED BY <1>1, <1>2, <1>3, <1>4 DEF Removing

-----------------------------------------------------------------------------
(* The theorems.                                                           *)

LEMMA InitIsSound == RegistryInit => IInv
  BY EmptyIsSound, RegistryType
     DEF RegistryInit, IInv, RegistryTypeOK, FreshStillHolds, Sound

\* A step preserves the invariant and moves no live route backwards.
LEMMA NextIsSound ==
  ASSUME IInv, [RegistryNext]_registryVars
  PROVE  IInv' /\ Advances(registry, registry')
<1>1. CASE UNCHANGED registryVars
  <2>1. Advances(registry, registry)
    BY SameRoutesAdvance DEF IInv
  <2>2. registry' = registry /\ prepared' = prepared
    BY <1>1 DEF registryVars
  <2> QED BY <2>1, <2>2 DEF IInv, RegistryTypeOK, FreshStillHolds
<1>2. CASE Registering
  BY <1>2, RegisteringIsSound, SameRoutesAdvance DEF IInv
<1>3. CASE Claiming
  BY <1>3, AnsweringIsSound
<1>4. CASE Publishing
  BY <1>4, PublishingIsSound
<1>5. CASE Settling
  BY <1>5, SettlingIsSound
<1>6. CASE Removing
  BY <1>6, RemovingIsSound
<1> QED BY <1>1, <1>2, <1>3, <1>4, <1>5, <1>6 DEF RegistryNext

\* The inductive invariant.
THEOREM Invariance == RegistrySpec => []IInv
<1>1. IInv /\ [RegistryNext]_registryVars => IInv'
  BY NextIsSound
<1> QED BY InitIsSound, <1>1, PTL DEF RegistrySpec

\* The registry and its preparations are always well formed.
THEOREM TypeCorrect == RegistrySpec => []RegistryTypeOK
<1>1. IInv => RegistryTypeOK
  BY DEF IInv
<1> QED BY Invariance, <1>1, PTL

\* The indexes list exactly the live routes: removeByKey never throws, and a
\* disconnect leaves no route of its client behind.
THEOREM IndexesStayConsistent == RegistrySpec => []IndexConsistent
<1>1. IInv => IndexConsistent
  BY DEF IInv, Sound, IndexConsistent
<1> QED BY Invariance, <1>1, PTL

\* Every excerpt and rule that may be opened was issued by the IDE that owns
\* the route.
THEOREM AuthorityStaysOwned == RegistrySpec => []OwnedAuthority
<1>1. IInv => OwnedAuthority
  BY DEF IInv, Sound, OwnedAuthority
<1> QED BY Invariance, <1>1, PTL

\* A commit that applies finds what its preparation was checked against,
\* whatever was mutated, prepared, committed or rolled back in between.
THEOREM PreparationsHold == RegistrySpec => []FreshStillHolds
<1>1. IInv => FreshStillHolds
  BY DEF IInv
<1> QED BY Invariance, <1>1, PTL

\* A late answer never undoes a newer one, and a route never changes hands.
THEOREM NothingRegresses == RegistrySpec => NoRegression
<1> DEFINE A == \A i \in Live(registry) \cap Live(registry)' :
                  LET t == registry.routes[i]
                      u == registry'.routes[i]
                  IN /\ u.origin = t.origin
                     /\ u.expected = t.expected
                     /\ t.ide # None => u.ide = t.ide
                     /\ u.resGen >= t.resGen
                     /\ u.rulesGen >= t.rulesGen
                     /\ u.rulesGen = t.rulesGen => u.auths = t.auths
<1>1. IInv /\ [RegistryNext]_registryVars => [A]_registryVars
  BY NextIsSound DEF Advances, Follows, Live
<1> QED BY Invariance, <1>1, PTL DEF RegistrySpec, NoRegression

-----------------------------------------------------------------------------
(* The bound on the table.                                                 *)

LEMMA CommittedIsBounded ==
  ASSUME IInv, Bounded(registry), NEW p \in prepared, p.fresh
  PROVE  Bounded(Committed(p))
<1>1. /\ p \in NewRegistration \cup Refreshment \cup Publication
      /\ Sound(registry)
  BY DEF IInv, RegistryTypeOK
<1>2. CASE p \in NewRegistration
  <2>1. /\ p.kind = "created" /\ p.inspect \in Inspect /\ p.conn \in Conn
        /\ p.inspect \notin Live(registry)
        /\ p.evicted = Evicted(registry, p.conn)
    BY <1>2 DEF NewRegistration, IInv, FreshStillHolds
  <2>2. Committed(p) = AddRoute(registry, p.inspect, p.conn, p.refs,
                                Evicted(registry, p.conn))
    BY <2>1 DEF Committed
  <2> QED BY <1>1, <2>1, <2>2, AddIsBounded
<1>3. CASE p \in Refreshment
  <2>1. p.kind = "refreshed" /\ p.inspect \in Live(registry)
    BY <1>3 DEF Refreshment, IInv, FreshStillHolds
  <2>2. Committed(p) = Touch(registry, p.inspect)
    BY <2>1 DEF Committed
  <2> QED BY <1>1, <2>1, <2>2, TouchIsBounded
<1>4. CASE p \in Publication
  <2>1. p.kind = "rules" /\ p.conn \in Conn
    BY <1>4 DEF Publication
  <2>2. p.inspect \in Live(registry)
    BY <2>1 DEF IInv, FreshStillHolds, CanPublishRules
  <2>3. Committed(p) = PublishRules(registry, p.inspect, p.conn, p.gen, p.auths)
    BY <2>1 DEF Committed
  <2> QED BY <1>1, <2>1, <2>2, <2>3, AnswersAreBounded
<1> QED BY <1>1, <1>2, <1>3, <1>4

LEMMA RegistryNextIsBounded ==
  ASSUME IInv, Bounded(registry), [RegistryNext]_registryVars
  PROVE  Bounded(registry')
<1>1. Sound(registry)
  BY DEF IInv
<1>2. CASE Registering \/ UNCHANGED registryVars
  <2>1. registry' = registry
    BY <1>2, RegisteringIsSound DEF registryVars
  <2> QED BY <2>1
<1>3. CASE Claiming
  <2>1. PICK i \in Inspect, d \in Conn, g \in 0..MaxResGen :
          \/ ClaimResolution(i, d, g)
          \/ ClaimSourceInvalidation(i, d, g)
          \/ \E ms \in SUBSET Match : ReplaceMatchIds(i, d, g, ms)
    BY <1>3 DEF Claiming
  <2>2. /\ i \in Live(registry)
        /\ \/ registry' = Claim(registry, i, d, g, TRUE)
           \/ registry' = Invalidate(registry, i, d, g)
           \/ \E ms : registry' = ReplaceMatches(registry, i, ms)
    BY <2>1 DEF ClaimResolution, ClaimSourceInvalidation, ReplaceMatchIds,
       CanClaim, CanInvalidate, CanReplaceMatches, Mutate
  <2> QED BY <1>1, <2>2, AnswersAreBounded
<1>4. CASE Publishing
  <2>1. PICK i \in Inspect, d \in Conn, g \in 1..MaxRulesGen :
          \/ \E as \in SUBSET Auth : PrepareRules(i, d, g, as)
          \/ \E a \in Auth : AuthorizeRulesOpen(i, d, g, a)
    BY <1>4 DEF Publishing
  <2>2. \/ registry' = registry
        \/ i \in Live(registry) /\ registry' = Touch(registry, i)
    BY <2>1 DEF PrepareRules, Prepare, AuthorizeRulesOpen, MayOpenRule, Mutate
  <2> QED BY <1>1, <2>2, TouchIsBounded
<1>5. CASE Settling
  <2>1. \/ registry' = registry
        \/ \E p \in prepared : p.fresh /\ registry' = Committed(p)
    BY <1>5 DEF Settling, Commit, Settle
  <2> QED BY <2>1, CommittedIsBounded
<1>6. CASE Removing
  <2>1. \/ \E i \in Live(registry) : registry' = Touch(registry, i)
        \/ \E S : registry' = DropRoutes(registry, S)
        \/ registry' = EmptyRegistry
    BY <1>6 DEF Removing, Resolve, Remove, RemoveRoute, RemoveConnection,
       RemoveClient, Clear, Mutate
  <2> QED BY <1>1, <2>1, TouchIsBounded, DropIsBounded, EmptyIsBounded
<1> QED BY <1>2, <1>3, <1>4, <1>5, <1>6 DEF RegistryNext

\* No client has more routes than the limit, whatever preparations for it were
\* outstanding together, and one of them is the oldest: maxRoutesPerClient of
\* replyRouteRegistry.ts, for every value of it.
THEOREM TableStaysBounded == RegistrySpec => []BoundedTable
<1>1. RegistryInit => IInv /\ Bounded(registry)
  BY InitIsSound, EmptyIsBounded DEF RegistryInit
<1>2. IInv /\ Bounded(registry) /\ [RegistryNext]_registryVars => (IInv /\ Bounded(registry))'
  BY NextIsSound, RegistryNextIsBounded
<1>3. IInv /\ Bounded(registry) => BoundedTable
  BY BoundedParts DEF IInv, Sound, BoundedTable
<1> QED BY <1>1, <1>2, <1>3, PTL DEF RegistrySpec
=============================================================================
