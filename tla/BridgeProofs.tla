---------------------------- MODULE BridgeProofs ----------------------------
(***************************************************************************)
(* Theorems about Bridge, for any set of connections with any roles and    *)
(* capabilities, any ids, any limit and any of the faults.                 *)
(*                                                                         *)
(* The invariant has two halves.  SocketsInv is about the connections: a   *)
(* stopped bridge stays silent because the tokens it accepts after         *)
(* revokeAll, from link requests that were buffered, are ones no client    *)
(* ever learns.  RoutesInv is about the table: a route's ends have yet to  *)
(* see their close event, and what it authorises was delivered.  The bound *)
(* on the table follows, by the lemmas of ReplyRouteRegistryProofs.         *)
(***************************************************************************)
EXTENDS Bridge, ReplyRouteRegistryProofs

\* The connections' part of TypeOK
SocketsTyped ==
    /\ up \in BOOLEAN
    /\ closed \subseteq opened /\ opened \subseteq Conn
    /\ writable \subseteq opened \ closed
    /\ alive \subseteq opened
    /\ closing \subseteq opened
    /\ timing \subseteq opened \ closed
    /\ linked \subseteq Askers
    /\ registered \subseteq opened \ closed
    /\ clients \subseteq registered
    /\ missed \in [Conn -> 0..2]
    /\ auth \in [Conn -> Conn \cup {None}]
    /\ tokens \subseteq Conn
    /\ held \subseteq Conn
    /\ peer \in [connected : BOOLEAN, gen : Nat]
    /\ told \in [Conn -> [connected : BOOLEAN, gen : Nat \cup {-1}]]

\* An asker was given its token by its own link request.
HeldIsLinked == held \cap Askers \subseteq linked

\* A stopped bridge can tell nobody anything, and no one holds a token that
\* it would accept.
StoppedIsSilent ==
    ~up => /\ writable = {} /\ tokens \cap held = {}
           /\ clients = {} /\ peer = NoPeer

SocketsInv == SocketsTyped /\ HeldIsLinked /\ StoppedIsSilent /\ PeerViewsAgree

\* Answers of live routes
AnswersOf(answers, A, live) ==
    DOMAIN answers \subseteq live /\ answers \in [DOMAIN answers -> A]

\* RoutesEndWithSockets and AuthorityAsShown of one route
Ends(t, S) == t.origin \in S /\ t.ide \in S \cup {None}

SourceDelivered(t, i, answers) ==
    t.matches # {} =>
        /\ i \in DOMAIN answers
        /\ answers[i] = [to |-> t.origin, ide |-> t.ide, gen |-> t.resGen,
                         matches |-> t.matches]

RulesDelivered(t, i, answers) ==
    t.auths # {} =>
        /\ i \in DOMAIN answers
        /\ answers[i] = [to |-> t.origin, ide |-> t.ide, gen |-> t.rulesGen,
                         auths |-> t.auths]

RoutesInv ==
    /\ Sound(registry)
    /\ AnswersOf(shown, SourceAnswer, Live(registry))
    /\ AnswersOf(rulesShown, RulesAnswer, Live(registry))
    /\ \A i \in Live(registry) :
           /\ Ends(registry.routes[i], registered)
           /\ SourceDelivered(registry.routes[i], i, shown)
           /\ RulesDelivered(registry.routes[i], i, rulesShown)
    /\ ~up => Live(registry) = {}

BInv == SocketsInv /\ RoutesInv /\ RoutedAsShown

-----------------------------------------------------------------------------
(* The table.                                                              *)

\* Forgetting and adding keep answers what they are.
LEMMA ForgetType ==
  ASSUME NEW r, NEW A, NEW live, NEW f, AnswersOf(f, A, live)
  PROVE  /\ AnswersOf(Forget(f, r), A, Live(r))
         /\ \A i \in DOMAIN f \cap Live(r) :
                i \in DOMAIN Forget(f, r) /\ Forget(f, r)[i] = f[i]
  BY DEF Forget, AnswersOf

LEMMA WithType ==
  ASSUME NEW live, NEW A, NEW f, AnswersOf(f, A, live), NEW i \in live, NEW a \in A
  PROVE  /\ AnswersOf(With(f, i, a), A, live)
         /\ i \in DOMAIN With(f, i, a) /\ With(f, i, a)[i] = a
         /\ \A j \in DOMAIN f \ {i} :
                j \in DOMAIN With(f, i, a) /\ With(f, i, a)[j] = f[j]
  BY DEF With, AnswersOf

\* A step that changes no route.
LEMMA RoutesStay ==
  ASSUME RoutesInv, UNCHANGED routing, registered \subseteq registered',
         up' = up
  PROVE  RoutesInv'
  BY DEF RoutesInv, routing, Ends

\* A step after which the live routes are old ones with their answers, or new
\* ones without.
LEMMA RoutesSettle ==
  ASSUME RoutesInv, NEW r, Sound(r), SetRegistry(r), ~up' => Live(r) = {},
         \A j \in Live(r) :
             /\ Ends(r.routes[j], registered')
             /\ \/ j \in Live(registry) /\ r.routes[j] = registry.routes[j]
                \/ r.routes[j].matches = {} /\ r.routes[j].auths = {}
  PROVE  RoutesInv'
<1>1. /\ registry' = r /\ shown' = Forget(shown, r)
      /\ rulesShown' = Forget(rulesShown, r)
  BY DEF SetRegistry
<1>2. /\ AnswersOf(shown', SourceAnswer, Live(r))
      /\ AnswersOf(rulesShown', RulesAnswer, Live(r))
  BY <1>1, ForgetType DEF RoutesInv
<1>3. ASSUME NEW j \in Live(r)
      PROVE  /\ SourceDelivered(r.routes[j], j, shown')
             /\ RulesDelivered(r.routes[j], j, rulesShown')
  <2>1. CASE j \in Live(registry) /\ r.routes[j] = registry.routes[j]
    <3>1. /\ j \in DOMAIN shown => j \in DOMAIN shown' /\ shown'[j] = shown[j]
          /\ j \in DOMAIN rulesShown =>
                j \in DOMAIN rulesShown' /\ rulesShown'[j] = rulesShown[j]
      BY <1>1 DEF Forget
    <3>2. /\ SourceDelivered(r.routes[j], j, shown)
          /\ RulesDelivered(r.routes[j], j, rulesShown)
      BY <2>1 DEF RoutesInv
    <3> QED BY <3>1, <3>2 DEF SourceDelivered, RulesDelivered
  <2>2. CASE r.routes[j].matches = {} /\ r.routes[j].auths = {}
    BY <2>2 DEF SourceDelivered, RulesDelivered
  <2> QED BY <2>1, <2>2
<1> QED BY <1>1, <1>2, <1>3 DEF RoutesInv

\* A step that drops routes, whatever their ends were, that of a registration
\* that ended among them.
LEMMA RoutesDrop ==
  ASSUME RoutesInv, NEW S, SetRegistry(DropRoutes(registry, S)), up' = up,
         \A j \in Live(registry) \ S : Ends(registry.routes[j], registered')
  PROVE  RoutesInv'
<1> DEFINE r == DropRoutes(registry, S)
<1>1. /\ Sound(r) /\ Live(r) = Live(registry) \ S
      /\ \A j \in Live(registry) \ S : r.routes[j] = registry.routes[j]
  BY DropIsSound DEF RoutesInv
<1>2. ~up' => Live(r) = {}
  BY <1>1 DEF RoutesInv
<1> HIDE DEF r
<1>3. \A j \in Live(r) :
        /\ Ends(r.routes[j], registered')
        /\ j \in Live(registry) /\ r.routes[j] = registry.routes[j]
  BY <1>1
<1> QED BY <1>1, <1>2, <1>3, RoutesSettle DEF r

\* Touching a live route.
LEMMA RoutesTouch ==
  ASSUME RoutesInv, NEW i \in Live(registry), SetRegistry(Touch(registry, i)),
         up' = up, registered' = registered
  PROVE  RoutesInv' /\ registry'.routes = registry.routes
<1> DEFINE r == Touch(registry, i)
<1>1. Sound(r) /\ r.routes = registry.routes /\ Live(r) = Live(registry)
  BY TouchIsSound DEF RoutesInv, Live
<1>2. ~up' => Live(r) = {}
  BY <1>1 DEF RoutesInv
<1> HIDE DEF r
<1>3. \A j \in Live(r) :
        /\ Ends(r.routes[j], registered')
        /\ j \in Live(registry) /\ r.routes[j] = registry.routes[j]
  BY <1>1 DEF RoutesInv
<1>4. RoutesInv'
  BY <1>1, <1>2, <1>3, RoutesSettle DEF r
<1> QED BY <1>1, <1>4 DEF SetRegistry, r

\* A step that answers one route and delivers the answer.
LEMMA RoutesAnswered ==
  ASSUME RoutesInv, NEW i \in Live(registry), NEW r, registry' = r, Sound(r),
         Live(r) = Live(registry), up' = up, registered' = registered,
         \A j \in Live(registry) \ {i} : r.routes[j] = registry.routes[j],
         AnswersOf(shown', SourceAnswer, Live(r)),
         AnswersOf(rulesShown', RulesAnswer, Live(r)),
         \A j \in DOMAIN shown \ {i} : j \in DOMAIN shown' /\ shown'[j] = shown[j],
         \A j \in DOMAIN rulesShown \ {i} :
             j \in DOMAIN rulesShown' /\ rulesShown'[j] = rulesShown[j],
         Ends(r.routes[i], registered),
         SourceDelivered(r.routes[i], i, shown'),
         RulesDelivered(r.routes[i], i, rulesShown')
  PROVE  RoutesInv'
<1>1. ASSUME NEW j \in Live(r)
      PROVE  /\ Ends(r.routes[j], registered)
             /\ SourceDelivered(r.routes[j], j, shown')
             /\ RulesDelivered(r.routes[j], j, rulesShown')
  <2>1. CASE j = i
    BY <2>1
  <2>2. CASE j # i
    BY <2>2 DEF RoutesInv, SourceDelivered, RulesDelivered
  <2> QED BY <2>1, <2>2
<1> QED BY <1>1 DEF RoutesInv

-----------------------------------------------------------------------------
(* Routing.                                                                *)

\* A step that sends nothing of authority.
LEMMA NothingSent == ASSUME sent' = {} PROVE RoutedAsShown'
  BY DEF RoutedAsShown

\* What a live route is made of.
LEMMA RouteParts ==
  ASSUME RoutesInv, NEW i \in Live(registry)
  PROVE  LET t == registry.routes[i]
         IN /\ t \in Route /\ Owned(t) /\ Ends(t, registered)
            /\ SourceDelivered(t, i, shown) /\ RulesDelivered(t, i, rulesShown)
<1>1. registry.routes[i] \in Route
  BY SoundParts DEF RoutesInv
<1>2. Owned(registry.routes[i])
  BY DEF RoutesInv, Sound, AuthorityOwned, Owned
<1> QED BY <1>1, <1>2 DEF RoutesInv

LEMMA InspectElementSafe ==
  ASSUME BInv, NEW c \in Askers, NEW i \in Inspect, NEW refs \in SUBSET RuleRef,
         InspectElement(c, i, refs)
  PROVE  RoutesInv' /\ RoutedAsShown'
<1>1. /\ sent' = {} /\ up' = up /\ registered' = registered
      /\ c \in registered /\ clients # {} /\ c \in Conn
      /\ RoutesInv /\ Sound(registry)
  BY DEF InspectElement, Quiet, handshake, FromAsker, Sender, BInv, Askers,
         RoutesInv
<1>2. up
  BY <1>1 DEF BInv, SocketsInv, StoppedIsSilent, SocketsTyped
<1>3. CASE i \in Live(registry)
  <2>1. SetRegistry(Touch(registry, i))
    BY <1>3 DEF InspectElement
  <2> QED BY <1>1, <1>3, <2>1, RoutesTouch, NothingSent
<1>4. CASE i \notin Live(registry)
  <2> DEFINE r == AddRoute(registry, i, c, refs, Evicted(registry, c))
  <2>1. SetRegistry(r)
    BY <1>4 DEF InspectElement
  <2>2. /\ Sound(r) /\ r.routes[i] = NewRoute(c, refs)
        /\ \A j \in Live(r) \ {i} :
               j \in Live(registry) /\ r.routes[j] = registry.routes[j]
    BY <1>1, <1>4, AddIsSound
  <2> HIDE DEF r
  <2>3. /\ r.routes[i].matches = {} /\ r.routes[i].auths = {}
        /\ Ends(r.routes[i], registered)
    BY <1>1, <2>2 DEF NewRoute, Ends
  <2>4. \A j \in Live(r) :
          /\ Ends(r.routes[j], registered')
          /\ \/ j \in Live(registry) /\ r.routes[j] = registry.routes[j]
             \/ r.routes[j].matches = {} /\ r.routes[j].auths = {}
    BY <1>1, <2>2, <2>3 DEF RoutesInv
  <2>5. ~up' => Live(r) = {}
    BY <1>1, <1>2
  <2>6. RoutesInv'
    BY <1>1, <2>1, <2>2, <2>4, <2>5, RoutesSettle
  <2> QED BY <1>1, <2>6, NothingSent
<1> QED BY <1>3, <1>4

\* An answer that was not delivered costs its route.
LEMMA RoutesUndelivered ==
  ASSUME RoutesInv, NEW i \in Live(registry), NEW s, Sound(s),
         Live(s) = Live(registry),
         \A j \in Live(registry) \ {i} : s.routes[j] = registry.routes[j],
         SetRegistry(RemoveRoute(s, i)), up' = up, registered' = registered
  PROVE  RoutesInv'
<1> DEFINE r == RemoveRoute(s, i)
<1>1. /\ Sound(r) /\ Live(r) = Live(s) \ {i}
      /\ \A j \in Live(s) \ {i} : r.routes[j] = s.routes[j]
  BY DropIsSound DEF RemoveRoute
<1> HIDE DEF r
<1>2. \A j \in Live(r) :
        /\ Ends(r.routes[j], registered')
        /\ j \in Live(registry) /\ r.routes[j] = registry.routes[j]
  BY <1>1 DEF RoutesInv
<1>3. ~up' => Live(r) = {}
  BY <1>1 DEF RoutesInv
<1> QED BY <1>1, <1>2, <1>3, RoutesSettle DEF r

\* A source answer s of the IDE d, delivered.
LEMMA RoutesShown ==
  ASSUME RoutesInv, NEW i \in Live(registry), NEW s, Sound(s), registry' = s,
         NEW d \in Conn \cup {None}, NEW g \in Gen, NEW ms \in SUBSET Match,
         NEW e \in Conn,
         Answered(registry, s, i, d, ms), SameRules(registry, s, i),
         registry.routes[i].ide \in {None, d}, Ends(s.routes[i], registered),
         ms # {} => s.routes[i].resGen = g /\ d = e,
         ShowSource(i, [to |-> registry.routes[i].origin, ide |-> e, gen |-> g,
                        matches |-> ms]),
         up' = up, registered' = registered
  PROVE  RoutesInv'
<1> DEFINE t == registry.routes[i]
           a == [to |-> t.origin, ide |-> e, gen |-> g, matches |-> ms]
           f == Forget(shown, s)
<1>1. /\ t \in Route /\ Owned(t) /\ RulesDelivered(t, i, rulesShown)
  BY RouteParts
<1>2. a \in SourceAnswer /\ Live(s) = Live(registry) /\ i \in Live(s)
  BY <1>1 DEF SourceAnswer, Route, Answered
<1>3. shown' = With(f, i, a) /\ rulesShown' = Forget(rulesShown, s)
  BY DEF ShowSource
<1>4. /\ AnswersOf(f, SourceAnswer, Live(s))
      /\ AnswersOf(rulesShown', RulesAnswer, Live(s))
      /\ \A j \in DOMAIN shown : j \in DOMAIN f /\ f[j] = shown[j]
      /\ \A j \in DOMAIN rulesShown :
             j \in DOMAIN rulesShown' /\ rulesShown'[j] = rulesShown[j]
  BY <1>2, <1>3, ForgetType DEF RoutesInv, AnswersOf
<1> HIDE DEF f, a
<1>5. /\ AnswersOf(shown', SourceAnswer, Live(s))
      /\ i \in DOMAIN shown' /\ shown'[i] = a
      /\ \A j \in DOMAIN shown \ {i} : j \in DOMAIN shown' /\ shown'[j] = shown[j]
  BY <1>2, <1>3, <1>4, WithType
<1>6. SourceDelivered(s.routes[i], i, shown')
  BY <1>5 DEF SourceDelivered, Answered, a
<1>7. RulesDelivered(s.routes[i], i, rulesShown')
  <2>1. t.auths # {} => t.ide # None /\ t.ide = d
    BY <1>1 DEF Owned
  <2> QED BY <1>1, <1>4, <2>1 DEF RulesDelivered, Answered, SameRules
<1> QED BY <1>2, <1>4, <1>5, <1>6, <1>7, RoutesAnswered DEF Answered

LEMMA ResolutionSafe ==
  ASSUME BInv, NEW d \in Ides, NEW i \in Inspect, NEW g \in Gen,
         Resolution(d, i, g)
  PROVE  RoutesInv' /\ RoutedAsShown'
<1> DEFINE s == Claim(registry, i, d, g, TRUE)
           c == registry.routes[i].origin
<1>1. /\ RoutesInv /\ Sound(registry) /\ g \in Nat
      /\ sent' = {} /\ up' = up /\ registered' = registered
      /\ d \in registered /\ d \in Conn /\ CanClaim(registry, i, d, g)
      /\ i \in Live(registry) /\ registry.routes[i].ide \in {None, d}
  BY DEF Resolution, Quiet, handshake, FromIde, Sender, BInv, Ides, CanClaim,
         OwnedOrFree, RoutesInv, Gen
<1>2. Sound(s) /\ Answered(registry, s, i, d, {}) /\ SameRules(registry, s, i)
  BY <1>1, ClaimIsSound
<1>3. \/ /\ registry' = s
         /\ ShowSource(i, [to |-> c, ide |-> d, gen |-> g, matches |-> {}])
      \/ SetRegistry(RemoveRoute(s, i))
  BY DEF Resolution
<1> HIDE DEF s
<1>4. Ends(s.routes[i], registered)
  BY <1>1, <1>2, RouteParts DEF Answered, Ends
<1>5. ASSUME registry' = s,
             ShowSource(i, [to |-> c, ide |-> d, gen |-> g, matches |-> {}])
      PROVE  RoutesInv'
  BY <1>1, <1>2, <1>4, <1>5, RoutesShown
<1>6. ASSUME SetRegistry(RemoveRoute(s, i)) PROVE RoutesInv'
  BY <1>1, <1>2, <1>6, RoutesUndelivered DEF Answered
<1> QED BY <1>1, <1>3, <1>5, <1>6, NothingSent

\* The excerpts of a resolution, or the message that withdraws them.
LEMMA SourceMatchesSafe ==
  ASSUME BInv, NEW d \in Ides, NEW i \in Inspect, NEW g \in Gen,
         NEW ms \in SUBSET Match, NEW empty \in BOOLEAN,
         SourceMatches(d, i, g, ms, empty)
  PROVE  RoutesInv' /\ RoutedAsShown'
<1> DEFINE s == IF empty THEN Invalidate(registry, i, d, g)
                         ELSE ReplaceMatches(registry, i, ms)
           t == registry.routes[i]
           e == t.ide
<1>1. /\ RoutesInv /\ Sound(registry) /\ g \in Nat
      /\ sent' = {} /\ up' = up /\ registered' = registered
      /\ d \in Conn /\ (empty => ms = {})
      /\ IF empty THEN CanInvalidate(registry, i, d, g)
                  ELSE CanReplaceMatches(registry, i, d, g)
      /\ i \in Live(registry)
  BY DEF SourceMatches, Quiet, handshake, BInv, Ides, RoutesInv, Gen,
         CanInvalidate, CanReplaceMatches
<1>2. /\ Sound(s) /\ Answered(registry, s, i, e, ms) /\ SameRules(registry, s, i)
      /\ ms # {} => s.routes[i].resGen = g /\ e = d
  <2>1. CASE empty
    BY <1>1, <2>1, InvalidateIsSound
  <2>2. CASE ~empty
    <3>1. CanReplaceMatches(registry, i, d, g)
      BY <1>1, <2>2
    <3> DEFINE r == ReplaceMatches(registry, i, ms)
    <3>2. /\ Sound(r) /\ Answered(registry, r, i, e, ms)
          /\ SameRules(registry, r, i) /\ r.routes[i].resGen = t.resGen
      BY <1>1, <3>1, ReplaceIsSound
    <3>3. s = r
      BY <2>2
    <3> HIDE DEF r
    <3> QED BY <3>1, <3>2, <3>3 DEF CanReplaceMatches
  <2> QED BY <2>1, <2>2
<1>3. \/ /\ registry' = s
         /\ ShowSource(i, [to |-> t.origin, ide |-> d, gen |-> g, matches |-> ms])
      \/ SetRegistry(RemoveRoute(s, i))
  BY DEF SourceMatches
<1> HIDE DEF s
<1>4. /\ Ends(t, registered) /\ t \in Route
  BY <1>1, RouteParts
<1>5. Ends(s.routes[i], registered) /\ e \in Conn \cup {None}
  BY <1>2, <1>4 DEF Answered, Ends, Route
<1>6. ASSUME registry' = s,
             ShowSource(i, [to |-> t.origin, ide |-> d, gen |-> g, matches |-> ms])
      PROVE  RoutesInv'
  BY <1>1, <1>2, <1>5, <1>6, RoutesShown
<1>7. ASSUME SetRegistry(RemoveRoute(s, i)) PROVE RoutesInv'
  BY <1>1, <1>2, <1>7, RoutesUndelivered DEF Answered
<1> QED BY <1>1, <1>3, <1>6, <1>7, NothingSent

\* The rules of an inspect, delivered.
LEMMA RulesSourcesSafe ==
  ASSUME BInv, NEW d \in Ides, NEW i \in Inspect, NEW g \in Gen,
         NEW as \in SUBSET Auth, RulesSources(d, i, g, as)
  PROVE  RoutesInv' /\ RoutedAsShown'
<1> DEFINE s == PublishRules(registry, i, d, g, as)
           t == registry.routes[i]
           a == [to |-> t.origin, ide |-> d, gen |-> g, auths |-> as]
           f == Forget(rulesShown, s)
<1>1. /\ RoutesInv /\ Sound(registry) /\ g \in Nat
      /\ sent' = {} /\ up' = up /\ registered' = registered
      /\ d \in registered /\ d \in Conn
      /\ CanPublishRules(registry, i, d, g, as)
      /\ i \in Live(registry) /\ t.ide \in {None, d}
  BY DEF RulesSources, Quiet, handshake, FromIde, Sender, BInv, Ides, RoutesInv,
         Gen, CanPublishRules, OwnedOrFree
<1>2. /\ Sound(s) /\ Answered(registry, s, i, d, t.matches)
      /\ Published(registry, s, i, g, as)
  BY <1>1, PublishIsSound
<1>3. /\ s.routes[i].resGen = t.resGen /\ s.routes[i].auths = as
      /\ s.routes[i].rulesGen = g
  BY <1>2 DEF Published
<1>4. /\ registry' = s /\ rulesShown' = With(f, i, a)
      /\ shown' = Forget(shown, s)
  BY DEF RulesSources
<1> HIDE DEF s
<1>5. /\ t \in Route /\ Owned(t) /\ SourceDelivered(t, i, shown)
      /\ Ends(t, registered)
  BY <1>1, RouteParts
<1>6. a \in RulesAnswer /\ Live(s) = Live(registry) /\ i \in Live(s)
  BY <1>1, <1>2, <1>5 DEF RulesAnswer, Route, Answered
<1>7. /\ AnswersOf(f, RulesAnswer, Live(s))
      /\ AnswersOf(shown', SourceAnswer, Live(s))
      /\ \A j \in DOMAIN rulesShown : j \in DOMAIN f /\ f[j] = rulesShown[j]
      /\ \A j \in DOMAIN shown : j \in DOMAIN shown' /\ shown'[j] = shown[j]
  BY <1>1, <1>4, <1>6, ForgetType DEF RoutesInv, AnswersOf
<1> HIDE DEF f, a
<1>8. /\ AnswersOf(rulesShown', RulesAnswer, Live(s))
      /\ i \in DOMAIN rulesShown' /\ rulesShown'[i] = a
      /\ \A j \in DOMAIN rulesShown \ {i} :
             j \in DOMAIN rulesShown' /\ rulesShown'[j] = rulesShown[j]
  BY <1>4, <1>6, <1>7, WithType
<1>9. RulesDelivered(s.routes[i], i, rulesShown')
  BY <1>2, <1>3, <1>8 DEF RulesDelivered, Answered, a
<1>10. SourceDelivered(s.routes[i], i, shown')
  <2>1. t.matches # {} => t.ide # None /\ t.ide = d
    BY <1>1, <1>5 DEF Owned
  <2> QED BY <1>2, <1>3, <1>5, <1>7, <2>1 DEF SourceDelivered, Answered
<1>11. Ends(s.routes[i], registered)
  BY <1>1, <1>2, <1>5 DEF Answered, Ends
<1>12. RoutesInv'
  BY <1>1, <1>2, <1>4, <1>6, <1>7, <1>8, <1>9, <1>10, <1>11, RoutesAnswered
     DEF Answered
<1> QED BY <1>1, <1>12, NothingSent

\* A message about a route goes where its answer came from, or the other way,
\* and what it names was shown.
Rightful(m, t) ==
    /\ m.kind = "source.open" =>
          /\ t.origin = m.from /\ t.ide = m.to
          /\ t.resGen = m.gen /\ m.id \in t.matches
    /\ m.kind = "rules.open" =>
          /\ t.origin = m.from /\ t.ide = m.to
          /\ t.rulesGen = m.gen /\ m.id \in t.auths
    /\ m.kind = "state" /\ m.id # None =>
          /\ t.origin = m.to /\ t.ide = m.from
          /\ t.resGen = m.gen /\ m.id \in t.matches

LEMMA RightfulIsShown ==
  ASSUME RoutesInv', NEW m, sent' \subseteq {m},
         m.inspect \in Live(registry'), Rightful(m, registry'.routes[m.inspect])
  PROVE  RoutedAsShown'
<1> DEFINE i == m.inspect
           t == registry'.routes[i]
<1>1. SourceDelivered(t, i, shown') /\ RulesDelivered(t, i, rulesShown')
  BY DEF RoutesInv
<1>2. t.matches # {} =>
        /\ i \in DOMAIN shown' /\ shown'[i].to = t.origin
        /\ shown'[i].ide = t.ide /\ shown'[i].gen = t.resGen
        /\ shown'[i].matches = t.matches
  BY <1>1 DEF SourceDelivered
<1>3. t.auths # {} =>
        /\ i \in DOMAIN rulesShown' /\ rulesShown'[i].to = t.origin
        /\ rulesShown'[i].ide = t.ide /\ rulesShown'[i].gen = t.rulesGen
        /\ rulesShown'[i].auths = t.auths
  BY <1>1 DEF RulesDelivered
<1> QED BY <1>2, <1>3 DEF RoutedAsShown, Rightful

\* A message to the owner of a live route.
LEMMA ToOwnerSafe ==
  ASSUME RoutesInv, NEW c, NEW i \in Live(registry), NEW cap, NEW kind, NEW g,
         NEW id, ToOwner(c, i, cap, kind, g, id), up' = up,
         registered' = registered,
         LET t == registry.routes[i]
         IN  Rightful([kind |-> kind, from |-> c, to |-> t.ide, inspect |-> i,
                       gen |-> g, id |-> id], t)
  PROVE  RoutesInv' /\ RoutedAsShown'
<1> DEFINE m == [kind |-> kind, from |-> c, to |-> registry.routes[i].ide,
                 inspect |-> i, gen |-> g, id |-> id]
<1>1. SetRegistry(Touch(registry, i)) /\ sent' \subseteq {m}
  BY DEF ToOwner
<1>2. RoutesInv' /\ registry'.routes = registry.routes
  BY <1>1, RoutesTouch
<1>3. /\ m.inspect \in Live(registry')
      /\ Rightful(m, registry'.routes[m.inspect])
  BY <1>2 DEF Live
<1> HIDE DEF m
<1> QED BY <1>1, <1>2, <1>3, RightfulIsShown

LEMMA AskingSafe ==
  ASSUME BInv, Asking
  PROVE  RoutesInv' /\ RoutedAsShown'
<1>0. RoutesInv
  BY DEF BInv
<1>1. PICK c \in Askers, i \in Inspect :
        \/ \E refs \in SUBSET RuleRef : InspectElement(c, i, refs)
        \/ \E g \in 0..MaxResGen :
              \/ \E m \in Match : SourceOpen(c, i, g, m)
              \/ SourceNavigate(c, i, g)
        \/ \E g \in 1..MaxRulesGen, a \in Auth : RulesOpen(c, i, g, a)
        \/ PresentationSettings(c, i)
  BY DEF Asking
<1>2. ASSUME NEW refs \in SUBSET RuleRef, InspectElement(c, i, refs)
      PROVE  RoutesInv' /\ RoutedAsShown'
  BY <1>2, InspectElementSafe
<1>3. ASSUME NEW g, NEW m, SourceOpen(c, i, g, m)
      PROVE  RoutesInv' /\ RoutedAsShown'
  <2>1. /\ i \in Live(registry) /\ up' = up /\ registered' = registered
        /\ ToOwner(c, i, "source-presentation", "source.open", g, m)
        /\ registry.routes[i].origin = c /\ registry.routes[i].resGen = g
        /\ m \in registry.routes[i].matches
    BY <1>3 DEF SourceOpen, Quiet, handshake
  <2> QED BY <1>0, <2>1, ToOwnerSafe DEF Rightful
<1>4. ASSUME NEW g, SourceNavigate(c, i, g)
      PROVE  RoutesInv' /\ RoutedAsShown'
  <2>1. /\ i \in Live(registry) /\ up' = up /\ registered' = registered
        /\ ToOwner(c, i, "source-navigation", "navigate", g, None)
    BY <1>4 DEF SourceNavigate, Quiet, handshake
  <2> QED BY <1>0, <2>1, ToOwnerSafe DEF Rightful
<1>5. ASSUME NEW g, NEW a, RulesOpen(c, i, g, a)
      PROVE  RoutesInv' /\ RoutedAsShown'
  <2>1. /\ i \in Live(registry) /\ up' = up /\ registered' = registered
        /\ registry.routes[i].origin = c /\ registry.routes[i].rulesGen = g
        /\ a \in registry.routes[i].auths
        /\ \/ ToOwner(c, i, "rules-sources", "rules.open", g, a)
           \/ SetRegistry(Touch(registry, i)) /\ sent' = {}
    BY <1>5 DEF RulesOpen, MayOpenRule, Quiet, handshake
  <2>2. CASE ToOwner(c, i, "rules-sources", "rules.open", g, a)
    BY <1>0, <2>1, <2>2, ToOwnerSafe DEF Rightful
  <2>3. CASE SetRegistry(Touch(registry, i)) /\ sent' = {}
    BY <1>0, <2>1, <2>3, RoutesTouch, NothingSent
  <2> QED BY <2>1, <2>2, <2>3
<1>6. ASSUME PresentationSettings(c, i)
      PROVE  RoutesInv' /\ RoutedAsShown'
  <2>1. /\ i \in Live(registry) /\ up' = up /\ registered' = registered
        /\ ToOwner(c, i, "presentation-settings", "settings", NoGen, None)
    BY <1>6 DEF PresentationSettings, Quiet, handshake
  <2> QED BY <1>0, <2>1, ToOwnerSafe DEF Rightful
<1> QED BY <1>1, <1>2, <1>3, <1>4, <1>5, <1>6

\* The IDE reports its active match, or that there is none.
LEMMA NavigationStateSafe ==
  ASSUME BInv, NEW d \in Ides, NEW i \in Inspect, NEW g, NEW m, NEW zero,
         NavigationState(d, i, g, m, zero)
  PROVE  RoutesInv' /\ RoutedAsShown'
<1> DEFINE t == registry.routes[i]
           n == [kind |-> "state", from |-> d, to |-> t.origin, inspect |-> i,
                 gen |-> g, id |-> m]
<1>1. /\ RoutesInv /\ i \in Live(registry) /\ Sound(registry)
      /\ up' = up /\ registered' = registered
  BY DEF BInv, NavigationState, Quiet, handshake, RoutesInv
<1>2. m # None => t.ide = d /\ t.resGen = g /\ m \in t.matches
  BY DEF NavigationState
<1>3. \/ SetRegistry(Touch(registry, i)) /\ sent' = {n}
      \/ SetRegistry(RemoveRoute(registry, i)) /\ sent' = {}
  BY DEF NavigationState
<1>4. CASE SetRegistry(Touch(registry, i)) /\ sent' = {n}
  <2>1. RoutesInv' /\ registry'.routes = registry.routes
    BY <1>1, <1>4, RoutesTouch
  <2>2. /\ n.inspect \in Live(registry')
        /\ Rightful(n, registry'.routes[n.inspect])
    BY <1>1, <1>2, <2>1 DEF Live, Rightful
  <2> HIDE DEF n
  <2> QED BY <1>4, <2>1, <2>2, RightfulIsShown
<1>5. CASE SetRegistry(RemoveRoute(registry, i)) /\ sent' = {}
  BY <1>1, <1>5, RoutesUndelivered, NothingSent
<1> QED BY <1>3, <1>4, <1>5

LEMMA AnsweringSafe ==
  ASSUME BInv, Answering
  PROVE  RoutesInv' /\ RoutedAsShown'
<1>1. PICK d \in Ides, i \in Inspect :
        \/ \E g \in 0..MaxResGen :
              \/ Resolution(d, i, g)
              \/ \E ms \in SUBSET Match, empty \in BOOLEAN :
                    SourceMatches(d, i, g, ms, empty)
              \/ \E m \in Match \cup {None}, zero \in BOOLEAN :
                    NavigationState(d, i, g, m, zero)
        \/ \E g \in 1..MaxRulesGen, as \in SUBSET Auth :
              RulesSources(d, i, g, as)
  BY DEF Answering
<1>2. 0..MaxResGen \subseteq Gen /\ 1..MaxRulesGen \subseteq Gen
  BY RoutesAssumption DEF Gen
<1>3. ASSUME NEW g \in Gen, Resolution(d, i, g)
      PROVE  RoutesInv' /\ RoutedAsShown'
  BY <1>3, ResolutionSafe
<1>4. ASSUME NEW g \in Gen, NEW ms \in SUBSET Match, NEW empty \in BOOLEAN,
             SourceMatches(d, i, g, ms, empty)
      PROVE  RoutesInv' /\ RoutedAsShown'
  BY <1>4, SourceMatchesSafe
<1>5. ASSUME NEW g, NEW m, NEW zero, NavigationState(d, i, g, m, zero)
      PROVE  RoutesInv' /\ RoutedAsShown'
  BY <1>5, NavigationStateSafe
<1>6. ASSUME NEW g \in Gen, NEW as \in SUBSET Auth, RulesSources(d, i, g, as)
      PROVE  RoutesInv' /\ RoutedAsShown'
  BY <1>6, RulesSourcesSafe
<1> QED BY <1>1, <1>2, <1>3, <1>4, <1>5, <1>6

-----------------------------------------------------------------------------
(* The connections.                                                        *)

\* Routing leaves the connections alone.
LEMMA QuietSafe == ASSUME SocketsInv, Quiet PROVE SocketsInv'
  BY DEF SocketsInv, SocketsTyped, HeldIsLinked, StoppedIsSilent, PeerViewsAgree,
         Quiet, sockets, handshake, presence

LEMMA PeerAfterSafe ==
  ASSUME SocketsTyped, NEW cs
  PROVE  /\ PeerAfter(cs) \in [connected : BOOLEAN, gen : Nat]
         /\ PeerAfter(cs).connected <=> cs \cap Ides # {}
<1> DEFINE now == \E d \in cs : d \in Ides
<1>1. peer \in [connected : BOOLEAN, gen : Nat] /\ peer.gen + 1 \in Nat
  BY DEF SocketsTyped
<1>2. now <=> cs \cap Ides # {}
  OBVIOUS
<1>3. CASE now = peer.connected
  BY <1>1, <1>2, <1>3 DEF PeerAfter
<1>4. CASE now # peer.connected
  <2>1. PeerAfter(cs) = [connected |-> now, gen |-> peer.gen + 1]
    BY <1>4 DEF PeerAfter
  <2>2. now \in BOOLEAN
    OBVIOUS
  <2> HIDE DEF now
  <2> QED BY <1>1, <1>2, <2>1, <2>2
<1> QED BY <1>3, <1>4

\* Whoever comes or goes, the askers that can be written to know.
LEMMA SetClientsSafe ==
  ASSUME SocketsInv, NEW cs, NEW w, NEW n, SetClients(cs, w, n),
         cs \cap Askers \cap writable' \subseteq w,
         \A c \in cs \cap Askers \cap writable' :
             c = n \/ c \in clients \cap writable
  PROVE  /\ PeerViewsAgree' /\ clients' = cs
         /\ peer' \in [connected : BOOLEAN, gen : Nat]
         /\ told' \in [Conn -> [connected : BOOLEAN, gen : Nat \cup {-1}]]
<1>1. SocketsTyped /\ PeerViewsAgree
  BY DEF SocketsInv
<1>2. /\ peer' \in [connected : BOOLEAN, gen : Nat] /\ clients' = cs
      /\ peer'.connected <=> cs \cap Ides # {}
  BY <1>1, PeerAfterSafe DEF SetClients
<1>3. peer' \in [connected : BOOLEAN, gen : Nat \cup {-1}]
  BY <1>2
<1>4. told' = [c \in Conn |-> IF /\ c \in cs \cap Askers \cap w
                                 /\ peer' # peer \/ c = n
                              THEN peer' ELSE told[c]]
  BY DEF SetClients
<1>5. told' \in [Conn -> [connected : BOOLEAN, gen : Nat \cup {-1}]]
  BY <1>1, <1>3, <1>4 DEF SocketsTyped
<1>6. ASSUME NEW c \in cs \cap Askers \cap writable' PROVE told'[c] = peer'
  <2>1. c \in Conn /\ c \in w
    BY DEF Askers
  <2>2. CASE peer' # peer \/ c = n
    BY <1>4, <2>1, <2>2
  <2>3. CASE peer' = peer /\ c # n
    <3>1. told[c] = peer
      BY <1>1, <2>3 DEF PeerViewsAgree
    <3> QED BY <1>4, <2>1, <2>3, <3>1
  <2> QED BY <2>2, <2>3
<1> QED BY <1>2, <1>5, <1>6 DEF PeerViewsAgree

\* The routes of the clients in S, in the indexes.
RoutesOf(S) == UNION { registry.byClient[c] \cup registry.byIde[c] : c \in S }

LEMMA OthersEnd ==
  ASSUME RoutesInv, NEW S \in SUBSET Conn,
         NEW j \in Live(registry) \ RoutesOf(S)
  PROVE  Ends(registry.routes[j], registered \ S)
<1>1. IndexesExact(registry) /\ Ends(registry.routes[j], registered)
  BY DEF RoutesInv, Sound
<1>2. \A c \in S : registry.routes[j].origin # c /\ registry.routes[j].ide # c
  BY <1>1 DEF IndexesExact, RoutesOf
<1> QED BY <1>1, <1>2 DEF Ends

\* RemoveClients: of the clients in S, whose registrations end or have ended.
LEMMA RemoveClientsSafe ==
  ASSUME BInv, NEW S \in SUBSET Conn, NEW w, RemoveClients(S, w),
         writable' \subseteq writable,
         (clients \ S) \cap writable' \subseteq w,
         up' = up, registered \ S \subseteq registered'
  PROVE  /\ RoutesInv' /\ PeerViewsAgree' /\ clients' = clients \ S
         /\ peer' \in [connected : BOOLEAN, gen : Nat]
         /\ told' \in [Conn -> [connected : BOOLEAN, gen : Nat \cup {-1}]]
<1>1. /\ SetClients(clients \ S, w, None)
      /\ SetRegistry(DropRoutes(registry, RoutesOf(S)))
  BY DEF RemoveClients, RoutesOf
<1>2. RoutesInv /\ SocketsInv
  BY DEF BInv
<1>3. \A j \in Live(registry) \ RoutesOf(S) : Ends(registry.routes[j], registered')
  BY <1>2, OthersEnd DEF Ends
<1>4. RoutesInv'
  BY <1>1, <1>2, <1>3, RoutesDrop
<1>5. /\ (clients \ S) \cap Askers \cap writable' \subseteq w
      /\ \A c \in (clients \ S) \cap Askers \cap writable' :
             c = None \/ c \in clients \cap writable
  OBVIOUS
<1> QED BY <1>1, <1>2, <1>4, <1>5, SetClientsSafe

\* Nothing but the sockets changes.
LEMMA SocketStep ==
  ASSUME BInv, UNCHANGED <<up, handshake, presence, routing>>, sent' = {},
         closed' = closed, opened' = opened, writable' \subseteq writable,
         alive' \subseteq alive, timing' \subseteq timing,
         closing' \subseteq opened
  PROVE  BInv'
<1>1. RoutesInv'
  BY RoutesStay DEF BInv, handshake
<1>2. SocketsInv'
  BY DEF BInv, SocketsInv, SocketsTyped, HeldIsLinked, StoppedIsSilent,
         PeerViewsAgree, handshake, presence
<1> QED BY <1>1, <1>2, NothingSent DEF BInv

LEMMA EnvironmentSafe == ASSUME BInv, Environment PROVE BInv'
<1>1. PICK c \in Conn : \/ Accept(c) \/ Hangup(c) \/ Vanish(c)
                        \/ IssueTrustedToken(c) \/ TokenLost(c)
  BY DEF Environment
<1>2. /\ sent' = {} /\ UNCHANGED routing /\ registered' = registered
      /\ up' = up /\ UNCHANGED presence
  BY <1>1 DEF Accept, Hangup, Vanish, IssueTrustedToken, TokenLost, handshake
<1>3. RoutesInv'
  BY <1>2, RoutesStay DEF BInv
<1>4. CASE Accept(c)
  <2>1. SocketsInv'
    BY <1>2, <1>4 DEF Accept, BInv, SocketsInv, SocketsTyped, HeldIsLinked,
       StoppedIsSilent, PeerViewsAgree, handshake, presence
  <2> QED BY <1>2, <1>3, <2>1, NothingSent DEF BInv
<1>5. CASE Hangup(c)
  <2>1. closing \subseteq opened
    BY DEF BInv, SocketsInv, SocketsTyped
  <2> QED BY <1>5, <2>1, SocketStep DEF Hangup
<1>6. CASE Vanish(c)
  <2>1. closing \subseteq opened
    BY DEF BInv, SocketsInv, SocketsTyped
  <2> QED BY <1>6, <2>1, SocketStep DEF Vanish
<1>7. CASE IssueTrustedToken(c)
  <2>1. SocketsInv'
    BY <1>2, <1>7 DEF IssueTrustedToken, BInv, SocketsInv, SocketsTyped,
       HeldIsLinked, StoppedIsSilent, PeerViewsAgree, sockets, presence, Askers
  <2> QED BY <1>2, <1>3, <2>1, NothingSent DEF BInv
<1>8. CASE TokenLost(c)
  <2>1. SocketsInv'
    BY <1>2, <1>8 DEF TokenLost, BInv, SocketsInv, SocketsTyped, HeldIsLinked,
       StoppedIsSilent, PeerViewsAgree, sockets, presence
  <2> QED BY <1>2, <1>3, <2>1, NothingSent DEF BInv
<1> QED BY <1>1, <1>4, <1>5, <1>6, <1>7, <1>8

\* The end of a registration, whether the heartbeat evicted its client or not.
LEMMA SocketClosedSafe ==
  ASSUME BInv, NEW c \in Conn, SocketClosed(c)
  PROVE  BInv'
<1>1. /\ sent' = {} /\ up' = up /\ writable' = writable
      /\ registered' = registered \ {c} /\ EndRegistration(c)
      /\ c \notin writable
  BY DEF SocketClosed
<1>2. /\ RoutesInv' /\ PeerViewsAgree' /\ clients' = clients \ {c}
      /\ peer' \in [connected : BOOLEAN, gen : Nat]
      /\ told' \in [Conn -> [connected : BOOLEAN, gen : Nat \cup {-1}]]
  <2>1. CASE c \in registered
    <3>1. RemoveClients({c}, writable)
      BY <1>1, <2>1 DEF EndRegistration
    <3>2. (clients \ {c}) \cap writable' \subseteq writable
      BY <1>1
    <3> QED BY <1>1, <3>1, <3>2, RemoveClientsSafe
  <2>2. CASE c \notin registered
    <3>1. UNCHANGED <<clients, peer, told, routing>> /\ registered' = registered
      BY <1>1, <2>2 DEF EndRegistration
    <3>2. clients' = clients \ {c}
      BY <2>2, <3>1 DEF BInv, SocketsInv, SocketsTyped
    <3>3. RoutesInv'
      BY <1>1, <3>1, RoutesStay DEF BInv
    <3> QED BY <1>1, <3>1, <3>2, <3>3 DEF BInv, SocketsInv, SocketsTyped,
               PeerViewsAgree
  <2> QED BY <2>1, <2>2
<1>3. up \/ peer' = NoPeer
  <2>1. CASE ~up
    <3>1. clients = {} /\ peer = NoPeer
      BY <2>1 DEF BInv, SocketsInv, StoppedIsSilent
    <3>2. CASE c \in registered
      <4>1. peer' = PeerAfter({})
        BY <1>1, <3>1, <3>2 DEF EndRegistration, RemoveClients, SetClients
      <4>2. peer.connected = FALSE
        BY <3>1 DEF NoPeer
      <4> QED BY <3>1, <4>1, <4>2 DEF PeerAfter
    <3>3. CASE c \notin registered
      BY <1>1, <3>1, <3>3 DEF EndRegistration
    <3> QED BY <3>2, <3>3
  <2> QED BY <2>1
<1>4. SocketsInv'
  <2>1. SocketsTyped'
    BY <1>1, <1>2 DEF SocketClosed, BInv, SocketsInv, SocketsTyped
  <2>2. HeldIsLinked' /\ StoppedIsSilent'
    BY <1>1, <1>2, <1>3 DEF SocketClosed, BInv, SocketsInv, HeldIsLinked,
       StoppedIsSilent
  <2> QED BY <1>2, <2>1, <2>2 DEF SocketsInv
<1> QED BY <1>1, <1>2, <1>4, NothingSent DEF BInv

LEMMA HeartbeatTickSafe == ASSUME BInv, HeartbeatTick PROVE BInv'
<1> DEFINE evicted == { c \in clients : missed[c] >= 2 }
<1>1. /\ sent' = {} /\ up' = up /\ up /\ registered' = registered
      /\ writable' = writable \ evicted /\ RemoveClients(evicted, writable')
      /\ UNCHANGED <<opened, closed, alive, closing, timing, handshake>>
      /\ missed' = [c \in Conn |-> IF c \in clients \ evicted THEN missed[c] + 1
                                                           ELSE missed[c]]
  BY DEF HeartbeatTick, handshake, AfterPing
<1>2. evicted \in SUBSET Conn /\ evicted \subseteq clients
  BY DEF BInv, SocketsInv, SocketsTyped
<1>3. missed' \in [Conn -> 0..2]
  <2>1. missed \in [Conn -> 0..2]
    BY DEF BInv, SocketsInv, SocketsTyped
  <2>2. \A c \in clients \ evicted : ~(missed[c] >= 2)
    OBVIOUS
  <2> HIDE DEF evicted
  <2> QED BY <1>1, <2>1, <2>2
<1> HIDE DEF evicted
<1>4. /\ RoutesInv' /\ PeerViewsAgree' /\ clients' = clients \ evicted
      /\ peer' \in [connected : BOOLEAN, gen : Nat]
      /\ told' \in [Conn -> [connected : BOOLEAN, gen : Nat \cup {-1}]]
  <2>1. /\ (clients \ evicted) \cap writable' \subseteq writable'
        /\ registered \ evicted \subseteq registered'
        /\ writable' \subseteq writable
    BY <1>1
  <2> QED BY <1>1, <1>2, <2>1, RemoveClientsSafe
<1>5. SocketsInv'
  <2>1. SocketsTyped'
    BY <1>1, <1>3, <1>4 DEF BInv, SocketsInv, SocketsTyped, handshake
  <2>2. HeldIsLinked' /\ StoppedIsSilent'
    BY <1>1 DEF BInv, SocketsInv, HeldIsLinked, StoppedIsSilent, handshake
  <2> QED BY <1>4, <2>1, <2>2 DEF SocketsInv
<1> QED BY <1>1, <1>4, <1>5, NothingSent DEF BInv

LEMMA StopSafe == ASSUME BInv, Stop PROVE BInv'
<1>1. Sound(EmptyRegistry) /\ Live(EmptyRegistry) = {}
  BY EmptyIsSound DEF EmptyRegistry, Live
<1>2. /\ SetRegistry(EmptyRegistry) /\ sent' = {} /\ clients' = {}
      /\ tokens' = {} /\ writable' = {} /\ peer' = NoPeer /\ up' = FALSE
  BY DEF Stop, RevokeAll, TerminateAll
<1>3. RoutesInv'
  BY <1>1, <1>2, RoutesSettle DEF BInv
<1>4. NoPeer \in [connected : BOOLEAN, gen : Nat] /\ NoPeer.connected = FALSE
  BY DEF NoPeer
<1>5. SocketsTyped'
  BY <1>2, <1>4 DEF Stop, BInv, SocketsInv, SocketsTyped
<1>6. HeldIsLinked' /\ StoppedIsSilent' /\ PeerViewsAgree'
  BY <1>2, <1>4 DEF Stop, BInv, SocketsInv, HeldIsLinked, StoppedIsSilent,
     PeerViewsAgree
<1> QED BY <1>2, <1>3, <1>5, <1>6, NothingSent DEF BInv, SocketsInv

LEMMA LifetimeSafe == ASSUME BInv, Lifetime PROVE BInv'
<1>1. ASSUME NEW c \in Conn, HandshakeTimeout(c) PROVE BInv'
  <2>1. closing \subseteq opened
    BY DEF BInv, SocketsInv, SocketsTyped
  <2> QED BY <1>1, <2>1, SocketStep DEF HandshakeTimeout
<1> QED BY <1>1, SocketClosedSafe, HeartbeatTickSafe, StopSafe DEF Lifetime

\* Unlinking ends the registration and the token it was made with.
LEMMA UnlinkSafe ==
  ASSUME BInv, NEW c \in Conn, Unlink(c)
  PROVE  BInv'
<1>1. /\ sent' = {} /\ up' = up /\ writable' = writable \ {c}
      /\ registered' = registered \ {c} /\ RemoveClients({c}, writable)
      /\ tokens' \subseteq tokens /\ c \in opened
      /\ UNCHANGED <<linked, auth, held, missed, opened, closed, alive>>
      /\ closing' = closing \cup {c} /\ timing' = timing \ {c}
  BY DEF Unlink, Refuse, Heard, BInv, SocketsInv, SocketsTyped
<1>2. /\ RoutesInv' /\ PeerViewsAgree' /\ clients' = clients \ {c}
      /\ peer' \in [connected : BOOLEAN, gen : Nat]
      /\ told' \in [Conn -> [connected : BOOLEAN, gen : Nat \cup {-1}]]
  <2>1. /\ (clients \ {c}) \cap writable' \subseteq writable
        /\ writable' \subseteq writable /\ registered \ {c} \subseteq registered'
    BY <1>1
  <2> QED BY <1>1, <2>1, RemoveClientsSafe
<1>3. ~up => clients = {} /\ peer = NoPeer
  BY DEF BInv, SocketsInv, StoppedIsSilent
<1>4. up \/ peer' = NoPeer
  <2>1. CASE ~up
    <3>1. peer' = PeerAfter({})
      BY <1>1, <1>3, <2>1 DEF RemoveClients, SetClients
    <3>2. peer = NoPeer /\ peer.connected = FALSE
      BY <1>3, <2>1 DEF NoPeer
    <3> QED BY <3>1, <3>2 DEF PeerAfter
  <2> QED BY <2>1
<1>5. SocketsInv'
  <2>1. SocketsTyped'
    BY <1>1, <1>2 DEF BInv, SocketsInv, SocketsTyped
  <2>2. HeldIsLinked' /\ StoppedIsSilent'
    BY <1>1, <1>2, <1>4 DEF BInv, SocketsInv, HeldIsLinked, StoppedIsSilent
  <2> QED BY <1>2, <2>1, <2>2 DEF SocketsInv
<1> QED BY <1>1, <1>2, <1>5, NothingSent DEF BInv

\* A client registers: its token is one it holds, so the bridge is up.
LEMMA HelloSafe ==
  ASSUME BInv, NEW c \in Conn, NEW t \in Conn, Hello(c, t)
  PROVE  BInv'
<1>1. /\ sent' = {} /\ up' = up /\ writable' = writable
      /\ registered' = registered \cup {c}
      /\ SetClients(clients \cup {c}, writable, c)
      /\ UNCHANGED routing /\ timing' = timing \ {c}
      /\ UNCHANGED <<opened, closed, alive, closing, linked, tokens, held>>
      /\ auth' = [auth EXCEPT ![c] = t] /\ missed' = [missed EXCEPT ![c] = 0]
      /\ c \in opened \ closed /\ tokens \cap held # {}
  BY DEF Hello, Heard, BInv, SocketsInv, SocketsTyped
<1>2. up /\ SocketsInv
  BY <1>1 DEF BInv, SocketsInv, StoppedIsSilent
<1>3. RoutesInv'
  BY <1>1, RoutesStay DEF BInv
<1>4. /\ PeerViewsAgree' /\ clients' = clients \cup {c}
      /\ peer' \in [connected : BOOLEAN, gen : Nat]
      /\ told' \in [Conn -> [connected : BOOLEAN, gen : Nat \cup {-1}]]
  <2>1. /\ (clients \cup {c}) \cap Askers \cap writable' \subseteq writable
        /\ \A e \in (clients \cup {c}) \cap Askers \cap writable' :
               e = c \/ e \in clients \cap writable
    BY <1>1
  <2> QED BY <1>1, <1>2, <2>1, SetClientsSafe
<1>5. SocketsTyped'
  BY <1>1, <1>2, <1>4 DEF SocketsInv, SocketsTyped
<1>6. HeldIsLinked' /\ StoppedIsSilent'
  BY <1>1, <1>2 DEF SocketsInv, HeldIsLinked, StoppedIsSilent
<1> QED BY <1>1, <1>3, <1>4, <1>5, <1>6, NothingSent DEF BInv, SocketsInv

\* A link request, once a connection.  The token of one that comes after
\* stop() reaches nobody.
LEMMA LinkSafe ==
  ASSUME BInv, NEW c \in Conn, LinkAccepted(c) \/ LinkRefused(c)
  PROVE  BInv'
<1>1. /\ sent' = {} /\ up' = up /\ UNCHANGED presence /\ UNCHANGED routing
      /\ UNCHANGED <<registered, auth, opened, closed, alive>>
      /\ linked' = linked \cup {c} /\ c \in Askers \ linked
      /\ writable' \subseteq writable /\ timing' \subseteq timing
      /\ closing' \subseteq opened
      /\ \/ UNCHANGED <<tokens, held>>
         \/ /\ tokens' = tokens \cup {c}
            /\ held' = IF c \in writable THEN held \cup {c} ELSE held
  BY DEF LinkAccepted, LinkRefused, Refuse, Heard, sockets, BInv, SocketsInv,
         SocketsTyped
<1>2. RoutesInv'
  BY <1>1, RoutesStay DEF BInv
<1>3. SocketsTyped' /\ PeerViewsAgree'
  BY <1>1 DEF BInv, SocketsInv, SocketsTyped, PeerViewsAgree, presence
<1>4. c \notin held
  BY <1>1 DEF BInv, SocketsInv, HeldIsLinked
<1>5. HeldIsLinked' /\ StoppedIsSilent'
  BY <1>1, <1>4 DEF BInv, SocketsInv, HeldIsLinked, StoppedIsSilent, presence
<1> QED BY <1>1, <1>2, <1>3, <1>5, NothingSent DEF BInv, SocketsInv

LEMMA HandshakingSafe == ASSUME BInv, Handshaking PROVE BInv'
<1>1. ASSUME NEW c \in Conn, FatalInbound(c) PROVE BInv'
  <2>1. closing' \subseteq opened
    BY <1>1 DEF FatalInbound, Refuse, Heard, BInv, SocketsInv, SocketsTyped
  <2> QED BY <1>1, <2>1, SocketStep DEF FatalInbound, Refuse
<1>2. ASSUME NEW c \in Conn, Pong(c) PROVE BInv'
  <2>1. /\ sent' = {} /\ up' = up /\ UNCHANGED <<sockets, handshake, routing>>
        /\ UNCHANGED <<clients, peer, told>>
        /\ missed' = [missed EXCEPT ![c] = 0] /\ registered' = registered
    BY <1>2 DEF Pong, handshake
  <2>2. RoutesInv'
    BY <2>1, RoutesStay DEF BInv
  <2>3. SocketsInv'
    BY <2>1 DEF BInv, SocketsInv, SocketsTyped, HeldIsLinked, StoppedIsSilent,
       PeerViewsAgree, sockets, handshake
  <2> QED BY <2>1, <2>2, <2>3, NothingSent DEF BInv
<1> QED BY <1>1, <1>2, UnlinkSafe, HelloSafe, LinkSafe DEF Handshaking

-----------------------------------------------------------------------------
(* The specification.                                                      *)

LEMMA InitIsSafe == Init => BInv
<1> SUFFICES ASSUME Init PROVE BInv
  OBVIOUS
<1>1. NoPeer \in [connected : BOOLEAN, gen : Nat] /\ NoPeer.connected = FALSE
  BY DEF NoPeer
<1>2. NeverTold \in [connected : BOOLEAN, gen : Nat \cup {-1}]
  BY DEF NeverTold
<1>3. SocketsTyped
  BY <1>1, <1>2 DEF Init, SocketsTyped
<1>4. HeldIsLinked /\ StoppedIsSilent /\ PeerViewsAgree
  BY <1>1 DEF Init, HeldIsLinked, StoppedIsSilent, PeerViewsAgree
<1>5. Sound(registry) /\ Live(registry) = {}
  BY EmptyIsSound DEF Init, EmptyRegistry, Live
<1>6. AnswersOf(shown, SourceAnswer, {}) /\ AnswersOf(rulesShown, RulesAnswer, {})
  BY DEF Init, AnswersOf
<1> QED BY <1>3, <1>4, <1>5, <1>6 DEF BInv, SocketsInv, RoutesInv,
           RoutedAsShown, Init

LEMMA RoutingIsQuiet == Asking \/ Answering => Quiet
<1>1. ASSUME NEW c, NEW i, NEW g, NEW x, NEW y,
             \/ InspectElement(c, i, x) \/ SourceOpen(c, i, g, x)
             \/ SourceNavigate(c, i, g) \/ RulesOpen(c, i, g, x)
             \/ PresentationSettings(c, i) \/ Resolution(c, i, g)
             \/ SourceMatches(c, i, g, x, y) \/ RulesSources(c, i, g, x)
             \/ NavigationState(c, i, g, x, y)
      PROVE  Quiet
  BY <1>1, Zenon
     DEF InspectElement, SourceOpen, SourceNavigate, RulesOpen,
         PresentationSettings, Resolution, SourceMatches, NavigationState,
         RulesSources
<1>2. Asking => Quiet
  BY <1>1, Zenon DEF Asking
<1>3. Answering => Quiet
  BY <1>1, Zenon DEF Answering
<1> QED BY <1>2, <1>3

LEMMA NextIsSafe == BInv /\ [Next]_vars => BInv'
<1> SUFFICES ASSUME BInv, [Next]_vars PROVE BInv'
  OBVIOUS
<1>1. CASE Asking \/ Answering
  <2>1. RoutesInv' /\ RoutedAsShown'
    BY <1>1, AskingSafe, AnsweringSafe
  <2>2. SocketsInv'
    BY <1>1, RoutingIsQuiet, QuietSafe DEF BInv
  <2> QED BY <2>1, <2>2 DEF BInv
<1>2. CASE UNCHANGED vars
  <2>1. /\ Quiet /\ UNCHANGED routing /\ up' = up /\ registered' = registered
        /\ sent' = sent
    BY <1>2 DEF vars, Quiet, handshake
  <2>2. SocketsInv'
    BY <2>1, QuietSafe DEF BInv
  <2>3. RoutesInv'
    BY <2>1, RoutesStay DEF BInv
  <2>4. RoutedAsShown'
    BY <2>1 DEF BInv, RoutedAsShown, routing
  <2> QED BY <2>2, <2>3, <2>4 DEF BInv
<1> QED BY <1>1, <1>2, EnvironmentSafe, LifetimeSafe, HandshakingSafe DEF Next

\* The invariant holds throughout, for every number of clients, routes and
\* ids and any of the faults.
THEOREM BridgeInvariance == Spec => []BInv
<1> QED BY InitIsSafe, NextIsSafe, PTL DEF Spec

\* Every asker that can still be written to knows whether an IDE is connected,
\* whatever order clients arrive, leave, are evicted or are cleared in:
\* clientRegistry.ts and peerStateRegistry.ts under every caller of server.ts.
THEOREM PeersAreKnown == Spec => []PeerViewsAgree
<1>1. BInv => PeerViewsAgree
  BY DEF BInv, SocketsInv
<1> QED BY <1>1, BridgeInvariance, PTL

\* Frames that sockets deliver while stop() waits for them register no client
\* and make no route.
THEOREM StoppedForGood == Spec => []StoppedStaysEmpty
<1>1. BInv => StoppedStaysEmpty
  BY DEF BInv, SocketsInv, RoutesInv, StoppedIsSilent, StoppedStaysEmpty
<1> QED BY <1>1, BridgeInvariance, PTL

\* No route outlives a connection it belongs to: a client evicted by the
\* heartbeat may make routes with its last frames, and its close event, to
\* which removeRegistration reacts, still finds them.
THEOREM NoRouteIsLeft == Spec => []RoutesEndWithSockets
<1>1. BInv => RoutesEndWithSockets
  BY DEF BInv, RoutesInv, RoutesEndWithSockets, Ends
<1> QED BY <1>1, BridgeInvariance, PTL

\* What router.ts lets an asker open is what it delivered to that asker, of
\* the IDE that owns the route and of the current generation, whichever sends
\* fail and in whatever order the answers of several IDEs arrive.
THEOREM AuthorityWasDelivered == Spec => []AuthorityAsShown
<1>1. BInv => AuthorityAsShown
  BY DEF BInv, RoutesInv, AuthorityAsShown, SourceDelivered, RulesDelivered
<1> QED BY <1>1, BridgeInvariance, PTL

\* An open request reaches the IDE that offered the id, and a reported match
\* reaches an asker that has it on screen.
THEOREM RequestsReachTheOwner == Spec => []RoutedAsShown
<1>1. BInv => RoutedAsShown
  BY DEF BInv
<1> QED BY <1>1, BridgeInvariance, PTL

-----------------------------------------------------------------------------
(* The bound on the table, and the peer states.                            *)

\* A step that drops routes, or none.
LEMMA BoundedAfterDrop ==
  ASSUME BInv, Bounded(registry),
         (\E S : registry' = DropRoutes(registry, S)) \/ registry' = registry
  PROVE  Bounded(registry')
  BY DropIsBounded DEF BInv, RoutesInv

LEMMA AskingIsBounded ==
  ASSUME BInv, Bounded(registry), Asking
  PROVE  Bounded(registry')
<1>1. Sound(registry)
  BY DEF BInv, RoutesInv
<1>2. PICK c \in Askers, i \in Inspect :
        \/ \E refs \in SUBSET RuleRef : InspectElement(c, i, refs)
        \/ \E g, x : SourceOpen(c, i, g, x) \/ RulesOpen(c, i, g, x)
        \/ \E g : SourceNavigate(c, i, g)
        \/ PresentationSettings(c, i)
  BY DEF Asking
<1>3. CASE i \in Live(registry)
  <2>1. registry' = Touch(registry, i)
    BY <1>2, <1>3 DEF InspectElement, SourceOpen, RulesOpen, SourceNavigate,
       PresentationSettings, ToOwner, SetRegistry
  <2> QED BY <1>1, <1>3, <2>1, TouchIsBounded
<1>4. CASE i \notin Live(registry)
  <2>1. PICK refs \in SUBSET RuleRef :
            registry' = AddRoute(registry, i, c, refs, Evicted(registry, c))
    BY <1>2, <1>4 DEF InspectElement, SourceOpen, RulesOpen, MayOpenRule,
       SourceNavigate, PresentationSettings, SetRegistry
  <2>2. c \in Conn
    BY DEF Askers
  <2> QED BY <1>1, <1>4, <2>1, <2>2, AddIsBounded
<1> QED BY <1>3, <1>4

LEMMA AnsweringIsBounded ==
  ASSUME BInv, Bounded(registry), Answering
  PROVE  Bounded(registry')
<1>1. Sound(registry)
  BY DEF BInv, RoutesInv
<1>2. PICK d \in Ides, i \in Inspect, g \in Nat :
        \/ Resolution(d, i, g)
        \/ \E ms \in SUBSET Match, empty \in BOOLEAN :
              SourceMatches(d, i, g, ms, empty)
        \/ \E m, zero : NavigationState(d, i, g, m, zero)
        \/ \E as \in SUBSET Auth : RulesSources(d, i, g, as)
  <2>1. 0..MaxResGen \subseteq Nat /\ 1..MaxRulesGen \subseteq Nat
    BY RoutesAssumption
  <2> QED BY <2>1 DEF Answering
<1>3. d \in Conn
  BY DEF Ides
<1>4. CASE Resolution(d, i, g)
  <2> DEFINE s == Claim(registry, i, d, g, TRUE)
  <2>1. /\ CanClaim(registry, i, d, g) /\ i \in Live(registry)
        /\ registry' = s \/ registry' = DropRoutes(s, {i})
    BY <1>4 DEF Resolution, CanClaim, SetRegistry, RemoveRoute
  <2>2. Sound(s) /\ Bounded(s)
    BY <1>1, <1>3, <2>1, ClaimIsSound, AnswersAreBounded
  <2> QED BY <2>1, <2>2, DropIsBounded
<1>5. ASSUME NEW ms \in SUBSET Match, NEW empty \in BOOLEAN,
             SourceMatches(d, i, g, ms, empty)
      PROVE  Bounded(registry')
  <2> DEFINE s == IF empty THEN Invalidate(registry, i, d, g)
                           ELSE ReplaceMatches(registry, i, ms)
  <2>1. /\ i \in Live(registry)
        /\ IF empty THEN CanInvalidate(registry, i, d, g)
                    ELSE CanReplaceMatches(registry, i, d, g)
        /\ registry' = s \/ registry' = DropRoutes(s, {i})
    BY <1>5 DEF SourceMatches, CanInvalidate, CanReplaceMatches, SetRegistry,
       RemoveRoute
  <2>2. CASE empty
    <3>1. s = Invalidate(registry, i, d, g)
      BY <2>2
    <3> HIDE DEF s
    <3>2. Sound(s) /\ Bounded(s)
      BY <1>1, <1>3, <2>1, <2>2, <3>1, InvalidateIsSound, AnswersAreBounded
    <3> QED BY <2>1, <3>2, DropIsBounded
  <2>3. CASE ~empty
    <3>1. s = ReplaceMatches(registry, i, ms)
      BY <2>3
    <3> HIDE DEF s
    <3>2. Sound(s) /\ Bounded(s)
      BY <1>1, <1>3, <2>1, <2>3, <3>1, ReplaceIsSound, AnswersAreBounded
    <3> QED BY <2>1, <3>2, DropIsBounded
  <2> QED BY <2>2, <2>3
<1>6. ASSUME NEW m, NEW zero, NavigationState(d, i, g, m, zero)
      PROVE  Bounded(registry')
  <2>1. /\ i \in Live(registry)
        /\ \/ registry' = Touch(registry, i)
           \/ registry' = DropRoutes(registry, {i})
    BY <1>6 DEF NavigationState, SetRegistry, RemoveRoute
  <2> QED BY <1>1, <2>1, TouchIsBounded, DropIsBounded
<1>7. ASSUME NEW as \in SUBSET Auth, RulesSources(d, i, g, as)
      PROVE  Bounded(registry')
  <2>1. i \in Live(registry) /\ registry' = PublishRules(registry, i, d, g, as)
    BY <1>7 DEF RulesSources, CanPublishRules
  <2> QED BY <1>1, <1>3, <2>1, AnswersAreBounded
<1> QED BY <1>2, <1>4, <1>5, <1>6, <1>7

LEMMA NextIsBounded ==
  ASSUME BInv, Bounded(registry), [Next]_vars
  PROVE  Bounded(registry')
<1>1. CASE Environment \/ UNCHANGED vars
  <2>1. registry' = registry
    BY <1>1 DEF Environment, Accept, Hangup, Vanish, IssueTrustedToken,
       TokenLost, routing, vars
  <2> QED BY <2>1
<1>2. CASE Lifetime
  <2>1. CASE Stop
    BY <2>1, EmptyIsBounded DEF Stop, SetRegistry
  <2>2. CASE ~Stop
    <3>1. (\E S : registry' = DropRoutes(registry, S)) \/ registry' = registry
      BY <1>2, <2>2 DEF Lifetime, SocketClosed, EndRegistration, RemoveClients,
         SetRegistry, HandshakeTimeout, HeartbeatTick, routing
    <3> QED BY <3>1, BoundedAfterDrop
  <2> QED BY <2>1, <2>2
<1>3. CASE Handshaking
  <2>1. (\E S : registry' = DropRoutes(registry, S)) \/ registry' = registry
    BY <1>3 DEF Handshaking, LinkAccepted, LinkRefused, FatalInbound, Unlink,
       Pong, Hello, RemoveClients, SetRegistry, routing
  <2> QED BY <2>1, BoundedAfterDrop
<1> QED BY <1>1, <1>2, <1>3, AskingIsBounded, AnsweringIsBounded DEF Next

\* The state is well formed and the table sound: no client has more routes
\* than the limit and one of them is the oldest, with clients that make routes
\* after the heartbeat evicted them.
THEOREM RegistryStaysSound == Spec => []RegistrySound
<1>1. Init => BInv /\ Bounded(registry)
  BY InitIsSafe, EmptyIsBounded DEF Init
<1>2. BInv /\ Bounded(registry) /\ [Next]_vars => (BInv /\ Bounded(registry))'
  BY NextIsSafe, NextIsBounded
<1>3. BInv => TypeOK
  BY RegistryType DEF BInv, SocketsInv, SocketsTyped, RoutesInv, Sound,
     AnswersOf, TypeOK
<1>4. BInv /\ Bounded(registry) => RegistrySound
  BY <1>3, BoundedParts DEF BInv, RoutesInv, Sound, RegistrySound
<1> QED BY <1>1, <1>2, <1>4, PTL DEF Spec

\* What was told is not newer than what is, as long as the bridge is up.
ToldBefore == up => \A c \in Conn : told[c].gen <= peer.gen

\* A step changes the peer states only through updateIdeCount, or stops.
LEMMA PresenceMoves ==
  ASSUME BInv, [Next]_vars
  PROVE  \/ told' = told /\ (peer' = peer \/ ~up') /\ (up' => up)
         \/ \E cs, w, n : SetClients(cs, w, n) /\ up' = up /\ (up \/ cs = {})
<1>1. ~up => clients = {} /\ tokens \cap held = {}
  BY DEF BInv, SocketsInv, StoppedIsSilent
<1>2. CASE Asking \/ Answering
  BY <1>2, RoutingIsQuiet DEF Quiet, presence
<1>3. CASE Environment \/ UNCHANGED vars
  BY <1>3 DEF Environment, Accept, Hangup, Vanish, IssueTrustedToken,
     TokenLost, presence, vars
<1>4. ASSUME NEW S, NEW w, RemoveClients(S, w), up' = up
      PROVE  \E cs, v, n : SetClients(cs, v, n) /\ up' = up /\ (up \/ cs = {})
  <2>1. SetClients(clients \ S, w, None) /\ (up \/ clients \ S = {})
    BY <1>1, <1>4 DEF RemoveClients
  <2> QED BY <1>4, <2>1
<1>5. CASE Lifetime
  <2>1. CASE Stop
    BY <2>1 DEF Stop
  <2>2. CASE HeartbeatTick
    BY <1>4, <2>2 DEF HeartbeatTick
  <2>3. ASSUME NEW c, SocketClosed(c)
        PROVE  \/ told' = told /\ peer' = peer /\ up' = up
               \/ \E S, w : RemoveClients(S, w) /\ up' = up
    BY <2>3 DEF SocketClosed, EndRegistration
  <2>4. ASSUME NEW c, HandshakeTimeout(c)
        PROVE  told' = told /\ peer' = peer /\ up' = up
    BY <2>4 DEF HandshakeTimeout, presence
  <2> QED BY <1>4, <1>5, <2>1, <2>2, <2>3, <2>4 DEF Lifetime
<1>6. CASE Handshaking
  <2>1. ASSUME NEW c, NEW t, Hello(c, t)
        PROVE  \E cs, v, n : SetClients(cs, v, n) /\ up' = up /\ (up \/ cs = {})
    <3>1. SetClients(clients \cup {c}, writable, c) /\ up' = up /\ up
      BY <1>1, <2>1 DEF Hello
    <3> QED BY <3>1
  <2>2. ASSUME NEW c, Unlink(c)
        PROVE  \E S, w : RemoveClients(S, w) /\ up' = up
    BY <2>2 DEF Unlink
  <2>3. ASSUME NEW c, LinkAccepted(c) \/ LinkRefused(c) \/ FatalInbound(c) \/ Pong(c)
        PROVE  told' = told /\ peer' = peer /\ up' = up
    BY <2>3 DEF LinkAccepted, LinkRefused, FatalInbound, Pong, presence
  <2> QED BY <1>4, <1>6, <2>1, <2>2, <2>3 DEF Handshaking
<1> QED BY <1>2, <1>3, <1>5, <1>6 DEF Next

LEMMA ToldAdvances ==
  ASSUME BInv, ToldBefore, [Next]_vars
  PROVE  /\ ToldBefore'
         /\ \A c \in Conn : told'[c] # told[c] => told'[c].gen >= told[c].gen
<1>1. /\ peer.gen \in Nat /\ SocketsTyped
      /\ told \in [Conn -> [connected : BOOLEAN, gen : Nat \cup {-1}]]
  BY DEF BInv, SocketsInv, SocketsTyped
<1>2. CASE told' = told /\ (peer' = peer \/ ~up') /\ (up' => up)
  BY <1>2 DEF ToldBefore
<1>3. ASSUME NEW cs, NEW w, NEW n, SetClients(cs, w, n), up' = up, up \/ cs = {}
      PROVE  /\ ToldBefore'
             /\ \A c \in Conn : told'[c] # told[c] => told'[c].gen >= told[c].gen
  <2>1. peer' = PeerAfter(cs)
        /\ told' = [c \in Conn |-> IF /\ c \in cs \cap Askers \cap w
                                      /\ peer' # peer \/ c = n
                                   THEN peer' ELSE told[c]]
    BY <1>3 DEF SetClients
  <2>2. peer'.gen \in Nat /\ peer'.gen >= peer.gen
    <3>1. \/ peer' = peer
          \/ \E now : peer' = [connected |-> now, gen |-> peer.gen + 1]
      BY <2>1 DEF PeerAfter
    <3>2. (\E now : peer' = [connected |-> now, gen |-> peer.gen + 1])
             => peer'.gen = peer.gen + 1
      OBVIOUS
    <3> QED BY <1>1, <3>1, <3>2
  <2>3. CASE ~up
    <3>1. told' = told
      BY <1>1, <1>3, <2>1, <2>3
    <3> QED BY <1>3, <2>3, <3>1 DEF ToldBefore
  <2>4. CASE up
    <3>1. ASSUME NEW c \in Conn
          PROVE  told'[c].gen <= peer'.gen /\ told'[c].gen >= told[c].gen
      <4>1. told[c].gen \in Nat \cup {-1} /\ told[c].gen <= peer.gen
        BY <1>1, <2>4 DEF ToldBefore
      <4>2. told'[c] = peer' \/ told'[c] = told[c]
        BY <2>1
      <4> QED BY <1>1, <2>2, <4>1, <4>2
    <3> QED BY <3>1 DEF ToldBefore
  <2> QED BY <2>3, <2>4
<1> QED BY <1>2, <1>3, PresenceMoves

\* Each client sees the peer states in the order they were produced:
\* peerStateRegistry.ts never counts back while the bridge runs, and after
\* stop() nobody is told anything.
THEOREM PeersSeeOrder == Spec => PeerViewsAdvance
<1>1. Init => ToldBefore
  <2>1. NeverTold.gen = -1 /\ NoPeer.gen = 0
    BY DEF NeverTold, NoPeer
  <2> QED BY <2>1 DEF Init, ToldBefore
<1>2. BInv /\ ToldBefore /\ [Next]_vars => ToldBefore'
  BY ToldAdvances
<1>3. BInv /\ ToldBefore /\ [Next]_vars =>
          [\A c \in Conn : told'[c] # told[c] => told'[c].gen >= told[c].gen]_vars
  BY ToldAdvances
<1> QED BY <1>1, <1>2, <1>3, BridgeInvariance, PTL DEF Spec, PeerViewsAdvance
=============================================================================
