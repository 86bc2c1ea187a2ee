---------------------------- MODULE ReplyRoutes ----------------------------
(***************************************************************************)
(* The reply-route table of the bridge: packages/bridge/src/              *)
(* replyRouteRegistry.ts as operators on a registry value.  A route binds *)
(* an inspect id to the connection that asked, to the IDE that answered   *)
(* first, and to what that IDE last authorised the asker to open.         *)
(*                                                                         *)
(* A registry is a record:                                                 *)
(*   routes    the live routes, a function on the live inspect ids         *)
(*   byClient  the ids indexed under the connection that asked             *)
(*   byIde     the ids indexed under the IDE that owns the answer          *)
(*   older     <<a, b>>: a was touched before b (the insertion order of    *)
(*             the Map the code keeps for each client)                     *)
(* The session id is not a coordinate: a bridge issues tokens for one      *)
(* session, so every registered client is in it.                           *)
(***************************************************************************)
EXTENDS Integers, FiniteSets

CONSTANTS
    Conn,        \* connections (a client id is the connection's)
    Inspect,     \* inspect message ids
    Match,       \* opaque ids of source excerpts
    Auth,        \* opaque authorities to open a rule's origin
    RuleRef,     \* rule references an inspect carries
    MaxRoutes,   \* maxRoutesPerClient, 256 in the code
    MaxResGen,   \* bound on the resolution generations tried
    MaxRulesGen, \* bound on the rules generations tried
    None         \* an undefined connection

ASSUME RoutesAssumption ==
    /\ None \notin Conn
    /\ MaxRoutes \in Nat \ {0}
    /\ MaxResGen \in Nat
    /\ MaxRulesGen \in Nat

\* The table.  ReplyRouteRegistry says how the class's own calls change it,
\* Bridge how the bridge's messages and connections do.
VARIABLE registry

NoGen == -1      \* an undefined generation; the schemas start them at 0
Gen == Nat

Route == [ origin   : Conn,
           expected : SUBSET RuleRef,
           ide      : Conn \cup {None},
           resGen   : Gen \cup {NoGen},
           claimed  : BOOLEAN,
           matches  : SUBSET Match,
           rulesGen : Gen \cup {NoGen},
           auths    : SUBSET Auth ]

\* The registries whose table has a route for each id in live.
RegistryOn(live) ==
    [ routes   : [live -> Route],
      byClient : [Conn -> SUBSET Inspect],
      byIde    : [Conn -> SUBSET Inspect],
      older    : SUBSET (Inspect \X Inspect) ]

IsRegistry(r) == \E live \in SUBSET Inspect : r \in RegistryOn(live)

EmptyRegistry == [ routes   |-> [i \in {} |-> None],
                   byClient |-> [c \in Conn |-> {}],
                   byIde    |-> [c \in Conn |-> {}],
                   older    |-> {} ]

NewRoute(c, refs) ==
    [ origin |-> c, expected |-> refs, ide |-> None, resGen |-> NoGen,
      claimed |-> FALSE, matches |-> {}, rulesGen |-> NoGen, auths |-> {} ]

-----------------------------------------------------------------------------
Live(r) == DOMAIN r.routes

\* The least recently touched route of c: the first key of its Map.  OrderTotal
\* makes it one route when c has any.
Oldest(r, c) ==
    { i \in r.byClient[c] :
        \A j \in r.byClient[c] \ {i} : <<i, j>> \in r.older }

\* i becomes the most recent of c's routes.
Newest(r, c, i) ==
    { p \in r.older : p[1] # i /\ p[2] # i }
        \cup { <<j, i>> : j \in r.byClient[c] \ {i} }

Touch(r, i) ==
    LET c == r.routes[i].origin
    IN [ r EXCEPT !.byClient[c] = @ \cup {i},
                  !.older = Newest(r, c, i) ]

\* Another answer for a live route.
WithRoute(r, i, t) == [ r EXCEPT !.routes[i] = t ]

\* Mutants of DropRoutes: an entry emptied and not deleted; an IDE's index
\* that keeps the id.
DropRoutes_Emptied(r, S) ==
    [ r EXCEPT !.routes = [i \in Live(r) |-> IF i \in S THEN None
                                                       ELSE r.routes[i]] ]

DropRoutes_IdeIndexKept(r, S) ==
    LET gone == S \cap Live(r)
    IN [ routes   |-> [i \in Live(r) \ gone |-> r.routes[i]],
         byClient |-> [c \in Conn |-> r.byClient[c]
                          \ { i \in gone : r.routes[i].origin = c }],
         byIde    |-> r.byIde,
         older    |-> { p \in r.older : p[1] \notin gone /\ p[2] \notin gone } ]

\* Drop the routes in S from the table and from the two indexes that list
\* them: the one of their asker and the one of their IDE.
DropRoutes(r, S) ==
    LET gone == S \cap Live(r)
    IN [ routes   |-> [i \in Live(r) \ gone |-> r.routes[i]],
         byClient |-> [c \in Conn |-> r.byClient[c]
                          \ { i \in gone : r.routes[i].origin = c }],
         byIde    |-> [c \in Conn |-> r.byIde[c]
                          \ { i \in gone : r.routes[i].ide = c }],
         older    |-> { p \in r.older : p[1] \notin gone /\ p[2] \notin gone } ]

RemoveRoute(r, i) == DropRoutes(r, {i})

RemoveClient(r, c) == DropRoutes(r, r.byClient[c] \cup r.byIde[c])

-----------------------------------------------------------------------------
\* register: the id is taken by another asker, or with other evidence.
Collides(r, i, c, refs) ==
    /\ i \in Live(r)
    /\ \/ r.routes[i].origin # c
       \/ r.routes[i].expected # refs

\* Mutant of Evicted: off by one.
Evicted_Above(r, c) ==
    IF Cardinality(r.byClient[c]) > MaxRoutes THEN Oldest(r, c) ELSE {}

\* The route a new one of c pushes out, chosen when the registration is made.
Evicted(r, c) ==
    IF Cardinality(r.byClient[c]) >= MaxRoutes THEN Oldest(r, c) ELSE {}

\* Committing a registration that created a route.
AddRoute(r, i, c, refs, evicted) ==
    LET s == DropRoutes(r, evicted)
    IN [ s EXCEPT !.routes = [j \in Live(s) \cup {i} |->
                                 IF j = i THEN NewRoute(c, refs)
                                          ELSE s.routes[j]],
                  !.byClient[c] = @ \cup {i},
                  !.older = Newest(s, c, i) ]

-----------------------------------------------------------------------------
\* Mutant of BindIde: the owner is set and not indexed.
BindIde_NotIndexed(r, i, d) ==
    IF r.routes[i].ide = None
    THEN [ r EXCEPT !.routes[i].ide = d ]
    ELSE r

\* The first IDE to answer owns the route.
BindIde(r, i, d) ==
    IF r.routes[i].ide = None
    THEN [ r EXCEPT !.routes[i].ide = d,
                    !.byIde[d] = @ \cup {i} ]
    ELSE r

OwnedOrFree(r, i, d) == r.routes[i].ide \in {None, d}

\* claimAuthority: by the owner, at a generation that is not older.
CanClaim(r, i, d, g) ==
    /\ i \in Live(r)
    /\ OwnedOrFree(r, i, d)
    /\ g >= r.routes[i].resGen

\* Mutant of Claim: the matches of the previous resolution survive.
Claim_KeepMatches(r, i, d, g, claimed) ==
    LET s == BindIde(r, i, d)
    IN Touch(WithRoute(s, i, [ s.routes[i] EXCEPT !.resGen = g,
                                                  !.claimed = claimed ]), i)

Claim(r, i, d, g, claimed) ==
    LET s == BindIde(r, i, d)
    IN Touch(WithRoute(s, i, [ s.routes[i] EXCEPT !.resGen = g,
                                                  !.claimed = claimed,
                                                  !.matches = {} ]), i)

\* claimSourceInvalidation: a route nobody answered is cleared, not claimed.
CanInvalidate(r, i, d, g) ==
    /\ i \in Live(r)
    /\ r.routes[i].ide # None => CanClaim(r, i, d, g)

Invalidate(r, i, d, g) ==
    IF r.routes[i].ide = None
    THEN Touch(WithRoute(r, i, [ r.routes[i] EXCEPT !.matches = {} ]), i)
    ELSE Claim(r, i, d, g, FALSE)

\* Mutant of CanReplaceMatches: a resolution that was invalidated will do.
CanReplaceMatches_Unclaimed(r, i, d, g) ==
    /\ i \in Live(r)
    /\ r.routes[i].ide = d
    /\ r.routes[i].resGen = g

\* replaceMatchIds: only for the resolution the owner last claimed.
CanReplaceMatches(r, i, d, g) ==
    /\ i \in Live(r)
    /\ r.routes[i].ide = d
    /\ r.routes[i].resGen = g
    /\ r.routes[i].claimed

ReplaceMatches(r, i, ms) ==
    Touch(WithRoute(r, i, [ r.routes[i] EXCEPT !.matches = ms ]), i)

\* Mutant of CanPublishRules: a generation may be published twice.
CanPublishRules_Again(r, i, d, g, as) ==
    /\ i \in Live(r)
    /\ OwnedOrFree(r, i, d)
    /\ IF r.routes[i].rulesGen = NoGen THEN g = 1 ELSE g >= r.routes[i].rulesGen
    /\ Cardinality(as) <= Cardinality(r.routes[i].expected)

\* prepareRulesSources: the first generation is 1, later ones are newer, and
\* no more authorities are issued than the inspect carried rules.
CanPublishRules(r, i, d, g, as) ==
    /\ i \in Live(r)
    /\ OwnedOrFree(r, i, d)
    /\ IF r.routes[i].rulesGen = NoGen THEN g = 1 ELSE g > r.routes[i].rulesGen
    /\ Cardinality(as) <= Cardinality(r.routes[i].expected)

PublishRules(r, i, d, g, as) ==
    LET s == BindIde(r, i, d)
    IN Touch(WithRoute(s, i, [ s.routes[i] EXCEPT !.rulesGen = g,
                                                  !.auths = as ]), i)

\* Mutant of MayOpenRule: the generation asked for is not compared.
MayOpenRule_AnyGen(r, i, c, g, a) ==
    /\ i \in Live(r)
    /\ r.routes[i].origin = c
    /\ r.routes[i].ide # None
    /\ a \in r.routes[i].auths

\* authorizeRulesOpen: the asker, the current generation, a listed authority.
MayOpenRule(r, i, c, g, a) ==
    /\ i \in Live(r)
    /\ r.routes[i].origin = c
    /\ r.routes[i].ide # None
    /\ r.routes[i].rulesGen = g
    /\ a \in r.routes[i].auths

-----------------------------------------------------------------------------
\* The two indexes list exactly the live routes, so removeByKey never meets a
\* key without a route (it throws "Reply route index is inconsistent").
IndexesExact(r) ==
    \A c \in Conn :
        /\ r.byClient[c] = { i \in Live(r) : r.routes[i].origin = c }
        /\ r.byIde[c] = { i \in Live(r) : r.routes[i].ide = c }

\* The touch order is a strict total order on each client's routes, so there
\* is exactly one oldest route to push out.
OrderTotal(r) ==
    /\ \A p \in r.older : <<p[2], p[1]>> \notin r.older
    /\ \A c \in Conn : \A i, j \in r.byClient[c] :
           i # j => <<i, j>> \in r.older \/ <<j, i>> \in r.older
    /\ \A i, j, k \in Live(r) :
           <<i, j>> \in r.older /\ <<j, k>> \in r.older => <<i, k>> \in r.older

WithinLimit(r) == \A c \in Conn : Cardinality(r.byClient[c]) <= MaxRoutes

\* What may be opened was issued by an IDE that owns the route.
AuthorityOwned(r) ==
    \A i \in Live(r) :
        LET t == r.routes[i]
        IN /\ t.resGen # NoGen => t.ide # None
           /\ t.claimed => t.resGen # NoGen
           /\ t.matches # {} => t.claimed
           /\ t.rulesGen # NoGen => t.ide # None /\ t.rulesGen >= 1
           /\ t.auths # {} => t.rulesGen # NoGen
=============================================================================
