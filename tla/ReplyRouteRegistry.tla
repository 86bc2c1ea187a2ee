------------------------- MODULE ReplyRouteRegistry -------------------------
(***************************************************************************)
(* The class ReplyRouteRegistry (packages/bridge/src/replyRouteRegistry.ts)*)
(* behind its own interface.  Registering a route and publishing rule      *)
(* sources are two-phase: the caller prepares, hands the message to a      *)
(* socket, and then commits or rolls back.  Whatever a send provokes in    *)
(* between (a connection dropped, another route registered) must not be    *)
(* overwritten by a commit computed before it.                             *)
(*                                                                         *)
(* The code compares a revision counter that every mutation increments.    *)
(* Here a preparation carries "fresh": no mutation since it was made,      *)
(* which is what equality of the two counters means.                       *)
(***************************************************************************)
EXTENDS ReplyRoutes

CONSTANT
    MaxPrepared   \* bound on the preparations outstanding at once

ASSUME RegistryAssumption == MaxPrepared \in Nat

VARIABLE
    prepared     \* preparations neither committed nor rolled back

registryVars == <<registry, prepared>>

NewRegistration ==
    [ kind : {"created"}, inspect : Inspect, conn : Conn,
      refs : SUBSET RuleRef, evicted : SUBSET Inspect, fresh : BOOLEAN ]

Refreshment ==
    [ kind : {"refreshed"}, inspect : Inspect, fresh : BOOLEAN ]

Publication ==
    [ kind : {"rules"}, inspect : Inspect, conn : Conn, gen : Gen,
      auths : SUBSET Auth, fresh : BOOLEAN ]

RegistryTypeOK ==
    /\ IsRegistry(registry)
    /\ prepared \subseteq NewRegistration \cup Refreshment \cup Publication

RegistryInit ==
    /\ registry = EmptyRegistry
    /\ prepared = {}

Stale(P) == { [p EXCEPT !.fresh = FALSE] : p \in P }

\* Mutant of Mutate: the revision is not incremented.
Mutate_Silent(r) ==
    /\ registry' = r
    /\ UNCHANGED prepared

\* Every mutation goes through markMutated.
Mutate(r) ==
    /\ registry' = r
    /\ prepared' = Stale(prepared)

Prepare(p) ==
    /\ Cardinality(prepared) < MaxPrepared
    /\ prepared' = prepared \cup {p}
    /\ UNCHANGED registry

-----------------------------------------------------------------------------
\* register of an unknown id: the route to push out is chosen here.
PrepareNew(i, c, refs) ==
    /\ i \notin Live(registry)
    /\ Prepare([ kind |-> "created", inspect |-> i, conn |-> c, refs |-> refs,
                 evicted |-> Evicted(registry, c), fresh |-> TRUE ])

\* register of the asker's own id again; any other reuse collides and
\* prepares nothing.
PrepareRefresh(i, c, refs) ==
    /\ i \in Live(registry)
    /\ ~Collides(registry, i, c, refs)
    /\ Prepare([ kind |-> "refreshed", inspect |-> i, fresh |-> TRUE ])

PrepareRules(i, d, g, as) ==
    /\ CanPublishRules(registry, i, d, g, as)
    /\ Prepare([ kind |-> "rules", inspect |-> i, conn |-> d, gen |-> g,
                 auths |-> as, fresh |-> TRUE ])

\* Mutant of Commit: what changed since the preparation is not looked at.
Commit_Stale(p) ==
    /\ p.kind = "created"
    /\ registry' = AddRoute(registry, p.inspect, p.conn, p.refs, p.evicted)
    /\ prepared' = Stale(prepared \ {p})

\* A commit applies when nothing has changed since its preparation.
Committed(p) ==
    CASE p.kind = "created" ->
            AddRoute(registry, p.inspect, p.conn, p.refs, p.evicted)
      [] p.kind = "refreshed" -> Touch(registry, p.inspect)
      [] p.kind = "rules" ->
            PublishRules(registry, p.inspect, p.conn, p.gen, p.auths)

Commit(p) ==
    /\ p.fresh
    /\ registry' = Committed(p)
    /\ prepared' = Stale(prepared \ {p})

\* A stale commit fails and settles the preparation, as a rollback does.
Settle(p) ==
    /\ prepared' = prepared \ {p}
    /\ UNCHANGED registry

-----------------------------------------------------------------------------
ClaimResolution(i, d, g) ==
    /\ CanClaim(registry, i, d, g)
    /\ Mutate(Claim(registry, i, d, g, TRUE))

ClaimSourceInvalidation(i, d, g) ==
    /\ CanInvalidate(registry, i, d, g)
    /\ Mutate(Invalidate(registry, i, d, g))

ReplaceMatchIds(i, d, g, ms) ==
    /\ CanReplaceMatches(registry, i, d, g)
    /\ Mutate(ReplaceMatches(registry, i, ms))

AuthorizeRulesOpen(i, c, g, a) ==
    /\ MayOpenRule(registry, i, c, g, a)
    /\ Mutate(Touch(registry, i))

Resolve(i) ==
    /\ i \in Live(registry)
    /\ Mutate(Touch(registry, i))

Remove(i) ==
    /\ i \in Live(registry)
    /\ Mutate(RemoveRoute(registry, i))

\* removeClient marks a mutation whether or not it had routes.
RemoveConnection(c) == Mutate(RemoveClient(registry, c))

Clear == Mutate(EmptyRegistry)

Registering ==
    \E i \in Inspect, c \in Conn, refs \in SUBSET RuleRef :
        PrepareNew(i, c, refs) \/ PrepareRefresh(i, c, refs)

Claiming ==
    \E i \in Inspect, d \in Conn, g \in 0..MaxResGen :
        \/ ClaimResolution(i, d, g)
        \/ ClaimSourceInvalidation(i, d, g)
        \/ \E ms \in SUBSET Match : ReplaceMatchIds(i, d, g, ms)

Publishing ==
    \E i \in Inspect, d \in Conn, g \in 1..MaxRulesGen :
        \/ \E as \in SUBSET Auth : PrepareRules(i, d, g, as)
        \/ \E a \in Auth : AuthorizeRulesOpen(i, d, g, a)

Settling == \E p \in prepared : Commit(p) \/ Settle(p)

Removing ==
    \/ \E i \in Inspect : Resolve(i) \/ Remove(i)
    \/ \E c \in Conn : RemoveConnection(c)
    \/ Clear

RegistryNext == Registering \/ Claiming \/ Publishing \/ Settling \/ Removing

RegistrySpec == RegistryInit /\ [][RegistryNext]_registryVars

-----------------------------------------------------------------------------
\* A route never has a stale index entry and no live route is missing from an
\* index: otherwise a disconnect leaves routes behind, or removeByKey throws.
IndexConsistent == IndexesExact(registry)

\* The table of no client outgrows its limit, whatever preparations for it
\* were outstanding together, and there is one oldest route to evict.
BoundedTable == WithinLimit(registry) /\ OrderTotal(registry)

\* An excerpt or a rule can be opened only while the answer that offered it
\* belongs to the IDE that owns the route.
OwnedAuthority == AuthorityOwned(registry)

\* A preparation that may still commit meets the conditions it was made under,
\* although commit checks none of them again: the id it creates is free and
\* pushes out the route chosen for it, the id it refreshes is live, the rules
\* it publishes are still newer and from the route's owner.
FreshStillHolds ==
    \A p \in prepared : p.fresh =>
        CASE p.kind = "created" ->
                /\ p.inspect \notin Live(registry)
                /\ p.evicted = Evicted(registry, p.conn)
          [] p.kind = "refreshed" -> p.inspect \in Live(registry)
          [] p.kind = "rules" ->
                CanPublishRules(registry, p.inspect, p.conn, p.gen, p.auths)

\* While a route lives, its asker and its owner never change, and neither
\* generation goes back: a late answer of the IDE cannot undo a newer one.
\* A route dropped and made anew by one call would be a different route, but
\* no call does both.
NoRegression ==
    [][\A i \in Live(registry) \cap Live(registry)' :
          LET t == registry.routes[i]
              u == registry'.routes[i]
          IN /\ u.origin = t.origin
             /\ u.expected = t.expected
             /\ t.ide # None => u.ide = t.ide
             /\ u.resGen >= t.resGen
             /\ u.rulesGen >= t.rulesGen
             /\ u.rulesGen = t.rulesGen => u.auths = t.auths]_registryVars
=============================================================================
