------------------------------- MODULE Bridge -------------------------------
(***************************************************************************)
(* The loopback bridge: packages/bridge/src/server.ts (a connection's      *)
(* handshake, its end, start and stop), router.ts (where each message      *)
(* goes), heartbeat.ts, clientRegistry.ts and peerStateRegistry.ts, on the *)
(* reply-route table of ReplyRoutes and an abstract link authenticator     *)
(* (module LinkAuthenticator has the concrete one).                        *)
(*                                                                         *)
(* Node runs one callback at a time, so each callback is one action:       *)
(* a message, a socket's close event, a timer, a call of stop().  What a   *)
(* callback cannot do is see the future of a socket: terminate() only      *)
(* makes it unwritable, the close event comes later, and frames already    *)
(* buffered may still be handled in between.                               *)
(***************************************************************************)
EXTENDS ReplyRoutes

CONSTANTS
    Role,         \* the role each connection's client has
    Caps,         \* the capabilities each client's hello announces
    Faults        \* which of AllFaults the environment may commit

AllFaults == {"vanish", "hangup", "fatal", "expire", "heartbeat", "stop"}

Capability == {"inspect", "resolution", "rules-sources", "source-presentation",
               "presentation-settings", "source-navigation"}

ASSUME BridgeAssumption ==
    /\ Role \in [Conn -> {"browser", "simulator", "ide"}]
    /\ Caps \in [Conn -> SUBSET Capability]
    /\ Faults \subseteq AllFaults

Ides == { c \in Conn : Role[c] = "ide" }
Askers == Conn \ Ides                 \* browsers and simulators

VARIABLES
    up,          \* the server is started and not stopped
    opened,      \* connections whose socket was accepted
    closed,      \* connections whose close event was handled
    writable,    \* sockets in readyState OPEN
    alive,       \* connections whose peer still talks
    closing,     \* handlers that refuse further messages
    timing,      \* sockets with a handshake timer armed
    linked,      \* handlers that have tried a link request
    registered,  \* handlers that hold a registered client
    clients,     \* the ClientRegistry
    missed,      \* missedPongs of each client
    auth,        \* the token each registered client presented
    tokens,      \* the tokens the authenticator accepts
    held,        \* the tokens some client was given
    peer,        \* PeerStateRegistry: is an IDE connected, and its generation
    told,        \* the last peerState each connection was sent
    shown,       \* per live route: the source answer its asker last received
    rulesShown,  \* per live route: the rules answer its asker last received
    sent         \* the authority-bearing messages of the last step

sockets == <<opened, closed, writable, alive, closing, timing>>
handshake == <<linked, registered, auth, tokens, held>>
presence == <<clients, missed, peer, told>>
routing == <<registry, shown, rulesShown>>
vars == <<up, sockets, handshake, presence, routing, sent>>

NoPeer == [connected |-> FALSE, gen |-> 0]
NeverTold == [connected |-> FALSE, gen |-> -1]

\* What an asker was told about its inspect: by whom, at which generation,
\* and which ids it may now send back.
SourceAnswer == [to : Conn, ide : Conn, gen : Gen, matches : SUBSET Match]
RulesAnswer == [to : Conn, ide : Conn, gen : Gen, auths : SUBSET Auth]

TypeOK ==
    /\ up \in BOOLEAN
    /\ closed \subseteq opened /\ opened \subseteq Conn
    /\ writable \subseteq opened \ closed
    /\ alive \subseteq opened
    /\ closing \subseteq opened
    /\ timing \subseteq opened \ closed
    /\ linked \subseteq Askers
    /\ registered \subseteq opened \ closed
    /\ clients \subseteq registered
    /\ missed \in [Conn -> 0..2]
    /\ auth \in [Conn -> Conn \cup {None}]
    /\ tokens \subseteq Conn
    /\ held \subseteq Conn
    /\ peer \in [connected : BOOLEAN, gen : Nat]
    /\ told \in [Conn -> [connected : BOOLEAN, gen : Nat \cup {-1}]]
    /\ IsRegistry(registry)
    /\ DOMAIN shown \subseteq Live(registry)
    /\ shown \in [DOMAIN shown -> SourceAnswer]
    /\ DOMAIN rulesShown \subseteq Live(registry)
    /\ rulesShown \in [DOMAIN rulesShown -> RulesAnswer]

Init ==
    /\ up = TRUE
    /\ opened = {} /\ closed = {} /\ writable = {} /\ alive = {}
    /\ closing = {} /\ timing = {}
    /\ linked = {} /\ registered = {} /\ clients = {}
    /\ missed = [c \in Conn |-> 0]
    /\ auth = [c \in Conn |-> None]
    /\ tokens = {} /\ held = {}
    /\ peer = NoPeer
    /\ told = [c \in Conn |-> NeverTold]
    /\ registry = EmptyRegistry
    /\ shown = [i \in {} |-> None]
    /\ rulesShown = [i \in {} |-> None]
    /\ sent = {}

-----------------------------------------------------------------------------
(* What several handlers share.                                            *)

\* A message of c reaches its handler.
Heard(c) == c \in alive /\ c \notin closed \cup closing

\* Keep what was shown of the routes that still live.
Forget(answers, r) == [i \in DOMAIN answers \cap Live(r) |-> answers[i]]

With(answers, i, a) ==
    [j \in DOMAIN answers \cup {i} |-> IF j = i THEN a ELSE answers[j]]

SetRegistry(r) ==
    /\ registry' = r
    /\ shown' = Forget(shown, r)
    /\ rulesShown' = Forget(rulesShown, r)

\* Mutants of PeerAfter: the count of the clients before the change; a
\* generation that starts again when the last IDE leaves.
PeerAfter_Before(cs) ==
    LET now == \E d \in clients : d \in Ides
    IN IF now = peer.connected
       THEN peer
       ELSE [connected |-> now, gen |-> peer.gen + 1]

PeerAfter_Restart(cs) ==
    LET now == \E d \in cs : d \in Ides
    IN IF now = peer.connected
       THEN peer
       ELSE [connected |-> now, gen |-> IF now THEN peer.gen + 1 ELSE 0]

\* updateIdeCount: the generation moves only when presence does.
PeerAfter(cs) ==
    LET now == \E d \in cs : d \in Ides
    IN IF now = peer.connected
       THEN peer
       ELSE [connected |-> now, gen |-> peer.gen + 1]

\* Mutant of SetClients: a newcomer is told nothing until presence changes.
SetClients_NoSnapshot(cs, w, newcomer) ==
    /\ clients' = cs
    /\ peer' = PeerAfter(cs)
    /\ told' = [c \in Conn |-> IF c \in cs \cap Askers \cap w /\ peer' # peer
                              THEN peer' ELSE told[c]]

\* publishPeerState goes to every asker registered and writable; a newcomer
\* is sent the current state in any case (sendCurrentPeerState).
SetClients(cs, w, newcomer) ==
    /\ clients' = cs
    /\ peer' = PeerAfter(cs)
    /\ told' = [c \in Conn |->
                  IF /\ c \in cs \cap Askers \cap w
                     /\ peer' # peer \/ c = newcomer
                  THEN peer' ELSE told[c]]

\* onClientRemoved for the clients in S, and removeClient of their routes.
RemoveClients(S, w) ==
    /\ SetClients(clients \ S, w, None)
    /\ SetRegistry(DropRoutes(registry,
           UNION { registry.byClient[c] \cup registry.byIde[c] : c \in S }))

\* removeRegistration; its mutant leaves an evicted client's routes.
EndRegistration_ClientsOnly(c) ==
    IF c \in clients THEN RemoveClients({c}, writable)
                     ELSE UNCHANGED <<clients, peer, told, routing>>

EndRegistration(c) ==
    IF c \in registered THEN RemoveClients({c}, writable)
                        ELSE UNCHANGED <<clients, peer, told, routing>>

\* Mutant of Refuse: the timer is cleared and the socket is left open.
Refuse_LeaveOpen(c) ==
    /\ closing' = closing \cup {c}
    /\ timing' = timing \ {c}
    /\ UNCHANGED <<opened, closed, alive, writable>>

\* closeConnection
Refuse(c) ==
    /\ closing' = closing \cup {c}
    /\ timing' = timing \ {c}
    /\ writable' = writable \ {c}
    /\ UNCHANGED <<opened, closed, alive>>

-----------------------------------------------------------------------------
(* Sockets and their environment.                                          *)

Accept(c) ==
    /\ up
    /\ c \notin opened
    /\ opened' = opened \cup {c}
    /\ writable' = writable \cup {c}
    /\ alive' = alive \cup {c}
    /\ timing' = timing \cup {c}
    /\ sent' = {}
    /\ UNCHANGED <<up, closed, closing, handshake, presence, routing>>

\* The peer closes its end, or a send fails and terminates the socket.
Hangup(c) ==
    /\ "hangup" \in Faults
    /\ c \in writable
    /\ writable' = writable \ {c}
    /\ alive' = alive \ {c}
    /\ sent' = {}
    /\ UNCHANGED <<up, opened, closed, closing, timing, handshake, presence,
                   routing>>

\* The peer falls silent without closing: sends still succeed.
Vanish(c) ==
    /\ "vanish" \in Faults
    /\ c \in alive
    /\ alive' = alive \ {c}
    /\ sent' = {}
    /\ UNCHANGED <<up, opened, closed, writable, closing, timing, handshake,
                   presence, routing>>

\* The close event, after the socket left readyState OPEN: removeRegistration.
SocketClosed(c) ==
    /\ c \in opened \ closed
    /\ c \notin writable
    /\ closed' = closed \cup {c}
    /\ closing' = closing \cup {c}
    /\ timing' = timing \ {c}
    /\ registered' = registered \ {c}
    /\ EndRegistration(c)
    /\ sent' = {}
    /\ UNCHANGED <<up, opened, writable, alive, linked, auth, tokens, held,
                   missed>>

HandshakeTimeout(c) ==
    /\ c \in timing
    /\ timing' = timing \ {c}
    /\ writable' = writable \ {c}
    /\ sent' = {}
    /\ UNCHANGED <<up, opened, closed, alive, closing, handshake, presence,
                   routing>>

\* markPingSent, and a mutant that forgets it.
AfterPing_Forgotten(c) == missed[c]
AfterPing(c) == missed[c] + 1

\* One heartbeat: clients that left two pings unanswered go, the others are
\* pinged.
HeartbeatTick ==
    LET evicted == { c \in clients : missed[c] >= 2 }
    IN /\ "heartbeat" \in Faults
       /\ up
       /\ clients # {}
       /\ missed' = [c \in Conn |->
                       IF c \in clients \ evicted THEN AfterPing(c)
                                                  ELSE missed[c]]
       /\ writable' = writable \ evicted
       /\ RemoveClients(evicted, writable')
       /\ sent' = {}
       /\ UNCHANGED <<up, opened, closed, alive, closing, timing, handshake>>

\* revokeAll, and terminate() of every socket; the mutants forget the tokens,
\* and the sockets that have not authenticated.
RevokeAll_Skipped == UNCHANGED tokens
RevokeAll == tokens' = {}

TerminateAll_Clients == writable' = writable \ clients
TerminateAll == writable' = {}

\* stop(): registries are cleared and every socket terminated; the handlers
\* keep their own state until their close event.
Stop ==
    /\ "stop" \in Faults
    /\ up
    /\ up' = FALSE
    /\ clients' = {}
    /\ peer' = NoPeer
    /\ SetRegistry(EmptyRegistry)
    /\ RevokeAll
    /\ timing' = {}
    /\ TerminateAll
    /\ sent' = {}
    /\ UNCHANGED <<opened, closed, alive, closing, linked, registered, auth,
                   held, missed, told>>
-----------------------------------------------------------------------------
(* The handshake.                                                          *)

\* The extension host takes a token for its own client before it connects.
IssueTrustedToken(c) ==
    /\ up
    /\ c \in Ides
    /\ c \notin opened \cup held
    /\ tokens' = tokens \cup {c}
    /\ held' = held \cup {c}
    /\ sent' = {}
    /\ UNCHANGED <<up, sockets, linked, registered, auth, presence, routing>>

\* A token expires, or newer ones push it out.
TokenLost(t) ==
    /\ "expire" \in Faults
    /\ t \in tokens
    /\ tokens' = tokens \ {t}
    /\ sent' = {}
    /\ UNCHANGED <<up, sockets, linked, registered, auth, held, presence,
                   routing>>

\* A link request with the right PIN; the reply is lost if the socket is not
\* writable any more.
LinkAccepted(c) ==
    /\ Heard(c)
    /\ c \in Askers
    /\ c \notin linked \cup registered
    /\ linked' = linked \cup {c}
    /\ tokens' = tokens \cup {c}
    /\ held' = IF c \in writable THEN held \cup {c} ELSE held
    /\ sent' = {}
    /\ UNCHANGED <<up, sockets, registered, auth, presence, routing>>

\* A wrong PIN, or a rate limit.
LinkRefused(c) ==
    /\ "fatal" \in Faults
    /\ Heard(c)
    /\ c \in Askers
    /\ c \notin linked \cup registered
    /\ linked' = linked \cup {c}
    /\ Refuse(c)
    /\ sent' = {}
    /\ UNCHANGED <<up, registered, auth, tokens, held, presence, routing>>

\* hello with a token of the client's role; a reconnecting client presents
\* the token of an earlier connection.
Hello(c, t) ==
    /\ Heard(c)
    /\ c \notin registered
    /\ t \in held
    /\ t \in tokens
    /\ Role[t] = Role[c]
    /\ timing' = timing \ {c}
    /\ registered' = registered \cup {c}
    /\ auth' = [auth EXCEPT ![c] = t]
    /\ missed' = [missed EXCEPT ![c] = 0]
    /\ SetClients(clients \cup {c}, writable, c)
    /\ sent' = {}
    /\ UNCHANGED <<up, opened, closed, writable, alive, closing, linked,
                   tokens, held, routing>>

\* Another protocol version, a malformed or disallowed message, a second
\* link request or hello, a hello whose token is not accepted.
FatalInbound(c) ==
    /\ "fatal" \in Faults
    /\ Heard(c)
    /\ Refuse(c)
    /\ sent' = {}
    /\ UNCHANGED <<up, handshake, presence, routing>>

Unlink(c) ==
    /\ Heard(c)
    /\ c \in registered
    /\ Refuse(c)
    /\ registered' = registered \ {c}
    /\ tokens' = tokens \ {auth[c]}
    /\ RemoveClients({c}, writable)
    /\ sent' = {}
    /\ UNCHANGED <<up, linked, auth, held, missed>>

Pong(c) ==
    /\ Heard(c)
    /\ c \in clients
    /\ missed[c] # 0
    /\ missed' = [missed EXCEPT ![c] = 0]
    /\ sent' = {}
    /\ UNCHANGED <<up, sockets, handshake, clients, peer, told, routing>>

-----------------------------------------------------------------------------
(* Routing: router.ts.  The sender may be a client the heartbeat has just   *)
(* evicted, whose buffered frames are still handled; a recipient is looked  *)
(* up among the clients.  An answer that reaches nobody costs its route; a  *)
(* message refused for any other reason changes nothing here.               *)

Sender(c, cap) ==
    /\ Heard(c)
    /\ c \in registered
    /\ cap \in Caps[c]

\* getOriginRecipient and getIdeRecipient
Recipient(c, cap) == c \in clients /\ cap \in Caps[c]

FromAsker(c, cap) == c \in Askers /\ Sender(c, cap)
FromIde(d, cap) == d \in Ides /\ Sender(d, cap)

Quiet == UNCHANGED <<up, sockets, handshake, presence>>

ShowSource(i, a) ==
    /\ shown' = With(Forget(shown, registry'), i, a)
    /\ rulesShown' = Forget(rulesShown, registry')

\* Forwarded to every IDE that resolves; the route is made only if one of
\* them took it.
InspectElement(c, i, refs) ==
    /\ FromAsker(c, "inspect")
    /\ ~Collides(registry, i, c, refs)
    /\ \E d \in clients \cap Ides \cap writable : "resolution" \in Caps[d]
    /\ SetRegistry(IF i \in Live(registry)
                   THEN Touch(registry, i)
                   ELSE AddRoute(registry, i, c, refs, Evicted(registry, c)))
    /\ sent' = {}
    /\ Quiet

Resolution(d, i, g) ==
    /\ FromIde(d, "resolution")
    /\ CanClaim(registry, i, d, g)
    /\ LET claimed == Claim(registry, i, d, g, TRUE)
           c == registry.routes[i].origin
       IN IF c \in clients \cap Askers \cap writable
          THEN /\ registry' = claimed
               /\ ShowSource(i, [to |-> c, ide |-> d, gen |-> g, matches |-> {}])
          ELSE SetRegistry(RemoveRoute(claimed, i))
    /\ sent' = {}
    /\ Quiet

\* Prepared, sent, committed: a failed send leaves the previous rules.
RulesSources(d, i, g, as) ==
    /\ FromIde(d, "rules-sources")
    /\ CanPublishRules(registry, i, d, g, as)
    /\ LET c == registry.routes[i].origin
       IN /\ c \in Askers /\ Recipient(c, "rules-sources")
          /\ c \in writable
          /\ registry' = PublishRules(registry, i, d, g, as)
          /\ rulesShown' = With(Forget(rulesShown, registry'), i,
                               [to |-> c, ide |-> d, gen |-> g, auths |-> as])
          /\ shown' = Forget(shown, registry')
    /\ sent' = {}
    /\ Quiet

\* "empty" is the message without matches that omits none: an invalidation.
SourceMatches(d, i, g, ms, empty) ==
    /\ FromIde(d, "source-presentation")
    /\ empty => ms = {} /\ "resolution" \in Caps[d]
    /\ IF empty THEN CanInvalidate(registry, i, d, g)
                ELSE CanReplaceMatches(registry, i, d, g)
    /\ LET c == registry.routes[i].origin
           updated == IF empty THEN Invalidate(registry, i, d, g)
                               ELSE ReplaceMatches(registry, i, ms)
       IN /\ c \in Askers /\ Recipient(c, "source-presentation")
          /\ IF c \in writable
             THEN /\ registry' = updated
                  /\ ShowSource(i, [to |-> c, ide |-> d, gen |-> g,
                                    matches |-> ms])
             ELSE SetRegistry(RemoveRoute(updated, i))
    /\ sent' = {}
    /\ Quiet

\* The asker's messages about its route go to the IDE that owns it.
ToOwner(c, i, cap, kind, g, id) ==
    LET d == registry.routes[i].ide
    IN /\ d \in Ides /\ Recipient(d, cap)
       /\ SetRegistry(Touch(registry, i))
       /\ sent' = IF d \in writable
                  THEN {[kind |-> kind, from |-> c, to |-> d, inspect |-> i,
                         gen |-> g, id |-> id]}
                  ELSE {}

SourceOpen(c, i, g, m) ==
    /\ FromAsker(c, "source-presentation")
    /\ i \in Live(registry)
    /\ registry.routes[i].origin = c
    /\ registry.routes[i].resGen = g
    /\ m \in registry.routes[i].matches
    /\ ToOwner(c, i, "source-presentation", "source.open", g, m)
    /\ Quiet

\* authorizeRulesOpen touches the route whether or not its IDE is still there.
RulesOpen(c, i, g, a) ==
    /\ FromAsker(c, "rules-sources")
    /\ MayOpenRule(registry, i, c, g, a)
    /\ IF Recipient(registry.routes[i].ide, "rules-sources")
       THEN ToOwner(c, i, "rules-sources", "rules.open", g, a)
       ELSE SetRegistry(Touch(registry, i)) /\ sent' = {}
    /\ Quiet

PresentationSettings(c, i) ==
    /\ FromAsker(c, "presentation-settings")
    /\ i \in Live(registry)
    /\ registry.routes[i].origin = c
    /\ ToOwner(c, i, "presentation-settings", "settings", NoGen, None)
    /\ Quiet

SourceNavigate(c, i, g) ==
    /\ FromAsker(c, "source-navigation")
    /\ i \in Live(registry)
    /\ registry.routes[i].origin = c
    /\ registry.routes[i].resGen = g
    /\ ToOwner(c, i, "source-navigation", "navigate", g, None)
    /\ Quiet

\* m is the active match, None when there is none; "zero" is the state with
\* nothing selected, which clears.
NavigationState(d, i, g, m, zero) ==
    /\ FromIde(d, "source-navigation")
    /\ i \in Live(registry)
    /\ LET t == registry.routes[i]
           owned == t.ide = d /\ t.resGen = g
           unanswered == t.ide = None /\ "resolution" \in Caps[d]
           clearing == zero /\ m = None /\ (owned \/ unanswered)
           authoritative == ~zero /\ owned /\ t.claimed
                                  /\ m \in t.matches \cup {None}
       IN /\ clearing \/ authoritative
          /\ t.origin \in Askers /\ Recipient(t.origin, "source-navigation")
          /\ IF t.origin \in writable
             THEN /\ SetRegistry(Touch(registry, i))
                  /\ sent' = {[kind |-> "state", from |-> d, to |-> t.origin,
                               inspect |-> i, gen |-> g, id |-> m]}
             ELSE /\ SetRegistry(RemoveRoute(registry, i))
                  /\ sent' = {}
    /\ Quiet

-----------------------------------------------------------------------------
Environment ==
    \E c \in Conn :
        Accept(c) \/ Hangup(c) \/ Vanish(c) \/ IssueTrustedToken(c) \/ TokenLost(c)

Lifetime ==
    \/ \E c \in Conn : SocketClosed(c) \/ HandshakeTimeout(c)
    \/ HeartbeatTick
    \/ Stop

Handshaking ==
    \/ \E c \in Conn : \/ LinkAccepted(c) \/ LinkRefused(c) \/ FatalInbound(c)
                       \/ Unlink(c) \/ Pong(c)
    \/ \E c, t \in Conn : Hello(c, t)

Asking ==
    \E c \in Askers, i \in Inspect :
        \/ \E refs \in SUBSET RuleRef : InspectElement(c, i, refs)
        \/ \E g \in 0..MaxResGen :
              \/ \E m \in Match : SourceOpen(c, i, g, m)
              \/ SourceNavigate(c, i, g)
        \/ \E g \in 1..MaxRulesGen, a \in Auth : RulesOpen(c, i, g, a)
        \/ PresentationSettings(c, i)

Answering ==
    \E d \in Ides, i \in Inspect :
        \/ \E g \in 0..MaxResGen :
              \/ Resolution(d, i, g)
              \/ \E ms \in SUBSET Match, empty \in BOOLEAN :
                    SourceMatches(d, i, g, ms, empty)
              \/ \E m \in Match \cup {None}, zero \in BOOLEAN :
                    NavigationState(d, i, g, m, zero)
        \/ \E g \in 1..MaxRulesGen, as \in SUBSET Auth :
              RulesSources(d, i, g, as)

Next == Environment \/ Lifetime \/ Handshaking \/ Asking \/ Answering

Spec == Init /\ [][Next]_vars

\* Node fires timers and close events; nothing makes a client do anything.
Fairness ==
    /\ \A c \in Conn : WF_vars(SocketClosed(c)) /\ WF_vars(HandshakeTimeout(c))
    /\ WF_vars(HeartbeatTick)

FairSpec == Spec /\ Fairness

-----------------------------------------------------------------------------
\* The peer state is "connected" exactly while some IDE is a client, whatever
\* order clients arrive, leave, are evicted or are cleared in, and every asker
\* that can still be written to was last told it.
PeerViewsAgree ==
    /\ peer.connected <=> clients \cap Ides # {}
    /\ \A c \in clients \cap Askers \cap writable : told[c] = peer

\* Peer states reach each asker in the order they were produced.
PeerViewsAdvance ==
    [][\A c \in Conn : told'[c] # told[c] => told'[c].gen >= told[c].gen]_vars

\* A route belongs to connections whose close event is still to come: none is
\* left behind by a client evicted while its last frames were being handled.
RoutesEndWithSockets ==
    \A i \in Live(registry) :
        LET t == registry.routes[i]
        IN t.origin \in registered /\ t.ide \in registered \cup {None}

\* What a route authorises is what its asker was last shown, by the owner and
\* at the current generation: a failed send never leaves an authority that
\* was not delivered, and a newer answer never leaves an older one's ids.
AuthorityAsShown ==
    \A i \in Live(registry) :
        LET t == registry.routes[i]
        IN /\ t.matches # {} =>
                /\ i \in DOMAIN shown
                /\ shown[i] = [to |-> t.origin, ide |-> t.ide,
                               gen |-> t.resGen, matches |-> t.matches]
           /\ t.auths # {} =>
                /\ i \in DOMAIN rulesShown
                /\ rulesShown[i] = [to |-> t.origin, ide |-> t.ide,
                                    gen |-> t.rulesGen, auths |-> t.auths]

\* An open request reaches the IDE that offered the id, and an active match
\* reported to an asker is one the asker has on screen.
RoutedAsShown ==
    \A s \in sent :
        LET i == s.inspect
        IN /\ s.kind = "source.open" =>
                /\ i \in DOMAIN shown
                /\ shown[i].to = s.from /\ shown[i].ide = s.to
                /\ shown[i].gen = s.gen /\ s.id \in shown[i].matches
           /\ s.kind = "rules.open" =>
                /\ i \in DOMAIN rulesShown
                /\ rulesShown[i].to = s.from /\ rulesShown[i].ide = s.to
                /\ rulesShown[i].gen = s.gen /\ s.id \in rulesShown[i].auths
           /\ s.kind = "state" /\ s.id # None =>
                /\ i \in DOMAIN shown
                /\ shown[i].to = s.to /\ shown[i].ide = s.from
                /\ shown[i].gen = s.gen /\ s.id \in shown[i].matches

\* The state is well formed and the table sound in every state of the bridge,
\* with clients that are evicted while their last frames are handled.
RegistrySound ==
    /\ TypeOK
    /\ IndexesExact(registry)
    /\ OrderTotal(registry)
    /\ WithinLimit(registry)
    /\ AuthorityOwned(registry)

\* Frames that sockets deliver while stop() waits for them register no client
\* and make no route.
StoppedStaysEmpty ==
    ~up => clients = {} /\ peer = NoPeer /\ Live(registry) = {}

\* The heartbeat gets rid of a client that fell silent.
SilentClientsLeave ==
    \A c \in Conn : c \in clients /\ c \notin alive ~> c \notin clients

\* A socket that was accepted is authenticated or closed in the end.
SocketsAuthenticateOrEnd ==
    \A c \in Conn : c \in opened ~> c \in registered \cup closed

\* stop() ends: every socket's close event arrives.
StopDrains == ~up ~> opened = closed
=============================================================================
