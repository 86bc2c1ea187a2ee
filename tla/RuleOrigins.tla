----------------------------- MODULE RuleOrigins -----------------------------
(***************************************************************************)
(* The origins of an element's CSS rules, from the IDE that publishes them *)
(* to the panel whose links open them again: RulesSourceController, its    *)
(* RulesOpenAuthorityRegistry and BridgeClient in VS Code; the background  *)
(* router and its InspectCorrelationStore, and the panel's                 *)
(* RulesSourcesController in the browser.                                  *)
(*                                                                         *)
(* One tab's panel inspects one element after the other.  The bridge       *)
(* forwards in order and reports when the IDE goes and comes (Bridge); the *)
(* runtime port from the router to the panel keeps the order too.  An      *)
(* element has one rule, which the IDE finds in a file or not.             *)
(***************************************************************************)
EXTENDS Integers, Sequences

CONSTANTS
    MaxInspect,     \* bound on the inspect messages
    MaxGeneration,  \* RESOLUTION_LIMITS.generation
    MaxVersion,     \* bound on the changes of the file
    MaxRefresh,     \* bound on the other reasons to resolve again
    MaxChannel,     \* bound on the messages under way in one direction
    Faults,         \* a subset of AllFaults
    None

\* "ide": the IDE's connection ends.  "resolve": a publication cannot be
\* prepared.  "gate": the router holds the tab's inspection back while a
\* refresh of the tab is pending.  "page": the page's styles change, or the
\* element selected in it.  "send": the router's message to the bridge fails.
AllFaults == {"ide", "resolve", "gate", "page", "send"}

Inspect == 1..MaxInspect
Generation == 1..MaxGeneration
Version == 0..MaxVersion

\* What a publication says: version is None when the rule was not found.
Publication == [ inspect : Inspect, generation : Generation,
                 version : Version \cup {None} ]

ASSUME RuleOriginsAssumption ==
    /\ {MaxInspect, MaxGeneration, MaxVersion, MaxRefresh, MaxChannel}
           \subseteq Nat
    /\ Faults \subseteq AllFaults
    /\ None \notin Nat \cup Publication

VARIABLES
    file,     \* the file's version, and the one VS Code has reported
    ide,      \* the IDE: controller, registry and client
    toIde,    \* browser to IDE
    toPage,   \* IDE to browser
    router,   \* the tab's inspect correlation and its publication
    port,     \* router to panel
    panel,    \* the panel's RulesSourcesController
    clicked,  \* an open command on its way to the router, or None
    asked     \* how many inspects and refreshes there were, and the last
              \* inspect a publication of which was held back

vars == <<file, ide, toIde, toPage, router, port, panel, clicked, asked>>

Open == [ inspect : Inspect, generation : Generation, version : Version,
          seen : Version \cup {None}, current : BOOLEAN,
          step : {"opening", "checked", "showing", "rechecked", "revealed"} ]

Ide == [ connected : BOOLEAN,
         inspect : Inspect \cup {None},          \* currentInspect
         generation : 0..MaxGeneration,          \* rulesGeneration
         accepted : BOOLEAN,       \* locallyAcceptedInspectMessageId is inspect
         resolving : BOOLEAN,      \* a resolution is in flight
         retained : BOOLEAN,       \* the file is a retained dependency
         active : Publication \cup {None},       \* of the registry
         route : Publication \cup {None},        \* currentRulesRoute
         open : Open \cup {None} ]               \* the newest open

Router == [ inspect : Inspect \cup {None},         \* the correlation's
            generation : 0..MaxGeneration, linked : BOOLEAN,
            pending : BOOLEAN,    \* a publication is current and awaits
            cleaning : BOOLEAN,   \* a controlled cleanup shuts the gate
            peer : BOOLEAN ]      \* an IDE is there

Panel == [ state : {"pending", "ready", "stale"},
           inspect : Inspect \cup {None}, generation : 0..MaxGeneration,
           linked : BOOLEAN ]

Message(kind, i, g, linked) ==
    [kind |-> kind, inspect |-> i, generation |-> g, linked |-> linked]

Bounded(channel) ==
    /\ Len(channel) <= MaxChannel + 1
    /\ \A k \in DOMAIN channel :
           channel[k].kind \in {"inspect", "open", "sources", "gone", "back",
                                "started", "disconnected", "changed"}

TypeOK ==
    /\ file \in [now : Version, noticed : Version]
    /\ ide \in Ide
    /\ Bounded(toIde) /\ Bounded(toPage) /\ Bounded(port)
    /\ router \in Router
    /\ panel \in Panel
    /\ clicked = None \/ clicked.inspect \in Inspect
    /\ asked \in [ inspects : 0..MaxInspect, refreshes : 0..MaxRefresh,
                   held : Inspect \cup {None} ]

NoOrigins(state) ==
    [state |-> state, inspect |-> None, generation |-> 0, linked |-> FALSE]

Init ==
    /\ file = [now |-> 0, noticed |-> 0]
    /\ ide = [ connected |-> TRUE, inspect |-> None, generation |-> 0,
               accepted |-> FALSE, resolving |-> FALSE, retained |-> FALSE,
               active |-> None, route |-> None, open |-> None ]
    /\ toIde = <<>> /\ toPage = <<>> /\ port = <<>>
    /\ router = [ inspect |-> None, generation |-> 0, linked |-> FALSE,
                  pending |-> FALSE, cleaning |-> FALSE, peer |-> TRUE ]
    /\ panel = NoOrigins("pending")
    /\ clicked = None
    /\ asked = [inspects |-> 0, refreshes |-> 0, held |-> None]

-----------------------------------------------------------------------------
\* The IDE's controller.

\* openOperation advances: an open under way is no longer current.
Superseded(i) ==
    [i EXCEPT !.open = IF @ = None THEN None ELSE [@ EXCEPT !.current = FALSE]]

\* Mutant of Invalidated: the registry is not cleared.
Invalidated_KeepActive(i) ==
    [Superseded(i) EXCEPT !.inspect = None, !.accepted = FALSE,
                          !.resolving = FALSE, !.retained = FALSE]

\* invalidateWithoutPublication
Invalidated(i) ==
    [Superseded(i) EXCEPT !.inspect = None, !.accepted = FALSE,
                          !.resolving = FALSE, !.retained = FALSE,
                          !.active = None]

\* resolveCurrent(true), up to the resolver's answer
ResolveCurrent(i) ==
    IF i.inspect = None THEN i
    ELSE IF i.generation >= MaxGeneration THEN Invalidated(i)
    ELSE [i EXCEPT !.active = None, !.resolving = TRUE]

IdeStep(i) ==
    /\ ide' = i
    /\ UNCHANGED <<file, toPage, router, port, panel, clicked, asked>>

FromBrowser(kind) ==
    ide.connected /\ toIde # <<>> /\ Head(toIde).kind = kind

\* The client's inspect listener, and acceptInspect.  An inspect has a new id.
AcceptInspect ==
    /\ FromBrowser("inspect")
    /\ toIde' = Tail(toIde)
    /\ IdeStep(ResolveCurrent([Superseded(ide) EXCEPT
           !.inspect = Head(toIde).inspect, !.generation = 0,
           !.accepted = FALSE, !.retained = FALSE, !.route = None]))

\* The end of resolveCurrent when its publication can be prepared: the
\* registry's candidate is activated, sent and committed.
Publish ==
    /\ ide.resolving
    /\ Len(toPage) < MaxChannel
    /\ \E version \in {file.now, None} :
           LET new == [ inspect |-> ide.inspect, version |-> version,
                        generation |-> ide.generation + 1 ]
           IN  /\ ide' = [ide EXCEPT
                      !.generation = new.generation, !.resolving = FALSE,
                      !.accepted = TRUE, !.active = new, !.route = new,
                      !.retained = @ \/ version # None]
               /\ toPage' = Append(toPage,
                      Message("sources", new.inspect, new.generation,
                              version # None))
    /\ UNCHANGED <<file, toIde, router, port, panel, clicked, asked>>

\* ... and when it cannot.  A first publication that fails ends the inspect.
PrepareFails ==
    /\ "resolve" \in Faults
    /\ ide.resolving
    /\ LET failed == [ide EXCEPT !.generation = @ + 1, !.resolving = FALSE]
       IN  IdeStep(IF ide.accepted THEN failed ELSE Invalidated(failed))
    /\ UNCHANGED toIde

\* The client's connection ends, noticed by a send or not.  setState clears
\* the correlation, the state listener the controller: a publication that was
\* just being sent finds the registry cleared and has nothing to roll back.
\* Some of what was sent last is lost; the bridge tells the browser.
Disconnect ==
    /\ "ide" \in Faults /\ ide.connected
    /\ Len(toPage) < MaxChannel
    /\ ide' = [Invalidated(ide) EXCEPT !.connected = FALSE, !.route = None]
    /\ toIde' = <<>>
    /\ \E n \in 0..Len(toPage) :
           /\ \A k \in (n + 1)..Len(toPage) : toPage[k].kind = "sources"
           /\ toPage' = Append(SubSeq(toPage, 1, n),
                               Message("gone", None, 0, FALSE))
    /\ UNCHANGED <<file, router, port, panel, clicked, asked>>

Reconnect ==
    /\ ~ide.connected
    /\ Len(toPage) < MaxChannel
    /\ ide' = [ide EXCEPT !.connected = TRUE]
    /\ toPage' = Append(toPage, Message("back", None, 0, FALSE))
    /\ UNCHANGED <<file, toIde, router, port, panel, clicked, asked>>

\* The file changes; VS Code reports it now or later.
FileChanges ==
    /\ file.now < MaxVersion
    /\ file' = [file EXCEPT !.now = @ + 1]
    /\ UNCHANGED <<ide, toIde, toPage, router, port, panel, clicked, asked>>

\* dependencyChanged, when it is relevant
FileNoticed ==
    /\ file.noticed # file.now
    /\ file' = [file EXCEPT !.noticed = file.now]
    /\ ide' = IF ide.retained \/ ide.resolving
              THEN ResolveCurrent(Superseded(ide)) ELSE ide
    /\ UNCHANGED <<toIde, toPage, router, port, panel, clicked, asked>>

\* workspaceChanged, stylesheetRefresh, pageRefresh
Refresh ==
    /\ asked.refreshes < MaxRefresh
    /\ asked' = [asked EXCEPT !.refreshes = @ + 1]
    /\ ide' = ResolveCurrent(Superseded(ide))
    /\ UNCHANGED <<file, toIde, toPage, router, port, panel, clicked>>

-----------------------------------------------------------------------------
\* Opening a rule's source in the IDE.

\* isCurrentRulesOpen of the client, and open up to openTextDocument
AcceptOpen ==
    /\ FromBrowser("open")
    /\ toIde' = Tail(toIde)
    /\ LET m == Head(toIde)
           mine(p) == /\ p # None
                      /\ p.inspect = m.inspect /\ p.generation = m.generation
           known == mine(ide.route) /\ ide.route.version # None
       IN  \/ /\ ~known
              /\ IdeStep(ide)
           \/ /\ known /\ mine(ide.active)
              /\ IdeStep([ide EXCEPT !.open =
                     [ inspect |-> m.inspect, generation |-> m.generation,
                       version |-> ide.active.version, seen |-> None,
                       current |-> TRUE, step |-> "opening" ]])
           \/ /\ known /\ ~mine(ide.active)
              /\ IdeStep(Invalidated(ide))

\* Mutant of Valid: only the contents that were read are compared.
Valid_ContentsOnly(o) == o.seen = o.version

\* revalidate: what it read, and the registry now, are what was authorized.
\* (The workspace's generation says no more: whatever advances it clears the
\* registry in the same call.)
Valid(o) ==
    /\ o.current
    /\ o.seen = o.version
    /\ ide.active = [ inspect |-> o.inspect, generation |-> o.generation,
                      version |-> o.version ]

\* The reads of a revalidation, before and after the document is shown
Read(from, to) ==
    /\ ide.open # None /\ ide.open.step = from
    /\ IdeStep([ide EXCEPT !.open.seen = file.now, !.open.step = to])
    /\ UNCHANGED toIde

ReadBefore == Read("opening", "checked")
ReadAfter == Read("showing", "rechecked")

\* replaceIfCurrent, after an open that failed
Replaced(i) ==
    LET o == i.open
        done == [i EXCEPT !.open = None]
    IN  IF i.inspect # o.inspect THEN done
        ELSE IF /\ i.active # None
                /\ i.active.generation > o.generation THEN done
        ELSE ResolveCurrent(done)

\* The end of a revalidation
Continue(from, to) ==
    /\ ide.open # None /\ ide.open.step = from
    /\ \/ /\ Valid(ide.open)
          /\ IdeStep([ide EXCEPT !.open.step = to])
       \/ /\ ~Valid(ide.open) /\ ide.open.current
          /\ IdeStep(Replaced(ide))
       \/ /\ ~ide.open.current /\ ~Valid(ide.open)
          /\ IdeStep([ide EXCEPT !.open = None])
    /\ UNCHANGED toIde

Show == Continue("checked", "showing")
Reveal == Continue("rechecked", "revealed")

\* openTextDocument or showTextDocument rejects
OpenFails ==
    /\ ide.open # None /\ ide.open.step \in {"opening", "showing"}
    /\ IdeStep(IF ide.open.current THEN Replaced(ide)
               ELSE [ide EXCEPT !.open = None])
    /\ UNCHANGED toIde

-----------------------------------------------------------------------------
\* The router.

RouterStep(r, messages) ==
    /\ Len(port) + Len(messages) <= MaxChannel
    /\ router' = r
    /\ port' = port \o messages
    /\ UNCHANGED <<file, ide, panel>>

\* disposeChannel, disposeWindow or disposeTab
Uncorrelated(r) ==
    [r EXCEPT !.inspect = None, !.generation = 0, !.linked = FALSE]

\* ... and the token of the publication that awaits is cleared.
Revoked(r) == [Uncorrelated(r) EXCEPT !.pending = FALSE]

Changed == Message("changed", None, 0, FALSE)

\* publishSelection up to its first await: it takes the place of the one that
\* awaits.  The panel hears of it when the selection that came along is new,
\* not when the same selection is published once more.
BeginPublication ==
    /\ ~router.cleaning
    /\ asked.inspects < MaxInspect
    /\ \E news \in {<<>>, <<Changed>>} :
           RouterStep([Uncorrelated(router) EXCEPT !.pending = TRUE], news)
    /\ UNCHANGED <<toIde, toPage, clicked, asked>>

\* The end of publishSelection when it is still the current one: the element
\* is inspected.  The message is lost where there is no IDE.
InspectElement ==
    /\ router.pending /\ ~router.cleaning
    /\ asked.inspects < MaxInspect
    /\ asked' = [asked EXCEPT !.inspects = @ + 1]
    /\ Len(toIde) < MaxChannel
    /\ LET i == asked.inspects + 1
           started == Message("started", i, 0, FALSE)
       IN  \/ /\ RouterStep([Revoked(router) EXCEPT !.inspect = i],
                            <<started>>)
              /\ toIde' = IF ide.connected
                          THEN Append(toIde, Message("inspect", i, 0, FALSE))
                          ELSE toIde
           \/ /\ "send" \in Faults
              /\ RouterStep(Revoked(router),
                            <<started, Message("disconnected", i, 0, FALSE)>>)
              /\ UNCHANGED toIde
    /\ UNCHANGED <<toPage, clicked>>

\* ... and its early returns after an await: nobody is told.
DropPublication ==
    /\ router.pending
    /\ RouterStep([router EXCEPT !.pending = FALSE], <<>>)
    /\ UNCHANGED <<toIde, toPage, clicked, asked>>

\* publishContentDomEvent: another element is selected, or none.
SelectionMoves ==
    /\ "page" \in Faults
    /\ ~router.cleaning
    /\ RouterStep(Revoked(router), <<Changed>>)
    /\ UNCHANGED <<toIde, toPage, clicked, asked>>

\* Mutant of PageChanges: the correlation is kept.
PageChanges_KeepCorrelation ==
    /\ "page" \in Faults
    /\ \E news \in {<<>>, <<Changed>>} :
           RouterStep([router EXCEPT !.pending = FALSE], news)
    /\ UNCHANGED <<toIde, toPage, clicked, asked>>

\* publishContentStylesEvent of a styles.invalidated, at the gate or not: what
\* is recorded ends, whatever it was that changed.  The panel's origins end
\* when the stylesheets did (stalesRuleReferences); to it, an event that only
\* changes which of their rules apply is no news.
PageChanges ==
    /\ "page" \in Faults
    /\ \E news \in {<<>>, <<Changed>>} : RouterStep(Revoked(router), news)
    /\ UNCHANGED <<toIde, toPage, clicked, asked>>

\* A refresh of the tab: what is recorded of it ends when its cleanup does.
RefreshRevokes ==
    /\ "gate" \in Faults
    /\ RouterStep(Revoked(router), <<>>)
    /\ UNCHANGED <<toIde, toPage, clicked, asked>>

\* prepareRulesSources: the first publication of an inspect, or a newer one
Prepared(m) ==
    /\ m.inspect = router.inspect
    /\ IF router.generation = 0 THEN m.generation = 1
       ELSE m.generation > router.generation

FromIde(kind) == toPage # <<>> /\ Head(toPage).kind = kind

\* receiveRulesSources: posted to the panel and committed
ReceiveRulesSources ==
    /\ FromIde("sources")
    /\ toPage' = Tail(toPage)
    /\ LET m == Head(toPage)
           taken == Prepared(m) /\ ~router.cleaning
       IN  \/ /\ taken
              /\ RouterStep([router EXCEPT !.generation = m.generation,
                                           !.linked = m.linked], <<m>>)
              /\ UNCHANGED asked
           \/ /\ ~taken
              /\ RouterStep(router, <<>>)
              /\ UNCHANGED asked
           \/ /\ "gate" \in Faults
              /\ RouterStep(router, <<>>)
              /\ asked' = [asked EXCEPT !.held = m.inspect]
    /\ UNCHANGED <<toIde, clicked>>

\* receivePeerState: the IDE is gone.  The gate is shut at once; what is
\* recorded of the window ends when the page has cleared its previews.
PeerLeaves ==
    /\ FromIde("gone")
    /\ toPage' = Tail(toPage)
    /\ RouterStep([router EXCEPT !.peer = FALSE, !.cleaning = TRUE], <<>>)
    /\ UNCHANGED <<toIde, clicked, asked>>

\* ... and the panel is told then, if the IDE is still gone.
CleanupEnds ==
    /\ router.cleaning
    /\ RouterStep([Revoked(router) EXCEPT !.cleaning = FALSE],
                  IF router.peer THEN <<>>
                  ELSE <<Message("disconnected", None, 0, FALSE)>>)
    /\ UNCHANGED <<toIde, toPage, clicked, asked>>

PeerReturns ==
    /\ FromIde("back")
    /\ toPage' = Tail(toPage)
    /\ RouterStep([router EXCEPT !.peer = TRUE], <<>>)
    /\ UNCHANGED <<toIde, clicked, asked>>

\* publishRulesOpen and finishRulesOpen
PublishRulesOpen ==
    /\ clicked # None
    /\ clicked' = None
    /\ Len(toIde) < MaxChannel
    /\ LET authorized == /\ ~router.cleaning
                         /\ clicked.inspect = router.inspect
                         /\ clicked.generation = router.generation
                         /\ router.linked
       IN  \/ /\ ~authorized \/ "gate" \in Faults
              /\ RouterStep(router, <<>>) /\ UNCHANGED toIde
           \/ /\ authorized
              /\ RouterStep(router, <<>>)
              /\ toIde' = IF ide.connected
                          THEN Append(toIde, Message("open", clicked.inspect,
                                                 clicked.generation, FALSE))
                          ELSE toIde
           \/ /\ authorized /\ "send" \in Faults
              /\ RouterStep(Uncorrelated(router),
                     <<Message("disconnected", clicked.inspect, 0, FALSE)>>)
              /\ UNCHANGED toIde
    /\ UNCHANGED <<toPage, asked>>

-----------------------------------------------------------------------------
\* The panel.

\* Mutant of Accepts: only the next generation will do.
Accepts_OnlyNext(m) ==
    m.inspect = panel.inspect /\ m.generation = panel.generation + 1

\* accept: the first publication of the inspect it began, or a newer one
Accepts(m) ==
    /\ m.inspect = panel.inspect
    /\ IF panel.generation = 0 THEN m.generation = 1
       ELSE m.generation > panel.generation

\* beginInspect, accept and invalidate
PanelReceives ==
    /\ port # <<>>
    /\ port' = Tail(port)
    /\ LET m == Head(port) IN
       panel' =
           CASE m.kind = "started" ->
                  [NoOrigins("pending") EXCEPT !.inspect = m.inspect]
             [] m.kind = "sources" ->
                  IF Accepts(m)
                  THEN [panel EXCEPT !.state = "ready", !.linked = m.linked,
                                     !.generation = m.generation]
                  ELSE panel
             [] m.kind \in {"disconnected", "changed"} -> NoOrigins("stale")
    /\ UNCHANGED <<file, ide, toIde, toPage, router, clicked, asked>>

\* open: a click on an origin
Click ==
    /\ clicked = None
    /\ panel.state = "ready" /\ panel.linked
    /\ clicked' = [inspect |-> panel.inspect, generation |-> panel.generation]
    /\ UNCHANGED <<file, ide, toIde, toPage, router, port, panel, asked>>

-----------------------------------------------------------------------------
Next ==
    \/ AcceptInspect \/ Publish \/ PrepareFails \/ Disconnect \/ Reconnect
    \/ FileChanges \/ FileNoticed \/ Refresh
    \/ AcceptOpen \/ ReadBefore \/ Show \/ ReadAfter \/ Reveal \/ OpenFails
    \/ BeginPublication \/ InspectElement \/ DropPublication
    \/ SelectionMoves \/ PageChanges \/ RefreshRevokes
    \/ ReceiveRulesSources \/ PeerLeaves \/ CleanupEnds \/ PeerReturns
    \/ PublishRulesOpen
    \/ PanelReceives \/ Click

Spec == Init /\ [][Next]_vars

-----------------------------------------------------------------------------
\* "Stale authority cannot move the cursor or reveal a range": when the IDE
\* reveals a rule, it is in the publication in force for the element inspected
\* last, and the file is as published or its change was not reported yet.
RevealIsCurrent ==
    [][/\ ide'.open # None /\ ide'.open.step = "revealed"
       /\ ide.open.step # "revealed"
       => LET o == ide.open IN
          /\ ide.inspect = o.inspect
          /\ ide.active # None /\ ide.active.generation = o.generation
          /\ file.now = o.version \/ file.noticed # file.now]_vars

\* The client lets through the links of the publication the registry has in
\* force, and of no other inspect, whether sending it failed or not.
ClientMatchesRegistry ==
    /\ TypeOK
    /\ ide.active # None =>
           /\ ide.connected
           /\ ide.active = ide.route
           /\ ide.active.inspect = ide.inspect
    /\ ide.route # None => ide.route.inspect = ide.inspect \/ ide.inspect = None

\* What the router would forward is what the panel shows, once the panel has
\* heard everything: no invalidation, publication begun anew or refused send
\* takes the origins off the panel and leaves their authority behind, and
\* whatever the one accepts the other does.  (The converse does not hold: links
\* outlive the router's record, see PageChanges.)
ForwardedIsShown ==
    port = <<>> /\ router.inspect # None /\ ~router.cleaning =>
        panel = [ state |-> IF router.generation = 0 THEN "pending" ELSE "ready",
                  inspect |-> router.inspect,
                  generation |-> router.generation,
                  linked |-> router.linked ]

\* The panel catches up with the IDE: while the router still correlates what
\* the IDE resolves, and once nothing is under way, the panel shows what the
\* IDE has in force, unless a publication was held back at the gate.
PanelMatchesIde ==
    /\ toPage = <<>> /\ port = <<>> /\ toIde = <<>>
    /\ ~router.cleaning
    /\ router.inspect # None /\ router.inspect = ide.inspect
    /\ asked.held # ide.inspect
    /\ ide.active # None
    => /\ panel.state = "ready"
       /\ panel.inspect = ide.active.inspect
       /\ panel.generation = ide.active.generation
=============================================================================
