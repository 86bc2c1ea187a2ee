-------------------------- MODULE RuleOriginsProofs --------------------------
(***************************************************************************)
(* Why stale authority cannot reveal a range, whatever the bounds and the  *)
(* faults: what the registry has in force is what the client lets through, *)
(* of the inspect accepted last; an open that is still current is of a     *)
(* file whose changes are listened to; and what such an open has read last *)
(* is the file, unless its change was not reported yet.                    *)
(*                                                                         *)
(* And why the panel shows what the router has recorded, which ends but    *)
(* never changes behind its back, and catches up with the IDE while the    *)
(* router correlates: inspects and publications only grow newer along the  *)
(* channels, so the router takes every publication of its inspect, and     *)
(* what is in force is with the router or on its way.                                                             *)
(***************************************************************************)
EXTENDS RuleOrigins, SequenceTheorems, TLAPS

\* The messages of the three channels.
InspectMessage ==
    [kind : {"inspect", "open"}, inspect : Inspect,
     generation : 0..MaxGeneration, linked : BOOLEAN]

SourcesMessage ==
    [kind : {"sources"}, inspect : Inspect, generation : Generation,
     linked : BOOLEAN]

PeerMessage ==
    [kind : {"gone", "back"}, inspect : {None}, generation : {0},
     linked : BOOLEAN]

PortMessage ==
    [kind : {"started"}, inspect : Inspect, generation : {0}, linked : {FALSE}]
    \cup [kind : {"disconnected", "changed"}, inspect : Inspect \cup {None},
          generation : {0}, linked : {FALSE}]

Channels ==
    /\ toIde \in Seq(InspectMessage) /\ Len(toIde) <= MaxChannel
    /\ toPage \in Seq(SourcesMessage \cup PeerMessage)
    /\ Len(toPage) <= MaxChannel
    /\ port \in Seq(SourcesMessage \cup PortMessage)
    /\ Len(port) <= MaxChannel

Browser ==
    /\ router \in Router
    /\ panel \in Panel
    /\ panel.state = "ready" => panel.inspect \in Inspect
    /\ panel.inspect # None =>
           panel.state = IF panel.generation = 0 THEN "pending" ELSE "ready"
    /\ clicked = None \/ clicked \in [inspect : Inspect,
                                      generation : 0..MaxGeneration]
    /\ asked \in [ inspects : 0..MaxInspect, refreshes : 0..MaxRefresh,
                   held : Inspect \cup {None} ]

\* The registry, the client and the controller agree.
Standing(i) ==
    /\ i \in Ide
    /\ i.resolving => i.inspect # None /\ i.generation < MaxGeneration
    /\ i.inspect # None => i.connected
    /\ i.active # None =>
           /\ i.connected
           /\ i.active = i.route
           /\ i.active.inspect = i.inspect
           /\ i.active.version # None => i.retained
    /\ i.route # None => i.route.inspect = i.inspect \/ i.inspect = None

\* An open that is still current, in a file f, hears of its changes.
Watched(i, f) ==
    i.open # None /\ i.open.current =>
        /\ i.retained
        /\ i.open.step = "rechecked" =>
               i.open.seen = f.now \/ f.noticed # f.now

FileOK == file \in [now : Version, noticed : Version]
          /\ file.noticed <= file.now

OInv ==
    /\ Channels
    /\ Browser
    /\ FileOK
    /\ Standing(ide)
    /\ Watched(ide, file)

-----------------------------------------------------------------------------
\* The controller's helpers keep the agreement.

LEMMA SupersededStands ==
  ASSUME NEW i, i \in Ide
  PROVE  /\ Superseded(i) \in Ide
         /\ Superseded(i) = [i EXCEPT !.open = Superseded(i).open]
         /\ \A f : Watched(Superseded(i), f)
         /\ Standing(i) => Standing(Superseded(i))
<1>1. i.open \in Open \cup {None}
  BY DEF Ide
<1>2. i.open # None => /\ [i.open EXCEPT !.current = FALSE] \in Open
                       /\ [i.open EXCEPT !.current = FALSE].current = FALSE
  BY <1>1 DEF Open
<1>3. Superseded(i) = [i EXCEPT !.open =
          IF i.open = None THEN None ELSE [i.open EXCEPT !.current = FALSE]]
  BY DEF Superseded, Ide
<1>4. Superseded(i).open = IF i.open = None THEN None
                           ELSE [i.open EXCEPT !.current = FALSE]
  BY <1>3 DEF Ide
<1>5. Superseded(i) \in Ide
  BY <1>1, <1>2, <1>3 DEF Ide
<1>6. \A f : Watched(Superseded(i), f)
  BY <1>2, <1>4 DEF Watched
<1>7. Superseded(i) = [i EXCEPT !.open = Superseded(i).open]
  BY <1>3, <1>4
<1>8. Standing(i) => Standing(Superseded(i))
  BY <1>5, <1>7 DEF Standing, Ide
<1> QED BY <1>5, <1>6, <1>7, <1>8

LEMMA InvalidatedStands ==
  ASSUME NEW i, i \in Ide, i.route # None => i.route \in Publication
  PROVE  /\ Standing(Invalidated(i))
         /\ \A f : Watched(Invalidated(i), f)
         /\ Invalidated(i).inspect = None /\ ~Invalidated(i).resolving
         /\ Invalidated(i).active = None
<1> DEFINE s == Superseded(i)
           v == Invalidated(i)
<1>1. s \in Ide /\ \A f : Watched(s, f)
  BY SupersededStands
<1>2. v = [s EXCEPT !.inspect = None, !.accepted = FALSE, !.resolving = FALSE,
                    !.retained = FALSE, !.active = None]
  BY DEF Invalidated
<1> HIDE DEF s, v
<1>3. /\ v \in Ide /\ v.inspect = None /\ v.resolving = FALSE
      /\ v.active = None /\ v.open = s.open
  BY <1>1, <1>2 DEF Ide
<1>4. s.open # None => s.open.current = FALSE
  <2>1. s.open = IF i.open = None THEN None
                 ELSE [i.open EXCEPT !.current = FALSE]
    BY DEF s, Superseded, Ide
  <2>2. i.open # None => i.open \in Open
    BY DEF Ide
  <2> QED BY <2>1, <2>2 DEF Open
<1>5. Standing(v)
  BY <1>3 DEF Standing
<1>6. \A f : Watched(v, f)
  BY <1>3, <1>4 DEF Watched
<1> QED BY <1>3, <1>5, <1>6 DEF v

\* Whatever was active before is withdrawn, so it need not agree.
LEMMA ResolveStands ==
  ASSUME NEW i \in Ide, NEW f, Watched(i, f),
         i.inspect = None => Standing(i),
         i.inspect # None => i.connected,
         i.route # None => i.route.inspect = i.inspect \/ i.inspect = None
  PROVE  Standing(ResolveCurrent(i)) /\ Watched(ResolveCurrent(i), f)
<1>1. i \in Ide
  OBVIOUS
<1>2. CASE i.inspect = None
  BY <1>2 DEF ResolveCurrent
<1>3. CASE i.inspect # None /\ i.generation >= MaxGeneration
  <2>1. i.route # None => i.route \in Publication
    BY <1>1 DEF Ide
  <2>2. ResolveCurrent(i) = Invalidated(i)
    BY <1>3 DEF ResolveCurrent
  <2> QED BY <1>1, <2>1, <2>2, InvalidatedStands
<1>4. CASE i.inspect # None /\ ~(i.generation >= MaxGeneration)
  <2> DEFINE v == ResolveCurrent(i)
  <2>1. v = [i EXCEPT !.active = None, !.resolving = TRUE]
    BY <1>4 DEF ResolveCurrent
  <2>2. i.generation < MaxGeneration
    BY <1>1, <1>4, RuleOriginsAssumption DEF Ide
  <2> HIDE DEF v
  <2>3. /\ v \in Ide /\ v.active = None /\ v.inspect = i.inspect
        /\ v.generation = i.generation /\ v.connected = i.connected
        /\ v.route = i.route /\ v.open = i.open /\ v.retained = i.retained
    BY <1>1, <2>1 DEF Ide
  <2>4. Standing(v)
    BY <1>4, <2>2, <2>3 DEF Standing
  <2>5. Watched(v, f)
    BY <2>3 DEF Watched
  <2> QED BY <2>4, <2>5 DEF v
<1> QED BY <1>2, <1>3, <1>4

-----------------------------------------------------------------------------
\* What a step of the IDE leaves alone.
LEMMA IdeStepKeeps ==
  ASSUME OInv, NEW i, IdeStep(i), Standing(i), Watched(i, file),
         toIde' \in Seq(InspectMessage), Len(toIde') <= MaxChannel
  PROVE  OInv'
BY DEF OInv, IdeStep, Channels, Browser, FileOK

LEMMA IdeParts ==
  ASSUME OInv
  PROVE  /\ ide \in Ide /\ Standing(ide) /\ Watched(ide, file) /\ Channels
         /\ (ide.route # None => ide.route \in Publication)
         /\ (ide.active # None => ide.active \in Publication)
         /\ (ide.open # None => ide.open \in Open)
         /\ file.now \in Version /\ file.noticed \in Version
         /\ \A n \in Version : n \in Nat
BY RuleOriginsAssumption DEF OInv, Standing, Ide, FileOK, Version

LEMMA FromBrowserParts ==
  ASSUME OInv, toIde # <<>>, toIde' = Tail(toIde)
  PROVE  /\ Head(toIde) \in InspectMessage
         /\ toIde' \in Seq(InspectMessage) /\ Len(toIde') <= MaxChannel
<1>1. toIde \in Seq(InspectMessage) /\ Len(toIde) <= MaxChannel
  BY DEF OInv, Channels
<1>2. /\ Head(toIde) \in InspectMessage /\ Tail(toIde) \in Seq(InspectMessage)
      /\ Len(Tail(toIde)) = Len(toIde) - 1 /\ Len(toIde) \in Nat
  BY <1>1, HeadTailProperties, LenProperties
<1> QED BY <1>1, <1>2, RuleOriginsAssumption

LEMMA AcceptInspectKeeps == OInv /\ AcceptInspect => OInv'
<1> SUFFICES ASSUME OInv, AcceptInspect PROVE OInv'
  OBVIOUS
<1> DEFINE m == Head(toIde)
           s == Superseded(ide)
           i == [s EXCEPT !.inspect = m.inspect, !.generation = 0,
                          !.accepted = FALSE, !.retained = FALSE, !.route = None]
<1>1. m \in InspectMessage /\ toIde' \in Seq(InspectMessage)
      /\ Len(toIde') <= MaxChannel /\ ide.connected
  BY FromBrowserParts DEF AcceptInspect, FromBrowser
<1>2. s \in Ide /\ s = [ide EXCEPT !.open = s.open] /\ Watched(s, file)
  BY IdeParts, SupersededStands
<1>3. m.inspect \in Inspect /\ None \notin Nat /\ 0 \in 0..MaxGeneration
      /\ m.inspect # None
  BY <1>1, RuleOriginsAssumption DEF InspectMessage, Inspect
<1>4. IdeStep(ResolveCurrent(i))
  BY DEF AcceptInspect
<1> HIDE DEF s, m
<1>5. s.connected = ide.connected /\ s.active = ide.active
      /\ s.resolving = ide.resolving
  BY <1>2, IdeParts DEF Ide
<1>6. /\ i \in Ide /\ i.inspect = m.inspect /\ i.generation = 0
      /\ i.connected = ide.connected /\ i.route = None /\ i.active = s.active
      /\ i.open = s.open
  BY <1>2, <1>3, <1>5 DEF Ide
<1>7. Watched(i, file)
  <2>1. s.open # None => s.open.current = FALSE
    <3>1. s.open = IF ide.open = None THEN None
                   ELSE [ide.open EXCEPT !.current = FALSE]
      BY IdeParts DEF s, Superseded, Ide
    <3>2. ide.open # None => ide.open \in Open
      BY IdeParts
    <3> QED BY <3>1, <3>2 DEF Open
  <2> HIDE DEF i
  <2> QED BY <1>6, <2>1 DEF Watched
<1>8. Standing(ResolveCurrent(i)) /\ Watched(ResolveCurrent(i), file)
  <2> HIDE DEF i
  <2> QED BY <1>1, <1>3, <1>6, <1>7, ResolveStands
<1>9. IdeStep(ResolveCurrent(i))
  BY <1>4 DEF s, m
<1> HIDE DEF i
<1> QED BY <1>1, <1>8, <1>9, IdeStepKeeps

LEMMA PublishKeeps == OInv /\ Publish => OInv'
<1> SUFFICES ASSUME OInv, Publish PROVE OInv'
  OBVIOUS
<1>1. PICK version \in {file.now, None} :
        /\ ide' = [ide EXCEPT
              !.generation = ide.generation + 1, !.resolving = FALSE,
              !.accepted = TRUE,
              !.active = [ inspect |-> ide.inspect, version |-> version,
                           generation |-> ide.generation + 1 ],
              !.route = [ inspect |-> ide.inspect, version |-> version,
                          generation |-> ide.generation + 1 ],
              !.retained = ide.retained \/ version # None]
        /\ toPage' = Append(toPage, Message("sources", ide.inspect,
                                            ide.generation + 1, version # None))
  BY DEF Publish
<1> DEFINE new == [ inspect |-> ide.inspect, version |-> version,
                    generation |-> ide.generation + 1 ]
<1>2. /\ ide.resolving /\ Len(toPage) < MaxChannel
      /\ UNCHANGED <<file, toIde, router, port, panel, clicked, asked>>
  BY DEF Publish
<1>3. /\ ide \in Ide /\ ide.inspect \in Inspect
      /\ ide.generation \in 0..MaxGeneration /\ ide.generation < MaxGeneration
      /\ ide.connected /\ MaxGeneration \in Nat
  BY <1>2, IdeParts, RuleOriginsAssumption DEF Standing, Ide
<1>4. ide.generation + 1 \in Generation /\ ide.generation + 1 \in 0..MaxGeneration
  BY <1>3 DEF Generation
<1>5. new \in Publication
  BY <1>3, <1>4, IdeParts DEF Publication
<1>6. Message("sources", ide.inspect, ide.generation + 1, version # None)
          \in SourcesMessage
  <2>1. (version # None) \in BOOLEAN
    OBVIOUS
  <2> QED BY <1>3, <1>4, <2>1 DEF Message, SourcesMessage
<1>7. Channels'
  <2>1. toPage \in Seq(SourcesMessage \cup PeerMessage) /\ Len(toPage) \in Nat
    BY IdeParts, LenProperties DEF Channels
  <2>2. toPage' \in Seq(SourcesMessage \cup PeerMessage)
        /\ Len(toPage') = Len(toPage) + 1
    BY <1>1, <1>6, <2>1, AppendProperties
  <2> QED BY <1>2, <2>1, <2>2, IdeParts, RuleOriginsAssumption DEF Channels
<1>8. /\ ide' \in Ide /\ ide'.active = new /\ ide'.route = new
      /\ ide'.inspect = ide.inspect /\ ide'.connected = ide.connected
      /\ ide'.resolving = FALSE /\ ide'.open = ide.open
      /\ (ide'.retained <=> ide.retained \/ version # None)
  <2> DEFINE ret == ide.retained \/ version # None
  <2>1. ret \in BOOLEAN
    OBVIOUS
  <2>2. ide' = [ide EXCEPT !.generation = ide.generation + 1, !.resolving = FALSE,
                  !.accepted = TRUE, !.active = new, !.route = new,
                  !.retained = ret]
    BY <1>1
  <2> HIDE DEF new, ret
  <2>3. /\ ide' \in Ide /\ ide'.active = new /\ ide'.route = new
        /\ ide'.inspect = ide.inspect /\ ide'.connected = ide.connected
        /\ ide'.resolving = FALSE /\ ide'.open = ide.open
        /\ ide'.retained = ret
    BY <1>3, <1>4, <1>5, <2>1, <2>2 DEF Ide
  <2> QED BY <2>3 DEF ret
<1>9. Standing(ide')
  BY <1>3, <1>8 DEF Standing
<1>10. Watched(ide', file')
  BY <1>2, <1>8, IdeParts DEF Watched
<1> QED BY <1>2, <1>7, <1>9, <1>10 DEF OInv, Browser, FileOK

LEMMA PrepareFailsKeeps == OInv /\ PrepareFails => OInv'
<1> SUFFICES ASSUME OInv, PrepareFails PROVE OInv'
  OBVIOUS
<1> DEFINE i == [ide EXCEPT !.generation = @ + 1, !.resolving = FALSE]
           j == IF ide.accepted THEN i ELSE Invalidated(i)
<1>1. IdeStep(j) /\ ide.resolving /\ toIde' = toIde
  BY DEF PrepareFails
<1>2. /\ ide \in Ide /\ ide.generation + 1 \in 0..MaxGeneration
  BY <1>1, IdeParts, RuleOriginsAssumption DEF Standing, Ide
<1>3. /\ i \in Ide /\ i.resolving = FALSE /\ i.inspect = ide.inspect
      /\ i.connected = ide.connected /\ i.active = ide.active
      /\ i.route = ide.route /\ i.retained = ide.retained /\ i.open = ide.open
  BY <1>2 DEF Ide
<1> HIDE DEF i
<1>4. Standing(i) /\ Watched(i, file)
  BY <1>3, IdeParts DEF Standing, Watched
<1>5. Standing(Invalidated(i)) /\ Watched(Invalidated(i), file)
  BY <1>3, IdeParts, InvalidatedStands
<1>6. Standing(j) /\ Watched(j, file)
  BY <1>4, <1>5
<1> HIDE DEF j
<1> QED BY <1>1, <1>6, IdeStepKeeps, IdeParts DEF Channels

LEMMA DisconnectKeeps == OInv /\ Disconnect => OInv'
<1> SUFFICES ASSUME OInv, Disconnect PROVE OInv'
  OBVIOUS
<1> DEFINE v == Invalidated(ide)
           gone == Message("gone", None, 0, FALSE)
<1>1. PICK n \in 0..Len(toPage) : toPage' = Append(SubSeq(toPage, 1, n), gone)
  BY DEF Disconnect
<1>2. /\ ide' = [v EXCEPT !.connected = FALSE, !.route = None]
      /\ toIde' = <<>> /\ Len(toPage) < MaxChannel
      /\ UNCHANGED <<file, router, port, panel, clicked, asked>>
  BY DEF Disconnect
<1>3. /\ Standing(v) /\ Watched(v, file) /\ v.inspect = None
      /\ ~v.resolving /\ v.active = None
  BY IdeParts, InvalidatedStands
<1> HIDE DEF v
<1>4. /\ ide' \in Ide /\ ide'.inspect = None /\ ~ide'.resolving
      /\ ide'.active = None /\ ide'.route = None /\ ide'.open = v.open
      /\ ide'.retained = v.retained
  BY <1>2, <1>3 DEF Standing, Ide
<1>5. Standing(ide') /\ Watched(ide', file')
  BY <1>2, <1>3, <1>4 DEF Standing, Watched
<1>6. toPage' \in Seq(SourcesMessage \cup PeerMessage) /\ Len(toPage') <= MaxChannel
  <2> DEFINE S == SourcesMessage \cup PeerMessage
             c == SubSeq(toPage, 1, n)
  <2>1. toPage \in Seq(S) /\ Len(toPage) \in Nat /\ n \in Int /\ n <= Len(toPage)
    BY IdeParts, LenProperties DEF Channels
  <2>2. \A k \in 1..n : toPage[k] \in S
    BY <2>1, ElementOfSeq
  <2>3. gone \in S
    BY DEF Message, PeerMessage
  <2> HIDE DEF S, gone
  <2>4. c \in Seq(S) /\ Len(c) = IF 1 <= n THEN n - 1 + 1 ELSE 0
    BY <2>1, <2>2, SubSeqProperties
  <2> HIDE DEF c
  <2>5. Append(c, gone) \in Seq(S) /\ Len(Append(c, gone)) = Len(c) + 1
    BY <2>3, <2>4, AppendProperties
  <2>6. Len(Append(c, gone)) <= MaxChannel
    BY <1>2, <2>1, <2>4, <2>5, RuleOriginsAssumption
  <2> QED BY <1>1, <2>5, <2>6 DEF S, c
<1>7. toIde' \in Seq(InspectMessage) /\ Len(toIde') <= MaxChannel
  BY <1>2, EmptySeq, RuleOriginsAssumption
<1> QED BY <1>2, <1>5, <1>6, <1>7 DEF OInv, Channels, Browser, FileOK

LEMMA ReconnectKeeps == OInv /\ Reconnect => OInv'
<1> SUFFICES ASSUME OInv, Reconnect PROVE OInv'
  OBVIOUS
<1> DEFINE back == Message("back", None, 0, FALSE)
           S == SourcesMessage \cup PeerMessage
<1>1. /\ ide' = [ide EXCEPT !.connected = TRUE] /\ toPage' = Append(toPage, back)
      /\ Len(toPage) < MaxChannel
      /\ UNCHANGED <<file, toIde, router, port, panel, clicked, asked>>
  BY DEF Reconnect
<1>2. /\ ide' \in Ide /\ ide'.connected = TRUE /\ ide'.inspect = ide.inspect
      /\ ide'.active = ide.active /\ ide'.route = ide.route
      /\ ide'.open = ide.open /\ ide'.retained = ide.retained
      /\ ide'.resolving = ide.resolving /\ ide'.generation = ide.generation
  BY <1>1, IdeParts DEF Ide
<1>3. Standing(ide') /\ Watched(ide', file')
  BY <1>1, <1>2, IdeParts DEF Standing, Watched
<1>4. back \in S
  BY DEF Message, PeerMessage
<1> HIDE DEF back, S
<1>5. toPage \in Seq(S) /\ Len(toPage) \in Nat
  BY IdeParts, LenProperties DEF Channels, S
<1>6. toPage' \in Seq(S) /\ Len(toPage') = Len(toPage) + 1
  BY <1>1, <1>4, <1>5, AppendProperties
<1>7. Channels'
  BY <1>1, <1>5, <1>6, IdeParts, RuleOriginsAssumption DEF Channels, S
<1> QED BY <1>1, <1>3, <1>7 DEF OInv, Browser, FileOK

LEMMA FileChangesKeeps == OInv /\ FileChanges => OInv'
<1> SUFFICES ASSUME OInv, FileChanges PROVE OInv'
  OBVIOUS
<1>1. /\ file.now < MaxVersion /\ file' = [file EXCEPT !.now = @ + 1]
      /\ UNCHANGED <<ide, toIde, toPage, router, port, panel, clicked, asked>>
  BY DEF FileChanges
<1>2. /\ file \in [now : Version, noticed : Version]
      /\ file.now \in Nat /\ file.noticed \in Nat /\ file.noticed <= file.now
      /\ file.now + 1 \in Version
  BY <1>1, RuleOriginsAssumption DEF OInv, FileOK, Version
<1>3. /\ file' \in [now : Version, noticed : Version]
      /\ file'.now = file.now + 1 /\ file'.noticed = file.noticed
  BY <1>1, <1>2
<1>4. FileOK' /\ file'.noticed # file'.now
  BY <1>2, <1>3 DEF FileOK
<1>5. Watched(ide', file')
  BY <1>1, <1>4, IdeParts DEF Watched
<1> QED BY <1>1, <1>4, <1>5 DEF OInv, Channels, Browser

LEMMA FileNoticedKeeps == OInv /\ FileNoticed => OInv'
<1> SUFFICES ASSUME OInv, FileNoticed PROVE OInv'
  OBVIOUS
<1>1. /\ file' = [file EXCEPT !.noticed = file.now]
      /\ ide' = IF ide.retained \/ ide.resolving
                THEN ResolveCurrent(Superseded(ide)) ELSE ide
      /\ UNCHANGED <<toIde, toPage, router, port, panel, clicked, asked>>
  BY DEF FileNoticed
<1>2. FileOK'
  BY <1>1, RuleOriginsAssumption DEF OInv, FileOK, Version
<1>3. CASE ide.retained \/ ide.resolving
  <2> DEFINE s == Superseded(ide)
  <2>1. Standing(s) /\ Watched(s, file')
    BY IdeParts, SupersededStands
  <2> HIDE DEF s
  <2>2. Standing(ResolveCurrent(s)) /\ Watched(ResolveCurrent(s), file')
    BY <2>1, ResolveStands DEF Standing
  <2> QED BY <1>1, <1>2, <1>3, <2>2 DEF s, OInv, Channels, Browser
<1>4. CASE ~(ide.retained \/ ide.resolving)
  <2>1. Watched(ide', file')
    BY <1>1, <1>4, IdeParts DEF Watched
  <2> QED BY <1>1, <1>2, <1>4, <2>1 DEF OInv, Channels, Browser
<1> QED BY <1>3, <1>4

LEMMA RefreshKeeps == OInv /\ Refresh => OInv'
<1> SUFFICES ASSUME OInv, Refresh PROVE OInv'
  OBVIOUS
<1> DEFINE s == Superseded(ide)
<1>1. /\ asked.refreshes < MaxRefresh
      /\ asked' = [asked EXCEPT !.refreshes = @ + 1]
      /\ ide' = ResolveCurrent(s)
      /\ UNCHANGED <<file, toIde, toPage, router, port, panel, clicked>>
  BY DEF Refresh
<1>2. Standing(s) /\ Watched(s, file)
  BY IdeParts, SupersededStands
<1> HIDE DEF s
<1>3. Standing(ide') /\ Watched(ide', file)
  BY <1>1, <1>2, ResolveStands DEF Standing
<1>4. Browser'
  BY <1>1, RuleOriginsAssumption DEF OInv, Browser
<1> QED BY <1>1, <1>3, <1>4 DEF OInv, Channels, FileOK

LEMMA AcceptOpenKeeps == OInv /\ AcceptOpen => OInv'
<1> SUFFICES ASSUME OInv, AcceptOpen PROVE OInv'
  OBVIOUS
<1> DEFINE m == Head(toIde)
           mine(p) == /\ p # None
                      /\ p.inspect = m.inspect /\ p.generation = m.generation
           new == [ inspect |-> m.inspect, generation |-> m.generation,
                    version |-> ide.active.version, seen |-> None,
                    current |-> TRUE, step |-> "opening" ]
           i == [ide EXCEPT !.open = new]
<1>1. m \in InspectMessage /\ toIde' \in Seq(InspectMessage)
      /\ Len(toIde') <= MaxChannel
  BY FromBrowserParts DEF AcceptOpen, FromBrowser
<1>2. CASE IdeStep(ide)
  BY <1>1, <1>2, IdeStepKeeps, IdeParts
<1>3. CASE IdeStep(Invalidated(ide))
  BY <1>1, <1>3, IdeStepKeeps, IdeParts, InvalidatedStands
<1>4. CASE /\ mine(ide.route) /\ ide.route.version # None
           /\ mine(ide.active) /\ IdeStep(i)
  <2>1. /\ ide.active \in Publication /\ ide.active # None
        /\ ide.active.version # None
        /\ ide.active.inspect = m.inspect /\ ide.active.generation = m.generation
        /\ ide.retained
    BY <1>4, IdeParts DEF Standing
  <2>2. new \in Open /\ new.step = "opening"
    BY <2>1 DEF Publication, Open
  <2> HIDE DEF new
  <2>3. /\ i \in Ide /\ i.open = new /\ i.inspect = ide.inspect
        /\ i.connected = ide.connected /\ i.active = ide.active
        /\ i.route = ide.route /\ i.retained = ide.retained
        /\ i.resolving = ide.resolving /\ i.generation = ide.generation
    BY <2>2, IdeParts DEF Ide
  <2> HIDE DEF i
  <2>4. Standing(i)
    BY <2>3, IdeParts DEF Standing
  <2>5. Watched(i, file)
    BY <2>1, <2>2, <2>3 DEF Watched
  <2>6. IdeStep(i)
    BY <1>4
  <2> QED BY <1>1, <2>4, <2>5, <2>6, IdeStepKeeps
<1> QED BY <1>2, <1>3, <1>4 DEF AcceptOpen

\* Changes of the open alone.
LEMMA OpenStands ==
  ASSUME OInv, NEW o \in Open \cup {None}, NEW f,
         o # None /\ o.current =>
             /\ ide.open # None /\ ide.open.current
             /\ o.step = "rechecked" => o.seen = f.now \/ f.noticed # f.now
  PROVE  Standing([ide EXCEPT !.open = o]) /\ Watched([ide EXCEPT !.open = o], f)
<1> DEFINE i == [ide EXCEPT !.open = o]
<1>1. /\ i \in Ide /\ i.open = o /\ i.inspect = ide.inspect
      /\ i.connected = ide.connected /\ i.active = ide.active
      /\ i.route = ide.route /\ i.retained = ide.retained
      /\ i.resolving = ide.resolving /\ i.generation = ide.generation
  BY IdeParts DEF Ide
<1> HIDE DEF i
<1>2. Standing(i)
  BY <1>1, IdeParts DEF Standing
<1>3. Watched(i, f)
  BY <1>1, IdeParts DEF Watched
<1> QED BY <1>2, <1>3 DEF i

LEMMA ReadKeeps ==
  ASSUME OInv, NEW from, NEW to \in {"checked", "rechecked"}, Read(from, to),
         toIde' = toIde
  PROVE  OInv'
<1> DEFINE o == [ide.open EXCEPT !.seen = file.now, !.step = to]
<1>1. ide.open \in Open /\ ide.open # None
  BY IdeParts DEF Read
<1>2. o \in Open /\ o.seen = file.now /\ o.current = ide.open.current
  BY <1>1, IdeParts DEF Open
<1>3. IdeStep([ide EXCEPT !.open = o])
  <2>1. [ide EXCEPT !.open.seen = file.now, !.open.step = to]
            = [ide EXCEPT !.open = o]
    BY <1>1, IdeParts DEF Ide, Open
  <2> QED BY <2>1 DEF Read
<1> HIDE DEF o
<1>4. Standing([ide EXCEPT !.open = o]) /\ Watched([ide EXCEPT !.open = o], file)
  BY <1>1, <1>2, OpenStands
<1> QED BY <1>3, <1>4, IdeStepKeeps, IdeParts DEF Channels

LEMMA DoneStands ==
  ASSUME OInv
  PROVE  /\ Standing([ide EXCEPT !.open = None])
         /\ Watched([ide EXCEPT !.open = None], file)
BY OpenStands

LEMMA ReplacedStands ==
  ASSUME OInv
  PROVE  Standing(Replaced(ide)) /\ Watched(Replaced(ide), file)
<1> DEFINE i == [ide EXCEPT !.open = None]
<1>1. Standing(i) /\ Watched(i, file)
  BY DoneStands
<1> HIDE DEF i
<1>2. Standing(ResolveCurrent(i)) /\ Watched(ResolveCurrent(i), file)
  BY <1>1, ResolveStands DEF Standing
<1>3. Replaced(ide) = i \/ Replaced(ide) = ResolveCurrent(i)
  BY DEF Replaced, i
<1> QED BY <1>1, <1>2, <1>3

LEMMA ContinueKeeps ==
  ASSUME OInv, NEW from, NEW to \in {"showing", "revealed"}, Continue(from, to)
  PROVE  OInv'
<1> DEFINE o == [ide.open EXCEPT !.step = to]
<1>1. ide.open \in Open /\ ide.open # None /\ toIde' = toIde
  BY IdeParts DEF Continue
<1>2. o \in Open /\ o.step # "rechecked" /\ o.current = ide.open.current
  BY <1>1 DEF Open
<1>3. [ide EXCEPT !.open.step = to] = [ide EXCEPT !.open = o]
  BY <1>1, IdeParts DEF Ide, Open
<1> HIDE DEF o
<1>4. Standing([ide EXCEPT !.open = o]) /\ Watched([ide EXCEPT !.open = o], file)
  BY <1>1, <1>2, OpenStands
<1>5. CASE IdeStep([ide EXCEPT !.open.step = to])
  BY <1>1, <1>3, <1>4, <1>5, IdeStepKeeps, IdeParts DEF Channels
<1>6. CASE IdeStep(Replaced(ide))
  BY <1>1, <1>6, ReplacedStands, IdeStepKeeps, IdeParts DEF Channels
<1>7. CASE IdeStep([ide EXCEPT !.open = None])
  BY <1>1, <1>7, DoneStands, IdeStepKeeps, IdeParts DEF Channels
<1> QED BY <1>5, <1>6, <1>7 DEF Continue

LEMMA OpenFailsKeeps == OInv /\ OpenFails => OInv'
<1> SUFFICES ASSUME OInv, OpenFails PROVE OInv'
  OBVIOUS
<1>1. toIde' = toIde
  BY DEF OpenFails
<1>2. CASE IdeStep(Replaced(ide))
  BY <1>1, <1>2, ReplacedStands, IdeStepKeeps, IdeParts DEF Channels
<1>3. CASE IdeStep([ide EXCEPT !.open = None])
  BY <1>1, <1>3, DoneStands, IdeStepKeeps, IdeParts DEF Channels
<1> QED BY <1>2, <1>3 DEF OpenFails

IdeActions ==
    \/ AcceptInspect \/ Publish \/ PrepareFails \/ Disconnect \/ Reconnect
    \/ FileChanges \/ FileNoticed \/ Refresh
    \/ AcceptOpen \/ ReadBefore \/ Show \/ ReadAfter \/ Reveal \/ OpenFails

LEMMA IdeActionsKeep == OInv /\ IdeActions => OInv'
<1> SUFFICES ASSUME OInv, IdeActions PROVE OInv'
  OBVIOUS
<1>1. CASE ReadBefore \/ ReadAfter
  BY <1>1, ReadKeeps DEF ReadBefore, ReadAfter, Read
<1>2. CASE Show \/ Reveal
  BY <1>2, ContinueKeeps DEF Show, Reveal
<1> QED BY <1>1, <1>2, AcceptInspectKeeps, PublishKeeps, PrepareFailsKeeps,
           DisconnectKeeps, ReconnectKeeps, FileChangesKeeps, FileNoticedKeeps,
           RefreshKeeps, AcceptOpenKeeps, OpenFailsKeeps DEF IdeActions

-----------------------------------------------------------------------------
\* What the panel shows and what each message to it will make it show, one
\* after the other.

Origins(x) == [inspect |-> x.inspect, generation |-> x.generation,
               linked |-> x.linked]

Nowhere == [inspect |-> None, generation |-> 0, linked |-> FALSE]

Shown(p, c, k) ==
    IF k = 0 THEN Origins(p)
    ELSE IF c[k].kind \in {"disconnected", "changed"} THEN Nowhere
    ELSE Origins(c[k])

\* The sources m are the ones that follow what v shows.
Follows(v, m) ==
    /\ v.inspect = m.inspect
    /\ IF v.generation = 0 THEN m.generation = 1 ELSE m.generation > v.generation

\* A panel p, the messages c it has not received, and a router r: all sources
\* follow what comes before them, and the last thing shown is what the router
\* has recorded, if anything is.
Chained(p, c, r) ==
    /\ \A k \in 1..Len(c) :
           c[k].kind = "sources" => Follows(Shown(p, c, k - 1), c[k])
    /\ r.inspect # None => Shown(p, c, Len(c)) = Origins(r)

CInv == Chained(panel, port, router)

Messages == SourcesMessage \cup PortMessage

LEMMA ChainedByPosting ==
  ASSUME NEW p, NEW c \in Seq(Messages), NEW r, NEW q, NEW m \in Messages,
         Chained(p, c, r),
         m.kind = "sources" => r.inspect # None /\ Follows(r, m),
         q.inspect # None =>
             m.kind \in {"sources", "started"} /\ Origins(q) = Origins(m)
  PROVE  Chained(p, Append(c, m), q)
<1> DEFINE d == Append(c, m)
           n == Len(c)
<1>1. /\ n \in Nat /\ Len(d) = n + 1 /\ d[n + 1] = m
      /\ \A k \in 1..n : d[k] = c[k]
  BY LenProperties, AppendProperties
<1> HIDE DEF d, n
<1>2. \A k \in 0..n : Shown(p, d, k) = Shown(p, c, k)
  BY <1>1 DEF Shown
<1>3. q.inspect # None => Shown(p, d, n + 1) = Origins(q)
  BY <1>1 DEF Shown
<1>4. ASSUME NEW k \in 1..(n + 1), d[k].kind = "sources"
      PROVE  Follows(Shown(p, d, k - 1), d[k])
  <2>1. CASE k \in 1..n
    <3>1. k - 1 \in 0..n
      BY <1>1, <2>1
    <3>2. Shown(p, d, k - 1) = Shown(p, c, k - 1) /\ d[k] = c[k]
      BY <1>1, <1>2, <2>1, <3>1
    <3> QED BY <1>4, <2>1, <3>2 DEF Chained, n
  <2>2. CASE k = n + 1
    <3>1. k - 1 = n /\ n \in 0..n /\ d[k] = m
      BY <1>1, <2>2
    <3>2. Shown(p, d, k - 1) = Shown(p, c, n)
      BY <1>2, <3>1
    <3>3. Follows(r, m) /\ Shown(p, c, n) = Origins(r)
      BY <1>4, <3>1 DEF Chained, n
    <3> QED BY <3>1, <3>2, <3>3 DEF Follows, Origins
  <2> QED BY <1>1, <2>1, <2>2
<1> QED BY <1>1, <1>3, <1>4 DEF Chained, d

LEMMA ChainedByReceiving ==
  ASSUME NEW p, NEW c \in Seq(Messages), c # <<>>, NEW r, NEW q,
         Chained(p, c, r), Origins(q) = Shown(p, c, 1)
  PROVE  Chained(q, Tail(c), r)
<1> DEFINE d == Tail(c)
           n == Len(c)
<1>1. /\ n \in Nat /\ n # 0 /\ Len(d) = n - 1
      /\ \A k \in 1..(n - 1) : d[k] = c[k + 1]
  BY LenProperties, HeadTailProperties, EmptySeq
<1> HIDE DEF d, n
<1>2. \A k \in 0..(n - 1) : Shown(q, d, k) = Shown(p, c, k + 1)
  <2> SUFFICES ASSUME NEW k \in 0..(n - 1)
               PROVE  Shown(q, d, k) = Shown(p, c, k + 1)
    OBVIOUS
  <2>1. CASE k = 0
    BY <2>1 DEF Shown
  <2>2. CASE k # 0
    <3>1. k \in 1..(n - 1) /\ k + 1 # 0
      BY <1>1, <2>2
    <3> QED BY <1>1, <2>2, <3>1 DEF Shown
  <2> QED BY <2>1, <2>2
<1>3. ASSUME NEW k \in 1..(n - 1), d[k].kind = "sources"
      PROVE  Follows(Shown(q, d, k - 1), d[k])
  <2>1. k - 1 \in 0..(n - 1) /\ k - 1 + 1 = k /\ k + 1 - 1 = k
        /\ k + 1 \in 1..n
    BY <1>1
  <2>2. Shown(q, d, k - 1) = Shown(p, c, k) /\ d[k] = c[k + 1]
    BY <1>1, <1>2, <2>1
  <2>3. Follows(Shown(p, c, k + 1 - 1), c[k + 1])
    BY <1>3, <2>1, <2>2 DEF Chained, n
  <2> QED BY <2>1, <2>2, <2>3
<1>4. r.inspect # None => Shown(q, d, n - 1) = Origins(r)
  <2>1. n - 1 \in 0..(n - 1) /\ n - 1 + 1 = n
    BY <1>1
  <2>2. Shown(q, d, n - 1) = Shown(p, c, n)
    BY <1>2, <2>1
  <2> QED BY <2>2 DEF Chained, n
<1> QED BY <1>1, <1>3, <1>4 DEF Chained, d

-----------------------------------------------------------------------------
\* The router's steps.

LEMMA PortParts ==
  ASSUME OInv
  PROVE  /\ port \in Seq(Messages) /\ Len(port) \in Nat /\ MaxChannel \in Nat
         /\ router \in Router
BY LenProperties, RuleOriginsAssumption DEF OInv, Channels, Messages, Browser

LEMMA PostNone ==
  ASSUME OInv, NEW q, RouterStep(q, <<>>)
  PROVE  port' = port /\ router' = q /\ UNCHANGED <<file, ide, panel>>
BY PortParts, ConcatEmptySeq DEF RouterStep

LEMMA PostOne ==
  ASSUME OInv, NEW q, NEW m \in Messages, RouterStep(q, <<m>>)
  PROVE  /\ port' = Append(port, m) /\ router' = q
         /\ port' \in Seq(Messages) /\ Len(port') <= MaxChannel
         /\ UNCHANGED <<file, ide, panel>>
<1>1. port \in Seq(Messages) /\ Len(port) + 1 <= MaxChannel
      /\ port' = port \o <<m>> /\ router' = q /\ UNCHANGED <<file, ide, panel>>
  BY PortParts DEF RouterStep
<1>2. port \o <<m>> = Append(port, m)
  BY <1>1, AppendIsConcat
<1>3. Append(port, m) \in Seq(Messages) /\ Len(Append(port, m)) = Len(port) + 1
  BY <1>1, AppendProperties
<1> QED BY <1>1, <1>2, <1>3

LEMMA PostTwo ==
  ASSUME OInv, NEW q, NEW m \in Messages, NEW l \in Messages,
         RouterStep(q, <<m, l>>)
  PROVE  /\ port' = Append(Append(port, m), l) /\ router' = q
         /\ port' \in Seq(Messages) /\ Len(port') <= MaxChannel
         /\ UNCHANGED <<file, ide, panel>>
<1>1. port \in Seq(Messages) /\ Len(port) \in Nat /\ Len(port) + 2 <= MaxChannel
      /\ port' = port \o <<m, l>> /\ router' = q /\ UNCHANGED <<file, ide, panel>>
  BY PortParts DEF RouterStep
<1>2. port \o <<m, l>> = Append(Append(port, m), l)
  <2>1. Append(port, m) = port \o <<m>> /\ Append(port, m) \in Seq(Messages)
    BY <1>1, AppendIsConcat, AppendProperties
  <2>2. Append(Append(port, m), l) = (port \o <<m>>) \o <<l>>
    BY <2>1, AppendIsConcat
  <2>3. <<m>> \in Seq(Messages) /\ <<l>> \in Seq(Messages)
    OBVIOUS
  <2>4. <<m>> \o <<l>> = <<m, l>>
    <3>1. <<m>> \o <<l>> = Append(<<m>>, l)
      BY <2>3, AppendIsConcat
    <3>2. Append(<<m>>, l) = <<m, l>>
      <4>1. <<m, l>> \in Seq(Messages) /\ Len(<<m, l>>) = 2 /\ Len(<<m>>) = 1
            /\ <<m, l>>[1] = m /\ <<m, l>>[2] = l /\ <<m>>[1] = m
        OBVIOUS
      <4>2. /\ Append(<<m>>, l) \in Seq(Messages) /\ Len(Append(<<m>>, l)) = 2
            /\ Append(<<m>>, l)[1] = m /\ Append(<<m>>, l)[2] = l
        BY <2>3, <4>1, AppendProperties
      <4>3. \A k \in 1..2 : Append(<<m>>, l)[k] = <<m, l>>[k]
        BY <4>1, <4>2
      <4> QED BY <4>1, <4>2, <4>3, SeqEqual
    <3> QED BY <3>1, <3>2
  <2> QED BY <1>1, <2>2, <2>3, <2>4, ConcatAssociative
<1>3. /\ Append(port, m) \in Seq(Messages)
      /\ Len(Append(port, m)) = Len(port) + 1
  BY <1>1, AppendProperties
<1>4. /\ Append(Append(port, m), l) \in Seq(Messages)
      /\ Len(Append(Append(port, m), l)) = Len(port) + 2
  BY <1>1, <1>3, AppendProperties
<1> QED BY <1>1, <1>2, <1>4

\* What a step of the router leaves alone.
LEMMA RouterStepKeeps ==
  ASSUME OInv, UNCHANGED <<file, ide, panel>>, router' \in Router,
         port' \in Seq(Messages), Len(port') <= MaxChannel,
         toIde' \in Seq(InspectMessage), Len(toIde') <= MaxChannel,
         toPage' = toPage \/ (toPage # <<>> /\ toPage' = Tail(toPage)),
         clicked' = None \/ clicked' = clicked,
         asked' \in [ inspects : 0..MaxInspect, refreshes : 0..MaxRefresh,
                      held : Inspect \cup {None} ]
  PROVE  OInv'
<1> DEFINE S == SourcesMessage \cup PeerMessage
<1>1. toPage \in Seq(S) /\ Len(toPage) <= MaxChannel /\ Len(toPage) \in Nat
  BY LenProperties DEF OInv, Channels
<1>2. toPage # <<>> => Tail(toPage) \in Seq(S) /\ Len(Tail(toPage)) = Len(toPage) - 1
  BY <1>1, HeadTailProperties
<1> HIDE DEF S
<1>3. toPage' \in Seq(S) /\ Len(toPage') <= MaxChannel
  <2>1. MaxChannel \in Nat
    BY RuleOriginsAssumption
  <2>2. CASE toPage' = toPage
    BY <1>1, <2>2
  <2>3. CASE toPage # <<>> /\ toPage' = Tail(toPage)
    <3>1. Len(toPage) - 1 <= MaxChannel
      BY <1>1, <2>1
    <3> QED BY <1>2, <2>3, <3>1
  <2> QED BY <2>2, <2>3
<1>4. Channels'
  BY <1>3 DEF Channels, Messages, S
<1>5. Browser'
  BY DEF OInv, Browser
<1> QED BY <1>4, <1>5 DEF OInv, FileOK

\* A router with nothing recorded.
Forgetful(q) ==
    q \in Router /\ q.inspect = None /\ q.generation = 0 /\ q.linked = FALSE

LEMMA UncorrelatedParts ==
  ASSUME NEW q \in Router
  PROVE  /\ Forgetful(Uncorrelated(q)) /\ Forgetful(Revoked(q))
         /\ Forgetful([Uncorrelated(q) EXCEPT !.pending = TRUE])
         /\ Forgetful([Revoked(q) EXCEPT !.cleaning = FALSE])
         /\ \A i \in Inspect :
                LET u == [Revoked(q) EXCEPT !.inspect = i]
                IN  /\ u \in Router
                    /\ u.inspect = i /\ u.generation = 0 /\ u.linked = FALSE
<1>1. 0 \in 0..MaxGeneration
  BY RuleOriginsAssumption
<1>2. Forgetful(Uncorrelated(q))
  BY <1>1 DEF Forgetful, Uncorrelated, Router
<1> DEFINE v == Uncorrelated(q)
<1>3. Revoked(q) = [v EXCEPT !.pending = FALSE]
  BY DEF Revoked
<1>4. Forgetful(v)
  BY <1>2
<1> HIDE DEF v
<1>5. Forgetful([v EXCEPT !.pending = TRUE]) /\ Forgetful(Revoked(q))
  BY <1>3, <1>4 DEF Forgetful, Router
<1> DEFINE w == Revoked(q)
<1>6. Forgetful(w)
  BY <1>5
<1> HIDE DEF w
<1>7. Forgetful([w EXCEPT !.cleaning = FALSE])
  BY <1>6 DEF Forgetful, Router
<1>8. \A i \in Inspect :
          LET u == [w EXCEPT !.inspect = i]
          IN  /\ u \in Router
              /\ u.inspect = i /\ u.generation = 0 /\ u.linked = FALSE
  BY <1>6 DEF Forgetful, Router
<1> QED BY <1>2, <1>5, <1>7, <1>8 DEF v, w

LEMMA Notices ==
  /\ \A i \in Inspect : Message("started", i, 0, FALSE) \in Messages
  /\ \A i \in Inspect \cup {None} :
         Message("disconnected", i, 0, FALSE) \in Messages
  /\ Changed \in Messages
BY DEF Changed, Message, Messages, PortMessage

\* A step after which nothing is recorded, whether it tells the panel or not.
LEMMA Ending ==
  ASSUME OInv, CInv, NEW q, Forgetful(q), NEW news, RouterStep(q, news),
         news = <<>> \/ \E m \in Messages :
                            news = <<m>> /\ m.kind \in {"disconnected", "changed"}
  PROVE  /\ CInv' /\ router' \in Router /\ router' = q
         /\ port' \in Seq(Messages) /\ Len(port') <= MaxChannel
         /\ UNCHANGED <<file, ide, panel>>
<1>1. CASE news = <<>>
  <2>1. port' = port /\ router' = q /\ UNCHANGED <<file, ide, panel>>
    BY <1>1, PostNone
  <2>2. CInv'
    BY <2>1 DEF CInv, Chained, Forgetful
  <2>3. port \in Seq(Messages) /\ Len(port) <= MaxChannel
    BY PortParts DEF OInv, Channels
  <2> QED BY <2>1, <2>2, <2>3 DEF Forgetful
<1>2. CASE \E m \in Messages :
               news = <<m>> /\ m.kind \in {"disconnected", "changed"}
  <2>1. PICK m \in Messages :
            news = <<m>> /\ m.kind \in {"disconnected", "changed"}
    BY <1>2
  <2>2. /\ port' = Append(port, m) /\ router' = q
        /\ port' \in Seq(Messages) /\ Len(port') <= MaxChannel
        /\ UNCHANGED <<file, ide, panel>>
    BY <2>1, PostOne
  <2>3. Chained(panel, Append(port, m), q)
    BY <2>1, PortParts, ChainedByPosting DEF CInv, Forgetful
  <2>4. CInv'
    BY <2>2, <2>3 DEF CInv
  <2> QED BY <2>2, <2>4 DEF Forgetful
<1> QED BY <1>1, <1>2

LEMMA SendToIde ==
  ASSUME OInv, NEW m \in InspectMessage, Len(toIde) < MaxChannel,
         toIde' = Append(toIde, m) \/ toIde' = toIde
  PROVE  toIde' \in Seq(InspectMessage) /\ Len(toIde') <= MaxChannel
<1>1. toIde \in Seq(InspectMessage) /\ Len(toIde) \in Nat
  BY LenProperties DEF OInv, Channels
<1>2. Append(toIde, m) \in Seq(InspectMessage)
      /\ Len(Append(toIde, m)) = Len(toIde) + 1
  BY <1>1, AppendProperties
<1> QED BY <1>1, <1>2, RuleOriginsAssumption

LEMMA InspectElementKeeps == OInv /\ CInv /\ InspectElement => OInv' /\ CInv'
<1> SUFFICES ASSUME OInv, CInv, InspectElement PROVE OInv' /\ CInv'
  OBVIOUS
<1> DEFINE i == asked.inspects + 1
           started == Message("started", i, 0, FALSE)
           lost == Message("disconnected", i, 0, FALSE)
           q == [Revoked(router) EXCEPT !.inspect = i]
           sent == Message("inspect", i, 0, FALSE)
<1>1. /\ asked.inspects < MaxInspect
      /\ asked' = [asked EXCEPT !.inspects = @ + 1]
      /\ Len(toIde) < MaxChannel
      /\ UNCHANGED <<toPage, clicked>>
  BY DEF InspectElement
<1>2. i \in Inspect /\ asked' \in [ inspects : 0..MaxInspect,
          refreshes : 0..MaxRefresh, held : Inspect \cup {None} ]
  BY <1>1, RuleOriginsAssumption DEF OInv, Browser, Inspect
<1>3. started \in Messages /\ lost \in Messages /\ started.kind = "started"
      /\ started.inspect = i /\ started.generation = 0 /\ started.linked = FALSE
      /\ lost.kind = "disconnected"
  BY <1>2, Notices DEF Message
<1>4. q \in Router /\ q.inspect = i /\ q.generation = 0 /\ q.linked = FALSE
      /\ Forgetful(Revoked(router))
  BY <1>2, PortParts, UncorrelatedParts
<1>5. sent \in InspectMessage
  BY <1>2, RuleOriginsAssumption DEF Message, InspectMessage
<1>6. \/ /\ RouterStep(q, <<started>>)
         /\ toIde' = Append(toIde, sent) \/ toIde' = toIde
      \/ /\ RouterStep(Revoked(router), <<started, lost>>)
         /\ toIde' = toIde
  BY DEF InspectElement
<1> HIDE DEF i, started, lost, q, sent
<1>7. toIde' \in Seq(InspectMessage) /\ Len(toIde') <= MaxChannel
  BY <1>1, <1>5, <1>6, SendToIde
<1>8. Chained(panel, Append(port, started), q)
  BY <1>3, <1>4, PortParts, ChainedByPosting DEF CInv, Origins
<1>9. CASE RouterStep(q, <<started>>)
  <2>1. /\ port' = Append(port, started) /\ router' = q
        /\ port' \in Seq(Messages) /\ Len(port') <= MaxChannel
        /\ UNCHANGED <<file, ide, panel>>
    BY <1>3, <1>9, PostOne
  <2>2. CInv'
    BY <1>8, <2>1 DEF CInv
  <2> QED BY <1>1, <1>2, <1>4, <1>7, <2>1, <2>2, RouterStepKeeps
<1>10. CASE RouterStep(Revoked(router), <<started, lost>>)
  <2>1. /\ port' = Append(Append(port, started), lost)
        /\ router' = Revoked(router)
        /\ port' \in Seq(Messages) /\ Len(port') <= MaxChannel
        /\ UNCHANGED <<file, ide, panel>>
    BY <1>3, <1>10, PostTwo
  <2>2. Append(port, started) \in Seq(Messages)
    BY <1>3, PortParts, AppendProperties
  <2>3. Chained(panel, Append(Append(port, started), lost), Revoked(router))
    BY <1>3, <1>4, <1>8, <2>2, ChainedByPosting DEF Forgetful
  <2>4. CInv'
    BY <2>1, <2>3 DEF CInv
  <2> QED BY <1>1, <1>2, <1>4, <1>7, <2>1, <2>4, RouterStepKeeps DEF Forgetful
<1> QED BY <1>6, <1>9, <1>10

LEMMA ReceiveRulesSourcesKeeps ==
  OInv /\ CInv /\ ReceiveRulesSources => OInv' /\ CInv'
<1> SUFFICES ASSUME OInv, CInv, ReceiveRulesSources PROVE OInv' /\ CInv'
  OBVIOUS
<1> DEFINE m == Head(toPage)
           q == [router EXCEPT !.generation = m.generation, !.linked = m.linked]
<1>1. /\ toPage # <<>> /\ m.kind = "sources" /\ toPage' = Tail(toPage)
      /\ UNCHANGED <<toIde, clicked>>
  BY DEF ReceiveRulesSources, FromIde
<1>2. m \in SourcesMessage /\ m \in Messages
  <2>1. m \in SourcesMessage \cup PeerMessage
    BY <1>1, HeadTailProperties DEF OInv, Channels
  <2>2. m \notin PeerMessage
    BY <1>1 DEF PeerMessage
  <2> QED BY <2>1, <2>2 DEF Messages
<1>3. asked' \in [ inspects : 0..MaxInspect,
          refreshes : 0..MaxRefresh, held : Inspect \cup {None} ]
  <2>1. asked' = asked \/ asked' = [asked EXCEPT !.held = m.inspect]
    BY DEF ReceiveRulesSources
  <2>2. m.inspect \in Inspect
    BY <1>2 DEF SourcesMessage
  <2> HIDE DEF m
  <2> QED BY <2>1, <2>2 DEF OInv, Browser
<1>4. /\ toIde' \in Seq(InspectMessage) /\ Len(toIde') <= MaxChannel
      /\ port \in Seq(Messages) /\ Len(port) <= MaxChannel
  BY <1>1, PortParts DEF OInv, Channels
<1>5. CASE RouterStep(router, <<>>)
  <2>1. port' = port /\ router' = router /\ UNCHANGED <<file, ide, panel>>
    BY <1>5, PostNone
  <2>2. CInv'
    BY <2>1 DEF CInv
  <2> QED BY <1>1, <1>3, <1>4, <2>1, <2>2, RouterStepKeeps, PortParts
<1>6. CASE Prepared(m) /\ RouterStep(q, <<m>>)
  <2>0. router.inspect # None
    BY <1>2, <1>6, RuleOriginsAssumption DEF Prepared, SourcesMessage, Inspect
  <2>1. /\ q \in Router /\ q.inspect = router.inspect
        /\ q.generation = m.generation /\ q.linked = m.linked
    <3>1. m.generation \in 0..MaxGeneration /\ m.linked \in BOOLEAN
      BY <1>2, RuleOriginsAssumption DEF SourcesMessage, Generation
    <3> HIDE DEF m
    <3> QED BY <3>1, PortParts DEF Router
  <2>2. Follows(router, m) /\ q.inspect = m.inspect
    BY <1>6, <2>1 DEF Prepared, Follows
  <2>3. /\ port' = Append(port, m) /\ router' = q
        /\ port' \in Seq(Messages) /\ Len(port') <= MaxChannel
        /\ UNCHANGED <<file, ide, panel>>
    BY <1>2, <1>6, PostOne
  <2> HIDE DEF m, q
  <2>4. Chained(panel, Append(port, m), q)
    BY <1>1, <1>2, <2>0, <2>1, <2>2, PortParts, ChainedByPosting
       DEF CInv, Origins
  <2>5. CInv'
    BY <2>3, <2>4 DEF CInv
  <2> QED BY <1>1, <1>3, <1>4, <2>1, <2>3, <2>5, RouterStepKeeps
<1> QED BY <1>5, <1>6 DEF ReceiveRulesSources

\* The steps that leave what is recorded as it is and tell the panel nothing.
LEMMA SilentKeeps ==
  OInv /\ CInv /\ (DropPublication \/ PeerLeaves \/ PeerReturns) => OInv' /\ CInv'
<1> SUFFICES ASSUME OInv, CInv, DropPublication \/ PeerLeaves \/ PeerReturns
             PROVE  OInv' /\ CInv'
  OBVIOUS
<1>1. PICK q : /\ RouterStep(q, <<>>)
               /\ q \in Router /\ Origins(q) = Origins(router)
  <2>1. CASE DropPublication
    <3> DEFINE q == [router EXCEPT !.pending = FALSE]
    <3>1. q \in Router /\ Origins(q) = Origins(router)
      BY PortParts DEF Router, Origins
    <3> QED BY <2>1, <3>1 DEF DropPublication
  <2>2. CASE PeerLeaves
    <3> DEFINE q == [router EXCEPT !.peer = FALSE, !.cleaning = TRUE]
    <3>1. q \in Router /\ Origins(q) = Origins(router)
      BY PortParts DEF Router, Origins
    <3> QED BY <2>2, <3>1 DEF PeerLeaves
  <2>3. CASE PeerReturns
    <3> DEFINE q == [router EXCEPT !.peer = TRUE]
    <3>1. q \in Router /\ Origins(q) = Origins(router)
      BY PortParts DEF Router, Origins
    <3> QED BY <2>3, <3>1 DEF PeerReturns
  <2> QED BY <2>1, <2>2, <2>3
<1>2. port' = port /\ router' = q /\ UNCHANGED <<file, ide, panel>>
  BY <1>1, PostNone
<1>3. CInv'
  <2>1. q.inspect = router.inspect
    BY <1>1 DEF Origins
  <2> QED BY <1>1, <1>2, <2>1 DEF CInv, Chained
<1>4. /\ toPage' = toPage \/ (toPage # <<>> /\ toPage' = Tail(toPage))
      /\ UNCHANGED <<toIde, clicked, asked>>
  BY DEF DropPublication, PeerLeaves, PeerReturns, FromIde
<1>5. /\ toIde' \in Seq(InspectMessage) /\ Len(toIde') <= MaxChannel
      /\ port \in Seq(Messages) /\ Len(port) <= MaxChannel
      /\ asked' \in [ inspects : 0..MaxInspect, refreshes : 0..MaxRefresh,
                      held : Inspect \cup {None} ]
  BY <1>4, PortParts DEF OInv, Channels, Browser
<1> QED BY <1>1, <1>2, <1>3, <1>4, <1>5, RouterStepKeeps

\* The steps that end what is recorded and touch no other channel.
Endings == \/ BeginPublication \/ SelectionMoves \/ PageChanges
           \/ RefreshRevokes \/ CleanupEnds

LEMMA EndingsEnd ==
  ASSUME OInv, Endings
  PROVE  /\ UNCHANGED <<toIde, toPage, clicked, asked>>
         /\ \E q, news :
                /\ Forgetful(q) /\ RouterStep(q, news)
                /\ news = <<>> \/ \E m \in Messages :
                       news = <<m>> /\ m.kind \in {"disconnected", "changed"}
<1>1. /\ Changed \in Messages /\ Changed.kind = "changed"
      /\ Message("disconnected", None, 0, FALSE) \in Messages
      /\ Message("disconnected", None, 0, FALSE).kind = "disconnected"
  BY Notices DEF Changed, Message
<1>2. /\ Forgetful([Uncorrelated(router) EXCEPT !.pending = TRUE])
      /\ Forgetful(Revoked(router))
      /\ Forgetful([Revoked(router) EXCEPT !.cleaning = FALSE])
  BY PortParts, UncorrelatedParts
<1>3. CASE BeginPublication
  BY <1>1, <1>2, <1>3 DEF BeginPublication
<1>4. CASE SelectionMoves \/ PageChanges \/ RefreshRevokes
  BY <1>1, <1>2, <1>4 DEF SelectionMoves, PageChanges, RefreshRevokes
<1>5. CASE CleanupEnds
  BY <1>1, <1>2, <1>5 DEF CleanupEnds
<1> QED BY <1>3, <1>4, <1>5 DEF Endings

LEMMA EndingsKeep == OInv /\ CInv /\ Endings => OInv' /\ CInv'
<1> SUFFICES ASSUME OInv, CInv, Endings PROVE OInv' /\ CInv'
  OBVIOUS
<1>1. UNCHANGED <<toIde, toPage, clicked, asked>>
  BY EndingsEnd
<1>2. /\ CInv' /\ router' \in Router
      /\ port' \in Seq(Messages) /\ Len(port') <= MaxChannel
      /\ UNCHANGED <<file, ide, panel>>
  BY EndingsEnd, Ending
<1>3. /\ toIde' \in Seq(InspectMessage) /\ Len(toIde') <= MaxChannel
      /\ asked' \in [ inspects : 0..MaxInspect, refreshes : 0..MaxRefresh,
                      held : Inspect \cup {None} ]
  BY <1>1 DEF OInv, Channels, Browser
<1> QED BY <1>1, <1>2, <1>3, RouterStepKeeps

LEMMA PublishRulesOpenKeeps ==
  OInv /\ CInv /\ PublishRulesOpen => OInv' /\ CInv'
<1> SUFFICES ASSUME OInv, CInv, PublishRulesOpen PROVE OInv' /\ CInv'
  OBVIOUS
<1> DEFINE sent == Message("open", clicked.inspect, clicked.generation, FALSE)
           m == Message("disconnected", clicked.inspect, 0, FALSE)
           q == Uncorrelated(router)
<1>1. /\ clicked # None /\ clicked' = None /\ Len(toIde) < MaxChannel
      /\ UNCHANGED <<toPage, asked>>
      /\ \/ RouterStep(router, <<>>) /\ toIde' = toIde
         \/ /\ RouterStep(router, <<>>)
            /\ toIde' = Append(toIde, sent) \/ toIde' = toIde
         \/ RouterStep(q, <<m>>) /\ toIde' = toIde
  BY DEF PublishRulesOpen
<1>2. clicked \in [inspect : Inspect, generation : 0..MaxGeneration]
  BY <1>1 DEF OInv, Browser
<1>3. sent \in InspectMessage /\ m \in Messages /\ m.kind = "disconnected"
      /\ Forgetful(q)
  <2>1. clicked.inspect \in Inspect /\ clicked.generation \in 0..MaxGeneration
    BY <1>2
  <2> QED BY <2>1, Notices, PortParts, UncorrelatedParts
          DEF Message, InspectMessage
<1> HIDE DEF sent, m, q
<1>4. toIde' \in Seq(InspectMessage) /\ Len(toIde') <= MaxChannel
  BY <1>1, <1>3, SendToIde
<1>5. asked' \in [ inspects : 0..MaxInspect, refreshes : 0..MaxRefresh,
                   held : Inspect \cup {None} ]
      /\ port \in Seq(Messages) /\ Len(port) <= MaxChannel
  BY <1>1, PortParts DEF OInv, Channels, Browser
<1>6. CASE RouterStep(router, <<>>)
  <2>1. port' = port /\ router' = router /\ UNCHANGED <<file, ide, panel>>
    BY <1>6, PostNone
  <2>2. CInv'
    BY <2>1 DEF CInv
  <2> QED BY <1>1, <1>4, <1>5, <2>1, <2>2, RouterStepKeeps, PortParts
<1>7. CASE RouterStep(q, <<m>>)
  <2>1. /\ CInv' /\ router' \in Router
        /\ port' \in Seq(Messages) /\ Len(port') <= MaxChannel
        /\ UNCHANGED <<file, ide, panel>>
    BY <1>3, <1>7, Ending
  <2> QED BY <1>1, <1>4, <1>5, <2>1, RouterStepKeeps
<1> QED BY <1>1, <1>6, <1>7

-----------------------------------------------------------------------------
LEMMA PanelReceivesKeeps == OInv /\ CInv /\ PanelReceives => OInv' /\ CInv'
<1> SUFFICES ASSUME OInv, CInv, PanelReceives PROVE OInv' /\ CInv'
  OBVIOUS
<1> DEFINE m == Head(port)
<1>1. /\ port # <<>> /\ port' = Tail(port)
      /\ UNCHANGED <<file, ide, toIde, toPage, router, clicked, asked>>
      /\ panel' =
           CASE m.kind = "started" ->
                  [NoOrigins("pending") EXCEPT !.inspect = m.inspect]
             [] m.kind = "sources" ->
                  IF Accepts(m)
                  THEN [panel EXCEPT !.state = "ready", !.linked = m.linked,
                                     !.generation = m.generation]
                  ELSE panel
             [] m.kind \in {"disconnected", "changed"} -> NoOrigins("stale")
  BY DEF PanelReceives
<1>2. /\ port \in Seq(Messages) /\ Len(port) \in Nat /\ Len(port) <= MaxChannel
      /\ MaxChannel \in Nat
      /\ panel \in Panel /\ (panel.state = "ready" => panel.inspect \in Inspect)
      /\ panel.inspect # None =>
             panel.state = IF panel.generation = 0 THEN "pending" ELSE "ready"
  BY PortParts DEF OInv, Channels, Browser
<1>3. /\ m \in Messages /\ Tail(port) \in Seq(Messages)
      /\ Len(Tail(port)) = Len(port) - 1 /\ m = port[1] /\ 1 \in 1..Len(port)
  BY <1>1, <1>2, HeadTailProperties, EmptySeq
<1> HIDE DEF m
<1>4. \/ m \in SourcesMessage /\ m.kind = "sources"
      \/ /\ m.kind = "started" /\ m.inspect \in Inspect /\ m.generation = 0
         /\ m.linked = FALSE
      \/ m.kind \in {"disconnected", "changed"}
  BY <1>3 DEF Messages, SourcesMessage, PortMessage
<1>5. /\ 0 \in 0..MaxGeneration /\ Generation \subseteq 0..MaxGeneration
      /\ 0 \notin Generation /\ None \notin Inspect
  BY RuleOriginsAssumption DEF Generation, Inspect
<1>6. /\ panel' \in Panel /\ (panel'.state = "ready" => panel'.inspect \in Inspect)
      /\ panel'.inspect # None =>
             panel'.state = IF panel'.generation = 0 THEN "pending" ELSE "ready"
      /\ Origins(panel') = Shown(panel, port, 1)
  <2>1. CASE m.kind = "started"
    <3>1. panel' = [state |-> "pending", inspect |-> m.inspect, generation |-> 0,
                    linked |-> FALSE]
      BY <1>1, <2>1 DEF NoOrigins
    <3>2. m.inspect \in Inspect /\ m.generation = 0 /\ m.linked = FALSE
      BY <1>4, <2>1
    <3>3. /\ panel' \in Panel /\ panel'.state = "pending"
          /\ panel'.inspect = m.inspect /\ panel'.generation = 0
          /\ panel'.linked = FALSE
      BY <1>5, <3>1, <3>2 DEF Panel
    <3>4. Shown(panel, port, 1) = Origins(m)
      BY <1>3, <2>1 DEF Shown
    <3>5. Origins(panel') = Origins(m)
      BY <3>2, <3>3 DEF Origins
    <3> QED BY <3>3, <3>4, <3>5
  <2>2. CASE m.kind = "sources"
    <3>0. Accepts(m)
      <4>1. Shown(panel, port, 0) = Origins(panel) /\ 1 - 1 = 0
        BY DEF Shown
      <4>2. Follows(Origins(panel), m)
        BY <1>3, <2>2, <4>1 DEF CInv, Chained
      <4> QED BY <4>2 DEF Accepts, Follows, Origins
    <3>1. panel' = [panel EXCEPT !.state = "ready", !.linked = m.linked,
                                 !.generation = m.generation]
      BY <1>1, <2>2, <3>0
    <3>2. /\ m.inspect \in Inspect /\ m.generation \in 0..MaxGeneration
          /\ m.generation # 0
          /\ m.linked \in BOOLEAN /\ m.inspect = panel.inspect
      BY <1>4, <1>5, <2>2, <3>0 DEF Accepts, SourcesMessage
    <3>3. /\ panel' \in Panel /\ panel'.inspect = panel.inspect
          /\ panel'.generation = m.generation /\ panel'.linked = m.linked
          /\ panel'.state = "ready"
      BY <1>2, <3>1, <3>2 DEF Panel
    <3>4. Origins(panel') = Shown(panel, port, 1)
      BY <1>3, <2>2, <3>2, <3>3 DEF Origins, Shown
    <3> QED BY <3>2, <3>3, <3>4
  <2>3. CASE m.kind \in {"disconnected", "changed"}
    <3>1. panel' = [state |-> "stale", inspect |-> None, generation |-> 0,
                    linked |-> FALSE]
      BY <1>1, <2>3 DEF NoOrigins
    <3>2. Shown(panel, port, 1) = Nowhere
      BY <1>3, <2>3 DEF Shown
    <3>3. /\ panel' \in Panel /\ panel'.state = "stale" /\ panel'.inspect = None
          /\ panel'.generation = 0 /\ panel'.linked = FALSE
      BY <1>5, <3>1 DEF Panel
    <3>4. Origins(panel') = Nowhere
      BY <3>3 DEF Origins, Nowhere
    <3> QED BY <3>2, <3>3, <3>4
  <2> QED BY <1>4, <2>1, <2>2, <2>3
<1>7. CInv'
  <2>1. Chained(panel', Tail(port), router)
    BY <1>1, <1>2, <1>6, ChainedByReceiving DEF CInv
  <2> QED BY <1>1, <2>1 DEF CInv
<1>8. port' \in Seq(Messages) /\ Len(port') <= MaxChannel
  BY <1>1, <1>2, <1>3
<1>9. OInv'
  BY <1>1, <1>6, <1>8 DEF OInv, Channels, Browser, FileOK, Messages
<1> QED BY <1>7, <1>9

LEMMA ClickKeeps == OInv /\ CInv /\ Click => OInv' /\ CInv'
<1> SUFFICES ASSUME OInv, CInv, Click PROVE OInv' /\ CInv'
  OBVIOUS
<1>1. /\ panel.state = "ready"
      /\ clicked' = [inspect |-> panel.inspect, generation |-> panel.generation]
      /\ UNCHANGED <<file, ide, toIde, toPage, router, port, panel, asked>>
  BY DEF Click
<1>2. panel.inspect \in Inspect /\ panel.generation \in 0..MaxGeneration
  BY <1>1 DEF OInv, Browser, Panel
<1>3. Browser'
  BY <1>1, <1>2 DEF OInv, Browser
<1> QED BY <1>1, <1>3 DEF OInv, CInv, Channels, FileOK

LEMMA IdeLeavesThePort == IdeActions /\ OInv => UNCHANGED <<router, port, panel>>
BY DEF IdeActions, AcceptInspect, Publish, PrepareFails, Disconnect, Reconnect,
       FileChanges, FileNoticed, Refresh, AcceptOpen, ReadBefore, Show, ReadAfter,
       Reveal, OpenFails, Read, Continue, IdeStep

\* The agreement holds, and what the panel shows is on its way to what the
\* router knows.
THEOREM OriginsInvariance == Spec => [](OInv /\ CInv)
<1>1. Init => OInv /\ CInv
  <2> SUFFICES ASSUME Init PROVE OInv /\ CInv
    OBVIOUS
  <2>1. 0 \in 0..MaxGeneration /\ 0 \in 0..MaxInspect /\ 0 \in 0..MaxRefresh
        /\ 0 \in Version /\ MaxChannel \in Nat
    BY RuleOriginsAssumption DEF Version
  <2>2. Channels
    BY <2>1, EmptySeq DEF Init, Channels
  <2>3. Browser
    BY <2>1 DEF Init, Browser, Router, Panel, NoOrigins
  <2>4. FileOK
    BY <2>1 DEF Init, FileOK
  <2>5. Standing(ide) /\ Watched(ide, file)
    BY <2>1 DEF Init, Standing, Watched, Ide
  <2>6. CInv
    BY EmptySeq DEF Init, CInv, Chained, Shown, Origins, NoOrigins
  <2> QED BY <2>2, <2>3, <2>4, <2>5, <2>6 DEF OInv
<1>2. ASSUME OInv, CInv, [Next]_vars PROVE OInv' /\ CInv'
  <2>1. CASE IdeActions
    BY <1>2, <2>1, IdeActionsKeep, IdeLeavesThePort DEF CInv
  <2>2. CASE UNCHANGED vars
    BY <1>2, <2>2 DEF vars, OInv, CInv, Channels, Browser, FileOK
  <2>3. CASE \/ InspectElement \/ ReceiveRulesSources \/ PublishRulesOpen
             \/ PanelReceives \/ Click
    BY <1>2, <2>3, InspectElementKeeps, ReceiveRulesSourcesKeeps,
       PublishRulesOpenKeeps, PanelReceivesKeeps, ClickKeeps
  <2>4. CASE Endings \/ DropPublication \/ PeerLeaves \/ PeerReturns
    BY <1>2, <2>4, EndingsKeep, SilentKeeps
  <2> QED BY <1>2, <2>1, <2>2, <2>3, <2>4 DEF Next, IdeActions, Endings
<1> QED BY <1>1, <1>2, PTL DEF Spec

-----------------------------------------------------------------------------
\* ClientMatchesRegistry: the client lets through the links of the publication
\* the registry has in force, and of no other inspect.
THEOREM ClientFollowsRegistry == Spec => []ClientMatchesRegistry
<1>1. OInv => ClientMatchesRegistry
  <2> SUFFICES ASSUME OInv PROVE ClientMatchesRegistry
    OBVIOUS
  <2>1. ASSUME NEW S, NEW c \in Seq(S), Len(c) <= MaxChannel,
               \A m \in S : m.kind \in {"inspect", "open", "sources", "gone",
                                "back", "started", "disconnected", "changed"}
        PROVE  Bounded(c)
    <3>1. Len(c) \in Nat /\ MaxChannel \in Nat
      BY <2>1, LenProperties, RuleOriginsAssumption
    <3>2. \A k \in DOMAIN c : c[k] \in S
      BY <2>1
    <3> QED BY <2>1, <3>1, <3>2 DEF Bounded
  <2>2. Bounded(toIde)
    <3>1. \A m \in InspectMessage : m.kind \in {"inspect", "open"}
      BY DEF InspectMessage
    <3> QED BY <2>1, <3>1 DEF OInv, Channels
  <2>3. Bounded(toPage)
    <3>1. \A m \in SourcesMessage \cup PeerMessage :
             m.kind \in {"sources", "gone", "back"}
      BY DEF SourcesMessage, PeerMessage
    <3> QED BY <2>1, <3>1 DEF OInv, Channels
  <2>4. Bounded(port)
    <3>1. \A m \in SourcesMessage \cup PortMessage :
             m.kind \in {"sources", "started", "disconnected", "changed"}
      BY DEF SourcesMessage, PortMessage
    <3> QED BY <2>1, <3>1 DEF OInv, Channels
  <2>5. TypeOK
    BY <2>2, <2>3, <2>4 DEF TypeOK, OInv, FileOK, Standing, Browser
  <2> QED BY <2>5 DEF ClientMatchesRegistry, OInv, Standing
<1> QED BY <1>1, OriginsInvariance, PTL

\* ForwardedIsShown: what the router would forward is what the panel shows,
\* once the panel has heard everything: no invalidation, publication begun anew
\* or refused send takes the origins off the panel and leaves their authority
\* behind, and whatever the router accepts the panel does.
THEOREM PanelFollowsRouter == Spec => []ForwardedIsShown
<1>1. OInv /\ CInv => ForwardedIsShown
  <2> SUFFICES ASSUME OInv, CInv, port = <<>>, router.inspect # None
               PROVE  panel =
                        [ state |-> IF router.generation = 0 THEN "pending"
                                    ELSE "ready",
                          inspect |-> router.inspect,
                          generation |-> router.generation,
                          linked |-> router.linked ]
    BY DEF ForwardedIsShown
  <2>1. Shown(panel, port, Len(port)) = Origins(panel)
    BY EmptySeq DEF Shown
  <2>2. Origins(panel) = Origins(router)
    BY <2>1 DEF CInv, Chained
  <2>3. /\ panel.inspect = router.inspect
        /\ panel.generation = router.generation
        /\ panel.linked = router.linked
    BY <2>2 DEF Origins
  <2>4. /\ panel \in Panel
        /\ panel.state = IF router.generation = 0 THEN "pending" ELSE "ready"
    BY <2>3 DEF OInv, Browser
  <2> QED BY <2>3, <2>4 DEF Panel
<1> QED BY <1>1, OriginsInvariance, PTL

\* No helper of the controller moves an open from one step to another.
SameStep(i, j) == j.open # None => j.open.step = i.open.step

LEMMA StepsAreKept ==
  ASSUME NEW i \in Ide
  PROVE  /\ SameStep(i, Superseded(i))
         /\ SameStep(i, Invalidated(i))
         /\ SameStep(i, ResolveCurrent(i))
         /\ SameStep(i, ResolveCurrent(Superseded(i)))
<1>1. \A j \in Ide : /\ Superseded(j) \in Ide
                     /\ SameStep(j, Superseded(j))
  <2> SUFFICES ASSUME NEW j \in Ide
               PROVE  Superseded(j) \in Ide /\ SameStep(j, Superseded(j))
    OBVIOUS
  <2>1. Superseded(j).open = IF j.open = None THEN None
                             ELSE [j.open EXCEPT !.current = FALSE]
    BY DEF Superseded, Ide
  <2>2. j.open # None => j.open \in Open
    BY DEF Ide
  <2> QED BY <2>1, <2>2, SupersededStands DEF SameStep, Open
<1>2. \A j \in Ide : SameStep(j, Invalidated(j))
  <2> SUFFICES ASSUME NEW j \in Ide PROVE SameStep(j, Invalidated(j))
    OBVIOUS
  <2>1. Invalidated(j).open = Superseded(j).open
    BY <1>1 DEF Invalidated, Ide
  <2> QED BY <1>1, <2>1 DEF SameStep
<1>3. \A j \in Ide : SameStep(j, ResolveCurrent(j))
  <2> SUFFICES ASSUME NEW j \in Ide PROVE SameStep(j, ResolveCurrent(j))
    OBVIOUS
  <2>1. [j EXCEPT !.active = None, !.resolving = TRUE].open = j.open
    BY DEF Ide
  <2> QED BY <1>2, <2>1 DEF SameStep, ResolveCurrent
<1>4. SameStep(i, ResolveCurrent(Superseded(i)))
  <2> DEFINE u == Superseded(i)
  <2>1. u \in Ide /\ SameStep(i, u)
    BY <1>1
  <2> HIDE DEF u
  <2>2. SameStep(u, ResolveCurrent(u))
    BY <1>3, <2>1
  <2>3. u.open = None => ResolveCurrent(u).open = None
    <3>1. u.open = None => Invalidated(u).open = None
      BY <2>1, SupersededStands DEF Invalidated, Superseded, Ide
    <3>2. [u EXCEPT !.active = None, !.resolving = TRUE].open = u.open
      BY <2>1 DEF Ide
    <3> QED BY <3>1, <3>2 DEF ResolveCurrent
  <2> QED BY <2>1, <2>2, <2>3 DEF SameStep, u
<1> QED BY <1>1, <1>2, <1>3, <1>4

\* Only Reveal reveals.
LEMMA RevealedByReveal ==
  ASSUME OInv, [Next]_vars, ide'.open # None, ide'.open.step = "revealed",
         ide.open.step # "revealed"
  PROVE  Reveal /\ Valid(ide.open)
<1>1. ide \in Ide /\ ~SameStep(ide, ide')
  BY IdeParts DEF SameStep
<1>2. ide' # ide
  BY <1>1 DEF SameStep
<1>3. CASE AcceptInspect
  <2> DEFINE u == Superseded(ide)
             i == [u EXCEPT !.inspect = Head(toIde).inspect, !.generation = 0,
                            !.accepted = FALSE, !.retained = FALSE, !.route = None]
  <2>1. u \in Ide /\ SameStep(ide, u) /\ (ide.open = None => u.open = None)
    BY <1>1, StepsAreKept, SupersededStands DEF Superseded, Ide
  <2>2. Head(toIde).inspect \in Inspect /\ 0 \in 0..MaxGeneration
    BY <1>3, FromBrowserParts, RuleOriginsAssumption
       DEF AcceptInspect, FromBrowser, InspectMessage
  <2>3. ide' = ResolveCurrent(i)
    BY <1>3 DEF AcceptInspect, IdeStep
  <2> HIDE DEF u
  <2>4. i \in Ide /\ i.open = u.open
    BY <2>1, <2>2 DEF Ide
  <2> HIDE DEF i
  <2>5. SameStep(i, ide')
    BY <2>3, <2>4, StepsAreKept
  <2>6. i.open = None => ide'.open = None
    <3>1. i.open = None => Invalidated(i).open = None
      BY <2>4, SupersededStands DEF Invalidated, Superseded, Ide
    <3>2. [i EXCEPT !.active = None, !.resolving = TRUE].open = i.open
      BY <2>4 DEF Ide
    <3> QED BY <2>3, <3>1, <3>2 DEF ResolveCurrent
  <2> QED BY <1>1, <2>1, <2>4, <2>5, <2>6 DEF SameStep
<1>4. CASE Publish
  <2>1. ide'.open = ide.open
    BY <1>1, <1>4 DEF Publish, Ide
  <2> QED BY <1>1, <2>1 DEF SameStep
<1>5. CASE PrepareFails
  <2> DEFINE i == [ide EXCEPT !.generation = @ + 1, !.resolving = FALSE]
  <2>1. i \in Ide /\ i.open = ide.open
    <3>1. ide.generation + 1 \in 0..MaxGeneration
      BY <1>1, <1>5, IdeParts, RuleOriginsAssumption
         DEF PrepareFails, Standing, Ide
    <3> QED BY <1>1, <3>1 DEF Ide
  <2>2. ide' = i \/ ide' = Invalidated(i)
    BY <1>5 DEF PrepareFails, IdeStep
  <2> HIDE DEF i
  <2>3. SameStep(i, Invalidated(i))
    BY <2>1, StepsAreKept
  <2> QED BY <1>1, <2>1, <2>2, <2>3 DEF SameStep
<1>6. CASE Disconnect
  <2>1. ide'.open = Invalidated(ide).open
    BY <1>1, <1>6, IdeParts, InvalidatedStands DEF Disconnect, Standing, Ide
  <2> QED BY <1>1, <2>1, StepsAreKept DEF SameStep
<1>7. CASE Reconnect
  <2>1. ide'.open = ide.open
    BY <1>1, <1>7 DEF Reconnect, Ide
  <2> QED BY <1>1, <2>1 DEF SameStep
<1>8. CASE FileNoticed \/ Refresh
  <2>1. ide' = ResolveCurrent(Superseded(ide))
    BY <1>2, <1>8 DEF FileNoticed, Refresh
  <2> QED BY <1>1, <2>1, StepsAreKept
<1>9. CASE AcceptOpen
  <2>1. CASE ide' = Invalidated(ide)
    BY <1>1, <2>1, StepsAreKept
  <2>2. CASE ide' # Invalidated(ide)
    <3>1. ide' = [ide EXCEPT !.open =
              [ inspect |-> Head(toIde).inspect,
                generation |-> Head(toIde).generation,
                version |-> ide.active.version, seen |-> None,
                current |-> TRUE, step |-> "opening" ]]
      BY <1>2, <1>9, <2>2 DEF AcceptOpen, IdeStep
    <3>2. ide'.open.step = "opening"
      BY <1>1, <3>1 DEF Ide
    <3> QED BY <3>2
  <2> QED BY <2>1, <2>2
<1>10. ASSUME NEW from, NEW to \in {"checked", "rechecked"}, Read(from, to)
       PROVE  FALSE
  <2>1. ide.open \in Open
    BY <1>10, IdeParts DEF Read
  <2>2. ide'.open.step = to
    BY <1>1, <1>10, <2>1 DEF Read, IdeStep, Ide, Open
  <2> QED BY <2>2
<1>11. ide' # Replaced(ide) /\ ide' # [ide EXCEPT !.open = None]
  <2> DEFINE i == [ide EXCEPT !.open = None]
  <2>1. i \in Ide /\ i.open = None
    BY <1>1 DEF Ide
  <2>2. Replaced(ide) = i \/ Replaced(ide) = ResolveCurrent(i)
    BY DEF Replaced
  <2> HIDE DEF i
  <2>3. ResolveCurrent(i).open = None
    <3>1. Invalidated(i).open = None
      BY <2>1, SupersededStands DEF Invalidated, Superseded, Ide
    <3>2. [i EXCEPT !.active = None, !.resolving = TRUE].open = i.open
      BY <2>1 DEF Ide
    <3> QED BY <2>1, <3>1, <3>2 DEF ResolveCurrent
  <2> QED BY <2>1, <2>2, <2>3 DEF i
<1>12. CASE OpenFails
  BY <1>11, <1>12 DEF OpenFails, IdeStep
<1>13. CASE Show
  <2>1. ide' = [ide EXCEPT !.open.step = "showing"] /\ ide.open \in Open
    BY <1>11, <1>13, IdeParts DEF Show, Continue, IdeStep
  <2>2. ide'.open.step = "showing"
    BY <1>1, <2>1 DEF Ide, Open
  <2> QED BY <2>2
<1>14. CASE Reveal
  BY <1>11, <1>14 DEF Reveal, Continue, IdeStep
<1>15. CASE \/ FileChanges \/ BeginPublication \/ InspectElement
            \/ DropPublication \/ SelectionMoves \/ PageChanges
            \/ RefreshRevokes \/ ReceiveRulesSources \/ PeerLeaves
            \/ CleanupEnds \/ PeerReturns \/ PublishRulesOpen
            \/ PanelReceives \/ Click \/ UNCHANGED vars
  BY <1>2, <1>15 DEF FileChanges, BeginPublication, InspectElement,
     DropPublication, SelectionMoves, PageChanges, RefreshRevokes,
     ReceiveRulesSources, PeerLeaves, CleanupEnds, PeerReturns,
     PublishRulesOpen, PanelReceives, Click, RouterStep, vars
<1> QED BY <1>3, <1>4, <1>5, <1>6, <1>7, <1>8, <1>9, <1>10, <1>12, <1>13, <1>14,
           <1>15 DEF Next, ReadBefore, ReadAfter

\* RevealIsCurrent: stale authority cannot reveal a range.  When the IDE
\* reveals a rule, it is in the publication in force for the element inspected
\* last, and the file is as published or its change was not reported yet.
THEOREM RevealsAreCurrent == Spec => RevealIsCurrent
<1> DEFINE Revealed == /\ ide'.open # None /\ ide'.open.step = "revealed"
                       /\ ide.open.step # "revealed"
           Current == /\ ide.inspect = ide.open.inspect
                      /\ ide.active # None
                      /\ ide.active.generation = ide.open.generation
                      /\ \/ file.now = ide.open.version
                         \/ file.noticed # file.now
<1>1. ASSUME OInv, [Next]_vars, Revealed PROVE Current
  <2>1. Reveal /\ Valid(ide.open)
    BY <1>1, RevealedByReveal
  <2>2. /\ ide.open # None /\ ide.open.step = "rechecked" /\ ide.open.current
        /\ ide.open.seen = ide.open.version
        /\ ide.active = [ inspect |-> ide.open.inspect,
                          generation |-> ide.open.generation,
                          version |-> ide.open.version ]
    BY <2>1 DEF Reveal, Continue, Valid
  <2>3. file.now = ide.open.version \/ file.noticed # file.now
    BY <1>1, <2>2, IdeParts DEF Watched
  <2>4. ide.active # None
    <3>1. ide.active \in Publication
      BY <1>1, <2>2, IdeParts DEF Open, Publication
    <3> QED BY <3>1, RuleOriginsAssumption
  <2> QED BY <1>1, <2>2, <2>3, <2>4, IdeParts DEF Standing
<1>2. OInv /\ [Next]_vars => [Revealed => Current]_vars
  BY <1>1
<1> QED BY <1>2, OriginsInvariance, PTL DEF Spec, RevealIsCurrent

-----------------------------------------------------------------------------
\* The panel catches up with the IDE: inspects are numbered as they are made,
\* and what is under way between the IDE and the router keeps their order.

\* The message at k tells of inspect i's sources.
TellsOf(c, k, i) == c[k].kind = "sources" /\ c[k].inspect = i

\* The sources under way to the page, c, are in the order of the inspects;
\* none is of an older inspect than the one held back, or of a newer one than
\* the IDE's.
Rising(c, i, h, n) ==
    /\ i # None => i <= n
    /\ h # None => h <= n /\ (i # None => h <= i)
    /\ \A k \in 1..Len(c) : c[k].kind = "sources" =>
           /\ c[k].inspect <= n
           /\ i # None => c[k].inspect <= i
           /\ h # None => h <= c[k].inspect
           /\ \A l \in 1..(k - 1) :
                  c[l].kind = "sources" => c[l].inspect <= c[k].inspect

\* An inspect under way to the IDE, in q, is newer than all that, and no
\* publication of it has reached the router r.
Ahead(q, c, i, h, n, r) ==
    \A k \in 1..Len(q) : q[k].kind = "inspect" =>
        /\ q[k].inspect <= n
        /\ i # None => i < q[k].inspect
        /\ h # None => h < q[k].inspect
        /\ r.inspect = q[k].inspect => r.generation = 0
        /\ \A l \in 1..Len(c) :
               c[l].kind = "sources" => c[l].inspect < q[k].inspect
        /\ \A l \in 1..(k - 1) :
               q[l].kind = "inspect" => q[l].inspect < q[k].inspect

\* While the router r and the IDE e are at the same inspect, no cleanup is under
\* way and none of its publications was held back: the ones under way are newer
\* than the router's and one newer than the other, the first that arrives is
\* generation 1, and what is in force has arrived or is under way.
Delivers(e, c, r) ==
    /\ r.generation <= e.generation
    /\ ~e.accepted => e.generation = 0
    /\ e.accepted => r.generation > 0 \/ \E k \in 1..Len(c) : TellsOf(c, k, e.inspect)
    /\ e.active # None =>
           \/ r.generation = e.active.generation
           \/ \E k \in 1..Len(c) : /\ TellsOf(c, k, e.inspect)
                                   /\ c[k].generation = e.active.generation
    /\ \A k \in 1..Len(c) : TellsOf(c, k, e.inspect) =>
           /\ r.generation < c[k].generation
           /\ c[k].generation <= e.generation
           /\ \A l \in 1..(k - 1) :
                  TellsOf(c, l, e.inspect) => c[l].generation < c[k].generation
           /\ r.generation = 0 =>
                  \/ c[k].generation = 1
                  \/ \E l \in 1..(k - 1) : TellsOf(c, l, e.inspect)

\* What is in force is of the last generation, and nothing is while a
\* publication is prepared.
Latest(e) ==
    /\ e.resolving => e.active = None
    /\ e.active # None => e.active.generation = e.generation

InStep(e, r, h) == /\ e.inspect # None /\ r.inspect = e.inspect
                   /\ h # e.inspect /\ ~r.cleaning

DInv ==
    /\ Latest(ide)
    /\ Rising(toPage, ide.inspect, asked.held, asked.inspects)
    /\ Ahead(toIde, toPage, ide.inspect, asked.held, asked.inspects, router)
    /\ InStep(ide, router, asked.held) => Delivers(ide, toPage, router)

\* The channel d is what is left of c after its first s messages, or a part
\* of that.
Rest(d, c, s) ==
    /\ Len(d) + s <= Len(c)
    /\ \A k \in 1..Len(d) : d[k] = c[k + s]

LEMMA RestOfTail ==
  ASSUME NEW S, NEW c \in Seq(S), c # <<>>
  PROVE  Rest(Tail(c), c, 1)
BY HeadTailProperties, LenProperties, EmptySeq DEF Rest

LEMMA RestOfSubSeq ==
  ASSUME NEW S, NEW c \in Seq(S), NEW n \in 0..Len(c)
  PROVE  Rest(SubSeq(c, 1, n), c, 0)
<1>1. Len(c) \in Nat /\ n \in Int /\ n <= Len(c)
  BY LenProperties
<1>2. \A k \in 1..n : c[k] \in S
  BY <1>1, ElementOfSeq
<1>3. /\ Len(SubSeq(c, 1, n)) = IF 1 <= n THEN n - 1 + 1 ELSE 0
      /\ \A k \in 1..(n - 1 + 1) : SubSeq(c, 1, n)[k] = c[1 + k - 1]
  BY <1>1, <1>2, SubSeqProperties
<1>4. Len(SubSeq(c, 1, n)) = n
  BY <1>1, <1>3
<1>5. \A k \in 1..n : SubSeq(c, 1, n)[k] = c[k + 0]
  BY <1>1, <1>3
<1> QED BY <1>1, <1>4, <1>5 DEF Rest

\* What is left of the messages to the page keeps their order.
LEMMA RestRises ==
  ASSUME NEW S, NEW c \in Seq(S), NEW d \in Seq(S), NEW s \in Nat, Rest(d, c, s),
         NEW i, NEW h, NEW n, Rising(c, i, h, n)
  PROVE  Rising(d, i, h, n)
<1>1. Len(c) \in Nat /\ Len(d) \in Nat
  BY LenProperties
<1>2. \A k \in 1..Len(d) : k + s \in 1..Len(c) /\ d[k] = c[k + s]
  BY <1>1 DEF Rest
<1>3. ASSUME NEW k \in 1..Len(d), d[k].kind = "sources"
      PROVE  /\ d[k].inspect <= n
             /\ i # None => d[k].inspect <= i
             /\ h # None => h <= d[k].inspect
             /\ \A l \in 1..(k - 1) :
                    d[l].kind = "sources" => d[l].inspect <= d[k].inspect
  <2>1. k + s \in 1..Len(c) /\ d[k] = c[k + s]
    BY <1>2
  <2>2. ASSUME NEW l \in 1..(k - 1), d[l].kind = "sources"
        PROVE  d[l].inspect <= d[k].inspect
    <3>1. l \in 1..Len(d) /\ l + s \in 1..(k + s - 1)
      BY <1>1
    <3>2. d[l] = c[l + s]
      BY <1>2, <3>1
    <3>3. c[k + s].kind = "sources" /\ c[l + s].kind = "sources"
      BY <1>3, <2>1, <2>2, <3>2
    <3>4. c[l + s].inspect <= c[k + s].inspect
      BY <2>1, <3>1, <3>3 DEF Rising
    <3> QED BY <2>1, <3>2, <3>4
  <2> QED BY <1>3, <2>1, <2>2 DEF Rising
<1> QED BY <1>3 DEF Rising

\* What is left of both channels keeps the inspects ahead.
LEMMA RestIsAhead ==
  ASSUME NEW S, NEW c \in Seq(S), NEW d \in Seq(S), NEW s \in Nat, Rest(d, c, s),
         NEW T, NEW q \in Seq(T), NEW p \in Seq(T), NEW t \in Nat, Rest(p, q, t),
         NEW i, NEW h, NEW n, NEW r, Ahead(q, c, i, h, n, r)
  PROVE  Ahead(p, d, i, h, n, r)
<1>1. Len(c) \in Nat /\ Len(d) \in Nat /\ Len(q) \in Nat /\ Len(p) \in Nat
  BY LenProperties
<1>2. \A k \in 1..Len(d) : k + s \in 1..Len(c) /\ d[k] = c[k + s]
  BY <1>1 DEF Rest
<1>3. \A k \in 1..Len(p) : k + t \in 1..Len(q) /\ p[k] = q[k + t]
  BY <1>1 DEF Rest
<1>4. ASSUME NEW k \in 1..Len(p), p[k].kind = "inspect"
      PROVE  /\ p[k].inspect <= n
             /\ i # None => i < p[k].inspect
             /\ h # None => h < p[k].inspect
             /\ r.inspect = p[k].inspect => r.generation = 0
             /\ \A l \in 1..Len(d) :
                    d[l].kind = "sources" => d[l].inspect < p[k].inspect
             /\ \A l \in 1..(k - 1) :
                    p[l].kind = "inspect" => p[l].inspect < p[k].inspect
  <2>1. k + t \in 1..Len(q) /\ p[k] = q[k + t]
    BY <1>3
  <2>2. ASSUME NEW l \in 1..(k - 1), p[l].kind = "inspect"
        PROVE  p[l].inspect < p[k].inspect
    <3>1. l \in 1..Len(p) /\ l + t \in 1..(k + t - 1)
      BY <1>1
    <3>2. p[l] = q[l + t]
      BY <1>3, <3>1
    <3> QED BY <1>4, <2>1, <2>2, <3>1, <3>2 DEF Ahead
  <2>3. \A l \in 1..Len(d) : d[l].kind = "sources" => d[l].inspect < p[k].inspect
    BY <1>2, <1>4, <2>1 DEF Ahead
  <2> QED BY <1>4, <2>1, <2>2, <2>3 DEF Ahead
<1> QED BY <1>4 DEF Ahead

PageMessages == SourcesMessage \cup PeerMessage

LEMMA RisesByAppending ==
  ASSUME NEW S, NEW c \in Seq(S), NEW m \in S, NEW i, NEW h, NEW n,
         Rising(c, i, h, n),
         m.kind = "sources" => i # None /\ m.inspect = i /\ i \in Nat
  PROVE  Rising(Append(c, m), i, h, n)
<1> DEFINE d == Append(c, m)
           z == Len(c)
<1>1. z \in Nat /\ Len(d) = z + 1 /\ d[z + 1] = m /\ \A k \in 1..z : d[k] = c[k]
  BY LenProperties, AppendProperties
<1> HIDE DEF d, z
<1>2. ASSUME NEW k \in 1..z, d[k].kind = "sources"
      PROVE  /\ d[k].inspect <= n
             /\ i # None => d[k].inspect <= i
             /\ h # None => h <= d[k].inspect
             /\ \A l \in 1..(k - 1) :
                    d[l].kind = "sources" => d[l].inspect <= d[k].inspect
  <2>1. d[k] = c[k] /\ \A l \in 1..(k - 1) : l \in 1..z /\ d[l] = c[l]
    BY <1>1
  <2> QED BY <1>2, <2>1 DEF Rising, z
<1>3. ASSUME m.kind = "sources"
      PROVE  /\ m.inspect <= n
             /\ i # None => m.inspect <= i
             /\ h # None => h <= m.inspect
             /\ \A l \in 1..z : d[l].kind = "sources" => d[l].inspect <= m.inspect
  <2>1. m.inspect = i /\ i # None /\ i \in Nat
    BY <1>3
  <2>2. i <= n /\ (h # None => h <= i)
    BY <2>1 DEF Rising
  <2>3. \A l \in 1..z : c[l].kind = "sources" => c[l].inspect <= i
    BY <2>1 DEF Rising, z
  <2> QED BY <1>1, <2>1, <2>2, <2>3
<1>4. ASSUME NEW k \in 1..(z + 1), d[k].kind = "sources"
      PROVE  /\ d[k].inspect <= n
             /\ i # None => d[k].inspect <= i
             /\ h # None => h <= d[k].inspect
             /\ \A l \in 1..(k - 1) :
                    d[l].kind = "sources" => d[l].inspect <= d[k].inspect
  <2>1. CASE k \in 1..z
    BY <1>2, <1>4, <2>1
  <2>2. CASE k = z + 1
    <3>1. d[k] = m /\ k - 1 = z
      BY <1>1, <2>2
    <3> QED BY <1>3, <1>4, <3>1
  <2> QED BY <1>1, <2>1, <2>2
<1> QED BY <1>1, <1>4 DEF Rising, d

LEMMA AheadByAppending ==
  ASSUME NEW S, NEW c \in Seq(S), NEW m \in S, NEW q, NEW i, NEW h, NEW n, NEW r,
         Ahead(q, c, i, h, n, r),
         m.kind = "sources" => i # None /\ m.inspect = i
  PROVE  Ahead(q, Append(c, m), i, h, n, r)
<1> DEFINE d == Append(c, m)
           z == Len(c)
<1>1. z \in Nat /\ Len(d) = z + 1 /\ d[z + 1] = m /\ \A k \in 1..z : d[k] = c[k]
  BY LenProperties, AppendProperties
<1> HIDE DEF d, z
<1>2. ASSUME NEW k \in 1..Len(q), q[k].kind = "inspect",
             NEW l \in 1..(z + 1), d[l].kind = "sources"
      PROVE  d[l].inspect < q[k].inspect
  <2>1. CASE l \in 1..z
    BY <1>1, <1>2, <2>1 DEF Ahead, z
  <2>2. CASE l = z + 1
    BY <1>1, <1>2, <2>2 DEF Ahead
  <2> QED BY <1>1, <2>1, <2>2
<1> QED BY <1>1, <1>2 DEF Ahead, d

LEMMA RisesLater ==
  ASSUME NEW c \in Seq(PageMessages), NEW i \in Inspect \cup {None},
         NEW h \in Inspect \cup {None}, NEW n \in Nat, Rising(c, i, h, n)
  PROVE  Rising(c, i, h, n + 1)
<1>1. \A k \in 1..Len(c) : c[k].kind = "sources" => c[k].inspect \in Nat
  <2> SUFFICES ASSUME NEW k \in 1..Len(c), c[k].kind = "sources"
               PROVE  c[k].inspect \in Nat
    OBVIOUS
  <2>1. c[k] \in PageMessages
    BY ElementOfSeq
  <2> QED BY <2>1 DEF PageMessages, SourcesMessage, PeerMessage, Inspect
<1>2. (i # None => i \in Nat) /\ (h # None => h \in Nat)
  BY DEF Inspect
<1>3. /\ i # None => i <= n + 1
      /\ h # None => h <= n + 1
      /\ \A k \in 1..Len(c) : c[k].kind = "sources" => c[k].inspect <= n + 1
  BY <1>1, <1>2 DEF Rising
<1> QED BY <1>3 DEF Rising

\* Another inspect is sent, newer than all.
LEMMA AheadByInspecting ==
  ASSUME NEW c \in Seq(PageMessages), NEW q \in Seq(InspectMessage),
         NEW m \in InspectMessage, NEW i \in Inspect \cup {None},
         NEW h \in Inspect \cup {None}, NEW n \in Nat, NEW r, NEW u,
         Rising(c, i, h, n), Ahead(q, c, i, h, n, r),
         u.generation = 0, m.inspect = n + 1,
         NEW p, p = q \/ p = Append(q, m)
  PROVE  Ahead(p, c, i, h, n + 1, u)
<1>1. \A k \in 1..Len(c) : c[k].kind = "sources" => c[k].inspect \in Nat
  <2> SUFFICES ASSUME NEW k \in 1..Len(c), c[k].kind = "sources"
               PROVE  c[k].inspect \in Nat
    OBVIOUS
  <2>1. c[k] \in PageMessages
    BY ElementOfSeq
  <2> QED BY <2>1 DEF PageMessages, SourcesMessage, PeerMessage, Inspect
<1>2. \A k \in 1..Len(q) : q[k].inspect \in Nat
  <2> SUFFICES ASSUME NEW k \in 1..Len(q) PROVE q[k].inspect \in Nat
    OBVIOUS
  <2>1. q[k] \in InspectMessage
    BY ElementOfSeq
  <2> QED BY <2>1 DEF InspectMessage, Inspect
<1>3. (i # None => i \in Nat) /\ (h # None => h \in Nat)
  BY DEF Inspect
<1>4. /\ i # None => i < n + 1
      /\ h # None => h < n + 1
      /\ \A k \in 1..Len(c) : c[k].kind = "sources" => c[k].inspect < n + 1
  BY <1>1, <1>3 DEF Rising
<1>5. \A k \in 1..Len(q) : q[k].kind = "inspect" => q[k].inspect < n + 1
  BY <1>2 DEF Ahead
<1>6. \A k \in 1..Len(q) : q[k].kind = "inspect" => q[k].inspect <= n + 1
  BY <1>2, <1>5
<1>7. CASE p = q
  BY <1>6, <1>7 DEF Ahead
<1>8. CASE p = Append(q, m)
  <2> DEFINE z == Len(q)
  <2>1. z \in Nat /\ Len(p) = z + 1 /\ p[z + 1] = m /\ \A k \in 1..z : p[k] = q[k]
    BY <1>8, LenProperties, AppendProperties
  <2> HIDE DEF z
  <2>2. ASSUME NEW k \in 1..(z + 1), p[k].kind = "inspect"
        PROVE  /\ p[k].inspect <= n + 1
               /\ i # None => i < p[k].inspect
               /\ h # None => h < p[k].inspect
               /\ u.inspect = p[k].inspect => u.generation = 0
               /\ \A l \in 1..Len(c) :
                      c[l].kind = "sources" => c[l].inspect < p[k].inspect
               /\ \A l \in 1..(k - 1) :
                      p[l].kind = "inspect" => p[l].inspect < p[k].inspect
    <3>1. CASE k \in 1..z
      <4>1. p[k] = q[k] /\ \A l \in 1..(k - 1) : l \in 1..z /\ p[l] = q[l]
        BY <2>1, <3>1
      <4>2. p[k].inspect <= n + 1
        BY <1>6, <2>2, <3>1, <4>1 DEF z
      <4> QED BY <2>2, <3>1, <4>1, <4>2 DEF Ahead, z
    <3>2. CASE k = z + 1
      <4>1. p[k] = m /\ k - 1 = z /\ p[k].inspect = n + 1
        BY <2>1, <3>2
      <4>2. \A l \in 1..z : p[l].kind = "inspect" => p[l].inspect < n + 1
        BY <1>5, <2>1 DEF z
      <4> QED BY <1>4, <4>1, <4>2
    <3> QED BY <2>1, <3>1, <3>2
  <2> QED BY <2>1, <2>2 DEF Ahead
<1> QED BY <1>7, <1>8

\* An open is sent.
LEMMA AheadByOpening ==
  ASSUME NEW q \in Seq(InspectMessage), NEW m \in InspectMessage,
         m.kind = "open", NEW c, NEW i, NEW h, NEW n, NEW r,
         Ahead(q, c, i, h, n, r)
  PROVE  Ahead(Append(q, m), c, i, h, n, r)
<1> DEFINE p == Append(q, m)
           z == Len(q)
<1>1. z \in Nat /\ Len(p) = z + 1 /\ p[z + 1] = m /\ \A k \in 1..z : p[k] = q[k]
  BY LenProperties, AppendProperties
<1> HIDE DEF p, z
<1>2. ASSUME NEW k \in 1..(z + 1), p[k].kind = "inspect"
      PROVE  /\ k \in 1..z /\ p[k] = q[k]
             /\ \A l \in 1..(k - 1) : l \in 1..z /\ p[l] = q[l]
  <2>1. k # z + 1
    BY <1>1, <1>2
  <2>2. k \in 1..z
    BY <1>1, <2>1
  <2> QED BY <1>1, <2>2
<1> QED BY <1>1, <1>2 DEF Ahead, p, z

-----------------------------------------------------------------------------
\* The steps of the IDE that neither accept an inspect nor publish: the inspect
\* stays or ends, and nothing new is in force.

Settles(i, j) ==
    /\ Latest(i) => Latest(j)
    /\ j.inspect = i.inspect \/ j.inspect = None
    /\ j.inspect # None =>
           /\ j.accepted = i.accepted
           /\ j.generation = i.generation
              \/ (i.accepted /\ j.generation = i.generation + 1)
           /\ j.active = None \/ j.active = i.active

LEMMA HelpersSettle ==
  ASSUME NEW i \in Ide
  PROVE  /\ Settles(i, Superseded(i)) /\ Superseded(i) \in Ide
         /\ Settles(i, Invalidated(i))
         /\ Settles(i, ResolveCurrent(i))
         /\ Settles(i, ResolveCurrent(Superseded(i)))
<1>1. ASSUME NEW j \in Ide
      PROVE  /\ Superseded(j) \in Ide
             /\ Superseded(j).inspect = j.inspect
             /\ Superseded(j).accepted = j.accepted
             /\ Superseded(j).generation = j.generation
             /\ Superseded(j).active = j.active
             /\ Superseded(j).resolving = j.resolving
  <2> DEFINE o == Superseded(j).open
  <2>1. Superseded(j) = [j EXCEPT !.open = o] /\ Superseded(j) \in Ide
    BY SupersededStands
  <2> HIDE DEF o
  <2> QED BY <2>1 DEF Ide
<1>2. ASSUME NEW j \in Ide
      PROVE  Invalidated(j).inspect = None /\ Latest(Invalidated(j))
  BY <1>1 DEF Invalidated, Latest, Ide
<1>3. ASSUME NEW j \in Ide PROVE Settles(j, ResolveCurrent(j))
  <2>1. CASE ResolveCurrent(j) = [j EXCEPT !.active = None, !.resolving = TRUE]
    BY <2>1 DEF Settles, Latest, Ide
  <2>2. Settles(j, j)
    BY DEF Settles
  <2> QED BY <1>2, <2>1, <2>2 DEF ResolveCurrent, Settles
<1>4. Settles(Superseded(i), ResolveCurrent(Superseded(i)))
  BY <1>1, <1>3
<1>5. Settles(i, ResolveCurrent(Superseded(i)))
  BY <1>1, <1>4 DEF Settles, Latest
<1> QED BY <1>1, <1>2, <1>3, <1>5 DEF Settles, Latest

LEMMA OpenSettles ==
  ASSUME NEW i \in Ide, NEW o
  PROVE  /\ Settles(i, [i EXCEPT !.open = o])
         /\ \A j : Settles([i EXCEPT !.open = o], j) => Settles(i, j)
BY DEF Settles, Latest, Ide

LEMMA ReplacedSettles ==
  ASSUME NEW i \in Ide
  PROVE  Settles(i, Replaced(i)) /\ Settles(i, [i EXCEPT !.open = None])
<1> DEFINE u == [i EXCEPT !.open = None]
<1>1. u \in Ide
  BY DEF Ide
<1>2. Settles(u, ResolveCurrent(u))
  BY <1>1, HelpersSettle
<1>3. Settles(i, ResolveCurrent(u)) /\ Settles(i, u)
  BY <1>2, OpenSettles
<1> QED BY <1>3 DEF Replaced

LEMMA QueueParts ==
  ASSUME OInv
  PROVE  /\ toIde \in Seq(InspectMessage) /\ toPage \in Seq(PageMessages)
         /\ Len(toIde) \in Nat /\ Len(toPage) \in Nat
         /\ asked.held \in Inspect \cup {None} /\ asked.inspects \in Nat
         /\ router \in Router
BY LenProperties, RuleOriginsAssumption DEF OInv, Channels, Browser, PageMessages

LEMMA SettlingDelivers ==
  ASSUME OInv, DInv, Settles(ide, ide'), UNCHANGED <<toPage, router, panel>>,
         asked'.held = asked.held, asked'.inspects = asked.inspects,
         toIde' \in Seq(InspectMessage), NEW t \in Nat, Rest(toIde', toIde, t)
  PROVE  DInv'
<1>1. ide'.inspect = ide.inspect \/ ide'.inspect = None
  BY DEF Settles
<1>2. Rising(toPage, ide'.inspect, asked.held, asked.inspects)
  BY <1>1 DEF DInv, Rising
<1>3. Ahead(toIde, toPage, ide'.inspect, asked.held, asked.inspects, router)
  BY <1>1 DEF DInv, Ahead
<1>4. Rest(toPage, toPage, 0)
  BY QueueParts DEF Rest
<1>5. Ahead(toIde', toPage, ide'.inspect, asked.held, asked.inspects, router)
  BY <1>3, <1>4, QueueParts, RestIsAhead
<1>6. ASSUME InStep(ide', router, asked.held) PROVE Delivers(ide', toPage, router)
  <2>1. ide'.inspect = ide.inspect /\ ide'.inspect # None
    BY <1>1, <1>6 DEF InStep
  <2>2. Delivers(ide, toPage, router)
    BY <1>6, <2>1 DEF DInv, InStep
  <2>3. /\ ide'.accepted = ide.accepted
        /\ ide'.generation = ide.generation
           \/ (ide.accepted /\ ide'.generation = ide.generation + 1)
        /\ ide'.active = None \/ ide'.active = ide.active
    BY <2>1 DEF Settles
  <2>4. ide.generation \in Nat /\ router.generation \in Nat
    BY IdeParts, QueueParts, RuleOriginsAssumption DEF Ide, Router
  <2>5. \A k \in 1..Len(toPage) : TellsOf(toPage, k, ide.inspect) =>
            toPage[k].generation \in Nat
    <3> SUFFICES ASSUME NEW k \in 1..Len(toPage), toPage[k].kind = "sources"
                 PROVE  toPage[k].generation \in Nat
      BY DEF TellsOf
    <3>1. toPage[k] \in PageMessages
      BY QueueParts, ElementOfSeq
    <3> QED BY <3>1, RuleOriginsAssumption
            DEF PageMessages, SourcesMessage, PeerMessage, Generation
  <2>6. /\ router.generation <= ide'.generation
        /\ \A k \in 1..Len(toPage) : TellsOf(toPage, k, ide.inspect) =>
               toPage[k].generation <= ide'.generation
        /\ ~ide'.accepted => ide'.generation = 0
    <3>1. /\ router.generation <= ide.generation
          /\ ~ide.accepted => ide.generation = 0
          /\ \A k \in 1..Len(toPage) : TellsOf(toPage, k, ide.inspect) =>
                 toPage[k].generation <= ide.generation
      BY <2>2 DEF Delivers
    <3>2. ide'.generation \in Nat /\ ide.generation <= ide'.generation
      BY <2>3, <2>4
    <3>3. ~ide'.accepted => ide'.generation = 0
      BY <2>3, <3>1
    <3>4. router.generation <= ide'.generation
      BY <2>4, <3>1, <3>2
    <3>5. \A k \in 1..Len(toPage) : TellsOf(toPage, k, ide.inspect) =>
              toPage[k].generation <= ide'.generation
      BY <2>4, <2>5, <3>1, <3>2
    <3> QED BY <3>3, <3>4, <3>5
  <2>7. /\ ide'.accepted => \/ router.generation > 0
                            \/ \E k \in 1..Len(toPage) :
                                   TellsOf(toPage, k, ide.inspect)
        /\ ide'.active # None =>
               \/ router.generation = ide'.active.generation
               \/ \E k \in 1..Len(toPage) :
                      /\ TellsOf(toPage, k, ide.inspect)
                      /\ toPage[k].generation = ide'.active.generation
    BY <2>2, <2>3 DEF Delivers
  <2>8. \A k \in 1..Len(toPage) : TellsOf(toPage, k, ide.inspect) =>
           /\ router.generation < toPage[k].generation
           /\ \A l \in 1..(k - 1) : TellsOf(toPage, l, ide.inspect) =>
                  toPage[l].generation < toPage[k].generation
           /\ router.generation = 0 =>
                  \/ toPage[k].generation = 1
                  \/ \E l \in 1..(k - 1) : TellsOf(toPage, l, ide.inspect)
    BY <2>2 DEF Delivers
  <2> QED BY <2>1, <2>6, <2>7, <2>8 DEF Delivers
<1>7. Latest(ide')
  BY DEF DInv, Settles
<1> QED BY <1>2, <1>5, <1>6, <1>7 DEF DInv

LEMMA StillDelivers ==
  ASSUME OInv, DInv, UNCHANGED <<toIde, toPage, router, panel>>,
         asked'.held = asked.held, asked'.inspects = asked.inspects,
         Settles(ide, ide')
  PROVE  DInv'
<1>1. toIde' = toIde /\ Rest(toIde, toIde, 0) /\ 0 \in Nat
      /\ toIde \in Seq(InspectMessage)
  BY QueueParts DEF Rest
<1>2. toIde' \in Seq(InspectMessage) /\ Rest(toIde', toIde, 0)
  BY <1>1
<1> QED BY <1>1, <1>2, SettlingDelivers

LEMMA RefreshesSettle == OInv /\ DInv /\ (FileChanges \/ FileNoticed \/ Refresh) => DInv'
<1> SUFFICES ASSUME OInv, DInv, FileChanges \/ FileNoticed \/ Refresh PROVE DInv'
  OBVIOUS
<1>1. ide \in Ide
  BY IdeParts
<1>2. Settles(ide, ide)
  BY DEF Settles
<1>3. Settles(ide, ResolveCurrent(Superseded(ide)))
  BY <1>1, HelpersSettle
<1>4. /\ UNCHANGED <<toIde, toPage, router, panel>>
      /\ ide' = ide \/ ide' = ResolveCurrent(Superseded(ide))
  BY DEF FileChanges, FileNoticed, Refresh
<1>5. asked'.held = asked.held /\ asked'.inspects = asked.inspects
  BY DEF FileChanges, FileNoticed, Refresh, OInv, Browser
<1> QED BY <1>2, <1>3, <1>4, <1>5, StillDelivers

LEMMA PrepareFailsDelivers == OInv /\ DInv /\ PrepareFails => DInv'
<1> SUFFICES ASSUME OInv, DInv, PrepareFails PROVE DInv'
  OBVIOUS
<1> DEFINE g == ide.generation + 1
           i == [ide EXCEPT !.generation = g, !.resolving = FALSE]
           j == IF ide.accepted THEN i ELSE Invalidated(i)
<1>1. /\ ide' = j /\ UNCHANGED <<toIde, toPage, router, panel, asked>>
      /\ ide.resolving
  BY DEF PrepareFails, IdeStep
<1>2. ide \in Ide /\ g \in 0..MaxGeneration
  BY <1>1, IdeParts, RuleOriginsAssumption DEF Standing, Ide
<1> HIDE DEF g
<1>3. /\ i \in Ide /\ i.inspect = ide.inspect /\ i.accepted = ide.accepted
      /\ i.active = ide.active /\ i.generation = g /\ i.resolving = FALSE
  BY <1>2 DEF Ide
<1>4. ide.accepted => Settles(ide, i)
  BY <1>1, <1>3 DEF Settles, Latest, g
<1> HIDE DEF i
<1>5. Settles(ide, Invalidated(i))
  <2>1. ASSUME NEW x \in Ide
        PROVE  Invalidated(x).inspect = None /\ Latest(Invalidated(x))
    BY <2>1, HelpersSettle DEF Invalidated, Latest, Ide
  <2> QED BY <1>3, <2>1 DEF Settles
<1>6. Settles(ide, ide')
  BY <1>1, <1>4, <1>5
<1> QED BY <1>1, <1>6, StillDelivers

LEMMA OpensSettle ==
  OInv /\ DInv /\ (ReadBefore \/ Show \/ ReadAfter \/ Reveal \/ OpenFails) => DInv'
<1> SUFFICES ASSUME OInv, DInv,
                    ReadBefore \/ Show \/ ReadAfter \/ Reveal \/ OpenFails
             PROVE DInv'
  OBVIOUS
<1>1. ide \in Ide
  BY IdeParts
<1>2. UNCHANGED <<toIde, toPage, router, panel, asked>>
  BY DEF ReadBefore, Show, ReadAfter, Reveal, OpenFails, Read, Continue, IdeStep
<1>3. ASSUME NEW from, NEW to, Read(from, to) PROVE Settles(ide, ide')
  <2>1. ide' = [ide EXCEPT !.open.seen = file.now, !.open.step = to]
    BY <1>3 DEF Read, IdeStep
  <2> QED BY <1>1, <2>1 DEF Settles, Latest, Ide
<1>4. ASSUME NEW from, NEW to, Continue(from, to) PROVE Settles(ide, ide')
  <2>1. \/ ide' = [ide EXCEPT !.open.step = to]
        \/ ide' = Replaced(ide)
        \/ ide' = [ide EXCEPT !.open = None]
    BY <1>4 DEF Continue, IdeStep
  <2>2. Settles(ide, [ide EXCEPT !.open.step = to])
    BY <1>1 DEF Settles, Latest, Ide
  <2> QED BY <1>1, <2>1, <2>2, ReplacedSettles
<1>5. CASE OpenFails
  <2>1. ide' = Replaced(ide) \/ ide' = [ide EXCEPT !.open = None]
    BY <1>5 DEF OpenFails, IdeStep
  <2>2. Settles(ide, ide')
    BY <1>1, <2>1, ReplacedSettles
  <2> QED BY <1>2, <2>2, StillDelivers
<1>6. CASE ReadBefore \/ ReadAfter
  BY <1>2, <1>3, <1>6, StillDelivers DEF ReadBefore, ReadAfter
<1>7. CASE Show \/ Reveal
  BY <1>2, <1>4, <1>7, StillDelivers DEF Show, Reveal
<1> QED BY <1>5, <1>6, <1>7

LEMMA AcceptOpenDelivers == OInv /\ DInv /\ AcceptOpen => DInv'
<1> SUFFICES ASSUME OInv, DInv, AcceptOpen PROVE DInv'
  OBVIOUS
<1>1. ide \in Ide
  BY IdeParts
<1>2. /\ toIde # <<>> /\ toIde' = Tail(toIde)
      /\ UNCHANGED <<toPage, router, panel, asked>>
  BY DEF AcceptOpen, FromBrowser, IdeStep
<1>3. Rest(toIde', toIde, 1) /\ 1 \in Nat /\ toIde' \in Seq(InspectMessage)
  <2>1. Rest(Tail(toIde), toIde, 1) /\ Tail(toIde) \in Seq(InspectMessage)
    BY <1>2, QueueParts, RestOfTail, HeadTailProperties
  <2> QED BY <1>2, <2>1
<1>4. \/ ide' = ide
      \/ ide' = Invalidated(ide)
      \/ ide' = [ide EXCEPT !.open =
              [ inspect |-> Head(toIde).inspect,
                generation |-> Head(toIde).generation,
                version |-> ide.active.version, seen |-> None,
                current |-> TRUE, step |-> "opening" ]]
  BY DEF AcceptOpen, IdeStep
<1>5. Settles(ide, ide')
  <2>1. Settles(ide, ide)
    BY DEF Settles
  <2> QED BY <1>1, <1>4, <2>1, HelpersSettle, OpenSettles
<1> QED BY <1>2, <1>3, <1>5, SettlingDelivers

\* Messages that are not sources change nothing of what is delivered.
LEMMA DeliversByAppending ==
  ASSUME NEW S, NEW c \in Seq(S), NEW m \in S, m.kind # "sources", NEW e, NEW r,
         Delivers(e, c, r)
  PROVE  Delivers(e, Append(c, m), r)
<1> DEFINE d == Append(c, m)
           z == Len(c)
<1>1. z \in Nat /\ Len(d) = z + 1 /\ d[z + 1] = m /\ \A k \in 1..z : d[k] = c[k]
  BY LenProperties, AppendProperties
<1> HIDE DEF d, z
<1>2. \A k \in 1..z : /\ TellsOf(d, k, e.inspect) <=> TellsOf(c, k, e.inspect)
                      /\ d[k] = c[k] /\ k \in 1..(z + 1)
  BY <1>1 DEF TellsOf
<1>3. \A k \in 1..(z + 1) : TellsOf(d, k, e.inspect) => k \in 1..z
  <2> SUFFICES ASSUME NEW k \in 1..(z + 1), TellsOf(d, k, e.inspect)
               PROVE  k \in 1..z
    OBVIOUS
  <2>1. k # z + 1
    BY <1>1 DEF TellsOf
  <2> QED BY <1>1, <2>1
<1>4. \A k \in 1..z : \A l \in 1..(k - 1) : l \in 1..z
  BY <1>1
<1>5. /\ r.generation <= e.generation
      /\ ~e.accepted => e.generation = 0
      /\ e.accepted => \/ r.generation > 0
                       \/ \E k \in 1..(z + 1) : TellsOf(d, k, e.inspect)
      /\ e.active # None =>
             \/ r.generation = e.active.generation
             \/ \E k \in 1..(z + 1) : /\ TellsOf(d, k, e.inspect)
                                      /\ d[k].generation = e.active.generation
  BY <1>2 DEF Delivers, z
<1>6. ASSUME NEW k \in 1..(z + 1), TellsOf(d, k, e.inspect)
      PROVE  /\ r.generation < d[k].generation
             /\ d[k].generation <= e.generation
             /\ \A l \in 1..(k - 1) :
                    TellsOf(d, l, e.inspect) => d[l].generation < d[k].generation
             /\ r.generation = 0 =>
                    \/ d[k].generation = 1
                    \/ \E l \in 1..(k - 1) : TellsOf(d, l, e.inspect)
  <2>1. k \in 1..z /\ TellsOf(c, k, e.inspect) /\ d[k] = c[k]
    BY <1>2, <1>3, <1>6
  <2>2. \A l \in 1..(k - 1) : /\ d[l] = c[l]
                              /\ TellsOf(d, l, e.inspect) <=> TellsOf(c, l, e.inspect)
    BY <1>2, <1>4, <2>1
  <2>3. /\ r.generation < c[k].generation
        /\ c[k].generation <= e.generation
        /\ \A l \in 1..(k - 1) :
               TellsOf(c, l, e.inspect) => c[l].generation < c[k].generation
        /\ r.generation = 0 =>
               \/ c[k].generation = 1
               \/ \E l \in 1..(k - 1) : TellsOf(c, l, e.inspect)
    BY <2>1 DEF Delivers, z
  <2> QED BY <2>1, <2>2, <2>3
<1> QED BY <1>1, <1>5, <1>6 DEF Delivers, d

LEMMA ReconnectDelivers == OInv /\ DInv /\ Reconnect => DInv'
<1> SUFFICES ASSUME OInv, DInv, Reconnect PROVE DInv'
  OBVIOUS
<1> DEFINE m == Message("back", None, 0, FALSE)
<1>1. /\ ide' = [ide EXCEPT !.connected = TRUE] /\ toPage' = Append(toPage, m)
      /\ UNCHANGED <<toIde, router, panel, asked>>
  BY DEF Reconnect
<1>2. m \in PageMessages /\ m.kind # "sources"
  BY DEF Message, PeerMessage, PageMessages
<1> HIDE DEF m
<1>3. /\ ide'.inspect = ide.inspect /\ ide'.generation = ide.generation
      /\ ide'.accepted = ide.accepted /\ ide'.active = ide.active
      /\ ide'.resolving = ide.resolving
  BY <1>1, IdeParts DEF Ide
<1>4. toPage \in Seq(PageMessages)
  BY QueueParts
<1>5. Rising(Append(toPage, m), ide.inspect, asked.held, asked.inspects)
  BY <1>2, <1>4, RisesByAppending DEF DInv
<1>6. Ahead(toIde, Append(toPage, m), ide.inspect, asked.held, asked.inspects,
            router)
  BY <1>2, <1>4, AheadByAppending DEF DInv
<1>7. ASSUME InStep(ide', router, asked.held)
      PROVE  Delivers(ide', Append(toPage, m), router)
  <2>1. Delivers(ide, toPage, router)
    BY <1>3, <1>7 DEF DInv, InStep
  <2>2. Delivers(ide, Append(toPage, m), router)
    BY <1>2, <1>4, <2>1, DeliversByAppending
  <2> QED BY <1>3, <2>2 DEF Delivers
<1>8. Latest(ide')
  BY <1>3 DEF DInv, Latest
<1> QED BY <1>1, <1>3, <1>5, <1>6, <1>7, <1>8 DEF DInv

LEMMA DisconnectDelivers == OInv /\ DInv /\ Disconnect => DInv'
<1> SUFFICES ASSUME OInv, DInv, Disconnect PROVE DInv'
  OBVIOUS
<1> DEFINE v == Invalidated(ide)
           m == Message("gone", None, 0, FALSE)
<1>1. PICK n \in 0..Len(toPage) : toPage' = Append(SubSeq(toPage, 1, n), m)
  BY DEF Disconnect
<1>2. /\ ide' = [v EXCEPT !.connected = FALSE, !.route = None]
      /\ toIde' = <<>> /\ UNCHANGED <<router, panel, asked>>
  BY DEF Disconnect
<1>3. v \in Ide /\ v.inspect = None /\ v.active = None
  BY IdeParts, InvalidatedStands DEF Standing
<1> HIDE DEF v
<1>4. ide'.inspect = None /\ Latest(ide')
  BY <1>2, <1>3 DEF Ide, Latest
<1>5. m \in PageMessages /\ m.kind # "sources"
  BY DEF Message, PeerMessage, PageMessages
<1> DEFINE c == SubSeq(toPage, 1, n)
<1>6. c \in Seq(PageMessages) /\ Rest(c, toPage, 0) /\ 0 \in Nat
  <2>1. \A k \in 1..n : toPage[k] \in PageMessages
    BY QueueParts, ElementOfSeq
  <2> QED BY <2>1, QueueParts, RestOfSubSeq, SubSeqProperties
<1> HIDE DEF c, m
<1>7. Rising(c, None, asked.held, asked.inspects)
  <2>1. Rising(c, ide.inspect, asked.held, asked.inspects)
    BY <1>6, QueueParts, RestRises DEF DInv
  <2> QED BY <2>1 DEF Rising
<1>8. Rising(Append(c, m), None, asked.held, asked.inspects)
  BY <1>5, <1>6, <1>7, RisesByAppending
<1>9. Ahead(toIde', toPage', ide'.inspect, asked'.held, asked'.inspects, router')
  BY <1>2, EmptySeq DEF Ahead
<1> QED BY <1>1, <1>2, <1>4, <1>8, <1>9 DEF DInv, InStep, c

LEMMA NumbersParts ==
  ASSUME OInv
  PROVE  /\ \A k \in 1..Len(toPage) : toPage[k].kind = "sources" =>
                /\ toPage[k].inspect \in Nat /\ toPage[k].generation \in Nat
                /\ toPage[k].generation > 0
         /\ \A k \in 1..Len(toIde) : toIde[k].inspect \in Nat
         /\ \A h \in Inspect \cup {None} : h # None => h \in Nat
<1>1. ASSUME NEW k \in 1..Len(toPage), toPage[k].kind = "sources"
      PROVE  /\ toPage[k].inspect \in Nat /\ toPage[k].generation \in Nat
             /\ toPage[k].generation > 0
  <2>1. toPage[k] \in PageMessages
    BY QueueParts, ElementOfSeq
  <2>2. toPage[k] \in SourcesMessage
    BY <1>1, <2>1 DEF PageMessages, PeerMessage
  <2> QED BY <2>2, RuleOriginsAssumption DEF SourcesMessage, Inspect, Generation
<1>2. ASSUME NEW k \in 1..Len(toIde) PROVE toIde[k].inspect \in Nat
  <2>1. toIde[k] \in InspectMessage
    BY QueueParts, ElementOfSeq
  <2> QED BY <2>1, RuleOriginsAssumption DEF InspectMessage, Inspect
<1> QED BY <1>1, <1>2, RuleOriginsAssumption DEF Inspect

\* A new inspect: none of its sources is under way, and the router, if it is at
\* the same inspect, has heard of none.
LEMMA AcceptInspectDelivers == OInv /\ DInv /\ AcceptInspect => DInv'
<1> SUFFICES ASSUME OInv, DInv, AcceptInspect PROVE DInv'
  OBVIOUS
<1> DEFINE m == Head(toIde)
           s == Superseded(ide)
           i == [s EXCEPT !.inspect = m.inspect, !.generation = 0,
                          !.accepted = FALSE, !.retained = FALSE, !.route = None]
           h == asked.held
           n == asked.inspects
<1>1. /\ toIde # <<>> /\ m.kind = "inspect" /\ toIde' = Tail(toIde)
      /\ ide' = ResolveCurrent(i)
      /\ UNCHANGED <<toPage, router, panel, asked>>
  BY DEF AcceptInspect, FromBrowser, IdeStep
<1>2. /\ m = toIde[1] /\ 1 \in 1..Len(toIde) /\ m \in InspectMessage
      /\ Tail(toIde) \in Seq(InspectMessage) /\ Rest(Tail(toIde), toIde, 1)
  BY <1>1, QueueParts, HeadTailProperties, EmptySeq, RestOfTail
<1>3. s \in Ide /\ m.inspect \in Inspect /\ 0 \in 0..MaxGeneration
      /\ m.inspect \in Nat
  BY <1>2, IdeParts, HelpersSettle, NumbersParts, RuleOriginsAssumption
     DEF InspectMessage
<1> HIDE DEF s, m
<1>4. /\ i \in Ide /\ i.inspect = m.inspect /\ i.generation = 0
      /\ i.accepted = FALSE
  BY <1>3 DEF Ide
<1> HIDE DEF i
<1>5. \/ ide'.inspect = None
      \/ /\ ide'.inspect = m.inspect /\ ide'.generation = 0
         /\ ide'.accepted = FALSE /\ ide'.active = None
  <2>1. Settles(i, ResolveCurrent(i))
    BY <1>4, HelpersSettle
  <2>2. CASE ide' = Invalidated(i)
    <3>1. ide'.inspect = None
      BY <1>4, <2>2, HelpersSettle DEF Invalidated, Ide
    <3> QED BY <3>1
  <2>3. CASE ide' = [i EXCEPT !.active = None, !.resolving = TRUE]
    BY <1>4, <2>3 DEF Ide
  <2>4. i.inspect # None
    BY <1>3, <1>4, RuleOriginsAssumption
  <2> QED BY <1>1, <2>2, <2>3, <2>4 DEF ResolveCurrent
<1>6. /\ m.inspect <= n /\ (h # None => h < m.inspect)
      /\ router.inspect = m.inspect => router.generation = 0
      /\ \A l \in 1..Len(toPage) :
             toPage[l].kind = "sources" => toPage[l].inspect < m.inspect
  BY <1>1, <1>2 DEF DInv, Ahead
<1>7. Rising(toPage, ide'.inspect, h, n)
  <2>1. Rising(toPage, None, h, n)
    BY DEF DInv, Rising
  <2>2. /\ h # None => h <= m.inspect
        /\ \A l \in 1..Len(toPage) :
               toPage[l].kind = "sources" => toPage[l].inspect <= m.inspect
    BY <1>3, <1>6, QueueParts, NumbersParts
  <2>3. Rising(toPage, m.inspect, h, n)
    BY <1>6, <2>1, <2>2 DEF Rising
  <2> QED BY <1>5, <2>1, <2>3
<1>8. Ahead(Tail(toIde), toPage, ide'.inspect, h, n, router)
  <2>1. Rest(toPage, toPage, 0) /\ 0 \in Nat /\ 1 \in Nat
    BY QueueParts DEF Rest
  <2>2. Ahead(Tail(toIde), toPage, ide.inspect, h, n, router)
    BY <1>2, <2>1, QueueParts, RestIsAhead DEF DInv
  <2>3. \A k \in 1..Len(Tail(toIde)) :
            Tail(toIde)[k].kind = "inspect" => m.inspect < Tail(toIde)[k].inspect
    <3> SUFFICES ASSUME NEW k \in 1..Len(Tail(toIde)),
                        Tail(toIde)[k].kind = "inspect"
                 PROVE  m.inspect < Tail(toIde)[k].inspect
      OBVIOUS
    <3>1. Tail(toIde)[k] = toIde[k + 1] /\ k + 1 \in 1..Len(toIde)
          /\ 1 \in 1..(k + 1 - 1)
      BY <1>2, QueueParts, LenProperties DEF Rest
    <3> QED BY <1>1, <1>2, <3>1 DEF DInv, Ahead
  <2> QED BY <1>5, <2>2, <2>3 DEF Ahead
<1>9. ASSUME InStep(ide', router, h) PROVE Delivers(ide', toPage, router)
  <2>1. /\ ide'.inspect = m.inspect /\ ide'.generation = 0
        /\ ide'.accepted = FALSE /\ ide'.active = None
        /\ router.generation = 0
    BY <1>5, <1>6, <1>9 DEF InStep
  <2>2. \A k \in 1..Len(toPage) : ~TellsOf(toPage, k, m.inspect)
    BY <1>3, <1>6, NumbersParts DEF TellsOf
  <2> QED BY <2>1, <2>2 DEF Delivers
<1>10. Latest(ide')
  <2>1. CASE ide' = Invalidated(i)
    BY <1>4, <2>1, HelpersSettle DEF Invalidated, Latest, Ide
  <2>2. CASE ide' = [i EXCEPT !.active = None, !.resolving = TRUE]
    BY <1>4, <2>2 DEF Latest, Ide
  <2>3. i.inspect # None
    BY <1>3, <1>4, RuleOriginsAssumption
  <2> QED BY <1>1, <2>1, <2>2, <2>3 DEF ResolveCurrent
<1> QED BY <1>1, <1>7, <1>8, <1>9, <1>10 DEF DInv

LEMMA DeliversByPublishing ==
  ASSUME NEW S, NEW c \in Seq(S), NEW m \in S, NEW e, NEW f, NEW r,
         Delivers(e, c, r),
         r.generation \in Nat, e.generation \in Nat,
         \A k \in 1..Len(c) : c[k].kind = "sources" => c[k].generation \in Nat,
         m.kind = "sources", m.inspect = e.inspect,
         m.generation = e.generation + 1, e.accepted \in BOOLEAN,
         f.inspect = e.inspect, f.generation = m.generation,
         f.accepted = TRUE, f.active.generation = m.generation
  PROVE  Delivers(f, Append(c, m), r)
<1> DEFINE d == Append(c, m)
           z == Len(c)
           i == e.inspect
<1>1. z \in Nat /\ Len(d) = z + 1 /\ d[z + 1] = m /\ \A k \in 1..z : d[k] = c[k]
  BY LenProperties, AppendProperties
<1> HIDE DEF d, z
<1>2. \A k \in 1..z : /\ TellsOf(d, k, i) <=> TellsOf(c, k, i)
                      /\ d[k] = c[k]
                      /\ TellsOf(c, k, i) => c[k].generation \in Nat
  BY <1>1 DEF TellsOf, z
<1>3. TellsOf(d, z + 1, i) /\ z + 1 \in 1..(z + 1)
  BY <1>1 DEF TellsOf
<1> HIDE DEF i
<1>4. \A k \in 1..z : TellsOf(c, k, i) =>
          /\ r.generation < c[k].generation
          /\ c[k].generation <= e.generation
          /\ \A l \in 1..(k - 1) :
                 TellsOf(c, l, i) => c[l].generation < c[k].generation
          /\ r.generation = 0 => \/ c[k].generation = 1
                                 \/ \E l \in 1..(k - 1) : TellsOf(c, l, i)
  BY DEF Delivers, i, z
<1>5. /\ r.generation <= e.generation
      /\ ~e.accepted => e.generation = 0
      /\ e.accepted => r.generation > 0 \/ \E k \in 1..z : TellsOf(c, k, i)
  BY DEF Delivers, i, z
<1>6. ASSUME NEW k \in 1..z, TellsOf(d, k, i)
      PROVE  /\ r.generation < d[k].generation
             /\ d[k].generation < m.generation
             /\ \A l \in 1..(k - 1) :
                    TellsOf(d, l, i) => d[l].generation < d[k].generation
             /\ r.generation = 0 => \/ d[k].generation = 1
                                    \/ \E l \in 1..(k - 1) : TellsOf(d, l, i)
  <2>1. \A l \in 1..(k - 1) : l \in 1..z
    BY <1>1
  <2>2. d[k] = c[k] /\ TellsOf(c, k, i) /\ c[k].generation \in Nat
    BY <1>2, <1>6
  <2>3. c[k].generation < m.generation
    BY <1>4, <2>2
  <2>4. \A l \in 1..(k - 1) :
            d[l] = c[l] /\ (TellsOf(d, l, i) <=> TellsOf(c, l, i))
    BY <1>2, <2>1
  <2> QED BY <1>4, <2>2, <2>3, <2>4
<1>7. r.generation < m.generation
  BY <1>5
<1>8. r.generation = 0 => m.generation = 1 \/ \E l \in 1..z : TellsOf(d, l, i)
  <2>1. CASE e.accepted
    BY <1>2, <1>5, <2>1
  <2>2. CASE ~e.accepted
    BY <1>5, <2>2
  <2> QED BY <2>1, <2>2
<1>9. ASSUME NEW k \in 1..(z + 1), TellsOf(d, k, i)
      PROVE  /\ r.generation < d[k].generation
             /\ d[k].generation <= m.generation
             /\ \A l \in 1..(k - 1) :
                    TellsOf(d, l, i) => d[l].generation < d[k].generation
             /\ r.generation = 0 => \/ d[k].generation = 1
                                    \/ \E l \in 1..(k - 1) : TellsOf(d, l, i)
  <2>1. CASE k \in 1..z
    <3>1. d[k].generation \in Nat
      BY <1>2, <1>9, <2>1
    <3>2. d[k].generation <= m.generation
      BY <1>6, <1>9, <2>1, <3>1
    <3> QED BY <1>6, <1>9, <2>1, <3>2
  <2>2. CASE k = z + 1
    <3>1. d[k] = m /\ k - 1 = z /\ m.generation <= m.generation
      BY <1>1, <2>2
    <3>2. \A l \in 1..z : TellsOf(d, l, i) => d[l].generation < m.generation
      BY <1>6
    <3> QED BY <1>7, <1>8, <3>1, <3>2
  <2> QED BY <1>1, <2>1, <2>2
<1>10. \E k \in 1..(z + 1) : TellsOf(d, k, i) /\ d[k].generation = m.generation
  BY <1>1, <1>3
<1>11. r.generation <= m.generation
  BY <1>7
<1> QED BY <1>1, <1>9, <1>10, <1>11 DEF Delivers, d, i

LEMMA PublishDelivers == OInv /\ DInv /\ Publish => DInv'
<1> SUFFICES ASSUME OInv, DInv, Publish PROVE DInv'
  OBVIOUS
<1>1. PICK version \in {file.now, None} :
        /\ ide' = [ide EXCEPT
              !.generation = ide.generation + 1, !.resolving = FALSE,
              !.accepted = TRUE,
              !.active = [ inspect |-> ide.inspect, version |-> version,
                           generation |-> ide.generation + 1 ],
              !.route = [ inspect |-> ide.inspect, version |-> version,
                          generation |-> ide.generation + 1 ],
              !.retained = ide.retained \/ version # None]
        /\ toPage' = Append(toPage, Message("sources", ide.inspect,
                                            ide.generation + 1, version # None))
  BY DEF Publish
<1> DEFINE g == ide.generation + 1
           m == Message("sources", ide.inspect, g, version # None)
           new == [inspect |-> ide.inspect, version |-> version, generation |-> g]
<1>2. /\ ide.resolving /\ UNCHANGED <<toIde, router, panel, asked>>
  BY DEF Publish
<1>3. /\ ide \in Ide /\ ide.inspect \in Inspect /\ ide.inspect # None
      /\ ide.inspect \in Nat
      /\ ide.generation \in Nat /\ router.generation \in Nat
      /\ ide.accepted \in BOOLEAN /\ g \in Generation
  BY <1>2, IdeParts, QueueParts, NumbersParts, RuleOriginsAssumption
     DEF Standing, Ide, Router, Generation
<1>4. /\ m \in PageMessages /\ m.kind = "sources" /\ m.inspect = ide.inspect
      /\ m.generation = g
  <2>1. (version # None) \in BOOLEAN
    OBVIOUS
  <2> HIDE DEF g
  <2> QED BY <1>3, <2>1 DEF Message, SourcesMessage, PageMessages
<1>5. /\ ide'.inspect = ide.inspect /\ ide'.generation = g
      /\ ide'.accepted = TRUE /\ ide'.active.generation = g
      /\ ide'.resolving = FALSE
  <2> DEFINE ret == ide.retained \/ version # None
  <2>1. ide' = [ide EXCEPT !.generation = g, !.resolving = FALSE,
                  !.accepted = TRUE, !.active = new, !.route = new,
                  !.retained = ret]
    BY <1>1
  <2>2. new.generation = g
    OBVIOUS
  <2> HIDE DEF g, new, ret
  <2>3. ide'.inspect = ide.inspect /\ ide'.generation = g /\ ide'.accepted = TRUE
        /\ ide'.active = new /\ ide'.resolving = FALSE
    BY <1>3, <2>1 DEF Ide
  <2> QED BY <2>2, <2>3
<1>6. toPage' = Append(toPage, m) /\ toPage \in Seq(PageMessages) /\ g = ide.generation + 1
  BY <1>1, QueueParts
<1> HIDE DEF g, m, new
<1>7. Rising(toPage', ide.inspect, asked.held, asked.inspects)
  BY <1>3, <1>4, <1>6, RisesByAppending DEF DInv
<1>8. Ahead(toIde, toPage', ide.inspect, asked.held, asked.inspects, router)
  BY <1>3, <1>4, <1>6, AheadByAppending DEF DInv
<1>9. ASSUME InStep(ide', router, asked.held) PROVE Delivers(ide', toPage', router)
  <2>1. Delivers(ide, toPage, router)
    BY <1>5, <1>9 DEF DInv, InStep
  <2>2. \A k \in 1..Len(toPage) : toPage[k].kind = "sources" =>
            toPage[k].generation \in Nat
    BY NumbersParts
  <2> QED BY <1>3, <1>4, <1>5, <1>6, <2>1, <2>2, DeliversByPublishing
<1>10. Latest(ide')
  BY <1>5 DEF Latest
<1> QED BY <1>2, <1>5, <1>7, <1>8, <1>9, <1>10 DEF DInv

-----------------------------------------------------------------------------
\* The steps of the router and the panel.

\* A router that forgets its inspect, or begins one, has heard of none of its
\* publications.
LEMMA AheadOfRouter ==
  ASSUME NEW q, NEW c, NEW i, NEW h, NEW n, NEW r, NEW u,
         Ahead(q, c, i, h, n, r),
         \/ u.generation = 0
         \/ u.inspect = r.inspect /\ u.generation = r.generation
  PROVE  Ahead(q, c, i, h, n, u)
BY DEF Ahead

LEMMA TailOfPage ==
  ASSUME OInv, DInv, toPage # <<>>
  PROVE  /\ Head(toPage) = toPage[1] /\ 1 \in 1..Len(toPage)
         /\ Tail(toPage) \in Seq(PageMessages)
         /\ Len(Tail(toPage)) = Len(toPage) - 1
         /\ \A k \in 1..(Len(toPage) - 1) :
                Tail(toPage)[k] = toPage[k + 1] /\ k + 1 \in 1..Len(toPage)
         /\ Rising(Tail(toPage), ide.inspect, asked.held, asked.inspects)
         /\ Ahead(toIde, Tail(toPage), ide.inspect, asked.held, asked.inspects,
                  router)
<1>1. toPage \in Seq(PageMessages) /\ toIde \in Seq(InspectMessage)
      /\ Len(toPage) \in Nat
  BY QueueParts
<1>2. /\ Head(toPage) = toPage[1] /\ 1 \in 1..Len(toPage)
      /\ Tail(toPage) \in Seq(PageMessages)
      /\ Len(Tail(toPage)) = Len(toPage) - 1
      /\ \A k \in 1..(Len(toPage) - 1) : Tail(toPage)[k] = toPage[k + 1]
  BY <1>1, HeadTailProperties, EmptySeq
<1>3. /\ \A k \in 1..(Len(toPage) - 1) : k + 1 \in 1..Len(toPage)
      /\ Rest(Tail(toPage), toPage, 1) /\ Rest(toIde, toIde, 0)
      /\ 0 \in Nat /\ 1 \in Nat
  BY <1>1, RestOfTail, QueueParts DEF Rest
<1>4. Rising(Tail(toPage), ide.inspect, asked.held, asked.inspects)
  BY <1>1, <1>2, <1>3, RestRises DEF DInv
<1>5. Ahead(toIde, Tail(toPage), ide.inspect, asked.held, asked.inspects, router)
  BY <1>1, <1>2, <1>3, RestIsAhead DEF DInv
<1> QED BY <1>2, <1>3, <1>4, <1>5

\* The router receives a message: it is of another inspect, and what follows is
\* delivered as before; or it is the next publication, and the router has it.
LEMMA DeliversByReceiving ==
  ASSUME NEW S, NEW c \in Seq(S), c # <<>>, NEW e, NEW r, NEW u,
         Delivers(e, c, r), Latest(e), r.generation \in Nat,
         \A k \in 1..Len(c) : c[k].kind = "sources" => c[k].generation \in Nat,
         IF TellsOf(c, 1, e.inspect) THEN u.generation = c[1].generation
         ELSE u.generation = r.generation
  PROVE  Delivers(e, Tail(c), u)
<1> DEFINE d == Tail(c)
           z == Len(c)
           i == e.inspect
<1>1. /\ z \in Nat /\ Len(d) = z - 1 /\ 1 \in 1..z
      /\ \A k \in 1..(z - 1) : d[k] = c[k + 1]
  BY LenProperties, HeadTailProperties, EmptySeq
<1> HIDE DEF d, z
<1>2. \A k \in 1..(z - 1) : /\ TellsOf(d, k, i) <=> TellsOf(c, k + 1, i)
                            /\ k + 1 \in 1..z
  BY <1>1 DEF TellsOf
<1>3. \A k \in 1..z : TellsOf(c, k, i) => c[k].generation \in Nat
  BY DEF TellsOf, z
<1> HIDE DEF i
<1>4. \A k \in 1..z : TellsOf(c, k, i) =>
          /\ r.generation < c[k].generation
          /\ c[k].generation <= e.generation
          /\ \A l \in 1..(k - 1) :
                 TellsOf(c, l, i) => c[l].generation < c[k].generation
          /\ r.generation = 0 => \/ c[k].generation = 1
                                 \/ \E l \in 1..(k - 1) : TellsOf(c, l, i)
  BY DEF Delivers, i, z
<1>5. /\ r.generation <= e.generation
      /\ ~e.accepted => e.generation = 0
      /\ e.accepted => r.generation > 0 \/ \E k \in 1..z : TellsOf(c, k, i)
      /\ e.active # None =>
             \/ r.generation = e.active.generation
             \/ \E k \in 1..z : /\ TellsOf(c, k, i)
                                /\ c[k].generation = e.active.generation
  BY DEF Delivers, i, z
\* A position of c is the head or one of the tail.
<1>6. \A k \in 1..z : k = 1 \/ (k - 1 \in 1..(z - 1) /\ k - 1 + 1 = k)
  BY <1>1
<1>7. CASE TellsOf(c, 1, i)
  <2>1. u.generation = c[1].generation /\ c[1].generation \in Nat
        /\ r.generation < c[1].generation /\ c[1].generation <= e.generation
    BY <1>1, <1>3, <1>4, <1>7 DEF i
  <2>2. u.generation > 0 /\ u.generation # 0
    BY <2>1
  <2>3. ASSUME NEW k \in 1..(z - 1), TellsOf(d, k, i)
        PROVE  /\ u.generation < d[k].generation
               /\ d[k].generation <= e.generation
               /\ \A l \in 1..(k - 1) :
                      TellsOf(d, l, i) => d[l].generation < d[k].generation
    <3>1. TellsOf(c, k + 1, i) /\ k + 1 \in 1..z /\ d[k] = c[k + 1]
          /\ 1 \in 1..(k + 1 - 1)
      BY <1>1, <1>2, <2>3
    <3>2. \A l \in 1..(k - 1) : l \in 1..(z - 1) /\ l + 1 \in 1..(k + 1 - 1)
      BY <1>1
    <3>3. ASSUME NEW l \in 1..(k - 1), TellsOf(d, l, i)
          PROVE  d[l].generation < d[k].generation
      <4>1. d[l] = c[l + 1] /\ TellsOf(c, l + 1, i) /\ l + 1 \in 1..(k + 1 - 1)
        BY <1>1, <1>2, <3>2, <3>3
      <4> QED BY <1>4, <3>1, <4>1
    <3> QED BY <1>4, <1>7, <2>1, <3>1, <3>3
  <2>4. e.active # None =>
             \/ u.generation = e.active.generation
             \/ \E k \in 1..(z - 1) : /\ TellsOf(d, k, i)
                                      /\ d[k].generation = e.active.generation
    <3> SUFFICES ASSUME e.active # None,
                        u.generation # e.active.generation
                 PROVE  \E k \in 1..(z - 1) :
                            /\ TellsOf(d, k, i)
                            /\ d[k].generation = e.active.generation
      OBVIOUS
    <3>1. CASE r.generation = e.active.generation
      <4>1. c[1].generation <= r.generation
        BY <2>1, <3>1 DEF Latest
      <4> QED BY <2>1, <4>1
    <3>2. CASE \E k \in 1..z : /\ TellsOf(c, k, i)
                               /\ c[k].generation = e.active.generation
      <4>1. PICK k \in 1..z : /\ TellsOf(c, k, i)
                              /\ c[k].generation = e.active.generation
        BY <3>2
      <4>2. k # 1
        BY <2>1, <4>1
      <4>3. k - 1 \in 1..(z - 1) /\ k - 1 + 1 = k
        BY <1>6, <4>2
      <4>4. TellsOf(d, k - 1, i) /\ d[k - 1] = c[k]
        BY <1>1, <1>2, <4>1, <4>3
      <4> QED BY <4>1, <4>3, <4>4
    <3> QED BY <1>5, <3>1, <3>2
  <2>5. u.generation <= e.generation
    BY <2>1
  <2> QED BY <1>1, <1>5, <2>2, <2>3, <2>4, <2>5 DEF Delivers, d, i
<1>8. CASE ~TellsOf(c, 1, i)
  <2>1. u.generation = r.generation
    BY <1>8 DEF i
  <2>2. ASSUME NEW k \in 1..z, TellsOf(c, k, i)
        PROVE  k - 1 \in 1..(z - 1) /\ TellsOf(d, k - 1, i) /\ d[k - 1] = c[k]
    <3>1. k # 1
      BY <1>8, <2>2
    <3>2. k - 1 \in 1..(z - 1) /\ k - 1 + 1 = k
      BY <1>6, <3>1
    <3> QED BY <1>1, <1>2, <2>2, <3>2
  <2>3. ASSUME NEW k \in 1..(z - 1), TellsOf(d, k, i)
        PROVE  /\ u.generation < d[k].generation
               /\ d[k].generation <= e.generation
               /\ \A l \in 1..(k - 1) :
                      TellsOf(d, l, i) => d[l].generation < d[k].generation
               /\ u.generation = 0 => \/ d[k].generation = 1
                                      \/ \E l \in 1..(k - 1) : TellsOf(d, l, i)
    <3>1. TellsOf(c, k + 1, i) /\ k + 1 \in 1..z /\ d[k] = c[k + 1]
      BY <1>1, <1>2, <2>3
    <3>2. \A l \in 1..(k - 1) : l \in 1..(z - 1) /\ l + 1 \in 1..(k + 1 - 1)
      BY <1>1
    <3>3. ASSUME NEW l \in 1..(k - 1), TellsOf(d, l, i)
          PROVE  d[l].generation < d[k].generation
      <4>1. d[l] = c[l + 1] /\ TellsOf(c, l + 1, i) /\ l + 1 \in 1..(k + 1 - 1)
        BY <1>1, <1>2, <3>2, <3>3
      <4> QED BY <1>4, <3>1, <4>1
    <3>4. ASSUME u.generation = 0, d[k].generation # 1
          PROVE  \E l \in 1..(k - 1) : TellsOf(d, l, i)
      <4>1. PICK l \in 1..(k + 1 - 1) : TellsOf(c, l, i)
        BY <1>4, <2>1, <3>1, <3>4
      <4>2. l \in 1..z
        BY <1>1, <3>1
      <4>3. l - 1 \in 1..(k - 1) /\ TellsOf(d, l - 1, i)
        BY <2>2, <4>1, <4>2
      <4> QED BY <4>3
    <3> QED BY <1>4, <2>1, <3>1, <3>3, <3>4
  <2>4. /\ e.accepted => u.generation > 0 \/ \E k \in 1..(z - 1) : TellsOf(d, k, i)
        /\ e.active # None =>
               \/ u.generation = e.active.generation
               \/ \E k \in 1..(z - 1) : /\ TellsOf(d, k, i)
                                        /\ d[k].generation = e.active.generation
    BY <1>5, <2>1, <2>2
  <2> QED BY <1>1, <1>5, <2>1, <2>3, <2>4 DEF Delivers, d, i
<1> QED BY <1>7, <1>8

LEMMA InspectElementDelivers == OInv /\ DInv /\ InspectElement => DInv'
<1> SUFFICES ASSUME OInv, DInv, InspectElement PROVE DInv'
  OBVIOUS
<1> DEFINE n == asked.inspects
           q == [Revoked(router) EXCEPT !.inspect = n + 1]
           sent == Message("inspect", n + 1, 0, FALSE)
<1>1. /\ asked.inspects < MaxInspect
      /\ asked' = [asked EXCEPT !.inspects = @ + 1]
      /\ UNCHANGED <<toPage, ide, panel>>
      /\ \/ router' = q
         \/ router' = Revoked(router)
      /\ toIde' = toIde \/ toIde' = Append(toIde, sent)
  BY DEF InspectElement, RouterStep
<1>2. /\ n \in Nat /\ n + 1 \in Inspect /\ n + 1 \in Nat
      /\ asked'.inspects = n + 1 /\ asked'.held = asked.held
  BY <1>1, RuleOriginsAssumption DEF OInv, Browser, Inspect
<1>3. sent \in InspectMessage /\ sent.inspect = n + 1
  BY <1>2, RuleOriginsAssumption DEF Message, InspectMessage
<1>4. /\ router'.generation = 0
      /\ router'.inspect = n + 1 \/ router'.inspect = None
  <2>1. router \in Router
    BY QueueParts
  <2>2. q.inspect = n + 1 /\ q.generation = 0
    BY <1>2, <2>1, UncorrelatedParts
  <2>3. Forgetful(Revoked(router))
    BY <2>1, UncorrelatedParts
  <2> HIDE DEF q
  <2> QED BY <1>1, <2>2, <2>3 DEF Forgetful
<1> HIDE DEF n, q, sent
<1>5. ide.inspect \in Inspect \cup {None}
  BY IdeParts DEF Ide
<1>6. Rising(toPage, ide.inspect, asked.held, n + 1)
  BY <1>2, <1>5, QueueParts, RisesLater DEF DInv, n
<1>7. Ahead(toIde', toPage, ide.inspect, asked.held, n + 1, router')
  BY <1>1, <1>2, <1>3, <1>4, <1>5, QueueParts, AheadByInspecting DEF DInv, n
<1>8. ~InStep(ide, router', asked.held)
  <2>1. ide.inspect # None => ide.inspect \in Nat /\ ide.inspect <= n
    BY <1>5, NumbersParts DEF DInv, Rising, n
  <2>2. n + 1 \in Nat /\ ~(n + 1 <= n)
    BY <1>2
  <2> QED BY <1>4, <2>1, <2>2 DEF InStep
<1> QED BY <1>1, <1>2, <1>6, <1>7, <1>8 DEF DInv

LEMMA ReceiveRulesSourcesDelivers ==
  OInv /\ DInv /\ ReceiveRulesSources => DInv'
<1> SUFFICES ASSUME OInv, DInv, ReceiveRulesSources PROVE DInv'
  OBVIOUS
<1> DEFINE m == Head(toPage)
           u == [router EXCEPT !.generation = m.generation, !.linked = m.linked]
           c == Tail(toPage)
           n == asked.inspects
<1>1. /\ toPage # <<>> /\ m.kind = "sources" /\ toPage' = c
      /\ UNCHANGED <<toIde, ide, panel>>
      /\ \/ Prepared(m) /\ router' = u /\ asked' = asked
         \/ /\ ~(Prepared(m) /\ ~router.cleaning)
            /\ router' = router /\ asked' = asked
         \/ router' = router /\ asked' = [asked EXCEPT !.held = m.inspect]
  BY DEF ReceiveRulesSources, FromIde, RouterStep
<1>2. /\ m = toPage[1] /\ 1 \in 1..Len(toPage)
      /\ c \in Seq(PageMessages) /\ Len(c) = Len(toPage) - 1
      /\ \A k \in 1..(Len(toPage) - 1) :
             c[k] = toPage[k + 1] /\ k + 1 \in 1..Len(toPage)
      /\ Rising(c, ide.inspect, asked.held, n)
      /\ Ahead(toIde, c, ide.inspect, asked.held, n, router)
  BY <1>1, TailOfPage
<1>3. /\ u.inspect = router.inspect /\ u.generation = m.generation
      /\ u.cleaning = router.cleaning /\ router.generation \in Nat
  BY QueueParts, RuleOriginsAssumption DEF Router
<1>4. /\ m.inspect \in Nat /\ m.generation \in Nat /\ m.inspect <= n
      /\ ide.inspect # None => m.inspect <= ide.inspect
      /\ asked.held # None => asked.held <= m.inspect
      /\ \A k \in 1..Len(toIde) :
             toIde[k].kind = "inspect" => m.inspect < toIde[k].inspect
  BY <1>1, <1>2, NumbersParts DEF DInv, Rising, Ahead
<1>5. toPage \in Seq(PageMessages) /\ Len(toPage) \in Nat
  BY QueueParts
<1>6. \A k \in 1..Len(toPage) : toPage[k].kind = "sources" =>
          toPage[k].generation \in Nat
  BY NumbersParts
<1>7. TellsOf(toPage, 1, ide.inspect) <=> m.inspect = ide.inspect
  BY <1>1, <1>2 DEF TellsOf
\* The head is the next publication, if the router and the IDE are in step.
<1>8. InStep(ide, router, asked.held) /\ m.inspect = ide.inspect => Prepared(m)
  <2> SUFFICES ASSUME InStep(ide, router, asked.held), m.inspect = ide.inspect
               PROVE  Prepared(m)
    OBVIOUS
  <2>1. /\ router.generation < m.generation
        /\ router.generation = 0 =>
               \/ m.generation = 1
               \/ \E l \in 1..(1 - 1) : TellsOf(toPage, l, ide.inspect)
    BY <1>2, <1>7 DEF DInv, Delivers
  <2>2. \A l \in 1..(1 - 1) : FALSE
    OBVIOUS
  <2>3. m.inspect = router.inspect
    BY DEF InStep
  <2>4. m.generation > router.generation
    BY <1>3, <1>4, <2>1
  <2> QED BY <2>1, <2>2, <2>3, <2>4 DEF Prepared
<1>9. ASSUME InStep(ide, router, asked.held), NEW x,
             IF m.inspect = ide.inspect THEN x.generation = m.generation
             ELSE x.generation = router.generation
      PROVE  Delivers(ide, c, x)
  <2>1. Delivers(ide, toPage, router) /\ Latest(ide)
    BY <1>9 DEF DInv
  <2>2. IF TellsOf(toPage, 1, ide.inspect)
        THEN x.generation = toPage[1].generation
        ELSE x.generation = router.generation
    BY <1>2, <1>7, <1>9
  <2> QED BY <1>1, <1>3, <1>5, <1>6, <2>1, <2>2, DeliversByReceiving
<1> HIDE DEF c, u, n
<1>10. CASE Prepared(m) /\ router' = u /\ asked' = asked
  <2>1. m.inspect = router.inspect
    BY <1>10 DEF Prepared
  <2>2. Ahead(toIde, c, ide.inspect, asked.held, n, u)
    <3>1. \A k \in 1..Len(toIde) :
              toIde[k].kind = "inspect" => toIde[k].inspect # u.inspect
      BY <1>3, <1>4, <2>1, NumbersParts
    <3> QED BY <1>2, <3>1 DEF Ahead
  <2>3. ASSUME InStep(ide, u, asked.held) PROVE Delivers(ide, c, u)
    <3>1. InStep(ide, router, asked.held) /\ m.inspect = ide.inspect
      BY <1>3, <2>1, <2>3 DEF InStep
    <3> QED BY <1>3, <1>9, <3>1
  <2> QED BY <1>1, <1>2, <1>10, <2>2, <2>3 DEF DInv, n
<1>11. CASE /\ ~(Prepared(m) /\ ~router.cleaning)
            /\ router' = router /\ asked' = asked
  <2>1. ASSUME InStep(ide, router, asked.held) PROVE Delivers(ide, c, router)
    BY <1>8, <1>9, <1>11, <2>1 DEF InStep
  <2> QED BY <1>1, <1>2, <1>11, <2>1 DEF DInv, n
<1>12. CASE router' = router /\ asked' = [asked EXCEPT !.held = m.inspect]
  <2>1. asked'.held = m.inspect /\ asked'.inspects = n
    BY <1>12 DEF OInv, Browser, n
  <2>2. \A k \in 1..Len(c) : c[k].kind = "sources" => m.inspect <= c[k].inspect
    <3> SUFFICES ASSUME NEW k \in 1..Len(c), c[k].kind = "sources"
                 PROVE  m.inspect <= c[k].inspect
      OBVIOUS
    <3>1. c[k] = toPage[k + 1] /\ k + 1 \in 1..Len(toPage) /\ 1 \in 1..(k + 1 - 1)
      BY <1>2, <1>5
    <3> QED BY <1>1, <1>2, <3>1 DEF DInv, Rising
  <2>3. Rising(c, ide.inspect, m.inspect, n)
    BY <1>2, <1>4, <2>2 DEF Rising
  <2>4. Ahead(toIde, c, ide.inspect, m.inspect, n, router)
    BY <1>2, <1>4 DEF Ahead
  <2>5. ASSUME InStep(ide, router, m.inspect) PROVE Delivers(ide, c, router)
    <3>1. m.inspect # ide.inspect
      BY <2>5 DEF InStep
    <3>2. asked.held # ide.inspect
      <4>1. ide.inspect \in Nat /\ ide.inspect # None
        BY <2>5, IdeParts, NumbersParts DEF InStep, Ide
      <4>2. m.inspect <= ide.inspect
        BY <1>4, <4>1
      <4> QED BY <1>4, <3>1, <4>1, <4>2
    <3>3. InStep(ide, router, asked.held)
      BY <2>5, <3>2 DEF InStep
    <3> QED BY <1>9, <3>1, <3>3
  <2> QED BY <1>1, <1>12, <2>1, <2>3, <2>4, <2>5 DEF DInv
<1> QED BY <1>1, <1>10, <1>11, <1>12

LEMMA PeersDeliver == OInv /\ DInv /\ (PeerLeaves \/ PeerReturns) => DInv'
<1> SUFFICES ASSUME OInv, DInv, PeerLeaves \/ PeerReturns PROVE DInv'
  OBVIOUS
<1> DEFINE c == Tail(toPage)
           gone == [router EXCEPT !.peer = FALSE, !.cleaning = TRUE]
           back == [router EXCEPT !.peer = TRUE]
<1>1. /\ toPage # <<>> /\ Head(toPage).kind # "sources" /\ toPage' = c
      /\ UNCHANGED <<toIde, ide, panel, asked>>
      /\ router' = gone \/ router' = back
  BY DEF PeerLeaves, PeerReturns, FromIde, RouterStep
<1>2. /\ Head(toPage) = toPage[1]
      /\ Rising(c, ide.inspect, asked.held, asked.inspects)
      /\ Ahead(toIde, c, ide.inspect, asked.held, asked.inspects, router)
  BY <1>1, TailOfPage
<1>3. /\ gone.inspect = router.inspect /\ gone.generation = router.generation
      /\ gone.cleaning
      /\ back.inspect = router.inspect /\ back.generation = router.generation
      /\ back.cleaning = router.cleaning
      /\ router.generation \in Nat
  BY QueueParts, RuleOriginsAssumption DEF Router
<1> HIDE DEF c, gone, back
<1>4. Ahead(toIde, c, ide.inspect, asked.held, asked.inspects, router')
  BY <1>1, <1>2, <1>3, AheadOfRouter
<1>5. ASSUME InStep(ide, router', asked.held) PROVE Delivers(ide, c, router')
  <2>1. /\ router'.inspect = router.inspect
        /\ router'.generation = router.generation
        /\ ~router.cleaning
    BY <1>1, <1>3, <1>5 DEF InStep
  <2>2. Delivers(ide, toPage, router) /\ Latest(ide)
    BY <1>5, <2>1 DEF DInv, InStep
  <2>3. ~TellsOf(toPage, 1, ide.inspect)
    BY <1>1, <1>2 DEF TellsOf
  <2>4. \A k \in 1..Len(toPage) : toPage[k].kind = "sources" =>
            toPage[k].generation \in Nat
    BY NumbersParts
  <2> QED BY <1>1, <1>3, <2>1, <2>2, <2>3, <2>4, QueueParts, DeliversByReceiving
          DEF c
<1> QED BY <1>1, <1>2, <1>4, <1>5 DEF DInv

LEMMA PublishRulesOpenDelivers == OInv /\ DInv /\ PublishRulesOpen => DInv'
<1> SUFFICES ASSUME OInv, DInv, PublishRulesOpen PROVE DInv'
  OBVIOUS
<1> DEFINE sent == Message("open", clicked.inspect, clicked.generation, FALSE)
<1>1. /\ clicked # None
      /\ UNCHANGED <<toPage, asked, ide, panel>>
      /\ \/ router' = router /\ toIde' = toIde
         \/ router' = router /\ toIde' = Append(toIde, sent)
         \/ router' = Uncorrelated(router) /\ toIde' = toIde
  BY DEF PublishRulesOpen, RouterStep
<1>2. sent \in InspectMessage /\ sent.kind = "open"
  <2>1. clicked \in [inspect : Inspect, generation : 0..MaxGeneration]
    BY <1>1 DEF OInv, Browser
  <2>2. clicked.inspect \in Inspect /\ clicked.generation \in 0..MaxGeneration
    BY <2>1
  <2> QED BY <2>2 DEF Message, InspectMessage
<1> HIDE DEF sent
<1>3. Uncorrelated(router).inspect = None /\ Uncorrelated(router).generation = 0
  BY QueueParts, UncorrelatedParts DEF Forgetful
<1>4. Ahead(toIde, toPage, ide.inspect, asked.held, asked.inspects, router')
  BY <1>1, <1>3, AheadOfRouter DEF DInv
<1>5. Ahead(toIde', toPage, ide.inspect, asked.held, asked.inspects, router')
  BY <1>1, <1>2, <1>4, QueueParts, AheadByOpening
<1>6. InStep(ide, router', asked.held) => router' = router
  BY <1>1, <1>3 DEF InStep
<1> QED BY <1>1, <1>5, <1>6 DEF DInv

LEMMA EndingsDeliver == OInv /\ DInv /\ Endings => DInv'
<1> SUFFICES ASSUME OInv, DInv, Endings PROVE DInv'
  OBVIOUS
<1>1. /\ UNCHANGED <<toIde, toPage, asked, ide>>
      /\ router'.inspect = None /\ router'.generation = 0
  BY EndingsEnd DEF Forgetful, RouterStep
<1>2. Ahead(toIde, toPage, ide.inspect, asked.held, asked.inspects, router')
  BY <1>1, AheadOfRouter DEF DInv
<1>3. ~InStep(ide, router', asked.held)
  BY <1>1 DEF InStep
<1> QED BY <1>1, <1>2, <1>3 DEF DInv

LEMMA PanelsDeliver ==
  OInv /\ DInv /\ (DropPublication \/ PanelReceives \/ Click) => DInv'
<1> SUFFICES ASSUME OInv, DInv, DropPublication \/ PanelReceives \/ Click
             PROVE  DInv'
  OBVIOUS
<1>1. CASE DropPublication
  <2> DEFINE q == [router EXCEPT !.pending = FALSE]
  <2>1. router' = q /\ UNCHANGED <<toIde, toPage, ide, asked>>
    BY <1>1 DEF DropPublication, RouterStep
  <2>2. /\ q.inspect = router.inspect /\ q.generation = router.generation
        /\ q.cleaning = router.cleaning
    BY QueueParts DEF Router
  <2> HIDE DEF q
  <2>3. Ahead(toIde, toPage, ide.inspect, asked.held, asked.inspects, q)
    BY <2>2, AheadOfRouter DEF DInv
  <2>4. InStep(ide, q, asked.held) => Delivers(ide, toPage, q)
    BY <2>2 DEF DInv, InStep, Delivers
  <2> QED BY <2>1, <2>3, <2>4 DEF DInv
<1>2. CASE PanelReceives \/ Click
  BY <1>2 DEF PanelReceives, Click, DInv
<1> QED BY <1>1, <1>2

\* The publications under way bring the router in step.
THEOREM DeliveryInvariance == Spec => []DInv
<1>1. Init => DInv
  <2> SUFFICES ASSUME Init PROVE DInv
    OBVIOUS
  <2>1. /\ ide.inspect = None /\ ide.active = None /\ toIde = <<>> /\ toPage = <<>>
        /\ asked.held = None
    BY DEF Init
  <2> QED BY <2>1, EmptySeq DEF DInv, Latest, Rising, Ahead, InStep
<1>2. ASSUME OInv, DInv, [Next]_vars PROVE DInv'
  <2>1. CASE UNCHANGED vars
    BY <1>2, <2>1 DEF vars, DInv
  <2> QED BY <1>2, <2>1, AcceptInspectDelivers, PublishDelivers,
             PrepareFailsDelivers, DisconnectDelivers, ReconnectDelivers,
             RefreshesSettle, AcceptOpenDelivers, OpensSettle,
             InspectElementDelivers, ReceiveRulesSourcesDelivers, PeersDeliver,
             EndingsDeliver, PublishRulesOpenDelivers, PanelsDeliver
          DEF Next, Endings
<1> QED BY <1>1, <1>2, OriginsInvariance, PTL DEF Spec

\* PanelMatchesIde: while the router correlates what the IDE resolves, and once
\* nothing is under way, the panel shows what the IDE has in force, unless a
\* publication was held back at the gate.
THEOREM PanelFollowsIde == Spec => []PanelMatchesIde
<1>1. OInv /\ CInv /\ DInv => PanelMatchesIde
  <2> SUFFICES ASSUME OInv, CInv, DInv, toPage = <<>>, port = <<>>,
                      ~router.cleaning, router.inspect # None,
                      router.inspect = ide.inspect,
                      asked.held # ide.inspect, ide.active # None
               PROVE  /\ panel.state = "ready"
                      /\ panel.inspect = ide.active.inspect
                      /\ panel.generation = ide.active.generation
    BY DEF PanelMatchesIde
  <2>1. Shown(panel, port, Len(port)) = Origins(panel)
    BY EmptySeq DEF Shown
  <2>2. Origins(panel) = Origins(router)
    BY <2>1 DEF CInv, Chained
  <2>3. panel.inspect = router.inspect /\ panel.generation = router.generation
    BY <2>2 DEF Origins
  <2>4. Delivers(ide, toPage, router)
    BY DEF DInv, InStep
  <2>5. router.generation = ide.active.generation
    BY <2>4, EmptySeq DEF Delivers
  <2>6. ide.active.generation # 0
    <3>1. ide.active \in Publication
      BY IdeParts
    <3> QED BY <3>1, RuleOriginsAssumption DEF Publication, Generation
  <2>7. panel.state = "ready"
    BY <2>3, <2>5, <2>6 DEF OInv, Browser
  <2> QED BY <2>3, <2>5, <2>7, IdeParts DEF Standing
<1> QED BY <1>1, OriginsInvariance, DeliveryInvariance, PTL
=============================================================================
