-------------------------- MODULE WindowConnection --------------------------
(***************************************************************************)
(* The link of one browser window: packages/browser-extension-core/src/    *)
(* windowConnectionCoordinator.ts, the storage of browserWindowLinkStore.ts *)
(* and the states of the socket client in bridgeClient.ts.  Windows share  *)
(* nothing but the code, so one of them is modelled.                       *)
(*                                                                         *)
(* Each callback, and each run of code between two awaits, is one action.  *)
(* Three things are awaited: the cleanup a controlled transition asks for, *)
(* the window's queue of storage operations, and the socket.  What a       *)
(* continuation captured (the record's generation, its own operation       *)
(* token, the client's token) decides whether it still applies.            *)
(*                                                                         *)
(* Generations and client tokens are compared for equality with the        *)
(* record's and never ordered, so every step ends by rebasing them: the    *)
(* current one is 0 and all others are Stale.                              *)
(***************************************************************************)
EXTENDS Integers, FiniteSets, Sequences

CONSTANTS
    Panel,        \* panels that may register for the window
    Tab,          \* tabs that may take part in refreshes
    Link,         \* links (endpoint and credentials) that can be made
    Op,           \* identities of linkWindow, unlinkWindow, removeWindow calls
    MaxAttempts,  \* RECONNECT_MAX_ATTEMPTS, 5 in the code
    MaxQueue,     \* bound on the storage operations queued by new calls
    Faults,       \* sets of AllFaults: one of them may occur in a behaviour
    None          \* undefined

AllFaults == {"storage", "restart", "abort", "send", "protocol"}

ASSUME WindowAssumption ==
    /\ MaxAttempts \in Nat \ {0}
    /\ MaxQueue \in Nat \ {0}
    /\ Faults \subseteq SUBSET AllFaults
    /\ None \notin Link \cup Op \cup Panel

VARIABLES
    open,     \* the browser window exists
    rec,      \* its WindowRecord
    ops,      \* the calls that are waiting for something
    queue,    \* the storage operations, the first of which may be under way
    stored,   \* the link in browser.storage.session
    faults    \* what may go wrong in this behaviour

vars == <<open, rec, ops, queue, stored, faults>>

Stale == -1

States == {"notLinked", "linking", "linked", "reconnecting", "offline",
           "rateLimited", "error", "incompatible"}

ClientStates == {"none", "connecting", "linking", "connected", "disconnected",
                 "error", "incompatible"}

\* The socket client: what it is asked to do, whether a lost connection may be
\* tried again, and whether it still has to hand over new credentials.
Client == [ state : ClientStates, socket : BOOLEAN,
            intent : {"none", "link", "credentials"},
            allowed : BOOLEAN, notify : BOOLEAN ]

NoClient == [ state |-> "none", socket |-> FALSE, intent |-> "none",
              allowed |-> FALSE, notify |-> FALSE ]

Started(intent) ==
    [ state |-> "none", socket |-> TRUE, intent |-> intent,
      allowed |-> intent = "credentials", notify |-> FALSE ]

Pending == [kind : {"code", "credentials"}, link : Link]
NoPending == [kind |-> "none", link |-> None]

Record == [ exists : BOOLEAN, panels : SUBSET Panel, tabs : SUBSET Tab,
            gen : {0}, token : {0}, state : States, client : Client,
            connected : BOOLEAN, authority : BOOLEAN,
            link : Link \cup {None}, pending : Pending \cup {NoPending},
            writing : BOOLEAN, timer : {"none", "live", "stale"},
            attempts : 0..MaxAttempts, op : Op \cup {None},
            mismatch : BOOLEAN ]

NewRecord == [ exists |-> TRUE, panels |-> {}, tabs |-> {}, gen |-> 0,
               token |-> 0, state |-> "notLinked", client |-> NoClient,
               connected |-> FALSE, authority |-> FALSE, link |-> None,
               pending |-> NoPending, writing |-> FALSE, timer |-> "none",
               attempts |-> 0, op |-> None, mismatch |-> FALSE ]

\* No record: removeWindow deletes it, recordFor makes a new one.
Absent == [NewRecord EXCEPT !.exists = FALSE]

\* A call in progress: the panel whose closing aborts it, whether there was a
\* record when it began, and the generation it captured.
Call == [ id : Op, kind : {"link", "unlink", "remove"},
          phase : {"cleanup", "store"}, gen : {0, Stale},
          link : Link \cup {None}, panel : Panel \cup {None},
          known : BOOLEAN ]

StoreOp == [ kind : {"linkRemove", "unlinkRemove", "remove", "load", "save"},
             op : Op \cup {None}, gen : {0, Stale}, token : {0, Stale},
             link : Link \cup {None}, started : BOOLEAN, aborted : BOOLEAN ]

TypeOK ==
    /\ open \in BOOLEAN
    /\ rec \in Record
    /\ ops \subseteq Call
    /\ queue \in Seq(StoreOp)
    /\ stored \in Link \cup {None}
    /\ faults \in Faults

Init ==
    /\ open = TRUE
    /\ rec = Absent
    /\ ops = {}
    /\ queue = <<>>
    /\ stored = None
    /\ faults \in Faults

-----------------------------------------------------------------------------
(* Rebasing, and the queue.                                                *)

Rebase(x, now) == IF x = now THEN 0 ELSE Stale

Become(r, o, q) ==
    /\ rec' = [r EXCEPT !.gen = 0, !.token = 0]
    /\ ops' = { [p EXCEPT !.gen = Rebase(@, r.gen)] : p \in o }
    /\ queue' = [ k \in DOMAIN q |->
                    [q[k] EXCEPT !.gen = Rebase(@, r.gen),
                                 !.token = Rebase(@, r.token)] ]

Entry(kind, op, r, link) ==
    [ kind |-> kind, op |-> op, gen |-> r.gen, token |-> r.token,
      link |-> link, started |-> FALSE, aborted |-> FALSE ]

\* Mutant: operations do not wait for the ones before them.
Enqueue_First(q, entry) == <<entry>> \o q

\* enqueueStore
Enqueue(q, entry) == Append(q, entry)

\* isCurrent: the record is still the window's, and of this generation.
IsCurrent(r, gen) == r.exists /\ gen = r.gen

\* isCurrentLinkPreparation, isCurrentLinkOperation
OwnsRecord(r, p) == IsCurrent(r, p.gen) /\ r.op = p.id

\* cancelLinkPreparation
Cleared(r, id) == IF r.op = id THEN [r EXCEPT !.op = None] ELSE r

\* isCurrentToken
IsCurrentToken(r, gen, token) ==
    IsCurrent(r, gen) /\ token = r.token /\ r.client # NoClient

-----------------------------------------------------------------------------
(* The record's own operations.                                            *)

HasOwner(r) == r.panels # {} \/ r.tabs # {}

HasReplacement(r) ==
    \/ r.state \in {"linked", "linking"}
    \/ r.client # NoClient \/ r.authority
    \/ r.link # None \/ r.pending # NoPending

\* setState: only a linked window has an authority.
SetState(r, s) ==
    [r EXCEPT !.state = s, !.authority = @ /\ s = "linked"]

\* Mutant: the reconnect timer is not cancelled.
Invalidate_KeepTimer(r) ==
    [r EXCEPT !.gen = @ + 1, !.mismatch = FALSE, !.authority = FALSE]

Invalidate(r) ==
    [r EXCEPT !.gen = @ + 1, !.mismatch = FALSE, !.authority = FALSE,
              !.timer = "none"]

\* disconnectClient, and revokeClient, which also revokes the token at the
\* bridge.  A timer of the dropped client does nothing when it fires.
DropClient(r) ==
    [r EXCEPT !.token = @ + 1, !.client = NoClient, !.connected = FALSE,
              !.authority = FALSE, !.mismatch = FALSE,
              !.timer = IF @ = "live" THEN "stale" ELSE @]

\* invalidate and disconnectClient, forgetting the attempt but not the link.
StopAttempt(r, s) ==
    SetState([DropClient(Invalidate(r)) EXCEPT !.pending = NoPending,
                                               !.writing = FALSE,
                                               !.attempts = 0], s)

\* ... and the link too.
Forget(r, s) == [StopAttempt(r, s) EXCEPT !.link = None]

CanSchedule(r) ==
    /\ r.timer = "none"
    /\ r.op = None
    /\ HasOwner(r)
    /\ r.link # None
    /\ r.client # NoClient

\* Mutant: attempts that are not counted.
ScheduleReconnect_Uncounted(r) ==
    IF ~CanSchedule(r) THEN r
    ELSE [SetState(r, "reconnecting") EXCEPT !.timer = "live"]

ScheduleReconnect(r) ==
    IF ~CanSchedule(r) THEN r
    ELSE IF r.attempts >= MaxAttempts THEN StopAttempt(r, "offline")
    ELSE [SetState(r, "reconnecting") EXCEPT !.attempts = @ + 1,
                                             !.timer = "live"]

\* Mutant: a lost connection keeps its authority.
Disconnected_Trusting(r) ==
    LET d == [r EXCEPT !.connected = FALSE]
    IN IF d.pending.kind = "code" THEN StopAttempt(d, "error")
       ELSE IF d.pending.kind = "credentials" /\ d.writing
            THEN SetState(d, "offline")
       ELSE IF HasOwner(d) /\ d.link # None THEN ScheduleReconnect(d)
       ELSE SetState(d, IF d.link # None THEN "offline" ELSE "notLinked")

\* handleClientState, for the events of the current client.
Disconnected(r) ==
    LET d == [r EXCEPT !.connected = FALSE, !.authority = FALSE]
    IN IF d.pending.kind = "code" THEN StopAttempt(d, "error")
       ELSE IF d.pending.kind = "credentials" /\ d.writing
            THEN SetState(d, "offline")
       ELSE IF HasOwner(d) /\ d.link # None THEN ScheduleReconnect(d)
       ELSE SetState(d, IF d.link # None THEN "offline" ELSE "notLinked")

Connected(r) ==
    LET d == [r EXCEPT !.connected = TRUE,
                       !.authority = TRUE,
                       !.attempts = 0,
                       !.timer = "none"]
    IN IF d.link # None /\ ~d.writing THEN SetState(d, "linked") ELSE d

Connecting(r) ==
    LET d == [r EXCEPT !.connected = FALSE, !.authority = FALSE]
    IN IF d.state = "reconnecting" THEN d ELSE SetState(d, "linking")

HandleClientState(r, s) ==
    CASE s \in {"connecting", "linking"} -> Connecting(r)
      [] s = "connected" -> Connected(r)
      [] s = "disconnected" -> Disconnected(r)
      [] s = "error" ->
            SetState([r EXCEPT !.connected = FALSE, !.authority = FALSE], "error")
      [] s = "incompatible" -> [r EXCEPT !.mismatch = TRUE]

\* The client reports a state only when it changes.
ClientState(r, s) ==
    IF r.client.state = s THEN r
    ELSE HandleClientState([r EXCEPT !.client.state = s], s)

OpenClient(r, intent) ==
    ClientState([r EXCEPT !.token = @ + 1, !.client = Started(intent),
                          !.connected = FALSE, !.authority = FALSE],
                "connecting")

\* activateFirstPanel, on the record and the queue.
Activated(r) ==
    CASE r.client # NoClient ->
            IF r.state \in {"linked", "linking", "reconnecting", "incompatible"}
            THEN r ELSE ScheduleReconnect(r)
      [] r.client = NoClient /\ r.pending # NoPending ->
            OpenClient(SetState(r, "linking"),
                       IF r.pending.kind = "code" THEN "link" ELSE "credentials")
      [] r.client = NoClient /\ r.pending = NoPending /\ r.link # None ->
            OpenClient(SetState([r EXCEPT !.gen = @ + 1], "linking"),
                       "credentials")
      [] OTHER -> r

LoadsStoredLink(r) ==
    r.client = NoClient /\ r.pending = NoPending /\ r.link = None
        /\ r.state # "linking"

Activate(r) ==
    IF LoadsStoredLink(r)
    THEN LET n == [r EXCEPT !.gen = @ + 1]
         IN Become(n, ops, Enqueue(queue, Entry("load", None, n, None)))
    ELSE Become(Activated(r), ops, queue)

\* releaseUnownedConnection
Released(r) ==
    LET d == DropClient(Invalidate(r))
    IN IF d.link # None THEN SetState([d EXCEPT !.attempts = 0], "offline")
                        ELSE StopAttempt(r, "notLinked")

RecordFor == IF rec.exists THEN rec ELSE NewRecord

-----------------------------------------------------------------------------
(* Panels and refreshing tabs.                                             *)

Room == Len(queue) < MaxQueue

RegisterPanel(pn) ==
    /\ open /\ Room
    /\ pn \notin rec.panels
    /\ LET r == [RecordFor EXCEPT !.panels = @ \cup {pn}]
       IN IF Cardinality(r.panels) = 1 THEN Activate(r)
                                       ELSE Become(r, ops, queue)
    /\ UNCHANGED <<open, stored, faults>>

AddParticipant(t) ==
    /\ open /\ Room
    /\ t \notin rec.tabs
    /\ LET r == [RecordFor EXCEPT !.tabs = @ \cup {t}]
       IN IF r.panels = {} THEN Activate(r) ELSE Become(r, ops, queue)
    /\ UNCHANGED <<open, stored, faults>>

ReleasedIfUnowned(r) == IF HasOwner(r) THEN r ELSE Released(r)

RemoveParticipant(t) ==
    /\ t \in rec.tabs
    /\ Become(ReleasedIfUnowned([rec EXCEPT !.tabs = @ \ {t}]), ops, queue)
    /\ UNCHANGED <<open, stored, faults>>

\* What the abort of a call does to the record: cancelLinkPreparation while its
\* cleanup is awaited, cancelLinkOperation while its storage operation is.
AbortedRecord(r, p) ==
    IF p.phase = "store" /\ OwnsRecord(r, p)
    THEN Forget([r EXCEPT !.op = None], "notLinked")
    ELSE IF p.phase = "cleanup" THEN Cleared(r, p.id) ELSE r

AbortedQueue(p) ==
    [ k \in DOMAIN queue |-> [queue[k] EXCEPT !.aborted = @ \/ queue[k].op = p.id] ]

\* disposeRegistration.  The router first aborts the panel's own command.
DisposePanel(pn) ==
    /\ pn \in rec.panels
    /\ LET gone(r) == ReleasedIfUnowned([r EXCEPT !.panels = @ \ {pn}])
           own == { p \in ops : p.panel = pn }
       IN IF own = {} THEN Become(gone(rec), ops, queue)
          ELSE \E p \in own :
                 /\ "abort" \in faults
                 /\ Become(gone(AbortedRecord(rec, p)), ops \ {p}, AbortedQueue(p))
    /\ UNCHANGED <<open, stored, faults>>

\* The panel moves to another window: its command is aborted before it goes.
AbortCall(p) ==
    /\ "abort" \in faults
    /\ p \in ops /\ p.panel # None
    /\ Become(AbortedRecord(rec, p), ops \ {p}, AbortedQueue(p))
    /\ UNCHANGED <<open, stored, faults>>

-----------------------------------------------------------------------------
(* linkWindow, unlinkWindow and removeWindow.                              *)

Free(o) ==
    /\ rec.op # o
    /\ \A p \in ops : p.id # o
    /\ \A k \in DOMAIN queue : queue[k].op # o

\* The router lets one panel command at a time run for a window.
NoCommand == \A p \in ops : p.kind = "remove"

NewCall(o, kind, l, pn) ==
    [ id |-> o, kind |-> kind, phase |-> "cleanup",
      gen |-> IF rec.exists THEN rec.gen ELSE Stale,
      link |-> l, panel |-> pn, known |-> rec.exists ]

\* linkWindow once nothing has to be cleaned up: forget the old link, here and
\* at the bridge, and ask for its removal from storage.
BeginStore(p, r, kind, others) ==
    Become(r, others \cup {[p EXCEPT !.phase = "store", !.gen = r.gen]},
           Enqueue(queue, Entry(kind, p.id, r, p.link)))

LinkWindow(o, l, pn) ==
    /\ open /\ Room
    /\ pn \in rec.panels
    /\ NoCommand /\ Free(o)
    /\ LET p == NewCall(o, "link", l, pn)
           r == [rec EXCEPT !.op = o]
       IN IF HasReplacement(rec)
          THEN Become(r, ops \cup {p}, queue)
          ELSE BeginStore(p, Forget(r, "linking"), "linkRemove", ops)
    /\ UNCHANGED <<open, stored, faults>>

UnlinkWindow(o, pn) ==
    /\ open /\ Room
    /\ pn \in rec.panels
    /\ NoCommand /\ Free(o)
    /\ Become([rec EXCEPT !.op = o],
              ops \cup {NewCall(o, "unlink", None, pn)}, queue)
    /\ UNCHANGED <<open, stored, faults>>

\* The window was closed; its panels and tabs go when they get to it.
RemoveWindow(o) ==
    /\ open
    /\ Free(o)
    /\ open' = FALSE
    /\ Become(IF rec.exists THEN [rec EXCEPT !.op = o] ELSE rec,
              ops \cup {NewCall(o, "remove", None, None)}, queue)
    /\ UNCHANGED <<stored, faults>>

\* A call applies after its cleanup only if nothing overtook it.
Proceeds(p) == IF p.known THEN OwnsRecord(rec, p) ELSE ~rec.exists

\* Mutant: a call that was overtaken never returns.
Overtaken_Hangs(p) == Become(Cleared(rec, p.id), ops, queue)

Overtaken(p) == Become(Cleared(rec, p.id), ops \ {p}, queue)

CleanupDone(p) ==
    /\ p \in ops /\ p.phase = "cleanup"
    /\ LET others == ops \ {p} IN
       CASE ~Proceeds(p) -> Overtaken(p)
         [] Proceeds(p) /\ p.kind = "link" ->
              BeginStore(p, Forget(rec, "linking"), "linkRemove", others)
         [] Proceeds(p) /\ p.kind = "unlink" ->
              BeginStore(p, [Forget(rec, "notLinked") EXCEPT !.tabs = {}],
                         "unlinkRemove", others)
         [] Proceeds(p) /\ p.kind = "remove" ->
              BeginStore(p, [Absent EXCEPT !.gen = rec.gen + 1,
                                           !.token = rec.token + 1],
                         "remove", others)
    /\ UNCHANGED <<open, stored, faults>>

-----------------------------------------------------------------------------
(* The queue of storage operations and what awaits each of them.           *)

CallOf(e) == { p \in ops : p.id = e.op /\ p.phase = "store" }

IsOwned(e) == \E p \in CallOf(e) : OwnsRecord(rec, p)

\* The checks an operation makes when its turn comes.
Skipped(e) ==
    \/ e.kind \in {"linkRemove", "unlinkRemove"} /\ e.aborted
    \/ e.kind = "linkRemove" /\ ~IsOwned(e)
    \/ e.kind = "save" /\ ~IsCurrentToken(rec, e.gen, e.token)

StoreStart ==
    /\ queue # <<>> /\ ~Head(queue).started
    /\ LET e == Head(queue) IN
       IF Skipped(e)
       THEN Become(Cleared(rec, e.op), ops \ CallOf(e), Tail(queue))
       ELSE Become(rec, ops, [queue EXCEPT ![1].started = TRUE])
    /\ UNCHANGED <<open, stored, faults>>

Written(e) ==
    CASE e.kind = "save" -> e.link
      [] e.kind = "load" -> stored
      [] OTHER -> None

\* Mutant: a link is restored although the record moved on meanwhile.
AfterLoad_Late(r, e) ==
    IF stored = None \/ ~HasOwner(r) THEN r
    ELSE OpenClient(SetState([r EXCEPT !.link = stored], "linking"), "credentials")

\* loadStoredLink
AfterLoad(r, e) ==
    CASE ~IsCurrent(r, e.gen) \/ ~HasOwner(r) -> r
      [] IsCurrent(r, e.gen) /\ HasOwner(r) /\ stored = None ->
            SetState(r, "notLinked")
      [] IsCurrent(r, e.gen) /\ HasOwner(r) /\ stored # None ->
            OpenClient(SetState([r EXCEPT !.link = stored], "linking"),
                       "credentials")

\* persistCredentials
AfterSave(r, e) ==
    IF ~IsCurrentToken(r, e.gen, e.token) THEN r
    ELSE LET d == [r EXCEPT !.writing = FALSE, !.link = e.link,
                            !.pending = NoPending]
         IN IF d.connected THEN SetState(d, "linked")
            ELSE ScheduleReconnect(d)

\* linkWindow
AfterLinkRemove(r, e) ==
    IF ~IsOwned(e) THEN Cleared(r, e.op)
    ELSE LET d == [r EXCEPT !.op = None,
                            !.pending = [kind |-> "code", link |-> e.link]]
         IN IF HasOwner(d) THEN OpenClient(d, "link") ELSE d

Succeeded(e) ==
    CASE e.kind = "linkRemove" -> AfterLinkRemove(rec, e)
      [] e.kind = "unlinkRemove" -> Cleared(rec, e.op)
      [] e.kind = "load" -> AfterLoad(rec, e)
      [] e.kind = "save" -> AfterSave(rec, e)
      [] e.kind = "remove" -> rec

Failed(e) ==
    CASE e.kind \in {"linkRemove", "unlinkRemove"} ->
            IF IsOwned(e) THEN SetState(Cleared(rec, e.op), "error")
                          ELSE Cleared(rec, e.op)
      [] e.kind \in {"load", "remove"} ->
            IF IsCurrent(rec, e.gen) THEN SetState(rec, "error") ELSE rec
      [] e.kind = "save" ->
            IF IsCurrentToken(rec, e.gen, e.token)
            THEN SetState(DropClient([rec EXCEPT !.writing = FALSE,
                                                 !.pending = NoPending]), "error")
            ELSE rec

\* A removal nobody waits for and whose failure nobody reports.
QuietRemove(r) == [Entry("remove", None, r, None) EXCEPT !.gen = Stale]

StoreSucceeds ==
    /\ queue # <<>> /\ Head(queue).started
    /\ LET e == Head(queue) IN
       /\ stored' = Written(e)
       /\ Become(Succeeded(e), ops \ CallOf(e), Tail(queue))
    /\ UNCHANGED <<open, faults>>

StoreFails ==
    /\ "storage" \in faults
    /\ queue # <<>> /\ Head(queue).started
    /\ LET e == Head(queue)
           q == IF e.kind = "save" /\ IsCurrentToken(rec, e.gen, e.token)
                THEN Enqueue(Tail(queue), QuietRemove(rec))
                ELSE Tail(queue)
       IN Become(Failed(e), ops \ CallOf(e), q)
    /\ UNCHANGED <<open, stored, faults>>

-----------------------------------------------------------------------------
(* The socket of the current client, and the reconnect timer.  The sockets *)
(* of dropped clients are detached and say nothing.                        *)

Settle(r, q) == Become(r, ops, q) /\ UNCHANGED <<open, stored, faults>>

\* onopen; a client with credentials says hello and stays "connecting".
SocketOpens ==
    /\ rec.client.socket /\ rec.client.intent = "link"
    /\ rec.client.state = "connecting"
    /\ Settle(ClientState(rec, "linking"), queue)

LinkAccepted ==
    /\ rec.client.socket /\ rec.client.intent = "link"
    /\ rec.client.state = "linking"
    /\ Settle([rec EXCEPT !.client.intent = "credentials",
                          !.client.allowed = FALSE,
                          !.client.notify = TRUE], queue)

Greeting == /\ rec.client.socket /\ rec.client.intent = "credentials"
            /\ rec.client.state \in {"connecting", "linking"}

\* persistCredentials up to its await, then the state "connected".
Authenticated ==
    /\ Greeting
    /\ LET persists == /\ rec.client.notify /\ ~rec.writing
                       /\ rec.pending.kind = "code"
           r == [rec EXCEPT !.client.allowed = TRUE, !.client.notify = FALSE]
           w == [r EXCEPT !.pending.kind = "credentials", !.writing = TRUE]
       IN IF persists
          THEN Settle(ClientState(w, "connected"),
                      Enqueue(queue, Entry("save", None, w, w.pending.link)))
          ELSE Settle(ClientState(r, "connected"), queue)

\* onerror, and errors of the server that do not end the connection.
SocketError ==
    /\ rec.client.socket /\ rec.client.state # "error"
    /\ Settle(ClientState(rec, "error"), queue)

SocketClosed ==
    /\ rec.client.socket
    /\ Settle(IF rec.client.intent = "link" \/ ~rec.client.allowed
              THEN StopAttempt(rec, "error")
              ELSE ClientState([rec EXCEPT !.client.socket = FALSE],
                               "disconnected"), queue)

\* The bridge knows neither this token nor, perhaps, this instance.
AuthRejected ==
    /\ Greeting
    /\ LET r == Forget(rec, "notLinked")
       IN Settle(r, Enqueue(queue, Entry("remove", None, r, None)))

LinkRejected ==
    /\ rec.client.socket /\ rec.client.intent = "link"
    /\ rec.client.state = "linking"
    /\ \E s \in {"error", "rateLimited"} : Settle(StopAttempt(rec, s), queue)

Silenced(c) == [c EXCEPT !.socket = FALSE, !.intent = "none",
                         !.allowed = FALSE, !.notify = FALSE]

\* stopForProtocolError with a code the coordinator does not act on.
BadMessage ==
    /\ "protocol" \in faults
    /\ rec.client.socket
    /\ Settle(ClientState([rec EXCEPT !.client = Silenced(@)], "error"), queue)

Incompatible ==
    /\ "protocol" \in faults
    /\ rec.client.socket
    /\ Settle(ClientState([rec EXCEPT !.client = Silenced(@)], "incompatible"),
              queue)

\* completeProtocolMismatchTransition
MismatchDone ==
    /\ rec.mismatch
    /\ Settle(SetState([rec EXCEPT !.mismatch = FALSE, !.connected = FALSE],
                       "incompatible"), queue)

\* A send that throws: an inspection or a navigation only reports it, a source
\* or rules request drops the connection.
Sending == rec.state = "linked" /\ rec.connected /\ rec.client # NoClient

PublishFails ==
    /\ "send" \in faults
    /\ Sending
    /\ Settle(SetState(rec, "error"), queue)

TransportFails ==
    /\ "send" \in faults
    /\ Sending /\ rec.authority
    /\ Settle(ClientState([rec EXCEPT !.connected = FALSE, !.authority = FALSE,
                                      !.client = Silenced(@)],
                          "disconnected"), queue)

TimerFires ==
    /\ rec.timer # "none"
    /\ LET r == [rec EXCEPT !.timer = "none"]
       IN Settle(IF rec.timer = "live" /\ rec.link # None
                 THEN ClientState([r EXCEPT !.client =
                                     [Started("credentials")
                                        EXCEPT !.state = rec.client.state]],
                                  "connecting")
                 ELSE r, queue)

\* The browser stops the background worker and starts it again: only what was
\* stored remains, and a storage operation under way may or may not have run.
Restart ==
    /\ "restart" \in faults
    /\ rec' = Absent
    /\ ops' = {}
    /\ queue' = <<>>
    /\ stored' \in {stored} \cup
                   (IF queue # <<>> /\ Head(queue).started
                    THEN {Written(Head(queue))} ELSE {})
    /\ UNCHANGED <<open, faults>>

-----------------------------------------------------------------------------

Window ==
    \/ \E pn \in Panel : RegisterPanel(pn) \/ DisposePanel(pn)
    \/ \E t \in Tab : AddParticipant(t) \/ RemoveParticipant(t)

Commands ==
    \/ \E o \in Op, pn \in Panel :
          UnlinkWindow(o, pn) \/ \E l \in Link : LinkWindow(o, l, pn)
    \/ \E o \in Op : RemoveWindow(o)
    \/ \E p \in ops : AbortCall(p)

Cleanup == (\E p \in ops : CleanupDone(p)) \/ MismatchDone

Storage == StoreStart \/ StoreSucceeds \/ StoreFails

Outcome == \/ Authenticated \/ SocketClosed \/ AuthRejected
           \/ SocketOpens \/ LinkAccepted \/ LinkRejected

Trouble == SocketError \/ BadMessage \/ Incompatible \/ PublishFails
           \/ TransportFails \/ Restart

Next == Window \/ Commands \/ Cleanup \/ Storage \/ Outcome \/ TimerFires
        \/ Trouble

Spec == Init /\ [][Next]_vars

\* Cleanups are bounded by timeouts, storage answers, the timer fires, and a
\* socket that is being opened is answered, refused or closed.
FairSpec ==
    /\ Spec
    /\ \A o \in Op : WF_vars(\E p \in ops : p.id = o /\ CleanupDone(p))
    /\ WF_vars(MismatchDone)
    /\ WF_vars(Storage)
    /\ WF_vars(TimerFires)
    /\ WF_vars(rec.client.state # "connected" /\ Outcome)

-----------------------------------------------------------------------------
(* Properties.                                                             *)

\* The link the record uses is the one in storage: whatever was restored,
\* replaced, rejected or removed meanwhile, no continuation of an older
\* storage operation puts a forgotten link back into the record.
LinkIsStored == TypeOK /\ (rec.link # None => stored = rec.link)

\* Requests of panels go out only over a connection that stands: the authority
\* of a client goes before or with its connection, on every way it can end.
AuthorityIsLive ==
    rec.authority => /\ rec.connected
                     /\ rec.client.state \in {"connected", "incompatible"}

Trying ==
    /\ ops = {} /\ HasOwner(rec) /\ rec.link # None /\ ~rec.mismatch
    /\ rec.state \in {"linked", "linking", "reconnecting"}
    => rec.connected \/ rec.client.socket \/ rec.timer = "live"

\* A window that has a panel or a tab, a link, and shows that it is linked or
\* getting there, is connected, or an attempt or its timer is under way, when
\* no command is aborted: no outdated timer, operation token or callback leaves
\* it waiting for something that nobody does.
KeepsTrying == "abort" \notin faults => Trying

\* The same with commands aborted.  docs/mvp-usage.md: "bridge heartbeat and
\* reconnection preserve the same window-scoped behavior while a panel is
\* active."
AbortedKeepsTrying == Trying

\* While storage works and nothing is aborted, a window with an owner uses the
\* link that is stored for it: no order of disconnecting, linking again, saving
\* and closing panels leaves credentials behind that the record has forgotten.
StoredIsUsed ==
    /\ faults \cap {"storage", "abort"} = {}
    /\ open /\ ops = {} /\ queue = <<>> /\ HasOwner(rec)
    /\ stored # None
    => rec.link = stored

\* Once a closed window has been cleaned up, its credentials are gone.
\* docs/security.md: "Closing the window, ending the browser session, or
\* selecting Disconnect removes the record."
ClosedWindowForgotten ==
    ~open /\ ops = {} /\ queue = <<>> => stored = None

\* linkWindow, unlinkWindow and removeWindow end, whatever overtakes them.
CallsEnd == \A o \in Op : (\E p \in ops : p.id = o) ~> (\A p \in ops : p.id # o)

\* Nothing is under way that would connect the window (KeepsTrying says when
\* that may not happen to a window that shows it is reconnecting).
Idle == ~rec.connected /\ ~rec.client.socket /\ rec.timer # "live"

\* Reconnecting is not for ever: the attempts are counted, and end.
ReconnectingEnds ==
    rec.state = "reconnecting" ~> rec.state # "reconnecting" \/ Idle
=============================================================================
