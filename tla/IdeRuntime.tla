----------------------------- MODULE IdeRuntime -----------------------------
(***************************************************************************)
(* What runs the bridge in VS Code: ExtensionRuntimeController             *)
(* (runtimeController.ts), the BridgeManager it starts and stops           *)
(* (bridgeManager.ts) and the BridgeClient that connects to that bridge as *)
(* the IDE (bridgeClient.ts), wired as in extension.ts.                    *)
(*                                                                         *)
(* The controller runs its operations one after the other (operationTail), *)
(* and nothing else calls the manager: the manager's own coalescing of     *)
(* overlapping calls never comes into play, and a manager operation is a   *)
(* phase of the controller's.  A stretch between two awaits is one action. *)
(***************************************************************************)
EXTENDS Integers, FiniteSets, Sequences

CONSTANTS
    Instance,   \* bridge instance ids
    Ports,      \* managedPortCount, 100 in the code
    MaxQueue,   \* bound on the operations waiting in the controller
    Faults,     \* which of AllFaults the environment may commit
    None        \* no instance, no client

\* "port": a port is taken or refused.  "connect": creating the client throws.
\* "expire": the bridge drops the IDE's token.  "socket": the connection ends,
\* errs or a send fails.  "garbage": a message that cannot be parsed.
AllFaults == {"port", "connect", "expire", "socket", "garbage"}

Client == [ credentials : Instance,
            state : {"disconnected", "connecting", "reconnecting",
                     "connected", "error"},
            socket : {"none", "opening", "open"},
            timer : BOOLEAN,            \* a reconnect is scheduled
            retrying : BOOLEAN,         \* reconnectAttempts > 0
            terminal : BOOLEAN ]        \* terminalFailure, reconnect disabled

ASSUME RuntimeAssumption ==
    /\ None \notin Instance \cup Client
    /\ Ports \in Nat \ {0}
    /\ MaxQueue \in Nat
    /\ Faults \subseteq AllFaults

VARIABLES
    queue,      \* the operations of the controller, the running one first
    phase,      \* what the running operation awaits
    disposed,   \* dispose() was called
    manager,    \* state, bridge instance, credentials and port being tried
    listening,  \* bridge instances whose server is up
    accepted,   \* instances whose IDE token is still accepted
    client,     \* the IDE's BridgeClient, or None
    last        \* observer: the last operation that ended

vars == <<queue, phase, disposed, manager, listening, accepted, client, last>>

Manager == [ state : {"stopped", "starting", "running", "stopping", "error"},
             bridge : Instance \cup {None},
             credentials : Instance \cup {None},
             port : 0..(Ports - 1) ]

TypeOK ==
    /\ queue \in Seq({"start", "stop", "dispose"})
    /\ Len(queue) <= MaxQueue + 1
    /\ phase \in {"idle", "starting", "stopping"}
    /\ disposed \in BOOLEAN
    /\ manager \in Manager
    /\ listening \subseteq Instance
    /\ accepted \subseteq listening
    /\ client \in Client \cup {None}
    /\ last \in {"none", "start", "stop", "dispose"}

Cleared(state) == [ state |-> state, bridge |-> None, credentials |-> None,
                    port |-> 0 ]

Init ==
    /\ queue = <<>> /\ phase = "idle" /\ disposed = FALSE
    /\ manager = Cleared("stopped")
    /\ listening = {} /\ accepted = {}
    /\ client = None
    /\ last = "none"

-----------------------------------------------------------------------------
\* The client's connection, as operators from a client to a client.

\* openSocket
OpenSocket(c) ==
    [c EXCEPT !.state = IF c.retrying THEN "reconnecting" ELSE "connecting",
              !.socket = "opening"]

\* Mutant of HandleClose: nothing is scheduled for a client in error.
HandleClose_NotAfterError(c) ==
    [c EXCEPT !.socket = "none", !.state = "reconnecting",
              !.timer = c.state # "error", !.retrying = TRUE]

\* handleClose of an enabled client: detached, and a reconnect scheduled.
HandleClose(c) ==
    [c EXCEPT !.socket = "none", !.state = "reconnecting",
              !.timer = TRUE, !.retrying = TRUE]

\* stopForProtocolError
StopForProtocolError(c) ==
    [c EXCEPT !.socket = "none", !.state = "error",
              !.timer = FALSE, !.terminal = TRUE]

NewClient(i) ==
    OpenSocket([ credentials |-> i, state |-> "disconnected",
                 socket |-> "none", timer |-> FALSE,
                 retrying |-> FALSE, terminal |-> FALSE ])

-----------------------------------------------------------------------------
\* The controller.  The running operation is the head of the queue.

Enqueue(op) ==
    /\ queue' = Append(queue, op)
    /\ UNCHANGED <<phase, manager, listening, accepted, client, last>>

\* start() and stop() of the commands; disposed controllers take neither.
Start == ~disposed /\ Len(queue) < MaxQueue /\ Enqueue("start")
         /\ UNCHANGED disposed
Stop == ~disposed /\ Len(queue) < MaxQueue /\ Enqueue("stop")
        /\ UNCHANGED disposed

\* dispose(), of the extension's subscriptions or deactivate()
Dispose == ~disposed /\ disposed' = TRUE /\ Enqueue("dispose")

\* The running operation settles.
Done ==
    /\ phase' = "idle"
    /\ queue' = Tail(queue)
    /\ last' = Head(queue)

\* manager.stop() of a manager that is not stopped: stopBridge up to the
\* bridge's stop.
StopBridge == manager' = [manager EXCEPT !.state = "stopping"]

Begins(ops) == phase = "idle" /\ queue # <<>> /\ Head(queue) \in ops

\* Mutant of StartIsDue: a controller that has its client starts once more.
StartIsDue_Again == ~disposed

StartIsDue == ~disposed /\ client = None

\* startNow of a controller that is disposed or already has its client
SkipStart ==
    /\ Begins({"start"})
    /\ ~StartIsDue
    /\ Done
    /\ UNCHANGED <<disposed, manager, listening, accepted, client>>

\* startNow up to the first managed port
BeginStart ==
    /\ Begins({"start"})
    /\ StartIsDue
    /\ phase' = "starting"
    /\ manager' = Cleared("starting")
    /\ UNCHANGED <<queue, disposed, listening, accepted, client, last>>

\* The port is taken (EADDRINUSE): the next one is tried.
PortTaken ==
    /\ phase = "starting" /\ "port" \in Faults
    /\ manager.port < Ports - 1
    /\ manager' = [manager EXCEPT !.port = @ + 1]
    /\ UNCHANGED <<queue, phase, disposed, listening, accepted, client, last>>

\* The last port is taken, or the server fails otherwise: start rejects.
StartFails ==
    /\ phase = "starting" /\ "port" \in Faults
    /\ manager' = Cleared("error")
    /\ Done
    /\ UNCHANGED <<disposed, listening, accepted, client>>

\* After the await of manager.start(): the client is created and connects.
Connected(i) ==
    /\ ~disposed
    /\ client' = NewClient(i)
    /\ Done
    /\ manager' = [ state |-> "running", bridge |-> i, credentials |-> i,
                    port |-> manager.port ]

\* ... or the bridge is stopped again, because the controller was disposed
\* meanwhile or the client could not be created.
Rejected(i) ==
    /\ disposed \/ "connect" \in Faults
    /\ phase' = "stopping"
    /\ manager' = [ state |-> "stopping", bridge |-> i, credentials |-> i,
                    port |-> manager.port ]
    /\ UNCHANGED <<queue, client, last>>

\* The server listens; startBridge and startNow go on from there.
ServerListens ==
    /\ phase = "starting"
    /\ \E i \in Instance \ listening :
           /\ listening' = listening \cup {i}
           /\ accepted' = accepted \cup {i}
           /\ Connected(i) \/ Rejected(i)
    /\ UNCHANGED disposed

\* Mutant of DisposeClient: the connection is not ended.
DisposeClient_Kept == client' = client

\* disposeClient: detached, its socket closed, its timer cancelled
DisposeClient == client' = None

\* Mutant of NothingToStop: a manager in error is left so.
NothingToStop_NotRunning == manager.state # "running"

NothingToStop == manager.state = "stopped"

\* stopNow, when there is nothing to stop
SkipStop ==
    /\ Begins({"stop", "dispose"})
    /\ NothingToStop
    /\ DisposeClient
    /\ Done
    /\ UNCHANGED <<disposed, manager, listening, accepted>>

\* stopNow, up to the bridge's stop
BeginStop ==
    /\ Begins({"stop", "dispose"})
    /\ ~NothingToStop
    /\ DisposeClient
    /\ phase' = "stopping"
    /\ StopBridge
    /\ UNCHANGED <<queue, disposed, listening, accepted, last>>

\* The bridge has stopped: tokens revoked, everything about it forgotten.  A
\* start that had to stop it again ends with it.
BridgeStops ==
    /\ phase = "stopping"
    /\ listening' = listening \ {manager.bridge}
    /\ accepted' = accepted \ {manager.bridge}
    /\ manager' = Cleared("stopped")
    /\ Done
    /\ UNCHANGED <<disposed, client>>

-----------------------------------------------------------------------------
\* The client's socket.  No other program ever answers on the port of a
\* running bridge, so the identity it authenticates is the expected one.

ClientStep(c) ==
    /\ client' = c
    /\ UNCHANGED <<queue, phase, disposed, manager, listening, accepted, last>>

\* hello is answered with "authenticated" ...
Authenticated ==
    /\ client # None /\ client.socket = "opening"
    /\ client.credentials \in accepted
    /\ ClientStep([client EXCEPT !.socket = "open", !.state = "connected",
                                 !.retrying = FALSE])

\* ... or with auth.tokenRejected
Refused ==
    /\ client # None /\ client.socket = "opening"
    /\ client.credentials \notin accepted
    /\ ClientStep(StopForProtocolError(client))

\* The bridge forgets the IDE's token: it expired.
TokenExpires ==
    /\ "expire" \in Faults
    /\ \E i \in accepted : accepted' = accepted \ {i}
    /\ UNCHANGED <<queue, phase, disposed, manager, listening, client, last>>

\* An invalid message: the state is error, the socket stays.
Garbage ==
    /\ "garbage" \in Faults
    /\ client # None /\ client.socket = "open"
    /\ ClientStep([client EXCEPT !.state = "error"])

\* onerror; the close event follows
SocketErrs ==
    /\ "socket" \in Faults
    /\ client # None /\ client.socket # "none"
    /\ ClientStep([client EXCEPT !.state = "error"])

\* onclose, or a send that finds the socket unusable (reconnectAfterSendFailure)
SocketEnds ==
    /\ client # None /\ client.socket # "none"
    /\ "socket" \in Faults \/ client.state = "error"
    /\ ClientStep(HandleClose(client))

TimerFires ==
    /\ client # None /\ client.timer
    /\ ClientStep(OpenSocket([client EXCEPT !.timer = FALSE]))

-----------------------------------------------------------------------------
Operation == SkipStart \/ BeginStart \/ SkipStop \/ BeginStop

PortAnswers == PortTaken \/ StartFails \/ ServerListens

SocketAnswers == Authenticated \/ Refused

Next ==
    \/ Start \/ Stop \/ Dispose
    \/ Operation \/ PortAnswers \/ BridgeStops
    \/ SocketAnswers \/ TokenExpires
    \/ Garbage \/ SocketErrs \/ SocketEnds \/ TimerFires

Spec == Init /\ [][Next]_vars

\* The event loop runs what is due; ports answer; a bridge stops (Bridge's
\* StopDrains); a socket in error is closed, by the transport or by the bridge
\* whose pings it leaves unanswered (Bridge's SilentClientsLeave).
Fairness ==
    /\ WF_vars(Operation)
    /\ WF_vars(PortAnswers)
    /\ WF_vars(BridgeStops)
    /\ WF_vars(TimerFires)
    /\ WF_vars(SocketEnds /\ client.state = "error")

FairSpec == Spec /\ Fairness

-----------------------------------------------------------------------------
\* At most one bridge listens, the manager knows it, and a client holds the
\* credentials of that bridge while it runs: the client is disposed before the
\* bridge stops and created after it started.
OneBridge ==
    /\ TypeOK
    /\ listening \subseteq {manager.bridge}
    /\ client # None =>
           /\ manager.state = "running"
           /\ client.credentials = manager.bridge
           /\ client.credentials \in listening

\* Once the last operation was a stop or a dispose nothing is left, whatever
\* was still under way when it was asked for: no server, no client, no timer.
LastStopHolds ==
    queue = <<>> /\ (last \in {"stop", "dispose"} \/ disposed) =>
        listening = {} /\ client = None /\ manager.state = "stopped"

\* A client that is not connected tries again, garbage or not, unless the
\* bridge refused its token or it was disposed.
TriesAgain ==
    client # None /\ client.state # "connected" ~>
        \/ client = None
        \/ client.terminal
        \/ client.socket = "opening"
        \/ client.state = "connected"

\* dispose() is final: whatever was queued or starting, everything ends.
DisposeEnds ==
    disposed ~> [](queue = <<>> /\ listening = {} /\ client = None)
=============================================================================
