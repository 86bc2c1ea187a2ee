-------------------------- MODULE IdeRuntimeProofs --------------------------
(***************************************************************************)
(* Theorems about IdeRuntime, for any instances, ports, queue bound and    *)
(* faults.  The invariant says what each phase of the running operation    *)
(* leaves in place, that an operation that ended with a stop left nothing, *)
(* and that a disposed controller has its dispose last.                    *)
(***************************************************************************)
EXTENDS IdeRuntime, TLAPS

Op == {"start", "stop", "dispose"}

\* The bridge the manager runs, and its client
Running == /\ manager.state = "running"
           /\ client # None
           /\ client.credentials = manager.bridge
           /\ listening = {manager.bridge}

Nothing == client = None /\ listening = {}

PhasesAgree ==
    /\ phase = "idle" =>
           \/ Nothing /\ manager.state \in {"stopped", "error"}
           \/ Running
    /\ phase = "starting" => Nothing /\ Head(queue) = "start"
    /\ phase = "stopping" => client = None /\ listening \subseteq {manager.bridge}
    /\ phase # "idle" => queue # <<>>

StopsHold ==
    phase = "idle" /\ last \in {"stop", "dispose"} =>
        Nothing /\ manager.state = "stopped"

DisposeIsLast ==
    /\ ~disposed => Len(queue) <= MaxQueue
    /\ disposed => \/ queue = <<>> /\ last = "dispose"
                   \/ queue # <<>> /\ queue[Len(queue)] = "dispose"

RInv == TypeOK /\ PhasesAgree /\ StopsHold /\ DisposeIsLast

-----------------------------------------------------------------------------
\* The queue without its head.
LEMMA TailType ==
  ASSUME NEW q \in Seq(Op), q # <<>>
  PROVE  /\ Head(q) \in Op /\ Tail(q) \in Seq(Op) /\ Len(Tail(q)) = Len(q) - 1
         /\ Tail(q) = <<>> => q[Len(q)] = Head(q)
         /\ Tail(q) # <<>> => Tail(q)[Len(Tail(q))] = q[Len(q)]
<1>1. /\ Head(q) \in Op /\ Tail(q) \in Seq(Op) /\ Len(Tail(q)) = Len(q) - 1
      /\ Len(q) \in Nat \ {0}
  OBVIOUS
<1>2. \A k \in 1..Len(Tail(q)) : Tail(q)[k] = q[k + 1]
  OBVIOUS
<1>3. CASE Tail(q) = <<>>
  <2>1. Len(q) = 1 /\ Head(q) = q[1]
    BY <1>1, <1>3
  <2> QED BY <1>1, <1>3, <2>1
<1>4. CASE Tail(q) # <<>>
  <2>1. Len(Tail(q)) \in 1..Len(Tail(q))
    BY <1>1, <1>4
  <2>2. Tail(q)[Len(Tail(q))] = q[(Len(q) - 1) + 1]
    BY <1>1, <1>2, <2>1
  <2> QED BY <1>1, <1>4, <2>2
<1> QED BY <1>3, <1>4

\* An operation that ends.
LEMMA DoneSafe ==
  ASSUME TypeOK, DisposeIsLast, queue # <<>>, Done, disposed' = disposed
  PROVE  /\ queue' \in Seq(Op) /\ Len(queue') <= MaxQueue + 1
         /\ last' \in {"none", "start", "stop", "dispose"} /\ last' = Head(queue)
         /\ phase' = "idle" /\ DisposeIsLast'
<1>1. queue \in Seq(Op) /\ Len(queue) <= MaxQueue + 1 /\ Len(queue) \in Nat
  BY DEF TypeOK, Op
<1>2. /\ phase' = "idle" /\ queue' = Tail(queue) /\ last' = Head(queue)
      /\ MaxQueue \in Nat
  BY RuntimeAssumption DEF Done
<1>3. /\ queue' \in Seq(Op) /\ Len(queue') = Len(queue) - 1 /\ last' \in Op
      /\ queue' = <<>> => queue[Len(queue)] = last'
      /\ queue' # <<>> => queue'[Len(queue')] = queue[Len(queue)]
  BY <1>1, <1>2, TailType
<1>4. DisposeIsLast'
  BY <1>1, <1>2, <1>3 DEF DisposeIsLast
<1> QED BY <1>1, <1>2, <1>3, <1>4 DEF Op

\* An operation that is asked for.
LEMMA EnqueueSafe ==
  ASSUME RInv, NEW op \in Op, Enqueue(op),
         \/ disposed' = disposed /\ ~disposed /\ Len(queue) < MaxQueue
         \/ disposed' = TRUE /\ ~disposed /\ op = "dispose"
  PROVE  RInv'
<1>1. /\ queue \in Seq(Op) /\ MaxQueue \in Nat /\ Len(queue) \in Nat
      /\ queue' = Append(queue, op) /\ Len(queue) <= MaxQueue
      /\ UNCHANGED <<phase, manager, listening, accepted, client, last>>
  BY RuntimeAssumption DEF RInv, TypeOK, Op, Enqueue, DisposeIsLast
<1>2. /\ queue' \in Seq(Op) /\ Len(queue') = Len(queue) + 1 /\ queue' # <<>>
      /\ queue'[Len(queue')] = op
      /\ queue # <<>> => Head(queue') = Head(queue)
  BY <1>1
<1>3. TypeOK'
  <2>1. Len(queue') <= MaxQueue + 1
    BY <1>1, <1>2
  <2>2. disposed' \in BOOLEAN
    BY DEF RInv, TypeOK
  <2> QED BY <1>1, <1>2, <2>1, <2>2 DEF RInv, TypeOK, Op
<1>4. DisposeIsLast'
  BY <1>1, <1>2 DEF DisposeIsLast
<1>5. PhasesAgree' /\ StopsHold'
  BY <1>1, <1>2 DEF RInv, PhasesAgree, StopsHold, Nothing, Running
<1> QED BY <1>3, <1>4, <1>5 DEF RInv

\* The states of the manager.
LEMMA ManagerType ==
  /\ \A s \in {"stopped", "starting", "running", "stopping", "error"} :
         Cleared(s) \in Manager /\ Cleared(s).state = s
  /\ \A m \in Manager : /\ [m EXCEPT !.state = "stopping"] \in Manager
                        /\ [m EXCEPT !.state = "stopping"].bridge = m.bridge
  /\ \A m \in Manager :
         m.port < Ports - 1 => [m EXCEPT !.port = @ + 1] \in Manager
  BY RuntimeAssumption DEF Manager, Cleared

LEMMA OperationSafe == ASSUME RInv, Operation PROVE RInv'
<1>1. /\ phase = "idle" /\ queue # <<>> /\ TypeOK /\ DisposeIsLast
      /\ disposed' = disposed
  BY DEF RInv, Operation, SkipStart, BeginStart, SkipStop, BeginStop, Begins
<1>2. CASE SkipStart
  <2>1. /\ Done /\ Head(queue) = "start"
        /\ UNCHANGED <<disposed, manager, listening, accepted, client>>
    BY <1>2 DEF SkipStart, Begins
  <2>2. /\ last' = "start" /\ phase' = "idle" /\ DisposeIsLast'
        /\ queue' \in Seq(Op) /\ Len(queue') <= MaxQueue + 1
    BY <1>1, <2>1, DoneSafe
  <2>3. TypeOK'
    BY <2>1, <2>2 DEF RInv, TypeOK, Op
  <2>4. PhasesAgree' /\ StopsHold'
    BY <1>1, <2>1, <2>2 DEF RInv, PhasesAgree, StopsHold, Nothing, Running
  <2> QED BY <2>2, <2>3, <2>4 DEF RInv
<1>3. CASE BeginStart
  <2>1. /\ Head(queue) = "start" /\ client = None /\ phase' = "starting"
        /\ manager' = Cleared("starting")
        /\ UNCHANGED <<queue, disposed, listening, accepted, client, last>>
    BY <1>3 DEF BeginStart, Begins, StartIsDue
  <2>2. listening = {}
    BY <1>1, <2>1 DEF RInv, PhasesAgree, Nothing, Running
  <2>3. TypeOK'
    BY <2>1, ManagerType DEF RInv, TypeOK
  <2> QED BY <1>1, <2>1, <2>2, <2>3 DEF RInv, PhasesAgree, StopsHold, Nothing,
             DisposeIsLast
<1>4. CASE SkipStop
  <2>1. /\ Done /\ manager.state = "stopped" /\ client' = None
        /\ UNCHANGED <<disposed, manager, listening, accepted>>
    BY <1>4 DEF SkipStop, NothingToStop, DisposeClient
  <2>2. /\ phase' = "idle" /\ DisposeIsLast'
        /\ queue' \in Seq(Op) /\ Len(queue') <= MaxQueue + 1
        /\ last' \in {"none", "start", "stop", "dispose"}
    BY <1>1, <2>1, DoneSafe
  <2>3. listening = {}
    BY <1>1, <2>1 DEF RInv, PhasesAgree, Nothing, Running
  <2>4. TypeOK'
    BY <2>1, <2>2 DEF RInv, TypeOK, Op
  <2> QED BY <2>1, <2>2, <2>3, <2>4 DEF RInv, PhasesAgree, StopsHold, Nothing
<1>5. CASE BeginStop
  <2>1. /\ phase' = "stopping" /\ client' = None
        /\ manager' = [manager EXCEPT !.state = "stopping"]
        /\ UNCHANGED <<queue, disposed, listening, accepted, last>>
    BY <1>5 DEF BeginStop, DisposeClient, StopBridge
  <2>2. manager' \in Manager /\ manager'.bridge = manager.bridge
    BY <2>1, ManagerType DEF RInv, TypeOK
  <2>3. listening \subseteq {manager.bridge}
    BY <1>1 DEF RInv, PhasesAgree, Nothing, Running
  <2>4. TypeOK'
    BY <2>1, <2>2 DEF RInv, TypeOK
  <2> QED BY <1>1, <2>1, <2>2, <2>3, <2>4 DEF RInv, PhasesAgree, StopsHold,
             DisposeIsLast
<1> QED BY <1>2, <1>3, <1>4, <1>5 DEF Operation

\* A new client is one with the credentials of its bridge.
LEMMA NewClientType ==
  ASSUME NEW i \in Instance
  PROVE  NewClient(i) \in Client /\ NewClient(i).credentials = i
  BY DEF NewClient, OpenSocket, Client

LEMMA PortAnswersSafe == ASSUME RInv, PortAnswers PROVE RInv'
<1>1. /\ phase = "starting" /\ queue # <<>> /\ TypeOK /\ DisposeIsLast
      /\ disposed' = disposed /\ client = None /\ listening = {}
      /\ Head(queue) = "start" /\ accepted = {}
  BY DEF RInv, PortAnswers, PortTaken, StartFails, ServerListens, PhasesAgree,
     Nothing, TypeOK
<1>2. CASE PortTaken
  <2>1. /\ manager' = [manager EXCEPT !.port = @ + 1] /\ manager.port < Ports - 1
        /\ UNCHANGED <<queue, phase, disposed, listening, accepted, client, last>>
    BY <1>2 DEF PortTaken
  <2>2. TypeOK'
    BY <2>1, ManagerType DEF RInv, TypeOK
  <2> QED BY <1>1, <2>1, <2>2 DEF RInv, PhasesAgree, StopsHold, Nothing,
             DisposeIsLast
<1>3. ASSUME Done PROVE /\ last' = "start" /\ phase' = "idle" /\ DisposeIsLast'
                        /\ queue' \in Seq(Op) /\ Len(queue') <= MaxQueue + 1
  BY <1>1, <1>3, DoneSafe
<1>4. CASE StartFails
  <2>1. /\ manager' = Cleared("error") /\ Done
        /\ UNCHANGED <<disposed, listening, accepted, client>>
    BY <1>4 DEF StartFails
  <2>2. manager' \in Manager /\ manager'.state = "error"
    BY <2>1, ManagerType
  <2>3. TypeOK'
    BY <1>3, <2>1, <2>2 DEF RInv, TypeOK, Op
  <2> QED BY <1>1, <1>3, <2>1, <2>2, <2>3 DEF RInv, PhasesAgree, StopsHold,
             Nothing
<1>5. CASE ServerListens
  <2>1. PICK i \in Instance : /\ listening' = {i} /\ accepted' = {i}
                              /\ Connected(i) \/ Rejected(i)
    BY <1>1, <1>5 DEF ServerListens
  <2>2. i # None /\ manager.port \in 0..(Ports - 1)
    BY RuntimeAssumption DEF RInv, TypeOK, Manager
  <2>3. CASE Connected(i)
    <3>1. /\ Done /\ client' = NewClient(i)
          /\ manager' = [ state |-> "running", bridge |-> i, credentials |-> i,
                          port |-> manager.port ]
      BY <2>3 DEF Connected
    <3>2. /\ manager' \in Manager /\ manager'.state = "running"
          /\ manager'.bridge = i
      BY <2>2, <3>1 DEF Manager
    <3>3. client' \in Client /\ client'.credentials = i
      BY <3>1, NewClientType
    <3>4. client' # None
      BY <3>3, RuntimeAssumption
    <3>5. TypeOK'
      BY <1>1, <1>3, <2>1, <3>1, <3>2, <3>3 DEF TypeOK, Op
    <3> QED BY <1>3, <2>1, <3>1, <3>2, <3>3, <3>4, <3>5
            DEF RInv, PhasesAgree, StopsHold, Running
  <2>4. CASE Rejected(i)
    <3>1. /\ phase' = "stopping" /\ UNCHANGED <<queue, client, last>>
          /\ manager' = [ state |-> "stopping", bridge |-> i, credentials |-> i,
                          port |-> manager.port ]
      BY <2>4 DEF Rejected
    <3>2. manager' \in Manager /\ manager'.bridge = i
      BY <2>2, <3>1 DEF Manager
    <3>3. TypeOK'
      BY <1>1, <2>1, <3>1, <3>2 DEF TypeOK
    <3> QED BY <1>1, <2>1, <3>1, <3>2, <3>3
            DEF RInv, PhasesAgree, StopsHold, DisposeIsLast
  <2> QED BY <2>1, <2>3, <2>4
<1> QED BY <1>2, <1>4, <1>5 DEF PortAnswers

LEMMA BridgeStopsSafe == ASSUME RInv, BridgeStops PROVE RInv'
<1>1. /\ queue # <<>> /\ TypeOK /\ DisposeIsLast /\ Done /\ disposed' = disposed
      /\ client' = None /\ listening' = {} /\ accepted' \subseteq {}
      /\ manager' = Cleared("stopped")
  BY DEF RInv, BridgeStops, PhasesAgree, TypeOK
<1>2. manager' \in Manager /\ manager'.state = "stopped"
  BY <1>1, ManagerType
<1>3. /\ phase' = "idle" /\ DisposeIsLast'
      /\ queue' \in Seq(Op) /\ Len(queue') <= MaxQueue + 1
      /\ last' \in {"none", "start", "stop", "dispose"}
  BY <1>1, DoneSafe
<1>4. TypeOK'
  BY <1>1, <1>2, <1>3 DEF TypeOK, Op
<1> QED BY <1>1, <1>2, <1>3, <1>4 DEF RInv, PhasesAgree, StopsHold, Nothing

\* What happens to its socket leaves a client its credentials.
LEMMA ClientStepSafe ==
  ASSUME RInv, client # None, NEW c \in Client, ClientStep(c),
         c.credentials = client.credentials
  PROVE  RInv'
  BY RuntimeAssumption
     DEF RInv, ClientStep, TypeOK, PhasesAgree, StopsHold, DisposeIsLast,
     Nothing, Running

LEMMA SocketSafe ==
  ASSUME RInv,
         \/ SocketAnswers \/ Garbage \/ SocketErrs \/ SocketEnds \/ TimerFires
  PROVE  RInv'
<1>1. client # None /\ client \in Client
  BY DEF SocketAnswers, Authenticated, Refused, Garbage, SocketErrs, SocketEnds,
     TimerFires, RInv, TypeOK
<1>2. PICK c : /\ ClientStep(c)
               /\ \/ c = [client EXCEPT !.socket = "open",
                                        !.state = "connected",
                                        !.retrying = FALSE]
                  \/ c = StopForProtocolError(client)
                  \/ c = [client EXCEPT !.state = "error"]
                  \/ c = HandleClose(client)
                  \/ c = OpenSocket([client EXCEPT !.timer = FALSE])
  BY DEF SocketAnswers, Authenticated, Refused, Garbage, SocketErrs, SocketEnds,
     TimerFires
<1>3. c \in Client /\ c.credentials = client.credentials
  BY <1>1, <1>2 DEF Client, HandleClose, StopForProtocolError, OpenSocket
<1> QED BY <1>1, <1>2, <1>3, ClientStepSafe

-----------------------------------------------------------------------------
LEMMA InitSafe == Init => RInv
<1> SUFFICES ASSUME Init PROVE RInv
  OBVIOUS
<1>1. manager \in Manager /\ manager.state = "stopped"
  BY ManagerType DEF Init
<1>2. queue \in Seq({"start", "stop", "dispose"}) /\ Len(queue) = 0
  BY DEF Init
<1>3. TypeOK
  <2>1. Len(queue) <= MaxQueue + 1
    BY <1>2, RuntimeAssumption
  <2> QED BY <1>1, <1>2, <2>1 DEF Init, TypeOK
<1>4. PhasesAgree /\ StopsHold /\ DisposeIsLast
  BY <1>1, <1>2, RuntimeAssumption
     DEF Init, PhasesAgree, StopsHold, DisposeIsLast, Nothing
<1> QED BY <1>3, <1>4 DEF RInv

LEMMA NextSafe == RInv /\ [Next]_vars => RInv'
<1> SUFFICES ASSUME RInv, [Next]_vars PROVE RInv'
  OBVIOUS
<1>1. CASE Start \/ Stop \/ Dispose
  <2>1. \E op \in Op :
          /\ Enqueue(op)
          /\ \/ disposed' = disposed /\ ~disposed /\ Len(queue) < MaxQueue
             \/ disposed' = TRUE /\ ~disposed /\ op = "dispose"
    BY <1>1 DEF Start, Stop, Dispose, Op
  <2> QED BY <2>1, EnqueueSafe
<1>2. CASE TokenExpires
  BY <1>2 DEF TokenExpires, RInv, TypeOK, PhasesAgree, StopsHold, Nothing,
     Running, DisposeIsLast
<1>3. CASE UNCHANGED vars
  BY <1>3 DEF vars, RInv, TypeOK, PhasesAgree, StopsHold, Nothing, Running,
     DisposeIsLast
<1> QED BY <1>1, <1>2, <1>3, OperationSafe, PortAnswersSafe, BridgeStopsSafe,
           SocketSafe DEF Next

\* The invariant of the controller, the manager and the client.
THEOREM RuntimeInvariance == Spec => []RInv
<1> QED BY InitSafe, NextSafe, PTL DEF Spec

\* At most one bridge listens, the one the manager knows, and the client holds
\* the credentials of the bridge that runs: runtimeController.ts disposes it
\* before the bridge stops and creates it after the bridge started, whatever
\* starts, stops and disposal were asked for in between.
THEOREM OneBridgeAtATime == Spec => []OneBridge
<1>1. RInv => OneBridge
  <2> SUFFICES ASSUME RInv PROVE OneBridge
    OBVIOUS
  <2>1. phase \in {"idle", "starting", "stopping"}
    BY DEF RInv, TypeOK
  <2> QED BY <2>1 DEF RInv, PhasesAgree, Nothing, Running, OneBridge
<1> QED BY <1>1, RuntimeInvariance, PTL

\* Nothing is left once a stop or a disposal was the last thing to end: no
\* server, no client and no timer.
THEOREM StopLeavesNothing == Spec => []LastStopHolds
<1>1. RInv => LastStopHolds
  <2> SUFFICES ASSUME RInv, queue = <<>>, last \in {"stop", "dispose"} \/ disposed
               PROVE  listening = {} /\ client = None /\ manager.state = "stopped"
    BY DEF LastStopHolds
  <2>1. phase = "idle" /\ last \in {"stop", "dispose"}
    BY DEF RInv, PhasesAgree, DisposeIsLast
  <2> QED BY <2>1 DEF RInv, StopsHold, Nothing
<1> QED BY <1>1, RuntimeInvariance, PTL
=============================================================================
