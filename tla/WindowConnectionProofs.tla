----------------------- MODULE WindowConnectionProofs -----------------------
(***************************************************************************)
(* For any panels, tabs, links, calls, bounds and faults: the window uses  *)
(* the link that is stored, and has an authority only while its connection *)
(* stands.  While no command is aborted it also does something about what  *)
(* it shows, and while storage works it does not lose what is stored.      *)
(*                                                                         *)
(* An action computes a record from the record with the operators of       *)
(* WindowConnection, and Become rebases it.  So each operator has a lemma  *)
(* on records whose generation and token are not rebased yet (Raw), and    *)
(* what the operators have in common is the relation Follows.              *)
(***************************************************************************)
EXTENDS WindowConnection, FiniteSetTheorems, TLAPS

\* Records, calls and storage operations before they are rebased
Raw == [ exists : BOOLEAN, panels : SUBSET Panel, tabs : SUBSET Tab,
         gen : Nat, token : Nat, state : States, client : Client,
         connected : BOOLEAN, authority : BOOLEAN,
         link : Link \cup {None}, pending : Pending \cup {NoPending},
         writing : BOOLEAN, timer : {"none", "live", "stale"},
         attempts : 0..MaxAttempts, op : Op \cup {None},
         mismatch : BOOLEAN ]

RawCall ==
    { p \in [ id : Op, kind : {"link", "unlink", "remove"},
              phase : {"cleanup", "store"}, gen : Int,
              link : Link \cup {None}, panel : Panel \cup {None},
              known : BOOLEAN ] : p.kind = "link" => p.link # None }

RawEntry ==
    { e \in [ kind : {"linkRemove", "unlinkRemove", "remove", "load", "save"},
              op : Op \cup {None}, gen : Int, token : Int,
              link : Link \cup {None}, started : BOOLEAN, aborted : BOOLEAN ] :
          e.kind = "linkRemove" => e.link # None }

\* AuthorityIsLive of a record, and a client that was opened has reported it.
Live(r) ==
    /\ r.authority => /\ r.connected
                      /\ r.client.state \in {"connected", "incompatible"}
    /\ r.client # NoClient => r.client.state # "none"

Good(r) == r \in Raw /\ Live(r)

\* What d, computed from r, may differ in: links and attempts are dropped, a
\* client is opened only for one of them, and dropping the client or the
\* attempt makes what was captured before outdated.
Follows(r, d) ==
    /\ d.exists = r.exists
    /\ d.gen >= r.gen /\ d.token >= r.token
    /\ d.op \in {r.op, None}
    /\ d.link \in {r.link, None}
    /\ d.pending \in {r.pending, NoPending}
    /\ d.client = NoClient => r.client = NoClient \/ d.token > r.token
    /\ d.client # NoClient =>
           r.client # NoClient \/ r.link # None \/ r.pending # NoPending
    /\ d.token = r.token => d.pending = r.pending

Detached(r) == r.client = NoClient /\ r.link = None /\ r.pending = NoPending

\* A load or a save in a queue q that a record r would still take.
CurrentLoad(r, e) == e.kind = "load" /\ r.exists /\ e.gen = r.gen

CurrentSave(r, e) ==
    e.kind = "save" /\ r.exists /\ e.gen = r.gen /\ e.token = r.token

\* While a window has a link nothing that is queued can change what is stored.
\* Only the last operation of the queue can give it one, and a call that owns
\* the record has no such operation behind it.
Kept(r, o, q, s) ==
    /\ \A k \in DOMAIN q : q[k].gen <= r.gen /\ q[k].token <= r.token
    /\ \A p \in o : p.gen <= r.gen
    /\ r.link # None =>
           /\ s = r.link
           /\ \A k \in DOMAIN q : q[k].kind = "load"
    /\ r.pending # NoPending => r.link = None
    /\ \A k \in DOMAIN q :
           /\ CurrentLoad(r, q[k]) => k = Len(q) /\ Detached(r)
           /\ CurrentSave(r, q[k]) => /\ k = Len(q)
                                      /\ r.client # NoClient /\ r.link = None
                                      /\ r.pending.kind = "credentials"
    /\ \A p \in o :
           p.phase = "store" /\ OwnsRecord(r, p) =>
               /\ Detached(r)
               /\ \A k \in DOMAIN q : ~CurrentLoad(r, q[k]) /\ ~CurrentSave(r, q[k])

Typed(o, q) == o \subseteq RawCall /\ q \in Seq(RawEntry)

WInv ==
    /\ TypeOK
    /\ Live(rec)
    /\ Typed(ops, queue)
    /\ Kept(rec, ops, queue, stored)

-----------------------------------------------------------------------------
(* The record's operators.                                                 *)

LEMMA FollowsSelf == ASSUME NEW r \in Raw PROVE Follows(r, r)
  BY DEF Follows, Raw

LEMMA FollowsTransitive ==
  ASSUME NEW r \in Raw, NEW d \in Raw, NEW e \in Raw,
         Follows(r, d), Follows(d, e)
  PROVE  Follows(r, e)
<1>1. /\ r.gen \in Nat /\ d.gen \in Nat /\ e.gen \in Nat
      /\ r.token \in Nat /\ d.token \in Nat /\ e.token \in Nat
  BY DEF Raw
<1> QED BY <1>1 DEF Follows

LEMMA NullsTyped ==
  /\ NoClient \in Client /\ NoPending \notin Pending
  /\ NoClient.state = "none" /\ ~NoClient.socket
  /\ \A i \in {"link", "credentials"} :
         Started(i) \in Client /\ Started(i).state = "none"
  /\ None \notin Op
<1>1. NoClient \in Client /\ NoClient.state = "none" /\ ~NoClient.socket
  BY DEF NoClient, Client, ClientStates
<1>2. NoPending \notin Pending
  BY DEF Pending, NoPending
<1>3. \A i \in {"link", "credentials"} :
         Started(i) \in Client /\ Started(i).state = "none"
  BY DEF Started, Client, ClientStates
<1>4. None \notin Op
  BY WindowAssumption
<1> QED BY <1>1, <1>2, <1>3, <1>4

LEMMA SetStateGood ==
  ASSUME NEW r, Good(r), NEW s \in States
  PROVE  Good(SetState(r, s)) /\ Follows(r, SetState(r, s))
<1> DEFINE d == SetState(r, s)
<1>1. /\ d \in Raw /\ d.gen = r.gen /\ d.token = r.token
      /\ d.client = r.client /\ (d.authority => r.authority)
      /\ d.connected = r.connected /\ d.exists = r.exists
      /\ d.op = r.op /\ d.link = r.link /\ d.pending = r.pending
  BY DEF Good, Raw, SetState
<1> HIDE DEF d
<1>2. Good(d)
  BY <1>1 DEF Good, Live
<1>3. r.gen \in Nat /\ r.token \in Nat
  BY DEF Good, Raw
<1>4. Follows(r, d)
  BY <1>1, <1>3 DEF Follows
<1> QED BY <1>2, <1>4 DEF d

LEMMA InvalidateGood ==
  ASSUME NEW r, Good(r)
  PROVE  /\ Good(Invalidate(r)) /\ Follows(r, Invalidate(r))
         /\ Invalidate(r).gen = r.gen + 1
<1> DEFINE d == Invalidate(r)
<1>0. r.gen + 1 \in Nat
  BY DEF Good, Raw
<1>1. /\ d \in Raw /\ d.gen = r.gen + 1 /\ d.token = r.token
      /\ d.client = r.client /\ ~d.authority /\ d.exists = r.exists
      /\ d.op = r.op /\ d.link = r.link /\ d.pending = r.pending
  BY <1>0 DEF Good, Raw, Invalidate
<1> HIDE DEF d
<1>2. Good(d)
  BY <1>1 DEF Good, Live
<1>3. r.gen \in Nat /\ r.token \in Nat
  BY DEF Good, Raw
<1>4. Follows(r, d)
  BY <1>1, <1>3 DEF Follows
<1> QED BY <1>1, <1>2, <1>4 DEF d

LEMMA DropClientGood ==
  ASSUME NEW r, Good(r)
  PROVE  /\ Good(DropClient(r)) /\ Follows(r, DropClient(r))
         /\ DropClient(r).gen = r.gen /\ DropClient(r).token = r.token + 1
         /\ DropClient(r).client = NoClient
<1> DEFINE d == DropClient(r)
<1>1. /\ r.timer \in {"none", "live", "stale"} /\ r.gen \in Nat
      /\ r.token \in Nat /\ r.token + 1 \in Nat
  BY DEF Good, Raw
<1>2. /\ d \in Raw /\ d.gen = r.gen /\ d.token = r.token + 1
      /\ d.client = NoClient /\ ~d.authority /\ d.exists = r.exists
      /\ d.op = r.op /\ d.link = r.link /\ d.pending = r.pending
  BY <1>1, NullsTyped DEF Good, Raw, DropClient
<1> HIDE DEF d
<1>3. Good(d)
  BY <1>2 DEF Good, Live
<1>4. Follows(r, d)
  BY <1>1, <1>2 DEF Follows
<1> QED BY <1>2, <1>3, <1>4 DEF d

LEMMA StopAttemptGood ==
  ASSUME NEW r, Good(r), NEW s \in States
  PROVE  /\ Good(StopAttempt(r, s)) /\ Follows(r, StopAttempt(r, s))
         /\ StopAttempt(r, s).gen = r.gen + 1
         /\ StopAttempt(r, s).client = NoClient
         /\ StopAttempt(r, s).pending = NoPending
<1> DEFINE i == Invalidate(r)
           d == DropClient(i)
           e == [d EXCEPT !.pending = NoPending, !.writing = FALSE,
                          !.attempts = 0]
<1>1. Good(i) /\ Follows(r, i) /\ i.gen = r.gen + 1
  BY InvalidateGood
<1>2. Good(d) /\ Follows(i, d) /\ d.gen = i.gen /\ d.token = i.token + 1
      /\ d.client = NoClient
  BY <1>1, DropClientGood
<1>3. /\ Good(e) /\ e.gen = d.gen /\ e.client = NoClient
      /\ e.pending = NoPending
      /\ e.token = d.token /\ e.link = d.link /\ e.op = d.op
      /\ e.exists = d.exists
  <2>1. 0 \in 0..MaxAttempts
    BY WindowAssumption
  <2> HIDE DEF d
  <2>2. /\ e.gen = d.gen /\ e.client = d.client /\ e.pending = NoPending
        /\ e.token = d.token /\ e.link = d.link /\ e.op = d.op
        /\ e.exists = d.exists /\ e.authority = d.authority
        /\ e.connected = d.connected
    BY <1>2 DEF Good, Raw
  <2>3. e \in Raw
    BY <1>2, <2>1 DEF Good, Raw
  <2> HIDE DEF e
  <2> QED BY <1>2, <2>2, <2>3 DEF Good, Live
<1>4. Follows(i, e)
  <2> HIDE DEF i, d, e
  <2>1. i.gen \in Nat /\ i.token \in Nat
    BY <1>1 DEF Good, Raw
  <2> QED BY <1>2, <1>3, <2>1 DEF Follows
<1>5. Follows(r, e)
  <2> HIDE DEF i, d, e
  <2> QED BY <1>1, <1>3, <1>4, FollowsTransitive DEF Good
<1>6. /\ Good(SetState(e, s)) /\ Follows(e, SetState(e, s))
      /\ SetState(e, s).gen = e.gen /\ SetState(e, s).client = e.client
      /\ SetState(e, s).pending = e.pending
  <2> HIDE DEF e
  <2>1. Good(SetState(e, s)) /\ Follows(e, SetState(e, s))
    BY <1>3, SetStateGood
  <2> QED BY <1>3, <2>1 DEF SetState, Good, Raw
<1>7. StopAttempt(r, s) = SetState(e, s)
  BY DEF StopAttempt
<1> HIDE DEF i, d, e
<1> QED BY <1>1, <1>2, <1>3, <1>5, <1>6, <1>7, FollowsTransitive DEF Good

LEMMA ForgetGood ==
  ASSUME NEW r, Good(r), NEW s \in States
  PROVE  /\ Good(Forget(r, s)) /\ Follows(r, Forget(r, s))
         /\ Forget(r, s).gen = r.gen + 1
         /\ Detached(Forget(r, s))
<1> DEFINE d == StopAttempt(r, s)
<1>1. /\ Good(d) /\ Follows(r, d) /\ d.gen = r.gen + 1
      /\ d.client = NoClient /\ d.pending = NoPending
  BY StopAttemptGood
<1>2. Forget(r, s) = [d EXCEPT !.link = None]
  BY DEF Forget
<1> HIDE DEF d
<1> QED BY <1>1, <1>2 DEF Good, Raw, Live, Follows, Detached

LEMMA ScheduleReconnectGood ==
  ASSUME NEW r, Good(r)
  PROVE  Good(ScheduleReconnect(r)) /\ Follows(r, ScheduleReconnect(r))
<1>1. CASE ~CanSchedule(r)
  BY <1>1, FollowsSelf DEF ScheduleReconnect, Good
<1>2. CASE CanSchedule(r) /\ r.attempts >= MaxAttempts
  <2>1. ScheduleReconnect(r) = StopAttempt(r, "offline")
    BY <1>2 DEF ScheduleReconnect
  <2> QED BY <2>1, StopAttemptGood DEF States
<1>3. CASE CanSchedule(r) /\ ~(r.attempts >= MaxAttempts)
  <2> DEFINE d == SetState(r, "reconnecting")
  <2>1. Good(d) /\ Follows(r, d) /\ d.attempts = r.attempts
    <3>1. Good(d) /\ Follows(r, d)
      BY SetStateGood DEF States
    <3> QED BY <3>1 DEF SetState, Good, Raw
  <2>2. ScheduleReconnect(r) = [d EXCEPT !.attempts = @ + 1, !.timer = "live"]
    BY <1>3 DEF ScheduleReconnect
  <2>3. d.attempts + 1 \in 0..MaxAttempts
    <3>1. r.attempts \in 0..MaxAttempts
      BY DEF Good, Raw
    <3> QED BY <1>3, <2>1, <3>1, WindowAssumption
  <2> DEFINE e == [d EXCEPT !.attempts = d.attempts + 1, !.timer = "live"]
  <2> HIDE DEF d
  <2>4. /\ e.gen = d.gen /\ e.client = d.client /\ e.pending = d.pending
        /\ e.token = d.token /\ e.link = d.link /\ e.op = d.op
        /\ e.exists = d.exists /\ e.authority = d.authority
        /\ e.connected = d.connected
    BY <2>1 DEF Good, Raw
  <2>5. e \in Raw
    BY <2>1, <2>3 DEF Good, Raw
  <2>6. ScheduleReconnect(r) = e
    BY <2>2
  <2> HIDE DEF e
  <2>7. Good(e)
    BY <2>1, <2>4, <2>5 DEF Good, Live
  <2>8. Follows(d, e)
    BY <2>1, <2>4, FollowsSelf DEF Good, Follows
  <2> QED BY <2>1, <2>6, <2>7, <2>8, FollowsTransitive DEF Good
<1> QED BY <1>1, <1>2, <1>3

-----------------------------------------------------------------------------
(* What the client reports.                                                *)

\* The state of the client changed, and nothing else yet.
Reported(r, s) ==
    /\ r \in Raw
    /\ r.client.state = s /\ s # "none"
    /\ r.authority => r.connected

\* What every way to handle a report keeps.
Kin(r, d) ==
    /\ d.exists = r.exists /\ d.gen = r.gen /\ d.token = r.token
    /\ d.op = r.op /\ d.link = r.link /\ d.pending = r.pending
    /\ d.client = r.client

LEMMA KinFollows == ASSUME NEW r \in Raw, NEW d, Kin(r, d) PROVE Follows(r, d)
<1>1. r.gen \in Nat /\ r.token \in Nat
  BY DEF Raw
<1> QED BY <1>1 DEF Kin, Follows

LEMMA DisconnectedGood ==
  ASSUME NEW r, Reported(r, "disconnected")
  PROVE  Good(Disconnected(r)) /\ Follows(r, Disconnected(r))
<1> DEFINE d == [r EXCEPT !.connected = FALSE, !.authority = FALSE]
<1>1. d \in Raw /\ ~d.authority /\ Kin(r, d) /\ d.client.state # "none"
  BY DEF Reported, Raw, Kin
<1>2. Disconnected(r) =
          IF d.pending.kind = "code" THEN StopAttempt(d, "error")
          ELSE IF d.pending.kind = "credentials" /\ d.writing
               THEN SetState(d, "offline")
          ELSE IF HasOwner(d) /\ d.link # None THEN ScheduleReconnect(d)
          ELSE SetState(d, IF d.link # None THEN "offline" ELSE "notLinked")
  BY DEF Disconnected
<1> HIDE DEF d
<1>3. Good(d) /\ Follows(r, d)
  BY <1>1, KinFollows DEF Good, Live, Reported
<1>4. {"error", "offline", "notLinked"} \subseteq States
  BY DEF States
<1>5. \E s \in States : Disconnected(r) \in {StopAttempt(d, s), SetState(d, s),
                                             ScheduleReconnect(d)}
  BY <1>2, <1>4
<1>6. Good(Disconnected(r)) /\ Follows(d, Disconnected(r))
  BY <1>3, <1>5, StopAttemptGood, SetStateGood, ScheduleReconnectGood
<1> QED BY <1>1, <1>3, <1>6, FollowsTransitive DEF Good, Reported

LEMMA ConnectedGood ==
  ASSUME NEW r, Reported(r, "connected")
  PROVE  Good(Connected(r)) /\ Follows(r, Connected(r))
<1> DEFINE d == [r EXCEPT !.connected = TRUE, !.authority = TRUE,
                          !.attempts = 0, !.timer = "none"]
<1>1. 0 \in 0..MaxAttempts
  BY WindowAssumption
<1>2. /\ d \in Raw /\ d.connected /\ Kin(r, d)
      /\ d.client.state = "connected"
  BY <1>1 DEF Reported, Raw, Kin
<1>3. Connected(r) \in {d, SetState(d, "linked")}
  BY DEF Connected
<1> HIDE DEF d
<1>4. Good(d) /\ Follows(r, d)
  BY <1>2, KinFollows DEF Good, Live, Reported
<1>5. Good(Connected(r)) /\ Follows(d, Connected(r))
  BY <1>3, <1>4, SetStateGood, FollowsSelf DEF Good, States
<1> QED BY <1>4, <1>5, FollowsTransitive DEF Good, Reported

LEMMA UnconnectedGood ==
  ASSUME NEW r, NEW s, Reported(r, s), NEW t \in States
  PROVE  LET d == [r EXCEPT !.connected = FALSE, !.authority = FALSE]
         IN  /\ Good(d) /\ Follows(r, d)
             /\ Good(SetState(d, t)) /\ Follows(r, SetState(d, t))
<1> DEFINE d == [r EXCEPT !.connected = FALSE, !.authority = FALSE]
<1>1. d \in Raw /\ ~d.authority /\ Kin(r, d) /\ d.client.state # "none"
  BY DEF Reported, Raw, Kin
<1> HIDE DEF d
<1>2. Good(d) /\ Follows(r, d)
  BY <1>1, KinFollows DEF Good, Live, Reported
<1>3. Good(SetState(d, t)) /\ Follows(d, SetState(d, t))
  BY <1>2, SetStateGood
<1>4. Follows(r, SetState(d, t))
  BY <1>2, <1>3, FollowsTransitive DEF Good, Reported
<1> QED BY <1>2, <1>3, <1>4 DEF d

LEMMA HandleGood ==
  ASSUME NEW r, NEW s \in ClientStates \ {"none"}, Reported(r, s)
  PROVE  Good(HandleClientState(r, s)) /\ Follows(r, HandleClientState(r, s))
<1>1. CASE s \in {"connecting", "linking"}
  <2>1. HandleClientState(r, s) = Connecting(r)
    BY <1>1 DEF HandleClientState
  <2>2. "linking" \in States
    BY DEF States
  <2>3. Good(Connecting(r)) /\ Follows(r, Connecting(r))
    BY <2>2, UnconnectedGood DEF Connecting
  <2> QED BY <2>1, <2>3
<1>2. CASE s = "connected"
  BY <1>2, ConnectedGood DEF HandleClientState
<1>3. CASE s = "disconnected"
  BY <1>3, DisconnectedGood DEF HandleClientState
<1>4. CASE s = "error"
  <2>1. HandleClientState(r, s) =
            SetState([r EXCEPT !.connected = FALSE, !.authority = FALSE], "error")
    BY <1>4 DEF HandleClientState
  <2>2. "error" \in States
    BY DEF States
  <2> QED BY <2>1, <2>2, UnconnectedGood
<1>5. CASE s = "incompatible"
  <2> DEFINE d == [r EXCEPT !.mismatch = TRUE]
  <2>1. HandleClientState(r, s) = d
    BY <1>5 DEF HandleClientState
  <2>2. /\ d \in Raw /\ Kin(r, d) /\ (d.authority => d.connected)
        /\ d.client.state = "incompatible"
    BY <1>5 DEF Reported, Raw, Kin
  <2> HIDE DEF d
  <2>3. Good(d) /\ Follows(r, d)
    BY <2>2, KinFollows DEF Good, Live, Reported
  <2> QED BY <2>1, <2>3
<1> QED BY <1>1, <1>2, <1>3, <1>4, <1>5 DEF ClientStates

LEMMA ClientStateGood ==
  ASSUME NEW r \in Raw, NEW s \in ClientStates \ {"none"},
         r.client # NoClient,
         r.authority => /\ r.connected
                        /\ r.client.state \in {"connected", "incompatible"}
  PROVE  Good(ClientState(r, s)) /\ Follows(r, ClientState(r, s))
<1>1. CASE r.client.state = s
  <2>1. ClientState(r, s) = r
    BY <1>1 DEF ClientState
  <2> QED BY <1>1, <2>1, FollowsSelf DEF Good, Live
<1>2. CASE r.client.state # s
  <2> DEFINE d == [r EXCEPT !.client.state = s]
  <2>1. ClientState(r, s) = HandleClientState(d, s)
    BY <1>2 DEF ClientState
  <2>2. /\ d.exists = r.exists /\ d.gen = r.gen /\ d.token = r.token
        /\ d.op = r.op /\ d.link = r.link /\ d.pending = r.pending
        /\ d.client.state = s /\ d.authority = r.authority
        /\ d.connected = r.connected /\ d \in Raw
    BY DEF Raw, Client
  <2> HIDE DEF d
  <2>3. d.client # NoClient
    BY <2>2, NullsTyped
  <2>4. Reported(d, s)
    BY <2>2 DEF Reported
  <2>5. Follows(r, d)
    <3>1. r.gen \in Nat /\ r.token \in Nat
      BY DEF Raw
    <3> QED BY <2>2, <2>3, <3>1 DEF Follows
  <2>6. Good(HandleClientState(d, s)) /\ Follows(d, HandleClientState(d, s))
    BY <2>4, HandleGood
  <2> QED BY <2>1, <2>2, <2>5, <2>6, FollowsTransitive DEF Good
<1> QED BY <1>1, <1>2

\* A client is opened for a link or an attempt, and is another client.
LEMMA OpenClientGood ==
  ASSUME NEW r, Good(r), NEW i \in {"link", "credentials"},
         r.link # None \/ r.pending # NoPending
  PROVE  /\ Good(OpenClient(r, i)) /\ Follows(r, OpenClient(r, i))
         /\ OpenClient(r, i).token > r.token
<1> DEFINE d == [r EXCEPT !.token = @ + 1, !.client = Started(i),
                          !.connected = FALSE, !.authority = FALSE]
<1>1. r.gen \in Nat /\ r.token \in Nat /\ r.token + 1 \in Nat
  BY DEF Good, Raw
<1>2. /\ d \in Raw /\ d.exists = r.exists /\ d.gen = r.gen
      /\ d.token = r.token + 1 /\ d.op = r.op /\ d.link = r.link
      /\ d.pending = r.pending /\ d.client = Started(i) /\ ~d.authority
  BY <1>1, NullsTyped DEF Good, Raw
<1>3. Started(i) # NoClient
  BY DEF Started, NoClient
<1>4. OpenClient(r, i) = ClientState(d, "connecting")
  BY DEF OpenClient
<1> HIDE DEF d
<1>5. Good(OpenClient(r, i)) /\ Follows(d, OpenClient(r, i))
  BY <1>2, <1>3, <1>4, ClientStateGood DEF ClientStates
<1>6. Follows(r, d)
  BY <1>1, <1>2, <1>3 DEF Follows
<1>7. OpenClient(r, i).token >= d.token /\ OpenClient(r, i).token \in Nat
  BY <1>5 DEF Follows, Good, Raw
<1> QED BY <1>1, <1>2, <1>5, <1>6, <1>7, FollowsTransitive DEF Good

LEMMA ActivatedGood ==
  ASSUME NEW r, Good(r)
  PROVE  Good(Activated(r)) /\ Follows(r, Activated(r))
<1>1. "linking" \in States
  BY DEF States
<1>2. CASE r.client # NoClient
  <2>1. Activated(r) \in {r, ScheduleReconnect(r)}
    BY <1>2 DEF Activated
  <2> QED BY <2>1, ScheduleReconnectGood, FollowsSelf DEF Good
<1>3. CASE r.client = NoClient /\ r.pending # NoPending
  <2> DEFINE d == SetState(r, "linking")
             i == IF r.pending.kind = "code" THEN "link" ELSE "credentials"
  <2>1. Activated(r) = OpenClient(d, i)
    BY <1>3 DEF Activated
  <2>2. Good(d) /\ Follows(r, d) /\ d.pending = r.pending
    <3>1. Good(d) /\ Follows(r, d)
      BY <1>1, SetStateGood
    <3> QED BY <3>1 DEF SetState, Good, Raw
  <2>3. i \in {"link", "credentials"}
    OBVIOUS
  <2> HIDE DEF d, i
  <2>4. Good(OpenClient(d, i)) /\ Follows(d, OpenClient(d, i))
    BY <1>3, <2>2, <2>3, OpenClientGood
  <2> QED BY <2>1, <2>2, <2>4, FollowsTransitive DEF Good
<1>4. CASE r.client = NoClient /\ r.pending = NoPending /\ r.link # None
  <2> DEFINE c == [r EXCEPT !.gen = @ + 1]
             d == SetState(c, "linking")
  <2>1. Activated(r) = OpenClient(d, "credentials")
    BY <1>4 DEF Activated
  <2>2. r.gen \in Nat /\ r.gen + 1 \in Nat /\ r.token \in Nat
    BY DEF Good, Raw
  <2>3. /\ c \in Raw /\ c.exists = r.exists /\ c.gen = r.gen + 1
        /\ c.token = r.token /\ c.op = r.op /\ c.link = r.link
        /\ c.pending = r.pending /\ c.client = r.client
        /\ c.authority = r.authority /\ c.connected = r.connected
    BY <2>2 DEF Good, Raw
  <2>4. d = SetState(c, "linking")
    OBVIOUS
  <2> HIDE DEF c
  <2>5. Good(c) /\ Follows(r, c)
    BY <2>2, <2>3 DEF Good, Live, Follows
  <2>6. Good(d) /\ Follows(c, d) /\ d.link = c.link
    <3>1. Good(d) /\ Follows(c, d)
      BY <1>1, <2>5, SetStateGood
    <3> QED BY <2>5, <3>1 DEF SetState, Good, Raw
  <2> HIDE DEF d
  <2>7. Good(OpenClient(d, "credentials")) /\ Follows(d, OpenClient(d, "credentials"))
    BY <1>4, <2>3, <2>6, OpenClientGood
  <2>8. Follows(r, d)
    BY <2>5, <2>6, FollowsTransitive DEF Good
  <2> QED BY <2>1, <2>6, <2>7, <2>8, FollowsTransitive DEF Good
<1>5. CASE r.client = NoClient /\ r.pending = NoPending /\ r.link = None
  <2>1. Activated(r) = r
    BY <1>5 DEF Activated
  <2> QED BY <2>1, FollowsSelf DEF Good
<1> QED BY <1>2, <1>3, <1>4, <1>5

LEMMA ReleasedGood ==
  ASSUME NEW r, Good(r)
  PROVE  Good(Released(r)) /\ Follows(r, Released(r))
<1> DEFINE i == Invalidate(r)
           d == DropClient(i)
           e == [d EXCEPT !.attempts = 0]
<1>1. Good(i) /\ Follows(r, i)
  BY InvalidateGood
<1>2. Good(d) /\ Follows(i, d)
  BY <1>1, DropClientGood
<1>3. 0 \in 0..MaxAttempts
  BY WindowAssumption
<1>4. Released(r) \in {SetState(e, "offline"), StopAttempt(r, "notLinked")}
  BY DEF Released
<1>5. e = [d EXCEPT !.attempts = 0]
  OBVIOUS
<1> HIDE DEF i, d
<1>6. /\ e \in Raw /\ Kin(d, e)
      /\ e.authority = d.authority /\ e.connected = d.connected
  BY <1>2, <1>3 DEF Good, Raw, Kin
<1> HIDE DEF e
<1>7. Good(e) /\ Follows(d, e)
  BY <1>2, <1>6, KinFollows DEF Good, Live, Kin
<1>8. Follows(r, e)
  BY <1>1, <1>2, <1>7, FollowsTransitive DEF Good
<1>9. Good(SetState(e, "offline")) /\ Follows(r, SetState(e, "offline"))
  <2>1. Good(SetState(e, "offline")) /\ Follows(e, SetState(e, "offline"))
    BY <1>7, SetStateGood DEF States
  <2> QED BY <1>7, <1>8, <2>1, FollowsTransitive DEF Good
<1>10. Good(StopAttempt(r, "notLinked")) /\ Follows(r, StopAttempt(r, "notLinked"))
  BY StopAttemptGood DEF States
<1> QED BY <1>4, <1>9, <1>10

-----------------------------------------------------------------------------
(* Calls and the queue.                                                    *)

LEMMA TypedParts ==
  ASSUME NEW o, NEW q, Typed(o, q)
  PROVE  /\ \A k \in DOMAIN q : /\ q[k] \in RawEntry
                                /\ q[k].gen \in Int /\ q[k].token \in Int
         /\ \A p \in o : p \in RawCall /\ p.gen \in Int /\ p.id \in Op
<1>1. \A k \in DOMAIN q : q[k] \in RawEntry
  BY DEF Typed
<1>2. \A p \in o : p \in RawCall
  BY DEF Typed
<1> QED BY <1>1, <1>2 DEF RawEntry, RawCall

LEMMA FollowsKeeps ==
  ASSUME NEW r \in Raw, NEW d \in Raw, NEW o, NEW q, NEW s,
         Typed(o, q), Follows(r, d), Kept(r, o, q, s)
  PROVE  Kept(d, o, q, s)
<1>1. /\ r.gen \in Nat /\ r.token \in Nat /\ d.gen \in Nat /\ d.token \in Nat
      /\ d.gen >= r.gen /\ d.token >= r.token
  BY DEF Raw, Follows
<1>2. /\ \A k \in DOMAIN q : /\ q[k] \in RawEntry
                             /\ q[k].gen \in Int /\ q[k].token \in Int
      /\ \A p \in o : p.gen \in Int
  BY TypedParts
<1>3. /\ \A k \in DOMAIN q : q[k].gen <= d.gen /\ q[k].token <= d.token
      /\ \A p \in o : p.gen <= d.gen
  BY <1>1, <1>2 DEF Kept
<1>4. \A k \in DOMAIN q :
         /\ CurrentLoad(d, q[k]) => CurrentLoad(r, q[k])
         /\ CurrentSave(d, q[k]) => CurrentSave(r, q[k]) /\ d.token = r.token
  BY <1>1, <1>2 DEF Kept, CurrentLoad, CurrentSave, Follows
<1>5. \A p \in o : OwnsRecord(d, p) => OwnsRecord(r, p) \/ p.id = None
  BY <1>1, <1>2 DEF Kept, OwnsRecord, IsCurrent, Follows
<1>6. \A p \in o : p.id # None
  BY TypedParts, NullsTyped
<1>7. Detached(r) => Detached(d)
  BY DEF Detached, Follows
<1>8. /\ d.link # None =>
             s = d.link /\ \A k \in DOMAIN q : q[k].kind = "load"
      /\ d.pending # NoPending => d.link = None
  BY DEF Kept, Follows
<1>9. ASSUME NEW k \in DOMAIN q, CurrentSave(d, q[k])
      PROVE  /\ k = Len(q)
             /\ d.client # NoClient /\ d.link = None
             /\ d.pending.kind = "credentials"
  <2>1. CurrentSave(r, q[k]) /\ d.token = r.token
    BY <1>4, <1>9
  <2>2. /\ k = Len(q) /\ r.client # NoClient /\ r.link = None
        /\ r.pending.kind = "credentials"
    BY <2>1 DEF Kept
  <2> QED BY <1>1, <2>1, <2>2 DEF Follows
<1>10. \A k \in DOMAIN q : CurrentLoad(d, q[k]) => k = Len(q) /\ Detached(d)
  BY <1>4, <1>7 DEF Kept
<1>11. \A p \in o : p.phase = "store" /\ OwnsRecord(d, p) =>
          /\ Detached(d)
          /\ \A k \in DOMAIN q : ~CurrentLoad(d, q[k]) /\ ~CurrentSave(d, q[k])
  BY <1>4, <1>5, <1>6, <1>7 DEF Kept
<1> QED BY <1>3, <1>8, <1>9, <1>10, <1>11 DEF Kept

\* Calls end, and others begin that await their cleanup.
LEMMA CallsKeep ==
  ASSUME NEW r \in Raw, NEW d \in Raw, NEW o, NEW u, NEW q, NEW s,
         Kept(r, o, q, s),
         Kin([r EXCEPT !.op = d.op], d),
         \A p \in u : p.gen <= r.gen,
         \A p \in u : p.phase = "store" /\ p.id = d.op => p \in o /\ r.op = d.op
  PROVE  Kept(d, u, q, s)
<1>1. /\ d.exists = r.exists /\ d.gen = r.gen /\ d.token = r.token
      /\ d.link = r.link /\ d.pending = r.pending /\ d.client = r.client
  <2> DEFINE n == d.op
             c == [r EXCEPT !.op = n]
  <2> HIDE DEF n
  <2>1. /\ c.exists = r.exists /\ c.gen = r.gen /\ c.token = r.token
        /\ c.link = r.link /\ c.pending = r.pending /\ c.client = r.client
    BY DEF Raw
  <2>2. Kin(c, d)
    BY DEF n
  <2> HIDE DEF c
  <2> QED BY <2>1, <2>2 DEF Kin
<1>2. \A k \in DOMAIN q : /\ CurrentLoad(d, q[k]) <=> CurrentLoad(r, q[k])
                          /\ CurrentSave(d, q[k]) <=> CurrentSave(r, q[k])
  BY <1>1 DEF CurrentLoad, CurrentSave
<1>3. Detached(d) <=> Detached(r)
  BY <1>1 DEF Detached
<1>4. \A p \in u : p.phase = "store" /\ OwnsRecord(d, p) =>
          p \in o /\ OwnsRecord(r, p)
  BY <1>1 DEF OwnsRecord, IsCurrent
<1>5. \A p \in u : p.phase = "store" /\ OwnsRecord(d, p) =>
          /\ Detached(d)
          /\ \A k \in DOMAIN q : ~CurrentLoad(d, q[k]) /\ ~CurrentSave(d, q[k])
  BY <1>2, <1>3, <1>4 DEF Kept
<1>6. /\ \A k \in DOMAIN q : q[k].gen <= d.gen /\ q[k].token <= d.token
      /\ \A p \in u : p.gen <= d.gen
      /\ d.link # None =>
             s = d.link /\ \A k \in DOMAIN q : q[k].kind = "load"
      /\ d.pending # NoPending => d.link = None
  BY <1>1 DEF Kept
<1>7. \A k \in DOMAIN q :
           /\ CurrentLoad(d, q[k]) => k = Len(q) /\ Detached(d)
           /\ CurrentSave(d, q[k]) => /\ k = Len(q)
                                      /\ d.client # NoClient /\ d.link = None
                                      /\ d.pending.kind = "credentials"
  BY <1>1, <1>2, <1>3 DEF Kept
<1> QED BY <1>5, <1>6, <1>7 DEF Kept

\* Only marks on the queued operations change.
LEMMA MarksKeep ==
  ASSUME NEW r, NEW o, NEW q, NEW u, NEW s, Kept(r, o, q, s),
         DOMAIN u = DOMAIN q, Len(u) = Len(q),
         \A k \in DOMAIN q : /\ u[k].kind = q[k].kind /\ u[k].gen = q[k].gen
                             /\ u[k].token = q[k].token
  PROVE  Kept(r, o, u, s)
<1>1. \A k \in DOMAIN q : /\ CurrentLoad(r, u[k]) <=> CurrentLoad(r, q[k])
                          /\ CurrentSave(r, u[k]) <=> CurrentSave(r, q[k])
  BY DEF CurrentLoad, CurrentSave
<1> QED BY <1>1 DEF Kept

LEMMA TailKeeps ==
  ASSUME NEW r, NEW o, NEW q \in Seq(RawEntry), q # <<>>, NEW s, Kept(r, o, q, s)
  PROVE  /\ Kept(r, o, Tail(q), s) /\ Tail(q) \in Seq(RawEntry)
         /\ Head(q) = q[1] /\ 1 \in DOMAIN q
<1>1. /\ Tail(q) \in Seq(RawEntry) /\ Len(Tail(q)) = Len(q) - 1
      /\ Len(q) \in Nat \ {0} /\ Head(q) = q[1]
  OBVIOUS
<1>2. DOMAIN q = 1..Len(q) /\ DOMAIN Tail(q) = 1..(Len(q) - 1)
  BY <1>1
<1>3. \A k \in DOMAIN Tail(q) : /\ k + 1 \in DOMAIN q /\ Tail(q)[k] = q[k + 1]
                                /\ k + 1 = Len(q) => k = Len(Tail(q))
  BY <1>1, <1>2
<1> DEFINE t == Tail(q)
<1> HIDE DEF t
<1>4. \A k \in DOMAIN t : \E j \in DOMAIN q :
         t[k] = q[j] /\ (j = Len(q) => k = Len(t))
  BY <1>3 DEF t
<1>5. Kept(r, o, t, s)
  BY <1>4 DEF Kept
<1> QED BY <1>1, <1>2, <1>5 DEF t

LEMMA AppendKeeps ==
  ASSUME NEW r, NEW o, NEW q \in Seq(RawEntry), NEW e \in RawEntry, NEW s,
         Kept(r, o, q, s),
         e.gen <= r.gen, e.token <= r.token, r.link = None,
         \A k \in DOMAIN q : ~CurrentLoad(r, q[k]) /\ ~CurrentSave(r, q[k]),
         CurrentLoad(r, e) => Detached(r),
         CurrentSave(r, e) => /\ r.client # NoClient
                              /\ r.pending.kind = "credentials",
         CurrentLoad(r, e) \/ CurrentSave(r, e) =>
             \A p \in o : ~(p.phase = "store" /\ OwnsRecord(r, p))
  PROVE  Kept(r, o, Append(q, e), s) /\ Append(q, e) \in Seq(RawEntry)
<1> DEFINE a == Append(q, e)
<1>1. /\ a \in Seq(RawEntry) /\ Len(a) = Len(q) + 1 /\ Len(q) \in Nat
      /\ \A k \in 1..Len(q) : a[k] = q[k]
      /\ a[Len(q) + 1] = e
      /\ DOMAIN a = 1..(Len(q) + 1) /\ DOMAIN q = 1..Len(q)
  OBVIOUS
<1> HIDE DEF a
<1>2. \A k \in DOMAIN a : \/ k = Len(a) /\ a[k] = e
                          \/ k \in DOMAIN q /\ a[k] = q[k]
  BY <1>1
<1>3. Kept(r, o, a, s)
  BY <1>2 DEF Kept
<1> QED BY <1>1, <1>3 DEF a

\* What is stored does not matter to a window without a link.
LEMMA StoredKeeps ==
  ASSUME NEW r, NEW o, NEW q, NEW s, NEW t, Kept(r, o, q, s), r.link = None
  PROVE  Kept(r, o, q, t)
  BY DEF Kept

\* A new generation leaves everything behind.
LEMMA NewGeneration ==
  ASSUME NEW r \in Raw, NEW d \in Raw, NEW o, NEW q, NEW s,
         Typed(o, q), Kept(r, o, q, s), d.gen > r.gen
  PROVE  /\ \A k \in DOMAIN q : ~CurrentLoad(d, q[k]) /\ ~CurrentSave(d, q[k])
         /\ \A p \in o : ~OwnsRecord(d, p)
<1>1. r.gen \in Nat /\ d.gen \in Nat
  BY DEF Raw
<1>2. /\ \A k \in DOMAIN q : q[k].gen \in Int
      /\ \A p \in o : p.gen \in Int
  BY TypedParts
<1>3. /\ \A k \in DOMAIN q : q[k].gen # d.gen
      /\ \A p \in o : p.gen # d.gen
  BY <1>1, <1>2 DEF Kept
<1> QED BY <1>3 DEF CurrentLoad, CurrentSave, OwnsRecord, IsCurrent

-----------------------------------------------------------------------------
(* Steps.                                                                  *)

LEMMA KinGood ==
  ASSUME NEW r, Good(r), NEW d \in Raw, Kin(r, d),
         d.authority => r.authority, d.connected = r.connected
  PROVE  Good(d) /\ Follows(r, d)
  BY KinFollows DEF Good, Live, Kin

LEMMA Before ==
  ASSUME WInv
  PROVE  /\ Good(rec) /\ rec \in Raw /\ rec.gen = 0 /\ rec.token = 0
         /\ Typed(ops, queue) /\ queue \in Seq(RawEntry)
         /\ Kept(rec, ops, queue, stored)
         /\ stored \in Link \cup {None}
<1>1. rec \in Record
  BY DEF WInv, TypeOK
<1>2. rec \in Raw /\ rec.gen = 0 /\ rec.token = 0
  BY <1>1 DEF Record, Raw
<1> QED BY <1>2 DEF WInv, TypeOK, Good, Typed

\* Rebasing changes nothing that matters.
LEMMA BecomeKeeps ==
  ASSUME NEW r, NEW o, NEW q, Good(r), Typed(o, q), Kept(r, o, q, stored'),
         Become(r, o, q), stored' \in Link \cup {None}, open' \in BOOLEAN,
         faults' \in Faults
  PROVE  WInv'
<1>1. /\ r.gen \in Nat /\ r.token \in Nat /\ r \in Raw
      /\ q \in Seq(RawEntry) /\ DOMAIN q = 1..Len(q) /\ Len(q) \in Nat
  BY DEF Good, Raw, Typed
<1>2. \A k \in DOMAIN q : q[k] \in RawEntry
  BY TypedParts
<1> DEFINE R(x, n) == Rebase(x, n)
<1>3. \A x, n : R(x, n) \in {0, Stale} /\ (R(x, n) = 0 <=> x = n)
  BY DEF Rebase, Stale
<1>4. /\ rec' \in Record /\ Kin([r EXCEPT !.gen = 0, !.token = 0], rec')
      /\ rec'.gen = 0 /\ rec'.token = 0
      /\ rec'.exists = r.exists /\ rec'.op = r.op /\ rec'.link = r.link
      /\ rec'.pending = r.pending /\ rec'.client = r.client
      /\ rec'.authority = r.authority /\ rec'.connected = r.connected
  BY <1>1 DEF Become, Raw, Record, Kin
<1>5. \A p \in ops' : \E c \in o :
         /\ p \in Call /\ p \in RawCall
         /\ p.id = c.id /\ p.phase = c.phase /\ p.gen = R(c.gen, r.gen)
  <2> SUFFICES ASSUME NEW c \in o
               PROVE  LET p == [c EXCEPT !.gen = Rebase(@, r.gen)]
                      IN  /\ p \in Call /\ p \in RawCall
                          /\ p.id = c.id /\ p.phase = c.phase
                          /\ p.gen = R(c.gen, r.gen)
    BY DEF Become
  <2> DEFINE g == R(c.gen, r.gen)
             p == [c EXCEPT !.gen = g]
  <2>1. g \in {0, Stale} /\ g \in Int
    BY <1>3 DEF Stale
  <2> HIDE DEF g
  <2>2. c \in RawCall
    BY DEF Typed
  <2>3. p \in Call /\ p \in RawCall /\ p.id = c.id /\ p.phase = c.phase /\ p.gen = g
    BY <2>1, <2>2 DEF RawCall, Call
  <2> QED BY <2>3 DEF g
<1>6. /\ DOMAIN queue' = DOMAIN q /\ queue' \in Seq(StoreOp)
      /\ queue' \in Seq(RawEntry) /\ Len(queue') = Len(q)
      /\ \A k \in DOMAIN q :
            /\ queue'[k].kind = q[k].kind /\ queue'[k].link = q[k].link
            /\ queue'[k].gen = R(q[k].gen, r.gen)
            /\ queue'[k].token = R(q[k].token, r.token)
  <2> DEFINE E(k) == [q[k] EXCEPT !.gen = R(q[k].gen, r.gen),
                                  !.token = R(q[k].token, r.token)]
  <2>1. ASSUME NEW k \in DOMAIN q
        PROVE  /\ E(k) \in StoreOp /\ E(k) \in RawEntry
               /\ E(k).kind = q[k].kind /\ E(k).link = q[k].link
               /\ E(k).gen = R(q[k].gen, r.gen)
               /\ E(k).token = R(q[k].token, r.token)
    <3> DEFINE e == q[k]
               g == R(q[k].gen, r.gen)
               t == R(q[k].token, r.token)
    <3>1. g \in {0, Stale} /\ t \in {0, Stale} /\ g \in Int /\ t \in Int
      BY <1>3 DEF Stale
    <3>2. e \in RawEntry
      BY <1>2
    <3>3. E(k) = [e EXCEPT !.gen = g, !.token = t]
      OBVIOUS
    <3> HIDE DEF e, g, t, E
    <3>4. /\ E(k) \in StoreOp /\ E(k) \in RawEntry
          /\ E(k).kind = e.kind /\ E(k).link = e.link
          /\ E(k).gen = g /\ E(k).token = t
      BY <3>1, <3>2, <3>3 DEF RawEntry, StoreOp
    <3> QED BY <3>4 DEF e, g, t
  <2>2. queue' = [k \in DOMAIN q |-> E(k)]
    BY DEF Become
  <2> HIDE DEF E, R
  <2>3. queue' = [k \in 1..Len(q) |-> E(k)]
    BY <1>1, <2>2
  <2>4. queue' \in Seq(StoreOp) /\ queue' \in Seq(RawEntry)
    <3>1. \A k \in 1..Len(q) : E(k) \in StoreOp /\ E(k) \in RawEntry
      BY <1>1, <2>1
    <3> QED BY <1>1, <2>3, <3>1
  <2>5. Len(queue') = Len(q)
    BY <1>1, <2>3, <2>4
  <2> QED BY <2>1, <2>2, <2>4, <2>5
<1>7. TypeOK'
  <2>1. ops' \subseteq Call
    BY <1>5
  <2> QED BY <1>4, <1>6, <2>1 DEF TypeOK
<1>8. Live(rec')
  BY <1>4 DEF Good, Live
<1>9. Typed(ops', queue')
  BY <1>5, <1>6 DEF Typed
<1>10. Kept(rec', ops', queue', stored')
  <2> HIDE DEF R
  <2>1. \A k \in DOMAIN q :
            /\ CurrentLoad(rec', queue'[k]) <=> CurrentLoad(r, q[k])
            /\ CurrentSave(rec', queue'[k]) <=> CurrentSave(r, q[k])
    BY <1>3, <1>4, <1>6 DEF CurrentLoad, CurrentSave
  <2>2. Detached(rec') <=> Detached(r)
    BY <1>4 DEF Detached
  <2>3. \A p \in ops' : p.phase = "store" /\ OwnsRecord(rec', p) =>
            \E c \in o : c.phase = "store" /\ OwnsRecord(r, c)
    BY <1>3, <1>4, <1>5 DEF OwnsRecord, IsCurrent
  <2>4. \A k \in DOMAIN queue' :
            queue'[k].gen <= rec'.gen /\ queue'[k].token <= rec'.token
    BY <1>3, <1>4, <1>6 DEF Stale
  <2>5. \A p \in ops' : p.gen <= rec'.gen
    BY <1>3, <1>4, <1>5 DEF Stale
  <2>6. /\ rec'.link # None =>
               stored' = rec'.link /\ \A k \in DOMAIN queue' : queue'[k].kind = "load"
        /\ rec'.pending # NoPending => rec'.link = None
    BY <1>4, <1>6 DEF Kept
  <2>7. \A k \in DOMAIN queue' :
           /\ CurrentLoad(rec', queue'[k]) => k = Len(queue') /\ Detached(rec')
           /\ CurrentSave(rec', queue'[k]) =>
                  /\ k = Len(queue')
                  /\ rec'.client # NoClient /\ rec'.link = None
                  /\ rec'.pending.kind = "credentials"
    BY <1>4, <1>6, <2>1, <2>2 DEF Kept
  <2>8. \A p \in ops' : p.phase = "store" /\ OwnsRecord(rec', p) =>
            /\ Detached(rec')
            /\ \A k \in DOMAIN queue' : /\ ~CurrentLoad(rec', queue'[k])
                                        /\ ~CurrentSave(rec', queue'[k])
    BY <1>6, <2>1, <2>2, <2>3 DEF Kept
  <2> QED BY <2>4, <2>5, <2>6, <2>7, <2>8 DEF Kept
<1> QED BY <1>7, <1>8, <1>9, <1>10 DEF WInv

\* A step of the record that ends calls at most.
LEMMA StepKeeps ==
  ASSUME WInv, NEW d, NEW o, Good(d), Follows(rec, d), o \subseteq ops,
         Become(d, o, queue), UNCHANGED <<open, stored, faults>>
  PROVE  WInv'
<1>1. Kept(d, ops, queue, stored)
  BY Before, FollowsKeeps DEF Good
<1>2. Kept(d, o, queue, stored)
  BY <1>1 DEF Kept
<1>3. Typed(o, queue)
  BY Before DEF Typed
<1>4. open' \in BOOLEAN /\ faults' \in Faults
  BY DEF WInv, TypeOK
<1> QED BY <1>2, <1>3, <1>4, Before, BecomeKeeps

-----------------------------------------------------------------------------
(* Panels and tabs.                                                        *)

\* A new generation that has nothing queues a load of what is stored.
LEMMA LoadKeeps ==
  ASSUME WInv, NEW n, Good(n), Detached(n), n.gen > 0,
         Become(n, ops, Enqueue(queue, Entry("load", None, n, None))),
         UNCHANGED <<open, stored, faults>>
  PROVE  WInv'
<1> DEFINE e == Entry("load", None, n, None)
<1>1. n.gen \in Nat /\ n.token \in Nat /\ n \in Raw
  BY DEF Good, Raw
<1>2. e \in RawEntry /\ e.gen = n.gen /\ e.token = n.token /\ e.kind = "load"
  BY <1>1 DEF Entry, RawEntry
<1> HIDE DEF e
<1>3. /\ \A k \in DOMAIN queue : /\ queue[k].gen \in Int /\ queue[k].gen <= 0
                                 /\ queue[k].token \in Int /\ queue[k].token <= 0
      /\ \A p \in ops : p.gen \in Int /\ p.gen <= 0
  BY Before, TypedParts DEF Kept
<1>4. /\ \A k \in DOMAIN queue : ~CurrentLoad(n, queue[k]) /\ ~CurrentSave(n, queue[k])
      /\ \A p \in ops : ~OwnsRecord(n, p)
      /\ \A k \in DOMAIN queue : queue[k].gen <= n.gen /\ queue[k].token <= n.token
      /\ \A p \in ops : p.gen <= n.gen
  BY <1>1, <1>3 DEF CurrentLoad, CurrentSave, OwnsRecord, IsCurrent
<1>5. Kept(n, ops, queue, stored)
  BY <1>4 DEF Kept, Detached
<1>6. /\ Kept(n, ops, Append(queue, e), stored)
      /\ Append(queue, e) \in Seq(RawEntry)
  BY <1>1, <1>2, <1>4, <1>5, Before, AppendKeeps DEF Detached, CurrentSave
<1>7. Typed(ops, Append(queue, e))
  BY <1>6, Before DEF Typed
<1>8. Become(n, ops, Append(queue, e))
  BY DEF Enqueue, e
<1>9. open' \in BOOLEAN /\ faults' \in Faults
  BY DEF WInv, TypeOK
<1> QED BY <1>6, <1>7, <1>8, <1>9, Before, BecomeKeeps

\* A record that is the window's, or a new one.
LEMMA ActivateKeeps ==
  ASSUME WInv, NEW r, Good(r),
         \/ Follows(rec, r)
         \/ ~rec.exists /\ r.gen = 0 /\ LoadsStoredLink(r),
         Activate(r), UNCHANGED <<open, stored, faults>>
  PROVE  WInv'
<1>1. CASE LoadsStoredLink(r)
  <2> DEFINE n == [r EXCEPT !.gen = @ + 1]
  <2>1. r.gen \in Nat /\ r.gen + 1 \in Nat
    BY DEF Good, Raw
  <2>2. /\ n \in Raw /\ n.gen = r.gen + 1 /\ n.client = r.client
        /\ n.link = r.link /\ n.pending = r.pending
        /\ n.authority = r.authority /\ n.connected = r.connected
    BY <2>1 DEF Good, Raw
  <2>3. Become(n, ops, Enqueue(queue, Entry("load", None, n, None)))
    BY <1>1 DEF Activate
  <2> HIDE DEF n
  <2>4. Good(n) /\ Detached(n) /\ n.gen > 0
    BY <1>1, <2>1, <2>2 DEF Good, Live, Detached, LoadsStoredLink
  <2> QED BY <2>3, <2>4, LoadKeeps
<1>2. CASE ~LoadsStoredLink(r)
  <2>1. Good(Activated(r)) /\ Follows(r, Activated(r))
    BY ActivatedGood
  <2>2. Follows(rec, Activated(r))
    BY <1>2, <2>1, Before, FollowsTransitive DEF Good
  <2>3. Become(Activated(r), ops, queue)
    BY <1>2 DEF Activate
  <2> QED BY <2>1, <2>2, <2>3, StepKeeps
<1> QED BY <1>1, <1>2

LEMMA NewRecordGood ==
  /\ Good(NewRecord) /\ Good(Absent) /\ Detached(NewRecord) /\ Detached(Absent)
  /\ NewRecord.gen = 0 /\ NewRecord.panels = {} /\ NewRecord.tabs = {}
  /\ NewRecord.state = "notLinked" /\ ~Absent.exists
  /\ Absent \in Record
<1>1. 0 \in 0..MaxAttempts
  BY WindowAssumption
<1>2. NewRecord \in Raw /\ Absent \in Raw /\ Absent \in Record
  BY <1>1, NullsTyped DEF NewRecord, Absent, Raw, Record, States
<1> QED BY <1>2 DEF NewRecord, Absent, Good, Live, Detached

\* A panel or a tab joins the record.
LEMMA OwnersGood ==
  ASSUME NEW r, Good(r), NEW P \in SUBSET Panel, NEW T \in SUBSET Tab,
         NEW d, d = [r EXCEPT !.panels = P, !.tabs = T]
  PROVE  /\ Good(d) /\ Follows(r, d) /\ Kin(r, d)
         /\ d.panels = P /\ d.tabs = T /\ d.state = r.state
<1>1. /\ d \in Raw /\ Kin(r, d) /\ d.authority = r.authority
      /\ d.connected = r.connected /\ d.panels = P /\ d.tabs = T
      /\ d.state = r.state
  BY DEF Good, Raw, Kin
<1>2. Good(d) /\ Follows(r, d)
  BY <1>1, KinGood
<1> QED BY <1>1, <1>2

LEMMA JoinKeeps ==
  ASSUME WInv, NEW P \in SUBSET Panel, NEW T \in SUBSET Tab,
         LET r == [RecordFor EXCEPT !.panels = P, !.tabs = T]
         IN  Activate(r) \/ (rec.exists /\ Become(r, ops, queue)),
         UNCHANGED <<open, stored, faults>>
  PROVE  WInv'
<1> DEFINE r == [RecordFor EXCEPT !.panels = P, !.tabs = T]
<1>1. CASE rec.exists
  <2>1. RecordFor = rec
    BY <1>1 DEF RecordFor
  <2>2. Good(r) /\ Follows(rec, r)
    BY <2>1, Before, OwnersGood
  <2>3. Activate(r) \/ Become(r, ops, queue)
    OBVIOUS
  <2> HIDE DEF r
  <2> QED BY <2>2, <2>3, ActivateKeeps, StepKeeps
<1>2. CASE ~rec.exists
  <2>1. RecordFor = NewRecord
    BY <1>2 DEF RecordFor
  <2> DEFINE d == [NewRecord EXCEPT !.panels = P, !.tabs = T]
  <2>0. Good(NewRecord) /\ NewRecord.state = "notLinked"
    BY NewRecordGood
  <2>5. Good(d) /\ Kin(NewRecord, d) /\ d.state = NewRecord.state
    BY <2>0, OwnersGood
  <2>6. r = d
    BY <2>1
  <2> HIDE DEF d
  <2>2. Good(r) /\ Kin(NewRecord, r) /\ r.state = "notLinked"
    BY <2>0, <2>5, <2>6
  <2>3. Activate(r)
    BY <1>2
  <2> HIDE DEF r
  <2>4. r.gen = 0 /\ LoadsStoredLink(r)
    BY <2>2, NewRecordGood DEF Kin, LoadsStoredLink, Detached
  <2> QED BY <1>2, <2>2, <2>3, <2>4, ActivateKeeps
<1> QED BY <1>1, <1>2

LEMMA RecordForTyped ==
  ASSUME WInv
  PROVE  /\ RecordFor \in Raw
         /\ ~rec.exists => RecordFor.panels = {} /\ RecordFor.tabs = {}
  BY Before, NewRecordGood DEF RecordFor, Good

LEMMA RegisterPanelKeeps ==
  ASSUME WInv, NEW pn \in Panel, RegisterPanel(pn)
  PROVE  WInv'
<1> DEFINE P == RecordFor.panels \cup {pn}
           T == RecordFor.tabs
           r == [RecordFor EXCEPT !.panels = @ \cup {pn}]
<1>1. P \in SUBSET Panel /\ T \in SUBSET Tab
  BY RecordForTyped DEF Raw
<1>2. r = [RecordFor EXCEPT !.panels = P, !.tabs = T] /\ r.panels = P
  BY RecordForTyped DEF Raw
<1>3. ~rec.exists => Cardinality(P) = 1
  BY RecordForTyped, FS_Singleton
<1>4. /\ Cardinality(r.panels) = 1 => Activate(r)
      /\ Cardinality(r.panels) # 1 => Become(r, ops, queue)
      /\ UNCHANGED <<open, stored, faults>>
  BY DEF RegisterPanel
<1>5. Activate(r) \/ (rec.exists /\ Become(r, ops, queue))
  BY <1>2, <1>3, <1>4
<1> HIDE DEF P, T, r
<1> QED BY <1>1, <1>2, <1>4, <1>5, JoinKeeps

LEMMA AddParticipantKeeps ==
  ASSUME WInv, NEW t \in Tab, AddParticipant(t)
  PROVE  WInv'
<1> DEFINE P == RecordFor.panels
           T == RecordFor.tabs \cup {t}
           r == [RecordFor EXCEPT !.tabs = @ \cup {t}]
<1>1. P \in SUBSET Panel /\ T \in SUBSET Tab
  BY RecordForTyped DEF Raw
<1>2. r = [RecordFor EXCEPT !.panels = P, !.tabs = T] /\ r.panels = P
  BY RecordForTyped DEF Raw
<1>3. ~rec.exists => P = {}
  BY RecordForTyped
<1>4. /\ r.panels = {} => Activate(r)
      /\ r.panels # {} => Become(r, ops, queue)
      /\ UNCHANGED <<open, stored, faults>>
  BY DEF AddParticipant
<1>5. Activate(r) \/ (rec.exists /\ Become(r, ops, queue))
  BY <1>2, <1>3, <1>4
<1> HIDE DEF P, T, r
<1> QED BY <1>1, <1>2, <1>4, <1>5, JoinKeeps

LEMMA ReleasedIfUnownedGood ==
  ASSUME NEW r, Good(r)
  PROVE  Good(ReleasedIfUnowned(r)) /\ Follows(r, ReleasedIfUnowned(r))
  BY ReleasedGood, FollowsSelf DEF ReleasedIfUnowned, Good

LEMMA RemoveParticipantKeeps ==
  ASSUME WInv, NEW t \in Tab, RemoveParticipant(t)
  PROVE  WInv'
<1> DEFINE r == [rec EXCEPT !.tabs = @ \ {t}]
           d == ReleasedIfUnowned(r)
           T == rec.tabs \ {t}
           P == rec.panels
<1>1. P \in SUBSET Panel /\ T \in SUBSET Tab
  BY Before DEF Raw
<1>2. r = [rec EXCEPT !.panels = P, !.tabs = T]
  BY Before DEF Raw
<1>3. Become(d, ops, queue) /\ UNCHANGED <<open, stored, faults>>
  BY DEF RemoveParticipant
<1> HIDE DEF P, T, r
<1>4. Good(r) /\ Follows(rec, r)
  BY <1>1, <1>2, Before, OwnersGood
<1>5. Good(d) /\ Follows(r, d)
  BY <1>4, ReleasedIfUnownedGood
<1>6. Follows(rec, d)
  BY <1>4, <1>5, Before, FollowsTransitive DEF Good
<1> HIDE DEF d
<1> QED BY <1>3, <1>5, <1>6, StepKeeps

LEMMA ClearedGood ==
  ASSUME NEW r, Good(r), NEW id
  PROVE  Good(Cleared(r, id)) /\ Follows(r, Cleared(r, id))
<1> DEFINE d == [r EXCEPT !.op = None]
<1>1. Cleared(r, id) \in {r, d}
  BY DEF Cleared
<1>2. /\ d \in Raw /\ d.exists = r.exists /\ d.gen = r.gen /\ d.token = r.token
      /\ d.op = None /\ d.link = r.link /\ d.pending = r.pending
      /\ d.client = r.client /\ d.authority = r.authority
      /\ d.connected = r.connected
  BY DEF Good, Raw
<1> HIDE DEF d
<1>3. Good(d)
  BY <1>2 DEF Good, Live
<1>4. Follows(r, d)
  <2>1. r.gen \in Nat /\ r.token \in Nat
    BY DEF Good, Raw
  <2> QED BY <1>2, <2>1 DEF Follows
<1> QED BY <1>1, <1>3, <1>4, FollowsSelf DEF Good

LEMMA AbortedRecordGood ==
  ASSUME NEW r, Good(r), NEW p
  PROVE  Good(AbortedRecord(r, p)) /\ Follows(r, AbortedRecord(r, p))
<1>1. CASE p.phase = "store" /\ OwnsRecord(r, p)
  <2> DEFINE d == [r EXCEPT !.op = None]
  <2>1. d = Cleared(r, r.op)
    BY DEF Cleared
  <2>2. Good(d) /\ Follows(r, d)
    BY <2>1, ClearedGood
  <2>3. AbortedRecord(r, p) = Forget(d, "notLinked")
    BY <1>1 DEF AbortedRecord
  <2> HIDE DEF d
  <2>4. Good(Forget(d, "notLinked")) /\ Follows(d, Forget(d, "notLinked"))
    BY <2>2, ForgetGood DEF States
  <2> QED BY <2>2, <2>3, <2>4, FollowsTransitive DEF Good
<1>2. CASE ~(p.phase = "store" /\ OwnsRecord(r, p))
  <2>1. AbortedRecord(r, p) \in {r, Cleared(r, p.id)}
    BY <1>2 DEF AbortedRecord
  <2> QED BY <2>1, ClearedGood, FollowsSelf DEF Good
<1> QED BY <1>1, <1>2

LEMMA AbortKeeps ==
  ASSUME WInv, NEW d, Good(d), Follows(rec, d), NEW p,
         Become(d, ops \ {p}, AbortedQueue(p)),
         UNCHANGED <<open, stored, faults>>
  PROVE  WInv'
<1>1. Kept(d, ops \ {p}, queue, stored)
  <2>1. Kept(d, ops, queue, stored)
    BY Before, FollowsKeeps DEF Good
  <2> QED BY <2>1 DEF Kept
<1> DEFINE u == AbortedQueue(p)
<1>2. /\ DOMAIN u = DOMAIN queue /\ Len(u) = Len(queue) /\ u \in Seq(RawEntry)
      /\ \A k \in DOMAIN queue : /\ u[k].kind = queue[k].kind
                                 /\ u[k].gen = queue[k].gen
                                 /\ u[k].token = queue[k].token
  <2> DEFINE E(k) == [queue[k] EXCEPT !.aborted = @ \/ queue[k].op = p.id]
  <2>1. ASSUME NEW k \in DOMAIN queue
        PROVE  /\ E(k) \in RawEntry /\ E(k).kind = queue[k].kind
               /\ E(k).gen = queue[k].gen /\ E(k).token = queue[k].token
    <3>1. queue[k] \in RawEntry
      BY Before, TypedParts
    <3> DEFINE b == queue[k].aborted \/ queue[k].op = p.id
    <3>2. b \in BOOLEAN /\ E(k) = [queue[k] EXCEPT !.aborted = b]
      BY <3>1 DEF RawEntry
    <3> HIDE DEF b, E
    <3> QED BY <3>1, <3>2 DEF RawEntry
  <2>2. u = [k \in DOMAIN queue |-> E(k)]
    BY DEF AbortedQueue
  <2>3. DOMAIN queue = 1..Len(queue) /\ Len(queue) \in Nat
    BY Before
  <2> HIDE DEF E, u
  <2>4. u = [k \in 1..Len(queue) |-> E(k)] /\ u \in Seq(RawEntry)
    BY <2>1, <2>2, <2>3
  <2>5. Len(u) = Len(queue)
    BY <2>3, <2>4
  <2> QED BY <2>1, <2>2, <2>4, <2>5
<1> HIDE DEF u
<1>3. Kept(d, ops \ {p}, u, stored)
  BY <1>1, <1>2, MarksKeep
<1>4. Typed(ops \ {p}, u)
  BY <1>2, Before DEF Typed
<1>5. Become(d, ops \ {p}, u)
  BY DEF u
<1>6. open' \in BOOLEAN /\ faults' \in Faults
  BY DEF WInv, TypeOK
<1> QED BY <1>3, <1>4, <1>5, <1>6, Before, BecomeKeeps

LEMMA DisposePanelKeeps ==
  ASSUME WInv, NEW pn \in Panel, DisposePanel(pn)
  PROVE  WInv'
<1> DEFINE gone(r) == ReleasedIfUnowned([r EXCEPT !.panels = @ \ {pn}])
<1>1. ASSUME NEW r, Good(r), Follows(rec, r)
      PROVE  Good(gone(r)) /\ Follows(rec, gone(r))
  <2> DEFINE P == r.panels \ {pn}
             T == r.tabs
             d == [r EXCEPT !.panels = @ \ {pn}]
  <2>1. P \in SUBSET Panel /\ T \in SUBSET Tab
    BY <1>1 DEF Good, Raw
  <2>2. d = [r EXCEPT !.panels = P, !.tabs = T]
    BY <1>1 DEF Good, Raw
  <2> HIDE DEF P, T, d
  <2>3. Good(d) /\ Follows(r, d)
    BY <1>1, <2>1, <2>2, OwnersGood
  <2>4. Good(ReleasedIfUnowned(d)) /\ Follows(d, ReleasedIfUnowned(d))
    BY <2>3, ReleasedIfUnownedGood
  <2>5. Follows(rec, d)
    BY <1>1, <2>3, Before, FollowsTransitive DEF Good
  <2>6. Follows(rec, ReleasedIfUnowned(d))
    BY <2>3, <2>4, <2>5, Before, FollowsTransitive DEF Good
  <2> QED BY <2>4, <2>6 DEF d
<1>2. UNCHANGED <<open, stored, faults>>
  BY DEF DisposePanel
<1>3. \/ Become(gone(rec), ops, queue)
      \/ \E p \in ops : Become(gone(AbortedRecord(rec, p)), ops \ {p}, AbortedQueue(p))
  BY DEF DisposePanel
<1> HIDE DEF gone
<1>4. CASE Become(gone(rec), ops, queue)
  <2>1. Follows(rec, rec)
    BY Before, FollowsSelf
  <2> QED BY <1>1, <1>2, <1>4, <2>1, Before, StepKeeps
<1>5. ASSUME NEW p \in ops,
             Become(gone(AbortedRecord(rec, p)), ops \ {p}, AbortedQueue(p))
      PROVE  WInv'
  <2>1. Good(AbortedRecord(rec, p)) /\ Follows(rec, AbortedRecord(rec, p))
    BY Before, AbortedRecordGood
  <2> QED BY <1>1, <1>2, <1>5, <2>1, AbortKeeps
<1> QED BY <1>3, <1>4, <1>5

LEMMA AbortCallKeeps ==
  ASSUME WInv, NEW p, AbortCall(p)
  PROVE  WInv'
<1>1. Good(AbortedRecord(rec, p)) /\ Follows(rec, AbortedRecord(rec, p))
  BY Before, AbortedRecordGood
<1> QED BY <1>1, AbortKeeps DEF AbortCall

-----------------------------------------------------------------------------
(* The calls.                                                              *)

\* A call begins that awaits its cleanup; no other call has its identity.
LEMMA CallBegins ==
  ASSUME WInv, NEW o, Free(o), NEW p \in RawCall, p.phase = "cleanup", p.gen <= 0,
         NEW d \in {rec, [rec EXCEPT !.op = o]}, o \in Op,
         Become(d, ops \cup {p}, queue),
         open' \in BOOLEAN, UNCHANGED <<stored, faults>>
  PROVE  WInv'
<1>1. /\ d \in Raw /\ d.gen = rec.gen /\ d.exists = rec.exists
      /\ d.token = rec.token /\ d.link = rec.link /\ d.pending = rec.pending
      /\ d.client = rec.client /\ d.authority = rec.authority
      /\ d.connected = rec.connected /\ d.op \in {rec.op, o}
  BY Before DEF Raw
<1>2. Good(d)
  BY <1>1, Before DEF Good, Live
<1>3. Kin([rec EXCEPT !.op = d.op], d)
  <2> DEFINE n == d.op
             c == [rec EXCEPT !.op = n]
  <2> HIDE DEF n
  <2>1. /\ c.exists = rec.exists /\ c.gen = rec.gen /\ c.token = rec.token
        /\ c.link = rec.link /\ c.pending = rec.pending /\ c.client = rec.client
        /\ c.op = n
    BY Before DEF Raw
  <2> HIDE DEF c
  <2>2. Kin(c, d)
    BY <1>1, <2>1 DEF Kin, n
  <2> QED BY <2>2 DEF c, n
<1>4. \A c \in ops \cup {p} : c.gen <= rec.gen
  BY Before DEF Kept
<1>5. \A c \in ops \cup {p} :
         c.phase = "store" /\ c.id = d.op => c \in ops /\ rec.op = d.op
  BY <1>1 DEF Free
<1>6. Kept(d, ops \cup {p}, queue, stored)
  BY <1>1, <1>3, <1>4, <1>5, Before, CallsKeep
<1>7. Typed(ops \cup {p}, queue)
  BY Before DEF Typed
<1>8. faults' \in Faults
  BY DEF WInv, TypeOK
<1> QED BY <1>2, <1>6, <1>7, <1>8, Before, BecomeKeeps

LEMMA NewCallTyped ==
  ASSUME WInv, NEW o \in Op, NEW kind \in {"link", "unlink", "remove"},
         NEW l \in Link \cup {None}, NEW pn \in Panel \cup {None},
         kind = "link" => l # None
  PROVE  LET p == NewCall(o, kind, l, pn)
         IN  /\ p \in RawCall /\ p.phase = "cleanup" /\ p.gen <= 0
             /\ p.kind = kind /\ p.link = l /\ p.id = o
<1> DEFINE g == IF rec.exists THEN rec.gen ELSE Stale
<1>1. g \in Int /\ g <= 0
  BY Before DEF Stale
<1>2. rec.exists \in BOOLEAN
  BY Before DEF Raw
<1> HIDE DEF g
<1>3. NewCall(o, kind, l, pn) =
        [ id |-> o, kind |-> kind, phase |-> "cleanup", gen |-> g,
          link |-> l, panel |-> pn, known |-> rec.exists ]
  BY DEF NewCall, g
<1> QED BY <1>1, <1>2, <1>3 DEF RawCall

\* The record is emptied in a new generation, which the call owns, and the
\* removal of what is stored is queued.
LEMMA BeginStoreKeeps ==
  ASSUME WInv, NEW p \in RawCall, NEW d, Good(d), Detached(d), d.gen > 0,
         NEW kind \in {"linkRemove", "unlinkRemove", "remove"},
         kind = "linkRemove" => p.link # None,
         NEW o, o \subseteq ops,
         BeginStore(p, d, kind, o), UNCHANGED <<open, stored, faults>>
  PROVE  WInv'
<1> DEFINE c == [p EXCEPT !.phase = "store", !.gen = d.gen]
           e == Entry(kind, p.id, d, p.link)
           u == o \cup {c}
<1>1. d.gen \in Nat /\ d.token \in Nat /\ d \in Raw
  BY DEF Good, Raw
<1>2. /\ c \in RawCall /\ c.gen = d.gen
      /\ p.id \in Op /\ p.link \in Link \cup {None}
  <2> DEFINE g == d.gen
  <2>1. g \in Int
    BY <1>1
  <2>2. c = [p EXCEPT !.phase = "store", !.gen = g]
    OBVIOUS
  <2> HIDE DEF c, g
  <2>3. c \in RawCall /\ c.gen = g
    BY <2>1, <2>2 DEF RawCall
  <2> QED BY <2>3 DEF RawCall, g
<1>3. e \in RawEntry /\ e.gen = d.gen /\ e.token = d.token /\ e.kind = kind
  BY <1>1, <1>2 DEF Entry, RawEntry
<1>4. Become(d, u, Append(queue, e))
  BY DEF BeginStore, Enqueue
<1> HIDE DEF c, e
<1>5. /\ \A k \in DOMAIN queue : /\ queue[k].gen \in Int /\ queue[k].gen <= 0
                                 /\ queue[k].token \in Int /\ queue[k].token <= 0
      /\ \A q \in o : q.gen \in Int /\ q.gen <= 0
  BY Before, TypedParts DEF Kept
<1>6. /\ \A k \in DOMAIN queue : ~CurrentLoad(d, queue[k]) /\ ~CurrentSave(d, queue[k])
      /\ \A k \in DOMAIN queue : queue[k].gen <= d.gen /\ queue[k].token <= d.token
      /\ \A q \in u : q.gen <= d.gen
  BY <1>1, <1>2, <1>5 DEF CurrentLoad, CurrentSave
<1>7. Kept(d, u, queue, stored)
  BY <1>6 DEF Kept, Detached
<1>8. ~CurrentLoad(d, e) /\ ~CurrentSave(d, e)
  BY <1>3 DEF CurrentLoad, CurrentSave
<1>9. /\ Kept(d, u, Append(queue, e), stored)
      /\ Append(queue, e) \in Seq(RawEntry)
  <2>1. e.gen <= d.gen /\ e.token <= d.token
    BY <1>1, <1>3
  <2> HIDE DEF u
  <2> QED BY <1>3, <1>6, <1>7, <1>8, <2>1, Before, AppendKeeps DEF Detached
<1>10. Typed(u, Append(queue, e))
  BY <1>2, <1>9, Before DEF Typed
<1>11. open' \in BOOLEAN /\ faults' \in Faults
  BY DEF WInv, TypeOK
<1> HIDE DEF u
<1> QED BY <1>4, <1>9, <1>10, <1>11, Before, BecomeKeeps

LEMMA LinkWindowKeeps ==
  ASSUME WInv, NEW o \in Op, NEW l \in Link, NEW pn \in Panel,
         LinkWindow(o, l, pn)
  PROVE  WInv'
<1> DEFINE p == NewCall(o, "link", l, pn)
           r == [rec EXCEPT !.op = o]
<1>1. /\ p \in RawCall /\ p.phase = "cleanup" /\ p.gen <= 0
      /\ p.link = l /\ l # None
  BY NewCallTyped, WindowAssumption
<1>2. /\ Free(o) /\ UNCHANGED <<open, stored, faults>>
      /\ \/ Become(r, ops \cup {p}, queue)
         \/ BeginStore(p, Forget(r, "linking"), "linkRemove", ops)
  BY DEF LinkWindow
<1>3. open' \in BOOLEAN
  BY <1>2 DEF WInv, TypeOK
<1>4. CASE Become(r, ops \cup {p}, queue)
  <2> HIDE DEF p
  <2> QED BY <1>1, <1>2, <1>3, <1>4, CallBegins
<1>5. CASE BeginStore(p, Forget(r, "linking"), "linkRemove", ops)
  <2>1. Good(r) /\ r.gen = 0
    <3>1. /\ r \in Raw /\ r.gen = rec.gen /\ r.client = rec.client
          /\ r.authority = rec.authority /\ r.connected = rec.connected
      BY Before DEF Raw
    <3> QED BY <3>1, Before DEF Good, Live
  <2> HIDE DEF p, r
  <2>2. Good(Forget(r, "linking")) /\ Detached(Forget(r, "linking"))
        /\ Forget(r, "linking").gen = 1
    BY <2>1, ForgetGood DEF States
  <2> QED BY <1>1, <1>2, <1>5, <2>2, BeginStoreKeeps
<1> QED BY <1>2, <1>4, <1>5

LEMMA UnlinkWindowKeeps ==
  ASSUME WInv, NEW o \in Op, NEW pn \in Panel, UnlinkWindow(o, pn)
  PROVE  WInv'
<1> DEFINE p == NewCall(o, "unlink", None, pn)
<1>1. p \in RawCall /\ p.phase = "cleanup" /\ p.gen <= 0
  BY NewCallTyped
<1>2. /\ Free(o) /\ UNCHANGED <<open, stored, faults>>
      /\ Become([rec EXCEPT !.op = o], ops \cup {p}, queue)
  BY DEF UnlinkWindow
<1>3. open' \in BOOLEAN
  BY <1>2 DEF WInv, TypeOK
<1> HIDE DEF p
<1> QED BY <1>1, <1>2, <1>3, CallBegins

LEMMA RemoveWindowKeeps ==
  ASSUME WInv, NEW o \in Op, RemoveWindow(o)
  PROVE  WInv'
<1> DEFINE p == NewCall(o, "remove", None, None)
           d == IF rec.exists THEN [rec EXCEPT !.op = o] ELSE rec
<1>1. p \in RawCall /\ p.phase = "cleanup" /\ p.gen <= 0
  BY NewCallTyped
<1>2. /\ Free(o) /\ UNCHANGED <<stored, faults>> /\ open' = FALSE
      /\ Become(d, ops \cup {p}, queue)
  BY DEF RemoveWindow
<1>3. d \in {rec, [rec EXCEPT !.op = o]}
  OBVIOUS
<1> HIDE DEF p, d
<1> QED BY <1>1, <1>2, <1>3, CallBegins

LEMMA CleanupDoneKeeps ==
  ASSUME WInv, NEW p \in ops, CleanupDone(p)
  PROVE  WInv'
<1>1. UNCHANGED <<open, stored, faults>>
  BY DEF CleanupDone
<1>2. p \in RawCall /\ p.kind \in {"link", "unlink", "remove"}
      /\ (p.kind = "link" => p.link # None)
  BY Before DEF Typed, RawCall
<1>3. "linking" \in States /\ "notLinked" \in States
  BY DEF States
<1>4. CASE ~Proceeds(p)
  <2>1. Become(Cleared(rec, p.id), ops \ {p}, queue)
    BY <1>4 DEF CleanupDone, Overtaken
  <2>2. Good(Cleared(rec, p.id)) /\ Follows(rec, Cleared(rec, p.id))
    BY Before, ClearedGood
  <2> QED BY <1>1, <2>1, <2>2, StepKeeps
<1>5. CASE Proceeds(p) /\ p.kind = "link"
  <2>1. BeginStore(p, Forget(rec, "linking"), "linkRemove", ops \ {p})
    BY <1>5 DEF CleanupDone
  <2>2. Good(Forget(rec, "linking")) /\ Detached(Forget(rec, "linking"))
        /\ Forget(rec, "linking").gen = 1
    BY <1>3, Before, ForgetGood
  <2> QED BY <1>1, <1>2, <1>5, <2>1, <2>2, BeginStoreKeeps
<1>6. CASE Proceeds(p) /\ p.kind = "unlink"
  <2> DEFINE f == Forget(rec, "notLinked")
             d == [f EXCEPT !.tabs = {}]
  <2>1. BeginStore(p, d, "unlinkRemove", ops \ {p})
    BY <1>6 DEF CleanupDone
  <2>2. Good(f) /\ Detached(f) /\ f.gen = 1
    BY <1>3, Before, ForgetGood
  <2>3. d = [f EXCEPT !.tabs = {}]
    OBVIOUS
  <2> HIDE DEF f, d
  <2>4. /\ d \in Raw /\ Kin(f, d) /\ d.authority = f.authority
        /\ d.connected = f.connected
    BY <2>2, <2>3 DEF Good, Raw, Kin
  <2>5. Good(d) /\ Detached(d) /\ d.gen > 0
    BY <2>2, <2>4, KinGood DEF Kin, Detached
  <2> QED BY <1>1, <1>2, <1>6, <2>1, <2>5, BeginStoreKeeps
<1>7. CASE Proceeds(p) /\ p.kind = "remove"
  <2> DEFINE d == [Absent EXCEPT !.gen = rec.gen + 1, !.token = rec.token + 1]
  <2>1. BeginStore(p, d, "remove", ops \ {p})
    BY <1>7 DEF CleanupDone
  <2>2. d = [Absent EXCEPT !.gen = 1, !.token = 1]
    <3>1. rec.gen + 1 = 1 /\ rec.token + 1 = 1
      BY Before
    <3> QED BY <3>1
  <2> HIDE DEF d
  <2>3. /\ d \in Raw /\ d.gen = 1 /\ d.client = Absent.client
        /\ d.link = Absent.link /\ d.pending = Absent.pending
        /\ d.authority = Absent.authority /\ d.connected = Absent.connected
    BY <2>2, NewRecordGood DEF Good, Raw
  <2>4. Good(d) /\ Detached(d) /\ d.gen > 0
    BY <2>3, NewRecordGood DEF Good, Live, Detached
  <2> QED BY <1>1, <1>2, <1>7, <2>1, <2>4, BeginStoreKeeps
<1> QED BY <1>2, <1>4, <1>5, <1>6, <1>7

-----------------------------------------------------------------------------
(* The socket and the timer.                                               *)

LEMMA SettleKeeps ==
  ASSUME WInv, NEW d, Good(d), Follows(rec, d), Settle(d, queue)
  PROVE  WInv'
  BY StepKeeps DEF Settle

\* The client says other things of itself than before, or is another one.
LEMMA ReportKeeps ==
  ASSUME WInv, NEW r \in Raw, Kin([rec EXCEPT !.client = r.client], r),
         r.client # NoClient,
         rec.client # NoClient \/ rec.link # None,
         r.client.state = rec.client.state,
         r.authority => rec.authority /\ r.connected,
         NEW s \in ClientStates \ {"none"},
         Settle(ClientState(r, s), queue)
  PROVE  WInv'
<1>1. /\ r.exists = rec.exists /\ r.gen = rec.gen /\ r.token = rec.token
      /\ r.op = rec.op /\ r.link = rec.link /\ r.pending = rec.pending
      /\ rec.gen = 0 /\ rec.token = 0
  BY Before DEF Kin, Raw
<1>2. Follows(rec, r)
  BY <1>1 DEF Follows
<1>3. r.authority => /\ r.connected
                     /\ r.client.state \in {"connected", "incompatible"}
  BY Before DEF Good, Live
<1>4. Good(ClientState(r, s)) /\ Follows(r, ClientState(r, s))
  BY <1>3, ClientStateGood
<1> QED BY <1>2, <1>4, Before, FollowsTransitive, SettleKeeps DEF Good

LEMMA SocketOpensKeeps == ASSUME WInv, SocketOpens PROVE WInv'
<1>1. rec.client # NoClient
  BY NullsTyped DEF SocketOpens
<1>2. Kin([rec EXCEPT !.client = rec.client], rec)
  BY Before DEF Kin, Raw
<1>3. rec.authority => rec.connected
  BY Before DEF Good, Live
<1> QED BY <1>1, <1>2, <1>3, Before, ReportKeeps DEF SocketOpens, ClientStates

LEMMA SocketErrorKeeps == ASSUME WInv, SocketError PROVE WInv'
<1>1. rec.client # NoClient
  BY NullsTyped DEF SocketError
<1>2. Kin([rec EXCEPT !.client = rec.client], rec)
  BY Before DEF Kin, Raw
<1>3. rec.authority => rec.connected
  BY Before DEF Good, Live
<1> QED BY <1>1, <1>2, <1>3, Before, ReportKeeps DEF SocketError, ClientStates

LEMMA LinkAcceptedKeeps == ASSUME WInv, LinkAccepted PROVE WInv'
<1> DEFINE d == [rec EXCEPT !.client.intent = "credentials",
                            !.client.allowed = FALSE,
                            !.client.notify = TRUE]
<1>1. /\ rec.client # NoClient /\ rec.client.state = "linking"
      /\ Settle(d, queue)
  BY NullsTyped DEF LinkAccepted
<1>2. /\ d \in Raw /\ d.exists = rec.exists /\ d.gen = 0 /\ d.token = 0
      /\ d.op = rec.op /\ d.link = rec.link /\ d.pending = rec.pending
      /\ d.client.state = "linking" /\ d.authority = rec.authority
  BY <1>1, Before DEF Raw, Client
<1> HIDE DEF d
<1>3. d.client # NoClient /\ ~d.authority
  BY <1>1, <1>2, Before, NullsTyped DEF Good, Live
<1>4. Good(d)
  BY <1>2, <1>3 DEF Good, Live
<1>5. Follows(rec, d)
  BY <1>1, <1>2, <1>3, Before DEF Follows
<1> QED BY <1>1, <1>4, <1>5, SettleKeeps

LEMMA SocketClosedKeeps == ASSUME WInv, SocketClosed PROVE WInv'
<1> DEFINE d == [rec EXCEPT !.client.socket = FALSE]
<1>1. rec.client # NoClient
  BY NullsTyped DEF SocketClosed
<1>2. \/ Settle(StopAttempt(rec, "error"), queue)
      \/ Settle(ClientState(d, "disconnected"), queue)
  BY DEF SocketClosed
<1>3. CASE Settle(StopAttempt(rec, "error"), queue)
  BY <1>3, Before, StopAttemptGood, SettleKeeps DEF States
<1>4. CASE Settle(ClientState(d, "disconnected"), queue)
  <2>1. /\ d \in Raw /\ Kin([rec EXCEPT !.client = d.client], d)
        /\ d.client.state = rec.client.state
        /\ d.authority = rec.authority /\ d.connected = rec.connected
    BY Before DEF Kin, Raw, Client
  <2> HIDE DEF d
  <2>2. d.client # NoClient /\ (d.authority => rec.authority /\ d.connected)
    BY <1>1, <2>1, Before, NullsTyped DEF Good, Live
  <2> QED BY <1>1, <1>4, <2>1, <2>2, ReportKeeps DEF ClientStates
<1> QED BY <1>2, <1>3, <1>4

LEMMA LinkRejectedKeeps == ASSUME WInv, LinkRejected PROVE WInv'
<1>1. PICK s \in {"error", "rateLimited"} : Settle(StopAttempt(rec, s), queue)
  BY DEF LinkRejected
<1>2. s \in States
  BY DEF States
<1> QED BY <1>1, <1>2, Before, StopAttemptGood, SettleKeeps

LEMMA SilencedTyped ==
  ASSUME NEW c \in Client, c.state # "none"
  PROVE  /\ Silenced(c) \in Client /\ Silenced(c).state = c.state
         /\ Silenced(c) # NoClient
<1>1. Silenced(c) \in Client /\ Silenced(c).state = c.state
  BY DEF Silenced, Client
<1> QED BY <1>1, NullsTyped

\* A client that is silenced reports s.
LEMMA SilenceKeeps ==
  ASSUME WInv, NEW c, c = Silenced(rec.client), rec.client # NoClient,
         NEW r \in {[rec EXCEPT !.client = c],
                    [rec EXCEPT !.connected = FALSE, !.authority = FALSE,
                                !.client = c]},
         NEW s \in ClientStates \ {"none"}, Settle(ClientState(r, s), queue)
  PROVE  WInv'
<1>1. c \in Client /\ c.state = rec.client.state /\ c # NoClient
  BY Before, SilencedTyped DEF Good, Live, Raw
<1>2. /\ r \in Raw /\ Kin([rec EXCEPT !.client = r.client], r)
      /\ r.client = c /\ (r.authority => rec.authority)
      /\ (r.authority => r.connected = rec.connected)
  BY <1>1, Before DEF Kin, Raw
<1>3. r.authority => rec.authority /\ r.connected
  BY <1>2, Before DEF Good, Live
<1> QED BY <1>1, <1>2, <1>3, ReportKeeps

LEMMA ProtocolKeeps == ASSUME WInv, BadMessage \/ Incompatible PROVE WInv'
<1> DEFINE c == Silenced(rec.client)
           d == [rec EXCEPT !.client = c]
<1>1. rec.client # NoClient
  BY NullsTyped DEF BadMessage, Incompatible
<1>2. d = [rec EXCEPT !.client = Silenced(@)]
  OBVIOUS
<1>3. \E s \in ClientStates \ {"none"} : Settle(ClientState(d, s), queue)
  BY <1>2 DEF BadMessage, Incompatible, ClientStates
<1> HIDE DEF c
<1> QED BY <1>1, <1>3, SilenceKeeps DEF c

LEMMA MismatchDoneKeeps == ASSUME WInv, MismatchDone PROVE WInv'
<1> DEFINE e == [rec EXCEPT !.mismatch = FALSE, !.connected = FALSE]
           d == SetState(e, "incompatible")
<1>1. Settle(d, queue)
  BY DEF MismatchDone
<1>2. /\ d \in Raw /\ Kin(rec, d) /\ ~d.authority /\ d.client = rec.client
  BY Before DEF Raw, SetState, Kin, States
<1> HIDE DEF d
<1>3. Good(d) /\ Follows(rec, d)
  BY <1>2, Before, KinFollows DEF Good, Live
<1> QED BY <1>1, <1>3, SettleKeeps

LEMMA PublishFailsKeeps == ASSUME WInv, PublishFails PROVE WInv'
<1>1. "error" \in States
  BY DEF States
<1> QED BY <1>1, Before, SetStateGood, SettleKeeps DEF PublishFails

LEMMA TransportFailsKeeps == ASSUME WInv, TransportFails PROVE WInv'
<1> DEFINE c == Silenced(rec.client)
           d == [rec EXCEPT !.connected = FALSE, !.authority = FALSE,
                            !.client = c]
<1>1. rec.client # NoClient
  BY DEF TransportFails, Sending
<1>2. d = [rec EXCEPT !.connected = FALSE, !.authority = FALSE,
                      !.client = Silenced(@)]
  OBVIOUS
<1>3. Settle(ClientState(d, "disconnected"), queue)
  BY <1>2 DEF TransportFails
<1>4. "disconnected" \in ClientStates \ {"none"}
  BY DEF ClientStates
<1> HIDE DEF c
<1> QED BY <1>1, <1>3, <1>4, SilenceKeeps DEF c

LEMMA TimerFiresKeeps == ASSUME WInv, TimerFires PROVE WInv'
<1> DEFINE r == [rec EXCEPT !.timer = "none"]
           n == rec.client.state
           c == [Started("credentials") EXCEPT !.state = n]
           d == [r EXCEPT !.client = c]
<1>1. \/ Settle(r, queue)
      \/ rec.link # None /\ Settle(ClientState(d, "connecting"), queue)
  BY DEF TimerFires
<1>2. CASE Settle(r, queue)
  <2>1. /\ r \in Raw /\ Kin(rec, r) /\ r.authority = rec.authority
        /\ r.connected = rec.connected
    BY Before DEF Raw, Kin
  <2> HIDE DEF r
  <2> QED BY <1>2, <2>1, Before, KinGood, SettleKeeps
<1>3. CASE rec.link # None /\ Settle(ClientState(d, "connecting"), queue)
  <2>1. n \in ClientStates
    BY Before DEF Raw, Client
  <2> HIDE DEF n
  <2>2. c \in Client /\ c.state = n /\ c.socket
    BY <2>1 DEF Started, Client
  <2> HIDE DEF c
  <2>3. c # NoClient
    BY <2>2, NullsTyped
  <2>4. /\ d \in Raw /\ Kin([rec EXCEPT !.client = d.client], d)
        /\ d.client = c
        /\ d.authority = rec.authority /\ d.connected = rec.connected
    BY <2>2, Before DEF Raw, Kin
  <2> HIDE DEF d
  <2>5. (d.authority => rec.authority /\ d.connected) /\ d.client.state = rec.client.state
    BY <2>2, <2>4, Before DEF Good, Live, n
  <2> QED BY <1>3, <2>3, <2>4, <2>5, ReportKeeps DEF ClientStates
<1> QED BY <1>1, <1>2, <1>3

\* Nobody owns the record, and nothing that is queued is for it, while an
\* attempt to link is under way.
LEMMA AttemptAlone ==
  ASSUME WInv, rec.pending.kind = "code"
  PROVE  /\ rec.pending \in Pending /\ rec.link = None
         /\ \A k \in DOMAIN queue :
                ~CurrentLoad(rec, queue[k]) /\ ~CurrentSave(rec, queue[k])
         /\ \A p \in ops : ~(p.phase = "store" /\ OwnsRecord(rec, p))
<1>1. rec.pending # NoPending /\ rec.pending \in Pending
  BY Before DEF Raw, NoPending
<1> QED BY <1>1, Before DEF Kept, Detached

LEMMA AuthenticatedKeeps == ASSUME WInv, Authenticated PROVE WInv'
<1> DEFINE r == [rec EXCEPT !.client.allowed = TRUE, !.client.notify = FALSE]
           w == [r EXCEPT !.pending.kind = "credentials", !.writing = TRUE]
           e == Entry("save", None, w, w.pending.link)
<1>1. /\ rec.client # NoClient
      /\ \/ Settle(ClientState(r, "connected"), queue)
         \/ /\ rec.pending.kind = "code"
            /\ Settle(ClientState(w, "connected"), Append(queue, e))
  BY NullsTyped DEF Authenticated, Greeting, Enqueue
<1>2. /\ r \in Raw /\ Kin([rec EXCEPT !.client = r.client], r)
      /\ r.client.state = rec.client.state
      /\ r.authority = rec.authority /\ r.connected = rec.connected
  BY Before DEF Raw, Kin, Client
<1> HIDE DEF r
<1>3. r.client # NoClient /\ (r.authority => rec.authority /\ r.connected)
  BY <1>1, <1>2, Before, NullsTyped DEF Good, Live
<1>4. "connected" \in ClientStates \ {"none"}
  BY DEF ClientStates
<1>5. CASE Settle(ClientState(r, "connected"), queue)
  BY <1>1, <1>2, <1>3, <1>4, <1>5, ReportKeeps
<1>6. CASE /\ rec.pending.kind = "code"
           /\ Settle(ClientState(w, "connected"), Append(queue, e))
  <2>1. /\ r.exists = rec.exists /\ r.gen = 0 /\ r.token = 0
        /\ r.op = rec.op /\ r.link = None /\ r.pending = rec.pending
        /\ rec.pending \in Pending
    BY <1>2, <1>6, Before, AttemptAlone DEF Kin, Raw
  <2>2. /\ w \in Raw /\ w.exists = rec.exists /\ w.gen = 0 /\ w.token = 0
        /\ w.op = rec.op /\ w.link = None
        /\ w.pending.kind = "credentials" /\ w.pending.link \in Link
        /\ w.client = r.client
        /\ w.authority = r.authority /\ w.connected = r.connected
    BY <1>2, <2>1 DEF Raw, Pending
  <2> HIDE DEF w
  <2>3. /\ e \in RawEntry /\ e.gen = 0 /\ e.token = 0 /\ e.kind = "save"
    BY <2>2 DEF Entry, RawEntry
  <2> HIDE DEF e
  <2>4. /\ \A k \in DOMAIN queue :
               ~CurrentLoad(w, queue[k]) /\ ~CurrentSave(w, queue[k])
        /\ \A p \in ops : ~(p.phase = "store" /\ OwnsRecord(w, p))
    BY <1>6, <2>2, Before, AttemptAlone
       DEF CurrentLoad, CurrentSave, OwnsRecord, IsCurrent
  <2>5. Kept(w, ops, queue, stored)
    BY <2>2, <2>4, Before DEF Kept
  <2>6. ~CurrentLoad(w, e) /\ e.gen <= w.gen /\ e.token <= w.token
    BY <2>2, <2>3 DEF CurrentLoad
  <2>7. /\ Kept(w, ops, Append(queue, e), stored)
        /\ Append(queue, e) \in Seq(RawEntry)
    BY <1>3, <2>2, <2>3, <2>4, <2>5, <2>6, Before, AppendKeeps
  <2>8. Typed(ops, Append(queue, e))
    BY <2>7, Before DEF Typed
  <2>9. /\ Good(ClientState(w, "connected"))
        /\ Follows(w, ClientState(w, "connected"))
    BY <1>2, <1>3, <1>4, <2>2, Before, ClientStateGood DEF Good, Live
  <2>10. Kept(ClientState(w, "connected"), ops, Append(queue, e), stored)
    BY <2>2, <2>7, <2>8, <2>9, FollowsKeeps DEF Good
  <2>11. /\ Become(ClientState(w, "connected"), ops, Append(queue, e))
         /\ UNCHANGED <<open, stored, faults>>
    BY <1>6 DEF Settle
  <2>12. open' \in BOOLEAN /\ faults' \in Faults
    BY <2>11 DEF WInv, TypeOK
  <2> QED BY <2>8, <2>9, <2>10, <2>11, <2>12, Before, BecomeKeeps
<1> QED BY <1>1, <1>5, <1>6

LEMMA AuthRejectedKeeps == ASSUME WInv, AuthRejected PROVE WInv'
<1> DEFINE d == Forget(rec, "notLinked")
           e == Entry("remove", None, d, None)
<1>1. Become(d, ops, Append(queue, e)) /\ UNCHANGED <<open, stored, faults>>
  BY DEF AuthRejected, Settle, Enqueue
<1>2. Good(d) /\ Follows(rec, d) /\ d.gen > rec.gen /\ Detached(d)
  <2>1. "notLinked" \in States
    BY DEF States
  <2>2. rec.gen + 1 > rec.gen
    BY Before
  <2> QED BY <2>1, <2>2, Before, ForgetGood
<1> HIDE DEF d
<1>3. d \in Raw /\ d.gen \in Nat /\ d.token \in Nat
  BY <1>2 DEF Good, Raw
<1>4. /\ e \in RawEntry /\ e.gen = d.gen /\ e.token = d.token
      /\ e.kind = "remove"
  BY <1>3 DEF Entry, RawEntry
<1> HIDE DEF e
<1>5. Kept(d, ops, queue, stored)
  BY <1>2, <1>3, Before, FollowsKeeps
<1>6. \A k \in DOMAIN queue : ~CurrentLoad(d, queue[k]) /\ ~CurrentSave(d, queue[k])
  BY <1>2, <1>3, Before, NewGeneration
<1>7. e.gen <= d.gen /\ e.token <= d.token
  BY <1>3, <1>4
<1>8. ~CurrentLoad(d, e) /\ ~CurrentSave(d, e)
  BY <1>4 DEF CurrentLoad, CurrentSave
<1>9. /\ Kept(d, ops, Append(queue, e), stored)
      /\ Append(queue, e) \in Seq(RawEntry)
  BY <1>2, <1>4, <1>5, <1>6, <1>7, <1>8, Before, AppendKeeps DEF Detached
<1>10. Typed(ops, Append(queue, e))
  BY <1>9, Before DEF Typed
<1>11. open' \in BOOLEAN /\ faults' \in Faults
  BY <1>1 DEF WInv, TypeOK
<1> QED BY <1>1, <1>2, <1>9, <1>10, <1>11, Before, BecomeKeeps

-----------------------------------------------------------------------------
(* Storage.                                                                *)

\* The head of the queue: what it says of the record, and what is behind it.
LEMMA HeadOfQueue ==
  ASSUME WInv, queue # <<>>
  PROVE  LET e == Head(queue)
         IN  /\ e \in RawEntry
             /\ \A o \in SUBSET ops : /\ Kept(rec, o, Tail(queue), stored)
                                      /\ Typed(o, Tail(queue))
             /\ e.kind # "load" => rec.link = None
             /\ CurrentLoad(rec, e) => DOMAIN Tail(queue) = {} /\ Detached(rec)
             /\ CurrentSave(rec, e) =>
                    /\ DOMAIN Tail(queue) = {}
                    /\ rec.client # NoClient /\ rec.link = None
<1>1. /\ Kept(rec, ops, Tail(queue), stored) /\ Tail(queue) \in Seq(RawEntry)
      /\ Head(queue) = queue[1] /\ 1 \in DOMAIN queue
  BY Before, TailKeeps
<1>2. queue[1] \in RawEntry
  BY <1>1, Before, TypedParts
<1>3. \A o \in SUBSET ops : /\ Kept(rec, o, Tail(queue), stored)
                            /\ Typed(o, Tail(queue))
  BY <1>1, Before DEF Kept, Typed
<1>4. queue[1].kind # "load" => rec.link = None
  BY <1>1, Before DEF Kept
<1>5. 1 = Len(queue) => DOMAIN Tail(queue) = {}
  <2> DEFINE t == Tail(queue)
  <2>1. Len(t) = Len(queue) - 1 /\ t \in Seq(RawEntry)
    BY <1>1, Before
  <2> HIDE DEF t
  <2>2. ASSUME 1 = Len(queue) PROVE DOMAIN t = {}
    <3>1. Len(t) = 0
      BY <2>1, <2>2, Before
    <3> QED BY <2>1, <3>1
  <2> QED BY <2>2 DEF t
<1>6. /\ CurrentLoad(rec, queue[1]) => 1 = Len(queue) /\ Detached(rec)
      /\ CurrentSave(rec, queue[1]) => /\ 1 = Len(queue)
                                       /\ rec.client # NoClient /\ rec.link = None
  BY <1>1, Before DEF Kept
<1> QED BY <1>1, <1>2, <1>3, <1>4, <1>5, <1>6

LEMMA DoneKeeps ==
  ASSUME WInv, queue # <<>>, NEW r, Good(r), NEW d, Good(d), Follows(r, d),
         NEW o \in SUBSET ops, Kept(r, o, Tail(queue), stored'),
         Become(d, o, Tail(queue)), stored' \in Link \cup {None},
         UNCHANGED <<open, faults>>
  PROVE  WInv'
<1>1. Typed(o, Tail(queue))
  BY HeadOfQueue
<1>2. Kept(d, o, Tail(queue), stored')
  BY <1>1, FollowsKeeps DEF Good
<1>3. open' \in BOOLEAN /\ faults' \in Faults
  BY DEF WInv, TypeOK
<1> QED BY <1>1, <1>2, <1>3, BecomeKeeps

LEMMA StoreStartKeeps == ASSUME WInv, StoreStart PROVE WInv'
<1> DEFINE e == Head(queue)
           u == [queue EXCEPT ![1].started = TRUE]
<1>1. /\ queue # <<>> /\ UNCHANGED <<open, stored, faults>>
      /\ \/ Become(Cleared(rec, e.op), ops \ CallOf(e), Tail(queue))
         \/ Become(rec, ops, u)
  BY DEF StoreStart
<1>2. CASE Become(Cleared(rec, e.op), ops \ CallOf(e), Tail(queue))
  <2>1. Good(Cleared(rec, e.op)) /\ Follows(rec, Cleared(rec, e.op))
    BY Before, ClearedGood
  <2>2. Kept(rec, ops \ CallOf(e), Tail(queue), stored)
    BY <1>1, HeadOfQueue
  <2>3. stored' = stored /\ stored \in Link \cup {None}
    BY <1>1, Before
  <2> QED BY <1>1, <1>2, <2>1, <2>2, <2>3, Before, DoneKeeps
<1>3. CASE Become(rec, ops, u)
  <2>1. 1 \in DOMAIN queue /\ queue[1] \in RawEntry
    BY <1>1, Before, TailKeeps, TypedParts
  <2>2. [queue[1] EXCEPT !.started = TRUE] \in RawEntry
    BY <2>1 DEF RawEntry
  <2>3. u = [queue EXCEPT ![1] = [queue[1] EXCEPT !.started = TRUE]]
    BY <2>1
  <2>4. u \in Seq(RawEntry) /\ DOMAIN u = DOMAIN queue /\ Len(u) = Len(queue)
    BY <2>1, <2>2, <2>3, Before
  <2>5. \A k \in DOMAIN queue :
            /\ u[k].kind = queue[k].kind /\ u[k].gen = queue[k].gen
            /\ u[k].token = queue[k].token
    <3> SUFFICES ASSUME NEW k \in DOMAIN queue
                 PROVE  /\ u[k].kind = queue[k].kind /\ u[k].gen = queue[k].gen
                        /\ u[k].token = queue[k].token
      OBVIOUS
    <3>1. CASE k = 1
      <4>1. u[k] = [queue[1] EXCEPT !.started = TRUE]
        BY <2>3, <3>1
      <4> QED BY <2>1, <3>1, <4>1 DEF RawEntry
    <3>2. CASE k # 1
      BY <3>2
    <3> QED BY <3>1, <3>2
  <2> HIDE DEF u
  <2>6. Kept(rec, ops, u, stored)
    BY <2>4, <2>5, Before, MarksKeep
  <2>7. Typed(ops, u)
    BY <2>4, Before DEF Typed
  <2>8. open' \in BOOLEAN /\ faults' \in Faults /\ stored' = stored
    BY <1>1 DEF WInv, TypeOK
  <2> QED BY <1>3, <2>6, <2>7, <2>8, Before, BecomeKeeps
<1> QED BY <1>1, <1>2, <1>3

\* A link was removed, and the call that asked for it may start its attempt.
LEMMA LinkRemoved ==
  ASSUME WInv, queue # <<>>, Head(queue).kind = "linkRemove",
         Become(AfterLinkRemove(rec, Head(queue)), ops \ CallOf(Head(queue)),
                Tail(queue)),
         stored' = None, UNCHANGED <<open, faults>>
  PROVE  WInv'
<1> DEFINE e == Head(queue)
           o == ops \ CallOf(e)
           n == [kind |-> "code", link |-> e.link]
           d == [rec EXCEPT !.op = None, !.pending = n]
<1>1. /\ e \in RawEntry /\ e.kind = "linkRemove" /\ rec.link = None
      /\ Kept(rec, o, Tail(queue), stored) /\ o \in SUBSET ops
  BY HeadOfQueue
<1>2. Kept(rec, o, Tail(queue), stored')
  BY <1>1, StoredKeeps
<1>3. CASE ~IsOwned(e)
  <2>1. AfterLinkRemove(rec, e) = Cleared(rec, e.op)
    BY <1>3 DEF AfterLinkRemove
  <2>2. Good(Cleared(rec, e.op)) /\ Follows(rec, Cleared(rec, e.op))
    BY Before, ClearedGood
  <2> QED BY <1>1, <1>2, <2>1, <2>2, Before, DoneKeeps
<1>4. CASE IsOwned(e)
  <2>1. PICK p \in ops : p.phase = "store" /\ OwnsRecord(rec, p)
    BY <1>4 DEF IsOwned, CallOf
  <2>2. /\ Detached(rec)
        /\ \A k \in DOMAIN queue :
               ~CurrentLoad(rec, queue[k]) /\ ~CurrentSave(rec, queue[k])
    BY <2>1, Before DEF Kept
  <2>3. n \in Pending
    BY <1>1 DEF RawEntry, Pending
  <2> HIDE DEF n
  <2>4. /\ d \in Raw /\ d.exists = rec.exists /\ d.gen = rec.gen
        /\ d.token = rec.token /\ d.op = None /\ d.link = None
        /\ d.pending = n /\ d.client = rec.client
        /\ d.authority = rec.authority /\ d.connected = rec.connected
    BY <1>1, <2>3, Before DEF Raw
  <2> HIDE DEF d
  <2>5. Good(d)
    BY <2>4, Before DEF Good, Live
  <2>6. \A q \in ops : ~OwnsRecord(d, q)
    BY <2>4, Before, TypedParts, NullsTyped DEF OwnsRecord
  <2>7. Kept(d, ops, queue, stored')
    <3>1. \A k \in DOMAIN queue :
              ~CurrentLoad(d, queue[k]) /\ ~CurrentSave(d, queue[k])
      BY <2>2, <2>4 DEF CurrentLoad, CurrentSave
    <3> QED BY <2>4, <2>6, <3>1, Before DEF Kept
  <2>8. Kept(d, o, Tail(queue), stored')
    <3>1. Kept(d, ops, Tail(queue), stored')
      BY <2>7, Before, TailKeeps
    <3> QED BY <3>1 DEF Kept
  <2>9. AfterLinkRemove(rec, e) = IF HasOwner(d) THEN OpenClient(d, "link") ELSE d
    BY <1>4 DEF AfterLinkRemove, d, n
  <2>10. d.pending # NoPending
    BY <2>3, <2>4, NullsTyped
  <2>11. /\ Good(AfterLinkRemove(rec, e))
         /\ Follows(d, AfterLinkRemove(rec, e))
    BY <2>4, <2>5, <2>9, <2>10, OpenClientGood, FollowsSelf
  <2> QED BY <1>1, <2>5, <2>8, <2>11, DoneKeeps
<1> QED BY <1>3, <1>4

\* What is stored was loaded, and is the link of the record that asked for it.
LEMMA LinkLoaded ==
  ASSUME WInv, queue # <<>>, Head(queue).kind = "load",
         Become(AfterLoad(rec, Head(queue)), ops \ CallOf(Head(queue)),
                Tail(queue)),
         stored' = stored, UNCHANGED <<open, faults>>
  PROVE  WInv'
<1> DEFINE e == Head(queue)
           o == ops \ CallOf(e)
<1>1. /\ e \in RawEntry /\ e.kind = "load" /\ o \in SUBSET ops
      /\ Kept(rec, o, Tail(queue), stored') /\ stored \in Link \cup {None}
  BY HeadOfQueue, Before
<1>2. CASE ~(IsCurrent(rec, e.gen) /\ HasOwner(rec) /\ stored # None)
  <2>1. AfterLoad(rec, e) \in {rec, SetState(rec, "notLinked")}
    <3>1. CASE ~IsCurrent(rec, e.gen) \/ ~HasOwner(rec)
      BY <3>1 DEF AfterLoad
    <3>2. CASE IsCurrent(rec, e.gen) /\ HasOwner(rec) /\ stored = None
      BY <3>2 DEF AfterLoad
    <3> QED BY <1>2, <3>1, <3>2
  <2>2. Good(AfterLoad(rec, e)) /\ Follows(rec, AfterLoad(rec, e))
    BY <2>1, Before, FollowsSelf, SetStateGood DEF States
  <2> QED BY <1>1, <2>2, Before, DoneKeeps
<1>3. CASE IsCurrent(rec, e.gen) /\ HasOwner(rec) /\ stored # None
  <2> DEFINE d == [rec EXCEPT !.link = stored]
             c == SetState(d, "linking")
  <2>1. AfterLoad(rec, e) = OpenClient(c, "credentials")
    BY <1>3 DEF AfterLoad
  <2>2. CurrentLoad(rec, e)
    BY <1>1, <1>3 DEF CurrentLoad, IsCurrent
  <2>3. DOMAIN Tail(queue) = {} /\ Detached(rec)
    BY <2>2, HeadOfQueue
  <2>4. /\ d \in Raw /\ d.exists = rec.exists /\ d.gen = rec.gen
        /\ d.token = rec.token /\ d.op = rec.op /\ d.link = stored
        /\ d.pending = NoPending /\ d.client = rec.client
        /\ d.authority = rec.authority /\ d.connected = rec.connected
    BY <1>1, <2>3, Before DEF Raw, Detached
  <2>5. Good(d)
    BY <2>4, Before DEF Good, Live
  <2> HIDE DEF d
  <2>6. \A p \in ops : ~(p.phase = "store" /\ OwnsRecord(d, p))
    <3>1. 1 \in DOMAIN queue /\ Head(queue) = queue[1]
      BY Before, TailKeeps
    <3>2. \A p \in ops : ~(p.phase = "store" /\ OwnsRecord(rec, p))
      BY <2>2, <3>1, Before DEF Kept
    <3> QED BY <2>4, <3>2 DEF OwnsRecord, IsCurrent
  <2>7. Kept(d, o, Tail(queue), stored')
    BY <1>1, <2>3, <2>4, <2>6 DEF Kept
  <2>8. Good(c) /\ Follows(d, c)
    BY <2>5, SetStateGood DEF States
  <2>9. c.link # None
    BY <1>3, <2>4 DEF SetState, Raw
  <2> HIDE DEF c
  <2>10. /\ Good(OpenClient(c, "credentials"))
         /\ Follows(c, OpenClient(c, "credentials"))
    BY <2>8, <2>9, OpenClientGood
  <2>11. Follows(d, OpenClient(c, "credentials"))
    BY <2>4, <2>8, <2>10, FollowsTransitive DEF Good
  <2> QED BY <1>1, <2>1, <2>5, <2>7, <2>10, <2>11, DoneKeeps
<1> QED BY <1>2, <1>3

\* A link was stored, and is the record's from now on.
LEMMA LinkSaved ==
  ASSUME WInv, queue # <<>>, Head(queue).kind = "save",
         Become(AfterSave(rec, Head(queue)), ops \ CallOf(Head(queue)),
                Tail(queue)),
         stored' = Head(queue).link, UNCHANGED <<open, faults>>
  PROVE  WInv'
<1> DEFINE e == Head(queue)
           o == ops \ CallOf(e)
<1>1. /\ e \in RawEntry /\ e.kind = "save" /\ o \in SUBSET ops
      /\ Kept(rec, o, Tail(queue), stored) /\ rec.link = None
      /\ stored' \in Link \cup {None}
  <2>1. /\ e \in RawEntry /\ e.kind = "save" /\ o \in SUBSET ops
        /\ Kept(rec, o, Tail(queue), stored) /\ rec.link = None
    BY HeadOfQueue
  <2> QED BY <2>1 DEF RawEntry
<1>2. CASE ~IsCurrentToken(rec, e.gen, e.token)
  <2>1. AfterSave(rec, e) = rec
    BY <1>2 DEF AfterSave
  <2>2. Kept(rec, o, Tail(queue), stored')
    BY <1>1, StoredKeeps
  <2> QED BY <1>1, <2>1, <2>2, Before, FollowsSelf, DoneKeeps
<1>3. CASE IsCurrentToken(rec, e.gen, e.token)
  <2> DEFINE d == [rec EXCEPT !.writing = FALSE, !.link = e.link,
                              !.pending = NoPending]
  <2>1. AfterSave(rec, e) \in {SetState(d, "linked"), ScheduleReconnect(d)}
    BY <1>3 DEF AfterSave
  <2>2. CurrentSave(rec, e)
    BY <1>1, <1>3 DEF CurrentSave, IsCurrentToken, IsCurrent
  <2>3. DOMAIN Tail(queue) = {} /\ rec.client # NoClient
    BY <2>2, HeadOfQueue
  <2>4. /\ d \in Raw /\ d.exists = rec.exists /\ d.gen = rec.gen
        /\ d.token = rec.token /\ d.op = rec.op /\ d.link = e.link
        /\ d.pending = NoPending /\ d.client = rec.client
        /\ d.authority = rec.authority /\ d.connected = rec.connected
    BY <1>1, Before DEF Raw, RawEntry
  <2> HIDE DEF d
  <2>5. Good(d)
    BY <2>4, Before DEF Good, Live
  <2>6. \A p \in ops : ~(p.phase = "store" /\ OwnsRecord(d, p))
    BY <2>3, <2>4, Before DEF OwnsRecord, IsCurrent, Kept, Detached
  <2>7. Kept(d, o, Tail(queue), stored')
    BY <1>1, <2>3, <2>4, <2>6 DEF Kept
  <2>8. Good(AfterSave(rec, e)) /\ Follows(d, AfterSave(rec, e))
    BY <2>1, <2>5, SetStateGood, ScheduleReconnectGood DEF States
  <2> QED BY <1>1, <2>5, <2>7, <2>8, DoneKeeps
<1> QED BY <1>2, <1>3

LEMMA StoreSucceedsKeeps == ASSUME WInv, StoreSucceeds PROVE WInv'
<1> DEFINE e == Head(queue)
           o == ops \ CallOf(e)
<1>1. /\ queue # <<>> /\ UNCHANGED <<open, faults>> /\ stored' = Written(e)
      /\ Become(Succeeded(e), o, Tail(queue))
  BY DEF StoreSucceeds
<1>2. e \in RawEntry
  BY <1>1, HeadOfQueue
<1>3. CASE e.kind = "linkRemove"
  BY <1>1, <1>3, LinkRemoved DEF Succeeded, Written
<1>4. CASE e.kind = "load"
  BY <1>1, <1>4, LinkLoaded DEF Succeeded, Written
<1>5. CASE e.kind = "save"
  BY <1>1, <1>5, LinkSaved DEF Succeeded, Written
<1>6. CASE e.kind \in {"unlinkRemove", "remove"}
  <2>1. Succeeded(e) \in {Cleared(rec, e.op), rec} /\ stored' = None
    BY <1>1, <1>6 DEF Succeeded, Written
  <2>2. Good(Succeeded(e)) /\ Follows(rec, Succeeded(e))
    BY <2>1, Before, ClearedGood, FollowsSelf
  <2>3. Kept(rec, o, Tail(queue), stored) /\ rec.link = None
    BY <1>1, <1>6, HeadOfQueue
  <2>4. Kept(rec, o, Tail(queue), stored')
    BY <2>3, StoredKeeps
  <2> QED BY <1>1, <2>1, <2>2, <2>4, Before, DoneKeeps
<1> QED BY <1>2, <1>3, <1>4, <1>5, <1>6 DEF RawEntry

LEMMA StoreFailsKeeps == ASSUME WInv, StoreFails PROVE WInv'
<1> DEFINE e == Head(queue)
           o == ops \ CallOf(e)
           lost == e.kind = "save" /\ IsCurrentToken(rec, e.gen, e.token)
           v == QuietRemove(rec)
<1>1. /\ queue # <<>> /\ UNCHANGED <<open, stored, faults>>
      /\ Become(Failed(e), o, IF lost THEN Append(Tail(queue), v)
                                      ELSE Tail(queue))
  BY DEF StoreFails, Enqueue
<1>2. /\ e \in RawEntry /\ o \in SUBSET ops
      /\ Kept(rec, o, Tail(queue), stored) /\ Typed(o, Tail(queue))
  BY <1>1, HeadOfQueue
<1>3. CASE ~lost
  <2>1. Failed(e) \in {SetState(Cleared(rec, e.op), "error"), Cleared(rec, e.op),
                       SetState(rec, "error"), rec}
    <3>1. CASE e.kind \in {"linkRemove", "unlinkRemove"}
      BY <3>1 DEF Failed
    <3>2. CASE e.kind \in {"load", "remove"}
      BY <3>2 DEF Failed
    <3>3. CASE e.kind = "save"
      BY <1>3, <3>3 DEF Failed
    <3> QED BY <1>2, <3>1, <3>2, <3>3 DEF RawEntry
  <2>2. Good(Cleared(rec, e.op)) /\ Follows(rec, Cleared(rec, e.op))
    BY Before, ClearedGood
  <2>3. /\ Good(SetState(Cleared(rec, e.op), "error"))
        /\ Follows(Cleared(rec, e.op), SetState(Cleared(rec, e.op), "error"))
        /\ Good(SetState(rec, "error")) /\ Follows(rec, SetState(rec, "error"))
    BY <2>2, Before, SetStateGood DEF States
  <2>4. Follows(rec, SetState(Cleared(rec, e.op), "error"))
    BY <2>2, <2>3, Before, FollowsTransitive DEF Good
  <2>5. Good(Failed(e)) /\ Follows(rec, Failed(e))
    BY <2>1, <2>2, <2>3, <2>4, Before, FollowsSelf
  <2>6. Become(Failed(e), o, Tail(queue)) /\ stored' = stored
    BY <1>1, <1>3
  <2> QED BY <1>1, <1>2, <2>5, <2>6, Before, DoneKeeps
<1>4. CASE lost
  <2> DEFINE b == [rec EXCEPT !.writing = FALSE, !.pending = NoPending]
             c == DropClient(b)
             d == SetState(c, "error")
  <2>1. Failed(e) = d
    BY <1>4 DEF Failed
  <2>2. CurrentSave(rec, e)
    BY <1>4 DEF CurrentSave, IsCurrentToken, IsCurrent
  <2>3. DOMAIN Tail(queue) = {} /\ rec.link = None
    BY <1>1, <2>2, HeadOfQueue
  <2>4. /\ b \in Raw /\ b.exists = rec.exists /\ b.gen = 0 /\ b.token = 0
        /\ b.op = rec.op /\ b.link = None /\ b.pending = NoPending
        /\ b.client = rec.client
        /\ b.authority = rec.authority /\ b.connected = rec.connected
    BY <2>3, Before DEF Raw
  <2> HIDE DEF b
  <2>5. Good(b)
    BY <2>4, Before DEF Good, Live
  <2>6. Good(c) /\ Follows(b, c) /\ c.gen = 0 /\ c.token > 0
    BY <2>4, <2>5, DropClientGood
  <2> HIDE DEF c
  <2>7. Good(d) /\ Follows(c, d) /\ d.client = c.client
    <3>1. Good(d) /\ Follows(c, d)
      BY <2>6, SetStateGood DEF States
    <3> QED BY <2>6, <3>1 DEF SetState, Good, Raw
  <2> HIDE DEF d
  <2>8. Follows(rec, d) /\ d.link = None /\ d.gen >= 0 /\ d.token > 0
    <3>1. d.gen \in Nat /\ d.token \in Nat /\ c.token \in Nat /\ c.gen \in Nat
      BY <2>6, <2>7 DEF Good, Raw
    <3>2. d.gen >= 0 /\ d.token > 0
      BY <2>6, <2>7, <3>1 DEF Follows
    <3>3. /\ d.exists = rec.exists /\ d.op \in {rec.op, None}
          /\ d.link = None /\ d.pending = NoPending
          /\ d.client # NoClient => rec.client # NoClient
      <4>1. c.client = NoClient
        BY <2>5, DropClientGood DEF c
      <4> QED BY <2>4, <2>6, <2>7, <4>1 DEF Follows
    <3>4. /\ d.gen >= rec.gen /\ d.token >= rec.token
          /\ d.token > rec.token /\ d.token # rec.token
      BY <3>1, <3>2, Before
    <3> QED BY <3>2, <3>3, <3>4 DEF Follows
  <2>9. v \in RawEntry /\ v.gen = Stale /\ v.token = 0 /\ v.kind = "remove"
    <3> DEFINE a == Entry("remove", None, rec, None)
    <3>1. v = [a EXCEPT !.gen = Stale]
      BY DEF QuietRemove
    <3>2. rec.gen = 0 /\ rec.token = 0
      BY Before
    <3>3. a \in RawEntry /\ a.token = 0 /\ a.kind = "remove"
      BY <3>2 DEF Entry, RawEntry
    <3>4. Stale \in Int
      BY DEF Stale
    <3> HIDE DEF v, a
    <3> QED BY <3>1, <3>3, <3>4 DEF RawEntry
  <2> HIDE DEF v
  <2>10. Kept(d, o, Tail(queue), stored)
    BY <1>2, <2>7, <2>8, Before, FollowsKeeps DEF Good
  <2>11. v.gen <= d.gen /\ v.token <= d.token
    <3>1. d.gen \in Nat /\ d.token \in Nat
      BY <2>7 DEF Good, Raw
    <3> QED BY <2>9, <3>1 DEF Stale
  <2>12. ~CurrentLoad(d, v) /\ ~CurrentSave(d, v)
    BY <2>9 DEF CurrentLoad, CurrentSave
  <2>13. /\ Kept(d, o, Append(Tail(queue), v), stored)
         /\ Append(Tail(queue), v) \in Seq(RawEntry)
    <3>1. Tail(queue) \in Seq(RawEntry)
      BY <1>2 DEF Typed
    <3> QED BY <2>3, <2>8, <2>9, <2>10, <2>11, <2>12, <3>1, AppendKeeps
  <2>14. Typed(o, Append(Tail(queue), v))
    BY <1>2, <2>13 DEF Typed
  <2>15. open' \in BOOLEAN /\ faults' \in Faults /\ stored' = stored
    BY <1>1 DEF WInv, TypeOK
  <2>16. Become(d, o, Append(Tail(queue), v))
    BY <1>1, <1>4, <2>1
  <2> QED BY <2>7, <2>13, <2>14, <2>15, <2>16, Before, BecomeKeeps
<1> QED BY <1>3, <1>4

LEMMA RestartKeeps == ASSUME WInv, Restart PROVE WInv'
<1>1. /\ rec' = Absent /\ ops' = {} /\ queue' = <<>>
      /\ open' = open /\ faults' = faults
  BY DEF Restart
<1>2. stored' \in Link \cup {None}
  <2>1. stored \in Link \cup {None}
    BY Before
  <2>2. queue # <<>> => Written(Head(queue)) \in Link \cup {None}
    <3> SUFFICES ASSUME queue # <<>>
                 PROVE  Written(Head(queue)) \in Link \cup {None}
      OBVIOUS
    <3>1. Head(queue) \in RawEntry
      BY HeadOfQueue
    <3> QED BY <2>1, <3>1 DEF Written, RawEntry
  <2> QED BY <2>1, <2>2 DEF Restart
<1>3. TypeOK'
  BY <1>1, <1>2, NewRecordGood DEF WInv, TypeOK
<1>4. Live(rec') /\ Typed(ops', queue')
  BY <1>1, NewRecordGood DEF Good, Typed
<1>5. Kept(rec', ops', queue', stored')
  BY <1>1, NewRecordGood DEF Kept, Detached
<1> QED BY <1>3, <1>4, <1>5 DEF WInv

-----------------------------------------------------------------------------
(* A window that tries.  What follows holds while no command is aborted.   *)

\* The states that promise a connection
Hopeful == {"linked", "linking", "reconnecting"}

\* Something is under way, or a call will change the record
Tries(r) == r.connected \/ r.client.socket \/ r.timer = "live" \/ r.op # None

\* The timer belongs to a client that has a link to offer; a connection and a
\* socket are the client's; and a promise is kept.
Sound(r) ==
    /\ r.timer # "stale"
    /\ r.timer = "live" => r.client # NoClient /\ r.link # None
    /\ r.connected => r.client.state \in {"connected", "incompatible"}
    /\ r.client.socket => r.client.state \notin {"none", "disconnected", "incompatible"}
    /\ r.client.state = "error" /\ r.state \in Hopeful => r.timer = "live"
    /\ r.link # None /\ r.client = NoClient => r.state \notin Hopeful
    /\ HasOwner(r) /\ r.link # None /\ ~r.mismatch /\ r.state \in Hopeful => Tries(r)

\* The client of a save that is awaited: nothing ends the attempt meanwhile.
Assured(r) ==
    r.client.socket => /\ r.client.intent = "credentials" /\ r.client.allowed
                       /\ r.client.state \notin {"connecting", "linking"}

\* An attempt that no awaited save belongs to
Stoppable(r) ==
    \/ r.link # None
    \/ r.pending.kind = "code"
    \/ r.client # NoClient /\ ~Assured(r)

\* What d, computed from r, has in common with it, for the calls and the queue:
\* the record of the same client, or of an attempt that was stopped.
Stays(r, d) ==
    /\ d.exists = r.exists /\ d.panels = r.panels /\ d.tabs = r.tabs
    /\ d.op = r.op /\ d.link = r.link
    /\ \/ /\ d.gen = r.gen /\ d.token = r.token
          /\ d.pending = NoPending <=> r.pending = NoPending
          /\ d.pending.kind = "code" => r.pending.kind = "code"
          /\ d.client = NoClient <=> r.client = NoClient
          /\ Assured(r) /\ r.link = None => Assured(d)
       \/ /\ d.gen > r.gen /\ d.client = NoClient /\ d.pending = NoPending
          /\ Stoppable(r)

LEMMA StaysSelf == ASSUME NEW r PROVE Stays(r, r)
  BY DEF Stays

LEMMA StaysTransitive ==
  ASSUME NEW r \in Raw, NEW d \in Raw, NEW e \in Raw, Stays(r, d), Stays(d, e)
  PROVE  Stays(r, e)
<1>1. r.gen \in Nat /\ d.gen \in Nat /\ e.gen \in Nat
  BY DEF Raw
<1>2. NoPending.kind # "code"
  BY DEF NoPending
<1> QED BY <1>1, <1>2 DEF Stays, Stoppable

LEMMA SetStateSets ==
  ASSUME NEW r \in Raw, NEW s \in States
  PROVE  LET d == SetState(r, s) IN
         /\ d \in Raw /\ Kin(r, d) /\ d.state = s
         /\ d.panels = r.panels /\ d.tabs = r.tabs
         /\ d.timer = r.timer /\ d.connected = r.connected
         /\ d.mismatch = r.mismatch /\ d.writing = r.writing
         /\ d.attempts = r.attempts
  BY DEF SetState, Raw, Kin

LEMMA KinStays ==
  ASSUME NEW r, NEW d, Kin(r, d), d.panels = r.panels, d.tabs = r.tabs
  PROVE  Stays(r, d)
  BY DEF Kin, Stays, Assured

\* disconnectClient after invalidate
LEMMA DropSets ==
  ASSUME NEW r \in Raw
  PROVE  LET d == DropClient(Invalidate(r)) IN
         /\ d \in Raw /\ d.exists = r.exists /\ d.panels = r.panels
         /\ d.tabs = r.tabs /\ d.op = r.op /\ d.link = r.link
         /\ d.pending = r.pending /\ d.gen = r.gen + 1 /\ d.token = r.token + 1
         /\ d.client = NoClient /\ ~d.connected /\ ~d.mismatch
         /\ d.timer = "none"
<1> DEFINE i == Invalidate(r)
           d == DropClient(i)
<1>1. r.gen \in Nat /\ r.token \in Nat /\ r.gen + 1 \in Nat /\ r.token + 1 \in Nat
  BY DEF Raw
<1>2. /\ i \in Raw /\ i.exists = r.exists /\ i.panels = r.panels
      /\ i.tabs = r.tabs /\ i.op = r.op /\ i.link = r.link
      /\ i.pending = r.pending /\ i.gen = r.gen + 1 /\ i.token = r.token
      /\ i.timer = "none"
  BY <1>1 DEF Invalidate, Raw
<1> DEFINE t == i.token + 1
           m == IF i.timer = "live" THEN "stale" ELSE i.timer
<1>4. d = [i EXCEPT !.token = t, !.client = NoClient, !.connected = FALSE,
                    !.authority = FALSE, !.mismatch = FALSE, !.timer = m]
  BY DEF DropClient
<1>5. t = r.token + 1 /\ t \in Nat /\ m = "none"
  BY <1>1, <1>2
<1> HIDE DEF i, d, t, m
<1>3. /\ d \in Raw /\ d.exists = i.exists /\ d.panels = i.panels
      /\ d.tabs = i.tabs /\ d.op = i.op /\ d.link = i.link
      /\ d.pending = i.pending /\ d.gen = i.gen /\ d.token = t
      /\ d.client = NoClient /\ ~d.connected /\ ~d.mismatch
      /\ d.timer = m
  BY <1>2, <1>4, <1>5, NullsTyped DEF Raw
<1> QED BY <1>2, <1>3, <1>5 DEF i, d

LEMMA StopAttemptSets ==
  ASSUME NEW r \in Raw, NEW s \in States
  PROVE  LET d == StopAttempt(r, s) IN
         /\ d \in Raw /\ d.exists = r.exists /\ d.panels = r.panels
         /\ d.tabs = r.tabs /\ d.op = r.op /\ d.link = r.link
         /\ d.gen = r.gen + 1 /\ d.pending = NoPending
         /\ d.client = NoClient /\ ~d.connected /\ ~d.mismatch
         /\ d.timer = "none" /\ d.state = s
<1> DEFINE c == DropClient(Invalidate(r))
           e == [c EXCEPT !.pending = NoPending, !.writing = FALSE,
                          !.attempts = 0]
<1>1. /\ c \in Raw /\ c.exists = r.exists /\ c.panels = r.panels
      /\ c.tabs = r.tabs /\ c.op = r.op /\ c.link = r.link
      /\ c.gen = r.gen + 1 /\ c.client = NoClient
      /\ ~c.connected /\ ~c.mismatch /\ c.timer = "none"
  BY DropSets
<1>2. StopAttempt(r, s) = SetState(e, s)
  BY DEF StopAttempt
<1>3. 0 \in 0..MaxAttempts
  BY WindowAssumption
<1> HIDE DEF c
<1>4. /\ e \in Raw /\ e.exists = c.exists /\ e.panels = c.panels
      /\ e.tabs = c.tabs /\ e.op = c.op /\ e.link = c.link
      /\ e.gen = c.gen /\ e.client = NoClient /\ e.pending = NoPending
      /\ ~e.connected /\ ~e.mismatch /\ e.timer = "none"
  BY <1>1, <1>3 DEF Raw
<1> HIDE DEF e
<1>5. /\ SetState(e, s) \in Raw /\ Kin(e, SetState(e, s))
      /\ SetState(e, s).state = s
      /\ SetState(e, s).panels = e.panels /\ SetState(e, s).tabs = e.tabs
      /\ SetState(e, s).timer = e.timer
      /\ SetState(e, s).connected = e.connected
      /\ SetState(e, s).mismatch = e.mismatch
  BY <1>4, SetStateSets
<1> QED BY <1>1, <1>2, <1>4, <1>5 DEF Kin

\* A record without a client that promises nothing is sound.
LEMMA UnclientedSound ==
  ASSUME NEW d \in Raw, d.client = NoClient, ~d.connected, d.timer = "none",
         d.link = None \/ d.state \notin Hopeful
  PROVE  Sound(d)
<1>1. NoClient.state = "none" /\ ~NoClient.socket
  BY NullsTyped
<1> QED BY <1>1 DEF Sound

LEMMA StopAttemptSound ==
  ASSUME NEW r \in Raw, NEW s \in States, s \notin Hopeful
  PROVE  /\ Sound(StopAttempt(r, s))
         /\ Stoppable(r) => Stays(r, StopAttempt(r, s))
<1> DEFINE d == StopAttempt(r, s)
<1>1. /\ d \in Raw /\ d.exists = r.exists /\ d.panels = r.panels
      /\ d.tabs = r.tabs /\ d.op = r.op /\ d.link = r.link
      /\ d.gen = r.gen + 1 /\ d.pending = NoPending
      /\ d.client = NoClient /\ ~d.connected /\ ~d.mismatch
      /\ d.timer = "none" /\ d.state = s
  BY StopAttemptSets
<1>2. r.gen \in Nat
  BY DEF Raw
<1> HIDE DEF d
<1>3. Sound(d)
  BY <1>1, UnclientedSound
<1>4. Stoppable(r) => Stays(r, d)
  BY <1>1, <1>2 DEF Stays
<1> QED BY <1>3, <1>4 DEF d

LEMMA ForgetSets ==
  ASSUME NEW r \in Raw, NEW s \in States
  PROVE  LET d == Forget(r, s) IN
         /\ d \in Raw /\ d.exists = r.exists /\ d.panels = r.panels
         /\ d.tabs = r.tabs /\ d.op = r.op /\ d.link = None
         /\ d.gen = r.gen + 1 /\ d.pending = NoPending
         /\ d.client = NoClient /\ ~d.connected /\ d.timer = "none"
         /\ d.state = s /\ Sound(d)
<1> DEFINE c == StopAttempt(r, s)
           d == [c EXCEPT !.link = None]
<1>1. /\ c \in Raw /\ c.exists = r.exists /\ c.panels = r.panels
      /\ c.tabs = r.tabs /\ c.op = r.op /\ c.gen = r.gen + 1
      /\ c.pending = NoPending
      /\ c.client = NoClient /\ ~c.connected /\ ~c.mismatch
      /\ c.timer = "none" /\ c.state = s
  BY StopAttemptSets
<1>2. Forget(r, s) = d
  BY DEF Forget
<1> HIDE DEF c
<1>3. /\ d \in Raw /\ d.exists = r.exists /\ d.panels = r.panels
      /\ d.tabs = r.tabs /\ d.op = r.op /\ d.link = None
      /\ d.gen = r.gen + 1 /\ d.pending = NoPending
      /\ d.client = NoClient /\ ~d.connected /\ d.timer = "none" /\ d.state = s
  BY <1>1 DEF Raw
<1> HIDE DEF d
<1>4. Sound(d)
  BY <1>3, UnclientedSound
<1> QED BY <1>2, <1>3, <1>4

LEMMA ScheduleReconnectSound ==
  ASSUME NEW r \in Raw,
         r.timer # "stale",
         r.timer = "live" => r.client # NoClient /\ r.link # None,
         r.connected => r.client.state \in {"connected", "incompatible"},
         r.client.socket =>
             r.client.state \notin {"none", "disconnected", "incompatible"},
         CanSchedule(r) \/ Sound(r)
  PROVE  /\ Sound(ScheduleReconnect(r)) /\ Stays(r, ScheduleReconnect(r))
         /\ ScheduleReconnect(r) \in Raw
<1>1. CASE ~CanSchedule(r)
  BY <1>1, StaysSelf DEF ScheduleReconnect
<1>2. CASE CanSchedule(r) /\ r.attempts >= MaxAttempts
  <2>1. ScheduleReconnect(r) = StopAttempt(r, "offline")
    BY <1>2 DEF ScheduleReconnect
  <2>2. "offline" \in States /\ "offline" \notin Hopeful
    BY DEF States, Hopeful
  <2> QED BY <1>2, <2>1, <2>2, StopAttemptSound, StopAttemptSets
       DEF CanSchedule, Stoppable
<1>3. CASE CanSchedule(r) /\ ~(r.attempts >= MaxAttempts)
  <2> DEFINE c == SetState(r, "reconnecting")
             n == r.attempts + 1
             d == [c EXCEPT !.attempts = n, !.timer = "live"]
  <2>1. /\ c \in Raw /\ Kin(r, c) /\ c.state = "reconnecting"
        /\ c.panels = r.panels /\ c.tabs = r.tabs
        /\ c.connected = r.connected /\ c.attempts = r.attempts
    BY SetStateSets DEF States
  <2>2. n \in 0..MaxAttempts
    <3>1. r.attempts \in 0..MaxAttempts
      BY DEF Raw
    <3> QED BY <1>3, <3>1, WindowAssumption
  <2>3. ScheduleReconnect(r) = d
    BY <1>3, <2>1 DEF ScheduleReconnect
  <2> HIDE DEF c, n
  <2>4. /\ d \in Raw /\ Kin(c, d) /\ d.state = "reconnecting"
        /\ d.panels = c.panels /\ d.tabs = c.tabs
        /\ d.connected = c.connected /\ d.timer = "live"
    BY <2>1, <2>2 DEF Raw, Kin
  <2> HIDE DEF d
  <2>5. Kin(r, d) /\ Stays(r, d)
    BY <2>1, <2>4, KinStays DEF Kin
  <2>6. Sound(d)
    BY <1>3, <2>1, <2>4, <2>5 DEF Sound, Kin, CanSchedule, Tries
  <2> QED BY <2>3, <2>4, <2>5, <2>6
<1> QED BY <1>1, <1>2, <1>3

-----------------------------------------------------------------------------
(* What the client reports, and clients that are opened.                   *)

\* The client is in state s and the record does not know yet.
Heard(r, s) ==
    /\ r \in Raw /\ r.client.state = s /\ s \in ClientStates \ {"none"}
    /\ r.timer # "stale"
    /\ r.timer = "live" => r.link # None
    /\ s \in {"connecting", "linking"} => r.client.socket
    /\ s \in {"disconnected", "incompatible"} => ~r.client.socket

LEMMA HandleSound ==
  ASSUME NEW r, NEW s, Heard(r, s)
  PROVE  /\ Sound(HandleClientState(r, s)) /\ Stays(r, HandleClientState(r, s))
         /\ HandleClientState(r, s) \in Raw
         /\ s = "connecting" => HandleClientState(r, s).client = r.client
<1>0. r.client # NoClient /\ r.client.state # "none" /\ r \in Raw
  BY NullsTyped DEF Heard
<1> DEFINE d == [r EXCEPT !.connected = FALSE, !.authority = FALSE]
<1>1. /\ d \in Raw /\ Kin(r, d) /\ ~d.connected /\ d.timer = r.timer
      /\ d.panels = r.panels /\ d.tabs = r.tabs /\ d.state = r.state
      /\ d.mismatch = r.mismatch /\ d.writing = r.writing
  BY <1>0 DEF Raw, Kin
<1>2. Stays(r, d) /\ (HasOwner(d) <=> HasOwner(r)) /\ d.client = r.client
  BY <1>1, KinStays DEF HasOwner, Kin
<1>3. {"linking", "error", "offline", "notLinked", "linked"} \subseteq States
  BY DEF States
<1>4. /\ d.timer # "stale" /\ (d.timer = "live" => d.client # NoClient /\ d.link # None)
      /\ d.client.state = s
  BY <1>0, <1>1 DEF Heard, Kin
<1>5. CASE s \in {"connecting", "linking"}
  <2>1. HandleClientState(r, s) = IF d.state = "reconnecting" THEN d
                                  ELSE SetState(d, "linking")
    BY <1>5 DEF HandleClientState, Connecting
  <2>2. d.client.socket
    BY <1>2, <1>5 DEF Heard
  <2>3. CASE d.state = "reconnecting"
    <3>1. Sound(d)
      BY <1>0, <1>1, <1>2, <1>4, <1>5, <2>2 DEF Sound, Tries
    <3>2. HandleClientState(r, s) = d
      BY <2>1, <2>3
    <3> HIDE DEF d
    <3> QED BY <1>1, <1>2, <3>1, <3>2
  <2>4. CASE d.state # "reconnecting"
    <3> DEFINE c == SetState(d, "linking")
    <3> HIDE DEF d
    <3>1. /\ c \in Raw /\ Kin(d, c) /\ c.panels = d.panels /\ c.tabs = d.tabs
          /\ c.timer = d.timer /\ c.connected = d.connected
      BY <1>1, <1>3, SetStateSets
    <3>2. HandleClientState(r, s) = c
      BY <2>1, <2>4
    <3> HIDE DEF c
    <3>3. Sound(c)
      BY <1>0, <1>1, <1>2, <1>4, <1>5, <2>2, <3>1 DEF Sound, Tries, Kin
    <3>4. Stays(d, c)
      BY <3>1, KinStays
    <3>5. c.client = r.client
      BY <1>2, <3>1 DEF Kin
    <3> QED BY <1>0, <1>1, <1>2, <3>1, <3>2, <3>3, <3>4, <3>5, StaysTransitive
  <2> QED BY <2>3, <2>4
<1>6. CASE s = "connected"
  <2> DEFINE b == [r EXCEPT !.connected = TRUE, !.authority = TRUE,
                            !.attempts = 0, !.timer = "none"]
  <2>1. HandleClientState(r, s) = IF b.link # None /\ ~b.writing
                                  THEN SetState(b, "linked") ELSE b
    BY <1>6 DEF HandleClientState, Connected
  <2>2. /\ b \in Raw /\ Kin(r, b) /\ b.connected /\ b.timer = "none"
        /\ b.panels = r.panels /\ b.tabs = r.tabs
    <3>1. 0 \in 0..MaxAttempts
      BY WindowAssumption
    <3> QED BY <1>0, <3>1 DEF Raw, Kin
  <2> HIDE DEF b
  <2>3. /\ SetState(b, "linked") \in Raw /\ Kin(b, SetState(b, "linked"))
        /\ SetState(b, "linked").panels = b.panels
        /\ SetState(b, "linked").tabs = b.tabs
        /\ SetState(b, "linked").connected = b.connected
        /\ SetState(b, "linked").timer = b.timer
    BY <1>3, <2>2, SetStateSets
  <2> DEFINE c == HandleClientState(r, s)
  <2>4. c \in {b, SetState(b, "linked")}
    BY <2>1
  <2> HIDE DEF c
  <2>5. /\ c \in Raw /\ Kin(r, c) /\ c.connected /\ c.timer = "none"
        /\ c.panels = r.panels /\ c.tabs = r.tabs
    BY <2>2, <2>3, <2>4 DEF Kin
  <2>6. Sound(c) /\ Stays(r, c)
    BY <1>0, <1>6, <2>5, KinStays DEF Sound, Kin, Tries, Heard
  <2> QED BY <1>6, <2>5, <2>6 DEF c
<1>7. CASE s = "disconnected"
  <2>1. HandleClientState(r, s) =
          IF d.pending.kind = "code" THEN StopAttempt(d, "error")
          ELSE IF d.pending.kind = "credentials" /\ d.writing
               THEN SetState(d, "offline")
          ELSE IF HasOwner(d) /\ d.link # None THEN ScheduleReconnect(d)
          ELSE SetState(d, IF d.link # None THEN "offline" ELSE "notLinked")
    BY <1>7 DEF HandleClientState, Disconnected
  <2> DEFINE c == HandleClientState(r, s)
  <2>0. ~d.client.socket
    BY <1>2, <1>7 DEF Heard
  <2>2. \A u \in {"offline", "notLinked"} :
           SetState(d, u) \in Raw /\ Sound(SetState(d, u)) /\ Stays(d, SetState(d, u))
    <3> SUFFICES ASSUME NEW u \in {"offline", "notLinked"}
                 PROVE  /\ SetState(d, u) \in Raw
                        /\ Sound(SetState(d, u)) /\ Stays(d, SetState(d, u))
      OBVIOUS
    <3> DEFINE b == SetState(d, u)
    <3>0. d \in Raw /\ u \in States
      BY <1>1, <1>3
    <3> HIDE DEF d
    <3>1. /\ b \in Raw /\ Kin(d, b) /\ b.panels = d.panels /\ b.tabs = d.tabs
          /\ b.timer = d.timer /\ b.connected = d.connected /\ b.state = u
      BY <3>0, SetStateSets
    <3> HIDE DEF b
    <3>2. Sound(b)
      BY <1>1, <1>4, <2>0, <3>1 DEF Sound, Kin, Hopeful
    <3> QED BY <3>1, <3>2, KinStays DEF b
  <2> HIDE DEF c, d
  <2>3. CASE d.pending.kind = "code"
    <3>1. Sound(StopAttempt(d, "error")) /\ Stays(d, StopAttempt(d, "error"))
          /\ StopAttempt(d, "error") \in Raw
      BY <1>1, <1>3, <2>3, StopAttemptSound, StopAttemptSets
         DEF Hopeful, Stoppable
    <3> QED BY <1>7, <1>0, <1>1, <1>2, <2>1, <2>3, <3>1, StaysTransitive
  <2>4. CASE d.pending.kind # "code" /\ ~(d.pending.kind = "credentials" /\ d.writing)
             /\ HasOwner(d) /\ d.link # None
    <3>1. HandleClientState(r, s) = ScheduleReconnect(d)
      BY <2>1, <2>4
    <3>2. ~CanSchedule(d) => d.timer = "live" \/ d.op # None
      <4>1. d.timer \in {"none", "live", "stale"} /\ d.client # NoClient
        BY <1>0, <1>1, <1>2 DEF Raw
      <4> QED BY <1>4, <2>4, <4>1 DEF CanSchedule
    <3>3. CanSchedule(d) \/ Sound(d)
      BY <1>0, <1>1, <1>2, <1>4, <1>7, <2>0, <3>2 DEF Sound, Tries
    <3>4. Sound(ScheduleReconnect(d)) /\ Stays(d, ScheduleReconnect(d))
          /\ ScheduleReconnect(d) \in Raw
      BY <1>1, <1>4, <2>0, <3>3, ScheduleReconnectSound
    <3> QED BY <1>7, <1>0, <1>1, <1>2, <3>1, <3>4, StaysTransitive
  <2>5. CASE /\ d.pending.kind # "code"
             /\ \/ d.pending.kind = "credentials" /\ d.writing
                \/ ~(HasOwner(d) /\ d.link # None)
    <3>1. \E u \in {"offline", "notLinked"} :
             HandleClientState(r, s) = SetState(d, u)
      BY <2>1, <2>5
    <3> QED BY <1>7, <1>0, <1>1, <1>2, <2>2, <3>1, StaysTransitive
  <2> QED BY <2>3, <2>4, <2>5
<1>8. CASE s = "error"
  <2> DEFINE c == SetState(d, "error")
  <2>1. HandleClientState(r, s) = c
    BY <1>8 DEF HandleClientState
  <2>0. d \in Raw
    BY <1>1
  <2> HIDE DEF d
  <2>2. /\ c \in Raw /\ Kin(d, c) /\ c.panels = d.panels /\ c.tabs = d.tabs
        /\ c.timer = d.timer /\ c.connected = d.connected /\ c.state = "error"
    BY <1>3, <2>0, SetStateSets
  <2> HIDE DEF c
  <2>3. Sound(c)
    BY <1>1, <1>4, <1>8, <2>2 DEF Sound, Kin, Hopeful
  <2>4. Stays(d, c)
    BY <2>2, KinStays
  <2> QED BY <1>8, <1>0, <1>1, <1>2, <2>1, <2>2, <2>3, <2>4, StaysTransitive
<1>9. CASE s = "incompatible"
  <2> DEFINE c == [r EXCEPT !.mismatch = TRUE]
  <2>1. HandleClientState(r, s) = c
    BY <1>9 DEF HandleClientState
  <2>2. /\ c \in Raw /\ Kin(r, c) /\ c.panels = r.panels /\ c.tabs = r.tabs
        /\ c.timer = r.timer /\ c.mismatch
    BY <1>0 DEF Raw, Kin
  <2> HIDE DEF c
  <2>3. Sound(c)
    BY <1>0, <1>9, <2>2 DEF Sound, Kin, Heard
  <2> QED BY <1>9, <2>1, <2>2, <2>3, KinStays
<1> QED BY <1>5, <1>6, <1>7, <1>8, <1>9 DEF Heard, ClientStates

\* The client changes, and says so.
LEMMA ReportSound ==
  ASSUME NEW r \in Raw, NEW c \in Client, NEW s \in ClientStates \ {"none"},
         r.timer # "stale", r.timer = "live" => r.link # None,
         s \in {"connecting", "linking"} => c.socket,
         s \in {"disconnected", "incompatible"} => ~c.socket,
         c.state # s
  PROVE  LET b == [r EXCEPT !.client = c]
             n == [c EXCEPT !.state = s]
             d == ClientState(b, s)
         IN  /\ Sound(d) /\ d \in Raw
             /\ Stays([r EXCEPT !.client = n], d)
             /\ s = "connecting" => d.client = n
<1> DEFINE b == [r EXCEPT !.client = c]
           n == [c EXCEPT !.state = s]
           e == [r EXCEPT !.client = n]
<1>1. n \in Client /\ n.state = s /\ n.socket = c.socket
  BY DEF Client
<1>2. ClientState(b, s) = HandleClientState([b EXCEPT !.client.state = s], s)
  BY DEF ClientState, Raw
<1>3. [b EXCEPT !.client.state = s] = e
  BY DEF Raw
<1> HIDE DEF n
<1>4. /\ e \in Raw /\ e.client = n /\ e.timer = r.timer /\ e.link = r.link
  BY <1>1 DEF Raw
<1> HIDE DEF b, e
<1>5. Heard(e, s)
  BY <1>1, <1>4 DEF Heard
<1> DEFINE d == ClientState(b, s)
<1>6. d = HandleClientState(e, s)
  BY <1>2, <1>3
<1> HIDE DEF d
<1>7. /\ Sound(d) /\ d \in Raw /\ Stays(e, d)
      /\ s = "connecting" => d.client = n
  BY <1>4, <1>5, <1>6, HandleSound
<1> QED BY <1>7 DEF b, d, e, n

LEMMA OpenClientSound ==
  ASSUME NEW r \in Raw, NEW i \in {"link", "credentials"},
         r.timer # "stale", r.timer = "live" => r.link # None
  PROVE  LET d == OpenClient(r, i) IN
         /\ Sound(d) /\ d \in Raw
         /\ d.panels = r.panels /\ d.tabs = r.tabs /\ d.op = r.op
         /\ d.link = r.link /\ d.exists = r.exists /\ d.gen = r.gen
         /\ d.token = r.token + 1 /\ d.client # NoClient
<1> DEFINE t == r.token + 1
           c == Started(i)
           n == [c EXCEPT !.state = "connecting"]
           b == [r EXCEPT !.token = t, !.connected = FALSE, !.authority = FALSE]
           d == OpenClient(r, i)
<1>1. t \in Nat /\ "connecting" \in ClientStates \ {"none"}
  BY DEF Raw, ClientStates
<1>2. c \in Client /\ c.socket /\ c.state = "none"
  BY NullsTyped DEF Started
<1>3. d = ClientState([b EXCEPT !.client = c], "connecting")
  BY DEF OpenClient
<1> HIDE DEF t, c
<1>4. n \in Client /\ n # NoClient
  <2>1. n \in Client /\ n.state = "connecting"
    BY <1>1, <1>2 DEF Client
  <2> QED BY <2>1, NullsTyped
<1>5. /\ b \in Raw /\ b.timer = r.timer /\ b.link = r.link /\ b.token = t
      /\ b.panels = r.panels /\ b.tabs = r.tabs /\ b.op = r.op
      /\ b.exists = r.exists /\ b.gen = r.gen
  BY <1>1 DEF Raw
<1> HIDE DEF b, d
<1>6. /\ Sound(d) /\ d \in Raw /\ Stays([b EXCEPT !.client = n], d)
      /\ d.client = n
  BY <1>1, <1>2, <1>3, <1>5, ReportSound
<1> DEFINE e == [b EXCEPT !.client = n]
<1> HIDE DEF n
<1>7. /\ e \in Raw /\ e.link = b.link /\ e.token = b.token
      /\ e.panels = b.panels /\ e.tabs = b.tabs /\ e.op = b.op
      /\ e.exists = b.exists /\ e.gen = b.gen /\ e.client # NoClient
  BY <1>4, <1>5 DEF Raw
<1> HIDE DEF e
<1>8. Stays(e, d)
  BY <1>6 DEF e
<1>9. /\ d.panels = e.panels /\ d.tabs = e.tabs /\ d.op = e.op
      /\ d.link = e.link /\ d.exists = e.exists /\ d.gen = e.gen
      /\ d.token = e.token
  BY <1>4, <1>6, <1>8 DEF Stays
<1> QED BY <1>4, <1>5, <1>6, <1>7, <1>9 DEF t, d

-----------------------------------------------------------------------------
(* The calls and the queue of such a window, and what is stored.           *)

\* No two calls share an identity, and a call that awaits its cleanup has no
\* storage operation.
Named(o, q) ==
    /\ \A p, c \in o : p.id = c.id => p = c
    /\ \A p \in o : p.phase = "cleanup" => \A k \in DOMAIN q : q[k].op # p.id
    /\ \A k \in DOMAIN q : q[k].kind \in {"load", "save"} => q[k].op = None

\* Only the first operation is under way, and none is aborted.
Ordered(q) == \A k \in DOMAIN q : ~q[k].aborted /\ (q[k].started => k = 1)

\* A call that will forget the link when its cleanup is done
Awaited(r, p) == p.phase = "cleanup" /\ p.known /\ OwnsRecord(r, p)

Loading(r, q) == \E k \in DOMAIN q : CurrentLoad(r, q[k])

\* While a call's token is on the record the call is in progress, and where the
\* record could still be used it waits for its cleanup.
Backed(w, r, o, q) ==
    /\ HasOwner(r) => r.exists
    /\ r.op # None /\ (w \/ HasOwner(r)) => \E p \in o : p.id = r.op
    /\ r.op # None /\ (r.client # NoClient \/ Loading(r, q)) =>
           \E p \in o : Awaited(r, p)
    /\ \A k \in DOMAIN q :
           q[k].kind = "remove" /\ q[k].op # None => ~w /\ ~HasOwner(r)

Idling(r) == r.client = NoClient /\ r.pending = NoPending /\ r.state # "linking"

\* In an open window (w) the panels that gave the commands stay, and a window
\* that nobody uses does nothing.
Manned(w, r, o) ==
    w => /\ IsFiniteSet(r.panels)
         /\ \A p \in o : p.kind # "remove" /\ p.panel \in r.panels
         /\ HasOwner(r) \/ Idling(r)

Calm(w, r, o, q) ==
    /\ Sound(r) /\ Named(o, q) /\ Ordered(q)
    /\ \A k \in DOMAIN q : CurrentSave(r, q[k]) => Assured(r)
    /\ Backed(w, r, o, q)
    /\ Manned(w, r, o)

\* An operation that will empty the storage: a removal that nothing skips
Erases(r, o, e) ==
    \/ e.kind \in {"unlinkRemove", "remove"}
    \/ /\ e.kind = "linkRemove"
       /\ e.started \/ \E p \in o : p.id = e.op /\ p.phase = "store" /\ OwnsRecord(r, p)

\* A save under way that the record will not hear of
Lost(r, e) == e.kind = "save" /\ e.started /\ ~CurrentSave(r, e)

\* Whatever is stored, and will be, is going to be erased.
Erased(r, o, q, s) ==
    /\ s # None => \E k \in DOMAIN q : Erases(r, o, q[k])
    /\ \A k \in DOMAIN q : Lost(r, q[k]) =>
           \E j \in DOMAIN q : j > k /\ Erases(r, o, q[j])

\* A window in use has the link, loads it, or forgets it for good.
Accounted(r, o, q, s) ==
    HasOwner(r) => Loading(r, q) \/ r.link # None \/ Erased(r, o, q, s)

Cared(f, w, r, o, q, s) ==
    /\ Calm(w, r, o, q)
    /\ "storage" \notin f /\ w => Accounted(r, o, q, s)

\* p is the call c for a record d that was r, with its generation rebased
SameCall(r, d, p, c) ==
    /\ p = [c EXCEPT !.gen = Rebase(@, r.gen)]
    /\ p.id = c.id /\ p.phase = c.phase /\ p.kind = c.kind
    /\ p.panel = c.panel /\ p.known = c.known
    /\ OwnsRecord(d, p) <=> OwnsRecord(r, c)

\* Rebasing keeps what the properties can tell apart.
LEMMA BecomeShows ==
  ASSUME NEW r \in Raw, NEW o, NEW q, Typed(o, q), Become(r, o, q)
  PROVE  /\ rec' \in Raw /\ Kin([r EXCEPT !.gen = 0, !.token = 0], rec')
         /\ rec' = [r EXCEPT !.gen = 0, !.token = 0]
         /\ \A p \in ops' : \E c \in o : SameCall(r, rec', p, c)
         /\ \A c \in o : \E p \in ops' : SameCall(r, rec', p, c)
         /\ DOMAIN queue' = DOMAIN q
         /\ \A k \in DOMAIN q :
               /\ queue'[k].kind = q[k].kind /\ queue'[k].op = q[k].op
               /\ queue'[k].started = q[k].started
               /\ queue'[k].aborted = q[k].aborted
               /\ CurrentLoad(rec', queue'[k]) <=> CurrentLoad(r, q[k])
               /\ CurrentSave(rec', queue'[k]) <=> CurrentSave(r, q[k])
<1>1. r \in Raw /\ r.gen \in Nat /\ r.token \in Nat
  BY DEF Raw
<1> DEFINE R(x, n) == Rebase(x, n)
<1>2. \A x, n : R(x, n) \in {0, Stale} /\ (R(x, n) = 0 <=> x = n)
  BY DEF Rebase, Stale
<1>3. /\ rec' \in Raw /\ Kin([r EXCEPT !.gen = 0, !.token = 0], rec')
      /\ rec'.gen = 0 /\ rec'.token = 0
      /\ rec'.exists = r.exists /\ rec'.op = r.op
  BY <1>1 DEF Become, Raw, Kin
<1> HIDE DEF R
<1> DEFINE C(c) == [c EXCEPT !.gen = R(c.gen, r.gen)]
<1>4. ASSUME NEW c \in o
      PROVE  SameCall(r, rec', C(c), c)
  <2> DEFINE g == R(c.gen, r.gen)
             p == [c EXCEPT !.gen = g]
  <2>1. c \in RawCall /\ (g = 0 <=> c.gen = r.gen)
    BY <1>2 DEF Typed
  <2> HIDE DEF g
  <2>2. /\ p.id = c.id /\ p.phase = c.phase /\ p.kind = c.kind
        /\ p.panel = c.panel /\ p.known = c.known /\ p.gen = g
    BY <2>1 DEF RawCall
  <2> HIDE DEF p
  <2>3. OwnsRecord(rec', p) <=> OwnsRecord(r, c)
    BY <1>3, <2>1, <2>2 DEF OwnsRecord, IsCurrent
  <2>4. p = [c EXCEPT !.gen = Rebase(@, r.gen)] /\ C(c) = p
    BY DEF p, g, R
  <2> HIDE DEF C
  <2> QED BY <2>2, <2>3, <2>4 DEF SameCall
<1>5. ops' = { C(c) : c \in o }
  BY DEF Become, R
<1> DEFINE E(k) == [q[k] EXCEPT !.gen = R(q[k].gen, r.gen),
                                !.token = R(q[k].token, r.token)]
<1>6. ASSUME NEW k \in DOMAIN q
      PROVE  /\ E(k).kind = q[k].kind /\ E(k).op = q[k].op
             /\ E(k).started = q[k].started /\ E(k).aborted = q[k].aborted
             /\ CurrentLoad(rec', E(k)) <=> CurrentLoad(r, q[k])
             /\ CurrentSave(rec', E(k)) <=> CurrentSave(r, q[k])
  <2> DEFINE e == q[k]
             g == R(q[k].gen, r.gen)
             t == R(q[k].token, r.token)
             u == E(k)
  <2>1. e \in RawEntry
    BY TypedParts
  <2>2. u = [e EXCEPT !.gen = g, !.token = t]
    OBVIOUS
  <2>3. (g = 0 <=> e.gen = r.gen) /\ (t = 0 <=> e.token = r.token)
    BY <1>2
  <2> HIDE DEF e, g, t, u
  <2>4. /\ u.kind = e.kind /\ u.op = e.op /\ u.started = e.started
        /\ u.aborted = e.aborted /\ u.gen = g /\ u.token = t
    BY <2>1, <2>2 DEF RawEntry
  <2>5. /\ CurrentLoad(rec', u) <=> CurrentLoad(r, e)
        /\ CurrentSave(rec', u) <=> CurrentSave(r, e)
    BY <1>3, <2>3, <2>4 DEF CurrentLoad, CurrentSave
  <2> QED BY <2>4, <2>5 DEF e, u
<1>7. queue' = [k \in DOMAIN q |-> E(k)]
  BY DEF Become, R
<1> HIDE DEF C, E
<1>8. rec' = [r EXCEPT !.gen = 0, !.token = 0]
  BY DEF Become
<1> QED BY <1>3, <1>4, <1>5, <1>6, <1>7, <1>8

LEMMA BecomeCares ==
  ASSUME NEW r \in Raw, NEW o, NEW q, Typed(o, q), Become(r, o, q),
         NEW f, NEW w, NEW s, Cared(f, w, r, o, q, s)
  PROVE  Cared(f, w, rec', ops', queue', s)
<1> DEFINE Same(p, c) == SameCall(r, rec', p, c)
<1>1. /\ rec' = [r EXCEPT !.gen = 0, !.token = 0] /\ r \in Raw
      /\ DOMAIN queue' = DOMAIN q
  BY BecomeShows
<1>2. /\ \A p \in ops' : \E c \in o : Same(p, c)
      /\ \A c \in o : \E p \in ops' : Same(p, c)
  BY BecomeShows
<1>3. \A k \in DOMAIN q :
         /\ queue'[k].kind = q[k].kind /\ queue'[k].op = q[k].op
         /\ queue'[k].started = q[k].started
         /\ queue'[k].aborted = q[k].aborted
         /\ CurrentLoad(rec', queue'[k]) <=> CurrentLoad(r, q[k])
         /\ CurrentSave(rec', queue'[k]) <=> CurrentSave(r, q[k])
  BY BecomeShows
<1>4. /\ rec'.panels = r.panels /\ rec'.tabs = r.tabs /\ rec'.op = r.op
      /\ rec'.link = r.link /\ rec'.client = r.client /\ rec'.state = r.state
      /\ rec'.connected = r.connected /\ rec'.timer = r.timer
      /\ rec'.mismatch = r.mismatch /\ rec'.pending = r.pending
      /\ rec'.exists = r.exists
  BY <1>1 DEF Raw
<1>5. HasOwner(rec') <=> HasOwner(r)
  BY <1>4 DEF HasOwner
<1>6. Sound(rec')
  BY <1>4, <1>5 DEF Cared, Calm, Sound, Tries
<1>7. Named(ops', queue') /\ Ordered(queue')
  <2>1. \A p, c \in ops' : p.id = c.id => p = c
    BY <1>2 DEF Cared, Calm, Named, SameCall
  <2>2. \A p \in ops' : p.phase = "cleanup" =>
            \A k \in DOMAIN queue' : queue'[k].op # p.id
    BY <1>1, <1>2, <1>3 DEF Cared, Calm, Named, SameCall
  <2>3. \A k \in DOMAIN queue' :
            queue'[k].kind \in {"load", "save"} => queue'[k].op = None
    BY <1>1, <1>3 DEF Cared, Calm, Named
  <2>4. Ordered(queue')
    BY <1>1, <1>3 DEF Cared, Calm, Ordered
  <2> QED BY <2>1, <2>2, <2>3, <2>4 DEF Named
<1>8. \A k \in DOMAIN queue' : CurrentSave(rec', queue'[k]) => Assured(rec')
  BY <1>1, <1>3, <1>4 DEF Cared, Calm, Assured
<1>9. Loading(rec', queue') <=> Loading(r, q)
  BY <1>1, <1>3 DEF Loading
<1>10. \A p \in ops', c \in o : Same(p, c) => (Awaited(rec', p) <=> Awaited(r, c))
  BY DEF Awaited, SameCall
<1>11. Backed(w, rec', ops', queue')
  <2>1. Backed(w, r, o, q)
    BY DEF Cared, Calm
  <2>2. r.op # None /\ (w \/ HasOwner(r)) => \E p \in ops' : p.id = r.op
    BY <1>2, <2>1 DEF Backed, SameCall
  <2>3. r.op # None /\ (r.client # NoClient \/ Loading(r, q)) =>
            \E p \in ops' : Awaited(rec', p)
    BY <1>2, <1>10, <2>1 DEF Backed
  <2>4. \A k \in DOMAIN queue' :
            queue'[k].kind = "remove" /\ queue'[k].op # None => ~w /\ ~HasOwner(r)
    BY <1>1, <1>3, <2>1 DEF Backed
  <2>5. HasOwner(rec') => rec'.exists
    BY <1>4, <1>5, <2>1 DEF Backed
  <2> QED BY <1>4, <1>5, <1>9, <2>2, <2>3, <2>4, <2>5 DEF Backed
<1>12. Manned(w, rec', ops')
  <2>1. Manned(w, r, o)
    BY DEF Cared, Calm
  <2>2. w => \A p \in ops' : p.kind # "remove" /\ p.panel \in r.panels
    BY <1>2, <2>1 DEF Manned, SameCall
  <2>3. w => HasOwner(rec') \/ Idling(rec')
    BY <1>4, <1>5, <2>1 DEF Manned, Idling
  <2>4. w => IsFiniteSet(rec'.panels)
    BY <1>4, <2>1 DEF Manned
  <2> QED BY <1>4, <2>2, <2>3, <2>4 DEF Manned
<1>13. ASSUME Accounted(r, o, q, s)
       PROVE  Accounted(rec', ops', queue', s)
  <2>1. \A k \in DOMAIN q : /\ Erases(r, o, q[k]) => Erases(rec', ops', queue'[k])
                            /\ Lost(rec', queue'[k]) => Lost(r, q[k])
    BY <1>2, <1>3 DEF Erases, Lost, SameCall
  <2>2. Erased(r, o, q, s) => Erased(rec', ops', queue', s)
    BY <1>1, <2>1 DEF Erased
  <2> QED BY <1>4, <1>5, <1>9, <1>13, <2>2 DEF Accounted
<1> QED BY <1>6, <1>7, <1>8, <1>11, <1>12, <1>13 DEF Cared, Calm

\* Where the record is still the one of its client, or its attempt stopped,
\* nothing changes for the calls and the queue.
LEMMA StaysCares ==
  ASSUME NEW r \in Raw, NEW d \in Raw, NEW o, NEW q, NEW s, NEW f, NEW w,
         Typed(o, q), Kept(r, o, q, s), Cared(f, w, r, o, q, s),
         Sound(d), Stays(r, d), w => HasOwner(r) \/ Idling(d)
  PROVE  Cared(f, w, d, o, q, s)
<1>1. /\ d.exists = r.exists /\ d.panels = r.panels /\ d.tabs = r.tabs
      /\ d.op = r.op /\ d.link = r.link /\ (HasOwner(d) <=> HasOwner(r))
  BY DEF Stays, HasOwner
<1>2. Manned(w, d, o) /\ Named(o, q) /\ Ordered(q)
  BY <1>1 DEF Cared, Calm, Manned
<1>3. CASE /\ d.gen = r.gen /\ d.token = r.token
           /\ d.client = NoClient <=> r.client = NoClient
           /\ Assured(r) /\ r.link = None => Assured(d)
  <2>1. \A k \in DOMAIN q : /\ CurrentLoad(d, q[k]) <=> CurrentLoad(r, q[k])
                            /\ CurrentSave(d, q[k]) <=> CurrentSave(r, q[k])
    BY <1>1, <1>3 DEF CurrentLoad, CurrentSave
  <2>2. \A p : OwnsRecord(d, p) <=> OwnsRecord(r, p)
    BY <1>1, <1>3 DEF OwnsRecord, IsCurrent
  <2>3. Loading(d, q) <=> Loading(r, q)
    BY <2>1 DEF Loading
  <2>4. Backed(w, d, o, q)
    BY <1>1, <1>3, <2>2, <2>3 DEF Cared, Calm, Backed, Awaited
  <2>5. \A k \in DOMAIN q : CurrentSave(d, q[k]) => Assured(d)
    BY <1>3, <2>1 DEF Cared, Calm, Kept
  <2>6. \A k \in DOMAIN q : /\ Erases(d, o, q[k]) <=> Erases(r, o, q[k])
                            /\ Lost(d, q[k]) <=> Lost(r, q[k])
    BY <2>1, <2>2 DEF Erases, Lost
  <2>7. Accounted(r, o, q, s) => Accounted(d, o, q, s)
    BY <1>1, <2>3, <2>6 DEF Accounted, Erased
  <2> QED BY <1>2, <2>4, <2>5, <2>7 DEF Cared, Calm
<1>4. CASE /\ d.gen > r.gen /\ d.client = NoClient /\ d.pending = NoPending
           /\ Stoppable(r)
  <2>1. /\ \A k \in DOMAIN q : ~CurrentLoad(d, q[k]) /\ ~CurrentSave(d, q[k])
        /\ \A p \in o : ~OwnsRecord(d, p)
    BY <1>4, NewGeneration
  <2>2. ~Loading(d, q)
    BY <2>1 DEF Loading
  <2>3. Backed(w, d, o, q)
    BY <1>1, <1>4, <2>2 DEF Cared, Calm, Backed
  <2>4. ~Detached(r)
    BY <1>4 DEF Detached, NoPending, Stoppable
  <2>5. /\ ~Loading(r, q)
        /\ \A p \in o : ~(p.phase = "store" /\ OwnsRecord(r, p))
    BY <2>4 DEF Kept, Loading
  <2>6. \A k \in DOMAIN q : ~CurrentSave(r, q[k])
    BY <1>4 DEF Kept, Stoppable, Cared, Calm
  <2>7. \A k \in DOMAIN q : /\ Erases(r, o, q[k]) => Erases(d, o, q[k])
                            /\ Lost(d, q[k]) => Lost(r, q[k])
    BY <2>5, <2>6 DEF Erases, Lost
  <2>8. Accounted(r, o, q, s) => Accounted(d, o, q, s)
    BY <1>1, <2>5, <2>7 DEF Accounted, Erased
  <2> QED BY <1>2, <2>1, <2>3, <2>8 DEF Cared, Calm
<1> QED BY <1>3, <1>4 DEF Stays

\* The window is open and somebody uses it, or it is closed: Caring is what
\* holds of it, beside WInv, when no command is aborted.
Caring == Cared(faults, open, rec, ops, queue, stored)

LEMMA StepCares ==
  ASSUME WInv, Caring, NEW d \in Raw, Sound(d), Stays(rec, d),
         open => HasOwner(rec) \/ Idling(d),
         Become(d, ops, queue), UNCHANGED <<open, stored, faults>>
  PROVE  Caring'
<1>1. Cared(faults, open, d, ops, queue, stored)
  BY Before, StaysCares DEF Caring
<1>2. Typed(ops, queue)
  BY Before
<1>3. Cared(faults, open, rec', ops', queue', stored)
  BY <1>1, <1>2, BecomeCares
<1> QED BY <1>3 DEF Caring

\* The client's record in an open window is in use.
LEMMA ClientUsed ==
  ASSUME Caring, rec.client # NoClient
  PROVE  open => HasOwner(rec)
  BY DEF Caring, Cared, Calm, Manned, Idling

-----------------------------------------------------------------------------
(* The socket and the timer, with care.                                    *)

LEMMA ReportCares ==
  ASSUME WInv, Caring, NEW r \in Raw, NEW c \in Client,
         NEW s \in ClientStates \ {"none"},
         Kin(rec, r), r.panels = rec.panels, r.tabs = rec.tabs,
         r.timer # "stale", r.timer = "live" => r.link # None,
         s \in {"connecting", "linking"} => c.socket,
         s \in {"disconnected", "incompatible"} => ~c.socket,
         c.state # s, rec.client # NoClient,
         Assured(rec) /\ rec.link = None =>
             Assured([r EXCEPT !.client = [c EXCEPT !.state = s]]),
         Become(ClientState([r EXCEPT !.client = c], s), ops, queue),
         UNCHANGED <<open, stored, faults>>
  PROVE  Caring'
<1> DEFINE n == [c EXCEPT !.state = s]
           e == [r EXCEPT !.client = n]
           d == ClientState([r EXCEPT !.client = c], s)
<1>1. Sound(d) /\ d \in Raw /\ Stays(e, d)
  BY ReportSound
<1>2. n \in Client /\ n # NoClient
  <2>1. n \in Client /\ n.state = s
    BY DEF Client
  <2> QED BY <2>1, NullsTyped
<1>3. Assured(rec) /\ rec.link = None => Assured(e)
  OBVIOUS
<1>6. Become(d, ops, queue)
  OBVIOUS
<1> HIDE DEF n
<1>4. /\ e \in Raw /\ e.client = n /\ e.exists = r.exists /\ e.gen = r.gen
      /\ e.token = r.token /\ e.op = r.op /\ e.link = r.link
      /\ e.pending = r.pending /\ e.panels = r.panels /\ e.tabs = r.tabs
  BY <1>2 DEF Raw
<1> HIDE DEF e, d
<1>5. Stays(rec, e)
  BY <1>2, <1>3, <1>4 DEF Stays, Kin
<1>7. Stays(rec, d)
  BY <1>1, <1>4, <1>5, Before, StaysTransitive
<1> QED BY <1>1, <1>6, <1>7, ClientUsed, StepCares

LEMMA ClientTyped == ASSUME WInv PROVE rec.client \in Client
  BY Before DEF Raw

LEMMA SelfReports ==
  ASSUME WInv, Caring
  PROVE  /\ Kin(rec, rec) /\ rec.timer # "stale"
         /\ rec.timer = "live" => rec.link # None
         /\ rec.client.socket =>
                /\ rec.client # NoClient
                /\ rec.client.state \notin {"none", "disconnected", "incompatible"}
         /\ \A c : [rec EXCEPT !.client = c].client = c
<1>1. Sound(rec)
  BY DEF Caring, Cared, Calm
<1>2. ~NoClient.socket
  BY NullsTyped
<1>3. \A c : [rec EXCEPT !.client = c].client = c
  BY Before DEF Raw
<1> QED BY <1>1, <1>2, <1>3 DEF Sound, Kin

LEMMA SocketOpensCares == ASSUME WInv, Caring, SocketOpens PROVE Caring'
<1>1. /\ rec.client.socket /\ rec.client.intent = "link"
      /\ rec.client.state = "connecting"
      /\ Become(ClientState(rec, "linking"), ops, queue)
      /\ UNCHANGED <<open, stored, faults>>
  BY DEF SocketOpens, Settle
<1>2. [rec EXCEPT !.client = rec.client] = rec
  BY Before DEF Raw
<1>3. ~Assured(rec)
  BY <1>1 DEF Assured
<1> QED BY <1>1, <1>2, <1>3, ReportCares, ClientTyped, SelfReports, Before
        DEF ClientStates

LEMMA SocketErrorCares == ASSUME WInv, Caring, SocketError PROVE Caring'
<1>1. /\ rec.client.socket /\ rec.client.state # "error"
      /\ Become(ClientState(rec, "error"), ops, queue)
      /\ UNCHANGED <<open, stored, faults>>
  BY DEF SocketError, Settle
<1>2. [rec EXCEPT !.client = rec.client] = rec
  BY Before DEF Raw
<1> DEFINE n == [rec.client EXCEPT !.state = "error"]
<1>3. n.intent = rec.client.intent /\ n.allowed = rec.client.allowed
      /\ n.state = "error"
  BY ClientTyped DEF Client
<1>4. Assured(rec) => Assured([rec EXCEPT !.client = n])
  <2> HIDE DEF n
  <2> QED BY <1>1, <1>3, SelfReports DEF Assured
<1> QED BY <1>1, <1>2, <1>4, ReportCares, ClientTyped, SelfReports, Before
        DEF ClientStates

LEMMA LinkAcceptedCares == ASSUME WInv, Caring, LinkAccepted PROVE Caring'
<1> DEFINE d == [rec EXCEPT !.client.intent = "credentials",
                            !.client.allowed = FALSE, !.client.notify = TRUE]
<1>1. /\ rec.client.socket /\ rec.client.intent = "link"
      /\ rec.client.state = "linking"
      /\ Become(d, ops, queue) /\ UNCHANGED <<open, stored, faults>>
  BY DEF LinkAccepted, Settle
<1>2. /\ d \in Raw /\ d.exists = rec.exists /\ d.panels = rec.panels
      /\ d.tabs = rec.tabs /\ d.op = rec.op /\ d.link = rec.link
      /\ d.gen = rec.gen /\ d.token = rec.token /\ d.pending = rec.pending
      /\ d.client.socket /\ d.client.state = "linking"
      /\ d.connected = rec.connected /\ d.timer = rec.timer
      /\ d.mismatch = rec.mismatch /\ d.state = rec.state
  BY <1>1, ClientTyped, Before DEF Raw, Client
<1> HIDE DEF d
<1>3. d.client # NoClient /\ rec.client # NoClient
  BY <1>1, <1>2, NullsTyped
<1>4. Stays(rec, d)
  BY <1>1, <1>2, <1>3 DEF Stays, Assured
<1>5. Sound(d)
  BY <1>1, <1>2, <1>3 DEF Caring, Cared, Calm, Sound, Tries
<1> QED BY <1>1, <1>2, <1>3, <1>4, <1>5, ClientUsed, StepCares

LEMMA StopCares ==
  ASSUME WInv, Caring, NEW s \in States, s \notin Hopeful,
         rec.client # NoClient, Stoppable(rec),
         Settle(StopAttempt(rec, s), queue)
  PROVE  Caring'
<1> DEFINE d == StopAttempt(rec, s)
<1>1. Sound(d) /\ Stays(rec, d) /\ d \in Raw
  BY Before, StopAttemptSound, StopAttemptSets
<1>2. Become(d, ops, queue) /\ UNCHANGED <<open, stored, faults>>
  BY DEF Settle
<1> HIDE DEF d
<1> QED BY <1>1, <1>2, ClientUsed, StepCares

LEMMA LinkRejectedCares == ASSUME WInv, Caring, LinkRejected PROVE Caring'
<1>1. rec.client.socket /\ rec.client.intent = "link"
  BY DEF LinkRejected
<1>2. rec.client # NoClient /\ Stoppable(rec)
  BY <1>1, NullsTyped DEF Stoppable, Assured
<1>3. PICK s \in {"error", "rateLimited"} : Settle(StopAttempt(rec, s), queue)
  BY DEF LinkRejected
<1> QED BY <1>2, <1>3, StopCares DEF States, Hopeful

LEMMA SocketClosedCares == ASSUME WInv, Caring, SocketClosed PROVE Caring'
<1>0. rec.client.socket /\ rec.client # NoClient
  BY NullsTyped DEF SocketClosed
<1>1. CASE rec.client.intent = "link" \/ ~rec.client.allowed
  <2>1. Settle(StopAttempt(rec, "error"), queue)
    BY <1>1 DEF SocketClosed
  <2>2. Stoppable(rec)
    BY <1>0, <1>1 DEF Stoppable, Assured
  <2> QED BY <1>0, <2>1, <2>2, StopCares DEF States, Hopeful
<1>2. CASE ~(rec.client.intent = "link" \/ ~rec.client.allowed)
  <2> DEFINE c == [rec.client EXCEPT !.socket = FALSE]
             n == [c EXCEPT !.state = "disconnected"]
  <2>1. /\ Become(ClientState([rec EXCEPT !.client = c], "disconnected"), ops, queue)
        /\ UNCHANGED <<open, stored, faults>>
    <3>1. [rec EXCEPT !.client.socket = FALSE] = [rec EXCEPT !.client = c]
      BY Before DEF Raw
    <3>2. Settle(ClientState([rec EXCEPT !.client.socket = FALSE], "disconnected"),
                 queue)
      BY <1>2 DEF SocketClosed
    <3> QED BY <3>1, <3>2 DEF Settle
  <2>2. /\ c \in Client /\ ~c.socket /\ c.state = rec.client.state
        /\ n \in Client /\ ~n.socket
    BY ClientTyped DEF Client, ClientStates
  <2>3. Assured([rec EXCEPT !.client = n])
    <3> HIDE DEF n
    <3> QED BY <2>2, SelfReports DEF Assured
  <2>4. c.state # "disconnected" /\ "disconnected" \in ClientStates \ {"none"}
    BY <1>0, <2>2, SelfReports DEF ClientStates
  <2> HIDE DEF c
  <2> QED BY <1>0, <2>1, <2>2, <2>3, <2>4, ReportCares, SelfReports, Before DEF n
<1> QED BY <1>1, <1>2

\* The socket is closed for a protocol error or a send that failed.
LEMMA SilencedReports ==
  ASSUME WInv, Caring, NEW r \in Raw, Kin(rec, r), r.panels = rec.panels,
         r.tabs = rec.tabs, r.timer = rec.timer,
         NEW s \in {"error", "incompatible", "disconnected"},
         rec.client # NoClient, rec.client.state # s,
         Become(ClientState([r EXCEPT !.client = Silenced(rec.client)], s),
                ops, queue),
         UNCHANGED <<open, stored, faults>>
  PROVE  Caring'
<1> DEFINE c == Silenced(rec.client)
           n == [c EXCEPT !.state = s]
<1>1. /\ c \in Client /\ ~c.socket /\ c.state = rec.client.state
      /\ n \in Client /\ ~n.socket
  BY ClientTyped DEF Client, Silenced, ClientStates
<1>2. Assured([r EXCEPT !.client = n])
  <2>1. [r EXCEPT !.client = n].client = n
    BY DEF Raw
  <2> HIDE DEF n
  <2> QED BY <1>1, <2>1 DEF Assured
<1>3. r.link = rec.link /\ s \in ClientStates \ {"none"}
  BY DEF Kin, ClientStates
<1>4. Become(ClientState([r EXCEPT !.client = c], s), ops, queue)
  OBVIOUS
<1> HIDE DEF c
<1> QED BY <1>1, <1>2, <1>3, <1>4, ReportCares, SelfReports DEF n

LEMMA ProtocolCares == ASSUME WInv, Caring, BadMessage \/ Incompatible PROVE Caring'
<1>1. rec.client.socket /\ rec.client # NoClient
  BY NullsTyped DEF BadMessage, Incompatible
<1> DEFINE c == Silenced(rec.client)
           b == [rec EXCEPT !.client = c]
<1>2. b = [rec EXCEPT !.client = Silenced(@)]
  BY Before DEF Raw
<1>3. /\ UNCHANGED <<open, stored, faults>>
      /\ \E s \in {"error", "incompatible"} : Become(ClientState(b, s), ops, queue)
  BY <1>2 DEF BadMessage, Incompatible, Settle
<1>4. PICK s \in {"error", "incompatible"} : Become(ClientState(b, s), ops, queue)
  BY <1>3
<1>5. CASE rec.client.state # s
  BY <1>1, <1>3, <1>4, <1>5, Before, SelfReports, SilencedReports
<1>6. CASE rec.client.state = s
  <2>1. s = "error"
    BY <1>1, <1>6, SelfReports
  <2>2. c \in Client /\ ~c.socket /\ c.state = "error"
    BY <1>6, <2>1, ClientTyped DEF Client, Silenced
  <2> HIDE DEF c
  <2>3. /\ b \in Raw /\ Kin([rec EXCEPT !.client = c], b) /\ b.client = c
        /\ b.exists = rec.exists /\ b.panels = rec.panels
        /\ b.tabs = rec.tabs /\ b.op = rec.op /\ b.link = rec.link
        /\ b.gen = rec.gen /\ b.token = rec.token /\ b.pending = rec.pending
        /\ b.connected = rec.connected /\ b.timer = rec.timer
        /\ b.mismatch = rec.mismatch /\ b.state = rec.state
    BY <2>2, Before DEF Raw, Kin
  <2>4. ClientState(b, s) = b
    BY <2>1, <2>2, <2>3 DEF ClientState
  <2> HIDE DEF b
  <2>5. b.client # NoClient
    BY <2>2, <2>3, NullsTyped
  <2>6. Stays(rec, b)
    BY <1>1, <2>2, <2>3, <2>5 DEF Stays, Assured
  <2>7. Sound(b)
    BY <1>6, <2>1, <2>2, <2>3, <2>5 DEF Caring, Cared, Calm, Sound, Tries
  <2> QED BY <1>1, <1>3, <1>4, <2>3, <2>4, <2>6, <2>7, ClientUsed, StepCares
<1> QED BY <1>5, <1>6

\* The record shows a failure, and nothing else changes but its connection.
LEMMA FailureCares ==
  ASSUME WInv, Caring, NEW r \in Raw, Kin(rec, r), r.panels = rec.panels,
         r.tabs = rec.tabs, r.timer = rec.timer,
         r.connected => rec.connected,
         NEW s \in States \ (Hopeful \cup {"linking"}), Settle(SetState(r, s), queue)
  PROVE  Caring'
<1> DEFINE d == SetState(r, s)
<1>1. /\ d \in Raw /\ Kin(r, d) /\ d.state = s /\ d.panels = r.panels
      /\ d.tabs = r.tabs /\ d.timer = r.timer /\ d.connected = r.connected
  BY SetStateSets
<1>2. Become(d, ops, queue) /\ UNCHANGED <<open, stored, faults>>
  BY DEF Settle
<1> HIDE DEF d
<1>3. /\ Kin(rec, d) /\ Stays(rec, d)
  BY <1>1, KinStays DEF Kin
<1>4. Sound(rec) /\ Manned(open, rec, ops)
  BY DEF Caring, Cared, Calm
<1>5. Sound(d)
  BY <1>1, <1>3, <1>4 DEF Sound, Kin
<1>6. open => HasOwner(rec) \/ Idling(d)
  BY <1>1, <1>3, <1>4 DEF Manned, Idling, Kin
<1> QED BY <1>1, <1>2, <1>3, <1>5, <1>6, StepCares

LEMMA MismatchDoneCares == ASSUME WInv, Caring, MismatchDone PROVE Caring'
<1> DEFINE r == [rec EXCEPT !.mismatch = FALSE, !.connected = FALSE]
<1>1. /\ r \in Raw /\ Kin(rec, r) /\ r.panels = rec.panels
      /\ r.tabs = rec.tabs /\ r.timer = rec.timer /\ ~r.connected
  BY Before DEF Raw, Kin
<1>2. Settle(SetState(r, "incompatible"), queue)
  BY DEF MismatchDone
<1> HIDE DEF r
<1> QED BY <1>1, <1>2, FailureCares DEF States, Hopeful

LEMMA PublishFailsCares == ASSUME WInv, Caring, PublishFails PROVE Caring'
  BY Before, FailureCares DEF PublishFails, Kin, States, Hopeful

LEMMA TransportFailsCares == ASSUME WInv, Caring, TransportFails PROVE Caring'
<1> DEFINE r == [rec EXCEPT !.connected = FALSE, !.authority = FALSE]
           c == Silenced(rec.client)
<1>1. /\ r \in Raw /\ Kin(rec, r) /\ r.panels = rec.panels
      /\ r.tabs = rec.tabs /\ r.timer = rec.timer
  BY Before DEF Raw, Kin
<1>2. [rec EXCEPT !.connected = FALSE, !.authority = FALSE,
                  !.client = Silenced(@)] = [r EXCEPT !.client = c]
  BY Before DEF Raw
<1>3. /\ Become(ClientState([r EXCEPT !.client = c], "disconnected"), ops, queue)
      /\ UNCHANGED <<open, stored, faults>>
      /\ rec.connected /\ rec.client # NoClient
  BY <1>2 DEF TransportFails, Sending, Settle
<1>4. rec.client.state # "disconnected"
  BY <1>3 DEF Caring, Cared, Calm, Sound
<1> HIDE DEF r
<1> QED BY <1>1, <1>3, <1>4, SilencedReports

LEMMA TimerFiresCares == ASSUME WInv, Caring, TimerFires PROVE Caring'
<1> DEFINE r == [rec EXCEPT !.timer = "none"]
           i == Started("credentials")
           c == [i EXCEPT !.state = rec.client.state]
           n == [c EXCEPT !.state = "connecting"]
           b == [r EXCEPT !.client = c]
<1>1. rec.timer = "live" /\ rec.client # NoClient /\ rec.link # None
  <2>1. rec.timer \in {"none", "live", "stale"}
    BY Before DEF Raw
  <2> QED BY <2>1 DEF TimerFires, Caring, Cared, Calm, Sound
<1>2. /\ Become(ClientState(b, "connecting"), ops, queue)
      /\ UNCHANGED <<open, stored, faults>>
  BY <1>1 DEF TimerFires, Settle
<1>3. /\ r \in Raw /\ Kin(rec, r) /\ r.panels = rec.panels /\ r.tabs = rec.tabs
      /\ r.timer = "none" /\ r.mismatch = rec.mismatch /\ r.connected = rec.connected
      /\ r.state = rec.state
  BY Before DEF Raw, Kin
<1>4. i \in Client /\ i.socket
  BY NullsTyped DEF Started
<1> HIDE DEF i, r
<1>5. c \in Client /\ c.socket /\ c.state = rec.client.state
  BY <1>4, ClientTyped DEF Client
<1>6. CASE rec.client.state # "connecting"
  <2> HIDE DEF c
  <2> QED BY <1>1, <1>2, <1>3, <1>5, <1>6, ReportCares DEF ClientStates
<1>7. CASE rec.client.state = "connecting"
  <2> HIDE DEF c
  <2>1. /\ b \in Raw /\ b.client = c
        /\ b.exists = r.exists /\ b.panels = r.panels
        /\ b.tabs = r.tabs /\ b.op = r.op /\ b.link = r.link
        /\ b.gen = r.gen /\ b.token = r.token /\ b.pending = r.pending
        /\ b.connected = r.connected /\ b.timer = r.timer
        /\ b.mismatch = r.mismatch /\ b.state = r.state
    BY <1>3, <1>5 DEF Raw
  <2> HIDE DEF b
  <2>2. ClientState(b, "connecting") = b
    BY <1>5, <1>7, <2>1 DEF ClientState
  <2>3. b.client # NoClient
    BY <1>5, <1>7, <2>1, NullsTyped
  <2>4. Stays(rec, b)
    BY <1>1, <1>3, <2>1, <2>3 DEF Stays, Kin
  <2>5. Sound(b)
    BY <1>1, <1>3, <1>5, <1>7, <2>1, <2>3
       DEF Caring, Cared, Calm, Sound, Tries, Kin
  <2> QED BY <1>1, <1>2, <2>1, <2>2, <2>4, <2>5, ClientUsed, StepCares
<1> QED BY <1>6, <1>7

-----------------------------------------------------------------------------
(* Operations that are queued.                                             *)

LEMMA Appended ==
  ASSUME NEW q \in Seq(RawEntry), NEW e \in RawEntry
  PROVE  /\ Append(q, e) \in Seq(RawEntry)
         /\ Len(q) + 1 \in DOMAIN Append(q, e) /\ Append(q, e)[Len(q) + 1] = e
         /\ \A k \in DOMAIN q : /\ k \in DOMAIN Append(q, e) /\ k < Len(q) + 1
                                /\ Append(q, e)[k] = q[k]
         /\ \A k \in DOMAIN Append(q, e) : \/ k = Len(q) + 1
                                           \/ k \in DOMAIN q
         /\ DOMAIN Append(q, e) \subseteq Nat /\ DOMAIN q \subseteq Nat
         /\ Len(q) \in Nat
<1> DEFINE a == Append(q, e)
<1>1. /\ a \in Seq(RawEntry) /\ Len(a) = Len(q) + 1 /\ Len(q) \in Nat
      /\ \A k \in 1..Len(q) : a[k] = q[k]
      /\ a[Len(q) + 1] = e
      /\ DOMAIN a = 1..(Len(q) + 1) /\ DOMAIN q = 1..Len(q)
  OBVIOUS
<1> HIDE DEF a
<1>2. /\ Len(q) + 1 \in DOMAIN a
      /\ \A k \in DOMAIN q : k \in DOMAIN a /\ k < Len(q) + 1 /\ a[k] = q[k]
      /\ \A k \in DOMAIN a : k = Len(q) + 1 \/ k \in DOMAIN q
      /\ DOMAIN a \subseteq Nat /\ DOMAIN q \subseteq Nat
  BY <1>1
<1> QED BY <1>1, <1>2 DEF a

\* A new operation of a window that is cared for
LEMMA AppendCares ==
  ASSUME NEW d \in Raw, NEW o, NEW q \in Seq(RawEntry), NEW e \in RawEntry,
         NEW s, NEW f, NEW w, Cared(f, w, d, o, q, s),
         ~e.started, ~e.aborted, e.op = None, \A p \in o : p.id # None,
         CurrentSave(d, e) => Assured(d), CurrentLoad(d, e) => d.op = None
  PROVE  Cared(f, w, d, o, Append(q, e), s)
<1> DEFINE a == Append(q, e)
           n == Len(q) + 1
<1>1. /\ n \in DOMAIN a /\ a[n] = e
      /\ \A k \in DOMAIN q : k \in DOMAIN a /\ k < n /\ a[k] = q[k]
      /\ \A k \in DOMAIN a : k = n \/ k \in DOMAIN q
      /\ DOMAIN a \subseteq Nat
  BY Appended
<1> HIDE DEF a, n
<1>2. Named(o, a)
  BY <1>1 DEF Cared, Calm, Named
<1>3. Ordered(a)
  BY <1>1 DEF Cared, Calm, Ordered
<1>4. \A k \in DOMAIN a : CurrentSave(d, a[k]) => Assured(d)
  BY <1>1 DEF Cared, Calm
<1>5. Backed(w, d, o, a)
  <2>1. Loading(d, a) => Loading(d, q) \/ d.op = None
    BY <1>1 DEF Loading
  <2> QED BY <1>1, <2>1 DEF Cared, Calm, Backed
<1>6. ASSUME Accounted(d, o, q, s) PROVE Accounted(d, o, a, s)
  <2>1. Loading(d, q) => Loading(d, a)
    BY <1>1 DEF Loading
  <2>2. ~Lost(d, e)
    BY DEF Lost
  <2>3. Erased(d, o, q, s) => Erased(d, o, a, s)
    <3> SUFFICES ASSUME Erased(d, o, q, s) PROVE Erased(d, o, a, s)
      OBVIOUS
    <3>1. s # None => \E k \in DOMAIN a : Erases(d, o, a[k])
      BY <1>1 DEF Erased
    <3>2. ASSUME NEW k \in DOMAIN a, Lost(d, a[k])
          PROVE  \E j \in DOMAIN a : j > k /\ Erases(d, o, a[j])
      <4>1. k \in DOMAIN q /\ Lost(d, q[k])
        BY <1>1, <2>2, <3>2
      <4>2. PICK j \in DOMAIN q : j > k /\ Erases(d, o, q[j])
        BY <4>1 DEF Erased
      <4> QED BY <1>1, <4>2
    <3> QED BY <3>1, <3>2 DEF Erased
  <2> QED BY <1>6, <2>1, <2>3 DEF Accounted
<1> QED BY <1>2, <1>3, <1>4, <1>5, <1>6 DEF Cared, Calm, a

\* The record is emptied in a new generation, and the removal of what is stored
\* is queued.
LEMMA EmptiedCares ==
  ASSUME WInv, Caring, NEW d \in Raw, Sound(d), Detached(d), d.gen > 0,
         NEW u, NEW e \in RawEntry, ~e.started, ~e.aborted,
         e.kind \notin {"load", "save"}, HasOwner(d) => Erases(d, u, e),
         Become(d, u, Append(queue, e)), UNCHANGED <<open, stored, faults>>,
         Typed(u, queue), Named(u, Append(queue, e)), Manned(open, d, u),
         d.op # None /\ (open \/ HasOwner(d)) => \E p \in u : p.id = d.op,
         e.kind = "remove" /\ e.op # None => ~open /\ ~HasOwner(d),
         HasOwner(d) => HasOwner(rec) /\ d.exists
  PROVE  Caring'
<1> DEFINE q == queue
           a == Append(q, e)
           n == Len(q) + 1
<1>1. /\ n \in DOMAIN a /\ a[n] = e
      /\ \A k \in DOMAIN q : k \in DOMAIN a /\ k < n /\ a[k] = q[k]
      /\ \A k \in DOMAIN a : k = n \/ k \in DOMAIN q
      /\ DOMAIN a \subseteq Nat /\ a \in Seq(RawEntry)
  BY Before, Appended
<1>2. \A k \in DOMAIN q : ~CurrentLoad(d, q[k]) /\ ~CurrentSave(d, q[k])
  BY Before, NewGeneration
<1>3. Become(d, u, a) /\ Typed(u, a) /\ Named(u, a)
  BY <1>1 DEF Typed
<1>9. Calm(open, rec, ops, q)
  BY DEF Caring, Cared
<1> HIDE DEF a, n, q
<1>4. \A k \in DOMAIN a : ~CurrentLoad(d, a[k]) /\ ~CurrentSave(d, a[k])
  BY <1>1, <1>2 DEF CurrentLoad, CurrentSave
<1>5. Ordered(a)
  BY <1>1, <1>9 DEF Calm, Ordered
<1>6. Backed(open, d, u, a)
  <2>1. ~Loading(d, a) /\ d.client = NoClient
    BY <1>4 DEF Loading, Detached
  <2>2. \A k \in DOMAIN a :
            a[k].kind = "remove" /\ a[k].op # None => ~open /\ ~HasOwner(d)
    BY <1>1, <1>9 DEF Calm, Backed
  <2> QED BY <2>1, <2>2 DEF Backed
<1>7. HasOwner(d) => Erased(d, u, a, stored)
  <2>1. \A k \in DOMAIN a : Lost(d, a[k]) => n > k
    BY <1>1 DEF Lost
  <2> QED BY <1>1, <2>1 DEF Erased
<1>8. Cared(faults, open, d, u, a, stored)
  BY <1>3, <1>4, <1>5, <1>6, <1>7 DEF Cared, Calm, Accounted
<1>10. Cared(faults, open, rec', ops', queue', stored)
  BY <1>3, <1>8, BecomeCares
<1> QED BY <1>10 DEF Caring

\* A call removes what is stored, and leaves an empty record behind.
LEMMA BeginStoreCares ==
  ASSUME WInv, Caring, NEW p \in RawCall,
         NEW d \in Raw, Sound(d), Detached(d), d.gen > 0,
         NEW kind \in {"linkRemove", "unlinkRemove", "remove"},
         kind = "linkRemove" => p.link # None,
         HasOwner(d) => d.exists /\ (kind = "linkRemove" => d.op = p.id),
         kind = "remove" => ~open /\ ~HasOwner(d),
         d.op # None /\ (open \/ HasOwner(d)) => d.op = p.id,
         NEW o, o \subseteq ops, \A c \in o : c.id # p.id,
         \A k \in DOMAIN queue : queue[k].op # p.id,
         open => /\ p.kind # "remove" /\ p.panel \in d.panels /\ HasOwner(d)
                 /\ d.panels = rec.panels,
         HasOwner(d) => HasOwner(rec),
         BeginStore(p, d, kind, o), UNCHANGED <<open, stored, faults>>
  PROVE  Caring'
<1> DEFINE c == [p EXCEPT !.phase = "store", !.gen = d.gen]
           e == Entry(kind, p.id, d, p.link)
           u == o \cup {c}
<1>1. d.gen \in Nat /\ d.token \in Nat
  BY DEF Raw
<1>2. /\ c \in RawCall /\ c.gen = d.gen /\ c.id = p.id /\ c.phase = "store"
      /\ c.kind = p.kind /\ c.panel = p.panel
      /\ p.id \in Op /\ p.link \in Link \cup {None}
  <2> DEFINE g == d.gen
  <2>1. g \in Int
    BY <1>1
  <2>2. c = [p EXCEPT !.phase = "store", !.gen = g]
    OBVIOUS
  <2> HIDE DEF c, g
  <2>3. /\ c \in RawCall /\ c.gen = g /\ c.id = p.id /\ c.phase = "store"
        /\ c.kind = p.kind /\ c.panel = p.panel
    BY <2>1, <2>2 DEF RawCall
  <2> QED BY <2>3 DEF RawCall, g
<1>3. /\ e \in RawEntry /\ e.kind = kind /\ e.op = p.id /\ ~e.started /\ ~e.aborted
  BY <1>1, <1>2 DEF Entry, RawEntry
<1>4. Become(d, u, Append(queue, e))
  BY DEF BeginStore, Enqueue
<1> HIDE DEF c, e
<1>5. Typed(u, queue)
  BY <1>2, Before DEF Typed
<1>6. HasOwner(d) => Erases(d, u, e)
  <2>1. HasOwner(d) /\ kind = "linkRemove" => OwnsRecord(d, c)
    BY <1>2 DEF OwnsRecord, IsCurrent
  <2> QED BY <1>2, <1>3, <2>1 DEF Erases
<1>9. Calm(open, rec, ops, queue)
  BY DEF Caring, Cared
<1>7. Named(u, Append(queue, e))
  <2>1. \A k \in DOMAIN Append(queue, e) :
            \/ Append(queue, e)[k] = e
            \/ k \in DOMAIN queue /\ Append(queue, e)[k] = queue[k]
    BY <1>3, Before, Appended
  <2> DEFINE a == Append(queue, e)
  <2> HIDE DEF a
  <2>2. \A x, y \in u : x.id = y.id => x = y
    BY <1>2, <1>9 DEF Calm, Named
  <2>3. \A b \in u : b.phase = "cleanup" => \A k \in DOMAIN a : a[k].op # b.id
    BY <1>2, <1>3, <1>9, <2>1 DEF Calm, Named, a
  <2>4. \A k \in DOMAIN a : a[k].kind \in {"load", "save"} => a[k].op = None
    BY <1>3, <1>9, <2>1 DEF Calm, Named, a
  <2> QED BY <2>2, <2>3, <2>4 DEF Named, a
<1>8. Manned(open, d, u)
  BY <1>2, <1>9 DEF Calm, Manned
<1>10. d.op # None /\ (open \/ HasOwner(d)) => \E b \in u : b.id = d.op
  BY <1>2
<1> HIDE DEF u
<1> QED BY <1>3, <1>4, <1>5, <1>6, <1>7, <1>8, <1>10, EmptiedCares

LEMMA AuthRejectedCares == ASSUME WInv, Caring, AuthRejected PROVE Caring'
<1> DEFINE d == Forget(rec, "notLinked")
           e == Entry("remove", None, d, None)
<1>1. /\ Become(d, ops, Append(queue, e)) /\ UNCHANGED <<open, stored, faults>>
      /\ rec.client # NoClient
  BY NullsTyped DEF AuthRejected, Settle, Enqueue, Greeting
<1>2. /\ d \in Raw /\ d.panels = rec.panels /\ d.tabs = rec.tabs
      /\ d.op = rec.op /\ d.exists = rec.exists /\ d.gen = 1 /\ Detached(d) /\ Sound(d)
  BY Before, ForgetSets DEF States, Detached
<1> HIDE DEF d
<1>3. d.gen \in Nat /\ d.token \in Nat
  BY <1>2 DEF Raw
<1>4. /\ e \in RawEntry /\ e.kind = "remove" /\ e.op = None
      /\ ~e.started /\ ~e.aborted
  BY <1>3 DEF Entry, RawEntry
<1> HIDE DEF e
<1>5. Erases(d, ops, e)
  BY <1>4 DEF Erases
<1>6. HasOwner(d) <=> HasOwner(rec)
  BY <1>2 DEF HasOwner
<1>7. Calm(open, rec, ops, queue)
  BY DEF Caring, Cared
<1>11. HasOwner(d) => d.exists
  BY <1>2, <1>6, <1>7 DEF Calm, Backed
<1>8. Named(ops, Append(queue, e))
  <2>1. \A k \in DOMAIN Append(queue, e) :
            \/ Append(queue, e)[k] = e
            \/ k \in DOMAIN queue /\ Append(queue, e)[k] = queue[k]
    BY <1>4, Before, Appended
  <2>2. \A p \in ops : p.id # None
    BY Before, TypedParts, NullsTyped
  <2> QED BY <1>4, <1>7, <2>1, <2>2 DEF Calm, Named
<1>9. Manned(open, d, ops)
  <2>1. open => HasOwner(d)
    BY <1>1, <1>6, ClientUsed
  <2> QED BY <1>2, <1>7, <2>1 DEF Calm, Manned
<1>10. d.op # None /\ (open \/ HasOwner(d)) => \E p \in ops : p.id = d.op
  BY <1>2, <1>6, <1>7 DEF Calm, Backed
<1> QED BY <1>1, <1>2, <1>4, <1>5, <1>6, <1>8, <1>9, <1>10, <1>11, Before,
        EmptiedCares

LEMMA AuthenticatedCares == ASSUME WInv, Caring, Authenticated PROVE Caring'
<1> DEFINE c == [rec.client EXCEPT !.allowed = TRUE, !.notify = FALSE]
           n == [c EXCEPT !.state = "connected"]
           r == [rec EXCEPT !.client = c]
           v == [rec EXCEPT !.pending.kind = "credentials", !.writing = TRUE]
           w == [v EXCEPT !.client = c]
           e == Entry("save", None, w, w.pending.link)
<1>1. /\ [rec EXCEPT !.client.allowed = TRUE, !.client.notify = FALSE] = r
      /\ [r EXCEPT !.pending.kind = "credentials", !.writing = TRUE] = w
  BY Before DEF Raw
<1>2. /\ rec.client.socket /\ rec.client.intent = "credentials"
      /\ rec.client.state \in {"connecting", "linking"}
      /\ rec.client # NoClient
      /\ \/ Settle(ClientState(r, "connected"), queue)
         \/ /\ rec.pending.kind = "code"
            /\ Settle(ClientState(w, "connected"), Append(queue, e))
  BY <1>1, NullsTyped DEF Authenticated, Greeting, Enqueue
<1>3. /\ c \in Client /\ c.state = rec.client.state
      /\ n \in Client /\ n.intent = "credentials" /\ n.allowed
      /\ n.state = "connected"
  BY <1>2, ClientTyped DEF Client, ClientStates
<1>4. "connected" \in ClientStates \ {"none"} /\ c.state # "connected"
  BY <1>2, <1>3 DEF ClientStates
<1>5. ~Assured(rec)
  BY <1>2 DEF Assured
<1>6. CASE Settle(ClientState(r, "connected"), queue)
  <2> HIDE DEF c
  <2> QED BY <1>2, <1>3, <1>4, <1>5, <1>6, Before, SelfReports, ReportCares
          DEF Settle
<1>7. CASE /\ rec.pending.kind = "code"
           /\ Settle(ClientState(w, "connected"), Append(queue, e))
  <2>1. rec.pending \in Pending /\ rec.link = None
    BY <1>7, AttemptAlone
  <2>2. /\ v \in Raw /\ v.exists = rec.exists /\ v.gen = 0 /\ v.token = 0
        /\ v.op = rec.op /\ v.link = None /\ v.panels = rec.panels
        /\ v.tabs = rec.tabs /\ v.timer = rec.timer
        /\ v.pending.kind = "credentials" /\ v.pending.link \in Link
    BY <2>1, Before DEF Raw, Pending
  <2> HIDE DEF v
  <2> DEFINE x == [v EXCEPT !.client = n]
             d == ClientState(w, "connected")
  <2>3. Sound(d) /\ d \in Raw /\ Stays(x, d)
    <3> HIDE DEF c
    <3> QED BY <1>3, <1>4, <2>1, <2>2, SelfReports, ReportSound
  <2> HIDE DEF c, n, d
  <2>4. /\ x \in Raw /\ x.client = n /\ x.exists = v.exists /\ x.gen = 0
        /\ x.token = 0 /\ x.op = v.op /\ x.link = None /\ x.panels = v.panels
        /\ x.tabs = v.tabs /\ x.pending.kind = "credentials"
        /\ w.gen = 0 /\ w.token = 0 /\ w.pending.link \in Link
    BY <1>3, <2>2 DEF Raw
  <2>5. n # NoClient
    BY <1>3, NullsTyped
  <2> HIDE DEF v, w, x
  <2>6. Assured(x)
    BY <1>3, <2>4 DEF Assured
  <2>7. Stays(rec, x)
    <3>1. rec.pending # NoPending /\ x.pending # NoPending
      BY <2>1, <2>4, NullsTyped DEF NoPending
    <3> QED BY <1>2, <1>7, <2>1, <2>2, <2>4, <2>5, <2>6, <3>1, Before DEF Stays
  <2>8. Stays(rec, d)
    BY <2>3, <2>4, <2>7, Before, StaysTransitive
  <2>9. Assured(d)
    <3>1. NoClient.socket = FALSE
      BY NullsTyped
    <3> QED BY <2>3, <2>4, <2>6, <3>1 DEF Stays, Assured
  <2>10. Cared(faults, open, d, ops, queue, stored)
    BY <1>2, <2>3, <2>8, Before, ClientUsed, StaysCares DEF Caring
  <2>11. /\ e \in RawEntry /\ e.kind = "save" /\ e.op = None
         /\ ~e.started /\ ~e.aborted
    BY <2>4 DEF Entry, RawEntry
  <2>12. Become(d, ops, Append(queue, e)) /\ UNCHANGED <<open, stored, faults>>
    BY <1>7 DEF Settle, d
  <2> HIDE DEF e
  <2>13. \A p \in ops : p.id # None
    BY Before, TypedParts, NullsTyped
  <2>14. ~CurrentLoad(d, e)
    BY <2>11 DEF CurrentLoad
  <2>15. Cared(faults, open, d, ops, Append(queue, e), stored)
    BY <2>3, <2>9, <2>10, <2>11, <2>13, <2>14, Before, AppendCares
  <2>16. Typed(ops, Append(queue, e))
    BY <2>11, Before, Appended DEF Typed
  <2>17. Cared(faults, open, rec', ops', queue', stored)
    BY <2>3, <2>12, <2>15, <2>16, BecomeCares
  <2> QED BY <2>12, <2>17 DEF Caring
<1> QED BY <1>2, <1>6, <1>7

-----------------------------------------------------------------------------
(* The calls, with care.                                                   *)

\* A call begins that awaits its cleanup, and owns the record if there is one.
LEMMA CallBeginsCares ==
  ASSUME WInv, Caring, NEW o \in Op, Free(o), NEW p \in RawCall, p.id = o,
         p.phase = "cleanup", rec.exists => p.gen = 0 /\ p.known,
         Become(IF rec.exists THEN [rec EXCEPT !.op = o] ELSE rec,
                ops \cup {p}, queue),
         open' => open /\ ops = {} /\ p.kind # "remove" /\ p.panel \in rec.panels,
         UNCHANGED <<stored, faults>>
  PROVE  Caring'
<1> DEFINE d == IF rec.exists THEN [rec EXCEPT !.op = o] ELSE rec
           u == ops \cup {p}
           w == open'
           q == queue
<1>1. /\ d \in Raw /\ d.gen = rec.gen /\ d.exists = rec.exists
      /\ d.token = rec.token /\ d.link = rec.link /\ d.pending = rec.pending
      /\ d.client = rec.client /\ d.connected = rec.connected
      /\ d.panels = rec.panels /\ d.tabs = rec.tabs /\ d.state = rec.state
      /\ d.timer = rec.timer /\ d.mismatch = rec.mismatch
      /\ d.op = (IF rec.exists THEN o ELSE rec.op)
  BY Before DEF Raw
<1>2. Become(d, u, q) /\ o # None
  BY NullsTyped
<1>3. (w => open) /\ rec.gen = 0
  BY Before
<1> HIDE DEF d
<1>4. HasOwner(d) <=> HasOwner(rec)
  BY <1>1 DEF HasOwner
<1>5. Calm(open, rec, ops, q)
  BY DEF Caring, Cared
<1>6. Sound(d)
  BY <1>1, <1>2, <1>4, <1>5 DEF Calm, Sound, Tries
<1>7. Named(u, q)
  BY <1>5 DEF Calm, Named, Free
<1>8. \A k \in DOMAIN q : /\ CurrentLoad(d, q[k]) <=> CurrentLoad(rec, q[k])
                          /\ CurrentSave(d, q[k]) <=> CurrentSave(rec, q[k])
  BY <1>1 DEF CurrentLoad, CurrentSave
<1>9. \A k \in DOMAIN q : CurrentSave(d, q[k]) => Assured(d)
  BY <1>1, <1>5, <1>8 DEF Calm, Assured
<1>10. Loading(d, q) <=> Loading(rec, q)
  BY <1>8 DEF Loading
<1>11. Backed(w, d, u, q)
  <2>0. Backed(open, rec, ops, q)
    BY <1>5 DEF Calm
  <2>1. CASE rec.exists
    <3>1. d.op = o /\ Awaited(d, p)
      BY <1>1, <1>3, <2>1 DEF Awaited, OwnsRecord, IsCurrent
    <3>2. d.exists
      BY <1>1, <2>1
    <3>3. \A k \in DOMAIN q :
              q[k].kind = "remove" /\ q[k].op # None => ~w /\ ~HasOwner(d)
      BY <1>3, <1>4, <2>0 DEF Backed
    <3> HIDE DEF w, q
    <3> QED BY <3>1, <3>2, <3>3 DEF Backed
  <2>2. CASE ~rec.exists
    <3>1. d = rec
      BY <2>2 DEF d
    <3> HIDE DEF w, q
    <3> QED BY <1>3, <2>0, <3>1 DEF Backed
  <2> QED BY <2>1, <2>2
<1>12. Manned(w, d, u)
  BY <1>1, <1>3, <1>4, <1>5 DEF Calm, Manned, Idling
<1>13. "storage" \notin faults /\ w => Accounted(d, u, q, stored)
  <2> SUFFICES ASSUME "storage" \notin faults, w
               PROVE  Accounted(d, u, q, stored)
    OBVIOUS
  <2>1. Accounted(rec, ops, q, stored) /\ ops = {}
    BY <1>3 DEF Caring, Cared
  <2>2. \A k \in DOMAIN q : /\ Erases(rec, ops, q[k]) => Erases(d, u, q[k])
                            /\ Lost(d, q[k]) => Lost(rec, q[k])
    BY <1>8, <2>1 DEF Erases, Lost
  <2>3. Erased(rec, ops, q, stored) => Erased(d, u, q, stored)
    BY <2>2 DEF Erased
  <2> QED BY <1>1, <1>4, <1>10, <2>1, <2>3 DEF Accounted
<1>14. Typed(u, q)
  BY Before DEF Typed
<1> HIDE DEF u, w, q
<1>15. Cared(faults, w, d, u, q, stored)
  BY <1>5, <1>6, <1>7, <1>9, <1>11, <1>12, <1>13 DEF Cared, Calm
<1>16. Cared(faults, w, rec', ops', queue', stored)
  BY <1>1, <1>2, <1>14, <1>15, BecomeCares
<1> QED BY <1>16 DEF Caring, w

LEMMA NewCallShows ==
  ASSUME WInv, NEW o \in Op, NEW kind \in {"link", "unlink", "remove"},
         NEW l \in Link \cup {None}, NEW pn \in Panel \cup {None},
         kind = "link" => l # None
  PROVE  LET p == NewCall(o, kind, l, pn)
         IN  /\ p \in RawCall /\ p.id = o /\ p.phase = "cleanup"
             /\ p.kind = kind /\ p.panel = pn /\ p.link = l
             /\ rec.exists => p.gen = 0 /\ p.known
  BY NewCallTyped, Before DEF NewCall

\* A panel's command finds the window without calls.
LEMMA CommandAlone ==
  ASSUME Caring, open, NoCommand, NEW pn, pn \in rec.panels
  PROVE  ops = {} /\ rec.exists /\ HasOwner(rec)
  BY DEF Caring, Cared, Calm, Manned, Backed, NoCommand, HasOwner

LEMMA LinkWindowCares ==
  ASSUME WInv, Caring, NEW o \in Op, NEW l \in Link, NEW pn \in Panel,
         LinkWindow(o, l, pn)
  PROVE  Caring'
<1> DEFINE p == NewCall(o, "link", l, pn)
           r == [rec EXCEPT !.op = o]
           d == Forget(r, "linking")
<1>1. /\ p \in RawCall /\ p.id = o /\ p.phase = "cleanup" /\ p.kind = "link"
      /\ p.panel = pn /\ p.link = l /\ l # None
      /\ rec.exists => p.gen = 0 /\ p.known
  BY NewCallShows, WindowAssumption
<1>2. /\ Free(o) /\ UNCHANGED <<open, stored, faults>> /\ open
      /\ pn \in rec.panels /\ NoCommand
      /\ \/ Become(r, ops \cup {p}, queue)
         \/ BeginStore(p, d, "linkRemove", ops)
  BY DEF LinkWindow
<1>3. ops = {} /\ rec.exists /\ HasOwner(rec)
  BY <1>2, CommandAlone
<1> HIDE DEF p
<1>4. CASE Become(r, ops \cup {p}, queue)
  BY <1>1, <1>2, <1>3, <1>4, CallBeginsCares
<1>5. CASE BeginStore(p, d, "linkRemove", ops)
  <2>1. /\ r \in Raw /\ r.gen = 0 /\ r.panels = rec.panels /\ r.tabs = rec.tabs
        /\ r.op = o /\ r.exists
    BY <1>3, Before DEF Raw
  <2> HIDE DEF r
  <2>2. /\ d \in Raw /\ Sound(d) /\ Detached(d) /\ d.gen = 1 /\ d.exists
        /\ d.panels = rec.panels /\ d.tabs = rec.tabs /\ d.op = o
    BY <2>1, ForgetSets DEF States, Detached
  <2>3. HasOwner(d)
    BY <1>3, <2>2 DEF HasOwner
  <2> HIDE DEF d
  <2> QED BY <1>1, <1>2, <1>3, <1>5, <2>2, <2>3, BeginStoreCares DEF Free
<1> QED BY <1>2, <1>4, <1>5

LEMMA UnlinkWindowCares ==
  ASSUME WInv, Caring, NEW o \in Op, NEW pn \in Panel, UnlinkWindow(o, pn)
  PROVE  Caring'
<1> DEFINE p == NewCall(o, "unlink", None, pn)
<1>1. /\ p \in RawCall /\ p.id = o /\ p.phase = "cleanup" /\ p.kind = "unlink"
      /\ p.panel = pn
      /\ rec.exists => p.gen = 0 /\ p.known
  BY NewCallShows
<1>2. /\ Free(o) /\ UNCHANGED <<open, stored, faults>> /\ open
      /\ pn \in rec.panels /\ NoCommand
      /\ Become([rec EXCEPT !.op = o], ops \cup {p}, queue)
  BY DEF UnlinkWindow
<1>3. ops = {} /\ rec.exists /\ HasOwner(rec)
  BY <1>2, CommandAlone
<1> HIDE DEF p
<1> QED BY <1>1, <1>2, <1>3, CallBeginsCares

LEMMA RemoveWindowCares ==
  ASSUME WInv, Caring, NEW o \in Op, RemoveWindow(o)
  PROVE  Caring'
<1> DEFINE p == NewCall(o, "remove", None, None)
<1>1. /\ p \in RawCall /\ p.id = o /\ p.phase = "cleanup"
      /\ rec.exists => p.gen = 0 /\ p.known
  BY NewCallShows
<1>2. /\ Free(o) /\ UNCHANGED <<stored, faults>> /\ open' = FALSE
      /\ Become(IF rec.exists THEN [rec EXCEPT !.op = o] ELSE rec,
                ops \cup {p}, queue)
  BY DEF RemoveWindow
<1> HIDE DEF p
<1> QED BY <1>1, <1>2, CallBeginsCares

\* cancelLinkPreparation changes nothing but the record's token.
LEMMA ClearedSets ==
  ASSUME NEW r \in Raw, NEW id
  PROVE  LET d == Cleared(r, id) IN
         /\ d \in Raw /\ d.op = (IF r.op = id THEN None ELSE r.op)
         /\ d.exists = r.exists /\ d.panels = r.panels /\ d.tabs = r.tabs
         /\ d.gen = r.gen /\ d.token = r.token /\ d.state = r.state
         /\ d.client = r.client /\ d.connected = r.connected
         /\ d.link = r.link /\ d.pending = r.pending /\ d.timer = r.timer
         /\ d.mismatch = r.mismatch
<1>1. CASE r.op = id
  BY <1>1 DEF Cleared, Raw
<1>2. CASE r.op # id
  BY <1>2 DEF Cleared
<1> QED BY <1>1, <1>2

\* A call that no longer owns a window in use, or is done with it, ends.
LEMMA EndsCalm ==
  ASSUME NEW r \in Raw, NEW o, NEW q, NEW w, Calm(w, r, o, q), NEW id,
         NEW u, u \subseteq o, \A p \in o : p.id # id => p \in u,
         \A p \in o : Awaited(r, p) => p.id # id
  PROVE  Calm(w, Cleared(r, id), u, q)
<1> DEFINE d == Cleared(r, id)
<1>1. /\ d \in Raw /\ d.op = (IF r.op = id THEN None ELSE r.op)
      /\ d.exists = r.exists /\ d.panels = r.panels /\ d.tabs = r.tabs
      /\ d.gen = r.gen /\ d.token = r.token /\ d.state = r.state
      /\ d.client = r.client /\ d.connected = r.connected
      /\ d.link = r.link /\ d.pending = r.pending /\ d.timer = r.timer
      /\ d.mismatch = r.mismatch
  BY ClearedSets
<1> HIDE DEF d
<1>2. HasOwner(d) <=> HasOwner(r)
  BY <1>1 DEF HasOwner
<1>3. \A k \in DOMAIN q : /\ CurrentLoad(d, q[k]) <=> CurrentLoad(r, q[k])
                          /\ CurrentSave(d, q[k]) <=> CurrentSave(r, q[k])
  BY <1>1 DEF CurrentLoad, CurrentSave
<1>4. Loading(d, q) <=> Loading(r, q)
  BY <1>3 DEF Loading
<1>5. Backed(w, r, o, q)
  BY DEF Calm
<1>6. ASSUME r.op = id, r.op # None PROVE r.client = NoClient
  BY <1>5, <1>6 DEF Backed, Awaited, OwnsRecord
<1>7. Sound(d)
  BY <1>1, <1>2, <1>6 DEF Calm, Sound, Tries
<1>8. Backed(w, d, u, q)
  <2>1. d.op # None => d.op = r.op /\ r.op # id
    BY <1>1
  <2>2. \A p : Awaited(r, p) /\ d.op = r.op => Awaited(d, p)
    BY <1>1 DEF Awaited, OwnsRecord, IsCurrent
  <2>3. d.op # None /\ (w \/ HasOwner(d)) => \E p \in u : p.id = d.op
    BY <1>2, <1>5, <2>1 DEF Backed
  <2>4. d.op # None /\ (d.client # NoClient \/ Loading(d, q)) =>
            \E p \in u : Awaited(d, p)
    BY <1>1, <1>4, <1>5, <2>1, <2>2 DEF Backed
  <2> QED BY <1>1, <1>2, <1>5, <2>3, <2>4 DEF Backed
<1>9. Manned(w, d, u)
  BY <1>1, <1>2 DEF Calm, Manned, Idling
<1>10. Named(u, q) /\ Ordered(q)
  BY DEF Calm, Named
<1>11. \A k \in DOMAIN q : CurrentSave(d, q[k]) => Assured(d)
  BY <1>1, <1>3 DEF Calm, Assured
<1> QED BY <1>7, <1>8, <1>9, <1>10, <1>11 DEF Calm, d

LEMMA CleanupDoneCares ==
  ASSUME WInv, Caring, NEW p \in ops, CleanupDone(p)
  PROVE  Caring'
<1>1. UNCHANGED <<open, stored, faults>> /\ p.phase = "cleanup"
  BY DEF CleanupDone
<1>2. /\ p \in RawCall /\ p.kind \in {"link", "unlink", "remove"}
      /\ (p.kind = "link" => p.link # None) /\ p.id \in Op
  BY Before DEF Typed, RawCall
<1>3. "linking" \in States /\ "notLinked" \in States /\ "notLinked" \notin Hopeful
  BY DEF States, Hopeful
<1>4. Calm(open, rec, ops, queue)
  BY DEF Caring, Cared
<1>5. /\ \A c \in ops : c.id = p.id => c = p
      /\ \A k \in DOMAIN queue : queue[k].op # p.id
      /\ open => p.kind # "remove" /\ p.panel \in rec.panels
      /\ HasOwner(rec) => rec.exists
  BY <1>1, <1>4 DEF Calm, Named, Manned, Backed
<1>6. Proceeds(p) /\ HasOwner(rec) => rec.op = p.id
  BY <1>5 DEF Proceeds, OwnsRecord
<1>12. Proceeds(p) /\ open => rec.op = p.id
  BY <1>5, <1>6 DEF HasOwner
<1>7. CASE ~Proceeds(p)
  <2> DEFINE d == Cleared(rec, p.id)
             u == ops \ {p}
  <2>1. Become(d, u, queue)
    BY <1>7 DEF CleanupDone, Overtaken
  <2>2. \A c \in ops : Awaited(rec, c) => c.id # p.id
    BY <1>5, <1>7 DEF Proceeds, Awaited
  <2>3. Calm(open, d, u, queue)
    BY <1>4, <1>5, <2>2, Before, EndsCalm
  <2>4. /\ d \in Raw /\ d.op = (IF rec.op = p.id THEN None ELSE rec.op)
        /\ d.exists = rec.exists /\ d.panels = rec.panels /\ d.tabs = rec.tabs
        /\ d.gen = rec.gen /\ d.token = rec.token /\ d.link = rec.link
    BY Before, ClearedSets
  <2> HIDE DEF d
  <2>5. ASSUME Accounted(rec, ops, queue, stored)
        PROVE  Accounted(d, u, queue, stored)
    <3>1. \A k \in DOMAIN queue :
              /\ CurrentLoad(d, queue[k]) <=> CurrentLoad(rec, queue[k])
              /\ CurrentSave(d, queue[k]) <=> CurrentSave(rec, queue[k])
      BY <2>4 DEF CurrentLoad, CurrentSave
    <3>2. \A c \in ops : c.phase = "store" /\ OwnsRecord(rec, c) =>
              c \in u /\ OwnsRecord(d, c)
      BY <1>1, <1>5, <2>4 DEF OwnsRecord, IsCurrent
    <3>3. \A k \in DOMAIN queue :
              /\ Erases(rec, ops, queue[k]) => Erases(d, u, queue[k])
              /\ Lost(d, queue[k]) => Lost(rec, queue[k])
      <4> HIDE DEF u
      <4> QED BY <3>1, <3>2 DEF Erases, Lost
    <3>4. Erased(rec, ops, queue, stored) => Erased(d, u, queue, stored)
      BY <3>3 DEF Erased
    <3> QED BY <2>4, <2>5, <3>1, <3>4 DEF Accounted, Loading, HasOwner
  <2>6. Cared(faults, open, d, u, queue, stored)
    BY <2>3, <2>5 DEF Caring, Cared
  <2>7. Typed(u, queue)
    BY Before DEF Typed
  <2>8. Cared(faults, open, rec', ops', queue', stored)
    BY <2>1, <2>4, <2>6, <2>7, BecomeCares
  <2> QED BY <1>1, <2>8 DEF Caring
<1>8. CASE Proceeds(p) /\ p.kind = "link"
  <2> DEFINE d == Forget(rec, "linking")
  <2>1. BeginStore(p, d, "linkRemove", ops \ {p})
    BY <1>8 DEF CleanupDone
  <2>2. /\ d \in Raw /\ Sound(d) /\ Detached(d) /\ d.gen = 1
        /\ d.exists = rec.exists /\ d.panels = rec.panels /\ d.tabs = rec.tabs
        /\ d.op = rec.op
    BY <1>3, Before, ForgetSets DEF Detached
  <2>3. HasOwner(d) <=> HasOwner(rec)
    BY <2>2 DEF HasOwner
  <2> HIDE DEF d
  <2>4. open => p.panel \in d.panels /\ HasOwner(d)
    BY <1>5, <2>2 DEF HasOwner
  <2> QED BY <1>1, <1>2, <1>5, <1>6, <1>8, <1>12, <2>1, <2>2, <2>3, <2>4, BeginStoreCares
<1>9. CASE Proceeds(p) /\ p.kind = "unlink"
  <2> DEFINE b == Forget(rec, "notLinked")
             d == [b EXCEPT !.tabs = {}]
  <2>1. BeginStore(p, d, "unlinkRemove", ops \ {p})
    BY <1>9 DEF CleanupDone
  <2>2. /\ b \in Raw /\ Detached(b) /\ b.gen = 1
        /\ b.exists = rec.exists /\ b.panels = rec.panels /\ b.tabs = rec.tabs
        /\ b.op = rec.op /\ ~b.connected /\ b.timer = "none"
    BY <1>3, Before, ForgetSets DEF Detached
  <2> HIDE DEF b
  <2>3. /\ d \in Raw /\ Detached(d) /\ d.gen = 1
        /\ d.exists = rec.exists /\ d.panels = rec.panels /\ d.tabs = {}
        /\ d.op = rec.op /\ ~d.connected /\ d.timer = "none"
    BY <2>2 DEF Raw, Detached
  <2> HIDE DEF d
  <2>4. Sound(d)
    BY <2>3, UnclientedSound DEF Detached
  <2>5. HasOwner(d) => HasOwner(rec)
    BY <2>3 DEF HasOwner
  <2>6. open => p.panel \in d.panels /\ HasOwner(d)
    BY <1>5, <2>3 DEF HasOwner
  <2> QED BY <1>1, <1>2, <1>5, <1>6, <1>9, <1>12, <2>1, <2>3, <2>4, <2>5, <2>6, BeginStoreCares
<1>10. CASE Proceeds(p) /\ p.kind = "remove"
  <2> DEFINE d == [Absent EXCEPT !.gen = rec.gen + 1, !.token = rec.token + 1]
  <2>1. BeginStore(p, d, "remove", ops \ {p})
    BY <1>10 DEF CleanupDone
  <2>2. d = [Absent EXCEPT !.gen = 1, !.token = 1]
    <3>1. rec.gen + 1 = 1 /\ rec.token + 1 = 1
      BY Before
    <3> QED BY <3>1
  <2> HIDE DEF d
  <2>3. /\ Absent \in Raw /\ Absent.panels = {} /\ Absent.tabs = {}
        /\ Detached(Absent) /\ Absent.op = None /\ ~Absent.connected
        /\ Absent.timer = "none"
    BY NewRecordGood DEF Absent, NewRecord, Good
  <2>4. /\ d \in Raw /\ d.gen = 1 /\ d.panels = {} /\ d.tabs = {} /\ Detached(d)
        /\ d.op = None /\ ~d.connected /\ d.timer = "none"
    BY <2>2, <2>3 DEF Raw, Detached
  <2>5. Sound(d) /\ ~HasOwner(d)
    BY <2>4, UnclientedSound DEF Detached, HasOwner
  <2> QED BY <1>1, <1>2, <1>5, <1>10, <2>1, <2>4, <2>5, BeginStoreCares
<1> QED BY <1>2, <1>7, <1>8, <1>9, <1>10

-----------------------------------------------------------------------------
(* The storage, with care.                                                 *)

LEMMA TailShows ==
  ASSUME NEW q \in Seq(RawEntry), q # <<>>
  PROVE  /\ Tail(q) \in Seq(RawEntry) /\ 1 \in DOMAIN q /\ Head(q) = q[1]
         /\ DOMAIN q \subseteq Nat /\ DOMAIN Tail(q) \subseteq Nat
         /\ \A k \in DOMAIN Tail(q) :
                k + 1 \in DOMAIN q /\ k + 1 # 1 /\ Tail(q)[k] = q[k + 1]
         /\ \A k \in DOMAIN q :
                k # 1 => k - 1 \in DOMAIN Tail(q) /\ Tail(q)[k - 1] = q[k]
<1> DEFINE t == Tail(q)
<1>1. /\ t \in Seq(RawEntry) /\ Len(t) = Len(q) - 1
      /\ Len(q) \in Nat \ {0} /\ Head(q) = q[1]
  OBVIOUS
<1>2. DOMAIN q = 1..Len(q) /\ DOMAIN t = 1..(Len(q) - 1)
  BY <1>1
<1>3. \A k \in 1..(Len(q) - 1) : t[k] = q[k + 1]
  BY <1>1
<1> HIDE DEF t
<1>4. \A k \in DOMAIN t : k + 1 \in DOMAIN q /\ k + 1 # 1 /\ t[k] = q[k + 1]
  BY <1>1, <1>2, <1>3
<1>5. \A k \in DOMAIN q : k # 1 => k - 1 \in DOMAIN t /\ t[k - 1] = q[k]
  <2> SUFFICES ASSUME NEW k \in DOMAIN q, k # 1
               PROVE  k - 1 \in DOMAIN t /\ t[k - 1] = q[k]
    OBVIOUS
  <2>1. k \in Int /\ k - 1 \in 1..(Len(q) - 1) /\ (k - 1) + 1 = k
    BY <1>1, <1>2
  <2> DEFINE j == k - 1
  <2> HIDE DEF j
  <2>2. j \in 1..(Len(q) - 1) /\ j + 1 = k
    BY <2>1 DEF j
  <2>3. t[j] = q[k]
    BY <1>3, <2>2
  <2> QED BY <1>2, <2>2, <2>3 DEF j
<1> QED BY <1>1, <1>2, <1>4, <1>5 DEF t

\* The first operation is done: the others have not started.
LEMMA TailCalm ==
  ASSUME NEW r, NEW o, NEW q \in Seq(RawEntry), q # <<>>, NEW w, Calm(w, r, o, q)
  PROVE  /\ Calm(w, r, o, Tail(q))
         /\ \A k \in DOMAIN q : k # 1 => ~q[k].started
         /\ \A k \in DOMAIN Tail(q) : ~Tail(q)[k].started
<1> DEFINE t == Tail(q)
<1>1. \A k \in DOMAIN t : k + 1 \in DOMAIN q /\ k + 1 # 1 /\ t[k] = q[k + 1]
  BY TailShows
<1> HIDE DEF t
<1>2. Named(o, t)
  BY <1>1 DEF Calm, Named
<1>3. \A k \in DOMAIN q : k # 1 => ~q[k].started
  BY DEF Calm, Ordered
<1>4. \A k \in DOMAIN t : ~t[k].started
  BY <1>1, <1>3
<1>5. Ordered(t)
  BY <1>1, <1>4 DEF Calm, Ordered
<1>6. \A k \in DOMAIN t : CurrentSave(r, t[k]) => Assured(r)
  BY <1>1 DEF Calm
<1>7. Backed(w, r, o, t)
  <2>1. Loading(r, t) => Loading(r, q)
    BY <1>1 DEF Loading
  <2> QED BY <1>1, <2>1 DEF Calm, Backed
<1> QED BY <1>2, <1>3, <1>4, <1>5, <1>6, <1>7 DEF Calm, t

LEMMA ErasedTail ==
  ASSUME NEW r, NEW o, NEW q \in Seq(RawEntry), q # <<>>, NEW s,
         Erased(r, o, q, s), \A k \in DOMAIN Tail(q) : ~Tail(q)[k].started,
         NEW d, NEW u, NEW t,
         t # None => Lost(r, q[1]) \/ (s # None /\ ~Erases(r, o, q[1])),
         \A k \in DOMAIN q : k # 1 /\ Erases(r, o, q[k]) => Erases(d, u, q[k])
  PROVE  Erased(d, u, Tail(q), t)
<1>1. /\ 1 \in DOMAIN q /\ DOMAIN q \subseteq Nat
      /\ \A k \in DOMAIN q :
             k # 1 => k - 1 \in DOMAIN Tail(q) /\ Tail(q)[k - 1] = q[k]
  BY TailShows
<1>2. ASSUME t # None
      PROVE  \E k \in DOMAIN q : k # 1 /\ Erases(r, o, q[k])
  <2>1. CASE Lost(r, q[1])
    <3>1. PICK k \in DOMAIN q : k > 1 /\ Erases(r, o, q[k])
      BY <1>1, <2>1 DEF Erased
    <3> QED BY <1>1, <3>1
  <2>2. CASE s # None /\ ~Erases(r, o, q[1])
    BY <2>2 DEF Erased
  <2> QED BY <1>2, <2>1, <2>2
<1>3. t # None => \E k \in DOMAIN Tail(q) : Erases(d, u, Tail(q)[k])
  BY <1>1, <1>2
<1> QED BY <1>3 DEF Erased, Lost

\* Calls that do not own the record leave.
LEMMA LeavesCalm ==
  ASSUME NEW r, NEW o, NEW q, NEW w, Calm(w, r, o, q), NEW u, u \subseteq o,
         r.op # None /\ (w \/ HasOwner(r)) => \E p \in u : p.id = r.op,
         \A p \in o : Awaited(r, p) => p \in u
  PROVE  Calm(w, r, u, q)
<1>1. Backed(w, r, u, q)
  BY DEF Calm, Backed
<1>2. Named(u, q) /\ Manned(w, r, u)
  BY DEF Calm, Named, Manned
<1> QED BY <1>1, <1>2 DEF Calm

\* A record of a window that nothing is tried for
LEMMA StateCalm ==
  ASSUME NEW r \in Raw, NEW o, NEW q, NEW w, Calm(w, r, o, q),
         NEW s \in States, s \notin Hopeful
  PROVE  Calm(w, SetState(r, s), o, q) /\ Stays(r, SetState(r, s))
<1> DEFINE d == SetState(r, s)
<1>1. /\ d \in Raw /\ Kin(r, d) /\ d.state = s /\ d.panels = r.panels
      /\ d.tabs = r.tabs /\ d.timer = r.timer /\ d.connected = r.connected
  BY SetStateSets
<1> HIDE DEF d
<1>2. Stays(r, d) /\ (HasOwner(d) <=> HasOwner(r))
  BY <1>1, KinStays DEF HasOwner
<1>3. Sound(d)
  BY <1>1, <1>2 DEF Calm, Sound, Kin
<1>4. \A k \in DOMAIN q : /\ CurrentLoad(d, q[k]) <=> CurrentLoad(r, q[k])
                          /\ CurrentSave(d, q[k]) <=> CurrentSave(r, q[k])
  BY <1>1 DEF CurrentLoad, CurrentSave, Kin
<1>5. \A k \in DOMAIN q : CurrentSave(d, q[k]) => Assured(d)
  BY <1>1, <1>4 DEF Calm, Assured, Kin
<1>6. Loading(d, q) <=> Loading(r, q)
  BY <1>4 DEF Loading
<1>7. \A p : Awaited(d, p) <=> Awaited(r, p)
  BY <1>1 DEF Awaited, OwnsRecord, IsCurrent, Kin
<1>8. Backed(w, d, o, q)
  BY <1>1, <1>2, <1>6, <1>7 DEF Calm, Backed, Kin
<1>9. Manned(w, d, o)
  BY <1>1, <1>2 DEF Calm, Manned, Idling, Kin, Hopeful
<1> QED BY <1>2, <1>3, <1>5, <1>8, <1>9 DEF Calm, d

LEMMA HeadCares ==
  ASSUME WInv, Caring, queue # <<>>
  PROVE  LET e == Head(queue)
             u == ops \ CallOf(e)
         IN  /\ e = queue[1] /\ e \in RawEntry /\ u \subseteq ops
             /\ Typed(u, Tail(queue)) /\ ~e.aborted /\ 1 \in DOMAIN queue
             /\ Calm(open, rec, ops, Tail(queue))
             /\ Calm(open, Cleared(rec, e.op), u, Tail(queue))
             /\ \A k \in DOMAIN queue : k # 1 => ~queue[k].started
             /\ \A k \in DOMAIN Tail(queue) : ~Tail(queue)[k].started
             /\ e.kind \in {"load", "save"} => e.op = None
             /\ e.op = None => u = ops
             /\ \A p \in ops : Awaited(rec, p) => p \in u
             /\ \A p \in ops : p.id # e.op => p \in u
<1> DEFINE e == Head(queue)
           u == ops \ CallOf(e)
<1>1. e = queue[1] /\ 1 \in DOMAIN queue
  BY Before, TailShows
<1>2. e \in RawEntry /\ Typed(u, Tail(queue))
  BY HeadOfQueue
<1>3. Calm(open, rec, ops, queue)
  BY DEF Caring, Cared
<1>4. /\ Calm(open, rec, ops, Tail(queue))
      /\ \A k \in DOMAIN queue : k # 1 => ~queue[k].started
      /\ \A k \in DOMAIN Tail(queue) : ~Tail(queue)[k].started
  BY <1>3, Before, TailCalm
<1>5. \A p \in ops : p.id # e.op => p \in u
  BY DEF CallOf
<1>6. \A p \in ops : Awaited(rec, p) => p.id # e.op
  BY <1>1, <1>3 DEF Calm, Named, Awaited
<1>7. ~e.aborted /\ (e.kind \in {"load", "save"} => e.op = None)
  BY <1>1, <1>3 DEF Calm, Ordered, Named
<1>8. e.op = None => u = ops
  <2>1. \A p \in ops : p.id # None
    BY Before, TypedParts, NullsTyped
  <2> QED BY <2>1 DEF CallOf
<1>9. u \subseteq ops
  OBVIOUS
<1> HIDE DEF e, u
<1>10. Calm(open, Cleared(rec, e.op), u, Tail(queue))
  BY <1>4, <1>5, <1>6, <1>9, Before, EndsCalm
<1> QED BY <1>1, <1>2, <1>4, <1>5, <1>6, <1>7, <1>8, <1>9, <1>10 DEF e, u

\* What the queue still holds of a storage operation that is done with
LEMMA DoneCares ==
  ASSUME WInv, Caring, queue # <<>>, NEW d \in Raw, NEW u,
         Typed(u, Tail(queue)), Calm(open, d, u, Tail(queue)),
         "storage" \notin faults /\ open =>
             Accounted(d, u, Tail(queue), stored'),
         Become(d, u, Tail(queue)), UNCHANGED <<open, faults>>
  PROVE  Caring'
<1>1. Cared(faults, open, d, u, Tail(queue), stored')
  BY DEF Cared
<1>2. Cared(faults, open, rec', ops', queue', stored')
  BY <1>1, BecomeCares
<1> QED BY <1>2 DEF Caring

LEMMA StoreStartCares == ASSUME WInv, Caring, StoreStart PROVE Caring'
<1> DEFINE e == Head(queue)
           d == Cleared(rec, e.op)
           u == ops \ CallOf(e)
           q == [queue EXCEPT ![1].started = TRUE]
<1>1. /\ queue # <<>> /\ UNCHANGED <<open, stored, faults>> /\ ~e.started
      /\ \/ Skipped(e) /\ Become(d, u, Tail(queue))
         \/ ~Skipped(e) /\ Become(rec, ops, q)
  BY DEF StoreStart
<1>2. /\ e = queue[1] /\ e \in RawEntry /\ ~e.aborted /\ 1 \in DOMAIN queue
      /\ Typed(u, Tail(queue))
      /\ Calm(open, d, u, Tail(queue))
      /\ \A k \in DOMAIN queue : k # 1 => ~queue[k].started
      /\ \A k \in DOMAIN Tail(queue) : ~Tail(queue)[k].started
      /\ e.kind \in {"load", "save"} => e.op = None
      /\ \A p \in ops : p.id # e.op => p \in u
  BY <1>1, HeadCares
<1>3. Calm(open, rec, ops, queue)
  BY DEF Caring, Cared
<1>4. CASE Skipped(e) /\ Become(d, u, Tail(queue))
  <2>1. /\ d \in Raw /\ d.op = (IF rec.op = e.op THEN None ELSE rec.op)
        /\ d.exists = rec.exists /\ d.panels = rec.panels /\ d.tabs = rec.tabs
        /\ d.gen = rec.gen /\ d.token = rec.token /\ d.link = rec.link
    BY Before, ClearedSets
  <2>2. /\ e.kind \in {"linkRemove", "save"}
        /\ e.kind = "linkRemove" => ~IsOwned(e)
    BY <1>2, <1>4 DEF Skipped
  <2>3. \A p \in ops : p.phase = "store" /\ OwnsRecord(rec, p) =>
            p \in u /\ OwnsRecord(d, p)
    <3> SUFFICES ASSUME NEW p \in ops, p.phase = "store", OwnsRecord(rec, p)
                 PROVE  p \in u /\ OwnsRecord(d, p)
      OBVIOUS
    <3>1. p.id # None
      BY Before, TypedParts, NullsTyped
    <3>2. p.id # e.op
      BY <1>2, <2>2, <3>1 DEF IsOwned, CallOf
    <3> HIDE DEF u, d
    <3> QED BY <1>2, <2>1, <3>2 DEF OwnsRecord, IsCurrent
  <2> HIDE DEF d, u, e
  <2>4. \A k \in DOMAIN queue :
            /\ CurrentLoad(d, queue[k]) <=> CurrentLoad(rec, queue[k])
            /\ Erases(rec, ops, queue[k]) => Erases(d, u, queue[k])
    BY <2>1, <2>3 DEF CurrentLoad, Erases
  <2>5. ~Erases(rec, ops, queue[1]) /\ ~CurrentLoad(rec, queue[1])
    BY <1>1, <1>2, <2>2 DEF Erases, IsOwned, CallOf, CurrentLoad
  <2>6. ASSUME Accounted(rec, ops, queue, stored)
        PROVE  Accounted(d, u, Tail(queue), stored)
    <3>1. Erased(rec, ops, queue, stored) => Erased(d, u, Tail(queue), stored)
      BY <1>1, <1>2, <2>4, <2>5, Before, ErasedTail
    <3>2. Loading(rec, queue) => Loading(d, Tail(queue))
      BY <1>1, <2>4, <2>5, Before, TailShows DEF Loading
    <3> QED BY <2>1, <2>6, <3>1, <3>2 DEF Accounted, HasOwner
  <2> QED BY <1>1, <1>2, <1>4, <2>1, <2>6, DoneCares DEF Caring, Cared
<1>5. CASE ~Skipped(e) /\ Become(rec, ops, q)
  <2> DEFINE h == [queue[1] EXCEPT !.started = TRUE]
  <2>1. /\ h \in RawEntry /\ h.kind = e.kind /\ h.op = e.op /\ h.gen = e.gen
        /\ h.token = e.token /\ ~h.aborted /\ h.started
    BY <1>2 DEF RawEntry
  <2>2. q = [queue EXCEPT ![1] = h]
    BY <1>2
  <2> HIDE DEF h, q
  <2>3. q \in Seq(RawEntry) /\ DOMAIN q = DOMAIN queue
    BY <1>2, <2>1, <2>2, Before
  <2>4. \A k \in DOMAIN queue : q[k] = IF k = 1 THEN h ELSE queue[k]
    BY <2>2, <2>3
  <2>5. \A k \in DOMAIN queue :
            /\ q[k].kind = queue[k].kind /\ q[k].op = queue[k].op
            /\ ~q[k].aborted /\ (q[k].started => k = 1)
            /\ CurrentLoad(rec, q[k]) <=> CurrentLoad(rec, queue[k])
            /\ CurrentSave(rec, q[k]) <=> CurrentSave(rec, queue[k])
            /\ Erases(rec, ops, queue[k]) => Erases(rec, ops, q[k])
    BY <1>2, <1>3, <2>1, <2>4 DEF Calm, Ordered, CurrentLoad, CurrentSave, Erases
  <2>6. \A k \in DOMAIN q : ~Lost(rec, q[k])
    <3>1. e.kind = "save" => CurrentSave(rec, e)
      BY <1>5 DEF Skipped, IsCurrentToken, IsCurrent, CurrentSave
    <3> QED BY <1>2, <2>3, <2>5, <3>1 DEF Lost
  <2>7. Named(ops, q) /\ Ordered(q)
    BY <1>3, <2>3, <2>5 DEF Calm, Named, Ordered
  <2>8. Loading(rec, q) <=> Loading(rec, queue)
    BY <2>3, <2>5 DEF Loading
  <2>9. Backed(open, rec, ops, q)
    BY <1>3, <2>3, <2>5, <2>8 DEF Calm, Backed
  <2>10. Calm(open, rec, ops, q)
    BY <1>3, <2>3, <2>5, <2>7, <2>9 DEF Calm
  <2>11. Accounted(rec, ops, queue, stored) => Accounted(rec, ops, q, stored)
    BY <2>3, <2>5, <2>6, <2>8 DEF Accounted, Erased
  <2>12. Cared(faults, open, rec, ops, q, stored)
    BY <2>10, <2>11 DEF Caring, Cared
  <2>13. Typed(ops, q)
    BY <2>3, Before DEF Typed
  <2>14. Cared(faults, open, rec', ops', queue', stored)
    BY <1>5, <2>12, <2>13, Before, BecomeCares
  <2> QED BY <1>1, <2>14 DEF Caring
<1> QED BY <1>1, <1>4, <1>5

\* The record changes, and its owners do not.
LEMMA RecordCalm ==
  ASSUME NEW r, NEW x, NEW o, NEW q, NEW w, Calm(w, r, o, q),
         x.exists = r.exists, x.panels = r.panels, x.tabs = r.tabs,
         x.op \in {r.op, None}, Sound(x),
         \A k \in DOMAIN q : CurrentSave(x, q[k]) => Assured(x),
         x.op # None /\ (x.client # NoClient \/ Loading(x, q)) =>
             \E p \in o : Awaited(x, p),
         w => HasOwner(r) \/ Idling(x)
  PROVE  Calm(w, x, o, q)
<1>1. HasOwner(x) <=> HasOwner(r)
  BY DEF HasOwner
<1>2. Backed(w, x, o, q)
  BY <1>1 DEF Calm, Backed
<1>3. Manned(w, x, o)
  BY <1>1 DEF Calm, Manned
<1> QED BY <1>2, <1>3 DEF Calm

LEMMA UnclientedRests ==
  ASSUME NEW r \in Raw, Sound(r), r.client = NoClient
  PROVE  r.timer = "none" /\ ~r.connected
<1>1. r.timer \in {"none", "live", "stale"}
  BY DEF Raw
<1> QED BY <1>1, NullsTyped DEF Sound

LEMMA LinkRemovedCares ==
  ASSUME WInv, Caring, queue # <<>>, Head(queue).kind = "linkRemove",
         Become(AfterLinkRemove(rec, Head(queue)), ops \ CallOf(Head(queue)),
                Tail(queue)),
         stored' = None, UNCHANGED <<open, faults>>
  PROVE  Caring'
<1> DEFINE e == Head(queue)
           u == ops \ CallOf(e)
           c == Cleared(rec, e.op)
           n == [kind |-> "code", link |-> e.link]
           d == [rec EXCEPT !.op = None, !.pending = n]
           x == AfterLinkRemove(rec, e)
<1>1. /\ e = queue[1] /\ e \in RawEntry /\ Typed(u, Tail(queue))
      /\ Calm(open, c, u, Tail(queue))
      /\ \A k \in DOMAIN Tail(queue) : ~Tail(queue)[k].started
  BY HeadCares
<1>2. \A y : Accounted(y, u, Tail(queue), stored')
  BY <1>1 DEF Accounted, Erased, Lost
<1>3. /\ c \in Raw /\ c.op = (IF rec.op = e.op THEN None ELSE rec.op)
      /\ c.exists = rec.exists /\ c.panels = rec.panels /\ c.tabs = rec.tabs
  BY Before, ClearedSets
<1>4. CASE ~IsOwned(e)
  <2>1. x = c
    BY <1>4 DEF AfterLinkRemove
  <2> QED BY <1>1, <1>2, <1>3, <2>1, DoneCares
<1>5. CASE IsOwned(e)
  <2>1. PICK p \in ops : p.phase = "store" /\ OwnsRecord(rec, p) /\ p.id = e.op
    BY <1>5 DEF IsOwned, CallOf
  <2>2. /\ Detached(rec) /\ rec.op = e.op /\ rec.exists
        /\ \A k \in DOMAIN queue : ~CurrentSave(rec, queue[k])
    BY <2>1, Before DEF Kept, OwnsRecord, IsCurrent
  <2>3. Sound(rec) /\ (open => HasOwner(rec))
    BY <2>1 DEF Caring, Cared, Calm, Manned, HasOwner
  <2>4. rec.timer = "none" /\ ~rec.connected
    BY <2>2, <2>3, Before, UnclientedRests DEF Detached
  <2>5. n \in Pending
    BY <1>1 DEF RawEntry, Pending
  <2>6. x = IF HasOwner(d) THEN OpenClient(d, "link") ELSE d
    BY <1>5 DEF AfterLinkRemove
  <2> HIDE DEF n
  <2>7. /\ d \in Raw /\ d.exists = rec.exists /\ d.gen = rec.gen
        /\ d.token = rec.token /\ d.op = None /\ d.link = None
        /\ d.client = NoClient /\ ~d.connected /\ d.timer = "none"
        /\ d.panels = rec.panels /\ d.tabs = rec.tabs
    BY <2>2, <2>4, <2>5, Before DEF Raw, Detached
  <2> HIDE DEF d, x, c
  <2>8. Sound(d)
    BY <2>7, UnclientedSound
  <2>9. LET y == OpenClient(d, "link") IN
        /\ Sound(y) /\ y \in Raw /\ y.panels = d.panels /\ y.tabs = d.tabs
        /\ y.op = d.op /\ y.exists = d.exists /\ y.gen = d.gen
        /\ y.token = d.token + 1
    BY <2>7, OpenClientSound
  <2>10. /\ Sound(x) /\ x \in Raw /\ x.panels = rec.panels /\ x.tabs = rec.tabs
         /\ x.op = None /\ x.exists = rec.exists /\ x.gen = rec.gen
         /\ x.token \in {0, 1}
    BY <2>6, <2>7, <2>8, <2>9, Before
  <2>11. \A k \in DOMAIN Tail(queue) : ~CurrentSave(x, Tail(queue)[k])
    <3> SUFFICES ASSUME NEW k \in DOMAIN Tail(queue)
                 PROVE  ~CurrentSave(x, Tail(queue)[k])
      OBVIOUS
    <3>1. /\ k + 1 \in DOMAIN queue /\ Tail(queue)[k] = queue[k + 1]
      BY Before, TailShows
    <3>2. queue[k + 1].token # 1
      BY <3>1, Before, TypedParts DEF Kept
    <3> QED BY <2>2, <2>10, <3>1, <3>2, Before DEF CurrentSave
  <2>12. open => HasOwner(c)
    BY <1>3, <2>3 DEF HasOwner
  <2>13. Calm(open, x, u, Tail(queue))
    BY <1>1, <1>3, <2>10, <2>11, <2>12, RecordCalm
  <2> QED BY <1>1, <1>2, <2>10, <2>13, DoneCares DEF x
<1> QED BY <1>4, <1>5

LEMMA LinkLoadedCares ==
  ASSUME WInv, Caring, queue # <<>>, Head(queue).kind = "load",
         Become(AfterLoad(rec, Head(queue)), ops \ CallOf(Head(queue)),
                Tail(queue)),
         stored' = stored, UNCHANGED <<open, faults>>
  PROVE  Caring'
<1> DEFINE e == Head(queue)
           t == Tail(queue)
           x == AfterLoad(rec, e)
<1>1. /\ e = queue[1] /\ e \in RawEntry /\ Typed(ops, t) /\ 1 \in DOMAIN queue
      /\ Calm(open, rec, ops, t) /\ ops \ CallOf(e) = ops
      /\ \A k \in DOMAIN t : ~t[k].started
  BY HeadCares
<1>2. Become(x, ops, t)
  BY <1>1
<1>3. ~Erases(rec, ops, queue[1])
  BY <1>1 DEF Erases
<1>4. Calm(open, rec, ops, queue)
  BY DEF Caring, Cared
<1>5. CASE ~IsCurrent(rec, e.gen) \/ ~HasOwner(rec)
  <2>1. x = rec
    BY <1>5 DEF AfterLoad
  <2>2. ASSUME Accounted(rec, ops, queue, stored)
        PROVE  Accounted(rec, ops, t, stored)
    <3>1. Erased(rec, ops, queue, stored) => Erased(rec, ops, t, stored)
      BY <1>1, <1>3, Before, ErasedTail
    <3>2. HasOwner(rec) => ~CurrentLoad(rec, queue[1])
      BY <1>1, <1>5 DEF CurrentLoad, IsCurrent
    <3>3. HasOwner(rec) /\ Loading(rec, queue) => Loading(rec, t)
      BY <3>2, Before, TailShows DEF Loading
    <3> QED BY <2>2, <3>1, <3>3 DEF Accounted
  <2> QED BY <1>1, <1>2, <2>1, <2>2, Before, DoneCares DEF Caring, Cared
<1>6. CASE IsCurrent(rec, e.gen) /\ HasOwner(rec) /\ stored = None
  <2>1. x = SetState(rec, "notLinked")
    BY <1>6 DEF AfterLoad
  <2>2. x \in Raw /\ Calm(open, x, ops, t)
    BY <1>1, <2>1, Before, SetStateSets, StateCalm DEF States, Hopeful
  <2>3. Accounted(x, ops, t, stored)
    BY <1>1, <1>6 DEF Accounted, Erased, Lost
  <2> QED BY <1>1, <1>2, <2>2, <2>3, DoneCares
<1>7. CASE IsCurrent(rec, e.gen) /\ HasOwner(rec) /\ stored # None
  <2> DEFINE d == [rec EXCEPT !.link = stored]
             c == SetState(d, "linking")
  <2>1. x = OpenClient(c, "credentials")
    BY <1>7 DEF AfterLoad
  <2>2. CurrentLoad(rec, e)
    BY <1>1, <1>7 DEF CurrentLoad, IsCurrent
  <2>3. DOMAIN t = {} /\ Detached(rec)
    BY <2>2, HeadOfQueue
  <2>4. /\ d \in Raw /\ d.exists = rec.exists /\ d.gen = rec.gen
        /\ d.op = rec.op /\ d.link = stored /\ d.timer = rec.timer
        /\ d.panels = rec.panels /\ d.tabs = rec.tabs
    BY Before DEF Raw
  <2> HIDE DEF d
  <2>5. /\ c \in Raw /\ Kin(d, c) /\ c.panels = d.panels /\ c.tabs = d.tabs
        /\ c.timer = d.timer
    BY <2>4, SetStateSets DEF States
  <2>6. c.timer # "stale" /\ (c.timer = "live" => c.link # None)
    BY <1>7, <2>4, <2>5, SelfReports DEF Kin
  <2> HIDE DEF c, x, e, t
  <2>7. /\ Sound(x) /\ x \in Raw /\ x.panels = rec.panels /\ x.tabs = rec.tabs
        /\ x.op = rec.op /\ x.link = stored /\ x.exists = rec.exists
        /\ x.gen = rec.gen
    BY <2>1, <2>4, <2>5, <2>6, OpenClientSound DEF Kin
  <2>8. rec.op # None => \E p \in ops : Awaited(x, p)
    <3>1. Loading(rec, queue)
      BY <1>1, <2>2 DEF Loading
    <3>2. rec.op # None => \E p \in ops : Awaited(rec, p)
      BY <1>4, <3>1 DEF Calm, Backed
    <3> QED BY <2>7, <3>2 DEF Awaited, OwnsRecord, IsCurrent
  <2>9. Calm(open, x, ops, t)
    BY <1>1, <1>7, <2>3, <2>7, <2>8, RecordCalm
  <2>10. Accounted(x, ops, t, stored)
    BY <1>7, <2>7 DEF Accounted
  <2> QED BY <1>1, <1>2, <2>7, <2>9, <2>10, DoneCares DEF t
<1> QED BY <1>5, <1>6, <1>7

LEMMA LostTail ==
  ASSUME NEW r, NEW o, NEW q \in Seq(RawEntry), q # <<>>, NEW s, NEW t,
         Erased(r, o, q, s), \A k \in DOMAIN Tail(q) : ~Tail(q)[k].started,
         Lost(r, q[1])
  PROVE  Erased(r, o, Tail(q), t)
<1>1. /\ 1 \in DOMAIN q /\ DOMAIN q \subseteq Nat
      /\ \A k \in DOMAIN q :
             k # 1 => k - 1 \in DOMAIN Tail(q) /\ Tail(q)[k - 1] = q[k]
  BY TailShows
<1>2. PICK k \in DOMAIN q : k > 1 /\ Erases(r, o, q[k])
  BY <1>1 DEF Erased
<1>3. k - 1 \in DOMAIN Tail(q) /\ Tail(q)[k - 1] = q[k]
  BY <1>1, <1>2
<1> QED BY <1>2, <1>3 DEF Erased, Lost

LEMMA LinkSavedCares ==
  ASSUME WInv, Caring, queue # <<>>, Head(queue).kind = "save",
         Become(AfterSave(rec, Head(queue)), ops \ CallOf(Head(queue)),
                Tail(queue)),
         stored' = Head(queue).link, Head(queue).started, UNCHANGED <<open, faults>>
  PROVE  Caring'
<1> DEFINE e == Head(queue)
           t == Tail(queue)
           x == AfterSave(rec, e)
<1>1. /\ e = queue[1] /\ e \in RawEntry /\ Typed(ops, t) /\ 1 \in DOMAIN queue
      /\ Calm(open, rec, ops, t) /\ ops \ CallOf(e) = ops
      /\ \A k \in DOMAIN t : ~t[k].started
  BY HeadCares
<1>2. Become(x, ops, t)
  BY <1>1
<1>3. Calm(open, rec, ops, queue)
  BY DEF Caring, Cared
<1>4. CurrentSave(rec, e) =>
          /\ DOMAIN t = {} /\ rec.client # NoClient /\ rec.link = None
          /\ Assured(rec)
  BY <1>1, <1>3, HeadOfQueue DEF Calm
<1>5. CASE ~IsCurrentToken(rec, e.gen, e.token)
  <2>1. x = rec
    BY <1>5 DEF AfterSave
  <2>2. ASSUME Accounted(rec, ops, queue, stored)
        PROVE  Accounted(rec, ops, t, stored')
    <3>1. Lost(rec, queue[1])
      BY <1>1, <1>4, <1>5 DEF Lost, CurrentSave, IsCurrentToken, IsCurrent
    <3>2. Erased(rec, ops, queue, stored) => Erased(rec, ops, t, stored')
      BY <1>1, <3>1, Before, LostTail
    <3>3. Loading(rec, queue) => Loading(rec, t)
      <4>1. ~CurrentLoad(rec, queue[1])
        BY <1>1 DEF CurrentLoad
      <4> QED BY <4>1, Before, TailShows DEF Loading
    <3> QED BY <2>2, <3>2, <3>3 DEF Accounted
  <2> QED BY <1>1, <1>2, <2>1, <2>2, Before, DoneCares DEF Caring, Cared
<1>6. CASE IsCurrentToken(rec, e.gen, e.token)
  <2> DEFINE d == [rec EXCEPT !.writing = FALSE, !.link = e.link,
                              !.pending = NoPending]
  <2>1. x = IF d.connected THEN SetState(d, "linked") ELSE ScheduleReconnect(d)
    BY <1>6 DEF AfterSave
  <2>2. CurrentSave(rec, e)
    BY <1>1, <1>6 DEF CurrentSave, IsCurrentToken, IsCurrent
  <2>3. Sound(rec) /\ rec.timer = "none"
    <3>1. rec.timer \in {"none", "live", "stale"}
      BY Before DEF Raw
    <3> QED BY <1>3, <1>4, <2>2, <3>1 DEF Calm, Sound
  <2>4. /\ d \in Raw /\ d.exists = rec.exists /\ d.gen = rec.gen
        /\ d.token = rec.token /\ d.op = rec.op /\ d.link = e.link
        /\ d.client = rec.client /\ d.state = rec.state
        /\ d.connected = rec.connected /\ d.timer = "none"
        /\ d.panels = rec.panels /\ d.tabs = rec.tabs
        /\ d.mismatch = rec.mismatch
    BY <1>1, <2>3, Before DEF Raw, RawEntry
  <2> HIDE DEF d, x
  <2>5. Sound(x) /\ x \in Raw /\ Stays(d, x)
    <3>1. CASE d.connected
      <4>1. x = SetState(d, "linked")
        BY <2>1, <3>1
      <4>2. /\ x \in Raw /\ Kin(d, x) /\ x.panels = d.panels /\ x.tabs = d.tabs
            /\ x.timer = d.timer /\ x.connected
        BY <2>4, <3>1, <4>1, SetStateSets DEF States
      <4>3. Sound(x)
        BY <1>4, <2>2, <2>3, <2>4, <3>1, <4>2 DEF Sound, Kin, Tries
      <4> QED BY <4>2, <4>3, KinStays
    <3>2. CASE ~d.connected
      <4>1. x = ScheduleReconnect(d)
        BY <2>1, <3>2
      <4>2. ~CanSchedule(d) => Sound(d)
        BY <1>4, <2>2, <2>3, <2>4, <3>2 DEF CanSchedule, Sound, Tries
      <4>3. /\ d.connected => d.client.state \in {"connected", "incompatible"}
            /\ d.client.socket =>
                   d.client.state \notin {"none", "disconnected", "incompatible"}
        BY <2>3, <2>4 DEF Sound
      <4> QED BY <2>4, <4>1, <4>2, <4>3, ScheduleReconnectSound
    <3> QED BY <3>1, <3>2
  <2>6. /\ x.exists = rec.exists /\ x.panels = rec.panels /\ x.tabs = rec.tabs
        /\ x.op = rec.op /\ x.link = e.link
    BY <2>4, <2>5 DEF Stays
  <2>7. ~Loading(x, t)
    BY <1>4, <2>2 DEF Loading
  <2>8. x.op # None /\ x.client # NoClient => \E p \in ops : Awaited(x, p)
    <3>1. rec.op # None => \E p \in ops : Awaited(rec, p)
      BY <1>3, <1>4, <2>2 DEF Calm, Backed
    <3>2. x.client # NoClient => x.gen = rec.gen
      BY <2>4, <2>5 DEF Stays
    <3> QED BY <2>6, <3>1, <3>2 DEF Awaited, OwnsRecord, IsCurrent
  <2>9. open => HasOwner(rec)
    BY <1>4, <2>2, ClientUsed
  <2>10. Calm(open, x, ops, t)
    BY <1>1, <1>4, <2>2, <2>5, <2>6, <2>7, <2>8, <2>9, RecordCalm
  <2>11. Accounted(x, ops, t, stored')
    BY <1>1, <2>6 DEF Accounted, Erased, Lost
  <2> QED BY <1>1, <1>2, <2>5, <2>10, <2>11, DoneCares
<1> QED BY <1>5, <1>6

\* A removal that a call has asked for is over, and the call with it.
LEMMA RemovalCalm ==
  ASSUME WInv, Caring, queue # <<>>, Head(queue).kind = "remove"
  PROVE  Calm(open, rec, ops \ CallOf(Head(queue)), Tail(queue))
<1> DEFINE e == Head(queue)
           u == ops \ CallOf(e)
<1>1. /\ e = queue[1] /\ 1 \in DOMAIN queue /\ u \subseteq ops
      /\ Calm(open, rec, ops, Tail(queue)) /\ (e.op = None => u = ops)
      /\ \A p \in ops : Awaited(rec, p) => p \in u
  BY HeadCares
<1>2. e.op # None => ~open /\ ~HasOwner(rec)
  BY <1>1 DEF Caring, Cared, Calm, Backed
<1>3. Backed(open, rec, ops, Tail(queue))
  BY <1>1 DEF Calm
<1>5. rec.op # None /\ (open \/ HasOwner(rec)) => \E p \in u : p.id = rec.op
  BY <1>1, <1>2, <1>3 DEF Backed
<1> HIDE DEF u
<1>4. Calm(open, rec, u, Tail(queue))
  BY <1>1, <1>5, LeavesCalm
<1> QED BY <1>4 DEF u

LEMMA StoreSucceedsCares == ASSUME WInv, Caring, StoreSucceeds PROVE Caring'
<1> DEFINE e == Head(queue)
           u == ops \ CallOf(e)
<1>1. /\ queue # <<>> /\ UNCHANGED <<open, faults>> /\ stored' = Written(e)
      /\ e.started /\ Become(Succeeded(e), u, Tail(queue))
  BY DEF StoreSucceeds
<1>2. /\ e \in RawEntry /\ Typed(u, Tail(queue))
      /\ Calm(open, Cleared(rec, e.op), u, Tail(queue))
      /\ \A k \in DOMAIN Tail(queue) : ~Tail(queue)[k].started
  BY <1>1, HeadCares
<1>3. CASE e.kind = "linkRemove"
  BY <1>1, <1>3, LinkRemovedCares DEF Succeeded, Written
<1>4. CASE e.kind = "load"
  <2>1. Succeeded(e) = AfterLoad(rec, e) /\ Written(e) = stored
    BY <1>4 DEF Succeeded, Written
  <2> QED BY <1>1, <1>4, <2>1, LinkLoadedCares
<1>5. CASE e.kind = "save"
  <2>1. Succeeded(e) = AfterSave(rec, e) /\ Written(e) = e.link
    BY <1>5 DEF Succeeded, Written
  <2> QED BY <1>1, <1>5, <2>1, LinkSavedCares
<1>6. CASE e.kind \in {"unlinkRemove", "remove"}
  <2>1. /\ stored' = None
        /\ e.kind = "unlinkRemove" => Succeeded(e) = Cleared(rec, e.op)
        /\ e.kind = "remove" => Succeeded(e) = rec
    BY <1>1, <1>6 DEF Succeeded, Written
  <2>2. Succeeded(e) \in Raw
    BY <1>6, <2>1, Before, ClearedSets
  <2>3. Calm(open, Succeeded(e), u, Tail(queue))
    BY <1>1, <1>2, <1>6, <2>1, RemovalCalm
  <2>4. Accounted(Succeeded(e), u, Tail(queue), stored')
    BY <1>2, <2>1 DEF Accounted, Erased, Lost
  <2> QED BY <1>1, <1>2, <2>2, <2>3, <2>4, DoneCares
<1> QED BY <1>2, <1>3, <1>4, <1>5, <1>6 DEF RawEntry

LEMMA StoreFailsCares == ASSUME WInv, Caring, StoreFails PROVE Caring'
<1> DEFINE e == Head(queue)
           u == ops \ CallOf(e)
           t == Tail(queue)
           c == Cleared(rec, e.op)
           lost == e.kind = "save" /\ IsCurrentToken(rec, e.gen, e.token)
           v == QuietRemove(rec)
<1>1. /\ queue # <<>> /\ UNCHANGED <<open, stored, faults>>
      /\ "storage" \in faults
      /\ Become(Failed(e), u, IF lost THEN Append(t, v) ELSE t)
  BY DEF StoreFails, Enqueue
<1>2. /\ e = queue[1] /\ 1 \in DOMAIN queue /\ e \in RawEntry /\ Typed(u, t)
      /\ Calm(open, c, u, t) /\ Calm(open, rec, ops, t)
      /\ e.kind \in {"load", "save"} => e.op = None
      /\ e.op = None => u = ops
  BY <1>1, HeadCares
<1>3. "error" \in States /\ "error" \notin Hopeful
  BY DEF States, Hopeful
<1>4. CASE ~lost
  <2>1. \E r \in {rec, c} : Calm(open, r, u, t) /\ Failed(e) \in {r, SetState(r, "error")}
    <3>1. CASE e.kind \in {"linkRemove", "unlinkRemove"}
      <4>1. Failed(e) \in {c, SetState(c, "error")}
        BY <3>1 DEF Failed
      <4> QED BY <1>2, <4>1
    <3>2. CASE e.kind \in {"load", "remove"}
      <4>1. Failed(e) \in {rec, SetState(rec, "error")}
        BY <3>2 DEF Failed
      <4>2. Calm(open, rec, u, t)
        BY <1>1, <1>2, <3>2, RemovalCalm
      <4> QED BY <4>1, <4>2
    <3>3. CASE e.kind = "save"
      <4>1. Failed(e) = rec
        BY <1>4, <3>3 DEF Failed
      <4> QED BY <1>2, <3>3, <4>1
    <3> QED BY <1>2, <3>1, <3>2, <3>3 DEF RawEntry
  <2>2. PICK r \in {rec, c} :
            Calm(open, r, u, t) /\ Failed(e) \in {r, SetState(r, "error")}
    BY <2>1
  <2>3. r \in Raw
    BY Before, ClearedSets
  <2>4. Failed(e) \in Raw /\ Calm(open, Failed(e), u, t)
    BY <1>3, <2>2, <2>3, SetStateSets, StateCalm
  <2>5. Become(Failed(e), u, t)
    BY <1>1, <1>4
  <2> QED BY <1>1, <1>2, <2>4, <2>5, DoneCares
<1>5. CASE lost
  <2> DEFINE b == [rec EXCEPT !.writing = FALSE, !.pending = NoPending]
             a == DropClient(b)
             d == SetState(a, "error")
  <2>1. Failed(e) = d
    BY <1>5 DEF Failed
  <2>2. CurrentSave(rec, e)
    BY <1>5 DEF CurrentSave, IsCurrentToken, IsCurrent
  <2>3. DOMAIN t = {} /\ rec.client # NoClient /\ rec.link = None /\ u = ops
    BY <1>1, <1>2, <1>5, <2>2, HeadOfQueue
  <2>4. rec.timer = "none"
    <3>1. rec.timer \in {"none", "live", "stale"}
      BY Before DEF Raw
    <3> QED BY <2>3, <3>1, SelfReports
  <2>5. /\ b \in Raw /\ b.exists = rec.exists /\ b.panels = rec.panels
        /\ b.tabs = rec.tabs /\ b.op = rec.op /\ b.timer = "none" /\ b.token = 0
    BY <2>4, Before DEF Raw
  <2> HIDE DEF b
  <2>6. /\ a \in Raw /\ a.exists = b.exists /\ a.panels = b.panels
        /\ a.tabs = b.tabs /\ a.op = b.op /\ a.timer = "none"
        /\ a.client = NoClient /\ ~a.connected
    <3> DEFINE m == IF b.timer = "live" THEN "stale" ELSE b.timer
               n == b.token + 1
    <3>1. a = [b EXCEPT !.token = n, !.client = NoClient, !.connected = FALSE,
                        !.authority = FALSE, !.mismatch = FALSE, !.timer = m]
      BY DEF DropClient
    <3>2. m = "none" /\ n \in Nat
      BY <2>5
    <3> HIDE DEF a, m, n
    <3> QED BY <2>5, <3>1, <3>2, NullsTyped DEF Raw
  <2> HIDE DEF a
  <2>7. /\ d \in Raw /\ Kin(a, d) /\ d.panels = a.panels /\ d.tabs = a.tabs
        /\ d.timer = a.timer /\ d.connected = a.connected /\ d.state = "error"
    BY <1>3, <2>6, SetStateSets
  <2> HIDE DEF d
  <2>8. /\ d.exists = rec.exists /\ d.panels = rec.panels /\ d.tabs = rec.tabs
        /\ d.op = rec.op /\ d.client = NoClient /\ ~d.connected
        /\ d.timer = "none"
    BY <2>5, <2>6, <2>7 DEF Kin
  <2>9. Sound(d)
    BY <1>3, <2>7, <2>8, UnclientedSound
  <2>10. open => HasOwner(rec)
    BY <2>3, ClientUsed
  <2>11. ~Loading(d, t)
    BY <2>3 DEF Loading
  <2> HIDE DEF t
  <2>12. Calm(open, d, ops, t)
    BY <1>2, <2>3, <2>8, <2>9, <2>10, <2>11, RecordCalm
  <2>13. Cared(faults, open, d, ops, t, stored)
    BY <1>1, <2>12 DEF Cared
  <2>14. v \in RawEntry /\ v.kind = "remove" /\ v.op = None /\ ~v.started /\ ~v.aborted
    <3> DEFINE w == Entry("remove", None, rec, None)
    <3>1. v = [w EXCEPT !.gen = Stale]
      BY DEF QuietRemove
    <3>2. rec.gen = 0 /\ rec.token = 0
      BY Before
    <3>3. w \in RawEntry /\ w.kind = "remove" /\ w.op = None /\ ~w.started /\ ~w.aborted
      BY <3>2 DEF Entry, RawEntry
    <3>4. Stale \in Int
      BY DEF Stale
    <3> HIDE DEF v, w
    <3> QED BY <3>1, <3>3, <3>4 DEF RawEntry
  <2> HIDE DEF v
  <2>15. ~CurrentSave(d, v) /\ ~CurrentLoad(d, v)
    BY <2>14 DEF CurrentSave, CurrentLoad
  <2>16. \A p \in ops : p.id # None
    BY Before, TypedParts, NullsTyped
  <2>17. t \in Seq(RawEntry)
    BY <1>2 DEF Typed
  <2>18. Cared(faults, open, d, ops, Append(t, v), stored)
    BY <2>7, <2>13, <2>14, <2>15, <2>16, <2>17, AppendCares
  <2>19. Typed(ops, Append(t, v)) /\ Become(d, ops, Append(t, v))
    BY <1>1, <1>2, <1>5, <2>1, <2>3, <2>14, <2>17, Appended DEF Typed
  <2>20. Cared(faults, open, rec', ops', queue', stored)
    BY <2>7, <2>18, <2>19, BecomeCares
  <2> QED BY <1>1, <2>20 DEF Caring
<1> QED BY <1>4, <1>5

\* Nobody uses a window without a record, and nothing is under way for it.
LEMMA AbsentCares ==
  ASSUME NEW f, NEW w, NEW s
  PROVE  Cared(f, w, Absent, {}, <<>>, s)
<1>1. /\ Absent \in Raw /\ Absent.panels = {} /\ Absent.tabs = {}
      /\ Detached(Absent) /\ Absent.op = None /\ ~Absent.connected
      /\ Absent.timer = "none" /\ Absent.state = "notLinked"
  BY NewRecordGood DEF Absent, NewRecord, Good
<1>2. Sound(Absent) /\ ~HasOwner(Absent)
  BY <1>1, UnclientedSound DEF Detached, HasOwner
<1>3. Named({}, <<>>) /\ Ordered(<<>>)
  BY DEF Named, Ordered
<1>4. Manned(w, Absent, {})
  BY <1>1, FS_EmptySet DEF Manned, Idling, Detached
<1>5. Backed(w, Absent, {}, <<>>)
  BY <1>1, <1>2 DEF Backed
<1> QED BY <1>2, <1>3, <1>4, <1>5 DEF Cared, Calm, Accounted

LEMMA RestartCares == ASSUME Restart PROVE Caring'
  BY AbsentCares DEF Restart, Caring

-----------------------------------------------------------------------------
(* Panels and tabs come and go, with care.                                 *)

\* The first to use an open window, for which no call is in progress
LEMMA FreshCalm ==
  ASSUME Caring, open, ops = {}, NEW d \in Raw, Sound(d), HasOwner(d),
         d.exists, d.op = None, IsFiniteSet(d.panels),
         \A k \in DOMAIN queue : ~CurrentSave(d, queue[k])
  PROVE  Calm(open, d, ops, queue)
<1>1. Named(ops, queue) /\ Ordered(queue)
  BY DEF Caring, Cared, Calm
<1>2. Backed(open, d, ops, queue)
  BY DEF Caring, Cared, Calm, Backed
<1>3. Manned(open, d, ops)
  BY DEF Manned
<1> QED BY <1>1, <1>2, <1>3 DEF Calm

LEMMA FreshCares ==
  ASSUME WInv, Caring, open, ops = {}, NEW d \in Raw, Sound(d), HasOwner(d),
         d.exists, d.op = None, IsFiniteSet(d.panels),
         \A k \in DOMAIN queue : ~CurrentSave(d, queue[k]),
         "storage" \notin faults => Accounted(d, ops, queue, stored),
         Become(d, ops, queue), UNCHANGED <<open, stored, faults>>
  PROVE  Caring'
<1>1. Cared(faults, open, d, ops, queue, stored)
  BY FreshCalm DEF Cared
<1>2. Cared(faults, open, rec', ops', queue', stored)
  BY <1>1, Before, BecomeCares
<1> QED BY <1>2 DEF Caring

LEMMA LoadCares ==
  ASSUME WInv, Caring, open, ops = {}, NEW n \in Raw, Sound(n), HasOwner(n),
         n.exists, n.op = None, IsFiniteSet(n.panels), n.gen > 0,
         Become(n, ops, Enqueue(queue, Entry("load", None, n, None))),
         UNCHANGED <<open, stored, faults>>
  PROVE  Caring'
<1> DEFINE e == Entry("load", None, n, None)
           a == Append(queue, e)
           f == {"storage"}
<1>1. /\ e \in RawEntry /\ e.kind = "load" /\ e.gen = n.gen
      /\ ~e.started /\ ~e.aborted /\ e.op = None
  BY DEF Entry, RawEntry, Raw
<1>2. Become(n, ops, a)
  BY DEF Enqueue
<1>3. \A k \in DOMAIN queue : ~CurrentSave(n, queue[k])
  BY Before, NewGeneration
<1>4. Calm(open, n, ops, queue)
  BY <1>3, FreshCalm
<1>5. queue \in Seq(RawEntry) /\ (\A p \in ops : p.id # None)
  BY Before DEF Typed
<1> HIDE DEF e
<1>6. Cared(f, open, n, ops, queue, stored)
  BY <1>4 DEF Cared
<1> HIDE DEF f
<1>7. Cared(f, open, n, ops, a, stored)
  BY <1>1, <1>5, <1>6, AppendCares DEF CurrentSave
<1>8. CurrentLoad(n, e)
  BY <1>1 DEF CurrentLoad
<1>9. a \in Seq(RawEntry) /\ Loading(n, a)
  BY <1>1, <1>5, <1>8, Appended DEF Loading
<1>10. Cared(faults, open, n, ops, a, stored)
  BY <1>7, <1>9 DEF Cared, Accounted
<1>11. Typed(ops, a)
  BY <1>9, Before DEF Typed
<1>12. Cared(faults, open, rec', ops', queue', stored)
  BY <1>2, <1>10, <1>11, BecomeCares
<1> QED BY <1>12 DEF Caring

\* A window that stays in use, with other panels and tabs
LEMMA StillCares ==
  ASSUME WInv, Caring, HasOwner(rec),
         NEW r \in Raw, Kin(rec, r), HasOwner(r),
         open => IsFiniteSet(r.panels) /\ \A p \in ops : p.panel \in r.panels,
         r.state = rec.state, r.timer = rec.timer,
         r.connected = rec.connected, r.mismatch = rec.mismatch
  PROVE  Cared(faults, open, r, ops, queue, stored) /\ r.exists
<1>1. /\ r.exists = rec.exists /\ r.gen = rec.gen /\ r.token = rec.token
      /\ r.op = rec.op /\ r.link = rec.link /\ r.pending = rec.pending
      /\ r.client = rec.client
  BY DEF Kin
<1>2. Sound(r)
  BY <1>1 DEF Caring, Cared, Calm, Sound, Tries
<1>3. \A k \in DOMAIN queue :
         /\ CurrentLoad(r, queue[k]) <=> CurrentLoad(rec, queue[k])
         /\ CurrentSave(r, queue[k]) <=> CurrentSave(rec, queue[k])
  BY <1>1 DEF CurrentLoad, CurrentSave
<1>4. \A p : OwnsRecord(r, p) <=> OwnsRecord(rec, p)
  BY <1>1 DEF OwnsRecord, IsCurrent
<1>5. Loading(r, queue) <=> Loading(rec, queue)
  BY <1>3 DEF Loading
<1>6. \A k \in DOMAIN queue : CurrentSave(r, queue[k]) => Assured(r)
  BY <1>1, <1>3 DEF Caring, Cared, Calm, Assured
<1>7. Backed(open, r, ops, queue)
  BY <1>1, <1>4, <1>5 DEF Caring, Cared, Calm, Backed, Awaited
<1>8. Manned(open, r, ops)
  BY DEF Caring, Cared, Calm, Manned
<1>9. Calm(open, r, ops, queue)
  BY <1>2, <1>6, <1>7, <1>8 DEF Caring, Cared, Calm
<1>10. \A k \in DOMAIN queue :
          /\ Erases(r, ops, queue[k]) <=> Erases(rec, ops, queue[k])
          /\ Lost(r, queue[k]) <=> Lost(rec, queue[k])
  BY <1>3, <1>4 DEF Erases, Lost
<1>11. Accounted(rec, ops, queue, stored) => Accounted(r, ops, queue, stored)
  BY <1>1, <1>5, <1>10 DEF Accounted, Erased
<1>12. r.exists
  BY <1>1 DEF Caring, Cared, Calm, Backed
<1> QED BY <1>9, <1>11, <1>12 DEF Caring, Cared

\* A window in use acts on what it has, with the operation of no call.
LEMMA ActivatedCares ==
  ASSUME WInv, Caring, open, ops = {}, rec.op = None,
         HasOwner(rec) \/ Idling(rec),
         NEW r \in Raw, Kin(rec, r), HasOwner(r), IsFiniteSet(r.panels),
         r.state = rec.state, r.timer = rec.timer,
         r.connected = rec.connected, r.mismatch = rec.mismatch, r.exists,
         ~LoadsStoredLink(r),
         Become(Activated(r), ops, queue), UNCHANGED <<open, stored, faults>>
  PROVE  Caring'
<1>1. /\ r.exists = rec.exists /\ r.gen = rec.gen /\ r.token = rec.token
      /\ r.op = rec.op /\ r.link = rec.link /\ r.pending = rec.pending
      /\ r.client = rec.client /\ r.gen = 0 /\ r.token = 0
  BY Before DEF Kin
<1>2. Follows(rec, r)
  BY Before, KinFollows
<1>3. Typed(ops, queue) /\ Kept(r, ops, queue, stored)
  BY <1>2, Before, FollowsKeeps
<1>4. ASSUME HasOwner(rec)
      PROVE  Cared(faults, open, r, ops, queue, stored)
  BY <1>4, StillCares
<1>5. r.timer # "stale" /\ (r.timer = "live" => r.link # None)
  BY <1>1, SelfReports
<1>6. \A x \in Raw : x.gen > 0 \/ x.token > 0 =>
          \A k \in DOMAIN queue : ~CurrentSave(x, queue[k])
  BY <1>1, <1>3, TypedParts DEF Kept, CurrentSave, Raw
<1>7. CASE r.client # NoClient
  <2> DEFINE d == ScheduleReconnect(r)
  <2>1. HasOwner(rec) /\ Cared(faults, open, r, ops, queue, stored)
    BY <1>1, <1>4, <1>7, ClientUsed
  <2>2. Sound(r)
    BY <2>1 DEF Cared, Calm
  <2>3. Sound(d) /\ Stays(r, d) /\ d \in Raw
    BY <2>2, ScheduleReconnectSound DEF Sound
  <2>4. Activated(r) \in {r, d}
    BY <1>7 DEF Activated
  <2> HIDE DEF d
  <2>5. Cared(faults, open, d, ops, queue, stored)
    BY <1>3, <2>1, <2>3, StaysCares
  <2>6. Cared(faults, open, Activated(r), ops, queue, stored) /\ Activated(r) \in Raw
    BY <2>1, <2>3, <2>4, <2>5
  <2>7. Cared(faults, open, rec', ops', queue', stored)
    BY <1>3, <2>6, BecomeCares
  <2> QED BY <2>7 DEF Caring
<1>8. CASE r.client = NoClient /\ r.pending # NoPending
  <2> DEFINE i == IF r.pending.kind = "code" THEN "link" ELSE "credentials"
             c == SetState(r, "linking")
             x == OpenClient(c, i)
  <2>1. HasOwner(rec) /\ Cared(faults, open, r, ops, queue, stored)
    BY <1>1, <1>4, <1>8 DEF Idling
  <2>2. Activated(r) = x
    BY <1>8 DEF Activated
  <2>3. /\ c \in Raw /\ Kin(r, c) /\ c.panels = r.panels /\ c.tabs = r.tabs
        /\ c.timer = r.timer
    BY SetStateSets DEF States
  <2>4. i \in {"link", "credentials"}
    OBVIOUS
  <2> HIDE DEF i, c
  <2>5. /\ Sound(x) /\ x \in Raw
        /\ x.panels = c.panels /\ x.tabs = c.tabs /\ x.op = c.op
        /\ x.link = c.link /\ x.exists = c.exists /\ x.token = c.token + 1
    BY <1>5, <2>3, <2>4, OpenClientSound DEF Kin
  <2> HIDE DEF x
  <2>6. x.token = 1
    BY <1>1, <2>3, <2>5 DEF Kin
  <2>11. /\ x.panels = r.panels /\ x.op = None /\ x.exists /\ x.link = r.link
         /\ HasOwner(x)
    BY <1>1, <2>3, <2>5 DEF Kin, HasOwner
  <2>7. \A k \in DOMAIN queue : ~CurrentSave(x, queue[k]) /\ ~CurrentSave(r, queue[k])
    BY <1>3, <1>6, <1>8, <2>5, <2>6 DEF Kept
  <2>8. r.link = None /\ ~Loading(r, queue)
    BY <1>3, <1>8 DEF Kept, Loading, Detached
  <2>9. \A k \in DOMAIN queue :
           /\ Erases(r, ops, queue[k]) => Erases(x, ops, queue[k])
           /\ Lost(x, queue[k]) => Lost(r, queue[k])
    BY <2>7 DEF Erases, Lost
  <2>10. "storage" \notin faults => Accounted(x, ops, queue, stored)
    <3>1. "storage" \notin faults => Erased(r, ops, queue, stored)
      BY <2>1, <2>8 DEF Cared, Accounted
    <3>2. Erased(r, ops, queue, stored) => Erased(x, ops, queue, stored)
      BY <2>9 DEF Erased
    <3> QED BY <3>1, <3>2 DEF Accounted
  <2> QED BY <2>2, <2>5, <2>7, <2>10, <2>11, FreshCares
<1>9. CASE r.client = NoClient /\ r.pending = NoPending /\ r.link # None
  <2> DEFINE g == r.gen + 1
             n == [r EXCEPT !.gen = g]
             c == SetState(n, "linking")
             x == OpenClient(c, "credentials")
  <2>1. Activated(r) = x
    BY <1>9 DEF Activated
  <2>2. g = 1
    BY <1>1
  <2> HIDE DEF g
  <2>3. /\ n \in Raw /\ n.gen = 1 /\ n.exists = r.exists /\ n.op = r.op
        /\ n.link = r.link /\ n.timer = r.timer
        /\ n.panels = r.panels /\ n.tabs = r.tabs
    BY <2>2 DEF Raw
  <2> HIDE DEF n
  <2>4. /\ c \in Raw /\ Kin(n, c) /\ c.panels = n.panels /\ c.tabs = n.tabs
        /\ c.timer = n.timer
    BY <2>3, SetStateSets DEF States
  <2> HIDE DEF c
  <2>5. /\ Sound(x) /\ x \in Raw
        /\ x.panels = c.panels /\ x.tabs = c.tabs /\ x.op = c.op
        /\ x.link = c.link /\ x.exists = c.exists /\ x.gen = c.gen
    BY <1>5, <2>3, <2>4, OpenClientSound DEF Kin
  <2> HIDE DEF x
  <2>6. /\ x.panels = r.panels /\ x.op = None /\ x.exists /\ x.link # None
        /\ HasOwner(x) /\ x.gen = 1
    BY <1>1, <1>9, <2>3, <2>4, <2>5 DEF Kin, HasOwner
  <2>7. \A k \in DOMAIN queue : ~CurrentSave(x, queue[k])
    BY <1>6, <2>5, <2>6
  <2>8. Accounted(x, ops, queue, stored)
    BY <2>6 DEF Accounted
  <2> QED BY <2>1, <2>5, <2>6, <2>7, <2>8, FreshCares
<1>10. CASE r.client = NoClient /\ r.pending = NoPending /\ r.link = None
  <2>1. Activated(r) = r
    BY <1>10 DEF Activated
  <2>2. HasOwner(rec)
    BY <1>1, <1>10 DEF LoadsStoredLink, Idling
  <2>3. Cared(faults, open, r, ops, queue, stored)
    BY <1>4, <2>2
  <2>4. Cared(faults, open, rec', ops', queue', stored)
    BY <1>3, <2>1, <2>3, BecomeCares
  <2> QED BY <2>4 DEF Caring
<1> QED BY <1>7, <1>8, <1>9, <1>10

\* Somebody uses the window: the first one activates it.
LEMMA JoinCares ==
  ASSUME WInv, Caring, open, NEW P \in SUBSET Panel, NEW T \in SUBSET Tab,
         IsFiniteSet(P), P \cup T # {}, rec.panels \subseteq P,
         LET r == [RecordFor EXCEPT !.panels = P, !.tabs = T]
         IN  \/ Activate(r) /\ rec.panels = {}
             \/ HasOwner(rec) /\ Become(r, ops, queue),
         UNCHANGED <<open, stored, faults>>
  PROVE  Caring'
<1> DEFINE c == RecordFor
           r == [c EXCEPT !.panels = P, !.tabs = T]
<1>1. Calm(open, rec, ops, queue) /\ Typed(ops, queue)
  BY Before DEF Caring, Cared
<1>2. c \in Raw /\ c.exists /\ (rec.exists => c = rec)
  BY RecordForTyped, NewRecordGood DEF RecordFor, NewRecord
<1>3. \/ Activate(r) /\ rec.panels = {}
      \/ HasOwner(rec) /\ Become(r, ops, queue)
  OBVIOUS
<1>8. r = [c EXCEPT !.panels = P, !.tabs = T]
  OBVIOUS
<1> HIDE DEF c, r
<1>4. /\ r \in Raw /\ Kin(c, r) /\ r.panels = P /\ r.tabs = T
      /\ r.state = c.state /\ r.timer = c.timer /\ r.connected = c.connected
      /\ r.mismatch = c.mismatch
  <2>1. c \in Raw
    BY <1>2
  <2> QED BY <1>8, <2>1 DEF Raw, Kin
<1>5. HasOwner(r) /\ r.exists /\ (\A p \in ops : p.panel \in r.panels)
  BY <1>1, <1>2, <1>4 DEF HasOwner, Kin, Calm, Manned
<1>6. CASE HasOwner(rec) /\ Become(r, ops, queue)
  <2>1. rec.exists /\ c = rec
    BY <1>1, <1>2, <1>6 DEF Calm, Backed
  <2>2. Cared(faults, open, r, ops, queue, stored)
    BY <1>4, <1>5, <1>6, <2>1, StillCares
  <2>3. Cared(faults, open, rec', ops', queue', stored)
    BY <1>1, <1>4, <1>6, <2>2, BecomeCares
  <2> QED BY <2>3 DEF Caring
<1>7. CASE Activate(r) /\ rec.panels = {}
  <2>1. ops = {}
    BY <1>1, <1>7 DEF Calm, Manned
  <2>2. rec.op = None
    BY <1>1, <2>1 DEF Calm, Backed
  <2>3. ~rec.exists => /\ LoadsStoredLink(r) /\ c.op = None
                       /\ ~c.connected /\ c.timer = "none"
    BY <1>4, NewRecordGood DEF c, RecordFor, NewRecord, Kin, LoadsStoredLink, Detached
  <2>4. CASE LoadsStoredLink(r)
    <3> DEFINE g == r.gen + 1
               n == [r EXCEPT !.gen = g]
    <3>1. Become(n, ops, Enqueue(queue, Entry("load", None, n, None)))
      BY <1>7, <2>4 DEF Activate
    <3>2. g \in Nat /\ g > 0
      BY <1>4 DEF Raw
    <3> HIDE DEF g
    <3>3. /\ n \in Raw /\ n.gen = g /\ n.exists = r.exists /\ n.op = r.op
          /\ n.link = r.link /\ n.timer = r.timer /\ n.connected = r.connected
          /\ n.panels = r.panels /\ n.tabs = r.tabs /\ n.client = r.client
      BY <1>4, <3>2 DEF Raw
    <3> HIDE DEF n
    <3>4. c.op = None /\ ~c.connected /\ c.timer = "none"
      <4>1. CASE rec.exists
        BY <1>1, <1>2, <1>4, <2>2, <2>4, <4>1, UnclientedRests
           DEF Calm, LoadsStoredLink, Kin
      <4> QED BY <2>3, <4>1
    <3>5. Sound(n)
      BY <1>4, <2>4, <3>3, <3>4, UnclientedSound DEF LoadsStoredLink
    <3>6. HasOwner(n) /\ n.exists /\ n.op = None /\ IsFiniteSet(n.panels)
      BY <1>4, <1>5, <3>3, <3>4 DEF HasOwner, Kin
    <3> QED BY <2>1, <3>1, <3>2, <3>3, <3>5, <3>6, LoadCares
  <2>5. CASE ~LoadsStoredLink(r)
    <3>1. rec.exists /\ c = rec
      BY <1>2, <2>3, <2>5
    <3>2. Become(Activated(r), ops, queue)
      BY <1>7, <2>5 DEF Activate
    <3>3. HasOwner(rec) \/ Idling(rec)
      BY <1>1 DEF Calm, Manned
    <3> QED BY <1>4, <1>5, <2>1, <2>2, <2>5, <3>1, <3>2, <3>3, ActivatedCares
  <2> QED BY <2>4, <2>5
<1> QED BY <1>3, <1>6, <1>7

LEMMA RegisterPanelCares ==
  ASSUME WInv, Caring, NEW pn \in Panel, RegisterPanel(pn)
  PROVE  Caring'
<1> DEFINE P == RecordFor.panels \cup {pn}
           T == RecordFor.tabs
           r == [RecordFor EXCEPT !.panels = @ \cup {pn}]
<1>1. P \in SUBSET Panel /\ T \in SUBSET Tab
  BY RecordForTyped DEF Raw
<1>2. r = [RecordFor EXCEPT !.panels = P, !.tabs = T] /\ r.panels = P
  BY RecordForTyped DEF Raw
<1>3. /\ Cardinality(r.panels) = 1 => Activate(r)
      /\ Cardinality(r.panels) # 1 => Become(r, ops, queue)
      /\ UNCHANGED <<open, stored, faults>> /\ open /\ pn \notin rec.panels
  BY DEF RegisterPanel
<1>4. Manned(open, rec, ops) /\ Backed(open, rec, ops, queue)
  BY DEF Caring, Cared, Calm
<1>5. IsFiniteSet(rec.panels)
  BY <1>3, <1>4 DEF Manned
<1>6. CASE rec.panels = {}
  <2>1. P = {pn}
    BY <1>6, RecordForTyped DEF RecordFor
  <2>2. Cardinality(P) = 1 /\ IsFiniteSet(P)
    BY <2>1, FS_Singleton
  <2>3. Activate(r) /\ rec.panels = {}
    BY <1>2, <1>3, <1>6, <2>2
  <2>4. P \cup T # {} /\ rec.panels \subseteq P
    BY <1>6, <2>1
  <2> HIDE DEF P, T, r
  <2> QED BY <1>1, <1>2, <1>3, <2>2, <2>3, <2>4, JoinCares
<1>7. CASE rec.panels # {}
  <2>1. HasOwner(rec) /\ P = rec.panels \cup {pn}
    BY <1>4, <1>7 DEF HasOwner, Backed, RecordFor
  <2>2. IsFiniteSet(P)
    BY <1>5, <2>1, FS_AddElement
  <2>3. Cardinality(P) # 1
    <3>1. Cardinality(P) = Cardinality(rec.panels) + 1
      BY <1>3, <1>5, <2>1, FS_AddElement
    <3>2. Cardinality(rec.panels) \in Nat /\ Cardinality(rec.panels) # 0
      BY <1>5, <1>7, FS_CardinalityType, FS_EmptySet
    <3> QED BY <3>1, <3>2
  <2>4. Become(r, ops, queue)
    BY <1>2, <1>3, <2>3
  <2>5. P \cup T # {} /\ rec.panels \subseteq P
    BY <2>1
  <2> HIDE DEF P, T, r
  <2> QED BY <1>1, <1>2, <1>3, <2>1, <2>2, <2>4, <2>5, JoinCares
<1> QED BY <1>6, <1>7

LEMMA AddParticipantCares ==
  ASSUME WInv, Caring, NEW t \in Tab, AddParticipant(t)
  PROVE  Caring'
<1> DEFINE P == RecordFor.panels
           T == RecordFor.tabs \cup {t}
           r == [RecordFor EXCEPT !.tabs = @ \cup {t}]
<1>1. P \in SUBSET Panel /\ T \in SUBSET Tab
  BY RecordForTyped DEF Raw
<1>2. r = [RecordFor EXCEPT !.panels = P, !.tabs = T] /\ r.panels = P
  BY RecordForTyped DEF Raw
<1>3. /\ r.panels = {} => Activate(r)
      /\ r.panels # {} => Become(r, ops, queue)
      /\ UNCHANGED <<open, stored, faults>> /\ open
  BY DEF AddParticipant
<1>4. Manned(open, rec, ops) /\ Backed(open, rec, ops, queue)
  BY DEF Caring, Cared, Calm
<1>5. P = rec.panels
  <2>1. rec.panels # {} => rec.exists
    BY <1>4 DEF Backed, HasOwner
  <2> QED BY <2>1, RecordForTyped DEF RecordFor
<1>6. \/ Activate(r) /\ rec.panels = {}
      \/ HasOwner(rec) /\ Become(r, ops, queue)
  BY <1>2, <1>3, <1>5 DEF HasOwner
<1>7. IsFiniteSet(P) /\ P \cup T # {} /\ rec.panels \subseteq P
  BY <1>3, <1>4, <1>5 DEF Manned
<1> HIDE DEF P, T, r
<1> QED BY <1>1, <1>2, <1>3, <1>6, <1>7, JoinCares

\* A panel or a tab leaves: the last one releases the connection.
LEMMA LeaveCares ==
  ASSUME WInv, Caring, HasOwner(rec),
         NEW P \in SUBSET Panel, NEW T \in SUBSET Tab,
         open => IsFiniteSet(P) /\ \A p \in ops : p.panel \in P,
         Become(ReleasedIfUnowned([rec EXCEPT !.panels = P, !.tabs = T]),
                ops, queue),
         UNCHANGED <<open, stored, faults>>
  PROVE  Caring'
<1> DEFINE r == [rec EXCEPT !.panels = P, !.tabs = T]
           x == ReleasedIfUnowned(r)
<1>1. /\ r \in Raw /\ Kin(rec, r) /\ r.panels = P /\ r.tabs = T
      /\ r.state = rec.state /\ r.timer = rec.timer
      /\ r.connected = rec.connected /\ r.mismatch = rec.mismatch
  BY Before DEF Raw, Kin
<1>2. Typed(ops, queue) /\ Calm(open, rec, ops, queue)
  BY Before DEF Caring, Cared
<1>3. Become(x, ops, queue)
  OBVIOUS
<1> HIDE DEF r
<1>4. /\ r.exists = rec.exists /\ r.gen = rec.gen /\ r.token = rec.token
      /\ r.op = rec.op /\ r.link = rec.link /\ r.pending = rec.pending
      /\ r.client = rec.client
  BY <1>1 DEF Kin
<1>5. Kept(r, ops, queue, stored) /\ r.gen = 0
  BY <1>1, <1>4, Before, KinFollows, FollowsKeeps
<1>6. CASE HasOwner(r)
  <2>1. x = r
    BY <1>6 DEF ReleasedIfUnowned
  <2>2. Cared(faults, open, r, ops, queue, stored)
    BY <1>1, <1>2, <1>6, StillCares
  <2>3. Cared(faults, open, rec', ops', queue', stored)
    BY <1>1, <1>2, <1>3, <2>1, <2>2, BecomeCares
  <2> QED BY <2>3 DEF Caring
<1>7. CASE ~HasOwner(r)
  <2> DEFINE d == DropClient(Invalidate(r))
             e == [d EXCEPT !.attempts = 0]
  <2>1. x = IF d.link # None THEN SetState(e, "offline")
                             ELSE StopAttempt(r, "notLinked")
    BY <1>7 DEF ReleasedIfUnowned, Released
  <2>2. /\ d \in Raw /\ d.panels = r.panels /\ d.tabs = r.tabs
        /\ d.exists = r.exists
        /\ d.op = r.op /\ d.link = r.link /\ d.pending = r.pending
        /\ d.gen = r.gen + 1 /\ d.client = NoClient /\ ~d.connected
        /\ d.timer = "none"
    BY <1>1, DropSets
  <2>3. 0 \in 0..MaxAttempts
    BY WindowAssumption
  <2> HIDE DEF d
  <2>4. /\ e \in Raw /\ e.panels = d.panels /\ e.tabs = d.tabs
        /\ e.exists = d.exists
        /\ e.op = d.op /\ e.link = d.link /\ e.pending = d.pending
        /\ e.gen = d.gen /\ e.client = NoClient /\ ~e.connected
        /\ e.timer = "none"
    BY <2>2, <2>3 DEF Raw
  <2> HIDE DEF e, x
  <2>5. /\ x \in Raw /\ x.panels = P /\ x.tabs = T /\ x.op = rec.op
        /\ x.gen = r.gen + 1 /\ x.client = NoClient /\ ~x.connected
        /\ x.timer = "none" /\ x.pending = NoPending
        /\ x.state \in {"offline", "notLinked"}
    <3>1. CASE r.link # None
      <4> DEFINE y == SetState(e, "offline")
      <4>1. /\ y \in Raw /\ Kin(e, y) /\ y.panels = e.panels /\ y.tabs = e.tabs
            /\ y.timer = e.timer /\ y.connected = e.connected
            /\ y.state = "offline"
        BY <2>4, SetStateSets DEF States
      <4>2. x = y
        BY <2>1, <2>2, <3>1
      <4>3. r.pending = NoPending
        BY <1>5, <3>1 DEF Kept
      <4> HIDE DEF y
      <4> QED BY <1>1, <1>4, <2>2, <2>4, <4>1, <4>2, <4>3 DEF Kin
    <3>2. CASE r.link = None
      <4>1. x = StopAttempt(r, "notLinked")
        BY <2>1, <2>2, <3>2
      <4> QED BY <1>1, <1>4, <4>1, StopAttemptSets DEF States
    <3> QED BY <3>1, <3>2
  <2>6. Sound(x)
    BY <2>5, UnclientedSound DEF Hopeful
  <2>7. ~HasOwner(x)
    BY <1>1, <1>7, <2>5 DEF HasOwner
  <2>8. \A k \in DOMAIN queue : ~CurrentLoad(x, queue[k]) /\ ~CurrentSave(x, queue[k])
    BY <1>1, <1>2, <1>5, <2>5, NewGeneration
  <2>9. ~Loading(x, queue)
    BY <2>8 DEF Loading
  <2>10. Backed(open, x, ops, queue)
    BY <1>2, <2>5, <2>7, <2>9 DEF Calm, Backed
  <2>11. Manned(open, x, ops)
    BY <1>2, <2>5 DEF Calm, Manned, Idling
  <2>12. Calm(open, x, ops, queue)
    BY <1>2, <2>6, <2>8, <2>10, <2>11 DEF Calm
  <2>13. Cared(faults, open, x, ops, queue, stored)
    BY <2>7, <2>12 DEF Cared, Accounted
  <2>14. Cared(faults, open, rec', ops', queue', stored)
    BY <1>2, <1>3, <2>5, <2>13, BecomeCares
  <2> QED BY <2>14 DEF Caring
<1> QED BY <1>6, <1>7

LEMMA RemoveParticipantCares ==
  ASSUME WInv, Caring, NEW t \in Tab, RemoveParticipant(t)
  PROVE  Caring'
<1> DEFINE r == [rec EXCEPT !.tabs = @ \ {t}]
           T == rec.tabs \ {t}
           P == rec.panels
           y == [rec EXCEPT !.panels = P, !.tabs = T]
<1>1. P \in SUBSET Panel /\ T \in SUBSET Tab
  BY Before DEF Raw
<1>2. r = y
  BY Before DEF Raw
<1>3. /\ Become(ReleasedIfUnowned(y), ops, queue)
      /\ UNCHANGED <<open, stored, faults>> /\ t \in rec.tabs
  BY <1>2 DEF RemoveParticipant
<1>4. HasOwner(rec)
  BY <1>3 DEF HasOwner
<1>5. open => IsFiniteSet(P) /\ \A p \in ops : p.panel \in P
  BY DEF Caring, Cared, Calm, Manned
<1> HIDE DEF P, T
<1> QED BY <1>1, <1>3, <1>4, <1>5, LeaveCares

LEMMA DisposePanelCares ==
  ASSUME WInv, Caring, "abort" \notin faults, NEW pn \in Panel, DisposePanel(pn)
  PROVE  Caring'
<1> DEFINE r == [rec EXCEPT !.panels = @ \ {pn}]
           P == rec.panels \ {pn}
           T == rec.tabs
           y == [rec EXCEPT !.panels = P, !.tabs = T]
<1>1. P \in SUBSET Panel /\ T \in SUBSET Tab
  BY Before DEF Raw
<1>2. r = y
  BY Before DEF Raw
<1>3. /\ Become(ReleasedIfUnowned(r), ops, queue)
      /\ \A p \in ops : p.panel # pn
      /\ UNCHANGED <<open, stored, faults>> /\ pn \in rec.panels
  BY DEF DisposePanel
<1>4. HasOwner(rec)
  BY <1>3 DEF HasOwner
<1>5. open => IsFiniteSet(P) /\ \A p \in ops : p.panel \in P
  <2>1. open => IsFiniteSet(rec.panels) /\ \A p \in ops : p.panel \in rec.panels
    BY DEF Caring, Cared, Calm, Manned
  <2> QED BY <1>3, <2>1, FS_RemoveElement
<1>6. Become(ReleasedIfUnowned(y), ops, queue)
  BY <1>2, <1>3
<1> HIDE DEF P, T
<1> QED BY <1>1, <1>3, <1>4, <1>5, <1>6, LeaveCares

-----------------------------------------------------------------------------
(* The window.                                                             *)

LEMMA WInvInit == Init => WInv
<1> SUFFICES ASSUME Init PROVE WInv
  OBVIOUS
<1>1. TypeOK
  BY NewRecordGood DEF Init, TypeOK
<1>2. Live(rec) /\ Typed(ops, queue)
  BY NewRecordGood DEF Init, Good, Typed
<1>3. Kept(rec, ops, queue, stored)
  BY NewRecordGood DEF Init, Kept, Detached
<1> QED BY <1>1, <1>2, <1>3 DEF WInv

LEMMA WInvNext == WInv /\ [Next]_vars => WInv'
<1> SUFFICES ASSUME WInv, [Next]_vars PROVE WInv'
  OBVIOUS
<1>1. CASE Window
  BY <1>1, RegisterPanelKeeps, DisposePanelKeeps, AddParticipantKeeps,
     RemoveParticipantKeeps DEF Window
<1>2. CASE Commands
  BY <1>2, UnlinkWindowKeeps, LinkWindowKeeps, RemoveWindowKeeps, AbortCallKeeps
     DEF Commands
<1>3. CASE Cleanup
  BY <1>3, CleanupDoneKeeps, MismatchDoneKeeps DEF Cleanup
<1>4. CASE Storage
  BY <1>4, StoreStartKeeps, StoreSucceedsKeeps, StoreFailsKeeps DEF Storage
<1>5. CASE Outcome
  BY <1>5, AuthenticatedKeeps, SocketClosedKeeps, AuthRejectedKeeps,
     SocketOpensKeeps, LinkAcceptedKeeps, LinkRejectedKeeps DEF Outcome
<1>6. CASE TimerFires
  BY <1>6, TimerFiresKeeps
<1>7. CASE Trouble
  BY <1>7, SocketErrorKeeps, ProtocolKeeps, PublishFailsKeeps,
     TransportFailsKeeps, RestartKeeps DEF Trouble
<1>8. CASE UNCHANGED vars
  BY <1>8 DEF vars, WInv, TypeOK, Live, Typed, Kept, OwnsRecord, IsCurrent,
              CurrentLoad, CurrentSave, Detached
<1> QED BY <1>1, <1>2, <1>3, <1>4, <1>5, <1>6, <1>7, <1>8 DEF Next

\* A window's record, the calls in progress and the queue stay typed, and
\* Kept holds of them, on every order of panels, commands, storage and sockets.
THEOREM WindowInvariance == Spec => []WInv
<1>1. Init => WInv
  BY WInvInit
<1>2. WInv /\ [Next]_vars => WInv'
  BY WInvNext
<1> QED BY <1>1, <1>2, PTL DEF Spec

\* Whatever was restored, replaced, rejected or removed meanwhile, the link the
\* record uses is the one that is stored for the window.
THEOREM LinkStaysStored == Spec => []LinkIsStored
<1>1. WInv => LinkIsStored
  BY DEF WInv, Kept, LinkIsStored
<1> QED BY <1>1, WindowInvariance, PTL

\* On every way a connection can end, its authority goes before or with it.
THEOREM AuthorityStaysLive == Spec => []AuthorityIsLive
<1>1. WInv => AuthorityIsLive
  BY DEF WInv, Live, AuthorityIsLive
<1> QED BY <1>1, WindowInvariance, PTL

LEMMA FaultsStay == [Next]_vars => faults' = faults
<1>1. \A pn : RegisterPanel(pn) \/ DisposePanel(pn) => faults' = faults
  BY DEF RegisterPanel, DisposePanel
<1>2. \A t : AddParticipant(t) \/ RemoveParticipant(t) => faults' = faults
  BY DEF AddParticipant, RemoveParticipant
<1>3. Commands => faults' = faults
  BY DEF Commands, UnlinkWindow, LinkWindow, RemoveWindow, AbortCall
<1>4. Cleanup => faults' = faults
  BY DEF Cleanup, CleanupDone, MismatchDone, Settle
<1>5. Storage => faults' = faults
  BY DEF Storage, StoreStart, StoreSucceeds, StoreFails
<1>6. Outcome \/ TimerFires \/ Trouble => faults' = faults
  BY DEF Outcome, Authenticated, SocketClosed, AuthRejected, SocketOpens,
         LinkAccepted, LinkRejected, TimerFires, Trouble, SocketError,
         BadMessage, Incompatible, PublishFails, TransportFails, Restart, Settle
<1> QED BY <1>1, <1>2, <1>3, <1>4, <1>5, <1>6 DEF Next, Window, vars

\* Where nothing is aborted, every window is cared for.
HInv == "abort" \notin faults => Caring

LEMMA HInvInit == Init => HInv
  BY AbsentCares DEF Init, HInv, Caring

LEMMA CaringNext ==
  ASSUME WInv, Caring, "abort" \notin faults, [Next]_vars
  PROVE  Caring'
<1>1. CASE Window
  BY <1>1, RegisterPanelCares, DisposePanelCares, AddParticipantCares,
     RemoveParticipantCares DEF Window
<1>2. CASE Commands
  BY <1>2, UnlinkWindowCares, LinkWindowCares, RemoveWindowCares
     DEF Commands, AbortCall
<1>3. CASE Cleanup
  BY <1>3, CleanupDoneCares, MismatchDoneCares DEF Cleanup
<1>4. CASE Storage
  BY <1>4, StoreStartCares, StoreSucceedsCares, StoreFailsCares DEF Storage
<1>5. CASE Outcome
  BY <1>5, AuthenticatedCares, SocketClosedCares, AuthRejectedCares,
     SocketOpensCares, LinkAcceptedCares, LinkRejectedCares DEF Outcome
<1>6. CASE TimerFires
  BY <1>6, TimerFiresCares
<1>7. CASE Trouble
  BY <1>7, SocketErrorCares, ProtocolCares, PublishFailsCares,
     TransportFailsCares, RestartCares DEF Trouble
<1>8. CASE UNCHANGED vars
  <2>1. /\ faults' = faults /\ open' = open /\ rec' = rec /\ ops' = ops
        /\ queue' = queue /\ stored' = stored
    BY <1>8 DEF vars
  <2> QED BY <2>1 DEF Caring, Cared, Calm, Sound, Tries, HasOwner, Named, Ordered,
             CurrentSave, CurrentLoad, Assured, Backed, Loading, Awaited,
             OwnsRecord, IsCurrent, Manned, Idling, Accounted, Erased, Erases, Lost
<1> QED BY <1>1, <1>2, <1>3, <1>4, <1>5, <1>6, <1>7, <1>8 DEF Next

THEOREM CareInvariance == Spec => []HInv
<1>1. Init => HInv
  BY HInvInit
<1>2. WInv /\ HInv /\ [Next]_vars => HInv'
  BY CaringNext, FaultsStay DEF HInv
<1> QED BY <1>1, <1>2, WindowInvariance, PTL DEF Spec

\* When no command is aborted, a window in use that has a link and promises a
\* connection has one, or an attempt or its timer is under way.
THEOREM PromisesAreKept == Spec => []KeepsTrying
<1>1. WInv /\ HInv => KeepsTrying
  <2> SUFFICES ASSUME Caring, ops = {}, HasOwner(rec), rec.link # None,
                      ~rec.mismatch,
                      rec.state \in {"linked", "linking", "reconnecting"}
               PROVE  rec.connected \/ rec.client.socket \/ rec.timer = "live"
    BY DEF HInv, KeepsTrying, Trying
  <2>1. rec.op = None
    BY DEF Caring, Cared, Calm, Backed
  <2>2. Tries(rec)
    BY DEF Caring, Cared, Calm, Sound, Hopeful
  <2> QED BY <2>1, <2>2 DEF Tries
<1> QED BY <1>1, WindowInvariance, CareInvariance, PTL

\* While storage works and no command is aborted, a window in use has the link
\* that is stored for it, once its calls and storage operations have ended.
THEOREM StoredStaysUsed == Spec => []StoredIsUsed
<1>1. WInv /\ HInv => StoredIsUsed
  <2> SUFFICES ASSUME WInv, HInv, faults \cap {"storage", "abort"} = {},
                      open, ops = {}, queue = <<>>, HasOwner(rec), stored # None
               PROVE  rec.link = stored
    BY DEF StoredIsUsed
  <2>1. Accounted(rec, ops, queue, stored)
    BY DEF HInv, Caring, Cared
  <2>2. DOMAIN queue = {}
    OBVIOUS
  <2>3. rec.link # None
    BY <2>1, <2>2 DEF Accounted, Loading, Erased
  <2> QED BY <2>3, Before DEF Kept
<1> QED BY <1>1, WindowInvariance, CareInvariance, PTL
=============================================================================
