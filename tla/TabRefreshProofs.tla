-------------------------- MODULE TabRefreshProofs ---------------------------
(***************************************************************************)
(* Auto Refresh whatever the numbers of tabs, windows, generations, jobs   *)
(* and tasks, and with every fault: the worker's memory, its two queues    *)
(* and the storage keep their types; what is pending belongs to the panel  *)
(* that is open; a tab that is switched off takes no part; no tab is asked *)
(* twice for a refresh in one epoch of its window.                         *)
(*                                                                         *)
(* The lemmas come in layers.  Those on queues say what an append, a tail  *)
(* and a replaced head do to a queue that is sound; those on operators say *)
(* what each operator does to a memory; those on steps (named after the    *)
(* action: ...Does) say what a step does, in terms that the invariants     *)
(* need, so that no proof after them opens an action again.  The           *)
(* invariants stand on each other: TInv, LifeOK, then SwitchOK and         *)
(* MarksOK.                                                                *)
(***************************************************************************)
EXTENDS TabRefresh, SequenceTheorems, WellFoundedInduction, TLAPS

\* The members of a queue.
Members(q) == {q[i] : i \in DOMAIN q}

Jobs == Members(store)

\* The jobs that the coordinator's running task waits for
TaskKinds == {"load", "epoch", "stage", "rollback"}

\* A stage changes the watermark of a stored state and nothing else.
Restage(before, after) ==
    /\ before \in DurableState /\ after \in DurableState
    /\ after.window = before.window /\ after.auto = before.auto

Found == [before : StoredState, after : StoredState]

\* What a job of each kind carries
JobKnows(j) ==
    /\ j.kind \in TwoSteps => j.tab \in Tab /\ j.window \in Window
    /\ j.kind \in {"close", "remove"} => j.tab \in Tab
    /\ j.kind \in {"open", "close", "remove"} => j.revision # 0
    /\ j.kind = "window" => j.window \in Window
    /\ j.kind = "epoch" => j.tab \in Tab
    /\ j.phase # "queued" => j.kind \in TwoSteps /\ j.found \in Found
    /\ j.kind = "rollback" => /\ j.tab \in Tab
                              /\ j.found \in Found
                              /\ Restage(j.found.before, j.found.after)
    /\ j.kind = "stage" /\ j.phase # "queued" /\ j.found.before # None =>
           Restage(j.found.before, j.found.after)

\* What a task knows at each point
TaskKnows(k) ==
    /\ k.kind = "accept" => k.mark \in Refresh
    /\ k.kind = "activate" \/ k.pc \in {"prepare", "dispatch"} => k.tab \in Tab
    /\ k.kind # "accept" \/ k.pc \notin {"stage", "rollback"} =>
           k.staged = {} /\ k.commits = <<>>
    /\ k.kind = "activate" => k.pc \in {"queued", "prepare", "dispatch"}
    /\ k.kind = "epoch" => k.pc \in {"queued", "load", "epoch"}
    /\ k.pc = "epoch" => k.kind = "epoch"
    /\ k.pc \in {"admit", "active", "stage", "rollback"} => k.kind = "accept"
    /\ \A c \in Members(k.commits) : Restage(c.before, c.after)

\* The store's queue: one job at a time belongs to the running task; a job that
\* is not the running one has not begun; a tab's stage is queued after the
\* opening of its panel, and its settings before its removal.
Ordered(s) ==
    /\ \A i, k \in DOMAIN s :
           /\ s[i].kind \in TaskKinds /\ s[k].kind \in TaskKinds => i = k
           /\ /\ s[i].kind = "stage" /\ s[k].kind = "open"
              /\ s[i].tab = s[k].tab /\ s[i].revision = s[k].revision
              => k < i
           /\ /\ s[i].kind = "remove" /\ s[k].kind = "settings"
              /\ s[i].tab = s[k].tab
              => k < i
    /\ \A i \in DOMAIN s : i # 1 => s[i].phase = "queued"

StoreOK(s) ==
    /\ s \in Seq(JobRecord)
    /\ \A j \in Members(s) : JobKnows(j)
    /\ Ordered(s)

TasksOK(q) ==
    /\ q \in Seq(TaskRecord) /\ Len(q) <= MaxTasks
    /\ \A k \in Members(q) : TaskKnows(k)
    /\ \A i \in DOMAIN q : i # 1 => q[i].pc = "queued"

\* The running task and the job it waits for
InStep ==
    /\ \A j \in Jobs : j.kind \in TaskKinds =>
           /\ tasks # <<>> /\ tasks[1].pc = j.kind
           /\ j.kind # "load" => j.window = tasks[1].window
    /\ Len(store) <= MaxJobs + 1
    /\ tasks = <<>> \/ tasks[1].pc \notin TaskKinds => Len(store) <= MaxJobs

QueuesOK == StoreOK(store) /\ TasksOK(tasks) /\ InStep

DataOK ==
    /\ disk \in [Tab -> StoredState]
    /\ mem \in Memory
    /\ asked \in [Tab -> Asking \cup {None}]

\* A tab that is being removed is known to be.
RemovalsKnown == \A j \in Jobs : j.kind = "remove" => j.tab \in mem.terminal

TInv == DataOK /\ QueuesOK /\ RemovalsKnown

\* Memories that differ in what is pending at most
Alike(m, n) ==
    /\ n.mark = m.mark /\ n.panel = m.panel /\ n.participant = m.participant
    /\ n.revision = m.revision
    /\ n.terminal = m.terminal /\ n.removing = m.removing

\* What is pending for a tab is kept, or begun, or the tab loses it.
Keeps(o, n) ==
    n # None => /\ o # None
                /\ n.window = o.window /\ n.revision = o.revision
                /\ n.mark = o.mark /\ n.late = o.late

KeepsPending == \A t \in Tab : Keeps(mem.pending[t], mem'.pending[t])

\* The running task ends or comes to its tab's refresh.
Dispatches ==
    \/ tasks' = Tail(tasks)
    \/ \E k \in TaskRecord :
           /\ tasks' = [tasks EXCEPT ![1] = k]
           /\ k.pc \in {"prepare", "dispatch"}
           /\ k.kind = tasks[1].kind /\ k.window = tasks[1].window
           /\ k.staged = {} /\ k.commits = <<>>

\* Jobs none of which belongs to a task
Idle(s) ==
    /\ StoreOK(s) /\ Len(s) <= MaxJobs
    /\ \A j \in Members(s) : j.kind \notin TaskKinds

-----------------------------------------------------------------------------
\* Queues.

LEMMA EmptyIs == Members(<<>>) = {}
BY DEF Members

\* A non-empty queue without its first element
LEMMA TailIs ==
  ASSUME NEW S, NEW q \in Seq(S), q # <<>>
  PROVE  /\ Tail(q) \in Seq(S) /\ Len(Tail(q)) = Len(q) - 1
         /\ \A i \in DOMAIN Tail(q) : i + 1 \in DOMAIN q /\ Tail(q)[i] = q[i + 1]
         /\ Members(Tail(q)) \subseteq Members(q)
         /\ 1 \in DOMAIN q /\ Head(q) = q[1] /\ Head(q) \in S
         /\ Head(q) \in Members(q)
<1>1. /\ Tail(q) \in Seq(S) /\ Len(Tail(q)) = Len(q) - 1
      /\ \A i \in 1..Len(Tail(q)) : Tail(q)[i] = q[i + 1]
  BY HeadTailProperties
<1> DEFINE t == Tail(q)
<1>2. DOMAIN q = 1..Len(q) /\ DOMAIN t = 1..Len(t) /\ Len(q) \in Nat /\ Len(t) \in Nat
  BY <1>1
<1> HIDE DEF t
<1>3. \A i \in DOMAIN t : i + 1 \in DOMAIN q /\ t[i] = q[i + 1]
  <2> SUFFICES ASSUME NEW i \in DOMAIN t PROVE i + 1 \in DOMAIN q /\ t[i] = q[i + 1]
    OBVIOUS
  <2>1. i \in 1..Len(t) /\ Len(t) = Len(q) - 1
    BY <1>1, <1>2 DEF t
  <2>2. t[i] = q[i + 1]
    BY <1>1, <2>1 DEF t
  <2> QED BY <1>2, <2>1, <2>2
<1>4. Members(t) \subseteq Members(q)
  BY <1>3 DEF Members
<1>5. 1 \in DOMAIN q /\ Head(q) = q[1] /\ Head(q) \in S
  <2>1. Len(q) # 0
    BY EmptySeq
  <2> QED BY <1>2, <2>1
<1> QED BY <1>1, <1>3, <1>4, <1>5 DEF t, Members

\* A queue with one more element
LEMMA AppendIs ==
  ASSUME NEW S, NEW q \in Seq(S), NEW x \in S
  PROVE  /\ Append(q, x) \in Seq(S) /\ Len(Append(q, x)) = Len(q) + 1
         /\ Append(q, x) # <<>>
         /\ \A i \in DOMAIN Append(q, x) :
                \/ i \in DOMAIN q /\ Append(q, x)[i] = q[i]
                \/ i = Len(q) + 1 /\ i \notin DOMAIN q /\ Append(q, x)[i] = x
         /\ \A i \in DOMAIN q : i \in DOMAIN Append(q, x)
                                /\ Append(q, x)[i] = q[i] /\ i <= Len(q)
         /\ Members(Append(q, x)) = Members(q) \cup {x}
<1> DEFINE a == Append(q, x)
<1>1. /\ a \in Seq(S) /\ Len(a) = Len(q) + 1 /\ a # <<>>
      /\ \A i \in 1..Len(q) : a[i] = q[i]
      /\ a[Len(q) + 1] = x
  BY AppendProperties
<1>2. DOMAIN q = 1..Len(q) /\ DOMAIN a = 1..Len(a) /\ Len(q) \in Nat /\ Len(a) \in Nat
  BY <1>1
<1> HIDE DEF a
<1>3. \A i \in DOMAIN a :
          \/ i \in DOMAIN q /\ a[i] = q[i]
          \/ i = Len(q) + 1 /\ i \notin DOMAIN q /\ a[i] = x
  BY <1>1, <1>2
<1>4. \A i \in DOMAIN q : i \in DOMAIN a /\ a[i] = q[i] /\ i <= Len(q)
  BY <1>1, <1>2
<1>5. Members(a) = Members(q) \cup {x}
  <2>1. Len(q) + 1 \in DOMAIN a /\ a[Len(q) + 1] = x
    BY <1>1, <1>2
  <2> QED BY <1>3, <1>4, <2>1 DEF Members
<1> QED BY <1>1, <1>3, <1>4, <1>5 DEF a

\* A queue whose first element changes
LEMMA PutIs ==
  ASSUME NEW S, NEW q \in Seq(S), q # <<>>, NEW x \in S
  PROVE  /\ [q EXCEPT ![1] = x] \in Seq(S)
         /\ Len([q EXCEPT ![1] = x]) = Len(q)
         /\ DOMAIN [q EXCEPT ![1] = x] = DOMAIN q
         /\ [q EXCEPT ![1] = x] # <<>>
         /\ [q EXCEPT ![1] = x][1] = x
         /\ \A i \in DOMAIN q : i # 1 => [q EXCEPT ![1] = x][i] = q[i]
         /\ Members([q EXCEPT ![1] = x]) \subseteq Members(q) \cup {x}
<1>1. 1 \in 1..Len(q) /\ DOMAIN q = 1..Len(q)
  BY TailIs
<1> DEFINE p == [q EXCEPT ![1] = x]
<1>2. /\ p \in Seq(S) /\ Len(p) = Len(q) /\ DOMAIN p = DOMAIN q
      /\ p[1] = x /\ \A i \in DOMAIN q : i # 1 => p[i] = q[i]
  BY <1>1, ExceptSeq
<1> HIDE DEF p
<1>3. p # <<>>
  BY <1>1, <1>2
<1>4. Members(p) \subseteq Members(q) \cup {x}
  BY <1>2 DEF Members
<1> QED BY <1>2, <1>3, <1>4 DEF p

\* The queue of the store stays in order when the running job ends, ...
LEMMA OrderedTail ==
  ASSUME NEW s \in Seq(JobRecord), s # <<>>, Ordered(s)
  PROVE  Ordered(Tail(s))
<1> DEFINE t == Tail(s)
<1>1. /\ t \in Seq(JobRecord)
      /\ \A i \in DOMAIN t : i + 1 \in DOMAIN s /\ t[i] = s[i + 1]
  BY TailIs
<1>2. \A i \in DOMAIN t : i \in Nat \ {0}
  BY <1>1
<1> HIDE DEF t
<1>3. \A i, k \in DOMAIN t :
          /\ t[i].kind \in TaskKinds /\ t[k].kind \in TaskKinds => i = k
          /\ /\ t[i].kind = "stage" /\ t[k].kind = "open"
             /\ t[i].tab = t[k].tab /\ t[i].revision = t[k].revision
             => k < i
          /\ /\ t[i].kind = "remove" /\ t[k].kind = "settings"
             /\ t[i].tab = t[k].tab
             => k < i
  <2> SUFFICES ASSUME NEW i \in DOMAIN t, NEW k \in DOMAIN t
               PROVE  /\ t[i].kind \in TaskKinds /\ t[k].kind \in TaskKinds => i = k
                      /\ /\ t[i].kind = "stage" /\ t[k].kind = "open"
                         /\ t[i].tab = t[k].tab /\ t[i].revision = t[k].revision
                         => k < i
                      /\ /\ t[i].kind = "remove" /\ t[k].kind = "settings"
                         /\ t[i].tab = t[k].tab
                         => k < i
    OBVIOUS
  <2>1. /\ i + 1 \in DOMAIN s /\ t[i] = s[i + 1] /\ k + 1 \in DOMAIN s /\ t[k] = s[k + 1]
        /\ i \in Nat /\ k \in Nat
    BY <1>1, <1>2
  <2>2. /\ t[i].kind \in TaskKinds /\ t[k].kind \in TaskKinds => i + 1 = k + 1
        /\ /\ t[i].kind = "stage" /\ t[k].kind = "open"
           /\ t[i].tab = t[k].tab /\ t[i].revision = t[k].revision
           => k + 1 < i + 1
        /\ /\ t[i].kind = "remove" /\ t[k].kind = "settings"
           /\ t[i].tab = t[k].tab
           => k + 1 < i + 1
    BY <2>1 DEF Ordered
  <2>3. (i + 1 = k + 1 => i = k) /\ (k + 1 < i + 1 => k < i)
    BY <2>1
  <2> QED BY <2>2, <2>3
<1>4. \A i \in DOMAIN t : i # 1 => t[i].phase = "queued"
  <2> SUFFICES ASSUME NEW i \in DOMAIN t PROVE t[i].phase = "queued"
    OBVIOUS
  <2>1. i + 1 \in DOMAIN s /\ t[i] = s[i + 1] /\ i + 1 # 1
    BY <1>1, <1>2
  <2> QED BY <2>1 DEF Ordered
<1> QED BY <1>3, <1>4 DEF Ordered, t

\* ... when a job joins it, ...
LEMMA OrderedAppend ==
  ASSUME NEW s \in Seq(JobRecord), NEW j \in JobRecord, Ordered(s),
         j.phase = "queued",
         j.kind \in TaskKinds => \A k \in Members(s) : k.kind \notin TaskKinds,
         j.kind = "open" => \A k \in Members(s) :
             k.kind = "stage" /\ k.tab = j.tab => k.revision # j.revision,
         j.kind = "settings" => \A k \in Members(s) :
             k.kind = "remove" => k.tab # j.tab
  PROVE  Ordered(Append(s, j))
<1> DEFINE a == Append(s, j)
<1>1. /\ \A i \in DOMAIN a :
              \/ i \in DOMAIN s /\ a[i] = s[i]
              \/ i = Len(s) + 1 /\ i \notin DOMAIN s /\ a[i] = j
      /\ \A i \in DOMAIN s : i <= Len(s)
  BY AppendIs
<1>2. \A i \in DOMAIN s : s[i] \in Members(s) /\ i \in Nat /\ Len(s) \in Nat
  BY DEF Members
<1> HIDE DEF a
<1>3. \A i, k \in DOMAIN a :
          /\ a[i].kind \in TaskKinds /\ a[k].kind \in TaskKinds => i = k
          /\ /\ a[i].kind = "stage" /\ a[k].kind = "open"
             /\ a[i].tab = a[k].tab /\ a[i].revision = a[k].revision
             => k < i
          /\ /\ a[i].kind = "remove" /\ a[k].kind = "settings"
             /\ a[i].tab = a[k].tab
             => k < i
  <2> SUFFICES ASSUME NEW i \in DOMAIN a, NEW k \in DOMAIN a
               PROVE  /\ a[i].kind \in TaskKinds /\ a[k].kind \in TaskKinds => i = k
                      /\ /\ a[i].kind = "stage" /\ a[k].kind = "open"
                         /\ a[i].tab = a[k].tab /\ a[i].revision = a[k].revision
                         => k < i
                      /\ /\ a[i].kind = "remove" /\ a[k].kind = "settings"
                         /\ a[i].tab = a[k].tab
                         => k < i
    OBVIOUS
  <2>1. CASE i \in DOMAIN s /\ k \in DOMAIN s /\ a[i] = s[i] /\ a[k] = s[k]
    BY <2>1 DEF Ordered
  <2>2. CASE i \in DOMAIN s /\ a[i] = s[i] /\ k = Len(s) + 1 /\ a[k] = j
    BY <1>2, <2>2 DEF TaskKinds
  <2>3. CASE k \in DOMAIN s /\ a[k] = s[k] /\ i = Len(s) + 1 /\ a[i] = j
    <3>1. k < i
      BY <1>1, <1>2, <2>3
    <3> QED BY <1>2, <2>3, <3>1
  <2>4. CASE i = Len(s) + 1 /\ k = Len(s) + 1 /\ a[k] = j
    BY <2>4 DEF TaskKinds
  <2> QED BY <1>1, <2>1, <2>2, <2>3, <2>4
<1>4. \A i \in DOMAIN a : i # 1 => a[i].phase = "queued"
  BY <1>1 DEF Ordered
<1> QED BY <1>3, <1>4 DEF Ordered, a

\* ... and when the running job goes on.
LEMMA OrderedPut ==
  ASSUME NEW s \in Seq(JobRecord), s # <<>>, NEW j \in JobRecord, Ordered(s),
         j.kind = s[1].kind, j.tab = s[1].tab, j.revision = s[1].revision
  PROVE  Ordered([s EXCEPT ![1] = j])
<1> DEFINE p == [s EXCEPT ![1] = j]
<1>1. /\ DOMAIN p = DOMAIN s /\ p[1] = j
      /\ \A i \in DOMAIN s : i # 1 => p[i] = s[i]
  BY PutIs
<1> HIDE DEF p
<1>2. \A i \in DOMAIN p :
          p[i].kind = s[i].kind /\ p[i].tab = s[i].tab /\ p[i].revision = s[i].revision
  BY <1>1
<1> QED BY <1>1, <1>2 DEF Ordered, p

-----------------------------------------------------------------------------
\* How the store and the tasks move on.

LEMMA QueuesAreTyped ==
  ASSUME QueuesOK
  PROVE  /\ store \in Seq(JobRecord) /\ Len(store) <= MaxJobs + 1
         /\ tasks \in Seq(TaskRecord) /\ Len(tasks) <= MaxTasks
BY DEF QueuesOK, StoreOK, TasksOK, InStep

\* The members of the queues are what they should be.
LEMMA JobIs ==
  ASSUME QueuesOK, NEW j \in Jobs
  PROVE  j \in JobRecord /\ JobKnows(j)
BY DEF QueuesOK, StoreOK, Jobs, Members

LEMMA HeadJobIs ==
  ASSUME QueuesOK, store # <<>>
  PROVE  /\ Head(store) \in Jobs /\ Head(store) = store[1]
         /\ Head(store) \in JobRecord /\ JobKnows(Head(store))
         /\ 1 \in DOMAIN store
<1>1. store \in Seq(JobRecord)
  BY QueuesAreTyped
<1>2. Head(store) \in Members(store) /\ Head(store) = store[1] /\ 1 \in DOMAIN store
  BY <1>1, TailIs
<1> QED BY <1>2, JobIs DEF Jobs

LEMMA HeadTaskIs ==
  ASSUME QueuesOK, tasks # <<>>
  PROVE  /\ Head(tasks) = tasks[1] /\ 1 \in DOMAIN tasks
         /\ Head(tasks) \in TaskRecord /\ TaskKnows(Head(tasks))
<1>1. tasks \in Seq(TaskRecord)
  BY QueuesAreTyped
<1>2. Head(tasks) \in Members(tasks) /\ Head(tasks) = tasks[1] /\ 1 \in DOMAIN tasks
      /\ Head(tasks) \in TaskRecord
  BY <1>1, TailIs
<1> QED BY <1>2 DEF QueuesOK, TasksOK

LEMMA StoreTail ==
  ASSUME NEW s, StoreOK(s), s # <<>>
  PROVE  StoreOK(Tail(s)) /\ Len(Tail(s)) = Len(s) - 1
<1>1. s \in Seq(JobRecord)
  BY DEF StoreOK
<1> QED BY <1>1, TailIs, OrderedTail DEF StoreOK

LEMMA StoreAppend ==
  ASSUME NEW s, StoreOK(s), NEW j \in JobRecord, JobKnows(j),
         j.phase = "queued",
         j.kind \in TaskKinds => \A k \in Members(s) : k.kind \notin TaskKinds,
         j.kind = "open" => \A k \in Members(s) :
             k.kind = "stage" /\ k.tab = j.tab => k.revision # j.revision,
         j.kind = "settings" => \A k \in Members(s) :
             k.kind = "remove" => k.tab # j.tab
  PROVE  /\ StoreOK(Append(s, j)) /\ Len(Append(s, j)) = Len(s) + 1
         /\ Members(Append(s, j)) = Members(s) \cup {j}
<1>1. s \in Seq(JobRecord)
  BY DEF StoreOK
<1>2. Ordered(Append(s, j))
  BY <1>1, OrderedAppend DEF StoreOK
<1>3. /\ Append(s, j) \in Seq(JobRecord) /\ Len(Append(s, j)) = Len(s) + 1
      /\ Members(Append(s, j)) = Members(s) \cup {j}
  BY <1>1, AppendIs
<1> QED BY <1>2, <1>3 DEF StoreOK

LEMMA TasksTail ==
  ASSUME NEW q, TasksOK(q), q # <<>>
  PROVE  TasksOK(Tail(q)) /\ (Tail(q) # <<>> => Tail(q)[1].pc = "queued")
<1> DEFINE t == Tail(q)
<1>1. /\ q \in Seq(TaskRecord)
      /\ t \in Seq(TaskRecord) /\ Len(t) = Len(q) - 1
      /\ \A i \in DOMAIN t : i + 1 \in DOMAIN q /\ t[i] = q[i + 1]
      /\ Members(t) \subseteq Members(q)
  BY TailIs DEF TasksOK
<1>2. Len(q) \in Nat /\ \A i \in DOMAIN t : i \in Nat \ {0}
  BY <1>1
<1>3. t # <<>> => 1 \in DOMAIN t
  BY <1>1, TailIs
<1> HIDE DEF t
<1>4. \A i \in DOMAIN t : t[i].pc = "queued"
  <2> SUFFICES ASSUME NEW i \in DOMAIN t PROVE t[i].pc = "queued"
    OBVIOUS
  <2>1. i + 1 \in DOMAIN q /\ i + 1 # 1 /\ t[i] = q[i + 1]
    BY <1>1, <1>2
  <2> QED BY <2>1 DEF TasksOK
<1>5. Len(t) <= MaxTasks
  BY <1>1, <1>2, TabRefreshAssumption DEF TasksOK
<1> QED BY <1>1, <1>3, <1>4, <1>5 DEF TasksOK, t

LEMMA TasksPut ==
  ASSUME NEW q, TasksOK(q), q # <<>>, NEW k \in TaskRecord, TaskKnows(k)
  PROVE  /\ TasksOK([q EXCEPT ![1] = k])
         /\ [q EXCEPT ![1] = k][1] = k /\ [q EXCEPT ![1] = k] # <<>>
<1> DEFINE p == [q EXCEPT ![1] = k]
<1>1. /\ q \in Seq(TaskRecord)
      /\ p \in Seq(TaskRecord) /\ Len(p) = Len(q) /\ DOMAIN p = DOMAIN q
      /\ p # <<>> /\ p[1] = k
      /\ \A i \in DOMAIN q : i # 1 => p[i] = q[i]
      /\ Members(p) \subseteq Members(q) \cup {k}
  BY PutIs DEF TasksOK
<1> HIDE DEF p
<1>2. TasksOK(p)
  BY <1>1 DEF TasksOK
<1> QED BY <1>1, <1>2 DEF p

LEMMA TasksAppend ==
  ASSUME NEW q, TasksOK(q), Len(q) < MaxTasks,
         NEW k \in TaskRecord, TaskKnows(k), k.pc = "queued"
  PROVE  /\ TasksOK(Append(q, k)) /\ Append(q, k) # <<>>
         /\ q # <<>> => Append(q, k)[1] = q[1]
         /\ q = <<>> => Append(q, k)[1].pc = "queued"
<1> DEFINE a == Append(q, k)
<1>1. /\ q \in Seq(TaskRecord)
      /\ a \in Seq(TaskRecord) /\ Len(a) = Len(q) + 1 /\ a # <<>>
      /\ \A i \in DOMAIN a :
             \/ i \in DOMAIN q /\ a[i] = q[i]
             \/ i = Len(q) + 1 /\ i \notin DOMAIN q /\ a[i] = k
      /\ \A i \in DOMAIN q : i \in DOMAIN a /\ a[i] = q[i]
      /\ Members(a) = Members(q) \cup {k}
  BY AppendIs DEF TasksOK
<1>2. 1 \in DOMAIN a /\ (q # <<>> => 1 \in DOMAIN q) /\ (q = <<>> => 1 \notin DOMAIN q)
  BY <1>1, TailIs, EmptySeq
<1>3. Len(q) \in Nat /\ MaxTasks \in Nat
  BY <1>1, TabRefreshAssumption
<1> HIDE DEF a
<1>4. Len(a) <= MaxTasks
  BY <1>1, <1>3
<1>5. TasksOK(a)
  BY <1>1, <1>4 DEF TasksOK
<1>6. q # <<>> => a[1] = q[1]
  BY <1>1, <1>2
<1>7. q = <<>> => a[1].pc = "queued"
  BY <1>1, <1>2
<1> QED BY <1>1, <1>5, <1>6, <1>7 DEF a

\* The jobs that are left when the task's own has ended, or before it has one
LEMMA IdleStore ==
  ASSUME QueuesOK, tasks = <<>> \/ tasks[1].pc \notin TaskKinds
  PROVE  Idle(store)
<1>1. Len(store) <= MaxJobs
  BY DEF QueuesOK, InStep
<1>2. \A j \in Members(store) : j.kind \notin TaskKinds
  BY DEF QueuesOK, InStep, Jobs
<1> QED BY <1>1, <1>2 DEF Idle, QueuesOK

LEMMA IdleRest ==
  ASSUME QueuesOK, store # <<>>, store[1].kind \in TaskKinds
  PROVE  Idle(Tail(store))
<1>1. StoreOK(Tail(store)) /\ Len(Tail(store)) = Len(store) - 1
  BY StoreTail DEF QueuesOK
<1>2. Len(store) <= MaxJobs + 1 /\ store \in Seq(JobRecord) /\ Len(store) \in Nat
  BY QueuesAreTyped
<1>3. Len(Tail(store)) <= MaxJobs
  BY <1>1, <1>2, TabRefreshAssumption
<1>4. \A j \in Members(Tail(store)) : j.kind \notin TaskKinds
  <2> DEFINE t == Tail(store)
  <2>1. \A i \in DOMAIN t : i + 1 \in DOMAIN store /\ t[i] = store[i + 1]
    BY <1>2, TailIs
  <2>2. 1 \in DOMAIN store /\ \A i \in DOMAIN t : i \in Nat \ {0}
    BY <1>1, <1>2, TailIs DEF StoreOK
  <2> HIDE DEF t
  <2>3. \A i \in DOMAIN t : t[i].kind \notin TaskKinds
    <3> SUFFICES ASSUME NEW i \in DOMAIN t, t[i].kind \in TaskKinds PROVE FALSE
      OBVIOUS
    <3>1. i + 1 \in DOMAIN store /\ store[i + 1].kind \in TaskKinds /\ i + 1 # 1
      BY <2>1, <2>2
    <3> QED BY <2>2, <3>1 DEF QueuesOK, StoreOK, Ordered
  <2> QED BY <2>3 DEF Members, t
<1> QED BY <1>1, <1>3, <1>4 DEF Idle

\* The running task ends, ...
LEMMA TaskPops ==
  ASSUME QueuesOK, NEW jobs, Idle(jobs), tasks # <<>>,
         store' = jobs, tasks' = Tail(tasks)
  PROVE  QueuesOK'
<1>1. TasksOK(Tail(tasks)) /\ (Tail(tasks) # <<>> => Tail(tasks)[1].pc = "queued")
  BY TasksTail DEF QueuesOK
<1>2. Len(jobs) <= MaxJobs + 1
  <2>1. Len(jobs) \in Nat /\ Len(jobs) <= MaxJobs
    BY DEF Idle, StoreOK
  <2> QED BY <2>1, TabRefreshAssumption
<1>3. InStep'
  BY <1>1, <1>2 DEF InStep, Idle, Jobs, TaskKinds
<1> QED BY <1>1, <1>3 DEF QueuesOK, Idle

\* ... goes on without a job of the store, ...
LEMMA TaskContinues ==
  ASSUME QueuesOK, NEW jobs, Idle(jobs), tasks # <<>>,
         NEW k \in TaskRecord, TaskKnows(k), k.pc \notin TaskKinds,
         store' = jobs, tasks' = [tasks EXCEPT ![1] = k]
  PROVE  QueuesOK'
<1>1. TasksOK(tasks') /\ tasks'[1] = k /\ tasks' # <<>>
  BY TasksPut DEF QueuesOK
<1>2. Len(jobs) <= MaxJobs + 1
  <2>1. Len(jobs) \in Nat /\ Len(jobs) <= MaxJobs
    BY DEF Idle, StoreOK
  <2> QED BY <2>1, TabRefreshAssumption
<1>3. InStep'
  BY <1>1, <1>2 DEF InStep, Idle, Jobs
<1> QED BY <1>1, <1>3 DEF QueuesOK, Idle

\* ... or gives the store its next job.
LEMMA TaskWaits ==
  ASSUME QueuesOK, NEW jobs, Idle(jobs), tasks # <<>>,
         NEW k \in TaskRecord, TaskKnows(k), k.pc \in TaskKinds,
         NEW j \in JobRecord, JobKnows(j), j.phase = "queued", j.kind = k.pc,
         j.kind # "load" => j.window = k.window,
         store' = Append(jobs, j), tasks' = [tasks EXCEPT ![1] = k]
  PROVE  QueuesOK'
<1>1. TasksOK(tasks') /\ tasks'[1] = k /\ tasks' # <<>>
  BY TasksPut DEF QueuesOK
<1>2. /\ StoreOK(store') /\ Len(store') = Len(jobs) + 1
      /\ Members(store') = Members(jobs) \cup {j}
  BY StoreAppend DEF Idle, TaskKinds
<1>3. Len(store') <= MaxJobs + 1
  <2>1. Len(jobs) \in Nat /\ Len(jobs) <= MaxJobs
    BY DEF Idle, StoreOK
  <2> QED BY <1>2, <2>1, TabRefreshAssumption
<1>4. InStep'
  BY <1>1, <1>2, <1>3 DEF InStep, Idle, Jobs
<1> QED BY <1>1, <1>2, <1>4 DEF QueuesOK

\* A call joins the store while the tasks are as they were, but for what no
\* queue depends on.
LEMMA CallJoins ==
  ASSUME QueuesOK, Len(store) < MaxJobs,
         NEW j \in JobRecord, JobKnows(j), j.phase = "queued",
         j.kind \notin TaskKinds,
         j.kind = "open" => \A k \in Jobs :
             k.kind = "stage" /\ k.tab = j.tab => k.revision # j.revision,
         j.kind = "settings" => \A k \in Jobs :
             k.kind = "remove" => k.tab # j.tab,
         store' = Append(store, j),
         TasksOK(tasks'),
         tasks = <<>> <=> tasks' = <<>>,
         tasks # <<>> => /\ tasks'[1].pc = tasks[1].pc
                         /\ tasks'[1].window = tasks[1].window
  PROVE  QueuesOK'
<1>1. /\ StoreOK(store') /\ Len(store') = Len(store) + 1
      /\ Members(store') = Members(store) \cup {j}
  BY StoreAppend DEF QueuesOK, Jobs
<1>2. Len(store') <= MaxJobs /\ Len(store') <= MaxJobs + 1
  <2>1. store \in Seq(JobRecord) /\ Len(store) \in Nat
    BY QueuesAreTyped
  <2> QED BY <1>1, <2>1, TabRefreshAssumption
<1>3. InStep'
  BY <1>1, <1>2 DEF QueuesOK, InStep, Jobs
<1> QED BY <1>1, <1>3 DEF QueuesOK

\* The running call ends.
LEMMA CallLeaves ==
  ASSUME QueuesOK, store # <<>>, store' = Tail(store), tasks' = tasks
  PROVE  QueuesOK'
<1>1. StoreOK(Tail(store)) /\ Len(Tail(store)) = Len(store) - 1
  BY StoreTail DEF QueuesOK
<1>2. /\ store \in Seq(JobRecord) /\ Len(store) \in Nat
      /\ Members(Tail(store)) \subseteq Members(store)
  BY QueuesAreTyped, TailIs
<1>3. /\ Len(store') <= MaxJobs + 1
      /\ tasks = <<>> \/ tasks[1].pc \notin TaskKinds => Len(store') <= MaxJobs
  BY <1>1, <1>2, TabRefreshAssumption DEF QueuesOK, InStep
<1>4. InStep'
  BY <1>2, <1>3 DEF QueuesOK, InStep, Jobs
<1> QED BY <1>1, <1>4 DEF QueuesOK

\* A task joins the coordinator's queue, and the others are as they were but
\* for what no queue depends on.
LEMMA TaskJoins ==
  ASSUME QueuesOK, NEW q, TasksOK(q), Len(q) < MaxTasks,
         q = <<>> <=> tasks = <<>>,
         tasks # <<>> => q[1].pc = tasks[1].pc /\ q[1].window = tasks[1].window,
         NEW k \in TaskRecord, TaskKnows(k), k.pc = "queued",
         store' = store, tasks' = Append(q, k)
  PROVE  QueuesOK'
<1>1. /\ TasksOK(tasks') /\ tasks' # <<>>
      /\ tasks # <<>> => tasks'[1] = q[1]
      /\ tasks = <<>> => tasks'[1].pc = "queued"
  BY TasksAppend
<1>2. InStep'
  BY <1>1 DEF QueuesOK, InStep, Jobs, TaskKinds
<1> QED BY <1>1, <1>2 DEF QueuesOK

-----------------------------------------------------------------------------
\* Numbers and watermarks.

\* A set of numbers has a least one, ...
LEMMA LeastExists ==
  ASSUME NEW S, S \subseteq Nat, S # {}
  PROVE  \E x \in S : \A y \in S : x <= y
<1>1. PICK x \in S : \A y \in S : <<y, x>> \notin OpToRel(<, Nat)
  BY NatLessThanWellFounded, WFMin
<1>2. \A y \in S : ~(y < x)
  BY <1>1 DEF OpToRel
<1>3. \A y \in S : x <= y
  BY <1>2
<1> QED BY <1>3

\* ... which is Min,
LEMMA MinIs ==
  ASSUME NEW S, S \subseteq Nat, S # {}
  PROVE  Min(S) \in S
<1>1. \E x \in S : \A y \in S : x <= y
  BY LeastExists
<1> QED BY <1>1 DEF Min

\* ... and a greatest one if it is bounded.
LEMMA GreatestExists ==
  ASSUME NEW S, S \subseteq Nat, S # {}, NEW b \in Nat, \A x \in S : x <= b
  PROVE  \E x \in S : \A y \in S : y <= x
<1> DEFINE T == {b - x : x \in S}
<1>1. T \subseteq Nat /\ T # {}
  <2>1. \A x \in S : b - x \in Nat
    OBVIOUS
  <2> QED BY <2>1
<1> HIDE DEF T
<1>2. PICK z \in T : \A y \in T : z <= y
  BY <1>1, LeastExists
<1>3. PICK x \in S : z = b - x
  BY <1>2 DEF T
<1>4. \A y \in S : b - x <= b - y
  BY <1>2, <1>3 DEF T
<1>5. \A y \in S : y <= x
  BY <1>4
<1> QED BY <1>5

\* The place of a watermark in the order of refreshes
Rank(m) == 2 * m.generation + IF m.mode = "reload" THEN 1 ELSE 0

LEMMA RankIs ==
  ASSUME NEW m \in Watermark
  PROVE  Rank(m) \in Nat /\ Rank(m) <= 2 * MaxGeneration + 1
<1>1. m.generation \in Nat /\ m.generation <= MaxGeneration
  BY TabRefreshAssumption DEF Watermark
<1> QED BY <1>1, TabRefreshAssumption DEF Rank

LEMMA NoneIsNoRecord ==
  /\ None \notin Watermark /\ None \notin DurableState /\ None \notin Operation
  /\ None \notin Asking /\ None \notin Tab /\ None \notin Window
BY NoneAssumption

\* One refresh is newer than another when its place is higher.
LEMMA NewerIs ==
  ASSUME NEW m \in Watermark, NEW n \in Watermark
  PROVE  IsNewerRefresh(m, n) <=> Rank(m) > Rank(n)
<1>1. /\ m.generation \in Nat /\ n.generation \in Nat
      /\ m.mode \in Mode /\ n.mode \in Mode
  BY TabRefreshAssumption DEF Watermark
<1>2. n # None
  BY NoneIsNoRecord
<1> DEFINE a == IF m.mode = "reload" THEN 1 ELSE 0
           b == IF n.mode = "reload" THEN 1 ELSE 0
           g == m.generation
           h == n.generation
<1>3. IsNewerRefresh(m, n) <=> g > h \/ (g = h /\ a = 1 /\ b = 0)
  BY <1>1, <1>2 DEF IsNewerRefresh, Mode
<1>4. a \in {0, 1} /\ b \in {0, 1} /\ g \in Nat /\ h \in Nat
  BY <1>1
<1>5. Rank(m) = 2 * g + a /\ Rank(n) = 2 * h + b
  BY DEF Rank
<1> HIDE DEF a, b, g, h
<1>6. g > h \/ (g = h /\ a = 1 /\ b = 0) <=> 2 * g + a > 2 * h + b
  BY <1>4
<1> QED BY <1>3, <1>5, <1>6

LEMMA EpochIsWatermark == Epoch0 \in Watermark /\ Rank(Epoch0) = 0
<1>1. 0 \in 0..MaxGeneration
  BY TabRefreshAssumption
<1> QED BY <1>1 DEF Epoch0, Watermark, Mode, Rank

\* What is stored for a tab is not older than what was.
LEMMA DurableMarkIs ==
  ASSUME NEW s \in Watermark \cup {None}, NEW r \in Watermark \cup {None}
  PROVE  /\ DurableMark(s, r) \in Watermark
         /\ s # None => Rank(s) <= Rank(DurableMark(s, r))
<1>1. DurableMark(s, r) \in Watermark
  BY EpochIsWatermark DEF DurableMark
<1>2. ASSUME s # None PROVE Rank(s) <= Rank(DurableMark(s, r))
  <2>1. CASE r # None /\ IsNewerRefresh(r, s)
    <3>1. DurableMark(s, r) = r /\ s \in Watermark /\ r \in Watermark
      BY <1>2, <2>1 DEF DurableMark
    <3>2. Rank(r) > Rank(s) /\ Rank(r) \in Nat /\ Rank(s) \in Nat
      BY <2>1, <3>1, NewerIs, RankIs
    <3> QED BY <3>1, <3>2
  <2>2. CASE ~(r # None /\ IsNewerRefresh(r, s))
    <3>1. DurableMark(s, r) = s /\ s \in Watermark
      BY <1>2, <2>2 DEF DurableMark
    <3>2. Rank(s) \in Nat
      BY <3>1, RankIs
    <3> QED BY <3>1, <3>2
  <2> QED BY <2>1, <2>2
<1> QED BY <1>1, <1>2

\* currentWatermark is one of those it is taken from, and none is newer.
LEMMA NewestIs ==
  ASSUME NEW S, S \subseteq Watermark, NEW c \in Watermark \cup {None}
  PROVE  /\ Newest(S, c) \in Watermark \cup {None}
         /\ \A m \in S : Newest(S, c) # None /\ Rank(m) <= Rank(Newest(S, c))
         /\ c # None => Newest(S, c) # None /\ Rank(c) <= Rank(Newest(S, c))
<1>1. CASE \E m \in S : IsNewerRefresh(m, c)
  <2> DEFINE R == {Rank(m) : m \in S}
             b == 2 * MaxGeneration + 1
  <2>1. R \subseteq Nat /\ R # {} /\ b \in Nat /\ \A x \in R : x <= b
    BY <1>1, RankIs, TabRefreshAssumption
  <2> HIDE DEF R, b
  <2>2. PICK x \in R : \A y \in R : y <= x
    BY <2>1, GreatestExists
  <2>3. PICK m \in S : x = Rank(m)
    BY <2>2 DEF R
  <2>4. \A n \in S : ~IsNewerRefresh(n, m)
    <3> SUFFICES ASSUME NEW n \in S PROVE ~IsNewerRefresh(n, m)
      OBVIOUS
    <3>1. Rank(n) <= Rank(m) /\ n \in Watermark /\ m \in Watermark
      BY <2>2, <2>3 DEF R
    <3>2. Rank(n) \in Nat /\ Rank(m) \in Nat
      BY <3>1, RankIs
    <3> QED BY <3>1, <3>2, NewerIs
  <2> DEFINE k == Newest(S, c)
  <2>5. k \in S /\ \A n \in S : ~IsNewerRefresh(n, k)
    BY <1>1, <2>4 DEF Newest
  <2> HIDE DEF k
  <2>6. \A n \in S : Rank(n) <= Rank(k)
    <3> SUFFICES ASSUME NEW n \in S PROVE Rank(n) <= Rank(k)
      OBVIOUS
    <3>1. n \in Watermark /\ k \in Watermark /\ Rank(n) \in Nat /\ Rank(k) \in Nat
      BY <2>5, RankIs
    <3> QED BY <2>5, <3>1, NewerIs
  <2>7. ASSUME c # None PROVE Rank(c) <= Rank(k)
    <3>1. PICK n \in S : IsNewerRefresh(n, c)
      BY <1>1
    <3>2. n \in Watermark /\ c \in Watermark /\ k \in Watermark
      BY <2>5, <2>7
    <3>3. Rank(n) > Rank(c)
      BY <3>1, <3>2, NewerIs
    <3>4. Rank(n) \in Nat /\ Rank(c) \in Nat /\ Rank(k) \in Nat /\ Rank(n) <= Rank(k)
      BY <2>6, <3>2, RankIs
    <3> QED BY <3>3, <3>4
  <2> QED BY <2>5, <2>6, <2>7, NoneIsNoRecord DEF k
<1>2. CASE \A m \in S : ~IsNewerRefresh(m, c)
  <2>1. Newest(S, c) = c
    BY <1>2 DEF Newest
  <2>2. \A m \in S : c # None /\ Rank(m) <= Rank(c)
    <3> SUFFICES ASSUME NEW m \in S PROVE c # None /\ Rank(m) <= Rank(c)
      OBVIOUS
    <3>1. c # None
      BY <1>2 DEF IsNewerRefresh
    <3>2. c \in Watermark /\ m \in Watermark /\ Rank(m) \in Nat /\ Rank(c) \in Nat
      BY <3>1, RankIs
    <3> QED BY <1>2, <3>1, <3>2, NewerIs
  <2>3. c # None => Rank(c) \in Nat
    BY RankIs
  <2> QED BY <2>1, <2>2, <2>3
<1> QED BY <1>1, <1>2

-----------------------------------------------------------------------------
\* Lifecycle revisions.

\* A new revision is none that anything refers to.
LEMMA NewRevisionIs ==
  ASSUME NEW t \in Tab, CanAdvance(t)
  PROVE  NewRevision(t) \in Fresh(t)
BY DEF CanAdvance, NewRevision

LEMMA FreshIs ==
  ASSUME NEW t \in Tab, NEW r \in Fresh(t)
  PROVE  /\ r \in 1..MaxRevision /\ r # 0 /\ r # mem.revision[t]
         /\ \A j \in Jobs : j.tab = t => j.revision # r
         /\ \A j \in Jobs : \A f \in j.fenced : f.tab = t => f.revision # r
         /\ \A i \in DOMAIN tasks : \A s \in tasks[i].staged :
                s.tab = t => s.revision # r
<1>1. r \in 1..MaxRevision /\ r \notin InUse(t)
  BY DEF Fresh
<1>2. r # 0
  BY <1>1, TabRefreshAssumption
<1>3. r # mem.revision[t]
  BY <1>1 DEF InUse
<1>4. \A i \in DOMAIN store : store[i].tab = t => store[i].revision # r
  BY <1>1 DEF InUse
<1>5. \A i \in DOMAIN store : \A f \in store[i].fenced : f.tab = t => f.revision # r
  BY <1>1 DEF InUse
<1>6. \A i \in DOMAIN tasks : \A s \in tasks[i].staged : s.tab = t => s.revision # r
  BY <1>1 DEF InUse
<1> QED BY <1>1, <1>2, <1>3, <1>4, <1>5, <1>6 DEF Jobs, Members

-----------------------------------------------------------------------------
\* The worker's memory.

LEMMA MemoryIs ==
  ASSUME NEW m \in Memory
  PROVE  /\ m.mark \in [Window -> Watermark \cup {None}]
         /\ m.panel \in [Tab -> Window \cup {None}]
         /\ m.participant \in [Tab -> Window \cup {None}]
         /\ m.revision \in [Tab -> 0..MaxRevision]
         /\ m.pending \in [Tab -> Operation \cup {None}]
         /\ m.terminal \subseteq Tab /\ m.removing \subseteq Window
BY DEF Memory

LEMMA CancelIs ==
  ASSUME NEW m \in Memory, NEW t \in Tab
  PROVE  /\ Cancel(m, t) \in Memory
         /\ Cancel(m, t).mark = m.mark /\ Cancel(m, t).panel = m.panel
         /\ Cancel(m, t).participant = m.participant
         /\ Cancel(m, t).revision = m.revision
         /\ Cancel(m, t).terminal = m.terminal
         /\ Cancel(m, t).removing = m.removing
         /\ \A u \in Tab : Cancel(m, t).pending[u] =
                               IF u = t THEN None ELSE m.pending[u]
BY DEF Cancel, Memory

LEMMA CancelInIs ==
  ASSUME NEW m \in Memory, NEW w \in Window
  PROVE  /\ CancelIn(m, w) \in Memory
         /\ CancelIn(m, w).mark = m.mark /\ CancelIn(m, w).panel = m.panel
         /\ CancelIn(m, w).participant = m.participant
         /\ CancelIn(m, w).revision = m.revision
         /\ CancelIn(m, w).terminal = m.terminal
         /\ CancelIn(m, w).removing = m.removing
         /\ \A u \in Tab : CancelIn(m, w).pending[u] =
                IF m.pending[u] # None /\ m.pending[u].window = w
                THEN None ELSE m.pending[u]
<1> DEFINE f == [t \in Tab |-> IF m.pending[t] # None /\ m.pending[t].window = w
                               THEN None ELSE m.pending[t]]
<1>1. CancelIn(m, w) = [m EXCEPT !.pending = f]
  BY DEF CancelIn
<1>2. f \in [Tab -> Operation \cup {None}]
  BY MemoryIs
<1>3. \A u \in Tab : f[u] = IF m.pending[u] # None /\ m.pending[u].window = w
                            THEN None ELSE m.pending[u]
  OBVIOUS
<1> HIDE DEF f
<1> QED BY <1>1, <1>2, <1>3 DEF Memory

\* Panels go: each of their tabs begins a new lifecycle.
LEMMA LeaveIs ==
  ASSUME NEW m \in Memory, NEW gone \in SUBSET Tab, \A t \in gone : CanAdvance(t)
  PROVE  /\ Leave(m, gone) \in Memory
         /\ Leave(m, gone).mark = m.mark
         /\ Leave(m, gone).terminal = m.terminal
         /\ Leave(m, gone).removing = m.removing
         /\ \A t \in gone : /\ Leave(m, gone).revision[t] = NewRevision(t)
                            /\ Leave(m, gone).pending[t] = None
                            /\ Leave(m, gone).panel[t] = None
                            /\ Leave(m, gone).participant[t] = None
         /\ \A t \in Tab \ gone :
                /\ Leave(m, gone).revision[t] = m.revision[t]
                /\ Leave(m, gone).pending[t] = m.pending[t]
                /\ Leave(m, gone).panel[t] = m.panel[t]
                /\ Leave(m, gone).participant[t] = m.participant[t]
<1> DEFINE r == [t \in Tab |-> IF t \in gone THEN NewRevision(t) ELSE m.revision[t]]
           p == [t \in Tab |-> IF t \in gone THEN None ELSE m.pending[t]]
           l == [t \in Tab |-> IF t \in gone THEN None ELSE m.panel[t]]
           n == [t \in Tab |-> IF t \in gone THEN None ELSE m.participant[t]]
<1>1. Leave(m, gone) = [m EXCEPT !.revision = r, !.pending = p, !.panel = l,
                                 !.participant = n]
  BY DEF Leave
<1>2. r \in [Tab -> 0..MaxRevision]
  <2>1. \A t \in gone : NewRevision(t) \in 0..MaxRevision
    <3> SUFFICES ASSUME NEW t \in gone PROVE NewRevision(t) \in 0..MaxRevision
      OBVIOUS
    <3>1. NewRevision(t) \in 1..MaxRevision
      BY NewRevisionIs, FreshIs
    <3> QED BY <3>1
  <2> QED BY <2>1, MemoryIs
<1>3. /\ p \in [Tab -> Operation \cup {None}] /\ l \in [Tab -> Window \cup {None}]
      /\ n \in [Tab -> Window \cup {None}]
  BY MemoryIs
<1>4. /\ \A t \in gone : r[t] = NewRevision(t) /\ p[t] = None /\ l[t] = None
                         /\ n[t] = None
      /\ \A t \in Tab \ gone : /\ r[t] = m.revision[t] /\ p[t] = m.pending[t]
                               /\ l[t] = m.panel[t] /\ n[t] = m.participant[t]
  OBVIOUS
<1> HIDE DEF r, p, l, n
<1> QED BY <1>1, <1>2, <1>3, <1>4 DEF Memory

LEMMA RetireIs ==
  ASSUME NEW m \in Memory, NEW t \in Tab, NEW r
  PROVE  /\ Retire(m, t, r) \in Memory
         /\ Retire(m, t, r).mark = m.mark /\ Retire(m, t, r).panel = m.panel
         /\ Retire(m, t, r).participant = m.participant
         /\ Retire(m, t, r).pending = m.pending
         /\ Retire(m, t, r).terminal = m.terminal
         /\ Retire(m, t, r).removing = m.removing
         /\ \A u \in Tab : Retire(m, t, r).revision[u] =
                IF u = t /\ m.revision[t] = r THEN 0 ELSE m.revision[u]
<1>1. 0 \in 0..MaxRevision
  BY TabRefreshAssumption
<1> QED BY <1>1 DEF Retire, Memory

LEMMA OustedIs ==
  ASSUME NEW m \in Memory, NEW t \in Tab, NEW w
  PROVE  /\ Ousted(m, t, w) \in Memory
         /\ Ousted(m, t, w).mark = m.mark /\ Ousted(m, t, w).panel = m.panel
         /\ Ousted(m, t, w).revision = m.revision
         /\ Ousted(m, t, w).pending = m.pending
         /\ Ousted(m, t, w).terminal = m.terminal
         /\ Ousted(m, t, w).removing = m.removing
         /\ \A u \in Tab : Ousted(m, t, w).participant[u] =
                IF u = t /\ m.participant[t] = w THEN None ELSE m.participant[u]
<1> DEFINE p == IF m.participant[t] = w THEN None ELSE m.participant[t]
<1>1. Ousted(m, t, w) = [m EXCEPT !.participant = [@ EXCEPT ![t] = p]]
  BY DEF Ousted, Memory
<1>2. p \in Window \cup {None}
  BY MemoryIs
<1> HIDE DEF p
<1>3. /\ Ousted(m, t, w) \in Memory
      /\ Ousted(m, t, w).mark = m.mark /\ Ousted(m, t, w).panel = m.panel
      /\ Ousted(m, t, w).revision = m.revision
      /\ Ousted(m, t, w).pending = m.pending
      /\ Ousted(m, t, w).terminal = m.terminal
      /\ Ousted(m, t, w).removing = m.removing
      /\ \A u \in Tab : Ousted(m, t, w).participant[u] =
                IF u = t THEN p ELSE m.participant[u]
  BY <1>1, <1>2 DEF Memory
<1> QED BY <1>3 DEF p

LEMMA DisabledIs ==
  ASSUME NEW m \in Memory, NEW t \in Tab, NEW w
  PROVE  /\ Disabled(m, t, w) \in Memory
         /\ Disabled(m, t, w).mark = m.mark /\ Disabled(m, t, w).panel = m.panel
         /\ Disabled(m, t, w).revision = m.revision
         /\ Disabled(m, t, w).terminal = m.terminal
         /\ Disabled(m, t, w).removing = m.removing
         /\ \A u \in Tab :
                /\ Disabled(m, t, w).pending[u] =
                       IF u = t THEN None ELSE m.pending[u]
                /\ Disabled(m, t, w).participant[u] =
                       IF u = t /\ m.participant[t] = w THEN None
                       ELSE m.participant[u]
<1> DEFINE c == Cancel(m, t)
<1>1. /\ c \in Memory
      /\ c.mark = m.mark /\ c.panel = m.panel /\ c.participant = m.participant
      /\ c.revision = m.revision /\ c.terminal = m.terminal
      /\ c.removing = m.removing
      /\ \A u \in Tab : c.pending[u] = IF u = t THEN None ELSE m.pending[u]
  BY CancelIs
<1>2. Disabled(m, t, w) = IF c.participant[t] = w
                          THEN [c EXCEPT !.participant[t] = None] ELSE c
  BY DEF Disabled
<1> HIDE DEF c
<1> QED BY <1>1, <1>2 DEF Memory

\* What is staged becomes the refresh of its tab, or the tab loses what it had.
LEMMA StagedOperationIs ==
  ASSUME NEW m \in Memory, NEW k \in TaskRecord, k.mark \in Refresh,
         NEW s \in k.staged
  PROVE  /\ s.tab \in Tab
         /\ StagedOperation(m, k, s) \in Operation \cup {None}
         /\ StagedOperation(m, k, s) # None =>
                /\ s.auto
                /\ IsCurrentPanel(m, s.tab, k.window, s.revision)
                /\ m.participant[s.tab] = k.window
                /\ StagedOperation(m, k, s).window = k.window
                /\ StagedOperation(m, k, s).revision = s.revision
                /\ StagedOperation(m, k, s).mark = k.mark
                /\ StagedOperation(m, k, s).phase = "pending"
                /\ StagedOperation(m, k, s).late = k.late
<1>1. s.tab \in Tab /\ s.revision \in 0..MaxRevision
  BY DEF TaskRecord
<1>2. k.window \in Window /\ k.late \in BOOLEAN
  BY DEF TaskRecord
<1> DEFINE o == [window |-> k.window, revision |-> s.revision, mark |-> k.mark,
                 phase |-> "pending", late |-> k.late]
<1>3. o \in Operation
  BY <1>1, <1>2 DEF Operation
<1>4. StagedOperation(m, k, s) = IF /\ s.auto
                                    /\ IsCurrentPanel(m, s.tab, k.window, s.revision)
                                    /\ m.participant[s.tab] = k.window
                                 THEN o ELSE None
  BY DEF StagedOperation
<1>5. /\ o.window = k.window /\ o.revision = s.revision /\ o.mark = k.mark
      /\ o.phase = "pending" /\ o.late = k.late
  OBVIOUS
<1> HIDE DEF o
<1> QED BY <1>1, <1>3, <1>4, <1>5

LEMMA StagedOperationsAre ==
  ASSUME NEW m \in Memory, NEW k \in TaskRecord, k.mark \in Refresh
  PROVE  /\ StagedOperations(m, k) \in Memory
         /\ StagedOperations(m, k).mark = m.mark
         /\ StagedOperations(m, k).panel = m.panel
         /\ StagedOperations(m, k).participant = m.participant
         /\ StagedOperations(m, k).revision = m.revision
         /\ StagedOperations(m, k).terminal = m.terminal
         /\ StagedOperations(m, k).removing = m.removing
         /\ \A t \in Tab :
                \/ StagedOperations(m, k).pending[t] = m.pending[t]
                \/ \E s \in k.staged :
                       /\ s.tab = t
                       /\ StagedOperations(m, k).pending[t] =
                              StagedOperation(m, k, s)
<1> DEFINE p == [t \in Tab |->
                    IF \E s \in k.staged : s.tab = t
                    THEN StagedOperation(m, k, CHOOSE s \in k.staged : s.tab = t)
                    ELSE m.pending[t]]
<1>1. StagedOperations(m, k) = [m EXCEPT !.pending = p]
  BY DEF StagedOperations
<1>2. \A t \in Tab : \/ p[t] = m.pending[t]
                     \/ \E s \in k.staged : /\ s.tab = t
                                            /\ p[t] = StagedOperation(m, k, s)
  OBVIOUS
<1>3. p \in [Tab -> Operation \cup {None}]
  <2>1. \A t \in Tab : p[t] \in Operation \cup {None}
    BY <1>2, StagedOperationIs, MemoryIs
  <2> QED BY <2>1
<1> HIDE DEF p
<1> QED BY <1>1, <1>2, <1>3 DEF Memory

LEMMA ForgottenIs == Forgotten \in Memory
BY TabRefreshAssumption DEF Forgotten, Memory

-----------------------------------------------------------------------------
\* A new task knows what it should.
LEMMA QueuedTaskKnows ==
  ASSUME NEW k, k.pc = "queued", k.staged = {}, k.commits = <<>>,
         k.kind = "accept" => k.mark \in Refresh,
         k.kind = "activate" => k.tab \in Tab
  PROVE  TaskKnows(k)
BY EmptyIs DEF TaskKnows

LEMMA NoCommits == <<>> \in Seq([tab : Tab, before : StoredState, after : StoredState])
OBVIOUS

-----------------------------------------------------------------------------
\* Calls.

LEMMA TypesOf ==
  ASSUME TInv
  PROVE  /\ disk \in [Tab -> StoredState] /\ mem \in Memory
         /\ asked \in [Tab -> Asking \cup {None}]
         /\ store \in Seq(JobRecord) /\ tasks \in Seq(TaskRecord)
         /\ QueuesOK
BY QueuesAreTyped DEF TInv, DataOK

LEMMA TypeInvariant == TInv => TypeOK
BY QueuesAreTyped DEF TInv, DataOK, TypeOK

\* The worker's memory once a panel has opened
Opened(t, w) ==
    Advance([Cancel(mem, t) EXCEPT
                !.panel[t] = w,
                !.participant[t] = IF mem.panel[t] # w THEN None ELSE @], t)

LEMMA OpenedIs ==
  ASSUME mem \in Memory, NEW t \in Tab, NEW w \in Window, CanAdvance(t)
  PROVE  /\ Opened(t, w) \in Memory
         /\ Opened(t, w).mark = mem.mark
         /\ Opened(t, w).terminal = mem.terminal
         /\ Opened(t, w).removing = mem.removing
         /\ Opened(t, w).revision[t] = NewRevision(t)
         /\ Opened(t, w).panel[t] = w /\ Opened(t, w).pending[t] = None
         /\ Opened(t, w).participant[t] =
                IF mem.panel[t] # w THEN None ELSE mem.participant[t]
         /\ \A u \in Tab \ {t} :
                /\ Opened(t, w).revision[u] = mem.revision[u]
                /\ Opened(t, w).panel[u] = mem.panel[u]
                /\ Opened(t, w).pending[u] = mem.pending[u]
                /\ Opened(t, w).participant[u] = mem.participant[u]
<1> DEFINE c == Cancel(mem, t)
           p == IF mem.panel[t] # w THEN None ELSE mem.participant[t]
           r == NewRevision(t)
<1>1. /\ c \in Memory
      /\ c.mark = mem.mark /\ c.panel = mem.panel
      /\ c.participant = mem.participant /\ c.revision = mem.revision
      /\ c.terminal = mem.terminal /\ c.removing = mem.removing
      /\ \A u \in Tab : c.pending[u] = IF u = t THEN None ELSE mem.pending[u]
  BY CancelIs
<1>2. p \in Window \cup {None}
  BY MemoryIs
<1>3. r \in 0..MaxRevision
  <2>1. r \in 1..MaxRevision
    BY NewRevisionIs, FreshIs
  <2> QED BY <2>1
<1> DEFINE o == Opened(t, w)
<1>4. o = [c EXCEPT !.panel[t] = w, !.participant[t] = p, !.revision[t] = r]
  <2>1. t \in DOMAIN c.participant /\ c.participant[t] = mem.participant[t]
    BY <1>1, MemoryIs
  <2> QED BY <1>1, <2>1 DEF Opened, Advance, Memory
<1> HIDE DEF c, p, r, o
<1>5. /\ o \in Memory
      /\ o.mark = c.mark /\ o.terminal = c.terminal /\ o.removing = c.removing
      /\ o.revision[t] = r /\ o.panel[t] = w /\ o.participant[t] = p
      /\ o.pending = c.pending
      /\ \A u \in Tab \ {t} :
             /\ o.revision[u] = c.revision[u] /\ o.panel[u] = c.panel[u]
             /\ o.participant[u] = c.participant[u]
  BY <1>1, <1>2, <1>3, <1>4 DEF Memory
<1> QED BY <1>1, <1>5 DEF p, r, o

\* What a call that joins the store does
\* What a call does to a tab: its panel goes, or nothing changes for it.
Gone(t) ==
    /\ mem'.revision[t] \in Fresh(t) /\ mem'.pending[t] = None
    /\ mem'.panel[t] = None /\ mem'.participant[t] = None

Stays(t) ==
    /\ mem'.revision[t] = mem.revision[t] /\ mem'.pending[t] = mem.pending[t]
    /\ mem'.panel[t] = mem.panel[t] /\ mem'.participant[t] = mem.participant[t]

LEMMA CallTypes ==
  ASSUME TInv, NEW m \in Memory, NEW j \in JobRecord, JobKnows(j),
         j.phase = "queued", j.kind \notin TaskKinds,
         j.kind = "open" => \A k \in Jobs :
             k.kind = "stage" /\ k.tab = j.tab => k.revision # j.revision,
         j.kind = "settings" => j.tab \notin mem.terminal,
         j.kind = "remove" => j.tab \in m.terminal,
         mem.terminal \subseteq m.terminal,
         Call(m, j)
  PROVE  TInv' /\ mem' = m /\ Jobs' = Jobs \cup {j} /\ UNCHANGED <<disk, tasks, asked>>
<1>1. /\ mem' = m /\ store' = Append(store, j) /\ Len(store) < MaxJobs
      /\ UNCHANGED <<disk, tasks, asked>>
  BY DEF Call
<1>2. \A k \in Jobs : k.kind = "remove" => k.tab \in mem.terminal
  BY DEF TInv, RemovalsKnown
<1>3. QueuesOK'
  <2>1. TasksOK(tasks) /\ QueuesOK
    BY DEF TInv, QueuesOK
  <2> QED BY <1>1, <1>2, <2>1, CallJoins
<1>4. Jobs' = Jobs \cup {j}
  <2>1. Members(Append(store, j)) = Members(store) \cup {j}
    BY TypesOf, AppendIs
  <2> QED BY <1>1, <2>1 DEF Jobs
<1>5. RemovalsKnown'
  BY <1>1, <1>2, <1>4 DEF RemovalsKnown
<1>6. DataOK'
  BY <1>1, TypesOf DEF DataOK
<1> QED BY <1>1, <1>3, <1>4, <1>5, <1>6 DEF TInv

LEMMA PanelOpenedDoes ==
  ASSUME TInv, NEW t \in Tab, NEW w \in Window, PanelOpened(t, w)
  PROVE  /\ TInv' /\ UNCHANGED <<disk, tasks, asked>>
         /\ CanAdvance(t) /\ t \notin mem.terminal /\ w \notin mem.removing
         /\ mem' = Opened(t, w)
         /\ \E j \in JobRecord :
                /\ j.kind = "open" /\ j.phase = "queued" /\ j.tab = t /\ j.window = w
                /\ j.revision = mem'.revision[t]
                /\ Jobs' = Jobs \cup {j}
<1> DEFINE m == Opened(t, w)
           r == m.revision[t]
           j == Job("open", t, w, r, FALSE)
<1>1. /\ CanAdvance(t) /\ Call(m, j)
      /\ t \notin mem.terminal /\ w \notin mem.removing
  BY DEF PanelOpened, Opened
<1>2. /\ m \in Memory /\ m.terminal = mem.terminal
      /\ r = NewRevision(t)
  BY <1>1, OpenedIs, TypesOf
<1>3. /\ r # 0 /\ r \in 0..MaxRevision
      /\ \A k \in Jobs : k.tab = t => k.revision # r
  BY <1>1, <1>2, NewRevisionIs, FreshIs, MemoryIs
<1> HIDE DEF m, r
<1>4. /\ j \in JobRecord /\ j.kind = "open" /\ j.tab = t /\ j.window = w
      /\ j.revision = r /\ j.phase = "queued"
  BY <1>3 DEF Job, JobRecord
<1> HIDE DEF j
<1>5. JobKnows(j)
  BY <1>3, <1>4 DEF JobKnows, TwoSteps
<1>6. TInv' /\ mem' = m /\ Jobs' = Jobs \cup {j} /\ UNCHANGED <<disk, tasks, asked>>
  BY <1>1, <1>2, <1>3, <1>4, <1>5, CallTypes DEF TaskKinds
<1>7. mem' = Opened(t, w) /\ mem'.revision[t] = r
  BY <1>6 DEF m, r
<1> QED BY <1>1, <1>4, <1>6, <1>7

LEMMA PanelClosedDoes ==
  ASSUME TInv, NEW t \in Tab, PanelClosed(t)
  PROVE  /\ TInv' /\ UNCHANGED <<disk, tasks, asked>>
         /\ Gone(t) /\ \A u \in Tab \ {t} : Stays(u)
         /\ mem'.terminal = mem.terminal /\ mem'.removing = mem.removing
         /\ \E j \in JobRecord :
                /\ j.kind = "close" /\ j.phase = "queued" /\ j.tab = t
                /\ Jobs' = Jobs \cup {j}
<1> DEFINE m == Leave(mem, {t})
           r == m.revision[t]
           j == Job("close", t, mem.panel[t], r, FALSE)
<1>1. CanAdvance(t) /\ Call(m, j)
  BY DEF PanelClosed
<1>2. /\ m \in Memory /\ m.terminal = mem.terminal /\ m.removing = mem.removing
      /\ r = NewRevision(t)
      /\ m.pending[t] = None /\ m.panel[t] = None /\ m.participant[t] = None
      /\ \A u \in Tab \ {t} :
             /\ m.revision[u] = mem.revision[u] /\ m.pending[u] = mem.pending[u]
             /\ m.panel[u] = mem.panel[u] /\ m.participant[u] = mem.participant[u]
  BY <1>1, LeaveIs, TypesOf
<1>3. r # 0 /\ r \in 0..MaxRevision /\ m.revision[t] \in Fresh(t)
  BY <1>1, <1>2, NewRevisionIs, FreshIs, MemoryIs
<1> HIDE DEF m, r
<1>4. /\ j \in JobRecord /\ j.kind = "close" /\ j.tab = t
      /\ j.revision = r /\ j.phase = "queued"
  BY <1>3, TypesOf, MemoryIs DEF Job, JobRecord
<1> HIDE DEF j
<1>5. JobKnows(j)
  BY <1>3, <1>4 DEF JobKnows, TwoSteps
<1>6. TInv' /\ mem' = m /\ Jobs' = Jobs \cup {j} /\ UNCHANGED <<disk, tasks, asked>>
  BY <1>1, <1>2, <1>4, <1>5, CallTypes DEF TaskKinds
<1>7. Gone(t) /\ \A u \in Tab \ {t} : Stays(u)
  BY <1>2, <1>3, <1>6 DEF Gone, Stays
<1> QED BY <1>2, <1>4, <1>6, <1>7

LEMMA UpdateSettingsDoes ==
  ASSUME TInv, NEW t \in Tab, NEW w \in Window, NEW auto \in BOOLEAN,
         UpdateSettings(t, w, auto)
  PROVE  /\ TInv' /\ UNCHANGED <<disk, tasks, asked>>
         /\ mem.panel[t] \in {w, None} /\ t \notin mem.terminal
         /\ mem' = IF auto THEN mem ELSE Disabled(mem, t, w)
         /\ \E j \in JobRecord :
                /\ j.kind = "settings" /\ j.phase = "queued"
                /\ j.tab = t /\ j.window = w /\ j.auto = auto
                /\ j.revision = mem.revision[t]
                /\ Jobs' = Jobs \cup {j}
<1> DEFINE m == IF auto THEN mem ELSE Disabled(mem, t, w)
           j == Job("settings", t, w, mem.revision[t], auto)
<1>1. Call(m, j) /\ mem.panel[t] \in {w, None} /\ t \notin mem.terminal
  BY DEF UpdateSettings
<1>2. m \in Memory /\ m.terminal = mem.terminal
  BY DisabledIs, TypesOf
<1> HIDE DEF m
<1>3. /\ j \in JobRecord /\ j.kind = "settings" /\ j.tab = t /\ j.window = w
      /\ j.phase = "queued" /\ j.auto = auto /\ j.revision = mem.revision[t]
  BY TypesOf, MemoryIs DEF Job, JobRecord
<1> HIDE DEF j
<1>4. JobKnows(j)
  BY <1>3 DEF JobKnows, TwoSteps
<1>5. TInv' /\ mem' = m /\ Jobs' = Jobs \cup {j} /\ UNCHANGED <<disk, tasks, asked>>
  BY <1>1, <1>2, <1>3, <1>4, CallTypes DEF TaskKinds
<1> QED BY <1>1, <1>3, <1>5 DEF m

LEMMA RemoveTabDoes ==
  ASSUME TInv, NEW t \in Tab, RemoveTab(t)
  PROVE  /\ TInv' /\ UNCHANGED <<disk, tasks, asked>>
         /\ Gone(t) /\ \A u \in Tab \ {t} : Stays(u)
         /\ mem'.terminal = mem.terminal \cup {t} /\ mem'.removing = mem.removing
         /\ \E j \in JobRecord :
                /\ j.kind = "remove" /\ j.phase = "queued" /\ j.tab = t
                /\ Jobs' = Jobs \cup {j}
<1> DEFINE n == [mem EXCEPT !.terminal = @ \cup {t}]
           m == Leave(n, {t})
           r == m.revision[t]
           j == Job("remove", t, None, r, FALSE)
<1>1. CanAdvance(t) /\ Call(m, j)
  BY DEF RemoveTab
<1>2. /\ n \in Memory /\ n.terminal = mem.terminal \cup {t}
      /\ n.removing = mem.removing /\ n.panel = mem.panel
      /\ n.participant = mem.participant /\ n.pending = mem.pending
      /\ n.revision = mem.revision
  BY TypesOf DEF Memory
<1> HIDE DEF n
<1>3. /\ m \in Memory /\ m.terminal = n.terminal /\ m.removing = mem.removing
      /\ r = NewRevision(t)
      /\ m.pending[t] = None /\ m.panel[t] = None /\ m.participant[t] = None
      /\ \A u \in Tab \ {t} :
             /\ m.revision[u] = mem.revision[u] /\ m.pending[u] = mem.pending[u]
             /\ m.panel[u] = mem.panel[u] /\ m.participant[u] = mem.participant[u]
  BY <1>1, <1>2, LeaveIs
<1>4. r # 0 /\ r \in 0..MaxRevision /\ m.revision[t] \in Fresh(t)
  BY <1>1, <1>3, NewRevisionIs, FreshIs, MemoryIs
<1> HIDE DEF m, r
<1>5. /\ j \in JobRecord /\ j.kind = "remove" /\ j.tab = t
      /\ j.revision = r /\ j.phase = "queued"
  BY <1>4 DEF Job, JobRecord
<1> HIDE DEF j
<1>6. JobKnows(j)
  BY <1>4, <1>5 DEF JobKnows, TwoSteps
<1>7. TInv' /\ mem' = m /\ Jobs' = Jobs \cup {j} /\ UNCHANGED <<disk, tasks, asked>>
  BY <1>1, <1>2, <1>3, <1>5, <1>6, CallTypes DEF TaskKinds
<1>8. Gone(t) /\ \A u \in Tab \ {t} : Stays(u)
  BY <1>3, <1>4, <1>7 DEF Gone, Stays
<1> QED BY <1>2, <1>3, <1>5, <1>7, <1>8

\* What a router's new epoch changes of the tasks
LEMMA OutdatedIs ==
  ASSUME TasksOK(tasks), NEW w
  PROVE  /\ TasksOK(Outdated(w)) /\ DOMAIN Outdated(w) = DOMAIN tasks
         /\ Outdated(w) = <<>> <=> tasks = <<>>
         /\ \A i \in DOMAIN tasks :
                /\ Outdated(w)[i] \in TaskRecord
                /\ Outdated(w)[i].kind = tasks[i].kind
                /\ Outdated(w)[i].pc = tasks[i].pc
                /\ Outdated(w)[i].window = tasks[i].window
                /\ Outdated(w)[i].tab = tasks[i].tab
                /\ Outdated(w)[i].mark = tasks[i].mark
                /\ Outdated(w)[i].late = tasks[i].late
                /\ Outdated(w)[i].staged = tasks[i].staged
                /\ Outdated(w)[i].commits = tasks[i].commits
<1> DEFINE q == Outdated(w)
<1>1. tasks \in Seq(TaskRecord) /\ DOMAIN tasks = 1..Len(tasks) /\ Len(tasks) \in Nat
      /\ \A i \in DOMAIN tasks : tasks[i] \in TaskRecord
  BY DEF TasksOK
<1>2. /\ DOMAIN q = DOMAIN tasks
      /\ \A i \in DOMAIN tasks :
             q[i] = IF tasks[i].window = w /\ tasks[i].kind = "accept"
                    THEN [tasks[i] EXCEPT !.current = FALSE] ELSE tasks[i]
      /\ q = [i \in 1..Len(tasks) |-> q[i]]
  BY <1>1 DEF Outdated
<1> HIDE DEF q
<1>3. \A i \in DOMAIN tasks :
          /\ q[i] \in TaskRecord
          /\ q[i].kind = tasks[i].kind /\ q[i].pc = tasks[i].pc
          /\ q[i].window = tasks[i].window /\ q[i].tab = tasks[i].tab
          /\ q[i].mark = tasks[i].mark /\ q[i].late = tasks[i].late
          /\ q[i].staged = tasks[i].staged /\ q[i].commits = tasks[i].commits
  <2> SUFFICES ASSUME NEW i \in DOMAIN tasks
               PROVE  /\ q[i] \in TaskRecord
                      /\ q[i].kind = tasks[i].kind /\ q[i].pc = tasks[i].pc
                      /\ q[i].window = tasks[i].window /\ q[i].tab = tasks[i].tab
                      /\ q[i].mark = tasks[i].mark /\ q[i].late = tasks[i].late
                      /\ q[i].staged = tasks[i].staged
                      /\ q[i].commits = tasks[i].commits
    OBVIOUS
  <2> DEFINE k == tasks[i]
  <2>1. k \in TaskRecord
    BY <1>1
  <2>2. q[i] = k \/ q[i] = [k EXCEPT !.current = FALSE]
    BY <1>2
  <2> HIDE DEF k
  <2>3. /\ q[i] \in TaskRecord
        /\ q[i].kind = k.kind /\ q[i].pc = k.pc
        /\ q[i].window = k.window /\ q[i].tab = k.tab
        /\ q[i].mark = k.mark /\ q[i].late = k.late
        /\ q[i].staged = k.staged /\ q[i].commits = k.commits
    BY <2>1, <2>2 DEF TaskRecord
  <2> QED BY <2>3 DEF k
<1>4. q \in Seq(TaskRecord) /\ Len(q) = Len(tasks)
  BY <1>1, <1>2, <1>3, IsASeq
<1>5. \A i \in DOMAIN q : TaskKnows(q[i])
  <2> SUFFICES ASSUME NEW i \in DOMAIN q PROVE TaskKnows(q[i])
    OBVIOUS
  <2>1. i \in DOMAIN tasks /\ TaskKnows(tasks[i])
    BY <1>2 DEF TasksOK, Members
  <2> QED BY <1>3, <2>1 DEF TaskKnows
<1>6. TasksOK(q)
  BY <1>2, <1>3, <1>4, <1>5 DEF TasksOK, Members
<1>7. q = <<>> <=> tasks = <<>>
  BY <1>1, <1>4, EmptySeq
<1> QED BY <1>2, <1>3, <1>6, <1>7 DEF q

LEMMA RemoveWindowDoes ==
  ASSUME TInv, NEW w \in Window, RemoveWindow(w)
  PROVE  /\ TInv' /\ UNCHANGED <<disk, asked>> /\ tasks' = Outdated(w)
         /\ \A t \in Tab : IF mem.panel[t] = w THEN Gone(t) ELSE Stays(t)
         /\ mem'.terminal = mem.terminal /\ mem'.removing = mem.removing \cup {w}
         /\ \E j \in JobRecord :
                /\ j.kind = "window" /\ j.phase = "queued" /\ j.tab = None
                /\ \A f \in j.fenced : f.tab \in Tab /\ mem.panel[f.tab] = w
                /\ Jobs' = Jobs \cup {j}
<1> DEFINE inside == {t \in Tab : mem.panel[t] = w}
           m == Leave(mem, inside)
           f == {[tab |-> t, revision |-> m.revision[t]] : t \in inside}
           j == [Job("window", None, w, 0, FALSE) EXCEPT !.fenced = f]
<1>1. /\ \A t \in inside : CanAdvance(t)
      /\ Len(store) < MaxJobs
      /\ mem' = [m EXCEPT !.removing = @ \cup {w}]
      /\ store' = Append(store, j)
      /\ tasks' = Outdated(w)
      /\ UNCHANGED <<disk, asked>>
  BY DEF RemoveWindow
<1>2. inside \subseteq Tab /\ \A t \in Tab : t \in inside <=> mem.panel[t] = w
  OBVIOUS
<1> HIDE DEF inside
<1>3. /\ m \in Memory /\ m.terminal = mem.terminal /\ m.removing = mem.removing
      /\ \A t \in inside : /\ m.revision[t] = NewRevision(t)
                           /\ m.pending[t] = None /\ m.panel[t] = None
                           /\ m.participant[t] = None
      /\ \A u \in Tab \ inside :
             /\ m.revision[u] = mem.revision[u] /\ m.pending[u] = mem.pending[u]
             /\ m.panel[u] = mem.panel[u] /\ m.participant[u] = mem.participant[u]
  BY <1>1, <1>2, LeaveIs, TypesOf
<1>4. \A t \in inside : m.revision[t] \in 1..MaxRevision /\ m.revision[t] \in Fresh(t)
  BY <1>1, <1>2, <1>3, NewRevisionIs, FreshIs
<1> HIDE DEF m
<1>5. /\ f \subseteq [tab : Tab, revision : 1..MaxRevision]
      /\ \A g \in f : g.tab \in inside
  BY <1>2, <1>4
<1> HIDE DEF f
<1>6. 0 \in 0..MaxRevision
  BY TabRefreshAssumption
<1>7. /\ j \in JobRecord /\ j.kind = "window" /\ j.window = w
      /\ j.phase = "queued" /\ j.tab = None /\ j.fenced = f
  BY <1>5, <1>6 DEF Job, JobRecord
<1> HIDE DEF j
<1>8. JobKnows(j)
  BY <1>7 DEF JobKnows, TwoSteps
<1>9. /\ TasksOK(tasks') /\ (tasks = <<>> <=> tasks' = <<>>)
      /\ tasks # <<>> => /\ tasks'[1].pc = tasks[1].pc
                         /\ tasks'[1].window = tasks[1].window
  <2>1. TasksOK(tasks)
    BY DEF TInv, QueuesOK
  <2>2. tasks # <<>> => 1 \in DOMAIN tasks
    BY TypesOf, TailIs
  <2> QED BY <1>1, <2>1, <2>2, OutdatedIs
<1>10. QueuesOK'
  BY <1>1, <1>7, <1>8, <1>9, CallJoins, TypesOf DEF TaskKinds
<1>11. /\ mem' \in Memory /\ mem'.terminal = mem.terminal
       /\ mem'.removing = mem.removing \cup {w}
       /\ mem'.revision = m.revision /\ mem'.pending = m.pending
       /\ mem'.panel = m.panel /\ mem'.participant = m.participant
  BY <1>1, <1>3 DEF Memory
<1>12. Jobs' = Jobs \cup {j}
  <2>1. Members(Append(store, j)) = Members(store) \cup {j}
    BY <1>7, TypesOf, AppendIs
  <2> QED BY <1>1, <2>1 DEF Jobs
<1>13. RemovalsKnown'
  BY <1>7, <1>11, <1>12 DEF TInv, RemovalsKnown
<1>14. \A t \in Tab : IF mem.panel[t] = w THEN Gone(t) ELSE Stays(t)
  BY <1>2, <1>3, <1>4, <1>11 DEF Gone, Stays
<1>15. TInv'
  BY <1>1, <1>10, <1>11, <1>13, TypesOf DEF TInv, DataOK
<1>16. \A g \in j.fenced : g.tab \in Tab /\ mem.panel[g.tab] = w
  BY <1>2, <1>5, <1>7
<1> QED BY <1>1, <1>7, <1>11, <1>12, <1>14, <1>15, <1>16

-----------------------------------------------------------------------------
\* Tasks.

\* The stores' removals are known as long as no other job joins.
LEMMA RemovalsStay ==
  ASSUME TInv, mem'.terminal = mem.terminal,
         \A j \in Jobs' : j \in Jobs \/ j.kind # "remove"
  PROVE  RemovalsKnown'
BY DEF TInv, RemovalsKnown

LEMMA QueueTypes ==
  ASSUME TInv, NEW m \in Memory, m.terminal = mem.terminal,
         NEW k \in TaskRecord, TaskKnows(k), k.pc = "queued", Queue(m, k)
  PROVE  /\ TInv' /\ UNCHANGED <<disk, store, asked>>
         /\ mem' = m /\ tasks' = Append(tasks, k)
<1>1. /\ Len(tasks) < MaxTasks /\ mem' = m /\ tasks' = Append(tasks, k)
      /\ UNCHANGED <<disk, store, asked>>
  BY DEF Queue
<1>2. TasksOK(tasks)
  BY DEF TInv, QueuesOK
<1>3. QueuesOK'
  BY <1>1, <1>2, TaskJoins, TypesOf
<1>4. RemovalsKnown'
  BY <1>1, RemovalsStay DEF Jobs
<1> QED BY <1>1, <1>3, <1>4, TypesOf DEF TInv, DataOK

LEMMA MarkIsWatermark == Refresh \subseteq Watermark
<1>1. 1..MaxGeneration \subseteq 0..MaxGeneration
  OBVIOUS
<1> QED BY <1>1 DEF Refresh, Watermark

LEMMA AcceptDoes ==
  ASSUME TInv, NEW w \in Window, NEW mark \in Refresh, AcceptPageRefresh(w, mark)
  PROVE  /\ TInv' /\ UNCHANGED <<disk, mem, store, asked>>
         /\ \E k \in TaskRecord : /\ tasks' = Append(tasks, k)
                                /\ k.kind = "accept" /\ k.pc = "queued"
<1> DEFINE k == Task("accept", w, None, mark)
<1>1. Queue(mem, k)
  BY DEF AcceptPageRefresh
<1>2. k \in TaskRecord
  BY MarkIsWatermark, NoCommits DEF Task, TaskRecord
<1>3. k.kind = "accept" /\ k.mark = mark /\ k.pc = "queued" /\ k.staged = {} /\ k.commits = <<>>
  BY DEF Task
<1> HIDE DEF k
<1>4. TaskKnows(k)
  BY <1>3, QueuedTaskKnows
<1>5. /\ TInv' /\ UNCHANGED <<disk, mem, store, asked>>
      /\ tasks' = Append(tasks, k)
  BY <1>1, <1>2, <1>3, <1>4, QueueTypes, TypesOf
<1> QED BY <1>2, <1>3, <1>5

LEMMA ActivateDoes ==
  ASSUME TInv, NEW t \in Tab, NEW w \in Window, ActivateTab(t, w)
  PROVE  /\ TInv' /\ UNCHANGED <<disk, mem, store, asked>>
         /\ \E k \in TaskRecord : /\ tasks' = Append(tasks, k)
                                /\ k.kind = "activate" /\ k.pc = "queued"
<1> DEFINE k == Task("activate", w, t, Epoch0)
<1>1. Queue(mem, k)
  BY DEF ActivateTab
<1>2. k \in TaskRecord
  BY EpochIsWatermark, NoCommits DEF Task, TaskRecord
<1>3. k.kind = "activate" /\ k.tab = t /\ k.pc = "queued" /\ k.staged = {} /\ k.commits = <<>>
  BY DEF Task
<1> HIDE DEF k
<1>4. TaskKnows(k)
  BY <1>3, QueuedTaskKnows
<1>5. /\ TInv' /\ UNCHANGED <<disk, mem, store, asked>>
      /\ tasks' = Append(tasks, k)
  BY <1>1, <1>2, <1>3, <1>4, QueueTypes, TypesOf
<1> QED BY <1>2, <1>3, <1>5

\* The tasks that an epoch makes late
Belated(w) == [i \in DOMAIN tasks |->
                  [tasks[i] EXCEPT !.late = @ \/ tasks[i].window = w]]

LEMMA BelatedIs ==
  ASSUME TasksOK(tasks), NEW w
  PROVE  /\ TasksOK(Belated(w)) /\ DOMAIN Belated(w) = DOMAIN tasks
         /\ Len(Belated(w)) = Len(tasks)
         /\ Belated(w) = <<>> <=> tasks = <<>>
         /\ \A i \in DOMAIN tasks :
                /\ Belated(w)[i] \in TaskRecord
                /\ Belated(w)[i].kind = tasks[i].kind
                /\ Belated(w)[i].pc = tasks[i].pc
                /\ Belated(w)[i].window = tasks[i].window
                /\ Belated(w)[i].tab = tasks[i].tab
                /\ Belated(w)[i].mark = tasks[i].mark
                /\ Belated(w)[i].staged = tasks[i].staged
                /\ Belated(w)[i].commits = tasks[i].commits
                /\ Belated(w)[i].late <=> tasks[i].late \/ tasks[i].window = w
<1> DEFINE q == Belated(w)
<1>1. tasks \in Seq(TaskRecord) /\ DOMAIN tasks = 1..Len(tasks) /\ Len(tasks) \in Nat
      /\ \A i \in DOMAIN tasks : tasks[i] \in TaskRecord
  BY DEF TasksOK
<1>2. /\ DOMAIN q = DOMAIN tasks
      /\ \A i \in DOMAIN tasks :
             q[i] = [tasks[i] EXCEPT !.late = @ \/ tasks[i].window = w]
      /\ q = [i \in 1..Len(tasks) |-> q[i]]
  BY <1>1 DEF Belated
<1> HIDE DEF q
<1>3. \A i \in DOMAIN tasks :
          /\ q[i] \in TaskRecord
          /\ q[i].kind = tasks[i].kind /\ q[i].pc = tasks[i].pc
          /\ q[i].window = tasks[i].window /\ q[i].tab = tasks[i].tab
          /\ q[i].mark = tasks[i].mark
          /\ q[i].staged = tasks[i].staged /\ q[i].commits = tasks[i].commits
          /\ q[i].late <=> tasks[i].late \/ tasks[i].window = w
  <2> SUFFICES ASSUME NEW i \in DOMAIN tasks
               PROVE  /\ q[i] \in TaskRecord
                      /\ q[i].kind = tasks[i].kind /\ q[i].pc = tasks[i].pc
                      /\ q[i].window = tasks[i].window /\ q[i].tab = tasks[i].tab
                      /\ q[i].mark = tasks[i].mark
                      /\ q[i].staged = tasks[i].staged
                      /\ q[i].commits = tasks[i].commits
                      /\ q[i].late <=> tasks[i].late \/ tasks[i].window = w
    OBVIOUS
  <2> DEFINE k == tasks[i]
             l == k.late \/ k.window = w
  <2>1. k \in TaskRecord /\ l \in BOOLEAN
    BY <1>1
  <2>2. q[i] = [k EXCEPT !.late = l]
    BY <1>1, <1>2 DEF TaskRecord
  <2> HIDE DEF k, l
  <2>3. /\ q[i] \in TaskRecord
        /\ q[i].kind = k.kind /\ q[i].pc = k.pc
        /\ q[i].window = k.window /\ q[i].tab = k.tab
        /\ q[i].mark = k.mark /\ q[i].late = l
        /\ q[i].staged = k.staged /\ q[i].commits = k.commits
    BY <2>1, <2>2 DEF TaskRecord
  <2> QED BY <2>3 DEF k, l
<1>4. q \in Seq(TaskRecord) /\ Len(q) = Len(tasks)
  BY <1>1, <1>2, <1>3, IsASeq
<1>5. \A i \in DOMAIN q : TaskKnows(q[i])
  <2> SUFFICES ASSUME NEW i \in DOMAIN q PROVE TaskKnows(q[i])
    OBVIOUS
  <2>1. i \in DOMAIN tasks /\ TaskKnows(tasks[i])
    BY <1>2 DEF TasksOK, Members
  <2> QED BY <1>3, <2>1 DEF TaskKnows
<1>6. TasksOK(q)
  <2>1. Len(q) <= MaxTasks
    BY <1>4 DEF TasksOK
  <2>2. \A i \in DOMAIN q : q[i].pc = tasks[i].pc
    BY <1>2, <1>3
  <2>3. \A i \in DOMAIN q : i # 1 => q[i].pc = "queued"
    BY <1>2, <2>2 DEF TasksOK
  <2> QED BY <1>4, <1>5, <2>1, <2>3 DEF TasksOK, Members
<1>7. q = <<>> <=> tasks = <<>>
  BY <1>1, <1>4, EmptySeq
<1> QED BY <1>2, <1>3, <1>4, <1>6, <1>7 DEF q

LEMMA BeginEpochDoes ==
  ASSUME TInv, NEW w \in Window, BeginWindowEpoch(w)
  PROVE  /\ TInv' /\ UNCHANGED <<disk, store, asked>>
         /\ mem' = CancelIn(mem, w)
         /\ \E k \in TaskRecord :
                /\ k.kind = "epoch" /\ k.pc = "queued" /\ k.window = w
                /\ tasks' = Append(Belated(w), k)
<1> DEFINE k == Task("epoch", w, None, Epoch0)
           q == Belated(w)
<1>1. /\ Len(tasks) < MaxTasks /\ mem' = CancelIn(mem, w)
      /\ tasks' = Append(q, k)
      /\ UNCHANGED <<disk, store, asked>>
  BY DEF BeginWindowEpoch, Belated
<1>2. /\ k \in TaskRecord /\ TaskKnows(k) /\ k.pc = "queued"
      /\ k.kind = "epoch" /\ k.window = w
  <2>1. k \in TaskRecord
    BY EpochIsWatermark, NoCommits DEF Task, TaskRecord
  <2>2. k.kind = "epoch" /\ k.pc = "queued" /\ k.staged = {} /\ k.commits = <<>>
         /\ k.window = w
    BY DEF Task
  <2> QED BY <2>1, <2>2, QueuedTaskKnows
<1>3. tasks # <<>> => 1 \in DOMAIN tasks
  BY TypesOf, TailIs
<1>4. /\ TasksOK(q) /\ Len(q) = Len(tasks)
      /\ q = <<>> <=> tasks = <<>>
      /\ tasks # <<>> => q[1].pc = tasks[1].pc /\ q[1].window = tasks[1].window
  BY <1>3, BelatedIs DEF TInv, QueuesOK
<1> HIDE DEF k, q
<1>5. QueuesOK'
  BY <1>1, <1>2, <1>4, TaskJoins, TypesOf
<1>6. mem' \in Memory /\ mem'.terminal = mem.terminal
  BY <1>1, CancelInIs, TypesOf
<1>7. RemovalsKnown'
  BY <1>1, <1>6, RemovalsStay DEF Jobs
<1>8. TInv'
  BY <1>1, <1>5, <1>6, <1>7, TypesOf DEF TInv, DataOK
<1>9. tasks' = Append(Belated(w), k)
  BY <1>1 DEF q
<1> QED BY <1>1, <1>2, <1>8, <1>9

\* What leaves the queues alone
LEMMA StillTypes ==
  ASSUME TInv, UNCHANGED <<store, tasks>>, DataOK', mem'.terminal = mem.terminal
  PROVE  TInv'
BY RemovalsStay DEF TInv, QueuesOK, StoreOK, TasksOK, InStep, Jobs

LEMMA ClearPendingDoes ==
  ASSUME TInv, NEW w \in Window, ClearWindowPending(w)
  PROVE  TInv' /\ mem' = CancelIn(mem, w) /\ UNCHANGED <<disk, store, tasks, asked>>
BY CancelInIs, TypesOf, StillTypes DEF ClearWindowPending, DataOK

-----------------------------------------------------------------------------
\* The running task.

LEMMA RunningIs ==
  ASSUME QueuesOK, NEW pc, Running(pc)
  PROVE  /\ tasks # <<>> /\ Head(tasks) = tasks[1] /\ 1 \in DOMAIN tasks
         /\ Head(tasks) \in TaskRecord /\ TaskKnows(Head(tasks))
         /\ Head(tasks).pc = pc
         /\ pc \notin TaskKinds => Idle(store)
<1>1. tasks # <<>> /\ Head(tasks).pc = pc
  BY DEF Running
<1>2. /\ Head(tasks) = tasks[1] /\ 1 \in DOMAIN tasks
      /\ Head(tasks) \in TaskRecord /\ TaskKnows(Head(tasks))
  BY <1>1, HeadTaskIs
<1> QED BY <1>1, <1>2, IdleStore

\* What a running task of its kind knows when it admits a refresh
Accepts(k) ==
    /\ k \in TaskRecord /\ k.kind = "accept" /\ k.mark \in Refresh
    /\ \A c \in Members(k.commits) : Restage(c.before, c.after)

LEMMA AcceptsKnows ==
  ASSUME NEW k, Accepts(k), k.pc \in {"stage", "rollback"}
  PROVE  TaskKnows(k)
BY DEF Accepts, TaskKnows

LEMMA AcceptsIs ==
  ASSUME NEW k \in TaskRecord, TaskKnows(k), k.kind = "accept"
  PROVE  Accepts(k)
BY DEF Accepts, TaskKnows

\* The refresh of a tab is begun, or it is cancelled.
LEMMA DispatchDoes ==
  ASSUME QueuesOK, tasks # <<>>, NEW m \in Memory, NEW t \in Tab,
         NEW k \in TaskRecord, k.kind \in {"accept", "activate"},
         k.kind = "accept" => k.mark \in Refresh,
         NEW jobs, Idle(jobs), store' = jobs, Dispatch(m, t, k)
  PROVE  /\ QueuesOK' /\ mem' \in Memory /\ Alike(m, mem')
         /\ \A u \in Tab \ {t} : mem'.pending[u] = m.pending[u]
         /\ \/ /\ IsCurrentRefresh(m, t)
               /\ mem'.pending[t] # None
               /\ mem'.pending[t].window = m.pending[t].window
               /\ mem'.pending[t].revision = m.pending[t].revision
               /\ mem'.pending[t].mark = m.pending[t].mark
               /\ mem'.pending[t].late = m.pending[t].late
               /\ \E p \in TaskRecord :
                      /\ tasks' = [tasks EXCEPT ![1] = p]
                      /\ p.pc = "prepare" /\ p.tab = t /\ p.kind = k.kind
                      /\ p.window = k.window /\ p.staged = {} /\ p.commits = <<>>
            \/ /\ mem'.pending[t] = None
               /\ tasks' = Tail(tasks)
<1>1. CASE IsCurrentRefresh(m, t)
  <2> DEFINE p == [Task(k.kind, k.window, t, k.mark) EXCEPT !.pc = "prepare"]
             o == [m.pending[t] EXCEPT !.phase = "dispatching"]
  <2>1. /\ tasks' = [tasks EXCEPT ![1] = p]
        /\ mem' = [m EXCEPT !.pending[t] = o]
    <3>1. m.pending[t] = m.pending[t] /\ t \in DOMAIN m.pending
      BY MemoryIs
    <3> QED BY <1>1, <3>1 DEF Dispatch, Continue, Memory
  <2>2. p \in TaskRecord
    BY NoCommits DEF Task, TaskRecord
  <2>3. /\ p.pc = "prepare" /\ p.tab = t /\ p.kind = k.kind
        /\ p.window = k.window /\ p.staged = {} /\ p.commits = <<>>
        /\ p.mark = k.mark
    BY DEF Task
  <2>4. m.pending[t] \in Operation /\ m.pending[t] # None
    BY <1>1, MemoryIs DEF IsCurrentRefresh
  <2>5. /\ o \in Operation /\ o.window = m.pending[t].window
        /\ o.revision = m.pending[t].revision
        /\ o.mark = m.pending[t].mark /\ o.late = m.pending[t].late
    BY <2>4 DEF Operation
  <2> HIDE DEF p, o
  <2>6. TaskKnows(p)
    BY <2>3, EmptyIs DEF TaskKnows
  <2>7. QueuesOK'
    BY <2>1, <2>2, <2>3, <2>6, TaskContinues DEF TaskKinds
  <2>8. /\ mem' \in Memory /\ Alike(m, mem') /\ mem'.pending[t] = o
        /\ \A u \in Tab \ {t} : mem'.pending[u] = m.pending[u]
    BY <2>1, <2>5 DEF Memory, Alike
  <2>9. o # None
    BY <2>5, NoneIsNoRecord
  <2>10. mem'.pending[t] # None /\ mem'.pending[t].window = m.pending[t].window
         /\ mem'.pending[t].revision = m.pending[t].revision
         /\ mem'.pending[t].mark = m.pending[t].mark
         /\ mem'.pending[t].late = m.pending[t].late
    BY <2>5, <2>8, <2>9
  <2>11. \E q \in TaskRecord :
                      /\ tasks' = [tasks EXCEPT ![1] = q]
                      /\ q.pc = "prepare" /\ q.tab = t /\ q.kind = k.kind
                      /\ q.window = k.window /\ q.staged = {} /\ q.commits = <<>>
    BY <2>1, <2>2, <2>3
  <2> QED BY <1>1, <2>7, <2>8, <2>10, <2>11
<1>2. CASE ~IsCurrentRefresh(m, t)
  <2>1. mem' = Cancel(m, t) /\ tasks' = Tail(tasks)
    BY <1>2 DEF Dispatch, Pop
  <2>2. QueuesOK'
    BY <2>1, TaskPops
  <2>3. /\ mem' \in Memory /\ Alike(m, mem')
        /\ \A u \in Tab : mem'.pending[u] = IF u = t THEN None ELSE m.pending[u]
    BY <2>1, CancelIs DEF Alike
  <2> QED BY <2>1, <2>2, <2>3
<1> QED BY <1>1, <1>2

LEMMA AlikeTypes ==
  ASSUME TInv, QueuesOK', mem' \in Memory, mem'.terminal = mem.terminal,
         UNCHANGED disk, asked' \in [Tab -> Asking \cup {None}],
         \A j \in Jobs' : j \in Jobs \/ j.kind # "remove"
  PROVE  TInv'
BY RemovalsStay, TypesOf DEF TInv, DataOK

LEMMA StartLoadingDoes ==
  ASSUME TInv, StartLoading
  PROVE  /\ TInv' /\ Head(tasks).pc = "queued" /\ Head(tasks).kind \in {"accept", "epoch"}
         /\ tasks # <<>>
         /\ \E k \in TaskRecord :
                /\ k = [Head(tasks) EXCEPT !.pc = "load"]
                /\ tasks' = [tasks EXCEPT ![1] = k]
         /\ \E j \in JobRecord :
                /\ j.kind = "load" /\ j.phase = "queued" /\ j.tab = None
                /\ store' = Append(store, j)
         /\ Head(tasks).kind = "accept" => UNCHANGED <<mem, asked>>
         /\ Head(tasks).kind = "epoch" =>
                \A t \in Tab : asked'[t] =
                    IF asked[t] # None /\ asked[t].window = Head(tasks).window
                    THEN None ELSE asked[t]
         /\ \E f : mem' = [mem EXCEPT !.mark = f]
         /\ UNCHANGED disk
<1> DEFINE k == [Head(tasks) EXCEPT !.pc = "load"]
           j == Job("load", None, None, 0, FALSE)
           h == Head(tasks)
           a == [t \in Tab |-> IF asked[t] # None /\ asked[t].window = h.window
                               THEN None ELSE asked[t]]
<1>1. /\ h.pc = "queued" /\ h.kind \in {"accept", "epoch"}
      /\ tasks' = [tasks EXCEPT ![1] = k]
      /\ store' = Append(store, j)
      /\ UNCHANGED disk
      /\ IF h.kind = "epoch"
         THEN mem' = [mem EXCEPT !.mark[h.window] = Epoch0] /\ asked' = a
         ELSE UNCHANGED <<mem, asked>>
  BY DEF StartLoading, Running, Continue
<1>2. /\ tasks # <<>> /\ h \in TaskRecord /\ TaskKnows(h) /\ Idle(store)
  BY RunningIs, TypesOf DEF StartLoading, TaskKinds
<1> HIDE DEF h
<1>3. /\ k \in TaskRecord /\ k.kind = h.kind /\ k.pc = "load"
      /\ k.window = h.window /\ k.mark = h.mark
      /\ k.staged = {} /\ k.commits = <<>>
  <2>1. h.staged = {} /\ h.commits = <<>>
    BY <1>1, <1>2 DEF TaskKnows
  <2> QED BY <1>2, <2>1 DEF TaskRecord, h
<1>4. /\ j \in JobRecord /\ j.kind = "load" /\ j.phase = "queued" /\ j.tab = None
  <2>1. 0 \in 0..MaxRevision
    BY TabRefreshAssumption
  <2> QED BY <2>1 DEF Job, JobRecord
<1>5. /\ a \in [Tab -> Asking \cup {None}]
      /\ \A t \in Tab : a[t] = IF asked[t] # None /\ asked[t].window = h.window
                               THEN None ELSE asked[t]
  BY TypesOf
<1>6. k = [Head(tasks) EXCEPT !.pc = "load"]
  OBVIOUS
<1> HIDE DEF k, j, a
<1>7. TaskKnows(k)
  BY <1>1, <1>2, <1>3 DEF TaskKnows
<1>8. JobKnows(j)
  BY <1>4 DEF JobKnows, TwoSteps
<1>9. QueuesOK'
  BY <1>1, <1>2, <1>3, <1>4, <1>7, <1>8, TaskWaits, TypesOf DEF TaskKinds
<1>10. /\ mem' \in Memory /\ mem'.terminal = mem.terminal
       /\ \E f : mem' = [mem EXCEPT !.mark = f]
  <2>1. CASE h.kind = "epoch"
    <3> DEFINE f == [mem.mark EXCEPT ![h.window] = Epoch0]
    <3>1. mem' = [mem EXCEPT !.mark = f] /\ h.window \in Window
      BY <1>1, <1>2, <2>1 DEF TaskRecord
    <3>2. f \in [Window -> Watermark \cup {None}]
      BY TypesOf, MemoryIs, EpochIsWatermark
    <3> HIDE DEF f
    <3> QED BY <3>1, <3>2, TypesOf DEF Memory
  <2>2. CASE h.kind # "epoch"
    <3>1. mem' = mem
      BY <1>1, <2>2
    <3>2. mem = [mem EXCEPT !.mark = mem.mark]
      BY TypesOf DEF Memory
    <3> QED BY <3>1, <3>2, TypesOf
  <2> QED BY <2>1, <2>2
<1>11. asked' \in [Tab -> Asking \cup {None}]
  BY <1>1, <1>5, TypesOf
<1>12. \A i \in Jobs' : i \in Jobs \/ i.kind # "remove"
  <2>1. Members(Append(store, j)) = Members(store) \cup {j}
    BY <1>4, TypesOf, AppendIs
  <2> QED BY <1>1, <1>4, <2>1 DEF Jobs
<1>13. TInv'
  BY <1>1, <1>9, <1>10, <1>11, <1>12, AlikeTypes
<1>14. h.kind = "accept" => UNCHANGED <<mem, asked>>
  BY <1>1
<1>15. h.kind = "epoch" => asked' = a
  BY <1>1
<1> QED BY <1>1, <1>2, <1>3, <1>4, <1>5, <1>6, <1>10, <1>13, <1>14, <1>15 DEF h

LEMMA DispatchKeeps ==
  ASSUME QueuesOK, tasks # <<>>, NEW m \in Memory, NEW t \in Tab,
         NEW k \in TaskRecord, k.kind \in {"accept", "activate"},
         k.kind = "accept" => k.mark \in Refresh,
         k.kind = tasks[1].kind, k.window = tasks[1].window,
         NEW jobs, Idle(jobs), store' = jobs, Dispatch(m, t, k)
  PROVE  /\ QueuesOK' /\ mem' \in Memory /\ Alike(m, mem') /\ Dispatches
         /\ \A u \in Tab : Keeps(m.pending[u], mem'.pending[u])
         /\ mem'.pending[t] # None =>
                \E p \in TaskRecord : /\ tasks' = [tasks EXCEPT ![1] = p]
                                      /\ p.pc = "prepare"
<1>1. /\ QueuesOK' /\ mem' \in Memory /\ Alike(m, mem')
      /\ \A u \in Tab \ {t} : mem'.pending[u] = m.pending[u]
  BY DispatchDoes
<1>2. CASE /\ IsCurrentRefresh(m, t)
           /\ mem'.pending[t] # None
           /\ mem'.pending[t].window = m.pending[t].window
           /\ mem'.pending[t].revision = m.pending[t].revision
           /\ mem'.pending[t].mark = m.pending[t].mark
           /\ mem'.pending[t].late = m.pending[t].late
           /\ \E p \in TaskRecord :
                  /\ tasks' = [tasks EXCEPT ![1] = p]
                  /\ p.pc = "prepare" /\ p.tab = t /\ p.kind = k.kind
                  /\ p.window = k.window /\ p.staged = {} /\ p.commits = <<>>
  <2>1. m.pending[t] # None
    BY <1>2 DEF IsCurrentRefresh
  <2>2. Keeps(m.pending[t], mem'.pending[t])
    BY <1>2, <2>1 DEF Keeps
  <2>3. \A u \in Tab : Keeps(m.pending[u], mem'.pending[u])
    BY <1>1, <2>2 DEF Keeps
  <2> QED BY <1>1, <1>2, <2>3 DEF Dispatches
<1>3. CASE mem'.pending[t] = None /\ tasks' = Tail(tasks)
  <2>1. \A u \in Tab : Keeps(m.pending[u], mem'.pending[u])
    BY <1>1, <1>3 DEF Keeps
  <2> QED BY <1>1, <1>3, <2>1 DEF Dispatches
<1> QED BY <1>2, <1>3, DispatchDoes

LEMMA StartActivatingDoes ==
  ASSUME TInv, StartActivating
  PROVE  /\ TInv' /\ UNCHANGED <<disk, store, asked>>
         /\ tasks # <<>> /\ Head(tasks).kind = "activate" /\ Head(tasks).pc = "queued"
         /\ Alike(mem, mem') /\ KeepsPending /\ Dispatches
<1> DEFINE h == Head(tasks)
<1>1. /\ tasks # <<>> /\ h \in TaskRecord /\ TaskKnows(h) /\ Idle(store)
      /\ h = tasks[1] /\ h.pc = "queued" /\ h.kind = "activate"
  BY RunningIs, TypesOf DEF StartActivating, TaskKinds
<1>2. h.tab \in Tab /\ mem \in Memory /\ QueuesOK
  BY <1>1, TypesOf DEF TaskKnows
<1>3. UNCHANGED <<disk, store, asked>>
  BY DEF StartActivating
<1>4. /\ QueuesOK' /\ mem' \in Memory /\ Alike(mem, mem') /\ Dispatches
      /\ \A u \in Tab : Keeps(mem.pending[u], mem'.pending[u])
  <2>1. CASE mem' = Cancel(mem, h.tab) /\ Pop
    <3>1. QueuesOK' /\ Dispatches
      BY <1>1, <1>2, <1>3, <2>1, TaskPops DEF Pop, Dispatches
    <3> QED BY <1>2, <2>1, <3>1, CancelIs DEF Alike, Keeps
  <2>2. CASE Pop /\ UNCHANGED mem
    <3>1. QueuesOK' /\ Dispatches
      BY <1>1, <1>2, <1>3, <2>2, TaskPops DEF Pop, Dispatches
    <3> QED BY <1>2, <2>2, <3>1 DEF Alike, Keeps
  <2>3. CASE Dispatch(mem, h.tab, h)
    <3> HIDE DEF h
    <3> QED BY <1>1, <1>2, <1>3, <2>3, DispatchKeeps
  <2> QED BY <2>1, <2>2, <2>3 DEF StartActivating
<1>5. TInv'
  BY <1>2, <1>3, <1>4, AlikeTypes, TypesOf DEF Alike, Jobs
<1> QED BY <1>1, <1>3, <1>4, <1>5 DEF KeepsPending

LEMMA AdmitDoes ==
  ASSUME TInv, Admit
  PROVE  /\ TInv' /\ UNCHANGED <<disk, store, asked>>
         /\ tasks # <<>> /\ tasks[1].kind = "accept" /\ tasks[1].pc = "admit"
         /\ \E f : mem' = [mem EXCEPT !.mark = f]
         /\ \/ tasks' = Tail(tasks) /\ UNCHANGED mem
            \/ \E k \in TaskRecord :
                   /\ tasks' = [tasks EXCEPT ![1] = k]
                   /\ k.pc = "active" /\ k.kind = "accept"
                   /\ k.window = tasks[1].window /\ k.mark = tasks[1].mark
                   /\ k.late = tasks[1].late
                   /\ k.staged = {} /\ k.commits = <<>>
<1> DEFINE h == Head(tasks)
           k == [h EXCEPT !.previous = mem.mark[h.window], !.pc = "active"]
<1>1. /\ tasks # <<>> /\ h \in TaskRecord /\ TaskKnows(h) /\ Idle(store)
      /\ h = tasks[1] /\ h.pc = "admit"
  BY RunningIs, TypesOf DEF Admit, TaskKinds
<1>2. /\ mem \in Memory /\ QueuesOK /\ h.kind = "accept" /\ h.staged = {}
      /\ h.commits = <<>> /\ h.window \in Window
  BY <1>1, TypesOf DEF TaskKnows, TaskRecord
<1>3. UNCHANGED <<disk, store, asked>>
  BY DEF Admit
<1>4. CASE Pop /\ UNCHANGED mem
  <2>1. QueuesOK'
    BY <1>1, <1>2, <1>3, <1>4, TaskPops DEF Pop
  <2>2. TInv'
    BY <1>2, <1>3, <1>4, <2>1, AlikeTypes, TypesOf DEF Jobs
  <2>3. mem = [mem EXCEPT !.mark = mem.mark]
    BY <1>2 DEF Memory
  <2> QED BY <1>1, <1>2, <1>3, <1>4, <2>2, <2>3 DEF Pop
<1>5. CASE /\ mem' = [mem EXCEPT !.mark[h.window] = h.mark]
           /\ tasks' = [tasks EXCEPT ![1] = k]
  <2>1. /\ k \in TaskRecord /\ k.pc = "active" /\ k.kind = "accept"
        /\ k.window = h.window /\ k.mark = h.mark /\ k.late = h.late
        /\ k.staged = {} /\ k.commits = <<>>
    <3>1. mem.mark[h.window] \in Watermark \cup {None}
      BY <1>2, MemoryIs
    <3> DEFINE v == mem.mark[h.window]
    <3> HIDE DEF h, v
    <3>2. /\ [h EXCEPT !.previous = v, !.pc = "active"] \in TaskRecord
          /\ [h EXCEPT !.previous = v, !.pc = "active"].pc = "active"
          /\ [h EXCEPT !.previous = v, !.pc = "active"].kind = h.kind
          /\ [h EXCEPT !.previous = v, !.pc = "active"].window = h.window
          /\ [h EXCEPT !.previous = v, !.pc = "active"].mark = h.mark
          /\ [h EXCEPT !.previous = v, !.pc = "active"].late = h.late
          /\ [h EXCEPT !.previous = v, !.pc = "active"].staged = h.staged
          /\ [h EXCEPT !.previous = v, !.pc = "active"].commits = h.commits
      BY <1>1, <3>1 DEF TaskRecord, v
    <3> QED BY <1>2, <3>2 DEF v
  <2>2. h.mark \in Watermark
    BY <1>1 DEF TaskRecord
  <2> HIDE DEF k, h
  <2>3. TaskKnows(k)
    <3>1. h.mark \in Refresh
      BY <1>1, <1>2 DEF TaskKnows
    <3> QED BY <2>1, <3>1, EmptyIs DEF TaskKnows
  <2>4. QueuesOK'
    BY <1>1, <1>2, <1>3, <1>5, <2>1, <2>3, TaskContinues DEF TaskKinds
  <2>5. /\ mem' \in Memory /\ mem'.terminal = mem.terminal
        /\ \E f : mem' = [mem EXCEPT !.mark = f]
    <3> DEFINE f == [mem.mark EXCEPT ![h.window] = h.mark]
    <3>1. mem' = [mem EXCEPT !.mark = f]
      BY <1>5
    <3>2. f \in [Window -> Watermark \cup {None}]
      BY <1>2, <2>2, MemoryIs
    <3> HIDE DEF f
    <3> QED BY <1>2, <3>1, <3>2 DEF Memory
  <2>6. TInv'
    BY <1>3, <2>4, <2>5, AlikeTypes, TypesOf DEF Jobs
  <2> QED BY <1>1, <1>2, <1>3, <1>5, <2>1, <2>5, <2>6
<1> QED BY <1>4, <1>5 DEF Admit, Continue

\* What is staged next, or what all stages amount to
StageNext(k, jobs) ==
    \E t \in k.todo : \E n \in TaskRecord : \E j \in JobRecord :
        /\ mem' = mem
        /\ tasks' = [tasks EXCEPT ![1] = n]
        /\ n.pc = "stage" /\ n.kind = "accept" /\ n.window = k.window
        /\ n.mark = k.mark /\ n.late = k.late
        /\ n.staged = k.staged /\ n.commits = k.commits
        /\ store' = Append(jobs, j)
        /\ j.kind = "stage" /\ j.phase = "queued"
        /\ j.tab = t /\ j.window = k.window /\ j.revision = mem.revision[t]

StagesDone(k, jobs) ==
    /\ store' = jobs
    /\ Alike(StagedOperations(mem, k), mem')
    /\ \A u \in Tab : Keeps(StagedOperations(mem, k).pending[u], mem'.pending[u])
    /\ Dispatches

LEMMA StageDoes ==
  ASSUME QueuesOK, mem \in Memory, tasks # <<>>, NEW k, Accepts(k),
         tasks[1].kind = "accept", k.window = tasks[1].window,
         NEW jobs, Idle(jobs), Stage(k, jobs)
  PROVE  /\ QueuesOK' /\ mem' \in Memory /\ mem'.terminal = mem.terminal
         /\ StageNext(k, jobs) \/ StagesDone(k, jobs)
<1>1. k \in TaskRecord /\ k.kind = "accept" /\ k.mark \in Refresh
  BY DEF Accepts
<1>2. CASE k.todo # {}
  <2> DEFINE t == Min(k.todo)
             r == mem.revision[t]
             n == [k EXCEPT !.pc = "stage", !.todo = @ \ {t}]
             j == Job("stage", t, k.window, r, FALSE)
  <2>1. /\ tasks' = [tasks EXCEPT ![1] = n] /\ store' = Append(jobs, j)
        /\ mem' = mem
    BY <1>2 DEF Stage, Continue
  <2>2. k.todo \subseteq Tab /\ k.todo \subseteq Nat
    BY <1>1, TabRefreshAssumption DEF TaskRecord
  <2>3. t \in k.todo /\ t \in Tab
    BY <1>2, <2>2, MinIs
  <2> HIDE DEF t
  <2>4. r \in 0..MaxRevision /\ k.window \in Window
    BY <1>1, <2>3, MemoryIs DEF TaskRecord
  <2>5. /\ n \in TaskRecord /\ n.pc = "stage" /\ n.kind = "accept"
        /\ n.window = k.window /\ n.mark = k.mark /\ n.late = k.late
        /\ n.staged = k.staged /\ n.commits = k.commits
    BY <1>1 DEF TaskRecord
  <2>6. r = mem.revision[t]
    OBVIOUS
  <2> HIDE DEF r
  <2>7. /\ j \in JobRecord /\ j.kind = "stage" /\ j.tab = t
        /\ j.window = k.window /\ j.revision = r /\ j.phase = "queued"
    BY <2>3, <2>4 DEF Job, JobRecord
  <2> HIDE DEF n, j
  <2>8. TaskKnows(n)
    BY <1>1, <2>5 DEF TaskKnows, Accepts
  <2>9. JobKnows(j)
    BY <2>3, <2>4, <2>7 DEF JobKnows, TwoSteps
  <2>10. QueuesOK'
    BY <2>1, <2>5, <2>7, <2>8, <2>9, TaskWaits DEF TaskKinds
  <2>11. StageNext(k, jobs)
    BY <2>1, <2>3, <2>5, <2>6, <2>7 DEF StageNext
  <2> QED BY <2>1, <2>10, <2>11
<1>3. CASE k.todo = {}
  <2> DEFINE m == StagedOperations(mem, k)
  <2>1. /\ m \in Memory /\ m.terminal = mem.terminal
    BY <1>1, StagedOperationsAre
  <2>2. \/ mem' = m /\ tasks' = Tail(tasks)
        \/ k.active # None /\ Dispatch(m, k.active, k)
    BY <1>3 DEF Stage, Pop
  <2>3. store' = jobs
    BY <1>3 DEF Stage
  <2> HIDE DEF m
  <2>4. /\ QueuesOK' /\ mem' \in Memory /\ Alike(m, mem') /\ Dispatches
        /\ \A u \in Tab : Keeps(m.pending[u], mem'.pending[u])
    <3>1. CASE mem' = m /\ tasks' = Tail(tasks)
      <4>1. QueuesOK'
        BY <2>3, <3>1, TaskPops
      <4> QED BY <2>1, <3>1, <4>1 DEF Alike, Keeps, Dispatches
    <3>2. CASE k.active # None /\ Dispatch(m, k.active, k)
      <4>1. k.active \in Tab
        BY <1>1, <3>2 DEF TaskRecord
      <4> QED BY <1>1, <2>1, <2>3, <3>2, <4>1, DispatchKeeps
    <3> QED BY <2>2, <3>1, <3>2
  <2>5. StagesDone(k, jobs)
    BY <2>3, <2>4 DEF StagesDone, m
  <2> QED BY <2>1, <2>4, <2>5 DEF Alike
<1> QED BY <1>2, <1>3

\* A stage adds no removal.
LEMMA StageAdds ==
  ASSUME NEW k, NEW jobs, jobs \in Seq(JobRecord),
         Members(jobs) \subseteq Jobs,
         StageNext(k, jobs) \/ StagesDone(k, jobs)
  PROVE  \A j \in Jobs' : j \in Jobs \/ j.kind # "remove"
<1>1. CASE StageNext(k, jobs)
  <2>1. PICK j \in JobRecord : store' = Append(jobs, j) /\ j.kind = "stage"
    BY <1>1 DEF StageNext
  <2>2. Members(Append(jobs, j)) = Members(jobs) \cup {j}
    BY AppendIs
  <2> QED BY <2>1, <2>2 DEF Jobs
<1>2. CASE StagesDone(k, jobs)
  BY <1>2 DEF StagesDone, Jobs
<1> QED BY <1>1, <1>2

LEMMA ActiveTabDoes ==
  ASSUME TInv, ActiveTab
  PROVE  /\ TInv' /\ UNCHANGED <<disk, asked>>
         /\ tasks # <<>> /\ tasks[1].kind = "accept" /\ tasks[1].pc = "active"
         /\ \E k : /\ Accepts(k) /\ k.window = tasks[1].window
                   /\ k.mark = tasks[1].mark /\ k.late = tasks[1].late
                   /\ k.staged = {} /\ k.commits = <<>>
                   /\ StageNext(k, store) \/ StagesDone(k, store)
<1> DEFINE h == Head(tasks)
<1>1. /\ tasks # <<>> /\ h \in TaskRecord /\ TaskKnows(h) /\ Idle(store)
      /\ h = tasks[1] /\ h.pc = "active"
  BY RunningIs, TypesOf DEF ActiveTab, TaskKinds
<1>2. /\ mem \in Memory /\ QueuesOK /\ h.kind = "accept" /\ h.staged = {}
      /\ h.commits = <<>> /\ Accepts(h)
  BY <1>1, AcceptsIs, TypesOf DEF TaskKnows
<1>3. PICK t \in Tab \cup {None} : Stage([h EXCEPT !.active = t], store)
  BY DEF ActiveTab
<1> DEFINE k == [h EXCEPT !.active = t]
<1>4. /\ k \in TaskRecord /\ k.kind = h.kind /\ k.window = h.window
      /\ k.mark = h.mark /\ k.late = h.late
      /\ k.staged = h.staged /\ k.commits = h.commits
  BY <1>1 DEF TaskRecord
<1> HIDE DEF k, h
<1>5. Accepts(k)
  BY <1>2, <1>4 DEF Accepts
<1>6. UNCHANGED <<disk, asked>>
  BY DEF ActiveTab
<1>7. /\ QueuesOK' /\ mem' \in Memory /\ mem'.terminal = mem.terminal
      /\ StageNext(k, store) \/ StagesDone(k, store)
  <2>1. Stage(k, store)
    BY <1>3 DEF k
  <2> QED BY <1>1, <1>2, <1>4, <1>5, <2>1, StageDoes
<1>8. TInv'
  BY <1>6, <1>7, AlikeTypes, StageAdds, TypesOf DEF Jobs
<1> QED BY <1>1, <1>2, <1>4, <1>5, <1>6, <1>7, <1>8

LEMMA PreparedDoes ==
  ASSUME TInv, Prepared
  PROVE  /\ TInv' /\ UNCHANGED <<disk, store>>
         /\ tasks # <<>> /\ tasks[1].pc = "prepare" /\ tasks[1].tab \in Tab
         /\ Alike(mem, mem') /\ KeepsPending /\ Dispatches
         /\ \/ /\ IsCurrentRefresh(mem, tasks[1].tab) /\ UNCHANGED mem
               /\ \E k \in TaskRecord :
                      /\ tasks' = [tasks EXCEPT ![1] = k]
                      /\ k.pc = "dispatch" /\ k.tab = tasks[1].tab
               /\ \A u \in Tab : asked'[u] =
                      IF u = tasks[1].tab /\ ~mem.pending[u].late
                      THEN [window |-> mem.pending[u].window,
                            mark |-> mem.pending[u].mark]
                      ELSE asked[u]
            \/ /\ UNCHANGED asked /\ tasks' = Tail(tasks)
               /\ mem' = Cancel(mem, tasks[1].tab)
<1> DEFINE h == Head(tasks)
           t == h.tab
           op == mem.pending[t]
           k == [h EXCEPT !.pc = "dispatch"]
           a == [window |-> op.window, mark |-> op.mark]
<1>1. /\ tasks # <<>> /\ h \in TaskRecord /\ TaskKnows(h) /\ Idle(store)
      /\ h = tasks[1] /\ h.pc = "prepare"
  BY RunningIs, TypesOf DEF Prepared, TaskKinds
<1>2. /\ mem \in Memory /\ QueuesOK /\ h.staged = {} /\ h.commits = <<>>
      /\ t \in Tab
  BY <1>1, TypesOf DEF TaskKnows
<1>3. UNCHANGED <<disk, store>>
  BY DEF Prepared
<1>4. CASE IsCurrentRefresh(mem, t)
  <2>1. /\ tasks' = [tasks EXCEPT ![1] = k] /\ UNCHANGED mem
        /\ asked' = IF op.late THEN asked ELSE [asked EXCEPT ![t] = a]
    BY <1>4 DEF Prepared, Continue
  <2>2. op \in Operation
    BY <1>2, <1>4, MemoryIs DEF IsCurrentRefresh
  <2>3. a \in Asking
    BY <2>2 DEF Asking, Operation
  <2>4. /\ k \in TaskRecord /\ k.pc = "dispatch" /\ k.tab = t /\ k.kind = h.kind
        /\ k.window = h.window /\ k.staged = {} /\ k.commits = <<>>
        /\ k.mark = h.mark
    BY <1>1, <1>2 DEF TaskRecord
  <2>5. /\ asked' \in [Tab -> Asking \cup {None}]
        /\ \A u \in Tab : asked'[u] = IF u = t /\ ~mem.pending[u].late
               THEN [window |-> mem.pending[u].window, mark |-> mem.pending[u].mark]
               ELSE asked[u]
    <3>1. \A u \in Tab : u = t => mem.pending[u] = op
      OBVIOUS
    <3> HIDE DEF t, op
    <3>2. asked \in [Tab -> Asking \cup {None}]
      BY TypesOf
    <3> QED BY <1>2, <2>1, <2>3, <3>1, <3>2
  <2> HIDE DEF k
  <2>6. TaskKnows(k)
    BY <1>1, <1>2, <2>4 DEF TaskKnows
  <2>7. QueuesOK'
    BY <1>1, <1>2, <1>3, <2>1, <2>4, <2>6, TaskContinues DEF TaskKinds
  <2>8. TInv'
    BY <1>2, <1>3, <2>1, <2>5, <2>7, AlikeTypes DEF Jobs
  <2>9. Alike(mem, mem') /\ KeepsPending
    BY <2>1 DEF Alike, Keeps, KeepsPending
  <2>10. Dispatches
    BY <1>1, <2>1, <2>4 DEF Dispatches
  <2>11. \E p \in TaskRecord : /\ tasks' = [tasks EXCEPT ![1] = p]
                               /\ p.pc = "dispatch" /\ p.tab = tasks[1].tab
    BY <1>1, <2>1, <2>4
  <2>12. UNCHANGED mem
    BY <2>1
  <2> HIDE DEF op, a
  <2> QED BY <1>1, <1>2, <1>3, <1>4, <2>5, <2>8, <2>9, <2>10, <2>11, <2>12
<1>5. CASE ~IsCurrentRefresh(mem, t)
  <2>1. mem' = Cancel(mem, t) /\ tasks' = Tail(tasks) /\ UNCHANGED asked
    BY <1>5 DEF Prepared, Pop
  <2>2. QueuesOK'
    BY <1>1, <1>2, <1>3, <2>1, TaskPops
  <2>3. mem' \in Memory /\ Alike(mem, mem') /\ KeepsPending
    BY <1>2, <2>1, CancelIs DEF Alike, Keeps, KeepsPending
  <2>4. TInv'
    BY <1>3, <2>1, <2>2, <2>3, AlikeTypes, TypesOf DEF Jobs, Alike
  <2> QED BY <1>1, <1>2, <1>3, <2>1, <2>3, <2>4 DEF Dispatches
<1> QED BY <1>4, <1>5

LEMMA DispatchedDoes ==
  ASSUME TInv, Dispatched
  PROVE  /\ TInv' /\ UNCHANGED <<disk, store, asked>>
         /\ tasks # <<>> /\ tasks[1].pc = "dispatch" /\ tasks[1].tab \in Tab
         /\ Alike(mem, mem') /\ KeepsPending /\ tasks' = Tail(tasks)
         /\ mem' = Cancel(mem, tasks[1].tab)
<1> DEFINE h == Head(tasks)
<1>1. /\ tasks # <<>> /\ h \in TaskRecord /\ TaskKnows(h) /\ Idle(store)
      /\ h = tasks[1] /\ h.pc = "dispatch"
  BY RunningIs, TypesOf DEF Dispatched, TaskKinds
<1>2. mem \in Memory /\ QueuesOK /\ h.tab \in Tab
  BY <1>1, TypesOf DEF TaskKnows
<1>3. /\ UNCHANGED <<disk, store, asked>>
      /\ mem' = Cancel(mem, h.tab) /\ tasks' = Tail(tasks)
  BY DEF Dispatched, Pop
<1>4. QueuesOK'
  BY <1>1, <1>2, <1>3, TaskPops
<1>5. mem' \in Memory /\ Alike(mem, mem') /\ KeepsPending
  BY <1>2, <1>3, CancelIs DEF Alike, Keeps, KeepsPending
<1>6. TInv'
  BY <1>3, <1>4, <1>5, AlikeTypes, TypesOf DEF Jobs, Alike
<1> QED BY <1>1, <1>2, <1>3, <1>5, <1>6

-----------------------------------------------------------------------------
\* Updates of the storage.

\* What a job that depends on the memory stores: its own record, which is not
\* older than one the window had, or the watermark that is being admitted.
StoresOwn(j) ==
    /\ Updated(j) \in DurableState
    /\ Updated(j).window = j.window
    /\ disk[j.tab] # None /\ disk[j.tab].window = j.window =>
           Rank(disk[j.tab].mark) <= Rank(Updated(j).mark)

LEMMA UpdatedIs ==
  ASSUME TInv, NEW j \in Jobs, j.kind \in TwoSteps
  PROVE  /\ Updated(j) \in StoredState
         /\ \/ /\ j.kind = "open" /\ StoresOwn(j)
               /\ IsCurrentPanel(mem, j.tab, j.window, j.revision)
               /\ Updated(j).auto <=> IsOn(disk[j.tab])
            \/ /\ j.kind = "settings" /\ StoresOwn(j)
               /\ mem.revision[j.tab] = j.revision
               /\ Updated(j).auto = j.auto
            \/ /\ Stages(j) /\ Restage(disk[j.tab], Updated(j))
               /\ tasks # <<>> /\ Updated(j).mark = tasks[1].mark
            \/ /\ ~Stages(j) /\ Updated(j) = disk[j.tab]
               /\ ~( j.kind = "open"
                     /\ IsCurrentPanel(mem, j.tab, j.window, j.revision) )
               /\ ~(j.kind = "settings" /\ mem.revision[j.tab] = j.revision)
<1> DEFINE t == j.tab
           w == j.window
           old == disk[t]
           here == IF t \in StoredIn(w) THEN old.mark ELSE None
           d == DurableMark(here, mem.mark[w])
<1>1. /\ t \in Tab /\ w \in Window /\ j \in JobRecord
  BY JobIs, TypesOf DEF JobKnows
<1>2. old \in StoredState /\ (old # None => old \in DurableState)
  BY <1>1, TypesOf DEF StoredState
<1>3. t \in StoredIn(w) <=> old # None /\ old.window = w
  BY <1>1 DEF StoredIn
<1>4. here \in Watermark \cup {None} /\ mem.mark[w] \in Watermark \cup {None}
  BY <1>1, <1>2, <1>3, TypesOf, MemoryIs DEF DurableState
<1>5. here # None <=> old # None /\ old.window = w
  BY <1>2, <1>3, NoneIsNoRecord DEF DurableState
<1> HIDE DEF here
<1>6. d \in Watermark /\ (here # None => Rank(here) <= Rank(d))
  BY <1>4, DurableMarkIs
<1>7. old # None /\ old.window = w => Rank(old.mark) <= Rank(d)
  BY <1>3, <1>5, <1>6 DEF here
<1>8. CASE j.kind = "open" /\ IsCurrentPanel(mem, t, w, j.revision)
  <2> DEFINE b == old = None \/ old.auto
  <2>1. Updated(j) = [window |-> w, auto |-> b, mark |-> d]
    BY <1>8 DEF Updated, Stages, here
  <2>2. b \in BOOLEAN /\ (b <=> old = None \/ old.auto)
    OBVIOUS
  <2> HIDE DEF t, w, old, d, b
  <2>3. /\ Updated(j) \in DurableState /\ Updated(j).window = w
        /\ Updated(j).mark = d /\ (Updated(j).auto <=> old = None \/ old.auto)
    BY <1>1, <1>6, <2>1, <2>2 DEF DurableState
  <2> QED BY <1>7, <1>8, <2>3 DEF StoresOwn, StoredState, IsOn, t, w, old
<1>9. CASE j.kind = "settings" /\ mem.revision[t] = j.revision
  <2>1. Updated(j) = [window |-> w, auto |-> j.auto, mark |-> d]
    BY <1>9 DEF Updated, Stages, here
  <2>2. j.auto \in BOOLEAN
    BY <1>1 DEF JobRecord
  <2> HIDE DEF t, w, old, d
  <2>3. /\ Updated(j) \in DurableState /\ Updated(j).window = w
        /\ Updated(j).mark = d /\ Updated(j).auto = j.auto
    BY <1>1, <1>6, <2>1, <2>2 DEF DurableState
  <2> QED BY <1>7, <1>9, <2>3 DEF StoresOwn, StoredState, t, w, old
<1>10. CASE Stages(j)
  <2>1. Updated(j) = [old EXCEPT !.mark = Head(tasks).mark]
    BY <1>10 DEF Updated, Stages
  <2>2. old \in DurableState
    BY <1>2, <1>3, <1>10 DEF Stages
  <2>3. tasks # <<>>
    BY <1>10, TypesOf DEF Stages, QueuesOK, InStep, TaskKinds
  <2>4. Head(tasks) = tasks[1] /\ tasks[1].mark \in Watermark
    BY <2>3, TypesOf, HeadTaskIs DEF TaskRecord
  <2>5. Restage(old, Updated(j)) /\ Updated(j).mark = tasks[1].mark
    <3> HIDE DEF old
    <3> QED BY <2>1, <2>2, <2>4 DEF Restage, DurableState
  <2> QED BY <1>10, <2>3, <2>5 DEF Restage, StoredState
<1>11. CASE /\ ~(j.kind = "open" /\ IsCurrentPanel(mem, t, w, j.revision))
            /\ ~(j.kind = "settings" /\ mem.revision[t] = j.revision)
            /\ ~Stages(j)
  <2>1. Updated(j) = old
    BY <1>11 DEF Updated
  <2> QED BY <1>2, <1>11, <2>1
<1> QED BY <1>8, <1>9, <1>10, <1>11

LEMMA UpdateDoes ==
  ASSUME TInv, Update
  PROVE  /\ TInv' /\ UNCHANGED <<mem, tasks>>
         /\ store # <<>> /\ store[1] \in Jobs
         /\ store[1].kind \in TwoSteps /\ store[1].phase = "queued"
         /\ store[1].tab \in Tab /\ store[1].window \in Window
         /\ \E j \in JobRecord :
                /\ store' = [store EXCEPT ![1] = j]
                /\ j.kind = store[1].kind /\ j.tab = store[1].tab
                /\ j.window = store[1].window /\ j.revision = store[1].revision
                /\ j.auto = store[1].auto /\ j.fenced = store[1].fenced
                /\ j.phase \in {"done", "failed"}
                /\ j.found.after = Updated(store[1])
                /\ j.found.before = IF Stages(store[1]) THEN disk[j.tab] ELSE None
                /\ disk'[j.tab] \in {disk[j.tab], Updated(store[1])}
                /\ j.phase = "done" => disk'[j.tab] = Updated(store[1])
         /\ \A t \in Tab \ {store[1].tab} : disk'[t] = disk[t]
         /\ \A t \in Tab : asked'[t] =
                IF disk'[t] # None /\ asked[t] # None
                   /\ disk'[t].window # asked[t].window
                THEN None ELSE asked[t]
<1> DEFINE h == Head(store)
           after == Updated(h)
           before == IF Stages(h) THEN disk[h.tab] ELSE None
           f == [before |-> before, after |-> after]
<1>1. /\ store # <<>> /\ h.kind \in TwoSteps /\ h.phase = "queued"
      /\ UNCHANGED <<mem, tasks>>
  BY DEF Update
<1>2. /\ h = store[1] /\ h \in Jobs /\ h \in JobRecord /\ JobKnows(h)
      /\ store \in Seq(JobRecord) /\ QueuesOK
  BY <1>1, TypesOf, HeadJobIs
<1>3. h.tab \in Tab /\ h.window \in Window
  BY <1>1, <1>2 DEF JobKnows
<1>4. PICK o \in Outcome :
          /\ disk' = IF o.effect THEN [disk EXCEPT ![h.tab] = after] ELSE disk
          /\ store' = [store EXCEPT ![1] =
                 [h EXCEPT !.phase = IF o.ok THEN "done" ELSE "failed",
                           !.found = f]]
  BY DEF Update
<1>5. o.ok => o.effect
  BY DEF Outcome
<1>6. asked' = [t \in Tab |-> IF disk'[t] # None /\ asked[t] # None
                                 /\ disk'[t].window # asked[t].window
                              THEN None ELSE asked[t]]
  BY DEF Update
<1>7. after \in StoredState /\ before \in StoredState
  BY <1>1, <1>2, <1>3, UpdatedIs, TypesOf DEF StoredState
<1>8. Stages(h) => Restage(before, after)
  BY <1>1, <1>2, UpdatedIs DEF Stages
<1>9. /\ disk' \in [Tab -> StoredState]
      /\ disk'[h.tab] \in {disk[h.tab], after} /\ (o.ok => disk'[h.tab] = after)
      /\ \A t \in Tab \ {h.tab} : disk'[t] = disk[t]
  <2> HIDE DEF after, h
  <2>1. disk \in [Tab -> StoredState]
    BY TypesOf
  <2>2. disk' = [disk EXCEPT ![h.tab] = after] \/ (disk' = disk /\ ~o.ok)
    BY <1>4, <1>5
  <2> QED BY <1>3, <1>7, <2>1, <2>2
<1>10. asked' \in [Tab -> Asking \cup {None}]
  BY <1>6, TypesOf
<1> DEFINE p == IF o.ok THEN "done" ELSE "failed"
           j == [h EXCEPT !.phase = p, !.found = f]
<1>11. /\ f \in [before : StoredState, after : StoredState]
       /\ f.before = before /\ f.after = after
  BY <1>7
<1>12. p \in {"done", "failed"} /\ (p = "done" => o.ok)
  OBVIOUS
<1> HIDE DEF f, before, after, p, h
<1>13. /\ j \in JobRecord /\ j.kind = h.kind /\ j.tab = h.tab
       /\ j.window = h.window /\ j.revision = h.revision
       /\ j.auto = h.auto /\ j.fenced = h.fenced
       /\ j.phase = p /\ j.found = f
  BY <1>2, <1>11, <1>12 DEF JobRecord
<1>14. store' = [store EXCEPT ![1] = j]
  BY <1>4 DEF p
<1> HIDE DEF j
<1>15. f \in Found
  BY <1>11 DEF Found
<1>16. JobKnows(j)
  <2>1. before # None => Restage(before, after)
    BY <1>8 DEF before
  <2>2. j.found.before = before /\ j.found.after = after
    BY <1>11, <1>13
  <2>3. j.kind \in TwoSteps /\ j.kind \notin {"close", "remove", "window", "epoch", "rollback"}
    BY <1>1, <1>13 DEF TwoSteps
  <2>4. j.kind = "open" => j.revision # 0
    BY <1>2, <1>13 DEF JobKnows
  <2>5. j.tab \in Tab /\ j.window \in Window
    BY <1>3, <1>13
  <2> QED BY <1>13, <1>15, <2>1, <2>2, <2>3, <2>4, <2>5 DEF JobKnows
<1>17. /\ StoreOK(store') /\ Len(store') = Len(store)
       /\ Members(store') \subseteq Members(store) \cup {j}
  <2>1. Ordered(store) /\ \A i \in Members(store) : JobKnows(i)
    BY <1>2 DEF QueuesOK, StoreOK
  <2>2. /\ store' \in Seq(JobRecord) /\ Len(store') = Len(store)
        /\ Members(store') \subseteq Members(store) \cup {j}
    <3> DEFINE s == [store EXCEPT ![1] = j]
    <3>1. /\ s \in Seq(JobRecord) /\ Len(s) = Len(store)
          /\ Members(s) \subseteq Members(store) \cup {j}
      BY <1>1, <1>2, <1>13, PutIs
    <3> QED BY <1>14, <3>1
  <2>3. Ordered(store')
    BY <1>1, <1>2, <1>13, <1>14, <2>1, OrderedPut
  <2> QED BY <1>16, <2>1, <2>2, <2>3 DEF StoreOK
<1>18. QueuesOK'
  <2>1. InStep'
    BY <1>1, <1>2, <1>13, <1>17 DEF QueuesOK, InStep, Jobs
  <2> QED BY <1>1, <1>2, <1>17, <2>1 DEF QueuesOK, TasksOK
<1>19. RemovalsKnown'
  BY <1>1, <1>2, <1>13, <1>17, RemovalsStay DEF Jobs, TwoSteps
<1>20. TInv'
  BY <1>1, <1>9, <1>10, <1>18, <1>19, TypesOf DEF TInv, DataOK
<1>21. /\ j.found.after = Updated(store[1])
       /\ j.found.before = IF Stages(store[1]) THEN disk[j.tab] ELSE None
       /\ disk'[j.tab] \in {disk[j.tab], Updated(store[1])}
       /\ j.phase = "done" => disk'[j.tab] = Updated(store[1])
  <2>1. after = Updated(store[1]) /\ before = IF Stages(store[1]) THEN disk[store[1].tab] ELSE None
    BY <1>2 DEF after, before, h
  <2> QED BY <1>2, <1>9, <1>11, <1>12, <1>13, <2>1
<1>22. \A t \in Tab : asked'[t] =
           IF disk'[t] # None /\ asked[t] # None
              /\ disk'[t].window # asked[t].window
           THEN None ELSE asked[t]
  BY <1>6
<1>23. \E i \in JobRecord :
                /\ store' = [store EXCEPT ![1] = i]
                /\ i.kind = store[1].kind /\ i.tab = store[1].tab
                /\ i.window = store[1].window /\ i.revision = store[1].revision
                /\ i.auto = store[1].auto /\ i.fenced = store[1].fenced
                /\ i.phase \in {"done", "failed"}
                /\ i.found.after = Updated(store[1])
                /\ i.found.before = IF Stages(store[1]) THEN disk[i.tab] ELSE None
                /\ disk'[i.tab] \in {disk[i.tab], Updated(store[1])}
                /\ i.phase = "done" => disk'[i.tab] = Updated(store[1])
  BY <1>2, <1>12, <1>13, <1>14, <1>21
<1> QED BY <1>1, <1>2, <1>3, <1>9, <1>20, <1>22, <1>23

-----------------------------------------------------------------------------
\* Calls that end.

LEMMA EndsIs ==
  ASSUME QueuesOK, NEW kind, NEW o, Ends(kind, o)
  PROVE  /\ store # <<>> /\ Head(store) = store[1] /\ store[1] \in Jobs
         /\ store[1] \in JobRecord /\ JobKnows(store[1])
         /\ store[1].kind = kind /\ store \in Seq(JobRecord)
         /\ kind \in TwoSteps =>
                store[1].phase = IF o.ok THEN "done" ELSE "failed"
         /\ kind \notin TwoSteps => o \in Outcome
<1>1. store # <<>>
  BY DEF Ends
<1> QED BY <1>1, HeadJobIs, QueuesAreTyped DEF Ends

LEMMA RestIs ==
  ASSUME QueuesOK, store # <<>>, store' = Tail(store)
  PROVE  Jobs' \subseteq Jobs
BY QueuesAreTyped, TailIs DEF Jobs

LEMMA CallEndsTypes ==
  ASSUME TInv, store # <<>>, NEW m \in Memory, m.terminal = mem.terminal,
         CallEnds(m), disk' \in [Tab -> StoredState]
  PROVE  TInv' /\ Jobs' \subseteq Jobs
<1>1. /\ mem' = m /\ store' = Tail(store) /\ UNCHANGED <<tasks, asked>>
  BY DEF CallEnds, Rest
<1>2. QueuesOK' /\ Jobs' \subseteq Jobs
  BY <1>1, CallLeaves, RestIs, TypesOf
<1>3. RemovalsKnown'
  BY <1>1, <1>2, RemovalsStay
<1> QED BY <1>1, <1>2, <1>3, TypesOf DEF TInv, DataOK

LEMMA InitializedDoes ==
  ASSUME TInv, Initialized
  PROVE  /\ TInv' /\ Jobs' \subseteq Jobs /\ store # <<>> /\ store' = Tail(store)
         /\ \E f : mem' = [mem EXCEPT !.mark = f]
         /\ UNCHANGED <<disk, tasks, asked>>
<1> DEFINE S(w) == {disk[t].mark : t \in StoredIn(w)}
           f == [w \in Window |-> Newest(S(w), mem.mark[w])]
           m == [mem EXCEPT !.mark = f]
<1>1. store # <<>> /\ mem \in Memory
  BY EndsIs, TypesOf DEF Initialized
<1>2. m = [mem EXCEPT !.mark = [w \in Window |->
              Newest({disk[t].mark : t \in StoredIn(w)}, @[w])]]
  BY <1>1 DEF Memory
<1>3. CallEnds(m) /\ UNCHANGED disk
  BY <1>2 DEF Initialized
<1>4. \A w \in Window : S(w) \subseteq Watermark
  BY TypesOf DEF StoredIn, StoredState, DurableState
<1> HIDE DEF S
<1>5. f \in [Window -> Watermark \cup {None}]
  <2>1. \A w \in Window : Newest(S(w), mem.mark[w]) \in Watermark \cup {None}
    <3> SUFFICES ASSUME NEW w \in Window
                 PROVE  Newest(S(w), mem.mark[w]) \in Watermark \cup {None}
      OBVIOUS
    <3> DEFINE s == S(w)
               c == mem.mark[w]
    <3>1. s \subseteq Watermark /\ c \in Watermark \cup {None}
      BY <1>1, <1>4, MemoryIs
    <3> HIDE DEF s, c
    <3>2. Newest(s, c) \in Watermark \cup {None}
      BY <3>1, NewestIs
    <3> QED BY <3>2 DEF s, c
  <2> QED BY <2>1
<1> HIDE DEF f
<1>6. m \in Memory /\ m.terminal = mem.terminal
  BY <1>1, <1>5 DEF Memory
<1>7. TInv' /\ Jobs' \subseteq Jobs
  BY <1>1, <1>3, <1>6, CallEndsTypes, TypesOf
<1> QED BY <1>1, <1>3, <1>7 DEF CallEnds, Rest

\* What is left of a panel whose opening failed
OpenFailed(t, w, r) ==
    Retire([Ousted(Cancel(mem, t), t, w) EXCEPT
               !.panel[t] = IF @ = w THEN None ELSE @], t, r)

LEMMA OpenFailedIs ==
  ASSUME mem \in Memory, NEW t \in Tab, NEW w \in Window, NEW r, mem.revision[t] = r
  PROVE  /\ OpenFailed(t, w, r) \in Memory
         /\ OpenFailed(t, w, r).mark = mem.mark
         /\ OpenFailed(t, w, r).terminal = mem.terminal
         /\ OpenFailed(t, w, r).removing = mem.removing
         /\ OpenFailed(t, w, r).revision[t] = 0
         /\ OpenFailed(t, w, r).pending[t] = None
         /\ OpenFailed(t, w, r).panel[t] = IF mem.panel[t] = w THEN None ELSE mem.panel[t]
         /\ OpenFailed(t, w, r).participant[t] =
                IF mem.participant[t] = w THEN None ELSE mem.participant[t]
         /\ \A u \in Tab \ {t} :
                /\ OpenFailed(t, w, r).revision[u] = mem.revision[u]
                /\ OpenFailed(t, w, r).panel[u] = mem.panel[u]
                /\ OpenFailed(t, w, r).pending[u] = mem.pending[u]
                /\ OpenFailed(t, w, r).participant[u] = mem.participant[u]
<1> DEFINE c == Cancel(mem, t)
           m == Ousted(c, t, w)
           p == IF m.panel[t] = w THEN None ELSE m.panel[t]
           n == [m EXCEPT !.panel[t] = p]
<1>1. /\ c \in Memory
      /\ c.mark = mem.mark /\ c.panel = mem.panel
      /\ c.participant = mem.participant /\ c.revision = mem.revision
      /\ c.terminal = mem.terminal /\ c.removing = mem.removing
      /\ \A u \in Tab : c.pending[u] = IF u = t THEN None ELSE mem.pending[u]
  BY CancelIs
<1> HIDE DEF c
<1>2. /\ m \in Memory
      /\ m.mark = c.mark /\ m.panel = c.panel /\ m.revision = c.revision
      /\ m.pending = c.pending /\ m.terminal = c.terminal /\ m.removing = c.removing
      /\ \A u \in Tab : m.participant[u] =
                IF u = t /\ c.participant[t] = w THEN None ELSE c.participant[u]
  BY <1>1, OustedIs
<1> HIDE DEF m
<1>3. p \in Window \cup {None}
  BY <1>2, MemoryIs
<1>4. OpenFailed(t, w, r) = Retire(n, t, r)
  <2>1. n = [m EXCEPT !.panel[t] = IF @ = w THEN None ELSE @]
    BY <1>2 DEF Memory
  <2> QED BY <2>1 DEF OpenFailed, c, m
<1>5. p = IF mem.panel[t] = w THEN None ELSE mem.panel[t]
  BY <1>1, <1>2
<1> HIDE DEF p
<1>6. /\ n \in Memory
      /\ n.mark = m.mark /\ n.revision = m.revision /\ n.participant = m.participant
      /\ n.pending = m.pending /\ n.terminal = m.terminal /\ n.removing = m.removing
      /\ n.panel[t] = p /\ \A u \in Tab \ {t} : n.panel[u] = m.panel[u]
  BY <1>2, <1>3 DEF Memory
<1> HIDE DEF n
<1>7. /\ Retire(n, t, r) \in Memory
      /\ Retire(n, t, r).mark = n.mark /\ Retire(n, t, r).panel = n.panel
      /\ Retire(n, t, r).participant = n.participant
      /\ Retire(n, t, r).pending = n.pending
      /\ Retire(n, t, r).terminal = n.terminal
      /\ Retire(n, t, r).removing = n.removing
      /\ \A u \in Tab : Retire(n, t, r).revision[u] =
                IF u = t /\ n.revision[t] = r THEN 0 ELSE n.revision[u]
  BY <1>6, RetireIs
<1> QED BY <1>1, <1>2, <1>4, <1>5, <1>6, <1>7

LEMMA OpenEndsDoes ==
  ASSUME TInv, OpenEnds
  PROVE  /\ TInv' /\ Jobs' \subseteq Jobs /\ store # <<>> /\ store' = Tail(store)
         /\ UNCHANGED <<disk, tasks, asked>>
         /\ store[1] \in Jobs /\ store[1].kind = "open"
         /\ store[1].tab \in Tab /\ store[1].window \in Window
         /\ LET j == store[1]
                mine == IsCurrentPanel(mem, j.tab, j.window, j.revision)
            IN  \/ /\ j.phase = "done" /\ mine /\ IsOn(j.found.after)
                   /\ mem' = [mem EXCEPT !.participant[j.tab] = j.window]
                \/ /\ j.phase = "done" /\ mine /\ ~IsOn(j.found.after)
                   /\ mem' = Ousted(mem, j.tab, j.window)
                \/ /\ j.phase = "done" /\ ~mine /\ mem' = mem
                \/ /\ j.phase = "failed" /\ mem.revision[j.tab] = j.revision
                   /\ mem' = OpenFailed(j.tab, j.window, j.revision)
                \/ /\ j.phase = "failed" /\ mem.revision[j.tab] # j.revision
                   /\ mem' = mem
<1> DEFINE j == store[1]
           t == j.tab
           w == j.window
           r == j.revision
           mine == IsCurrentPanel(mem, t, w, r)
<1>1. PICK o \in Outcomes :
          /\ Ends("open", o)
          /\ \/ /\ o.ok /\ mine /\ IsOn(j.found.after)
                /\ CallEnds([mem EXCEPT !.participant[t] = w])
             \/ o.ok /\ mine /\ ~IsOn(j.found.after) /\ CallEnds(Ousted(mem, t, w))
             \/ o.ok /\ ~mine /\ CallEnds(mem)
             \/ ~o.ok /\ mem.revision[t] = r /\ CallEnds(OpenFailed(t, w, r))
             \/ ~o.ok /\ mem.revision[t] # r /\ CallEnds(mem)
  <2>1. \E o : Ends("open", o)
    BY DEF OpenEnds
  <2>2. Head(store) = store[1]
    BY <2>1, EndsIs, TypesOf
  <2> QED BY <2>2 DEF OpenEnds, OpenFailed
<1>2. /\ store # <<>> /\ j \in Jobs /\ j.kind = "open" /\ JobKnows(j)
      /\ j.phase = IF o.ok THEN "done" ELSE "failed"
  BY <1>1, EndsIs, TypesOf DEF TwoSteps
<1>3. t \in Tab /\ w \in Window /\ mem \in Memory
  BY <1>2, TypesOf DEF JobKnows, TwoSteps
<1> HIDE DEF j, t, w, r, mine
<1>4. PICK m \in Memory :
          /\ m.terminal = mem.terminal /\ CallEnds(m)
          /\ \/ /\ o.ok /\ mine /\ IsOn(j.found.after)
                /\ m = [mem EXCEPT !.participant[t] = w]
             \/ o.ok /\ mine /\ ~IsOn(j.found.after) /\ m = Ousted(mem, t, w)
             \/ o.ok /\ ~mine /\ m = mem
             \/ ~o.ok /\ mem.revision[t] = r /\ m = OpenFailed(t, w, r)
             \/ ~o.ok /\ mem.revision[t] # r /\ m = mem
  <2>1. /\ [mem EXCEPT !.participant[t] = w] \in Memory
        /\ [mem EXCEPT !.participant[t] = w].terminal = mem.terminal
    BY <1>3 DEF Memory
  <2>2. Ousted(mem, t, w) \in Memory /\ Ousted(mem, t, w).terminal = mem.terminal
    BY <1>3, OustedIs
  <2>3. mem.revision[t] = r => /\ OpenFailed(t, w, r) \in Memory
                               /\ OpenFailed(t, w, r).terminal = mem.terminal
    BY <1>3, OpenFailedIs
  <2> QED BY <1>1, <1>3, <2>1, <2>2, <2>3
<1>5. UNCHANGED disk
  BY DEF OpenEnds
<1>6. TInv' /\ Jobs' \subseteq Jobs
  BY <1>2, <1>4, <1>5, CallEndsTypes, TypesOf
<1>7. mem' = m /\ store' = Tail(store) /\ UNCHANGED <<tasks, asked>>
  BY <1>4 DEF CallEnds, Rest
<1> QED BY <1>2, <1>3, <1>4, <1>5, <1>6, <1>7 DEF j, t, w, r, mine

LEMMA SettingsEndDoes ==
  ASSUME TInv, SettingsEnd
  PROVE  /\ TInv' /\ Jobs' \subseteq Jobs /\ store # <<>> /\ store' = Tail(store)
         /\ UNCHANGED <<disk, tasks, asked>>
         /\ store[1] \in Jobs /\ store[1].kind = "settings"
         /\ store[1].tab \in Tab /\ store[1].window \in Window
         /\ LET j == store[1]
                mine == IsCurrentPanel(mem, j.tab, j.window, j.revision)
            IN  \/ /\ mine /\ ~j.auto
                   /\ mem' = Ousted(mem, j.tab, j.window)
                \/ /\ mine /\ j.auto /\ j.phase = "done"
                   /\ mem' = [mem EXCEPT !.participant[j.tab] = j.window]
                \/ /\ ~mine \/ (j.auto /\ j.phase = "failed")
                   /\ mem' = mem
<1> DEFINE j == store[1]
           t == j.tab
           w == j.window
           mine == IsCurrentPanel(mem, t, w, j.revision)
<1>1. PICK o \in Outcomes :
          /\ Ends("settings", o)
          /\ \/ mine /\ ~j.auto /\ CallEnds(Ousted(mem, t, w))
             \/ /\ mine /\ j.auto /\ o.ok
                /\ CallEnds([mem EXCEPT !.participant[t] = w])
             \/ (~mine \/ (j.auto /\ ~o.ok)) /\ CallEnds(mem)
  <2>1. \E o : Ends("settings", o)
    BY DEF SettingsEnd
  <2>2. Head(store) = store[1]
    BY <2>1, EndsIs, TypesOf
  <2> QED BY <2>2 DEF SettingsEnd
<1>2. /\ store # <<>> /\ j \in Jobs /\ j.kind = "settings" /\ JobKnows(j)
      /\ j.phase = IF o.ok THEN "done" ELSE "failed"
  BY <1>1, EndsIs, TypesOf DEF TwoSteps
<1>3. t \in Tab /\ w \in Window /\ mem \in Memory
  BY <1>2, TypesOf DEF JobKnows, TwoSteps
<1> HIDE DEF j, t, w, mine
<1>4. PICK m \in Memory :
          /\ m.terminal = mem.terminal /\ CallEnds(m)
          /\ \/ mine /\ ~j.auto /\ m = Ousted(mem, t, w)
             \/ /\ mine /\ j.auto /\ o.ok
                /\ m = [mem EXCEPT !.participant[t] = w]
             \/ (~mine \/ (j.auto /\ ~o.ok)) /\ m = mem
  <2>1. /\ [mem EXCEPT !.participant[t] = w] \in Memory
        /\ [mem EXCEPT !.participant[t] = w].terminal = mem.terminal
    BY <1>3 DEF Memory
  <2>2. Ousted(mem, t, w) \in Memory /\ Ousted(mem, t, w).terminal = mem.terminal
    BY <1>3, OustedIs
  <2> QED BY <1>1, <1>3, <2>1, <2>2
<1>5. UNCHANGED disk
  BY DEF SettingsEnd
<1>6. TInv' /\ Jobs' \subseteq Jobs
  BY <1>2, <1>4, <1>5, CallEndsTypes, TypesOf
<1>7. mem' = m /\ store' = Tail(store) /\ UNCHANGED <<tasks, asked>>
  BY <1>4 DEF CallEnds, Rest
<1> QED BY <1>2, <1>3, <1>4, <1>5, <1>6, <1>7 DEF j, t, w, mine

LEMMA CloseEndsDoes ==
  ASSUME TInv, CloseEnds
  PROVE  /\ TInv' /\ Jobs' \subseteq Jobs /\ store # <<>> /\ store' = Tail(store)
         /\ UNCHANGED <<disk, tasks, asked>>
         /\ store[1] \in Jobs /\ store[1].kind = "close" /\ store[1].tab \in Tab
         /\ mem' = Retire(mem, store[1].tab, store[1].revision)
<1> DEFINE j == store[1]
<1>1. /\ store # <<>> /\ Head(store) = j /\ j \in Jobs /\ j.kind = "close"
      /\ JobKnows(j)
  BY EndsIs, TypesOf DEF CloseEnds
<1>2. j.tab \in Tab /\ mem \in Memory
  BY <1>1, TypesOf DEF JobKnows
<1> DEFINE m == Retire(mem, j.tab, j.revision)
<1>3. m \in Memory /\ m.terminal = mem.terminal
  BY <1>2, RetireIs
<1>4. CallEnds(m) /\ UNCHANGED disk
  BY <1>1 DEF CloseEnds
<1> HIDE DEF m, j
<1>5. TInv' /\ Jobs' \subseteq Jobs
  BY <1>1, <1>3, <1>4, CallEndsTypes, TypesOf
<1> QED BY <1>1, <1>2, <1>4, <1>5 DEF CallEnds, Rest, m, j

LEMMA RemoveEndsDoes ==
  ASSUME TInv, RemoveEnds
  PROVE  /\ TInv' /\ Jobs' \subseteq Jobs /\ store # <<>> /\ store' = Tail(store)
         /\ UNCHANGED <<tasks, asked>>
         /\ store[1] \in Jobs /\ store[1].kind = "remove" /\ store[1].tab \in Tab
         /\ mem' = Retire(mem, store[1].tab, store[1].revision)
         /\ disk'[store[1].tab] \in {disk[store[1].tab], None}
         /\ \A t \in Tab \ {store[1].tab} : disk'[t] = disk[t]
<1> DEFINE j == store[1]
<1>1. /\ store # <<>> /\ Head(store) = j /\ j \in Jobs /\ j.kind = "remove"
      /\ JobKnows(j)
  BY EndsIs, TypesOf DEF RemoveEnds
<1>2. j.tab \in Tab /\ mem \in Memory /\ disk \in [Tab -> StoredState]
  BY <1>1, TypesOf DEF JobKnows
<1> DEFINE m == Retire(mem, j.tab, j.revision)
<1>3. m \in Memory /\ m.terminal = mem.terminal
  BY <1>2, RetireIs
<1>4. /\ CallEnds(m)
      /\ disk' = disk \/ disk' = [disk EXCEPT ![j.tab] = None]
  BY <1>1 DEF RemoveEnds
<1> HIDE DEF m, j
<1>5. /\ disk' \in [Tab -> StoredState]
      /\ disk'[j.tab] \in {disk[j.tab], None}
      /\ \A t \in Tab \ {j.tab} : disk'[t] = disk[t]
  BY <1>2, <1>4 DEF StoredState
<1>6. TInv' /\ Jobs' \subseteq Jobs
  BY <1>1, <1>3, <1>4, <1>5, CallEndsTypes
<1> QED BY <1>1, <1>2, <1>4, <1>5, <1>6 DEF CallEnds, Rest, m, j

LEMMA WindowEndsDoes ==
  ASSUME TInv, WindowEnds
  PROVE  /\ TInv' /\ Jobs' \subseteq Jobs /\ store # <<>> /\ store' = Tail(store)
         /\ UNCHANGED <<disk, tasks, asked>>
         /\ store[1] \in Jobs /\ store[1].kind = "window"
         /\ mem'.panel = mem.panel /\ mem'.participant = mem.participant
         /\ mem'.pending = mem.pending /\ mem'.terminal = mem.terminal
         /\ mem'.removing \subseteq mem.removing
         /\ \A t \in Tab :
                mem'.revision[t] = IF \E f \in store[1].fenced :
                                         f.tab = t /\ f.revision = mem.revision[t]
                                   THEN 0 ELSE mem.revision[t]
<1> DEFINE j == store[1]
           w == j.window
           m == [mem EXCEPT !.mark[w] = None, !.removing = @ \ {w}]
           r == [t \in Tab |-> IF [tab |-> t, revision |-> mem.revision[t]] \in j.fenced
                               THEN 0 ELSE mem.revision[t]]
           n == [m EXCEPT !.revision = r]
<1>1. /\ store # <<>> /\ Head(store) = j /\ j \in Jobs /\ j.kind = "window"
      /\ JobKnows(j) /\ j \in JobRecord
  BY EndsIs, TypesOf DEF WindowEnds
<1>2. w \in Window /\ mem \in Memory
  BY <1>1, TypesOf DEF JobKnows
<1>3. /\ m \in Memory /\ m.terminal = mem.terminal /\ m.panel = mem.panel
      /\ m.participant = mem.participant /\ m.pending = mem.pending
      /\ m.revision = mem.revision /\ m.removing \subseteq mem.removing
  <2> DEFINE f == [mem.mark EXCEPT ![w] = None]
             x == mem.removing \ {w}
  <2>1. m = [mem EXCEPT !.mark = f, !.removing = x]
    BY <1>2 DEF Memory
  <2>2. f \in [Window -> Watermark \cup {None}] /\ x \subseteq Window
        /\ x \subseteq mem.removing
    BY <1>2, MemoryIs
  <2> HIDE DEF f, x, m
  <2> QED BY <1>2, <2>1, <2>2 DEF Memory
<1>4. CallEnds(n) /\ UNCHANGED disk
  <2>1. n = [m EXCEPT !.revision = [t \in Tab |->
               IF [tab |-> t, revision |-> @[t]] \in j.fenced
               THEN 0 ELSE @[t]]]
    <3> HIDE DEF m
    <3> QED BY <1>3 DEF Memory
  <2> QED BY <1>1, <2>1 DEF WindowEnds
<1> HIDE DEF m
<1>5. /\ r \in [Tab -> 0..MaxRevision]
      /\ \A t \in Tab : r[t] = IF \E f \in j.fenced :
                                      f.tab = t /\ f.revision = mem.revision[t]
                               THEN 0 ELSE mem.revision[t]
  <2>1. 0 \in 0..MaxRevision
    BY TabRefreshAssumption
  <2>2. j.fenced \subseteq [tab : Tab, revision : 1..MaxRevision]
    BY <1>1 DEF JobRecord
  <2>3. \A t \in Tab : [tab |-> t, revision |-> mem.revision[t]] \in j.fenced
            <=> \E f \in j.fenced : f.tab = t /\ f.revision = mem.revision[t]
    BY <2>2
  <2> QED BY <1>2, <2>1, <2>3, MemoryIs
<1> HIDE DEF r
<1>6. /\ n \in Memory /\ n.terminal = mem.terminal /\ n.panel = mem.panel
      /\ n.participant = mem.participant /\ n.pending = mem.pending
      /\ n.revision = r /\ n.removing \subseteq mem.removing
  BY <1>3, <1>5 DEF Memory
<1> HIDE DEF n, j
<1>7. TInv' /\ Jobs' \subseteq Jobs
  BY <1>1, <1>4, <1>6, CallEndsTypes, TypesOf
<1>8. mem' = n /\ store' = Tail(store) /\ UNCHANGED <<tasks, asked>>
  BY <1>4 DEF CallEnds, Rest
<1> QED BY <1>1, <1>4, <1>5, <1>6, <1>7, <1>8 DEF j

-----------------------------------------------------------------------------
\* Jobs of a task that end.

\* A job that a task waits for has ended.
LEMMA TaskJobIs ==
  ASSUME TInv, NEW kind \in TaskKinds, NEW o, Ends(kind, o)
  PROVE  /\ store # <<>> /\ Head(store) = store[1] /\ store[1] \in Jobs
         /\ store[1] \in JobRecord /\ JobKnows(store[1])
         /\ store[1].kind = kind /\ store \in Seq(JobRecord)
         /\ Idle(Tail(store)) /\ Members(Tail(store)) \subseteq Jobs
         /\ tasks # <<>> /\ Head(tasks) = tasks[1] /\ 1 \in DOMAIN tasks
         /\ tasks[1] \in TaskRecord /\ TaskKnows(tasks[1])
         /\ tasks[1].pc = kind
         /\ kind # "load" => store[1].window = tasks[1].window
         /\ mem \in Memory
<1>1. /\ store # <<>> /\ Head(store) = store[1] /\ store[1] \in Jobs
      /\ store[1] \in JobRecord /\ JobKnows(store[1])
      /\ store[1].kind = kind /\ store \in Seq(JobRecord) /\ QueuesOK
  BY EndsIs, TypesOf
<1>2. Idle(Tail(store)) /\ Members(Tail(store)) \subseteq Jobs
  BY <1>1, IdleRest, TailIs DEF Jobs
<1>3. /\ tasks # <<>> /\ tasks[1].pc = kind
      /\ kind # "load" => store[1].window = tasks[1].window
  BY <1>1 DEF QueuesOK, InStep
<1> QED BY <1>1, <1>2, <1>3, HeadTaskIs, TypesOf

LEMMA AcceptLoadedDoes ==
  ASSUME TInv, AcceptLoaded
  PROVE  /\ TInv' /\ Jobs' \subseteq Jobs /\ store # <<>> /\ store' = Tail(store)
         /\ UNCHANGED <<disk, mem, asked>>
         /\ store[1] \in Jobs /\ store[1].kind = "load"
         /\ tasks # <<>> /\ tasks[1].kind = "accept" /\ tasks[1].pc = "load"
         /\ \/ tasks' = Tail(tasks)
            \/ \E k \in TaskRecord :
                   /\ tasks' = [tasks EXCEPT ![1] = k]
                   /\ k.pc = "admit" /\ k.kind = "accept"
                   /\ k.window = tasks[1].window /\ k.mark = tasks[1].mark
                   /\ k.late = tasks[1].late
                   /\ k.staged = {} /\ k.commits = <<>>
                   /\ \A t \in Tab : disk[t] # None /\ disk[t].window = k.window =>
                          Rank(disk[t].mark) < Rank(k.mark)
<1> DEFINE h == tasks[1]
           inside == StoredIn(h.window)
           S == {disk[t].mark : t \in inside}
           known == Newest(S, mem.mark[h.window])
           k == [h EXCEPT !.pc = "admit", !.todo = inside]
<1>1. /\ store # <<>> /\ store[1] \in Jobs /\ store[1].kind = "load"
      /\ Idle(Tail(store)) /\ Members(Tail(store)) \subseteq Jobs
      /\ tasks # <<>> /\ Head(tasks) = h /\ h \in TaskRecord /\ TaskKnows(h)
      /\ h.pc = "load" /\ mem \in Memory
  BY TaskJobIs DEF AcceptLoaded, TaskKinds
<1>2. /\ h.kind = "accept" /\ store' = Tail(store) /\ UNCHANGED <<disk, mem, asked>>
      /\ \/ tasks' = Tail(tasks)
         \/ IsNewerRefresh(h.mark, known) /\ tasks' = [tasks EXCEPT ![1] = k]
  BY <1>1 DEF AcceptLoaded, Continue, Pop, Rest
<1>3. Jobs' \subseteq Jobs /\ QueuesOK
  BY <1>1, <1>2, TypesOf DEF Jobs
<1>4. CASE tasks' = Tail(tasks)
  <2>1. QueuesOK'
    BY <1>1, <1>2, <1>3, <1>4, TaskPops
  <2>2. TInv'
    BY <1>2, <1>3, <2>1, AlikeTypes, TypesOf
  <2> QED BY <1>1, <1>2, <1>3, <1>4, <2>2
<1>5. CASE IsNewerRefresh(h.mark, known) /\ tasks' = [tasks EXCEPT ![1] = k]
  <2>1. inside \subseteq Tab /\ h.window \in Window
        /\ \A t \in inside : disk[t] \in DurableState
    BY <1>1, TypesOf DEF StoredIn, StoredState, TaskRecord
  <2>2. /\ h.staged = {} /\ h.commits = <<>> /\ h.mark \in Refresh
    BY <1>1, <1>2 DEF TaskKnows
  <2>3. S \subseteq Watermark /\ mem.mark[h.window] \in Watermark \cup {None}
    BY <1>1, <2>1, MemoryIs DEF DurableState
  <2>4. \A t \in Tab : disk[t] # None /\ disk[t].window = h.window =>
            t \in inside /\ disk[t].mark \in S
    BY DEF StoredIn
  <2>5. k \in TaskRecord /\ k.pc = "admit" /\ k.kind = "accept"
        /\ k.window = h.window /\ k.mark = h.mark /\ k.late = h.late
        /\ k.staged = {} /\ k.commits = <<>>
    <3> HIDE DEF h, inside
    <3> QED BY <1>1, <1>2, <2>1, <2>2 DEF TaskRecord
  <2>6. h.mark \in Watermark
    BY <2>2, MarkIsWatermark
  <2> HIDE DEF S, k
  <2>7. \A m \in S : Rank(m) < Rank(h.mark)
    <3>1. /\ known \in Watermark \cup {None}
          /\ \A m \in S : known # None /\ Rank(m) <= Rank(known)
      BY <2>3, NewestIs
    <3> HIDE DEF known
    <3> SUFFICES ASSUME NEW m \in S PROVE Rank(m) < Rank(h.mark)
      OBVIOUS
    <3>2. known \in Watermark /\ Rank(m) <= Rank(known)
      BY <3>1
    <3>3. Rank(h.mark) > Rank(known)
      BY <1>5, <2>6, <3>2, NewerIs
    <3>4. Rank(m) \in Nat /\ Rank(known) \in Nat /\ Rank(h.mark) \in Nat
      BY <2>3, <2>6, <3>2, RankIs
    <3> QED BY <3>2, <3>3, <3>4
  <2>8. TaskKnows(k)
    BY <2>2, <2>5, EmptyIs DEF TaskKnows
  <2>9. QueuesOK'
    BY <1>1, <1>2, <1>3, <1>5, <2>5, <2>8, TaskContinues DEF TaskKinds
  <2>10. TInv'
    BY <1>2, <1>3, <2>9, AlikeTypes, TypesOf
  <2>11. \A t \in Tab : disk[t] # None /\ disk[t].window = k.window =>
             Rank(disk[t].mark) < Rank(k.mark)
    BY <2>4, <2>5, <2>7
  <2>12. \E n \in TaskRecord :
                   /\ tasks' = [tasks EXCEPT ![1] = n]
                   /\ n.pc = "admit" /\ n.kind = "accept"
                   /\ n.window = tasks[1].window /\ n.mark = tasks[1].mark
                   /\ n.late = tasks[1].late
                   /\ n.staged = {} /\ n.commits = <<>>
                   /\ \A t \in Tab : disk[t] # None /\ disk[t].window = n.window =>
                          Rank(disk[t].mark) < Rank(n.mark)
    BY <1>5, <2>5, <2>11
  <2> QED BY <1>1, <1>2, <1>3, <2>10, <2>12
<1> QED BY <1>2, <1>4, <1>5

\* An epoch goes on to its next tab, or has ended.
EpochNext ==
    \/ tasks' = Tail(tasks) /\ store' = Tail(store)
    \/ \E k \in TaskRecord : \E j \in JobRecord :
           /\ tasks' = [tasks EXCEPT ![1] = k]
           /\ k.pc = "epoch" /\ k.kind = "epoch" /\ k.window = tasks[1].window
           /\ k.staged = {} /\ k.commits = <<>>
           /\ store' = Append(Tail(store), j)
           /\ j.kind = "epoch" /\ j.phase = "queued"

LEMMA NextResetDoes ==
  ASSUME TInv, tasks # <<>>, store # <<>>, Idle(Tail(store)),
         Members(Tail(store)) \subseteq Jobs,
         tasks[1].kind = "epoch",
         NEW k \in TaskRecord, k.kind = "epoch", k.window = tasks[1].window,
         k.staged = {}, k.commits = <<>>,
         NextReset(k)
  PROVE  QueuesOK' /\ EpochNext /\ \A j \in Jobs' : j \in Jobs \/ j.kind # "remove"
<1>1. QueuesOK
  BY TypesOf
<1>2. CASE k.todo = {}
  <2>1. tasks' = Tail(tasks) /\ store' = Tail(store)
    BY <1>2 DEF NextReset, Pop, Rest
  <2> QED BY <1>1, <2>1, TaskPops DEF EpochNext, Jobs
<1>3. CASE k.todo # {}
  <2> DEFINE t == Min(k.todo)
             n == [k EXCEPT !.pc = "epoch", !.todo = k.todo \ {t}]
             j == Job("epoch", t, k.window, 0, FALSE)
  <2>1. tasks' = [tasks EXCEPT ![1] = n] /\ store' = Append(Tail(store), j)
    <3>1. n = [k EXCEPT !.pc = "epoch", !.todo = @ \ {Min(@)}]
      BY DEF TaskRecord
    <3> QED BY <1>3, <3>1 DEF NextReset, Continue, Rest
  <2>2. k.todo \subseteq Tab /\ k.todo \subseteq Nat /\ k.window \in Window
    BY TabRefreshAssumption DEF TaskRecord
  <2>3. t \in Tab
    BY <1>3, <2>2, MinIs
  <2> HIDE DEF t
  <2>4. /\ n \in TaskRecord /\ n.pc = "epoch" /\ n.kind = "epoch"
        /\ n.window = k.window /\ n.mark = k.mark
        /\ n.staged = {} /\ n.commits = <<>>
    BY <2>2 DEF TaskRecord
  <2>5. 0 \in 0..MaxRevision
    BY TabRefreshAssumption
  <2>6. /\ j \in JobRecord /\ j.kind = "epoch" /\ j.tab = t
        /\ j.window = k.window /\ j.phase = "queued"
    BY <2>2, <2>3, <2>5 DEF Job, JobRecord
  <2> HIDE DEF n, j
  <2>7. TaskKnows(n)
    BY <2>4, EmptyIs DEF TaskKnows
  <2>8. JobKnows(j)
    BY <2>3, <2>6 DEF JobKnows, TwoSteps
  <2>9. QueuesOK'
    BY <1>1, <2>1, <2>4, <2>6, <2>7, <2>8, TaskWaits DEF TaskKinds
  <2>10. EpochNext
    BY <2>1, <2>4, <2>6 DEF EpochNext
  <2>11. \A i \in Jobs' : i \in Jobs \/ i.kind # "remove"
    <3> DEFINE r == Tail(store)
    <3>1. r \in Seq(JobRecord) /\ Members(r) \subseteq Jobs
      BY DEF Idle, StoreOK
    <3>2. store' = Append(r, j)
      BY <2>1
    <3> HIDE DEF r
    <3>3. Members(Append(r, j)) = Members(r) \cup {j}
      BY <2>6, <3>1, AppendIs
    <3> QED BY <2>6, <3>1, <3>2, <3>3 DEF Jobs
  <2> QED BY <2>9, <2>10, <2>11
<1> QED BY <1>2, <1>3

LEMMA EpochLoadedDoes ==
  ASSUME TInv, EpochLoaded
  PROVE  /\ TInv' /\ UNCHANGED <<disk, mem, asked>>
         /\ store # <<>> /\ store[1] \in Jobs /\ store[1].kind = "load"
         /\ tasks # <<>> /\ tasks[1].kind = "epoch" /\ tasks[1].pc = "load"
         /\ EpochNext
<1> DEFINE h == tasks[1]
<1>1. /\ store # <<>> /\ store[1] \in Jobs /\ store[1].kind = "load"
      /\ Idle(Tail(store)) /\ Members(Tail(store)) \subseteq Jobs
      /\ tasks # <<>> /\ Head(tasks) = h /\ h \in TaskRecord /\ TaskKnows(h)
      /\ h.pc = "load" /\ mem \in Memory
  BY TaskJobIs DEF EpochLoaded, TaskKinds
<1>2. h.kind = "epoch" /\ UNCHANGED <<disk, mem, asked>>
  BY <1>1 DEF EpochLoaded
<1>3. PICK o \in Outcomes :
          NextReset([h EXCEPT !.todo = IF o.ok THEN StoredIn(h.window) ELSE {}])
  BY <1>1 DEF EpochLoaded
<1> DEFINE s == IF o.ok THEN StoredIn(h.window) ELSE {}
           k == [h EXCEPT !.todo = s]
<1>4. s \subseteq Tab
  BY DEF StoredIn
<1> HIDE DEF s
<1>5. /\ k \in TaskRecord /\ k.kind = "epoch" /\ k.window = h.window
      /\ k.staged = {} /\ k.commits = <<>>
  <2>1. h.staged = {} /\ h.commits = <<>>
    BY <1>1, <1>2 DEF TaskKnows
  <2> HIDE DEF h
  <2> QED BY <1>1, <1>2, <1>4, <2>1 DEF TaskRecord
<1>6. NextReset(k)
  BY <1>3 DEF s
<1> HIDE DEF k
<1>7. QueuesOK' /\ EpochNext /\ \A j \in Jobs' : j \in Jobs \/ j.kind # "remove"
  BY <1>1, <1>2, <1>5, <1>6, NextResetDoes
<1>8. TInv'
  BY <1>2, <1>7, AlikeTypes, TypesOf
<1> QED BY <1>1, <1>2, <1>7, <1>8

LEMMA EpochStoredDoes ==
  ASSUME TInv, EpochStored
  PROVE  /\ TInv' /\ UNCHANGED <<mem, asked>>
         /\ store # <<>> /\ store[1] \in Jobs /\ store[1].kind = "epoch"
         /\ tasks # <<>> /\ tasks[1].kind = "epoch" /\ tasks[1].pc = "epoch"
         /\ store[1].tab \in Tab /\ store[1].window = tasks[1].window
         /\ EpochNext
         /\ \A t \in Tab : disk'[t] # disk[t] =>
                /\ disk[t] # None /\ disk[t].window = store[1].window
                /\ disk'[t] # None /\ disk'[t].window = disk[t].window
                /\ disk'[t].auto = disk[t].auto
<1> DEFINE h == tasks[1]
           j == store[1]
           d == disk[j.tab]
           e == [d EXCEPT !.mark = Epoch0]
<1>1. /\ store # <<>> /\ j \in Jobs /\ j.kind = "epoch" /\ Head(store) = j
      /\ JobKnows(j) /\ j.window = h.window
      /\ Idle(Tail(store)) /\ Members(Tail(store)) \subseteq Jobs
      /\ tasks # <<>> /\ Head(tasks) = h /\ h \in TaskRecord /\ TaskKnows(h)
      /\ h.pc = "epoch" /\ mem \in Memory
  BY TaskJobIs DEF EpochStored, TaskKinds
<1>2. /\ h.kind = "epoch" /\ h.staged = {} /\ h.commits = <<>> /\ j.tab \in Tab
  BY <1>1 DEF TaskKnows, JobKnows
<1>3. UNCHANGED <<mem, asked>>
  BY DEF EpochStored
<1>4. PICK o \in Outcomes :
          /\ disk' = IF o.effect /\ j.tab \in StoredIn(j.window)
                     THEN [disk EXCEPT ![j.tab].mark = Epoch0] ELSE disk
          /\ NextReset(IF o.ok THEN h ELSE [h EXCEPT !.todo = {}])
  BY <1>1 DEF EpochStored
<1>5. /\ disk \in [Tab -> StoredState]
      /\ disk' = disk \/ (/\ d # None /\ d.window = j.window
                          /\ disk' = [disk EXCEPT ![j.tab] = e])
  BY <1>2, <1>4, TypesOf DEF StoredIn
<1>6. d # None => /\ e \in DurableState /\ e # None
                  /\ e.window = d.window /\ e.auto = d.auto
  <2>1. d # None => d \in DurableState
    BY <1>2, <1>5 DEF StoredState
  <2> HIDE DEF d
  <2>2. d # None => /\ e \in DurableState
                    /\ e.window = d.window /\ e.auto = d.auto
    BY <2>1, EpochIsWatermark DEF DurableState
  <2> QED BY <2>2, NoneIsNoRecord
<1> HIDE DEF e
<1>7. /\ disk' \in [Tab -> StoredState]
      /\ \A t \in Tab : disk'[t] # disk[t] =>
             /\ disk[t] # None /\ disk[t].window = j.window
             /\ disk'[t] # None /\ disk'[t].window = disk[t].window
             /\ disk'[t].auto = disk[t].auto
  <2> HIDE DEF j
  <2> QED BY <1>2, <1>5, <1>6 DEF StoredState
<1> DEFINE k == IF o.ok THEN h ELSE [h EXCEPT !.todo = {}]
<1>8. /\ k \in TaskRecord /\ k.kind = "epoch" /\ k.window = h.window
      /\ k.staged = {} /\ k.commits = <<>>
  <2> HIDE DEF h
  <2> QED BY <1>1, <1>2 DEF TaskRecord
<1>9. NextReset(k)
  BY <1>4
<1> HIDE DEF k
<1>10. QueuesOK' /\ EpochNext /\ \A i \in Jobs' : i \in Jobs \/ i.kind # "remove"
  BY <1>1, <1>2, <1>8, <1>9, NextResetDoes
<1>11. RemovalsKnown'
  BY <1>3, <1>10, RemovalsStay
<1>12. TInv'
  BY <1>3, <1>7, <1>10, <1>11, TypesOf DEF TInv, DataOK
<1> QED BY <1>1, <1>2, <1>3, <1>7, <1>10, <1>12

\* A sequence with one more element in front
LEMMA FrontIs ==
  ASSUME NEW S, NEW q \in Seq(S), NEW x \in S
  PROVE  <<x>> \o q \in Seq(S) /\ Members(<<x>> \o q) = Members(q) \cup {x}
<1> DEFINE c == <<x>> \o q
<1>1. /\ <<x>> \in Seq(S) /\ Len(<<x>>) = 1 /\ Len(q) \in Nat
      /\ DOMAIN q = 1..Len(q) /\ <<x>>[1] = x
  OBVIOUS
<1>2. /\ c \in Seq(S) /\ Len(c) = 1 + Len(q)
      /\ \A i \in 1..1 + Len(q) : c[i] = IF i <= 1 THEN <<x>>[i] ELSE q[i - 1]
  BY <1>1, ConcatProperties
<1>3. DOMAIN c = 1..1 + Len(q)
  BY <1>2
<1> HIDE DEF c
<1>4. \A i \in DOMAIN c : c[i] = x \/ \E k \in DOMAIN q : c[i] = q[k]
  <2> SUFFICES ASSUME NEW i \in 1..1 + Len(q)
               PROVE  c[i] = x \/ \E k \in DOMAIN q : c[i] = q[k]
    BY <1>3
  <2>1. CASE i <= 1
    <3>1. i = 1
      BY <1>1, <2>1
    <3> QED BY <1>1, <1>2, <3>1
  <2>2. CASE ~(i <= 1)
    <3>1. i - 1 \in DOMAIN q
      BY <1>1, <2>2
    <3> QED BY <1>2, <2>2, <3>1
  <2> QED BY <2>1, <2>2
<1>5. \A k \in DOMAIN q : \E i \in DOMAIN c : c[i] = q[k]
  <2> SUFFICES ASSUME NEW k \in 1..Len(q) PROVE \E i \in DOMAIN c : c[i] = q[k]
    BY <1>1
  <2>1. k + 1 \in 1..1 + Len(q) /\ ~(k + 1 <= 1) /\ (k + 1) - 1 = k
    BY <1>1
  <2>2. c[k + 1] = q[k]
    BY <1>2, <2>1
  <2> QED BY <1>3, <2>1, <2>2
<1>6. 1 \in DOMAIN c /\ c[1] = x
  <2>1. 1 \in 1..1 + Len(q)
    BY <1>1
  <2> QED BY <1>1, <1>2, <1>3, <2>1
<1> QED BY <1>2, <1>4, <1>5, <1>6 DEF Members, c

\* What is undone next, or the end of a rollback
RollbackNext(k) ==
    \E c \in Members(k.commits) : \E n \in TaskRecord : \E j \in JobRecord :
        /\ mem' = mem
        /\ tasks' = [tasks EXCEPT ![1] = n]
        /\ n.pc = "rollback" /\ n.kind = "accept" /\ n.window = k.window
        /\ n.mark = k.mark /\ n.late = k.late
        /\ Members(n.commits) \subseteq Members(k.commits)
        /\ store' = Append(Tail(store), j)
        /\ j.kind = "rollback" /\ j.phase = "queued" /\ j.tab = c.tab
        /\ j.window = k.window
        /\ j.found.before = c.before /\ j.found.after = c.after

RollbackEnds ==
    /\ tasks' = Tail(tasks) /\ store' = Tail(store)
    /\ \E f : mem' = [mem EXCEPT !.mark = f]

LEMMA RollbackDoes ==
  ASSUME TInv, tasks # <<>>, store # <<>>, Idle(Tail(store)),
         Members(Tail(store)) \subseteq Jobs,
         tasks[1].kind = "accept",
         NEW k, Accepts(k), k.window = tasks[1].window, Rollback(k)
  PROVE  /\ QueuesOK' /\ mem' \in Memory /\ mem'.terminal = mem.terminal
         /\ RollbackNext(k) \/ RollbackEnds
         /\ \A j \in Jobs' : j \in Jobs \/ j.kind # "remove"
<1>1. /\ QueuesOK /\ mem \in Memory /\ k \in TaskRecord /\ k.kind = "accept"
      /\ k.mark \in Refresh /\ \A c \in Members(k.commits) : Restage(c.before, c.after)
  BY TypesOf DEF Accepts
<1>2. CASE k.commits = <<>>
  <2>1. /\ tasks' = Tail(tasks) /\ store' = Tail(store)
        /\ \/ mem' = mem
           \/ mem' = [mem EXCEPT !.mark[k.window] = k.previous]
    BY <1>2 DEF Rollback, Pop, Rest
  <2>2. k.window \in Window /\ k.previous \in Watermark \cup {None}
    BY <1>1 DEF TaskRecord
  <2>3. mem' \in Memory /\ mem'.terminal = mem.terminal
        /\ \E f : mem' = [mem EXCEPT !.mark = f]
    <3>1. CASE mem' = mem
      <4>1. mem = [mem EXCEPT !.mark = mem.mark]
        BY <1>1 DEF Memory
      <4> QED BY <1>1, <3>1, <4>1
    <3>2. CASE mem' = [mem EXCEPT !.mark[k.window] = k.previous]
      <4> DEFINE f == [mem.mark EXCEPT ![k.window] = k.previous]
      <4>1. mem' = [mem EXCEPT !.mark = f]
        BY <3>2
      <4>2. f \in [Window -> Watermark \cup {None}]
        BY <1>1, <2>2, MemoryIs
      <4> HIDE DEF f
      <4> QED BY <1>1, <4>1, <4>2 DEF Memory
    <3> QED BY <2>1, <3>1, <3>2
  <2>4. QueuesOK'
    BY <1>1, <2>1, TaskPops
  <2> QED BY <2>1, <2>3, <2>4 DEF RollbackEnds, Jobs
<1>3. CASE k.commits # <<>>
  <2> DEFINE C == [tab : Tab, before : StoredState, after : StoredState]
             q == k.commits
             c == Head(q)
             r == Tail(q)
             n == [k EXCEPT !.pc = "rollback", !.commits = r]
             f == [before |-> c.before, after |-> c.after]
             j == [Job("rollback", c.tab, k.window, 0, FALSE) EXCEPT !.found = f]
  <2>1. /\ tasks' = [tasks EXCEPT ![1] = n] /\ store' = Append(Tail(store), j)
        /\ mem' = mem
    <3>1. n = [k EXCEPT !.pc = "rollback", !.commits = Tail(@)]
      BY <1>1 DEF TaskRecord
    <3> QED BY <1>3, <3>1 DEF Rollback, Continue, Rest
  <2>2. q \in Seq(C) /\ q # <<>>
    BY <1>1, <1>3 DEF TaskRecord
  <2>3. /\ c \in C /\ c \in Members(q) /\ r \in Seq(C) /\ Members(r) \subseteq Members(q)
    <3> HIDE DEF q, C
    <3> QED BY <2>2, TailIs
  <2>4. Restage(c.before, c.after) /\ c.tab \in Tab /\ f \in Found
        /\ f.before = c.before /\ f.after = c.after /\ k.window \in Window
    BY <1>1, <2>3 DEF Found, TaskRecord
  <2>5. 0 \in 0..MaxRevision
    BY TabRefreshAssumption
  <2> HIDE DEF c, r
  <2>6. /\ n \in TaskRecord /\ n.pc = "rollback" /\ n.kind = "accept"
        /\ n.window = k.window /\ n.mark = k.mark /\ n.late = k.late
        /\ n.commits = r
    <3> HIDE DEF q
    <3> QED BY <1>1, <2>3 DEF TaskRecord
  <2> HIDE DEF f
  <2>7. /\ j \in JobRecord /\ j.kind = "rollback" /\ j.tab = c.tab
        /\ j.window = k.window /\ j.phase = "queued" /\ j.found = f
    BY <2>4, <2>5 DEF Job, JobRecord, Found
  <2> HIDE DEF n, j, q
  <2>8. Accepts(n)
    BY <1>1, <2>3, <2>6 DEF Accepts, q
  <2>9. TaskKnows(n)
    BY <2>6, <2>8, AcceptsKnows
  <2>10. JobKnows(j)
    BY <2>4, <2>7 DEF JobKnows, TwoSteps
  <2>11. QueuesOK'
    BY <1>1, <2>1, <2>6, <2>7, <2>9, <2>10, TaskWaits DEF TaskKinds
  <2>12. RollbackNext(k)
    BY <2>1, <2>3, <2>4, <2>6, <2>7 DEF RollbackNext, q
  <2>13. \A i \in Jobs' : i \in Jobs \/ i.kind # "remove"
    <3> DEFINE s == Tail(store)
    <3>1. s \in Seq(JobRecord) /\ Members(s) \subseteq Jobs
      BY DEF Idle, StoreOK
    <3>2. store' = Append(s, j)
      BY <2>1
    <3> HIDE DEF s
    <3>3. Members(Append(s, j)) = Members(s) \cup {j}
      BY <2>7, <3>1, AppendIs
    <3> QED BY <2>7, <3>1, <3>2, <3>3 DEF Jobs
  <2> QED BY <1>1, <2>1, <2>11, <2>12, <2>13
<1> QED BY <1>2, <1>3

\* What the running task knows once its stage j is over: k
Staged(k, j) ==
    /\ Accepts(k) /\ k.window = tasks[1].window
    /\ k.mark = tasks[1].mark /\ k.late = tasks[1].late
    /\ \A c \in Members(k.commits) :
           \/ c \in Members(tasks[1].commits)
           \/ /\ j.found.before # None
              /\ c.tab = j.tab /\ c.before = j.found.before

LEMMA StageStoredDoes ==
  ASSUME TInv, StageStored
  PROVE  /\ TInv' /\ UNCHANGED <<disk, asked>>
         /\ store # <<>> /\ store[1] \in Jobs /\ store[1].kind = "stage"
         /\ store[1].phase \in {"done", "failed"}
         /\ tasks # <<>> /\ tasks[1].kind = "accept" /\ tasks[1].pc = "stage"
         /\ store[1].tab \in Tab /\ store[1].window = tasks[1].window
         /\ \E k : /\ Staged(k, store[1])
                   /\ \/ /\ store[1].phase = "done"
                         /\ \A s \in k.staged :
                                \/ s \in tasks[1].staged
                                \/ /\ s.tab = store[1].tab
                                   /\ s.revision = store[1].revision
                                   /\ s.auto => store[1].found.after # None
                         /\ \/ StageNext(k, Tail(store))
                            \/ StagesDone(k, Tail(store))
                      \/ RollbackNext(k) \/ RollbackEnds
<1> DEFINE h == tasks[1]
           j == store[1]
           f == j.found
           commit == [tab |-> j.tab, before |-> f.before, after |-> f.after]
           task == IF f.before = None THEN h
                   ELSE [h EXCEPT !.commits = <<commit>> \o @]
           auto == f.after # None /\ f.after.auto
           s == [tab |-> j.tab, revision |-> j.revision, auto |-> auto]
           k == [task EXCEPT !.staged = @ \cup {s}]
<1>1. PICK o \in Outcomes :
          /\ Ends("stage", o)
          /\ IF o.ok THEN Stage(k, Tail(store)) ELSE Rollback(task)
  <2>1. \E o : Ends("stage", o)
    BY DEF StageStored
  <2>2. Head(store) = j /\ Head(tasks) = h
    BY <2>1, TaskJobIs DEF TaskKinds
  <2> QED BY <2>2 DEF StageStored, Rest
<1>2. /\ store # <<>> /\ j \in Jobs /\ j \in JobRecord /\ j.kind = "stage"
      /\ JobKnows(j) /\ j.window = h.window
      /\ j.phase = IF o.ok THEN "done" ELSE "failed"
      /\ Idle(Tail(store)) /\ Members(Tail(store)) \subseteq Jobs
      /\ tasks # <<>> /\ h \in TaskRecord /\ TaskKnows(h)
      /\ h.pc = "stage" /\ mem \in Memory
  BY <1>1, TaskJobIs, EndsIs, TypesOf DEF TaskKinds, TwoSteps
<1>3. /\ h.kind = "accept" /\ Accepts(h) /\ j.tab \in Tab /\ f \in Found
      /\ f.before # None => Restage(f.before, f.after)
  BY <1>2, AcceptsIs DEF TaskKnows, JobKnows, TwoSteps
<1>4. UNCHANGED <<disk, asked>>
  BY DEF StageStored
<1>5. /\ Accepts(task) /\ task.window = h.window /\ task.mark = h.mark
      /\ task.late = h.late /\ task.staged = h.staged
      /\ \A c \in Members(task.commits) :
             \/ c \in Members(h.commits)
             \/ f.before # None /\ c.tab = j.tab /\ c.before = f.before
  <2>1. CASE f.before = None
    BY <1>3, <2>1
  <2>2. CASE f.before # None
    <3> DEFINE C == [tab : Tab, before : StoredState, after : StoredState]
               q == h.commits
               p == <<commit>> \o q
    <3>1. task = [h EXCEPT !.commits = p]
      BY <1>2, <2>2 DEF TaskRecord
    <3>2. q \in Seq(C) /\ commit \in C /\ commit.tab = j.tab
          /\ commit.before = f.before /\ commit.after = f.after
      BY <1>2, <1>3 DEF Found, TaskRecord
    <3> HIDE DEF C, q, commit
    <3>3. p \in Seq(C) /\ Members(p) = Members(q) \cup {commit}
      BY <3>2, FrontIs
    <3> HIDE DEF p, task, h
    <3>4. /\ task \in TaskRecord /\ task.kind = h.kind
          /\ task.window = h.window /\ task.mark = h.mark
          /\ task.late = h.late /\ task.staged = h.staged /\ task.commits = p
      BY <1>2, <3>1, <3>3 DEF TaskRecord, C
    <3>5. Accepts(task)
      BY <1>3, <2>2, <3>2, <3>3, <3>4 DEF Accepts, q
    <3> QED BY <2>2, <3>2, <3>3, <3>4, <3>5 DEF q
  <2> QED BY <2>1, <2>2
<1>6. auto \in BOOLEAN /\ (auto => f.after # None)
  <2>1. f.after \in StoredState
    BY <1>3 DEF Found
  <2>2. f.after # None => f.after.auto \in BOOLEAN
    BY <2>1 DEF StoredState, DurableState
  <2> QED BY <2>2
<1> HIDE DEF task, auto
<1>7. /\ s \in [tab : Tab, revision : 0..MaxRevision, auto : BOOLEAN]
      /\ s.tab = j.tab /\ s.revision = j.revision /\ s.auto = auto
  BY <1>2, <1>3, <1>6 DEF JobRecord
<1> HIDE DEF s
<1>8. /\ k \in TaskRecord /\ k.kind = task.kind /\ k.window = task.window
      /\ k.mark = task.mark /\ k.late = task.late
      /\ k.commits = task.commits /\ k.staged = task.staged \cup {s}
  <2>1. task \in TaskRecord
    BY <1>5 DEF Accepts
  <2> QED BY <1>7, <2>1 DEF TaskRecord
<1> HIDE DEF k
<1>9. Accepts(k)
  BY <1>5, <1>8 DEF Accepts
<1>10. Staged(task, j) /\ Staged(k, j)
  BY <1>5, <1>8, <1>9 DEF Staged
<1>11. CASE o.ok
  <2>1. /\ QueuesOK' /\ mem' \in Memory /\ mem'.terminal = mem.terminal
        /\ StageNext(k, Tail(store)) \/ StagesDone(k, Tail(store))
    BY <1>1, <1>2, <1>3, <1>5, <1>8, <1>9, <1>11, StageDoes, TypesOf
  <2>2. \A i \in Jobs' : i \in Jobs \/ i.kind # "remove"
    <3>1. Tail(store) \in Seq(JobRecord)
      BY <1>2 DEF Idle, StoreOK
    <3> QED BY <1>2, <2>1, <3>1, StageAdds
  <2>3. TInv'
    BY <1>4, <2>1, <2>2, AlikeTypes, TypesOf
  <2>4. \A x \in k.staged :
            \/ x \in h.staged
            \/ x.tab = j.tab /\ x.revision = j.revision /\ (x.auto => f.after # None)
    <3>1. s.auto => f.after # None
      BY <1>6, <1>7
    <3> QED BY <1>5, <1>7, <1>8, <3>1
  <2> QED BY <1>2, <1>3, <1>4, <1>10, <1>11, <2>1, <2>3, <2>4
<1>12. CASE ~o.ok
  <2>1. /\ QueuesOK' /\ mem' \in Memory /\ mem'.terminal = mem.terminal
        /\ RollbackNext(task) \/ RollbackEnds
        /\ \A i \in Jobs' : i \in Jobs \/ i.kind # "remove"
    BY <1>1, <1>2, <1>3, <1>5, <1>12, RollbackDoes
  <2>2. TInv'
    BY <1>4, <2>1, AlikeTypes, TypesOf
  <2> QED BY <1>2, <1>3, <1>4, <1>10, <1>12, <2>1, <2>2
<1> QED BY <1>11, <1>12

LEMMA RolledBackDoes ==
  ASSUME TInv, RolledBack
  PROVE  /\ TInv' /\ UNCHANGED asked
         /\ store # <<>> /\ store[1] \in Jobs /\ store[1].kind = "rollback"
         /\ tasks # <<>> /\ tasks[1].kind = "accept" /\ tasks[1].pc = "rollback"
         /\ store[1].tab \in Tab
         /\ Restage(store[1].found.before, store[1].found.after)
         /\ \E k : /\ Accepts(k) /\ k.window = tasks[1].window
                   /\ k.mark = tasks[1].mark /\ k.late = tasks[1].late
                   /\ k.commits = tasks[1].commits
                   /\ RollbackNext(k) \/ RollbackEnds
         /\ \A t \in Tab : disk'[t] # disk[t] =>
                /\ t = store[1].tab /\ disk[t] = store[1].found.after
                /\ disk'[t] = store[1].found.before
<1> DEFINE h == tasks[1]
           j == store[1]
           t == j.tab
           c == j.found
<1>1. PICK o \in Outcomes :
          /\ Ends("rollback", o)
          /\ disk' = IF o.effect /\ disk[t] = c.after
                     THEN [disk EXCEPT ![t] = c.before] ELSE disk
          /\ Rollback([h EXCEPT !.restored =
                           @ /\ o.ok /\ disk[t] \in {c.before, c.after}])
  <2>1. \E o : Ends("rollback", o)
    BY DEF RolledBack
  <2>2. Head(store) = j /\ Head(tasks) = h
    BY <2>1, TaskJobIs DEF TaskKinds
  <2> QED BY <2>2 DEF RolledBack
<1>2. /\ store # <<>> /\ j \in Jobs /\ j \in JobRecord /\ j.kind = "rollback"
      /\ JobKnows(j) /\ j.window = h.window
      /\ Idle(Tail(store)) /\ Members(Tail(store)) \subseteq Jobs
      /\ tasks # <<>> /\ h \in TaskRecord /\ TaskKnows(h)
      /\ h.pc = "rollback" /\ mem \in Memory
  BY <1>1, TaskJobIs DEF TaskKinds
<1>3. /\ h.kind = "accept" /\ Accepts(h) /\ t \in Tab
      /\ Restage(c.before, c.after)
  BY <1>2, AcceptsIs DEF TaskKnows, JobKnows
<1>4. UNCHANGED asked
  BY DEF RolledBack
<1> DEFINE b == h.restored /\ o.ok /\ disk[t] \in {c.before, c.after}
           k == [h EXCEPT !.restored = b]
<1>5. b \in BOOLEAN
  OBVIOUS
<1>6. k = [h EXCEPT !.restored = @ /\ o.ok /\ disk[t] \in {c.before, c.after}]
  BY <1>2 DEF TaskRecord
<1> HIDE DEF b, h
<1>7. /\ k \in TaskRecord /\ k.kind = h.kind /\ k.window = h.window
      /\ k.mark = h.mark /\ k.late = h.late /\ k.commits = h.commits
  BY <1>2, <1>5 DEF TaskRecord
<1>8. Rollback(k)
  BY <1>1, <1>6
<1> HIDE DEF k
<1>9. Accepts(k)
  BY <1>3, <1>7 DEF Accepts
<1>10. /\ QueuesOK' /\ mem' \in Memory /\ mem'.terminal = mem.terminal
       /\ RollbackNext(k) \/ RollbackEnds
       /\ \A i \in Jobs' : i \in Jobs \/ i.kind # "remove"
  BY <1>2, <1>3, <1>7, <1>8, <1>9, RollbackDoes DEF h
<1>11. /\ disk' \in [Tab -> StoredState]
       /\ \A u \in Tab : disk'[u] # disk[u] =>
              u = t /\ disk[u] = c.after /\ disk'[u] = c.before
  <2>1. disk \in [Tab -> StoredState] /\ c.before \in StoredState
    BY <1>3, TypesOf DEF Restage, StoredState
  <2> HIDE DEF t, c
  <2> QED BY <1>1, <1>3, <2>1
<1>12. RemovalsKnown'
  BY <1>10, RemovalsStay
<1>13. TInv'
  BY <1>4, <1>10, <1>11, <1>12, TypesOf DEF TInv, DataOK
<1> QED BY <1>2, <1>3, <1>4, <1>7, <1>9, <1>10, <1>11, <1>13 DEF h

-----------------------------------------------------------------------------
\* A worker that starts

FirstJob == Job("init", None, None, 0, FALSE)

LEMMA StartQueues ==
  ASSUME store' = <<FirstJob>>, tasks' = <<>>
  PROVE  QueuesOK' /\ RemovalsKnown' /\ \A j \in Jobs' : j = FirstJob
<1> DEFINE j == FirstJob
<1>1. /\ j \in JobRecord /\ j.kind = "init" /\ j.phase = "queued"
  <2>1. 0 \in 0..MaxRevision
    BY TabRefreshAssumption
  <2> QED BY <2>1 DEF FirstJob, Job, JobRecord
<1> HIDE DEF j
<1>2. JobKnows(j)
  BY <1>1 DEF JobKnows, TwoSteps
<1>3. /\ <<j>> \in Seq(JobRecord) /\ Len(<<j>>) = 1 /\ DOMAIN <<j>> = 1..1
      /\ <<j>>[1] = j /\ \A i \in 1..1 : i = 1
  BY <1>1
<1>4. Members(<<j>>) = {j}
  BY <1>3 DEF Members
<1>5. StoreOK(<<j>>)
  BY <1>1, <1>2, <1>3, <1>4 DEF StoreOK, Ordered
<1>6. TasksOK(<<>>)
  BY TabRefreshAssumption, EmptyIs DEF TasksOK
<1>7. 1 <= MaxJobs /\ 1 <= MaxJobs + 1
  BY TabRefreshAssumption
<1>8. InStep'
  BY <1>1, <1>3, <1>4, <1>7 DEF InStep, Jobs, TaskKinds, j
<1> QED BY <1>1, <1>4, <1>5, <1>6, <1>8 DEF QueuesOK, RemovalsKnown, Jobs, j

LEMMA RestartDoes ==
  ASSUME TInv, Restart
  PROVE  /\ TInv' /\ tasks' = <<>> /\ UNCHANGED <<disk, asked>>
         /\ \A j \in Jobs' : j = FirstJob
         /\ mem' = [Forgotten EXCEPT !.terminal = mem.terminal]
<1>1. /\ mem' = [Forgotten EXCEPT !.terminal = mem.terminal]
      /\ store' = <<FirstJob>> /\ tasks' = <<>> /\ UNCHANGED <<disk, asked>>
  BY DEF Restart, FirstJob
<1>2. mem' \in Memory
  BY <1>1, ForgottenIs, TypesOf, MemoryIs DEF Memory
<1> QED BY <1>1, <1>2, StartQueues, TypesOf DEF TInv, DataOK

-----------------------------------------------------------------------------
\* Types

LEMMA InitIsTyped == Init => TInv
<1> SUFFICES ASSUME Init PROVE TInv
  OBVIOUS
<1> DEFINE j == FirstJob
<1>1. /\ j \in JobRecord /\ j.kind = "init" /\ j.phase = "queued"
  <2>1. 0 \in 0..MaxRevision
    BY TabRefreshAssumption
  <2> QED BY <2>1 DEF FirstJob, Job, JobRecord
<1> HIDE DEF j
<1>2. JobKnows(j)
  BY <1>1 DEF JobKnows, TwoSteps
<1>3. /\ <<j>> \in Seq(JobRecord) /\ Len(<<j>>) = 1 /\ DOMAIN <<j>> = 1..1
      /\ <<j>>[1] = j /\ \A i \in 1..1 : i = 1
  BY <1>1
<1>4. Members(<<j>>) = {j}
  BY <1>3 DEF Members
<1>5. store = <<j>> /\ tasks = <<>>
  BY DEF Init, FirstJob, j
<1>6. StoreOK(<<j>>)
  BY <1>1, <1>2, <1>3, <1>4 DEF StoreOK, Ordered
<1>7. TasksOK(<<>>)
  BY TabRefreshAssumption, EmptyIs DEF TasksOK
<1>8. 1 <= MaxJobs /\ 1 <= MaxJobs + 1
  BY TabRefreshAssumption
<1>9. InStep
  BY <1>1, <1>3, <1>4, <1>5, <1>8 DEF InStep, Jobs, TaskKinds
<1>10. disk \in [Tab -> StoredState] /\ asked \in [Tab -> Asking \cup {None}]
       /\ mem \in Memory
  BY ForgottenIs DEF Init, StoredState
<1> QED BY <1>1, <1>4, <1>5, <1>6, <1>7, <1>9, <1>10
        DEF TInv, DataOK, QueuesOK, RemovalsKnown, Jobs

LEMMA NextIsTyped == TInv /\ [Next]_vars => TInv'
<1> SUFFICES ASSUME TInv, [Next]_vars PROVE TInv'
  OBVIOUS
<1>1. ASSUME NEW t \in Tab, NEW w \in Window,
             \/ PanelOpened(t, w)
             \/ ActivateTab(t, w)
             \/ \E auto \in BOOLEAN : UpdateSettings(t, w, auto)
      PROVE  TInv'
  BY <1>1, PanelOpenedDoes, ActivateDoes, UpdateSettingsDoes
<1>2. ASSUME NEW t \in Tab, PanelClosed(t) \/ RemoveTab(t)
      PROVE  TInv'
  BY <1>2, PanelClosedDoes, RemoveTabDoes
<1>3. ASSUME NEW w \in Window,
             \/ RemoveWindow(w) \/ BeginWindowEpoch(w) \/ ClearWindowPending(w)
             \/ \E mark \in Refresh : AcceptPageRefresh(w, mark)
      PROVE  TInv'
  BY <1>3, RemoveWindowDoes, BeginEpochDoes, ClearPendingDoes, AcceptDoes
<1>4. ASSUME \/ StartLoading \/ StartActivating \/ Admit \/ ActiveTab
             \/ Prepared \/ Dispatched
      PROVE  TInv'
  BY <1>4, StartLoadingDoes, StartActivatingDoes, AdmitDoes, ActiveTabDoes,
     PreparedDoes, DispatchedDoes
<1>5. ASSUME \/ Update \/ Initialized \/ OpenEnds \/ SettingsEnd
             \/ CloseEnds \/ RemoveEnds \/ WindowEnds
      PROVE  TInv'
  BY <1>5, UpdateDoes, InitializedDoes, OpenEndsDoes, SettingsEndDoes,
     CloseEndsDoes, RemoveEndsDoes, WindowEndsDoes
<1>6. ASSUME \/ AcceptLoaded \/ EpochLoaded \/ EpochStored \/ StageStored
             \/ RolledBack \/ Restart
      PROVE  TInv'
  BY <1>6, AcceptLoadedDoes, EpochLoadedDoes, EpochStoredDoes, StageStoredDoes,
     RolledBackDoes, RestartDoes
<1>7. CASE UNCHANGED vars
  BY <1>7 DEF vars, TInv, DataOK, QueuesOK, RemovalsKnown, InStep, Jobs
<1> QED BY <1>1, <1>2, <1>3, <1>4, <1>5, <1>6, <1>7 DEF Next

\* The worker's memory, its queues and the storage have their types: a job or a
\* task is complete at each of its points, and both queues stay bounded, the
\* store's by MaxJobs calls and the one job of the running task.
THEOREM TypesAreRight == Spec => []TypeOK
<1>1. Spec => []TInv
  BY InitIsTyped, NextIsTyped, PTL DEF Spec
<1> QED BY <1>1, TypeInvariant, PTL

-----------------------------------------------------------------------------
\* Quiet steps: no lifecycle begins or ends, no tab joins or leaves, and what is
\* stored of a tab's window and switch stays.

Kept(t) ==
    \/ disk'[t] = disk[t]
    \/ /\ disk[t] # None /\ disk'[t] # None
       /\ disk'[t].window = disk[t].window /\ disk'[t].auto = disk[t].auto

Quiet ==
    /\ mem'.panel = mem.panel /\ mem'.participant = mem.participant
    /\ mem'.revision = mem.revision
    /\ mem'.terminal = mem.terminal /\ mem'.removing = mem.removing
    /\ \A t \in Tab :
           \/ Keeps(mem.pending[t], mem'.pending[t])
           \/ /\ mem.panel[t] = mem'.pending[t].window
              /\ mem.revision[t] = mem'.pending[t].revision
    /\ \A j \in Jobs' : j \in Jobs \/ j.kind \in TaskKinds
    /\ \A j \in Jobs : j \in Jobs' \/ j.kind \in TaskKinds \cup {"init"}

LEMMA RestHas ==
  ASSUME NEW S, NEW q \in Seq(S), q # <<>>
  PROVE  Members(q) = Members(Tail(q)) \cup {q[1]}
<1>1. Members(Tail(q)) \subseteq Members(q) /\ q[1] \in Members(q)
  BY TailIs
<1>2. ASSUME NEW i \in DOMAIN q PROVE q[i] = q[1] \/ q[i] \in Members(Tail(q))
  <2>1. /\ Len(q) \in Nat /\ DOMAIN q = 1..Len(q)
        /\ DOMAIN Tail(q) = 1..Len(Tail(q)) /\ Len(Tail(q)) = Len(q) - 1
    BY TailIs, <1>1
  <2>2. CASE i # 1
    <3>1. i - 1 \in DOMAIN Tail(q) /\ (i - 1) + 1 = i
      BY <2>1, <2>2
    <3>2. Tail(q)[i - 1] = q[i]
      BY <3>1, TailIs
    <3> QED BY <3>1, <3>2 DEF Members
  <2> QED BY <2>2
<1> QED BY <1>1, <1>2 DEF Members

\* The job of the running task makes room for another one, or for none.
LEMMA JobsTurn ==
  ASSUME TInv, store # <<>>, store[1].kind \in TaskKinds \cup {"init"},
         \/ store' = Tail(store)
         \/ \E j \in JobRecord : j.kind \in TaskKinds /\ store' = Append(Tail(store), j)
  PROVE  /\ \A j \in Jobs' : j \in Jobs \/ j.kind \in TaskKinds
         /\ \A j \in Jobs : j \in Jobs' \/ j.kind \in TaskKinds \cup {"init"}
<1>1. /\ Jobs = Members(Tail(store)) \cup {store[1]} /\ Tail(store) \in Seq(JobRecord)
  BY TypesOf, RestHas, TailIs DEF Jobs
<1>2. CASE store' = Tail(store)
  BY <1>1, <1>2 DEF Jobs
<1>3. ASSUME NEW j \in JobRecord, j.kind \in TaskKinds, store' = Append(Tail(store), j)
      PROVE  Jobs' = Members(Tail(store)) \cup {j}
  BY <1>1, <1>3, AppendIs DEF Jobs
<1> QED BY <1>1, <1>2, <1>3

LEMMA JobsGrow ==
  ASSUME TInv, NEW j \in JobRecord, j.kind \in TaskKinds, store' = Append(store, j)
  PROVE  /\ \A k \in Jobs' : k \in Jobs \/ k.kind \in TaskKinds
         /\ \A k \in Jobs : k \in Jobs'
BY TypesOf, AppendIs DEF Jobs

\* What a step leaves of the memory when only a watermark or what is pending
\* changes
LEMMA MarkOnly ==
  ASSUME mem \in Memory, NEW f, mem' = [mem EXCEPT !.mark = f]
  PROVE  /\ mem'.panel = mem.panel /\ mem'.participant = mem.participant
         /\ mem'.revision = mem.revision /\ mem'.pending = mem.pending
         /\ mem'.terminal = mem.terminal /\ mem'.removing = mem.removing
BY DEF Memory

\* The operations of the staged tabs belong to their panels.
LEMMA StagesAreQuiet ==
  ASSUME TInv, NEW k, Accepts(k), NEW jobs, StagesDone(k, jobs)
  PROVE  /\ mem'.panel = mem.panel /\ mem'.participant = mem.participant
         /\ mem'.revision = mem.revision
         /\ mem'.terminal = mem.terminal /\ mem'.removing = mem.removing
         /\ \A t \in Tab :
                \/ Keeps(mem.pending[t], mem'.pending[t])
                \/ /\ mem.panel[t] = mem'.pending[t].window
                   /\ mem.revision[t] = mem'.pending[t].revision
<1> DEFINE n == StagedOperations(mem, k)
<1>1. /\ n.panel = mem.panel /\ n.participant = mem.participant
      /\ n.revision = mem.revision
      /\ n.terminal = mem.terminal /\ n.removing = mem.removing
      /\ \A t \in Tab :
             \/ n.pending[t] = mem.pending[t]
             \/ \E s \in k.staged : /\ s.tab = t
                                    /\ n.pending[t] = StagedOperation(mem, k, s)
      /\ k \in TaskRecord /\ k.mark \in Refresh
  BY TypesOf, StagedOperationsAre DEF Accepts
<1>2. /\ Alike(n, mem')
      /\ \A t \in Tab : Keeps(n.pending[t], mem'.pending[t])
  BY DEF StagesDone
<1> HIDE DEF n
<1>3. ASSUME NEW t \in Tab, ~Keeps(mem.pending[t], mem'.pending[t])
      PROVE  /\ mem.panel[t] = mem'.pending[t].window
             /\ mem.revision[t] = mem'.pending[t].revision
  <2>1. n.pending[t] # mem.pending[t]
    BY <1>2, <1>3
  <2>2. PICK s \in k.staged : s.tab = t /\ n.pending[t] = StagedOperation(mem, k, s)
    BY <1>1, <2>1
  <2>3. n.pending[t] # None /\ mem'.pending[t].window = n.pending[t].window
        /\ mem'.pending[t].revision = n.pending[t].revision
    BY <1>2, <1>3 DEF Keeps
  <2> QED BY <1>1, <2>2, <2>3, StagedOperationIs, TypesOf DEF IsCurrentPanel
<1> QED BY <1>1, <1>2, <1>3 DEF Alike

QuietStep ==
    \/ \E w \in Window : BeginWindowEpoch(w) \/ ClearWindowPending(w)
    \/ \E w \in Window, mark \in Refresh : AcceptPageRefresh(w, mark)
    \/ \E t \in Tab, w \in Window : ActivateTab(t, w)
    \/ StartLoading \/ StartActivating \/ Admit \/ ActiveTab
    \/ Prepared \/ Dispatched \/ Initialized
    \/ AcceptLoaded \/ EpochLoaded \/ EpochStored \/ StageStored \/ RolledBack

LEMMA StillIsQuiet ==
  ASSUME UNCHANGED <<disk, mem, store>>
  PROVE  Quiet /\ \A t \in Tab : Kept(t)
BY DEF Quiet, Kept, Keeps, Jobs

LEMMA PendingIsQuiet ==
  ASSUME UNCHANGED <<disk, store>>, Alike(mem, mem'), KeepsPending
  PROVE  Quiet /\ \A t \in Tab : Kept(t)
BY DEF Quiet, Kept, Keeps, KeepsPending, Jobs, Alike

LEMMA MarkIsQuiet ==
  ASSUME TInv, NEW f, mem' = [mem EXCEPT !.mark = f],
         \A j \in Jobs' : j \in Jobs \/ j.kind \in TaskKinds,
         \A j \in Jobs : j \in Jobs' \/ j.kind \in TaskKinds \cup {"init"}
  PROVE  Quiet
BY MarkOnly, TypesOf DEF Quiet, Keeps

LEMMA SameIsQuiet ==
  ASSUME UNCHANGED mem,
         \A j \in Jobs' : j \in Jobs \/ j.kind \in TaskKinds,
         \A j \in Jobs : j \in Jobs' \/ j.kind \in TaskKinds \cup {"init"}
  PROVE  Quiet
BY DEF Quiet, Keeps

LEMMA CancelIsQuiet ==
  ASSUME TInv, NEW w \in Window, mem' = CancelIn(mem, w), UNCHANGED <<disk, store>>
  PROVE  Quiet /\ \A t \in Tab : Kept(t)
<1>1. Alike(mem, mem') /\ KeepsPending
  BY CancelInIs, TypesOf DEF Alike, Keeps, KeepsPending
<1> QED BY <1>1, PendingIsQuiet

LEMMA QuietIs ==
  ASSUME TInv, QuietStep
  PROVE  TInv' /\ Quiet /\ \A t \in Tab : Kept(t)
<1>1. ASSUME NEW w \in Window, BeginWindowEpoch(w) \/ ClearWindowPending(w)
      PROVE  TInv' /\ Quiet /\ \A t \in Tab : Kept(t)
  BY <1>1, BeginEpochDoes, ClearPendingDoes, CancelIsQuiet
<1>2. ASSUME NEW w \in Window, NEW mark \in Refresh, AcceptPageRefresh(w, mark)
      PROVE  TInv' /\ Quiet /\ \A t \in Tab : Kept(t)
  BY <1>2, AcceptDoes, StillIsQuiet
<1>3. ASSUME NEW w \in Window, NEW t \in Tab, ActivateTab(t, w)
      PROVE  TInv' /\ Quiet /\ \A u \in Tab : Kept(u)
  BY <1>3, ActivateDoes, StillIsQuiet
<1>4. CASE StartActivating \/ Prepared \/ Dispatched
  <2>1. TInv' /\ UNCHANGED <<disk, store>> /\ Alike(mem, mem') /\ KeepsPending
    BY <1>4, StartActivatingDoes, PreparedDoes, DispatchedDoes
  <2> QED BY <2>1, PendingIsQuiet
<1>5. CASE StartLoading
  <2>1. /\ TInv' /\ UNCHANGED disk /\ \E f : mem' = [mem EXCEPT !.mark = f]
        /\ \E j \in JobRecord : j.kind = "load" /\ store' = Append(store, j)
    BY <1>5, StartLoadingDoes
  <2>2. /\ \A k \in Jobs' : k \in Jobs \/ k.kind \in TaskKinds
        /\ \A k \in Jobs : k \in Jobs'
    BY <2>1, JobsGrow DEF TaskKinds
  <2> QED BY <2>1, <2>2, MarkIsQuiet DEF Kept
<1>6. CASE Admit
  <2>1. TInv' /\ UNCHANGED <<disk, store>> /\ \E f : mem' = [mem EXCEPT !.mark = f]
    BY <1>6, AdmitDoes
  <2> QED BY <2>1, MarkIsQuiet DEF Kept, Jobs
<1>7. CASE ActiveTab
  <2>1. /\ TInv' /\ UNCHANGED disk
        /\ \E k : /\ Accepts(k)
                  /\ StageNext(k, store) \/ StagesDone(k, store)
    BY <1>7, ActiveTabDoes
  <2>2. PICK k : Accepts(k) /\ (StageNext(k, store) \/ StagesDone(k, store))
    BY <2>1
  <2>3. CASE StageNext(k, store)
    <3>1. /\ UNCHANGED mem
          /\ \E j \in JobRecord : j.kind = "stage" /\ store' = Append(store, j)
      BY <2>3 DEF StageNext
    <3>2. /\ \A i \in Jobs' : i \in Jobs \/ i.kind \in TaskKinds
          /\ \A i \in Jobs : i \in Jobs'
      BY <3>1, JobsGrow DEF TaskKinds
    <3> QED BY <2>1, <3>1, <3>2, SameIsQuiet DEF Kept
  <2>4. CASE StagesDone(k, store)
    <3>1. Jobs' = Jobs
      BY <2>4 DEF StagesDone, Jobs
    <3> QED BY <2>1, <2>2, <2>4, <3>1, StagesAreQuiet DEF Quiet, Kept
  <2> QED BY <2>2, <2>3, <2>4
<1>8. CASE Initialized
  <2>1. /\ TInv' /\ UNCHANGED disk /\ \E f : mem' = [mem EXCEPT !.mark = f]
        /\ store # <<>> /\ store[1].kind = "init" /\ store' = Tail(store)
    BY <1>8, InitializedDoes, EndsIs, TypesOf DEF Initialized
  <2>2. /\ \A k \in Jobs' : k \in Jobs \/ k.kind \in TaskKinds
        /\ \A k \in Jobs : k \in Jobs' \/ k.kind \in TaskKinds \cup {"init"}
    BY <2>1, JobsTurn
  <2> QED BY <2>1, <2>2, MarkIsQuiet DEF Kept
<1>9. CASE AcceptLoaded
  <2>1. /\ TInv' /\ UNCHANGED <<disk, mem>>
        /\ store # <<>> /\ store[1].kind = "load" /\ store' = Tail(store)
    BY <1>9, AcceptLoadedDoes
  <2>2. /\ \A k \in Jobs' : k \in Jobs \/ k.kind \in TaskKinds
        /\ \A k \in Jobs : k \in Jobs' \/ k.kind \in TaskKinds \cup {"init"}
    BY <2>1, JobsTurn DEF TaskKinds
  <2> QED BY <2>1, <2>2, SameIsQuiet DEF Kept
<1>10. CASE EpochLoaded \/ EpochStored
  <2>1. /\ TInv' /\ UNCHANGED mem /\ EpochNext
        /\ store # <<>> /\ store[1].kind \in TaskKinds
        /\ \A t \in Tab : Kept(t)
    BY <1>10, EpochLoadedDoes, EpochStoredDoes DEF Kept, TaskKinds
  <2>2. \/ store' = Tail(store)
        \/ \E j \in JobRecord : j.kind \in TaskKinds /\ store' = Append(Tail(store), j)
    BY <2>1 DEF EpochNext, TaskKinds
  <2>3. /\ \A k \in Jobs' : k \in Jobs \/ k.kind \in TaskKinds
        /\ \A k \in Jobs : k \in Jobs' \/ k.kind \in TaskKinds \cup {"init"}
    BY <2>1, <2>2, JobsTurn
  <2> QED BY <2>1, <2>3, SameIsQuiet
<1>11. ASSUME NEW k, RollbackNext(k) \/ RollbackEnds,
              store # <<>>, store[1].kind \in TaskKinds
       PROVE  Quiet
  <2>1. \/ store' = Tail(store)
        \/ \E j \in JobRecord : j.kind \in TaskKinds /\ store' = Append(Tail(store), j)
    BY <1>11 DEF RollbackNext, RollbackEnds, TaskKinds
  <2>2. /\ \A i \in Jobs' : i \in Jobs \/ i.kind \in TaskKinds
        /\ \A i \in Jobs : i \in Jobs' \/ i.kind \in TaskKinds \cup {"init"}
    BY <1>11, <2>1, JobsTurn
  <2>3. mem' = mem \/ \E f : mem' = [mem EXCEPT !.mark = f]
    BY <1>11 DEF RollbackNext, RollbackEnds
  <2> QED BY <2>2, <2>3, MarkIsQuiet, SameIsQuiet
<1>12. CASE StageStored
  <2>1. /\ TInv' /\ UNCHANGED disk
        /\ store # <<>> /\ store[1].kind \in TaskKinds
        /\ \E k : /\ Accepts(k)
                  /\ \/ StageNext(k, Tail(store))
                     \/ StagesDone(k, Tail(store))
                     \/ RollbackNext(k) \/ RollbackEnds
    BY <1>12, StageStoredDoes DEF Staged, TaskKinds
  <2>2. PICK k : /\ Accepts(k)
                 /\ \/ StageNext(k, Tail(store))
                    \/ StagesDone(k, Tail(store))
                    \/ RollbackNext(k) \/ RollbackEnds
    BY <2>1
  <2>3. CASE StageNext(k, Tail(store))
    <3>1. /\ UNCHANGED mem
          /\ \E j \in JobRecord : j.kind \in TaskKinds /\ store' = Append(Tail(store), j)
      BY <2>3 DEF StageNext, TaskKinds
    <3>2. /\ \A i \in Jobs' : i \in Jobs \/ i.kind \in TaskKinds
          /\ \A i \in Jobs : i \in Jobs' \/ i.kind \in TaskKinds \cup {"init"}
      BY <2>1, <3>1, JobsTurn
    <3> QED BY <2>1, <3>1, <3>2, SameIsQuiet DEF Kept
  <2>4. CASE StagesDone(k, Tail(store))
    <3>1. store' = Tail(store)
      BY <2>4 DEF StagesDone
    <3>2. /\ \A i \in Jobs' : i \in Jobs \/ i.kind \in TaskKinds
          /\ \A i \in Jobs : i \in Jobs' \/ i.kind \in TaskKinds \cup {"init"}
      BY <2>1, <3>1, JobsTurn
    <3> QED BY <2>1, <2>2, <2>4, <3>2, StagesAreQuiet DEF Quiet, Kept
  <2> QED BY <1>11, <2>1, <2>2, <2>3, <2>4 DEF Kept
<1>13. CASE RolledBack
  <2>1. /\ TInv' /\ store # <<>> /\ store[1].kind \in TaskKinds
        /\ \E k : RollbackNext(k) \/ RollbackEnds
    BY <1>13, RolledBackDoes DEF TaskKinds
  <2>2. ASSUME NEW t \in Tab PROVE Kept(t)
    <3>1. /\ Restage(store[1].found.before, store[1].found.after)
          /\ disk'[t] # disk[t] => /\ disk[t] = store[1].found.after
                                   /\ disk'[t] = store[1].found.before
      BY <1>13, RolledBackDoes
    <3> QED BY <3>1, NoneIsNoRecord DEF Kept, Restage
  <2> QED BY <1>11, <2>1, <2>2
<1> QED BY <1>1, <1>2, <1>3, <1>4, <1>5, <1>6, <1>7, <1>8, <1>9, <1>10, <1>12, <1>13
        DEF QuietStep

-----------------------------------------------------------------------------
\* Lifecycles

\* A panel is open in a lifecycle of its own; who takes part and what is pending
\* belong to it.
Stands(t) ==
    /\ mem.panel[t] # None =>
           /\ t \notin mem.terminal /\ mem.panel[t] \notin mem.removing
           /\ mem.revision[t] # 0
    /\ mem.participant[t] # None => mem.participant[t] = mem.panel[t]
    /\ mem.pending[t] # None =>
           /\ mem.panel[t] = mem.pending[t].window
           /\ mem.revision[t] = mem.pending[t].revision

\* What holds while a call's revision is still its tab's
Standing(j) ==
    /\ j.kind \in {"close", "remove"} /\ mem.revision[j.tab] = j.revision =>
           mem.panel[j.tab] = None
    /\ j.kind = "remove" => j.tab \in mem.terminal
    /\ j.kind = "window" => \A f \in j.fenced :
           mem.revision[f.tab] = f.revision => mem.panel[f.tab] = None
    /\ j.kind = "open" /\ mem.revision[j.tab] = j.revision =>
           mem.panel[j.tab] = j.window
    /\ j.kind = "settings" /\ mem.revision[j.tab] = j.revision =>
           mem.panel[j.tab] \in {j.window, None}

LifeOK == (\A t \in Tab : Stands(t)) /\ (\A j \in Jobs : Standing(j))

\* A tab's lifecycle goes on, another one begins, or none is left.
Carries(t) ==
    \/ mem'.revision[t] = mem.revision[t] /\ mem'.panel[t] = mem.panel[t]
    \/ mem'.revision[t] \in Fresh(t)
    \/ mem'.revision[t] = 0 /\ mem'.panel[t] = None

\* A job before and after its update
Like(i, j) ==
    /\ j.kind = i.kind /\ j.tab = i.tab /\ j.window = i.window
    /\ j.revision = i.revision /\ j.auto = i.auto /\ j.fenced = i.fenced

LEMMA StandingStays ==
  ASSUME TInv, LifeOK, \A t \in Tab : Carries(t), mem.terminal \subseteq mem'.terminal,
         NEW i \in Jobs, NEW j, Like(i, j)
  PROVE  Standing(j)'
<1>1. i \in JobRecord /\ JobKnows(i) /\ Standing(i)
  BY JobIs, TypesOf DEF LifeOK
<1>2. ASSUME NEW t \in Tab, t = i.tab, mem'.revision[t] = i.revision
      PROVE  \/ mem.revision[t] = i.revision /\ mem'.panel[t] = mem.panel[t]
             \/ i.revision = 0 /\ mem'.panel[t] = None
  <2>1. mem'.revision[t] \notin Fresh(t)
    BY <1>2, FreshIs
  <2> QED BY <1>2, <2>1 DEF Carries
<1>3. ASSUME NEW f \in i.fenced, mem'.revision[f.tab] = f.revision
      PROVE  \/ mem.revision[f.tab] = f.revision /\ mem'.panel[f.tab] = mem.panel[f.tab]
             \/ mem'.panel[f.tab] = None
  <2>1. f.tab \in Tab
    BY <1>1 DEF JobRecord
  <2>2. mem'.revision[f.tab] \notin Fresh(f.tab)
    BY <1>3, <2>1, FreshIs
  <2> QED BY <1>3, <2>1, <2>2 DEF Carries
<1>4. i.kind \in {"close", "remove", "open", "settings"} => i.tab \in Tab
  BY <1>1 DEF JobKnows, TwoSteps
<1>5. i.kind \in {"close", "remove", "open"} => i.revision # 0
  BY <1>1 DEF JobKnows
<1>6. /\ i.kind \in {"close", "remove"} /\ mem'.revision[i.tab] = i.revision =>
             mem'.panel[i.tab] = None
      /\ i.kind = "open" /\ mem'.revision[i.tab] = i.revision =>
             mem'.panel[i.tab] = i.window
      /\ i.kind = "settings" /\ mem'.revision[i.tab] = i.revision =>
             mem'.panel[i.tab] \in {i.window, None}
  BY <1>1, <1>2, <1>4, <1>5 DEF Standing
<1>7. i.kind = "window" => \A f \in i.fenced :
           mem'.revision[f.tab] = f.revision => mem'.panel[f.tab] = None
  BY <1>1, <1>3 DEF Standing
<1>8. i.kind = "remove" => i.tab \in mem'.terminal
  BY <1>1 DEF Standing
<1> QED BY <1>6, <1>7, <1>8 DEF Standing, Like

LEMMA LifeStays ==
  ASSUME TInv, LifeOK, \A t \in Tab : Carries(t), mem.terminal \subseteq mem'.terminal,
         \A t \in Tab : Stands(t)',
         \A j \in Jobs' : (\E i \in Jobs : Like(i, j)) \/ Standing(j)'
  PROVE  LifeOK'
BY StandingStays DEF LifeOK

LEMMA TaskJobStands ==
  ASSUME NEW j, j.kind \in TaskKinds
  PROVE  Standing(j)'
BY DEF Standing, TaskKinds

LEMMA QuietLife ==
  ASSUME TInv, LifeOK, Quiet
  PROVE  LifeOK'
<1>1. ASSUME NEW t \in Tab PROVE Stands(t)'
  <2>1. Stands(t)
    BY DEF LifeOK
  <2> QED BY <2>1 DEF Stands, Quiet, Keeps
<1>2. \A t \in Tab : Carries(t)
  BY DEF Carries, Quiet
<1>3. \A j \in Jobs' : (\E i \in Jobs : Like(i, j)) \/ Standing(j)'
  BY TaskJobStands DEF Quiet, Like
<1> QED BY <1>1, <1>2, <1>3, LifeStays DEF Quiet

\* The calls
LEMMA StandsOn ==
  ASSUME LifeOK, NEW t \in Tab, Stays(t),
         mem'.terminal \subseteq mem.terminal \cup (Tab \ {t}),
         mem.panel[t] \notin mem'.removing \ mem.removing
  PROVE  Stands(t)' /\ Carries(t)
BY DEF LifeOK, Stands, Stays, Carries

LEMMA GoneStands ==
  ASSUME NEW t \in Tab, Gone(t)
  PROVE  Stands(t)' /\ Carries(t)
BY DEF Stands, Gone, Carries

LEMMA OpenedLife ==
  ASSUME TInv, LifeOK, NEW t \in Tab, NEW w \in Window, PanelOpened(t, w)
  PROVE  LifeOK' /\ \A u \in Tab : Carries(u)
<1>1. /\ CanAdvance(t) /\ t \notin mem.terminal /\ w \notin mem.removing
      /\ mem' = Opened(t, w) /\ mem \in Memory
  BY PanelOpenedDoes, TypesOf
<1>2. PICK j : /\ j.kind = "open" /\ j.tab = t /\ j.window = w
               /\ j.revision = mem'.revision[t]
               /\ Jobs' = Jobs \cup {j}
  BY PanelOpenedDoes
<1>3. /\ mem'.terminal = mem.terminal /\ mem'.removing = mem.removing
      /\ mem'.revision[t] \in Fresh(t) /\ mem'.panel[t] = w /\ mem'.pending[t] = None
      /\ mem'.participant[t] = IF mem.panel[t] # w THEN None ELSE mem.participant[t]
  BY <1>1, OpenedIs, NewRevisionIs
<1>4. \A u \in Tab \ {t} : Stays(u)
  BY <1>1, OpenedIs DEF Stays
<1>5. Stands(t)' /\ Carries(t)
  <2>1. mem'.revision[t] # 0 /\ Stands(t)
    BY <1>3, FreshIs DEF LifeOK
  <2> QED BY <1>1, <1>3, <2>1 DEF Stands, Carries
<1>6. \A u \in Tab : Stands(u)' /\ Carries(u)
  BY <1>3, <1>4, <1>5, StandsOn
<1>7. Standing(j)'
  BY <1>2, <1>3 DEF Standing
<1> QED BY <1>2, <1>3, <1>6, <1>7, LifeStays DEF Like

LEMMA ClosedLife ==
  ASSUME TInv, LifeOK, NEW t \in Tab, PanelClosed(t) \/ RemoveTab(t)
  PROVE  LifeOK' /\ \A u \in Tab : Carries(u)
<1>1. /\ Gone(t) /\ \A u \in Tab \ {t} : Stays(u)
      /\ mem'.removing = mem.removing
      /\ mem.terminal \subseteq mem'.terminal
      /\ mem'.terminal \subseteq mem.terminal \cup {t}
  BY PanelClosedDoes, RemoveTabDoes
<1>2. PICK j : /\ j.tab = t /\ Jobs' = Jobs \cup {j}
               /\ j.kind \in {"close", "remove"}
               /\ j.kind = "remove" => t \in mem'.terminal
  BY PanelClosedDoes, RemoveTabDoes
<1>3. \A u \in Tab : Stands(u)' /\ Carries(u)
  BY <1>1, StandsOn, GoneStands
<1>4. Standing(j)'
  BY <1>1, <1>2 DEF Standing, Gone
<1> QED BY <1>1, <1>2, <1>3, <1>4, LifeStays DEF Like

LEMMA SettingsLife ==
  ASSUME TInv, LifeOK, NEW t \in Tab, NEW w \in Window, NEW auto \in BOOLEAN,
         UpdateSettings(t, w, auto)
  PROVE  LifeOK' /\ \A u \in Tab : Carries(u)
<1>1. /\ mem.panel[t] \in {w, None}
      /\ mem' = IF auto THEN mem ELSE Disabled(mem, t, w)
      /\ mem \in Memory
  BY UpdateSettingsDoes, TypesOf
<1>2. PICK j : /\ j.kind = "settings" /\ j.tab = t /\ j.window = w
               /\ Jobs' = Jobs \cup {j}
  BY UpdateSettingsDoes
<1>3. /\ mem'.terminal = mem.terminal /\ mem'.removing = mem.removing
      /\ mem'.revision = mem.revision /\ mem'.panel = mem.panel
      /\ \A u \in Tab : /\ mem'.pending[u] \in {None, mem.pending[u]}
                        /\ mem'.participant[u] \in {None, mem.participant[u]}
  BY <1>1, DisabledIs
<1>4. \A u \in Tab : Stands(u)' /\ Carries(u)
  BY <1>3 DEF LifeOK, Stands, Carries
<1>5. Standing(j)'
  BY <1>1, <1>2, <1>3 DEF Standing
<1> QED BY <1>2, <1>3, <1>4, <1>5, LifeStays DEF Like

LEMMA RemovedLife ==
  ASSUME TInv, LifeOK, NEW w \in Window, RemoveWindow(w)
  PROVE  LifeOK' /\ \A u \in Tab : Carries(u)
<1>1. /\ \A t \in Tab : IF mem.panel[t] = w THEN Gone(t) ELSE Stays(t)
      /\ mem'.terminal = mem.terminal /\ mem'.removing = mem.removing \cup {w}
  BY RemoveWindowDoes
<1>2. PICK j : /\ j.kind = "window"
               /\ \A f \in j.fenced : f.tab \in Tab /\ mem.panel[f.tab] = w
               /\ Jobs' = Jobs \cup {j}
  BY RemoveWindowDoes
<1>3. \A u \in Tab : Stands(u)' /\ Carries(u)
  BY <1>1, StandsOn, GoneStands
<1>4. Standing(j)'
  BY <1>1, <1>2 DEF Standing, Gone
<1> QED BY <1>1, <1>2, <1>3, <1>4, LifeStays DEF Like

\* The ends of the calls
LEMMA EndLife ==
  ASSUME TInv, LifeOK, Jobs' \subseteq Jobs, mem'.terminal = mem.terminal,
         \A t \in Tab : Stands(t)' /\ Carries(t)
  PROVE  LifeOK' /\ \A u \in Tab : Carries(u)
BY LifeStays DEF Like

LEMMA OpenEndsLife ==
  ASSUME TInv, LifeOK, OpenEnds
  PROVE  LifeOK' /\ \A u \in Tab : Carries(u)
<1> DEFINE j == store[1]
           t == j.tab
           w == j.window
<1>1. /\ Jobs' \subseteq Jobs /\ t \in Tab /\ w \in Window /\ mem \in Memory
      /\ j \in Jobs /\ j.kind = "open"
      /\ \/ IsCurrentPanel(mem, t, w, j.revision)
            /\ mem' = [mem EXCEPT !.participant[t] = w]
         \/ mem' = Ousted(mem, t, w)
         \/ mem' = mem
         \/ mem.revision[t] = j.revision /\ mem' = OpenFailed(t, w, j.revision)
  BY OpenEndsDoes, TypesOf
<1>2. Standing(j) /\ \A u \in Tab : Stands(u)
  BY <1>1 DEF LifeOK
<1> HIDE DEF t, w
<1>3. CASE IsCurrentPanel(mem, t, w, j.revision) /\ mem' = [mem EXCEPT !.participant[t] = w]
  <2>1. /\ mem'.panel = mem.panel /\ mem'.revision = mem.revision
        /\ mem'.pending = mem.pending
        /\ mem'.terminal = mem.terminal /\ mem'.removing = mem.removing
        /\ \A u \in Tab : mem'.participant[u] = IF u = t THEN w ELSE mem.participant[u]
    BY <1>1, <1>3 DEF Memory
  <2>2. \A u \in Tab : Stands(u)' /\ Carries(u)
    BY <1>2, <1>3, <2>1 DEF Stands, Carries, IsCurrentPanel
  <2> QED BY <1>1, <2>1, <2>2, EndLife
<1>4. CASE mem' = Ousted(mem, t, w)
  <2>1. \A u \in Tab : Stands(u)' /\ Carries(u)
    BY <1>1, <1>2, <1>4, OustedIs DEF Stands, Carries
  <2> QED BY <1>1, <1>4, <2>1, OustedIs, EndLife
<1>5. CASE mem' = mem
  BY <1>1, <1>2, <1>5, EndLife DEF Stands, Carries
<1>6. CASE mem.revision[t] = j.revision /\ mem' = OpenFailed(t, w, j.revision)
  <2>1. mem.panel[t] = w
    BY <1>1, <1>2, <1>6 DEF Standing, t, w
  <2>2. /\ mem'.panel[t] = None /\ mem'.revision[t] = 0
        /\ mem'.pending[t] = None /\ mem'.participant[t] = None
        /\ mem'.terminal = mem.terminal /\ mem'.removing = mem.removing
    BY <1>1, <1>2, <1>6, <2>1, OpenFailedIs DEF Stands
  <2>3. \A u \in Tab \ {t} : Stays(u)
    BY <1>1, <1>6, OpenFailedIs DEF Stays
  <2>4. \A u \in Tab : Stands(u)' /\ Carries(u)
    <3>1. ASSUME NEW u \in Tab, u = t PROVE Stands(u)' /\ Carries(u)
      BY <2>2, <3>1 DEF Stands, Carries
    <3> QED BY <2>2, <2>3, <3>1, StandsOn
  <2> QED BY <1>1, <2>2, <2>4, EndLife
<1> QED BY <1>1, <1>3, <1>4, <1>5, <1>6

LEMMA SettingsEndLife ==
  ASSUME TInv, LifeOK, SettingsEnd
  PROVE  LifeOK' /\ \A u \in Tab : Carries(u)
<1> DEFINE j == store[1]
           t == j.tab
           w == j.window
<1>1. /\ Jobs' \subseteq Jobs /\ t \in Tab /\ w \in Window /\ mem \in Memory
      /\ \/ IsCurrentPanel(mem, t, w, j.revision)
            /\ mem' = [mem EXCEPT !.participant[t] = w]
         \/ mem' = Ousted(mem, t, w)
         \/ mem' = mem
  BY SettingsEndDoes, TypesOf
<1>2. \A u \in Tab : Stands(u)
  BY DEF LifeOK
<1> HIDE DEF j, t, w
<1>3. CASE IsCurrentPanel(mem, t, w, j.revision) /\ mem' = [mem EXCEPT !.participant[t] = w]
  <2>1. /\ mem'.panel = mem.panel /\ mem'.revision = mem.revision
        /\ mem'.pending = mem.pending
        /\ mem'.terminal = mem.terminal /\ mem'.removing = mem.removing
        /\ \A u \in Tab : mem'.participant[u] = IF u = t THEN w ELSE mem.participant[u]
    BY <1>1, <1>3 DEF Memory
  <2>2. \A u \in Tab : Stands(u)' /\ Carries(u)
    BY <1>2, <1>3, <2>1 DEF Stands, Carries, IsCurrentPanel
  <2> QED BY <1>1, <2>1, <2>2, EndLife
<1>4. CASE mem' = Ousted(mem, t, w)
  <2>1. \A u \in Tab : Stands(u)' /\ Carries(u)
    BY <1>1, <1>2, <1>4, OustedIs DEF Stands, Carries
  <2> QED BY <1>1, <1>4, <2>1, OustedIs, EndLife
<1>5. CASE mem' = mem
  BY <1>1, <1>2, <1>5, EndLife DEF Stands, Carries
<1> QED BY <1>1, <1>3, <1>4, <1>5

\* A call that takes its revision back leaves no panel without one.
LEMMA RetiredLife ==
  ASSUME TInv, LifeOK, CloseEnds \/ RemoveEnds
  PROVE  LifeOK' /\ \A u \in Tab : Carries(u)
<1> DEFINE j == store[1]
           t == j.tab
<1>1. /\ Jobs' \subseteq Jobs /\ t \in Tab /\ mem \in Memory
      /\ j \in Jobs /\ j.kind \in {"close", "remove"}
      /\ mem' = Retire(mem, t, j.revision)
  BY CloseEndsDoes, RemoveEndsDoes, TypesOf
<1>2. /\ mem.revision[t] = j.revision => mem.panel[t] = None
      /\ \A u \in Tab : Stands(u)
  BY <1>1 DEF LifeOK, Standing
<1> HIDE DEF t, j
<1>3. \A u \in Tab : Stands(u)' /\ Carries(u)
  <2>1. /\ mem'.panel = mem.panel /\ mem'.participant = mem.participant
        /\ mem'.pending = mem.pending
        /\ mem'.terminal = mem.terminal /\ mem'.removing = mem.removing
        /\ \A u \in Tab : mem'.revision[u] =
               IF u = t /\ mem.revision[t] = j.revision THEN 0 ELSE mem.revision[u]
    BY <1>1, RetireIs
  <2>2. \A u \in Tab : mem.pending[u] # None => mem.panel[u] # None
    BY <1>2, NoneIsNoRecord, <1>1, MemoryIs DEF Stands, Operation
  <2> QED BY <1>2, <2>1, <2>2 DEF Stands, Carries
<1> QED BY <1>1, <1>3, RetireIs, EndLife

LEMMA WindowEndsLife ==
  ASSUME TInv, LifeOK, WindowEnds
  PROVE  LifeOK' /\ \A u \in Tab : Carries(u)
<1> DEFINE j == store[1]
<1>1. /\ Jobs' \subseteq Jobs /\ mem \in Memory
      /\ j \in Jobs /\ j.kind = "window"
      /\ mem'.panel = mem.panel /\ mem'.participant = mem.participant
      /\ mem'.pending = mem.pending /\ mem'.terminal = mem.terminal
      /\ mem'.removing \subseteq mem.removing
      /\ \A t \in Tab :
             mem'.revision[t] = IF \E f \in j.fenced :
                                       f.tab = t /\ f.revision = mem.revision[t]
                                THEN 0 ELSE mem.revision[t]
  BY WindowEndsDoes, TypesOf
<1>2. /\ \A f \in j.fenced : mem.revision[f.tab] = f.revision => mem.panel[f.tab] = None
      /\ \A u \in Tab : Stands(u)
  BY <1>1 DEF LifeOK, Standing
<1> HIDE DEF j
<1>3. ASSUME NEW u \in Tab PROVE Stands(u)' /\ Carries(u)
  <2>1. mem.pending[u] # None => mem.panel[u] # None
    BY <1>1, <1>2, NoneIsNoRecord, MemoryIs DEF Stands, Operation
  <2>2. \/ mem'.revision[u] = mem.revision[u]
        \/ mem'.revision[u] = 0 /\ mem.panel[u] = None
    BY <1>1, <1>2
  <2> QED BY <1>1, <1>2, <2>1, <2>2 DEF Stands, Carries
<1> QED BY <1>1, <1>3, EndLife

LEMMA UpdateLife ==
  ASSUME TInv, LifeOK, Update
  PROVE  LifeOK'
<1>1. UNCHANGED mem
  BY UpdateDoes
<1>2. \A u \in Tab : Stands(u)' /\ Carries(u)
  BY <1>1 DEF LifeOK, Stands, Carries
<1>3. PICK j \in JobRecord : /\ store' = [store EXCEPT ![1] = j] /\ Like(store[1], j)
  BY UpdateDoes DEF Like
<1>4. store[1] \in Jobs /\ store # <<>>
  BY UpdateDoes
<1>5. Jobs' \subseteq Jobs \cup {j}
  BY <1>3, <1>4, TypesOf, PutIs DEF Jobs
<1>6. \A i \in Jobs' : \E k \in Jobs : Like(k, i)
  BY <1>3, <1>4, <1>5 DEF Like
<1> QED BY <1>1, <1>2, <1>6, LifeStays

LEMMA RestartLife ==
  ASSUME TInv, Restart
  PROVE  LifeOK'
<1>1. /\ \A j \in Jobs' : j = FirstJob
      /\ mem' = [Forgotten EXCEPT !.terminal = mem.terminal]
  BY RestartDoes
<1>2. \A j \in Jobs' : j.kind = "init"
  BY <1>1 DEF FirstJob, Job
<1>3. \A t \in Tab : mem'.panel[t] = None /\ mem'.participant[t] = None
                     /\ mem'.pending[t] = None
  BY <1>1 DEF Forgotten
<1> QED BY <1>2, <1>3 DEF LifeOK, Stands, Standing

LEMMA InitLife == Init => LifeOK
<1> SUFFICES ASSUME Init PROVE LifeOK
  OBVIOUS
<1>1. /\ mem = Forgotten /\ store = <<FirstJob>>
  BY DEF Init, FirstJob
<1>2. \A j \in Jobs : j.kind = "init"
  <2>1. FirstJob.kind = "init"
    BY DEF FirstJob, Job
  <2> QED BY <1>1, <2>1 DEF Jobs, Members
<1>3. \A t \in Tab : mem.panel[t] = None /\ mem.participant[t] = None
                     /\ mem.pending[t] = None
  BY <1>1 DEF Forgotten
<1> QED BY <1>2, <1>3 DEF LifeOK, Stands, Standing

LEMMA NextSplits ==
  ASSUME Next
  PROVE  \/ QuietStep
         \/ \E t \in Tab, w \in Window :
                \/ PanelOpened(t, w)
                \/ \E auto \in BOOLEAN : UpdateSettings(t, w, auto)
         \/ \E t \in Tab : PanelClosed(t) \/ RemoveTab(t)
         \/ \E w \in Window : RemoveWindow(w)
         \/ Update \/ OpenEnds \/ SettingsEnd
         \/ CloseEnds \/ RemoveEnds \/ WindowEnds \/ Restart
BY DEF Next, QuietStep

LEMMA NextLife == TInv /\ LifeOK /\ [Next]_vars => LifeOK'
<1> SUFFICES ASSUME TInv, LifeOK, [Next]_vars PROVE LifeOK'
  OBVIOUS
<1>1. CASE UNCHANGED vars
  BY <1>1 DEF vars, LifeOK, Stands, Standing, Jobs
<1>2. CASE QuietStep
  BY <1>2, QuietIs, QuietLife
<1>3. ASSUME NEW t \in Tab, NEW w \in Window,
             \/ PanelOpened(t, w)
             \/ \E auto \in BOOLEAN : UpdateSettings(t, w, auto)
      PROVE  LifeOK'
  BY <1>3, OpenedLife, SettingsLife
<1>4. ASSUME NEW t \in Tab, PanelClosed(t) \/ RemoveTab(t) PROVE LifeOK'
  BY <1>4, ClosedLife
<1>5. ASSUME NEW w \in Window, RemoveWindow(w) PROVE LifeOK'
  BY <1>5, RemovedLife
<1>6. CASE Update \/ OpenEnds \/ SettingsEnd \/ CloseEnds \/ RemoveEnds
           \/ WindowEnds \/ Restart
  BY <1>6, UpdateLife, OpenEndsLife, SettingsEndLife, RetiredLife, WindowEndsLife,
     RestartLife
<1> QED BY <1>1, <1>2, <1>3, <1>4, <1>5, <1>6, NextSplits

\* Every refresh a tab still has to make is one of its panel's lifecycle and
\* window, and who takes part does so for its panel's window: a call that ends
\* late, after its tab's panel closed or moved, changes neither.
THEOREM OwnedPending == Spec => []PendingIsOwned
<1>1. Init => TInv /\ LifeOK
  BY InitIsTyped, InitLife
<1>2. TInv /\ LifeOK /\ [Next]_vars => TInv' /\ LifeOK'
  BY NextIsTyped, NextLife
<1>3. TInv /\ LifeOK => PendingIsOwned
  <2> SUFFICES ASSUME TInv, LifeOK PROVE PendingIsOwned
    OBVIOUS
  <2>1. ASSUME NEW t \in Tab, mem.pending[t] # None
        PROVE  IsCurrentPanel(mem, t, mem.pending[t].window, mem.pending[t].revision)
    <3>1. mem.pending[t].window \in Window
      BY <2>1, TypesOf, MemoryIs DEF Operation
    <3> QED BY <2>1, <3>1, NoneIsNoRecord DEF LifeOK, Stands, IsCurrentPanel
  <2> QED BY <2>1, TypeInvariant DEF PendingIsOwned, LifeOK, Stands
<1> QED BY <1>1, <1>2, <1>3, PTL DEF Spec

-----------------------------------------------------------------------------
\* Auto Refresh

On(t) == disk[t] # None /\ disk[t].auto

\* A call that will take its tab out, or find it switched on
Owes(j, t) ==
    /\ j.tab = t /\ j.revision = mem.revision[t]
    /\ \/ j.kind = "open" /\ (j.phase = "done" => ~IsOn(j.found.after))
       \/ j.kind = "settings" /\ ~j.auto

\* A call that will let its tab take part
Grants(j) ==
    /\ j.phase = "done"
    /\ \/ j.kind = "open" /\ IsOn(j.found.after)
       \/ j.kind = "settings" /\ j.auto

Covered(t) == mem.participant[t] # None => On(t) \/ \E j \in Jobs : Owes(j, t)

Granted(j) == Grants(j) /\ mem.revision[j.tab] = j.revision => On(j.tab)

SwitchOK == (\A t \in Tab : Covered(t)) /\ (\A j \in Jobs : Granted(j))

\* A job that waits has not begun.
LEMMA RestWaits ==
  ASSUME TInv, store # <<>>
  PROVE  /\ Jobs = Members(Tail(store)) \cup {store[1]}
         /\ \A j \in Members(Tail(store)) : j.phase = "queued"
<1>1. /\ store \in Seq(JobRecord) /\ \A i \in DOMAIN store : i # 1 => store[i].phase = "queued"
  BY DEF TInv, QueuesOK, StoreOK, Ordered
<1>2. \A i \in DOMAIN Tail(store) :
          i + 1 \in DOMAIN store /\ Tail(store)[i] = store[i + 1] /\ i + 1 # 1
  BY <1>1, TailIs
<1>3. \A i \in DOMAIN Tail(store) : Tail(store)[i].phase = "queued"
  BY <1>1, <1>2
<1>4. Jobs = Members(Tail(store)) \cup {store[1]}
  BY <1>1, RestHas DEF Jobs
<1> QED BY <1>3, <1>4 DEF Members

\* A job whose revision is its tab's still has the panel it was made for.
LEMMA OwedIsCurrent ==
  ASSUME TInv, LifeOK, NEW j \in Jobs, j.kind = "open",
         mem.revision[j.tab] = j.revision
  PROVE  IsCurrentPanel(mem, j.tab, j.window, j.revision)
<1>1. j.tab \in Tab /\ j.window \in Window
  BY JobIs, TypesOf DEF JobKnows, TwoSteps
<1> QED BY <1>1, NoneIsNoRecord DEF LifeOK, Standing, Stands, IsCurrentPanel

LEMMA SettledIsCurrent ==
  ASSUME TInv, LifeOK, NEW j \in Jobs, j.kind = "settings",
         mem.revision[j.tab] = j.revision, mem.participant[j.tab] # None
  PROVE  IsCurrentPanel(mem, j.tab, j.window, j.revision)
<1>1. j.tab \in Tab /\ j.window \in Window
  BY JobIs, TypesOf DEF JobKnows, TwoSteps
<1> QED BY <1>1, NoneIsNoRecord DEF LifeOK, Standing, Stands, IsCurrentPanel

LEMMA KeptOn ==
  ASSUME NEW t \in Tab, Kept(t)
  PROVE  On(t) => On(t)'
BY DEF Kept, On

LEMMA QuietSwitch ==
  ASSUME TInv, SwitchOK, Quiet, \A t \in Tab : Kept(t)
  PROVE  SwitchOK'
<1>1. \A t \in Tab : On(t) => On(t)'
  BY KeptOn
<1>2. ASSUME NEW t \in Tab PROVE Covered(t)'
  <2>1. ASSUME NEW j \in Jobs, Owes(j, t) PROVE j \in Jobs' /\ Owes(j, t)'
    BY <2>1 DEF Owes, Quiet, TaskKinds
  <2> QED BY <1>1, <2>1 DEF SwitchOK, Covered, Quiet
<1>3. ASSUME NEW j \in Jobs' PROVE Granted(j)'
  <2>1. CASE Grants(j) /\ mem.revision[j.tab] = j.revision
    <3>1. j \in Jobs
      BY <2>1 DEF Quiet, Grants, TaskKinds
    <3>2. j.tab \in Tab
      BY <2>1, <3>1, JobIs, TypesOf DEF Grants, JobKnows, TwoSteps
    <3> QED BY <1>1, <2>1, <3>1, <3>2 DEF SwitchOK, Granted
  <2> QED BY <2>1 DEF Granted, Grants, Quiet
<1> QED BY <1>2, <1>3 DEF SwitchOK

\* A call that joins: no tab is let in by it.
LEMMA CallSwitch ==
  ASSUME TInv, SwitchOK, UNCHANGED disk,
         NEW j, j.phase = "queued", Jobs' = Jobs \cup {j},
         \A t \in Tab : \/ mem'.participant[t] = None
                        \/ Owes(j, t)'
                        \/ /\ mem'.participant[t] = mem.participant[t]
                           /\ mem'.revision[t] = mem.revision[t],
         \A t \in Tab : \/ mem'.revision[t] = mem.revision[t]
                        \/ mem'.revision[t] \in Fresh(t)
  PROVE  SwitchOK'
<1>1. \A t \in Tab : On(t) <=> On(t)'
  BY DEF On
<1>2. ASSUME NEW t \in Tab PROVE Covered(t)'
  <2>1. CASE /\ mem'.participant[t] = mem.participant[t]
             /\ mem'.revision[t] = mem.revision[t]
    <3>1. ASSUME NEW i \in Jobs, Owes(i, t) PROVE i \in Jobs' /\ Owes(i, t)'
      BY <2>1, <3>1 DEF Owes
    <3> QED BY <1>1, <2>1, <3>1 DEF SwitchOK, Covered
  <2> QED BY <2>1 DEF Covered
<1>3. ASSUME NEW i \in Jobs' PROVE Granted(i)'
  <2>1. CASE Grants(i) /\ mem'.revision[i.tab] = i.revision
    <3>1. i \in Jobs
      BY <2>1 DEF Grants
    <3>2. i.tab \in Tab
      BY <2>1, <3>1, JobIs, TypesOf DEF Grants, JobKnows, TwoSteps
    <3>3. mem.revision[i.tab] = i.revision
      BY <2>1, <3>1, <3>2, FreshIs
    <3> QED BY <1>1, <2>1, <3>1, <3>2, <3>3 DEF SwitchOK, Granted
  <2> QED BY <2>1 DEF Granted, Grants
<1> QED BY <1>2, <1>3 DEF SwitchOK

LEMMA CallsSwitch ==
  ASSUME TInv, SwitchOK, NEW t \in Tab, NEW w \in Window,
         \/ PanelOpened(t, w)
         \/ \E auto \in BOOLEAN : UpdateSettings(t, w, auto)
  PROVE  SwitchOK'
<1>1. CASE PanelOpened(t, w)
  <2>1. PICK j : /\ j.kind = "open" /\ j.phase = "queued" /\ j.tab = t
                 /\ j.revision = mem'.revision[t]
                 /\ Jobs' = Jobs \cup {j}
    BY <1>1, PanelOpenedDoes
  <2>2. /\ UNCHANGED disk /\ mem' = Opened(t, w) /\ CanAdvance(t)
    BY <1>1, PanelOpenedDoes
  <2>3. Owes(j, t)' /\ mem'.revision[t] \in Fresh(t)
    BY <2>1, <2>2, OpenedIs, NewRevisionIs, TypesOf DEF Owes
  <2>4. \A u \in Tab \ {t} : /\ mem'.participant[u] = mem.participant[u]
                             /\ mem'.revision[u] = mem.revision[u]
    BY <2>2, OpenedIs, TypesOf
  <2> QED BY <2>1, <2>2, <2>3, <2>4, CallSwitch
<1>2. ASSUME NEW auto \in BOOLEAN, UpdateSettings(t, w, auto) PROVE SwitchOK'
  <2>1. PICK j : j.phase = "queued" /\ Jobs' = Jobs \cup {j}
    BY <1>2, UpdateSettingsDoes
  <2>2. UNCHANGED disk /\ mem' = IF auto THEN mem ELSE Disabled(mem, t, w)
    BY <1>2, UpdateSettingsDoes
  <2>3. \A u \in Tab : /\ mem'.participant[u] \in {None, mem.participant[u]}
                       /\ mem'.revision[u] = mem.revision[u]
    BY <2>2, DisabledIs, TypesOf
  <2> QED BY <2>1, <2>2, <2>3, CallSwitch
<1> QED BY <1>1, <1>2

LEMMA ClosedSwitch ==
  ASSUME TInv, SwitchOK, NEW t \in Tab, PanelClosed(t) \/ RemoveTab(t)
  PROVE  SwitchOK'
<1>1. PICK j : j.phase = "queued" /\ Jobs' = Jobs \cup {j}
  BY PanelClosedDoes, RemoveTabDoes
<1>2. UNCHANGED disk /\ Gone(t) /\ \A u \in Tab \ {t} : Stays(u)
  BY PanelClosedDoes, RemoveTabDoes
<1> QED BY <1>1, <1>2, CallSwitch DEF Gone, Stays

LEMMA RemovedSwitch ==
  ASSUME TInv, SwitchOK, NEW w \in Window, RemoveWindow(w)
  PROVE  SwitchOK'
<1>1. PICK j : j.phase = "queued" /\ Jobs' = Jobs \cup {j}
  BY RemoveWindowDoes
<1>2. UNCHANGED disk /\ \A u \in Tab : IF mem.panel[u] = w THEN Gone(u) ELSE Stays(u)
  BY RemoveWindowDoes
<1> QED BY <1>1, <1>2, CallSwitch DEF Gone, Stays

LEMMA UpdateSwitch ==
  ASSUME TInv, LifeOK, SwitchOK, Update
  PROVE  SwitchOK'
<1> DEFINE i == store[1]
<1>1. /\ UNCHANGED mem /\ store # <<>> /\ i \in Jobs
      /\ i.kind \in TwoSteps /\ i.phase = "queued" /\ i.tab \in Tab
      /\ \A u \in Tab \ {i.tab} : disk'[u] = disk[u]
  BY UpdateDoes
<1>2. PICK j \in JobRecord :
          /\ store' = [store EXCEPT ![1] = j] /\ Like(i, j)
          /\ j.found.after = Updated(i)
          /\ disk'[j.tab] \in {disk[j.tab], Updated(i)}
          /\ j.phase \in {"done", "failed"}
          /\ j.phase = "done" => disk'[j.tab] = Updated(i)
  BY UpdateDoes DEF Like
<1>3. Jobs' = Members(Tail(store)) \cup {j}
  <2> DEFINE s == [store EXCEPT ![1] = j]
  <2>1. s \in Seq(JobRecord) /\ s # <<>> /\ s[1] = j /\ Tail(s) = Tail(store)
    BY <1>1, TypesOf, PutIs
  <2> HIDE DEF s
  <2>2. Members(s) = Members(Tail(s)) \cup {j}
    BY <2>1, RestHas
  <2> QED BY <1>2, <2>1, <2>2 DEF Jobs, s
<1>4. /\ Jobs = Members(Tail(store)) \cup {i}
      /\ \A k \in Members(Tail(store)) : k.phase = "queued"
  BY <1>1, RestWaits
<1>5. \/ /\ i.kind = "open" /\ StoresOwn(i)
         /\ Updated(i).auto <=> IsOn(disk[i.tab])
      \/ /\ i.kind = "settings" /\ StoresOwn(i)
         /\ mem.revision[i.tab] = i.revision
         /\ Updated(i).auto = i.auto
      \/ /\ Stages(i) /\ Restage(disk[i.tab], Updated(i))
      \/ /\ Updated(i) = disk[i.tab]
         /\ ~(i.kind = "open" /\ mem.revision[i.tab] = i.revision)
         /\ ~(i.kind = "settings" /\ mem.revision[i.tab] = i.revision)
  BY <1>1, UpdatedIs, OwedIsCurrent
<1> HIDE DEF i
<1>6. StoresOwn(i) => Updated(i) # None
  BY NoneIsNoRecord DEF StoresOwn
<1>7. ASSUME NEW u \in Tab, u # i.tab PROVE Covered(u)'
  <2>1. On(u) <=> On(u)'
    BY <1>1, <1>7 DEF On
  <2>2. ASSUME NEW k \in Jobs, Owes(k, u) PROVE k \in Jobs' /\ Owes(k, u)'
    BY <1>1, <1>3, <1>4, <1>7, <2>2 DEF Owes
  <2> QED BY <1>1, <1>7, <2>1, <2>2 DEF SwitchOK, Covered
<1>8. ASSUME NEW u \in Tab, u = i.tab, mem.participant[u] # None
      PROVE  On(u)' \/ \E k \in Jobs' : Owes(k, u)'
  <2>1. On(u) \/ \E k \in Jobs : Owes(k, u)
    BY <1>8 DEF SwitchOK, Covered
  <2>2. ASSUME NEW k \in Members(Tail(store)), Owes(k, u) PROVE k \in Jobs' /\ Owes(k, u)'
    BY <1>1, <1>3, <2>2 DEF Owes
  <2>3. CASE i.kind = "open" /\ mem.revision[u] = i.revision
    <3>1. StoresOwn(i) \/ Updated(i) # Updated(i)
      BY <1>5, <1>8, <2>3 DEF Stages
    <3>2. CASE j.phase = "done" /\ IsOn(Updated(i))
      BY <1>2, <1>6, <1>8, <3>1, <3>2 DEF On, IsOn, Like
    <3>3. CASE j.phase # "done" \/ ~IsOn(Updated(i))
      BY <1>1, <1>2, <1>3, <1>8, <2>3, <3>3 DEF Owes, Like
    <3> QED BY <3>2, <3>3
  <2>4. CASE i.kind = "settings" /\ mem.revision[u] = i.revision
    <3>1. StoresOwn(i) /\ Updated(i).auto = i.auto
      BY <1>5, <1>8, <2>4 DEF Stages
    <3>2. CASE ~i.auto
      BY <1>1, <1>2, <1>3, <1>8, <2>4, <3>2 DEF Owes, Like
    <3>3. CASE i.auto /\ disk'[u] = Updated(i)
      BY <1>6, <3>1, <3>3 DEF On
    <3>4. CASE i.auto /\ disk'[u] = disk[u]
      <4>1. On(u) <=> On(u)'
        BY <3>4 DEF On
      <4>2. ~Owes(i, u)
        BY <2>4, <3>4 DEF Owes
      <4> QED BY <1>4, <2>1, <2>2, <4>1, <4>2
    <3> QED BY <1>2, <1>8, <3>2, <3>3, <3>4 DEF Like
  <2>5. CASE i.kind \notin {"open", "settings"} \/ mem.revision[u] # i.revision
    <3>1. ~Owes(i, u)
      BY <2>5 DEF Owes
    <3>2. CASE i.kind = "open" /\ StoresOwn(i)
      <4>1. Updated(i).auto <=> IsOn(disk[u])
        BY <1>5, <1>6, <1>8, <3>2 DEF Stages, IsOn
      <4>2. On(u) => On(u)'
        BY <1>2, <1>6, <1>8, <3>2, <4>1 DEF On, IsOn, Like
      <4> QED BY <1>4, <2>1, <2>2, <3>1, <4>2
    <3>3. CASE ~(i.kind = "open" /\ StoresOwn(i))
      <4>1. \/ Restage(disk[u], Updated(i))
            \/ Updated(i) = disk[u]
        BY <1>5, <1>8, <2>5, <3>3
      <4>2. On(u) => On(u)'
        BY <1>2, <1>8, <4>1, NoneIsNoRecord DEF On, Like, Restage
      <4> QED BY <1>4, <2>1, <2>2, <3>1, <4>2
    <3> QED BY <3>2, <3>3
  <2> QED BY <2>3, <2>4, <2>5
<1>9. ASSUME NEW k \in Jobs' PROVE Granted(k)'
  <2>1. CASE k = j /\ Grants(j) /\ mem.revision[j.tab] = j.revision
    <3>1. disk'[i.tab] = Updated(i) /\ StoresOwn(i)
      BY <1>2, <1>5, <2>1 DEF Grants, Like, Stages
    <3>2. Updated(i).auto
      BY <1>2, <1>5, <1>6, <2>1, <3>1 DEF Grants, Like, Stages, IsOn
    <3> QED BY <1>2, <1>6, <2>1, <3>1, <3>2 DEF Granted, On, Like
  <2>2. CASE k # j
    BY <1>3, <1>4, <2>2 DEF Granted, Grants
  <2> QED BY <1>1, <2>1, <2>2 DEF Granted, Grants
<1> QED BY <1>1, <1>7, <1>8, <1>9 DEF SwitchOK, Covered

\* The ends of the calls: what is left in the queue has not begun.
LEMMA EndSwitch ==
  ASSUME TInv, store # <<>>, store' = Tail(store),
         \A t \in Tab : Covered(t)'
  PROVE  SwitchOK'
<1>1. \A j \in Jobs' : j.phase = "queued"
  BY RestWaits DEF Jobs
<1> QED BY <1>1 DEF SwitchOK, Granted, Grants

\* A tab of which the call that ends owes nothing
LEMMA EndCovers ==
  ASSUME TInv, SwitchOK, store # <<>>, store' = Tail(store),
         NEW t \in Tab, ~Owes(store[1], t), disk'[t] = disk[t],
         mem'.participant[t] \in {None, mem.participant[t]},
         mem'.revision[t] = mem.revision[t]
  PROVE  Covered(t)'
<1>1. On(t) <=> On(t)'
  BY DEF On
<1>2. ASSUME NEW k \in Jobs, Owes(k, t) PROVE k \in Jobs' /\ Owes(k, t)'
  BY <1>2, RestWaits DEF Owes, Jobs
<1> QED BY <1>1, <1>2 DEF SwitchOK, Covered

LEMMA OpenEndsSwitch ==
  ASSUME TInv, LifeOK, SwitchOK, OpenEnds
  PROVE  SwitchOK'
<1> DEFINE j == store[1]
           w == j.window
<1>1. /\ store # <<>> /\ store' = Tail(store) /\ UNCHANGED disk
      /\ j \in Jobs /\ j.kind = "open" /\ j.tab \in Tab /\ w \in Window
      /\ mem \in Memory
  BY OpenEndsDoes, TypesOf
<1>2. \/ /\ j.phase = "done" /\ IsOn(j.found.after)
         /\ IsCurrentPanel(mem, j.tab, w, j.revision)
         /\ mem' = [mem EXCEPT !.participant[j.tab] = w]
      \/ mem' = Ousted(mem, j.tab, w)
      \/ ~IsCurrentPanel(mem, j.tab, w, j.revision) /\ mem' = mem
      \/ mem.revision[j.tab] = j.revision /\ mem' = OpenFailed(j.tab, w, j.revision)
      \/ mem.revision[j.tab] # j.revision /\ mem' = mem
  BY OpenEndsDoes
<1>3. mem.revision[j.tab] = j.revision =>
          IsCurrentPanel(mem, j.tab, w, j.revision)
  BY <1>1, OwedIsCurrent
<1>4. /\ Granted(j) /\ Stands(j.tab)
  BY <1>1 DEF SwitchOK, LifeOK
<1> HIDE DEF w
<1>5. ASSUME NEW t \in Tab PROVE Covered(t)'
  <2>1. CASE t # j.tab
    <3>1. ~Owes(j, t)
      BY <2>1 DEF Owes
    <3>2. mem'.participant[t] = mem.participant[t] /\ mem'.revision[t] = mem.revision[t]
      <4>1. CASE mem' = [mem EXCEPT !.participant[j.tab] = w]
        BY <1>1, <2>1, <4>1 DEF Memory
      <4>2. CASE mem' = Ousted(mem, j.tab, w)
        BY <1>1, <2>1, <4>2, OustedIs
      <4>3. CASE mem.revision[j.tab] = j.revision /\ mem' = OpenFailed(j.tab, w, j.revision)
        BY <1>1, <2>1, <4>3, OpenFailedIs
      <4> QED BY <1>2, <4>1, <4>2, <4>3
    <3> QED BY <1>1, <3>1, <3>2, EndCovers
  <2>2. CASE t = j.tab
    <3>1. CASE /\ j.phase = "done" /\ IsOn(j.found.after)
               /\ IsCurrentPanel(mem, j.tab, w, j.revision)
      BY <1>1, <1>4, <2>2, <3>1 DEF Granted, Grants, IsCurrentPanel, Covered, On
    <3>2. CASE mem' = Ousted(mem, t, w)
      <4>1. CASE Owes(j, t)
        <5>1. mem.participant[t] \in {None, w}
          BY <1>3, <1>4, <2>2, <4>1 DEF Owes, IsCurrentPanel, Stands
        <5> QED BY <1>1, <3>2, <5>1, OustedIs DEF Covered
      <4>2. CASE ~Owes(j, t)
        BY <1>1, <3>2, <4>2, OustedIs, EndCovers
      <4> QED BY <4>1, <4>2
    <3>3. CASE mem.revision[t] # j.revision /\ mem' = mem
      BY <1>1, <3>3, EndCovers DEF Owes
    <3>4. CASE mem.revision[t] = j.revision /\ mem' = OpenFailed(t, w, j.revision)
      <4>1. mem.participant[t] \in {None, w}
        BY <1>3, <1>4, <2>2, <3>4 DEF IsCurrentPanel, Stands
      <4> QED BY <1>1, <3>4, <4>1, OpenFailedIs DEF Covered
    <3> QED BY <1>2, <1>3, <2>2, <3>1, <3>2, <3>3, <3>4
  <2> QED BY <2>1, <2>2
<1> QED BY <1>1, <1>5, EndSwitch

LEMMA SettingsEndSwitch ==
  ASSUME TInv, LifeOK, SwitchOK, SettingsEnd
  PROVE  SwitchOK'
<1> DEFINE j == store[1]
           w == j.window
<1>1. /\ store # <<>> /\ store' = Tail(store) /\ UNCHANGED disk
      /\ j \in Jobs /\ j.kind = "settings" /\ j.tab \in Tab /\ w \in Window
      /\ mem \in Memory
  BY SettingsEndDoes, TypesOf
<1>2. \/ /\ j.phase = "done" /\ j.auto
         /\ IsCurrentPanel(mem, j.tab, w, j.revision)
         /\ mem' = [mem EXCEPT !.participant[j.tab] = w]
      \/ mem' = Ousted(mem, j.tab, w)
      \/ /\ ~IsCurrentPanel(mem, j.tab, w, j.revision) \/ j.auto
         /\ mem' = mem
  BY SettingsEndDoes
<1>3. mem.revision[j.tab] = j.revision /\ mem.participant[j.tab] # None =>
          IsCurrentPanel(mem, j.tab, w, j.revision)
  BY <1>1, SettledIsCurrent
<1>4. /\ Granted(j) /\ Stands(j.tab)
  BY <1>1 DEF SwitchOK, LifeOK
<1> HIDE DEF w
<1>5. ASSUME NEW t \in Tab PROVE Covered(t)'
  <2>1. CASE t # j.tab
    <3>1. ~Owes(j, t)
      BY <2>1 DEF Owes
    <3>2. mem'.participant[t] = mem.participant[t] /\ mem'.revision[t] = mem.revision[t]
      <4>1. CASE mem' = [mem EXCEPT !.participant[j.tab] = w]
        BY <1>1, <2>1, <4>1 DEF Memory
      <4>2. CASE mem' = Ousted(mem, j.tab, w)
        BY <1>1, <2>1, <4>2, OustedIs
      <4> QED BY <1>2, <4>1, <4>2
    <3> QED BY <1>1, <3>1, <3>2, EndCovers
  <2>2. CASE t = j.tab
    <3>1. CASE /\ j.phase = "done" /\ j.auto
               /\ IsCurrentPanel(mem, j.tab, w, j.revision)
      BY <1>1, <1>4, <2>2, <3>1 DEF Granted, Grants, IsCurrentPanel, Covered, On
    <3>2. CASE mem' = Ousted(mem, t, w)
      <4>1. CASE Owes(j, t)
        <5>1. mem.participant[t] \in {None, w}
          BY <1>3, <1>4, <2>2, <4>1 DEF Owes, IsCurrentPanel, Stands
        <5> QED BY <1>1, <3>2, <5>1, OustedIs DEF Covered
      <4>2. CASE ~Owes(j, t)
        BY <1>1, <3>2, <4>2, OustedIs, EndCovers
      <4> QED BY <4>1, <4>2
    <3>3. CASE /\ ~IsCurrentPanel(mem, j.tab, w, j.revision) \/ j.auto
               /\ mem' = mem
      <4>1. CASE Owes(j, t)
        <5>1. mem.participant[t] = None
          BY <1>1, <1>3, <2>2, <3>3, <4>1 DEF Owes
        <5> QED BY <3>3, <5>1 DEF Covered
      <4>2. CASE ~Owes(j, t)
        BY <1>1, <3>3, <4>2, EndCovers
      <4> QED BY <4>1, <4>2
    <3> QED BY <1>2, <2>2, <3>1, <3>2, <3>3
  <2> QED BY <2>1, <2>2
<1> QED BY <1>1, <1>5, EndSwitch

LEMMA OtherEndsSwitch ==
  ASSUME TInv, LifeOK, SwitchOK, CloseEnds \/ RemoveEnds \/ WindowEnds
  PROVE  SwitchOK'
<1> DEFINE j == store[1]
<1>1. /\ store # <<>> /\ store' = Tail(store)
      /\ j \in Jobs /\ j.kind \in {"close", "remove", "window"}
      /\ mem \in Memory
  BY CloseEndsDoes, RemoveEndsDoes, WindowEndsDoes, TypesOf
<1>2. ASSUME NEW t \in Tab
      PROVE  /\ mem'.participant = mem.participant
             /\ \/ mem'.revision[t] = mem.revision[t]
                \/ mem.panel[t] = None
             /\ disk'[t] = disk[t] \/ t \in mem.terminal
  <2>1. Standing(j)
    BY <1>1 DEF LifeOK
  <2>2. CASE CloseEnds
    BY <1>1, <2>1, <2>2, CloseEndsDoes, RetireIs DEF Standing
  <2>3. CASE RemoveEnds
    BY <1>1, <2>1, <2>3, RemoveEndsDoes, RetireIs DEF Standing
  <2>4. CASE WindowEnds
    BY <1>1, <2>1, <2>4, WindowEndsDoes DEF Standing
  <2> QED BY <2>2, <2>3, <2>4
<1>3. ASSUME NEW t \in Tab PROVE Covered(t)'
  <2>1. CASE mem.participant[t] = None
    BY <1>2, <2>1 DEF Covered
  <2>2. CASE mem.participant[t] # None
    <3>1. mem.panel[t] # None /\ t \notin mem.terminal
      BY <2>2 DEF LifeOK, Stands
    <3>2. ~Owes(j, t)
      BY <1>1 DEF Owes
    <3> QED BY <1>1, <1>2, <3>1, <3>2, EndCovers
  <2> QED BY <2>1, <2>2
<1> QED BY <1>1, <1>3, EndSwitch

LEMMA InitSwitch == Init => SwitchOK
<1> SUFFICES ASSUME Init PROVE SwitchOK
  OBVIOUS
<1>1. /\ mem = Forgotten /\ store = <<FirstJob>>
  BY DEF Init, FirstJob
<1>2. \A j \in Jobs : j.phase = "queued"
  <2>1. FirstJob.phase = "queued"
    BY DEF FirstJob, Job
  <2> QED BY <1>1, <2>1 DEF Jobs, Members
<1>3. \A t \in Tab : mem.participant[t] = None
  BY <1>1 DEF Forgotten
<1> QED BY <1>2, <1>3 DEF SwitchOK, Covered, Granted, Grants

LEMMA RestartSwitch ==
  ASSUME TInv, Restart
  PROVE  SwitchOK'
<1>1. /\ \A j \in Jobs' : j = FirstJob
      /\ mem' = [Forgotten EXCEPT !.terminal = mem.terminal]
  BY RestartDoes
<1>2. \A j \in Jobs' : j.phase = "queued"
  BY <1>1 DEF FirstJob, Job
<1>3. \A t \in Tab : mem'.participant[t] = None
  BY <1>1 DEF Forgotten
<1> QED BY <1>2, <1>3 DEF SwitchOK, Covered, Granted, Grants

LEMMA NextSwitch == TInv /\ LifeOK /\ SwitchOK /\ [Next]_vars => SwitchOK'
<1> SUFFICES ASSUME TInv, LifeOK, SwitchOK, [Next]_vars PROVE SwitchOK'
  OBVIOUS
<1>1. CASE UNCHANGED vars
  BY <1>1 DEF vars, SwitchOK, Covered, Granted, Owes, On, Jobs
<1>2. CASE QuietStep
  BY <1>2, QuietIs, QuietSwitch
<1>3. ASSUME NEW t \in Tab, NEW w \in Window,
             \/ PanelOpened(t, w)
             \/ \E auto \in BOOLEAN : UpdateSettings(t, w, auto)
      PROVE  SwitchOK'
  BY <1>3, CallsSwitch
<1>4. ASSUME NEW t \in Tab, PanelClosed(t) \/ RemoveTab(t) PROVE SwitchOK'
  BY <1>4, ClosedSwitch
<1>5. ASSUME NEW w \in Window, RemoveWindow(w) PROVE SwitchOK'
  BY <1>5, RemovedSwitch
<1>6. CASE Update \/ OpenEnds \/ SettingsEnd \/ CloseEnds \/ RemoveEnds
           \/ WindowEnds \/ Restart
  BY <1>6, UpdateSwitch, OpenEndsSwitch, SettingsEndSwitch, OtherEndsSwitch,
     RestartSwitch
<1> QED BY <1>1, <1>2, <1>3, <1>4, <1>5, <1>6, NextSplits

\* With Auto Refresh off a tab takes no part once the calls of its panel and its
\* settings have ended: whichever of them ends last, whether its storage failed,
\* and whatever panel closed, moved or was removed meanwhile.
THEOREM DisabledTabsStayOut == Spec => []DisabledStaysOut
<1>1. Init => TInv /\ LifeOK /\ SwitchOK
  BY InitIsTyped, InitLife, InitSwitch
<1>2. TInv /\ LifeOK /\ SwitchOK /\ [Next]_vars => TInv' /\ LifeOK' /\ SwitchOK'
  BY NextIsTyped, NextLife, NextSwitch
<1>3. SwitchOK => DisabledStaysOut
  BY DEF SwitchOK, Covered, Owes, On, DisabledStaysOut, Jobs, Members
<1> QED BY <1>1, <1>2, <1>3, PTL DEF Spec

-----------------------------------------------------------------------------
\* Watermarks

StoredAt(t, w, m) ==
    disk[t] # None /\ disk[t].window = w /\ Rank(disk[t].mark) >= Rank(m)

\* A tab's refresh that counts: its window's epoch did not end
Due(t, w) ==
    /\ mem.pending[t] # None /\ mem.pending[t].window = w
    /\ ~mem.pending[t].late

AskedIn(t, w) == asked[t] # None /\ asked[t].window = w

\* Where the panel of a tab is the tab is stored, or its opening is not over.
PanelStored(t) ==
    mem.panel[t] # None =>
        \/ disk[t] # None /\ disk[t].window = mem.panel[t]
        \/ \E j \in Jobs : /\ j.kind = "open" /\ j.tab = t
                           /\ j.revision = mem.revision[t] /\ j.phase # "done"

\* What was asked, and what is due, is stored.
AskedStored(t) ==
    asked[t] # None =>
        /\ disk[t] # None => StoredAt(t, asked[t].window, asked[t].mark)
        /\ disk[t] = None =>
               /\ t \in mem.terminal
               /\ \A j \in Jobs : j.kind = "settings" => j.tab # t

Dispatching(t) == tasks # <<>> /\ tasks[1].pc = "dispatch" /\ tasks[1].tab = t

DueStored(t) ==
    mem.pending[t] # None /\ ~mem.pending[t].late =>
        /\ StoredAt(t, mem.pending[t].window, mem.pending[t].mark)
        /\ AskedIn(t, mem.pending[t].window) =>
               \/ Rank(mem.pending[t].mark) > Rank(asked[t].mark)
               \/ Dispatching(t)

\* The refresh that is being admitted is newer than what is stored.
Admitting ==
    tasks # <<>> /\ tasks[1].pc \in {"admit", "active", "stage"} =>
        \A t \in Tab :
            /\ disk[t] # None /\ AskedIn(t, tasks[1].window) =>
                   Rank(tasks[1].mark) > Rank(asked[t].mark)
            /\ Due(t, tasks[1].window) =>
                   Rank(tasks[1].mark) > Rank(mem.pending[t].mark)

\* A stage that is over, in a lifecycle that goes on, is stored.
StageStands(j) ==
    /\ j.kind = "stage" /\ j.phase = "done"
    /\ mem.revision[j.tab] = j.revision /\ mem.panel[j.tab] = j.window
    /\ j.found.after # None
    => StoredAt(j.tab, j.window, tasks[1].mark)

StagesStored ==
    /\ \A j \in Jobs : StageStands(j)
    /\ tasks # <<>> /\ tasks[1].pc = "stage" =>
           \A s \in tasks[1].staged :
               /\ s.auto /\ mem.revision[s.tab] = s.revision
               /\ mem.panel[s.tab] = tasks[1].window
               => StoredAt(s.tab, tasks[1].window, tasks[1].mark)

\* What a rollback restores is not older than what was asked, or is due.
Restorable(t, b) ==
    /\ AskedIn(t, b.window) => Rank(b.mark) >= Rank(asked[t].mark)
    /\ Due(t, b.window) => Rank(b.mark) >= Rank(mem.pending[t].mark)

JobRestores(j) ==
    \/ j.kind = "rollback"
    \/ j.kind = "stage" /\ j.phase # "queued" /\ j.found.before # None
    => Restorable(j.tab, j.found.before)

CommitsRestorable ==
    /\ \A j \in Jobs : JobRestores(j)
    /\ tasks # <<>> => \A c \in Members(tasks[1].commits) : Restorable(c.tab, c.before)

\* What an epoch that has begun leaves of the one before
EpochClears(k) ==
    tasks[k].kind = "epoch" =>
        /\ \A i \in DOMAIN tasks :
               i < k /\ tasks[i].kind = "accept"
                     /\ tasks[i].window = tasks[k].window
                     /\ tasks[i].pc \notin {"prepare", "dispatch"}
               => tasks[i].late
        /\ \A t \in Tab : ~Due(t, tasks[k].window)
        /\ tasks[k].pc # "queued" =>
               \A t \in Tab : ~AskedIn(t, tasks[k].window)

EpochsClear == \A k \in DOMAIN tasks : EpochClears(k)

MarksOK ==
    /\ \A t \in Tab : PanelStored(t)
    /\ \A t \in Tab : AskedStored(t)
    /\ \A t \in Tab : DueStored(t)
    /\ Admitting /\ StagesStored /\ CommitsRestorable /\ EpochsClear

\* The tasks stay what they are, or are late now; others have joined them.
Mirrors(q, r) ==
    /\ \A i \in DOMAIN q :
           /\ i \in DOMAIN r
           /\ r[i].kind = q[i].kind /\ r[i].pc = q[i].pc
           /\ r[i].window = q[i].window /\ r[i].tab = q[i].tab
           /\ r[i].mark = q[i].mark /\ r[i].staged = q[i].staged
           /\ r[i].commits = q[i].commits
           /\ q[i].late => r[i].late
    /\ \A i \in DOMAIN r \ DOMAIN q : r[i].pc = "queued"
    /\ q = <<>> \/ 1 \in DOMAIN q

\* A step that neither asks nor stores: a call, the end of one, a task that is
\* queued
Calm ==
    /\ UNCHANGED asked
    /\ \A t \in Tab :
           \/ disk'[t] = disk[t]
           \/ /\ disk'[t] = None /\ t \in mem.terminal
              /\ \A j \in Jobs' : j.kind = "settings" => j.tab # t
    /\ KeepsPending
    /\ \A t \in Tab : Carries(t)
    /\ mem.terminal \subseteq mem'.terminal
    /\ \A j \in Jobs' :
           \/ j \in Jobs
           \/ /\ j.kind \notin TaskKinds /\ j.phase = "queued"
              /\ j.kind = "settings" => j.tab \notin mem.terminal
    /\ Mirrors(tasks, tasks')

LEMMA MarksAreRanked ==
  ASSUME TInv
  PROVE  /\ \A t \in Tab : disk[t] # None =>
                disk[t] \in DurableState /\ Rank(disk[t].mark) \in Nat
         /\ \A t \in Tab : asked[t] # None =>
                /\ asked[t].mark \in Watermark /\ asked[t].window \in Window
                /\ Rank(asked[t].mark) \in Nat
         /\ \A t \in Tab : mem.pending[t] # None =>
                /\ mem.pending[t].mark \in Watermark /\ mem.pending[t].window \in Window
                /\ Rank(mem.pending[t].mark) \in Nat
         /\ \A k \in DOMAIN tasks :
                /\ tasks[k] \in TaskRecord /\ tasks[k].window \in Window
                /\ Rank(tasks[k].mark) \in Nat
<1>1. /\ disk \in [Tab -> DurableState \cup {None}]
      /\ asked \in [Tab -> Asking \cup {None}]
      /\ mem.pending \in [Tab -> Operation \cup {None}]
      /\ tasks \in Seq(TaskRecord)
  BY TypesOf, MemoryIs DEF StoredState
<1>2. \A k \in DOMAIN tasks : tasks[k] \in TaskRecord
  BY <1>1
<1> QED BY <1>1, <1>2, RankIs, MarkIsWatermark
        DEF DurableState, Asking, Operation, TaskRecord

LEMMA MirrorHead ==
  ASSUME TInv, Mirrors(tasks, tasks'), tasks' # <<>>, tasks'[1].pc # "queued",
         tasks' \in Seq(TaskRecord)
  PROVE  /\ tasks # <<>>
         /\ tasks'[1].pc = tasks[1].pc /\ tasks'[1].window = tasks[1].window
         /\ tasks'[1].mark = tasks[1].mark /\ tasks'[1].staged = tasks[1].staged
         /\ tasks'[1].commits = tasks[1].commits /\ tasks'[1].tab = tasks[1].tab
<1>1. 1 \in DOMAIN tasks'
  BY TailIs
<1>2. 1 \in DOMAIN tasks
  BY <1>1 DEF Mirrors
<1>3. tasks # <<>>
  BY <1>2
<1> QED BY <1>2, <1>3 DEF Mirrors

\* Panels. Each kind of step leaves the tab of a panel stored, or its opening.
LEMMA PanelStays ==
  ASSUME NEW t \in Tab, PanelStored(t),
         mem'.panel[t] = mem.panel[t], mem'.revision[t] = mem.revision[t], Kept(t),
         \A j \in Jobs : j.kind = "open" /\ j.tab = t => j \in Jobs'
  PROVE  PanelStored(t)'
BY DEF PanelStored, Kept

LEMMA QuietPanels ==
  ASSUME \A t \in Tab : PanelStored(t), Quiet, \A t \in Tab : Kept(t)
  PROVE  \A t \in Tab : PanelStored(t)'
<1>1. \A j \in Jobs : j.kind = "open" => j \in Jobs'
  BY DEF Quiet, TaskKinds
<1> QED BY <1>1, PanelStays DEF Quiet

LEMMA OpenedPanels ==
  ASSUME TInv, \A t \in Tab : PanelStored(t),
         NEW t \in Tab, NEW w \in Window, PanelOpened(t, w)
  PROVE  \A u \in Tab : PanelStored(u)'
<1>1. PICK j : /\ j.kind = "open" /\ j.phase = "queued" /\ j.tab = t
               /\ j.revision = mem'.revision[t]
               /\ Jobs' = Jobs \cup {j}
  BY PanelOpenedDoes
<1>2. UNCHANGED disk /\ mem' = Opened(t, w) /\ CanAdvance(t)
  BY PanelOpenedDoes
<1>3. \A u \in Tab \ {t} : mem'.panel[u] = mem.panel[u] /\ mem'.revision[u] = mem.revision[u]
  BY <1>2, OpenedIs, TypesOf
<1>4. \A u \in Tab \ {t} : PanelStored(u)'
  BY <1>1, <1>2, <1>3, PanelStays DEF Kept
<1>5. PanelStored(t)'
  BY <1>1 DEF PanelStored
<1> QED BY <1>4, <1>5

LEMMA CallPanels ==
  ASSUME TInv, \A t \in Tab : PanelStored(t), UNCHANGED disk, Jobs \subseteq Jobs',
         \A t \in Tab : \/ mem'.panel[t] = None
                        \/ /\ mem'.panel[t] = mem.panel[t]
                           /\ mem'.revision[t] = mem.revision[t]
  PROVE  \A u \in Tab : PanelStored(u)'
BY PanelStays DEF Kept, PanelStored

\* What a job's update leaves of its tab's stored watermark
LEMMA UpdateStores ==
  ASSUME TInv, LifeOK, Update, NEW t \in Tab, NEW w \in Window, NEW m,
         Rank(m) \in Nat, StoredAt(t, w, m), mem.panel[t] = w,
         /\ tasks # <<>> /\ tasks[1].pc = "stage" /\ tasks[1].window = w
         => Rank(tasks[1].mark) >= Rank(m)
  PROVE  StoredAt(t, w, m)'
<1> DEFINE i == store[1]
<1>1. /\ UNCHANGED <<mem, tasks>> /\ i \in Jobs
      /\ i.kind \in TwoSteps /\ i.tab \in Tab
      /\ \A u \in Tab \ {i.tab} : disk'[u] = disk[u]
      /\ disk'[i.tab] \in {disk[i.tab], Updated(i)}
  BY UpdateDoes
<1>2. \/ /\ StoresOwn(i)
         /\ i.kind = "open" => IsCurrentPanel(mem, i.tab, i.window, i.revision)
         /\ i.kind = "settings" => mem.revision[i.tab] = i.revision
         /\ i.kind \in {"open", "settings"}
      \/ /\ Stages(i) /\ Restage(disk[i.tab], Updated(i))
         /\ tasks # <<>> /\ Updated(i).mark = tasks[1].mark
      \/ Updated(i) = disk[i.tab]
  BY <1>1, UpdatedIs
<1>3. Standing(i)
  BY <1>1 DEF LifeOK
<1>4. i.kind = "stage" => tasks[1].pc = "stage" /\ i.window = tasks[1].window
  BY <1>1 DEF TInv, QueuesOK, InStep, TaskKinds
<1> HIDE DEF i
<1>5. Rank(disk[t].mark) \in Nat /\ disk[t] # None
  BY MarksAreRanked DEF StoredAt
<1>6. CASE disk'[t] = disk[t]
  BY <1>6 DEF StoredAt
<1>7. CASE /\ t = i.tab /\ StoresOwn(i) /\ disk'[t] = Updated(i)
           /\ i.kind \in {"open", "settings"}
           /\ i.kind = "open" => IsCurrentPanel(mem, t, i.window, i.revision)
           /\ i.kind = "settings" => mem.revision[t] = i.revision
  <2>1. i.window = w
    BY <1>3, <1>7, NoneIsNoRecord DEF Standing, IsCurrentPanel
  <2>2. /\ Rank(Updated(i).mark) \in Nat /\ disk'[t] # None /\ disk'[t].window = w
        /\ Rank(disk[t].mark) <= Rank(Updated(i).mark)
    BY <1>5, <1>7, <2>1, RankIs, NoneIsNoRecord DEF StoresOwn, DurableState, StoredAt
  <2>3. Rank(disk'[t].mark) >= Rank(m)
    <3> DEFINE a == Rank(disk[t].mark)
               b == Rank(m)
               c == Rank(Updated(i).mark)
    <3>1. a \in Nat /\ b \in Nat /\ c \in Nat /\ a >= b /\ a <= c
      BY <1>5, <2>2 DEF StoredAt
    <3> HIDE DEF a, b, c
    <3>2. c >= b
      BY <3>1
    <3> QED BY <1>7, <3>2 DEF b, c
  <2> QED BY <2>2, <2>3 DEF StoredAt
<1>8. CASE t = i.tab /\ Stages(i) /\ Restage(disk[t], Updated(i)) /\ disk'[t] = Updated(i)
           /\ tasks # <<>> /\ Updated(i).mark = tasks[1].mark
  <2>1. i.window = w
    BY <1>8 DEF Stages, StoredIn, StoredAt
  <2>2. Rank(tasks[1].mark) >= Rank(m)
    BY <1>4, <1>8, <2>1 DEF Stages
  <2> QED BY <1>8, <2>2, NoneIsNoRecord DEF StoredAt, Restage
<1> QED BY <1>1, <1>2, <1>6, <1>7, <1>8

LEMMA UpdatePanels ==
  ASSUME TInv, LifeOK, \A t \in Tab : PanelStored(t), Update
  PROVE  \A t \in Tab : PanelStored(t)'
<1> DEFINE i == store[1]
<1>1. /\ UNCHANGED mem /\ store # <<>> /\ i \in Jobs
      /\ i.kind \in TwoSteps /\ i.phase = "queued" /\ i.tab \in Tab
      /\ \A u \in Tab \ {i.tab} : disk'[u] = disk[u]
  BY UpdateDoes
<1>2. PICK j \in JobRecord :
          /\ store' = [store EXCEPT ![1] = j] /\ Like(i, j)
          /\ disk'[j.tab] \in {disk[j.tab], Updated(i)}
          /\ j.phase = "done" => disk'[j.tab] = Updated(i)
  BY UpdateDoes DEF Like
<1>3. Jobs' = Members(Tail(store)) \cup {j} /\ Jobs = Members(Tail(store)) \cup {i}
  <2> DEFINE s == [store EXCEPT ![1] = j]
  <2>1. s \in Seq(JobRecord) /\ s # <<>> /\ s[1] = j /\ Tail(s) = Tail(store)
    BY <1>1, TypesOf, PutIs
  <2> HIDE DEF s
  <2>2. Members(s) = Members(Tail(s)) \cup {j}
    BY <2>1, RestHas
  <2> QED BY <1>1, <1>2, <2>1, <2>2, RestWaits DEF Jobs, s
<1>4. \/ /\ StoresOwn(i)
         /\ i.kind = "open" => IsCurrentPanel(mem, i.tab, i.window, i.revision)
         /\ i.kind = "settings" => mem.revision[i.tab] = i.revision
         /\ i.kind \in {"open", "settings"}
      \/ Restage(disk[i.tab], Updated(i)) /\ i.kind = "stage"
      \/ /\ Updated(i) = disk[i.tab]
         /\ ~(i.kind = "open" /\ mem.revision[i.tab] = i.revision)
  BY <1>1, UpdatedIs, OwedIsCurrent DEF Stages
<1>5. Standing(i)
  BY <1>1 DEF LifeOK
<1> HIDE DEF i
<1>6. ASSUME NEW t \in Tab, t # i.tab PROVE PanelStored(t)'
  BY <1>1, <1>2, <1>3, <1>6 DEF PanelStored, Like
<1>7. ASSUME NEW t \in Tab, t = i.tab, mem.panel[t] # None
      PROVE  \/ disk'[t] # None /\ disk'[t].window = mem.panel[t]
             \/ \E k \in Jobs' : /\ k.kind = "open" /\ k.tab = t
                                 /\ k.revision = mem.revision[t] /\ k.phase # "done"
  <2>1. \/ disk[t] # None /\ disk[t].window = mem.panel[t]
        \/ \E k \in Jobs : /\ k.kind = "open" /\ k.tab = t
                           /\ k.revision = mem.revision[t] /\ k.phase # "done"
    BY <1>7 DEF PanelStored
  <2>2. CASE disk'[t] = Updated(i) /\ StoresOwn(i) /\ i.kind \in {"open", "settings"}
             /\ mem.revision[t] = i.revision
    BY <1>5, <1>7, <2>2, NoneIsNoRecord DEF Standing, StoresOwn
  <2>3. CASE i.kind = "open" /\ mem.revision[t] = i.revision /\ disk'[t] # Updated(i)
    BY <1>2, <1>3, <1>7, <2>3 DEF Like
  <2>4. CASE /\ ~(i.kind = "open" /\ mem.revision[t] = i.revision)
             /\ \/ disk'[t] = disk[t]
                \/ disk'[t] = Updated(i) /\ Restage(disk[t], Updated(i))
    BY <1>3, <1>7, <2>1, <2>4, NoneIsNoRecord DEF Restage
  <2>5. \/ StoresOwn(i) /\ i.kind \in {"open", "settings"}
        \/ Updated(i) = disk[t] \/ Restage(disk[t], Updated(i))
    BY <1>4, <1>7
  <2>6. StoresOwn(i) /\ i.kind = "open" /\ disk'[t] = Updated(i) /\ Updated(i) # disk[t]
        => mem.revision[t] = i.revision
    BY <1>4, <1>7 DEF IsCurrentPanel, Restage
  <2>7. i.kind = "open" /\ mem.revision[t] = i.revision => StoresOwn(i)
    BY <1>4, <1>7
  <2>8. disk'[t] \in {disk[t], Updated(i)}
    BY <1>2, <1>7 DEF Like
  <2>9. i.kind = "settings" /\ mem.revision[t] # i.revision =>
            Updated(i) = disk[t] \/ Restage(disk[t], Updated(i))
    BY <1>4, <1>7
  <2> QED BY <2>2, <2>3, <2>4, <2>5, <2>6, <2>7, <2>8, <2>9
<1> QED BY <1>1, <1>6, <1>7 DEF PanelStored

LEMMA EndPanels ==
  ASSUME TInv, LifeOK, \A t \in Tab : PanelStored(t),
         OpenEnds \/ SettingsEnd \/ CloseEnds \/ RemoveEnds \/ WindowEnds
  PROVE  \A t \in Tab : PanelStored(t)'
<1> DEFINE i == store[1]
<1>1. /\ store # <<>> /\ store' = Tail(store) /\ i \in Jobs /\ mem \in Memory
  BY OpenEndsDoes, SettingsEndDoes, CloseEndsDoes, RemoveEndsDoes, WindowEndsDoes, TypesOf
<1>2. Jobs = Jobs' \cup {i}
  BY <1>1, RestWaits DEF Jobs
<1>3. Standing(i) /\ \A t \in Tab : Stands(t)
  BY <1>1 DEF LifeOK
<1>4. CASE OpenEnds
  <2>1. /\ UNCHANGED disk /\ i.kind = "open" /\ i.tab \in Tab /\ i.window \in Window
        /\ \/ i.phase = "done" /\ (\E p : mem' = [mem EXCEPT !.participant[i.tab] = p])
           \/ i.phase = "done" /\ mem' = Ousted(mem, i.tab, i.window)
           \/ mem' = mem /\ (i.phase = "done" \/ mem.revision[i.tab] # i.revision)
           \/ mem.revision[i.tab] = i.revision /\ mem' = OpenFailed(i.tab, i.window, i.revision)
    BY <1>4, OpenEndsDoes
  <2> HIDE DEF i
  <2>2. CASE i.phase = "done" \/ mem.revision[i.tab] # i.revision
    <3>1. CASE mem'.panel = mem.panel /\ mem'.revision = mem.revision
      BY <1>2, <2>1, <2>2, <3>1 DEF PanelStored
    <3>2. CASE i.phase = "done" /\ (\E p : mem' = [mem EXCEPT !.participant[i.tab] = p])
      <4>1. mem'.panel = mem.panel /\ mem'.revision = mem.revision
        BY <1>1, <3>2 DEF Memory
      <4> QED BY <3>1, <4>1
    <3>3. CASE mem' = Ousted(mem, i.tab, i.window)
      BY <1>1, <2>1, <3>1, <3>3, OustedIs
    <3>4. CASE mem.revision[i.tab] = i.revision /\ mem' = OpenFailed(i.tab, i.window, i.revision)
      <4>1. ASSUME NEW t \in Tab PROVE PanelStored(t)'
        <5>1. CASE t = i.tab
          <6>1. mem'.panel[t] = None
            BY <1>1, <1>3, <2>1, <3>4, <5>1, OpenFailedIs DEF Standing
          <6> QED BY <6>1 DEF PanelStored
        <5>2. CASE t # i.tab
          <6>1. mem'.panel[t] = mem.panel[t] /\ mem'.revision[t] = mem.revision[t]
            BY <1>1, <2>1, <3>4, <5>2, OpenFailedIs
          <6> QED BY <1>2, <2>1, <5>2, <6>1 DEF PanelStored
        <5> QED BY <5>1, <5>2
      <4> QED BY <4>1
    <3> QED BY <2>1, <3>1, <3>2, <3>3, <3>4
  <2>3. CASE i.phase # "done" /\ mem.revision[i.tab] = i.revision
    <3>1. mem' = OpenFailed(i.tab, i.window, i.revision)
      BY <2>1, <2>3
    <3>2. ASSUME NEW t \in Tab PROVE PanelStored(t)'
      <4>1. CASE t = i.tab
        <5>1. mem'.panel[t] = None
          BY <1>1, <1>3, <2>1, <2>3, <3>1, <4>1, OpenFailedIs DEF Standing
        <5> QED BY <5>1 DEF PanelStored
      <4>2. CASE t # i.tab
        <5>1. mem'.panel[t] = mem.panel[t] /\ mem'.revision[t] = mem.revision[t]
          BY <1>1, <2>1, <2>3, <3>1, <4>2, OpenFailedIs
        <5> QED BY <1>2, <2>1, <4>2, <5>1 DEF PanelStored
      <4> QED BY <4>1, <4>2
    <3> QED BY <3>2
  <2> QED BY <2>2, <2>3
<1>5. CASE SettingsEnd
  <2>1. /\ UNCHANGED disk /\ i.kind = "settings" /\ i.tab \in Tab
        /\ \/ \E p : mem' = [mem EXCEPT !.participant[i.tab] = p]
           \/ mem' = Ousted(mem, i.tab, i.window)
           \/ mem' = mem
    BY <1>5, SettingsEndDoes
  <2> HIDE DEF i
  <2>2. mem'.panel = mem.panel /\ mem'.revision = mem.revision
    <3>1. CASE \E p : mem' = [mem EXCEPT !.participant[i.tab] = p]
      BY <1>1, <3>1 DEF Memory
    <3>2. CASE mem' = Ousted(mem, i.tab, i.window)
      BY <1>1, <2>1, <3>2, OustedIs
    <3> QED BY <2>1, <3>1, <3>2
  <2> QED BY <1>2, <2>1, <2>2 DEF PanelStored
<1>6. CASE CloseEnds \/ RemoveEnds \/ WindowEnds
  <2>1. ASSUME NEW t \in Tab
        PROVE  /\ mem'.panel = mem.panel
               /\ \/ mem'.revision[t] = mem.revision[t]
                  \/ mem.panel[t] = None
               /\ disk'[t] = disk[t] \/ t \in mem.terminal
               /\ i.kind # "open"
    <3>1. CASE CloseEnds
      BY <1>1, <1>3, <3>1, CloseEndsDoes, RetireIs DEF Standing
    <3>2. CASE RemoveEnds
      BY <1>1, <1>3, <3>2, RemoveEndsDoes, RetireIs DEF Standing
    <3>3. CASE WindowEnds
      BY <1>1, <1>3, <3>3, WindowEndsDoes DEF Standing
    <3> QED BY <1>6, <3>1, <3>2, <3>3
  <2> HIDE DEF i
  <2>2. \A t \in Tab : mem.panel[t] # None => t \notin mem.terminal
    BY <1>3 DEF Stands
  <2> QED BY <1>2, <2>1, <2>2 DEF PanelStored
<1> QED BY <1>4, <1>5, <1>6


\* Calm steps keep the rest.
LEMMA CalmAsked ==
  ASSUME Calm, \A t \in Tab : AskedStored(t)
  PROVE  \A t \in Tab : AskedStored(t)'
<1> SUFFICES ASSUME NEW t \in Tab, asked[t] # None PROVE AskedStored(t)'
  BY DEF AskedStored, Calm
<1>1. AskedStored(t)
  OBVIOUS
<1>2. CASE disk'[t] = disk[t]
  <2>1. ASSUME disk[t] = None, NEW j \in Jobs', j.kind = "settings" PROVE j.tab # t
    BY <1>1, <2>1 DEF AskedStored, Calm
  <2> QED BY <1>1, <1>2, <2>1 DEF AskedStored, StoredAt, Calm
<1>3. CASE disk'[t] # disk[t]
  BY <1>3 DEF AskedStored, Calm
<1> QED BY <1>2, <1>3

\* A refresh that is due after a calm step was due before, and is stored.
LEMMA CalmDue ==
  ASSUME Calm, LifeOK, TInv, \A t \in Tab : DueStored(t)
  PROVE  \A t \in Tab : DueStored(t)'
<1> SUFFICES ASSUME NEW t \in Tab, mem'.pending[t] # None, ~mem'.pending[t].late
             PROVE DueStored(t)'
  BY DEF DueStored
<1>1. /\ mem.pending[t] # None /\ ~mem.pending[t].late
      /\ mem'.pending[t].window = mem.pending[t].window
      /\ mem'.pending[t].mark = mem.pending[t].mark
      /\ DueStored(t)
  BY DEF Calm, KeepsPending, Keeps
<1>2. t \notin mem.terminal
  BY <1>1, MarksAreRanked, NoneIsNoRecord DEF LifeOK, Stands
<1>3. disk'[t] = disk[t] /\ asked' = asked
  BY <1>2 DEF Calm
<1>4. ASSUME Dispatching(t) PROVE Dispatching(t)'
  <2>1. tasks # <<>> /\ tasks[1].pc = "dispatch" /\ tasks[1].tab = t
    BY <1>4 DEF Dispatching
  <2>2. 1 \in DOMAIN tasks' /\ tasks'[1].pc = tasks[1].pc /\ tasks'[1].tab = tasks[1].tab
    BY <2>1 DEF Calm, Mirrors
  <2>3. tasks' # <<>>
    BY <2>2
  <2> QED BY <2>1, <2>2, <2>3 DEF Dispatching
<1> QED BY <1>1, <1>3, <1>4 DEF DueStored, StoredAt, AskedIn

LEMMA CalmAdmitting ==
  ASSUME Calm, TInv, TInv', Admitting
  PROVE  Admitting'
<1> SUFFICES ASSUME tasks' # <<>>, tasks'[1].pc \in {"admit", "active", "stage"},
                    NEW t \in Tab
             PROVE  /\ disk'[t] # None /\ AskedIn(t, tasks[1].window)' =>
                           Rank(tasks'[1].mark) > Rank(asked'[t].mark)
                    /\ Due(t, tasks[1].window)' =>
                           Rank(tasks'[1].mark) > Rank(mem'.pending[t].mark)
  BY DEF Admitting
<1>1. /\ tasks # <<>>
      /\ tasks'[1].pc = tasks[1].pc /\ tasks'[1].window = tasks[1].window
      /\ tasks'[1].mark = tasks[1].mark
  BY MirrorHead, TypesOf DEF Calm, TInv, QueuesOK, TasksOK
<1>2. /\ disk[t] # None /\ AskedIn(t, tasks[1].window) =>
             Rank(tasks[1].mark) > Rank(asked[t].mark)
      /\ Due(t, tasks[1].window) => Rank(tasks[1].mark) > Rank(mem.pending[t].mark)
  BY <1>1 DEF Admitting
<1>3. disk'[t] # None => disk[t] # None
  BY DEF Calm
<1>4. Keeps(mem.pending[t], mem'.pending[t]) /\ asked' = asked
  BY DEF Calm, KeepsPending
<1> QED BY <1>1, <1>2, <1>3, <1>4 DEF Due, AskedIn, Keeps

\* A lifecycle that goes on after a calm step went on before, and its tab is
\* stored as it was.
LEMMA CalmLives ==
  ASSUME Calm, LifeOK, NEW t \in Tab, NEW r, NEW w \in Window,
         mem'.revision[t] = r, mem'.panel[t] = w, r \notin Fresh(t)
  PROVE  mem.revision[t] = r /\ mem.panel[t] = w /\ disk'[t] = disk[t]
<1>1. mem.revision[t] = r /\ mem.panel[t] = w
  BY NoneIsNoRecord DEF Calm, Carries
<1>2. t \notin mem.terminal
  BY <1>1, NoneIsNoRecord DEF LifeOK, Stands
<1> QED BY <1>1, <1>2 DEF Calm

LEMMA CalmStages ==
  ASSUME Calm, LifeOK, TInv, TInv', StagesStored
  PROVE  StagesStored'
<1>1. ASSUME NEW j \in Jobs', j.kind = "stage", j.phase = "done",
             mem'.revision[j.tab] = j.revision, mem'.panel[j.tab] = j.window,
             j.found.after # None
      PROVE  StoredAt(j.tab, j.window, tasks[1].mark)' /\ tasks'[1].mark = tasks[1].mark
  <2>1. j \in Jobs
    BY <1>1 DEF Calm, TaskKinds
  <2>2. j.tab \in Tab /\ j.window \in Window /\ tasks # <<>>
    BY <1>1, <2>1, JobIs, TypesOf DEF JobKnows, TwoSteps, TInv, QueuesOK, InStep, TaskKinds
  <2>3. j.revision \notin Fresh(j.tab)
    BY <2>1, <2>2, FreshIs
  <2>4. mem.revision[j.tab] = j.revision /\ mem.panel[j.tab] = j.window
        /\ disk'[j.tab] = disk[j.tab]
    BY <1>1, <2>2, <2>3, CalmLives
  <2>5. StoredAt(j.tab, j.window, tasks[1].mark)
    BY <1>1, <2>1, <2>4 DEF StagesStored, StageStands
  <2>6. tasks'[1].mark = tasks[1].mark
    BY <2>2 DEF Calm, Mirrors
  <2> QED BY <2>4, <2>5, <2>6 DEF StoredAt
<1>2. ASSUME tasks' # <<>>, tasks'[1].pc = "stage", NEW s \in tasks'[1].staged,
             s.auto, mem'.revision[s.tab] = s.revision,
             mem'.panel[s.tab] = tasks'[1].window
      PROVE  StoredAt(s.tab, tasks[1].window, tasks[1].mark)'
  <2>1. /\ tasks # <<>> /\ tasks[1].pc = "stage"
        /\ tasks'[1].window = tasks[1].window
        /\ tasks'[1].mark = tasks[1].mark /\ tasks'[1].staged = tasks[1].staged
    BY <1>2, MirrorHead, TypesOf DEF Calm, TInv, QueuesOK, TasksOK
  <2>2. 1 \in DOMAIN tasks /\ s.tab \in Tab /\ tasks[1].window \in Window
    BY <1>2, <2>1, HeadTaskIs, TypesOf DEF TaskRecord
  <2>3. s.revision \notin Fresh(s.tab)
    BY <1>2, <2>1, <2>2, FreshIs
  <2>4. mem.revision[s.tab] = s.revision /\ mem.panel[s.tab] = tasks[1].window
        /\ disk'[s.tab] = disk[s.tab]
    BY <1>2, <2>1, <2>2, <2>3, CalmLives
  <2>5. StoredAt(s.tab, tasks[1].window, tasks[1].mark)
    BY <1>2, <2>1, <2>4 DEF StagesStored
  <2> QED BY <2>1, <2>4, <2>5 DEF StoredAt
<1> QED BY <1>1, <1>2 DEF StagesStored, StageStands, StoredAt

LEMMA CalmRestores ==
  ASSUME Calm, NEW t \in Tab, NEW b, Restorable(t, b)
  PROVE  Restorable(t, b)'
<1>1. Keeps(mem.pending[t], mem'.pending[t]) /\ asked' = asked
  BY DEF Calm, KeepsPending
<1> QED BY <1>1 DEF Restorable, AskedIn, Due, Keeps

LEMMA CommitTabs ==
  ASSUME TInv
  PROVE  \A k \in DOMAIN tasks : \A c \in Members(tasks[k].commits) : c.tab \in Tab
<1>1. \A k \in DOMAIN tasks : tasks[k] \in TaskRecord
  BY TypesOf
<1>2. ASSUME NEW k \in DOMAIN tasks, NEW c \in Members(tasks[k].commits)
      PROVE  c.tab \in Tab
  <2>1. tasks[k].commits \in Seq([tab : Tab, before : StoredState, after : StoredState])
    BY <1>1 DEF TaskRecord
  <2> DEFINE q == tasks[k].commits
             Commit == [tab : Tab, before : StoredState, after : StoredState]
  <2>2. PICK i \in DOMAIN q : c = q[i]
    BY <1>2 DEF Members
  <2>3. q \in Seq(Commit)
    BY <2>1
  <2> HIDE DEF q, Commit
  <2>4. c \in Commit
    BY <2>2, <2>3
  <2> QED BY <2>4 DEF Commit
<1> QED BY <1>2

LEMMA CalmCommits ==
  ASSUME Calm, TInv, TInv', CommitsRestorable
  PROVE  CommitsRestorable'
<1>1. ASSUME NEW j \in Jobs',
             \/ j.kind = "rollback"
             \/ j.kind = "stage" /\ j.phase # "queued" /\ j.found.before # None
      PROVE  Restorable(j.tab, j.found.before)'
  <2>1. j \in Jobs
    BY <1>1 DEF Calm, TaskKinds
  <2>2. j.tab \in Tab
    BY <1>1, <2>1, JobIs, TypesOf DEF JobKnows, TwoSteps
  <2>3. Restorable(j.tab, j.found.before)
    BY <1>1, <2>1 DEF CommitsRestorable, JobRestores
  <2> QED BY <2>2, <2>3, CalmRestores
<1>2. ASSUME tasks' # <<>>, NEW c \in Members(tasks'[1].commits)
      PROVE  Restorable(c.tab, c.before)'
  <2>1. 1 \in DOMAIN tasks' /\ TaskKnows(tasks'[1])
    BY <1>2, HeadTaskIs DEF TInv, QueuesOK, TasksOK, Members
  <2>2. tasks'[1].pc # "queued"
    BY <1>2, <2>1, EmptyIs DEF TaskKnows
  <2>3. tasks # <<>> /\ tasks'[1].commits = tasks[1].commits
    BY <1>2, <2>2, MirrorHead DEF Calm, TInv, QueuesOK, TasksOK
  <2>4. 1 \in DOMAIN tasks
    BY <2>3, HeadTaskIs, TypesOf
  <2> QED BY <1>2, <2>3, <2>4, CommitTabs, CalmRestores DEF CommitsRestorable
<1> QED BY <1>1, <1>2 DEF CommitsRestorable, JobRestores

\* The tasks that were queued are the first ones of those that are.
LEMMA CalmEpochs ==
  ASSUME Calm, TInv, TInv', EpochsClear,
         \A k \in DOMAIN tasks' \ DOMAIN tasks : EpochClears(k)'
  PROVE  EpochsClear'
<1> SUFFICES ASSUME NEW k \in DOMAIN tasks, k \in DOMAIN tasks', tasks'[k].kind = "epoch"
             PROVE  EpochClears(k)'
  BY DEF EpochsClear, EpochClears
<1>1. EpochClears(k) /\ tasks'[k].window = tasks[k].window
      /\ tasks'[k].pc = tasks[k].pc /\ tasks[k].kind = "epoch"
  BY DEF EpochsClear, Calm, Mirrors
<1>2. ASSUME NEW i \in DOMAIN tasks', i < k, tasks'[i].kind = "accept",
             tasks'[i].window = tasks'[k].window,
             tasks'[i].pc \notin {"prepare", "dispatch"}
      PROVE  tasks'[i].late
  <2>1. i \in DOMAIN tasks
    <3>1. /\ DOMAIN tasks = 1..Len(tasks) /\ Len(tasks) \in Nat
          /\ DOMAIN tasks' = 1..Len(tasks') /\ Len(tasks') \in Nat
      BY TypesOf DEF TInv, QueuesOK, TasksOK
    <3> QED BY <1>2, <3>1
  <2> QED BY <1>1, <1>2, <2>1 DEF EpochClears, Calm, Mirrors
<1>3. ASSUME NEW t \in Tab PROVE ~Due(t, tasks[k].window)'
  <2>1. ~Due(t, tasks[k].window) /\ Keeps(mem.pending[t], mem'.pending[t])
    BY <1>1 DEF EpochClears, Calm, KeepsPending
  <2> QED BY <1>1, <2>1 DEF Due, Keeps
<1>4. ASSUME tasks'[k].pc # "queued", NEW t \in Tab PROVE ~AskedIn(t, tasks[k].window)'
  BY <1>1, <1>4 DEF EpochClears, AskedIn, Calm
<1> QED BY <1>2, <1>3, <1>4 DEF EpochClears

LEMMA CalmMarks ==
  ASSUME Calm, LifeOK, TInv, TInv', MarksOK, \A t \in Tab : PanelStored(t)',
         \A k \in DOMAIN tasks' \ DOMAIN tasks : EpochClears(k)'
  PROVE  MarksOK'
<1>1. /\ \A t \in Tab : AskedStored(t)'
      /\ \A t \in Tab : DueStored(t)'
  BY CalmAsked, CalmDue DEF MarksOK
<1>2. Admitting' /\ StagesStored' /\ CommitsRestorable' /\ EpochsClear'
  BY CalmAdmitting, CalmStages, CalmCommits, CalmEpochs DEF MarksOK
<1> QED BY <1>1, <1>2 DEF MarksOK

\* The calls, their ends and the tasks that are queued are calm.
CallStep ==
    \/ \E t \in Tab, w \in Window :
           \/ PanelOpened(t, w)
           \/ \E auto \in BOOLEAN : UpdateSettings(t, w, auto)
    \/ \E t \in Tab : PanelClosed(t) \/ RemoveTab(t)
    \/ \E w \in Window : RemoveWindow(w)

LEMMA MirrorsItself ==
  ASSUME TInv
  PROVE  Mirrors(tasks, tasks)
BY HeadTaskIs, TypesOf DEF Mirrors

LEMMA MirrorsOutdated ==
  ASSUME TInv, NEW w
  PROVE  Mirrors(tasks, Outdated(w))
BY OutdatedIs, HeadTaskIs, TypesOf DEF Mirrors, QueuesOK

LEMMA MirrorsJoined ==
  ASSUME TInv, NEW q \in Seq(TaskRecord), NEW k \in TaskRecord, k.pc = "queued",
         DOMAIN q = DOMAIN tasks,
         \A i \in DOMAIN tasks :
             /\ q[i].kind = tasks[i].kind /\ q[i].pc = tasks[i].pc
             /\ q[i].window = tasks[i].window /\ q[i].tab = tasks[i].tab
             /\ q[i].mark = tasks[i].mark /\ q[i].staged = tasks[i].staged
             /\ q[i].commits = tasks[i].commits
             /\ tasks[i].late => q[i].late
  PROVE  /\ Mirrors(tasks, Append(q, k))
         /\ \A i \in DOMAIN Append(q, k) \ DOMAIN tasks : Append(q, k)[i] = k
<1>1. tasks = <<>> \/ 1 \in DOMAIN tasks
  BY HeadTaskIs, TypesOf
<1>2. /\ \A i \in DOMAIN Append(q, k) :
             \/ i \in DOMAIN q /\ Append(q, k)[i] = q[i]
             \/ i \notin DOMAIN q /\ Append(q, k)[i] = k
      /\ \A i \in DOMAIN q : i \in DOMAIN Append(q, k) /\ Append(q, k)[i] = q[i]
  BY AppendIs
<1> QED BY <1>1, <1>2 DEF Mirrors

\* A call cancels at most, in a lifecycle that goes on or a new one.
LEMMA CallsCalm ==
  ASSUME TInv, LifeOK, \A t \in Tab : PanelStored(t), CallStep
  PROVE  /\ Calm /\ \A t \in Tab : PanelStored(t)'
         /\ DOMAIN tasks' = DOMAIN tasks
<1>1. Mirrors(tasks, tasks)
  BY MirrorsItself
<1>2. ASSUME NEW t \in Tab, NEW w \in Window, PanelOpened(t, w)
      PROVE  /\ Calm /\ \A u \in Tab : PanelStored(u)'
             /\ DOMAIN tasks' = DOMAIN tasks
  <2>1. /\ UNCHANGED <<disk, tasks, asked>> /\ CanAdvance(t) /\ mem' = Opened(t, w)
        /\ \E j : j.kind = "open" /\ j.phase = "queued" /\ Jobs' = Jobs \cup {j}
    BY <1>2, PanelOpenedDoes
  <2>2. /\ mem'.terminal = mem.terminal
        /\ \A u \in Tab : mem'.pending[u] \in {None, mem.pending[u]}
    BY <2>1, OpenedIs, TypesOf
  <2>3. \A u \in Tab : Carries(u)
    BY <1>2, OpenedLife
  <2> QED BY <1>1, <1>2, <2>1, <2>2, <2>3, OpenedPanels
          DEF Calm, KeepsPending, Keeps, TaskKinds
<1>3. ASSUME NEW t \in Tab, NEW w \in Window, NEW auto \in BOOLEAN,
             UpdateSettings(t, w, auto)
      PROVE  /\ Calm /\ \A u \in Tab : PanelStored(u)'
             /\ DOMAIN tasks' = DOMAIN tasks
  <2>1. /\ UNCHANGED <<disk, tasks, asked>> /\ t \notin mem.terminal
        /\ mem' = IF auto THEN mem ELSE Disabled(mem, t, w)
        /\ \E j : /\ j.kind = "settings" /\ j.phase = "queued" /\ j.tab = t
                  /\ Jobs' = Jobs \cup {j}
    BY <1>3, UpdateSettingsDoes
  <2>2. /\ mem'.terminal = mem.terminal
        /\ mem'.revision = mem.revision /\ mem'.panel = mem.panel
        /\ \A u \in Tab : mem'.pending[u] \in {None, mem.pending[u]}
    BY <2>1, DisabledIs, TypesOf
  <2>3. \A u \in Tab : Carries(u)
    BY <2>2 DEF Carries
  <2>4. \A u \in Tab : PanelStored(u)'
    BY <2>1, <2>2, CallPanels
  <2> QED BY <1>1, <2>1, <2>2, <2>3, <2>4 DEF Calm, KeepsPending, Keeps, TaskKinds
<1>4. ASSUME NEW t \in Tab, PanelClosed(t) \/ RemoveTab(t)
      PROVE  /\ Calm /\ \A u \in Tab : PanelStored(u)'
             /\ DOMAIN tasks' = DOMAIN tasks
  <2>1. /\ UNCHANGED <<disk, tasks, asked>> /\ mem.terminal \subseteq mem'.terminal
        /\ Gone(t) /\ \A u \in Tab \ {t} : Stays(u)
        /\ \E j : /\ j.kind \in {"close", "remove"} /\ j.phase = "queued"
                  /\ Jobs' = Jobs \cup {j}
    BY <1>4, PanelClosedDoes, RemoveTabDoes
  <2>2. /\ \A u \in Tab : Carries(u)
        /\ KeepsPending
    BY <2>1 DEF Carries, Gone, Stays, KeepsPending, Keeps
  <2>3. \A u \in Tab : PanelStored(u)'
    BY <2>1, CallPanels DEF Gone, Stays
  <2> QED BY <1>1, <2>1, <2>2, <2>3 DEF Calm, TaskKinds
<1>5. ASSUME NEW w \in Window, RemoveWindow(w)
      PROVE  /\ Calm /\ \A u \in Tab : PanelStored(u)'
             /\ DOMAIN tasks' = DOMAIN tasks
  <2>1. /\ UNCHANGED <<disk, asked>> /\ mem.terminal \subseteq mem'.terminal
        /\ \A u \in Tab : Gone(u) \/ Stays(u)
        /\ tasks' = Outdated(w)
        /\ \E j : /\ j.kind = "window" /\ j.phase = "queued"
                  /\ Jobs' = Jobs \cup {j}
    BY <1>5, RemoveWindowDoes
  <2>2. /\ \A u \in Tab : Carries(u)
        /\ KeepsPending
    BY <2>1 DEF Carries, Gone, Stays, KeepsPending, Keeps
  <2>3. \A u \in Tab : PanelStored(u)'
    BY <2>1, CallPanels DEF Gone, Stays
  <2>4. Mirrors(tasks, tasks') /\ DOMAIN tasks' = DOMAIN tasks
    BY <2>1, MirrorsOutdated, OutdatedIs, TypesOf DEF QueuesOK
  <2> QED BY <2>1, <2>2, <2>3, <2>4 DEF Calm, TaskKinds
<1> QED BY <1>2, <1>3, <1>4, <1>5 DEF CallStep

LEMMA EndsCalm ==
  ASSUME TInv, LifeOK, \A t \in Tab : PanelStored(t),
         OpenEnds \/ SettingsEnd \/ CloseEnds \/ RemoveEnds \/ WindowEnds
  PROVE  Calm /\ UNCHANGED tasks /\ \A t \in Tab : PanelStored(t)'
<1>1. /\ UNCHANGED <<tasks, asked>> /\ Jobs' \subseteq Jobs
      /\ mem \in Memory /\ store # <<>> /\ store' = Tail(store) /\ store[1] \in Jobs
  BY OpenEndsDoes, SettingsEndDoes, CloseEndsDoes, RemoveEndsDoes, WindowEndsDoes, TypesOf
<1>2. \A t \in Tab : Carries(t)
  BY OpenEndsLife, SettingsEndLife, RetiredLife, WindowEndsLife
<1> DEFINE i == store[1]
<1>3. /\ mem'.terminal = mem.terminal
      /\ \A t \in Tab : mem'.pending[t] \in {None, mem.pending[t]}
  <2>1. CASE OpenEnds
    <3>1. /\ i.tab \in Tab /\ i.window \in Window
          /\ \/ \E p : mem' = [mem EXCEPT !.participant[i.tab] = p]
             \/ mem' = Ousted(mem, i.tab, i.window)
             \/ mem' = mem
             \/ mem.revision[i.tab] = i.revision /\ mem' = OpenFailed(i.tab, i.window, i.revision)
      BY <2>1, OpenEndsDoes
    <3> HIDE DEF i
    <3>2. CASE \E p : mem' = [mem EXCEPT !.participant[i.tab] = p]
      BY <1>1, <3>2 DEF Memory
    <3>3. CASE mem' = Ousted(mem, i.tab, i.window)
      BY <1>1, <3>1, <3>3, OustedIs
    <3>4. CASE mem.revision[i.tab] = i.revision /\ mem' = OpenFailed(i.tab, i.window, i.revision)
      BY <1>1, <3>1, <3>4, OpenFailedIs
    <3> QED BY <3>1, <3>2, <3>3, <3>4
  <2>2. CASE SettingsEnd
    <3>1. /\ i.tab \in Tab
          /\ \/ \E p : mem' = [mem EXCEPT !.participant[i.tab] = p]
             \/ mem' = Ousted(mem, i.tab, i.window)
             \/ mem' = mem
      BY <2>2, SettingsEndDoes
    <3> HIDE DEF i
    <3>2. CASE \E p : mem' = [mem EXCEPT !.participant[i.tab] = p]
      BY <1>1, <3>2 DEF Memory
    <3>3. CASE mem' = Ousted(mem, i.tab, i.window)
      BY <1>1, <3>1, <3>3, OustedIs
    <3> QED BY <3>1, <3>2, <3>3
  <2>3. CASE CloseEnds \/ RemoveEnds
    BY <1>1, <2>3, CloseEndsDoes, RemoveEndsDoes, RetireIs
  <2>4. CASE WindowEnds
    BY <2>4, WindowEndsDoes
  <2> QED BY <2>1, <2>2, <2>3, <2>4
<1>4. ASSUME NEW t \in Tab, disk'[t] # disk[t]
      PROVE  /\ disk'[t] = None /\ t \in mem.terminal
             /\ \A j \in Jobs' : j.kind = "settings" => j.tab # t
  <2>1. RemoveEnds
    BY <1>4, OpenEndsDoes, SettingsEndDoes, CloseEndsDoes, WindowEndsDoes
  <2>2. i.kind = "remove" /\ t = i.tab /\ disk'[t] = None
    BY <1>4, <2>1, RemoveEndsDoes
  <2>3. t \in mem.terminal
    BY <1>1, <2>2 DEF TInv, RemovalsKnown
  <2>4. ASSUME NEW j \in Jobs', j.kind = "settings" PROVE j.tab # t
    <3>1. PICK n \in DOMAIN store' : j = store'[n]
      BY <2>4 DEF Jobs, Members
    <3>2. n + 1 \in DOMAIN store /\ j = store[n + 1] /\ 1 \in DOMAIN store /\ n \in Nat /\ n >= 1
      <4>1. Tail(store) \in Seq(JobRecord)
        BY <1>1, TypesOf, TailIs
      <4>2. n \in Nat /\ n >= 1
        BY <1>1, <3>1, <4>1
      <4> QED BY <1>1, <3>1, <4>2, TypesOf, TailIs
    <3>3. ~(n + 1 < 1)
      BY <3>2
    <3> QED BY <2>2, <2>4, <3>2, <3>3 DEF TInv, QueuesOK, StoreOK, Ordered
  <2> QED BY <2>2, <2>3, <2>4
<1>5. \A t \in Tab : PanelStored(t)'
  BY EndPanels
<1>6. KeepsPending
  BY <1>3 DEF KeepsPending, Keeps
<1> QED BY <1>1, <1>2, <1>3, <1>4, <1>5, <1>6, MirrorsItself DEF Calm

\* What is queued, and a load that is the first one
QueueStep ==
    \/ \E w \in Window : BeginWindowEpoch(w) \/ ClearWindowPending(w)
    \/ \E w \in Window, mark \in Refresh : AcceptPageRefresh(w, mark)
    \/ \E t \in Tab, w \in Window : ActivateTab(t, w)
    \/ Initialized

LEMMA QueueCalm ==
  ASSUME TInv, \A t \in Tab : PanelStored(t), QueueStep
  PROVE  /\ Calm /\ \A t \in Tab : PanelStored(t)'
         /\ \A k \in DOMAIN tasks' \ DOMAIN tasks : EpochClears(k)'
<1>1. Quiet /\ \A t \in Tab : Kept(t)
  BY QuietIs DEF QueueStep, QuietStep
<1>2. \A t \in Tab : Carries(t)
  BY <1>1 DEF Quiet, Carries
<1>3. \A t \in Tab : PanelStored(t)'
  BY <1>1, QuietPanels
<1>4. ASSUME NEW w \in Window, BeginWindowEpoch(w)
      PROVE  Calm /\ \A k \in DOMAIN tasks' \ DOMAIN tasks : EpochClears(k)'
  <2>1. UNCHANGED <<disk, store, asked>> /\ mem' = CancelIn(mem, w)
    BY <1>4, BeginEpochDoes
  <2>2. PICK k \in TaskRecord : /\ k.kind = "epoch" /\ k.pc = "queued" /\ k.window = w
                                /\ tasks' = Append(Belated(w), k)
    BY <1>4, BeginEpochDoes
  <2>3. \A u \in Tab : /\ mem'.pending[u] \in {None, mem.pending[u]}
                       /\ mem'.pending[u] # None => mem'.pending[u].window # w
    BY <2>1, CancelInIs, TypesOf
  <2>4. /\ Belated(w) \in Seq(TaskRecord) /\ DOMAIN Belated(w) = DOMAIN tasks
        /\ \A i \in DOMAIN tasks :
               /\ Belated(w)[i].kind = tasks[i].kind
               /\ Belated(w)[i].pc = tasks[i].pc
               /\ Belated(w)[i].window = tasks[i].window
               /\ Belated(w)[i].tab = tasks[i].tab
               /\ Belated(w)[i].mark = tasks[i].mark
               /\ Belated(w)[i].staged = tasks[i].staged
               /\ Belated(w)[i].commits = tasks[i].commits
               /\ tasks[i].window = w => Belated(w)[i].late
               /\ tasks[i].late => Belated(w)[i].late
    BY BelatedIs, TypesOf DEF QueuesOK, TasksOK
  <2>5. /\ Mirrors(tasks, tasks')
        /\ \A i \in DOMAIN tasks' \ DOMAIN tasks : tasks'[i] = k
    BY <2>2, <2>4, MirrorsJoined
  <2>6. KeepsPending /\ mem'.terminal = mem.terminal
    BY <1>1, <2>3 DEF KeepsPending, Keeps, Quiet
  <2>7. Calm
    BY <1>2, <2>1, <2>5, <2>6 DEF Calm, Jobs
  <2>8. ASSUME NEW n \in DOMAIN tasks' \ DOMAIN tasks PROVE EpochClears(n)'
    <3>1. tasks'[n] = k
      BY <2>5, <2>8
    <3>2. ASSUME NEW i \in DOMAIN tasks', i < n, tasks'[i].kind = "accept",
                 tasks'[i].window = w
          PROVE  tasks'[i].late
      <4>1. i \in DOMAIN tasks
        BY <2>2, <2>5, <3>2
      <4>2. tasks'[i] = Belated(w)[i] /\ tasks[i].window = w
        BY <2>2, <2>4, <3>2, <4>1, AppendIs
      <4> QED BY <2>4, <4>1, <4>2
    <3>3. \A t \in Tab : ~Due(t, w)'
      BY <2>3 DEF Due
    <3> QED BY <2>2, <3>1, <3>2, <3>3 DEF EpochClears, Due
  <2> QED BY <2>7, <2>8
<1>5. ASSUME UNCHANGED <<disk, store, asked>>, KeepsPending, NEW k \in TaskRecord,
             tasks' = Append(tasks, k), k.pc = "queued", k.kind # "epoch"
      PROVE  Calm /\ \A n \in DOMAIN tasks' \ DOMAIN tasks : EpochClears(n)'
  <2>1. /\ Mirrors(tasks, tasks')
        /\ \A i \in DOMAIN tasks' \ DOMAIN tasks : tasks'[i] = k
    BY <1>5, TypesOf, MirrorsJoined
  <2> QED BY <1>1, <1>2, <1>5, <2>1 DEF Calm, Quiet, Jobs, EpochClears
<1>6. ASSUME NEW w \in Window, NEW mark \in Refresh, AcceptPageRefresh(w, mark)
      PROVE  Calm /\ \A k \in DOMAIN tasks' \ DOMAIN tasks : EpochClears(k)'
  BY <1>5, <1>6, AcceptDoes DEF KeepsPending, Keeps
<1>7. ASSUME NEW t \in Tab, NEW w \in Window, ActivateTab(t, w)
      PROVE  Calm /\ \A k \in DOMAIN tasks' \ DOMAIN tasks : EpochClears(k)'
  BY <1>5, <1>7, ActivateDoes DEF KeepsPending, Keeps
<1>8. ASSUME UNCHANGED <<disk, tasks, asked>>, KeepsPending,
             \A j \in Jobs' : j \in Jobs
      PROVE  Calm /\ \A n \in DOMAIN tasks' \ DOMAIN tasks : EpochClears(n)'
  BY <1>1, <1>2, <1>8, MirrorsItself DEF Calm, Quiet
<1>9. ASSUME NEW w \in Window, ClearWindowPending(w)
      PROVE  Calm /\ \A k \in DOMAIN tasks' \ DOMAIN tasks : EpochClears(k)'
  <2>1. mem' = CancelIn(mem, w) /\ UNCHANGED <<disk, store, tasks, asked>>
    BY <1>9, ClearPendingDoes
  <2>2. KeepsPending
    BY <2>1, CancelInIs, TypesOf DEF KeepsPending, Keeps
  <2> QED BY <1>8, <2>1, <2>2 DEF Jobs
<1>10. CASE Initialized
  <2>1. /\ Jobs' \subseteq Jobs /\ \E f : mem' = [mem EXCEPT !.mark = f]
        /\ UNCHANGED <<disk, tasks, asked>>
    BY <1>10, InitializedDoes
  <2>2. KeepsPending
    BY <2>1, MarkOnly, TypesOf DEF KeepsPending, Keeps
  <2> QED BY <1>3, <1>8, <2>1, <2>2
<1> QED BY <1>3, <1>4, <1>6, <1>7, <1>9, <1>10 DEF QueueStep

-----------------------------------------------------------------------------
\* The steps of the running task. What a step leaves of each part:

\* Only a task that admits, stages or rolls back has anything to say of marks.
LEMMA NothingStaged ==
  ASSUME TInv, tasks # <<>> => tasks[1].pc \notin {"stage", "rollback"}
  PROVE  StagesStored /\ CommitsRestorable
<1>1. \A j \in Jobs : j.kind \notin {"stage", "rollback"}
  BY DEF TInv, QueuesOK, InStep, TaskKinds
<1>2. tasks # <<>> => tasks[1].commits = <<>>
  BY HeadTaskIs, TypesOf DEF TaskKnows
<1> QED BY <1>1, <1>2, EmptyIs DEF StagesStored, StageStands, CommitsRestorable, JobRestores

LEMMA NothingStagedNext ==
  ASSUME TInv', tasks' # <<>> => tasks'[1].pc \notin {"stage", "rollback"}
  PROVE  StagesStored' /\ CommitsRestorable'
<1>1. \A j \in Jobs' : j.kind \notin {"stage", "rollback"}
  BY DEF TInv, QueuesOK, InStep, TaskKinds
<1>2. tasks' # <<>> => tasks'[1].commits = <<>>
  BY HeadTaskIs DEF TaskKnows, TInv, QueuesOK, TasksOK, Members
<1> QED BY <1>1, <1>2, EmptyIs DEF StagesStored, StageStands, CommitsRestorable, JobRestores

LEMMA NothingAdmitted ==
  ASSUME TInv', tasks' # <<>> =>
                    tasks'[1].pc \notin {"admit", "active", "stage", "rollback"}
  PROVE  Admitting' /\ StagesStored' /\ CommitsRestorable'
BY NothingStagedNext DEF Admitting

LEMMA PoppedIsQueued ==
  ASSUME TInv, tasks # <<>>, tasks' = Tail(tasks)
  PROVE  tasks' # <<>> => tasks'[1].pc = "queued"
BY TasksTail, TypesOf DEF QueuesOK

LEMMA AskedStays ==
  ASSUME Quiet, NEW t \in Tab, AskedStored(t), disk'[t] = disk[t],
         asked'[t] \in {None, asked[t]}
  PROVE  AskedStored(t)'
<1>1. \A j \in Jobs' : j.kind = "settings" => j \in Jobs
  BY DEF Quiet, TaskKinds
<1> QED BY <1>1 DEF AskedStored, StoredAt, Quiet

LEMMA DueStays ==
  ASSUME NEW t \in Tab, DueStored(t), disk'[t] = disk[t],
         asked'[t] \in {None, asked[t]},
         Keeps(mem.pending[t], mem'.pending[t]),
         mem'.pending[t] # None /\ Dispatching(t) => Dispatching(t)'
  PROVE  DueStored(t)'
BY DEF DueStored, Keeps, StoredAt, AskedIn

\* No epoch of the window is queued or under way.
NoEpoch(w) ==
    \A k \in DOMAIN tasks : tasks[k].kind = "epoch" => tasks[k].window # w

\* The running task goes on as n.
GoesOn(n) ==
    /\ tasks' = [tasks EXCEPT ![1] = n]
    /\ n.kind = tasks[1].kind /\ n.window = tasks[1].window
    /\ n.kind = "accept" /\ n.pc \notin {"prepare", "dispatch"} =>
           /\ tasks[1].pc \notin {"prepare", "dispatch"}
           /\ tasks[1].late => n.late

LEMMA EpochsStay ==
  ASSUME TInv, EpochsClear, tasks # <<>>,
         \/ tasks' = Tail(tasks)
         \/ \E n \in TaskRecord :
                /\ GoesOn(n)
                /\ n.kind = "epoch" /\ tasks[1].pc = "queued" =>
                       \A t \in Tab : ~AskedIn(t, n.window)',
         \A t \in Tab, w \in Window :
             /\ Due(t, w)' => Due(t, w) \/ NoEpoch(w)
             /\ AskedIn(t, w)' => AskedIn(t, w) \/ Due(t, w)
  PROVE  EpochsClear'
<1>1. /\ \A k \in DOMAIN tasks : tasks[k] \in TaskRecord /\ tasks[k].window \in Window
      /\ DOMAIN tasks = 1..Len(tasks) /\ Len(tasks) \in Nat
      /\ 1 \in DOMAIN tasks /\ tasks \in Seq(TaskRecord)
  BY HeadTaskIs, TypesOf, MarksAreRanked
<1>2. ASSUME NEW k \in DOMAIN tasks, tasks[k].kind = "epoch"
      PROVE  /\ \A t \in Tab : ~Due(t, tasks[k].window) /\ ~NoEpoch(tasks[k].window)
             /\ tasks[k].pc # "queued" => \A t \in Tab : ~AskedIn(t, tasks[k].window)
             /\ \A i \in DOMAIN tasks :
                    i < k /\ tasks[i].kind = "accept"
                          /\ tasks[i].window = tasks[k].window
                          /\ tasks[i].pc \notin {"prepare", "dispatch"}
                    => tasks[i].late
  BY <1>2 DEF EpochsClear, EpochClears, NoEpoch
<1>3. ASSUME NEW k \in DOMAIN tasks, tasks[k].kind = "epoch", NEW t \in Tab, NEW w,
             w = tasks[k].window
      PROVE  ~Due(t, w)' /\ (tasks[k].pc # "queued" => ~AskedIn(t, w)')
  BY <1>1, <1>2, <1>3
<1>4. CASE tasks' = Tail(tasks)
  <2>1. /\ tasks' \in Seq(TaskRecord) /\ Len(tasks') = Len(tasks) - 1
        /\ \A i \in DOMAIN tasks' : i + 1 \in DOMAIN tasks /\ tasks'[i] = tasks[i + 1]
    BY <1>1, <1>4, TailIs
  <2>2. \A i \in DOMAIN tasks' : i \in Nat
    BY <2>1
  <2>3. ASSUME NEW k \in DOMAIN tasks', tasks'[k].kind = "epoch"
        PROVE  EpochClears(k)'
    <3>1. k + 1 \in DOMAIN tasks /\ tasks'[k] = tasks[k + 1] /\ tasks[k + 1].kind = "epoch"
      BY <2>1, <2>3
    <3>2. \A i \in DOMAIN tasks' :
              /\ i + 1 \in DOMAIN tasks /\ tasks'[i] = tasks[i + 1]
              /\ i < k => i + 1 < k + 1
      BY <2>1, <2>2
    <3>3. \A i \in DOMAIN tasks' :
              i < k /\ tasks'[i].kind = "accept"
                    /\ tasks'[i].window = tasks'[k].window
                    /\ tasks'[i].pc \notin {"prepare", "dispatch"}
              => tasks'[i].late
      BY <1>2, <3>1, <3>2
    <3>4. ASSUME NEW t \in Tab, NEW w, w = tasks'[k].window
          PROVE  ~Due(t, w)' /\ (tasks'[k].pc # "queued" => ~AskedIn(t, w)')
      BY <1>3, <3>1, <3>4
    <3> QED BY <3>3, <3>4 DEF EpochClears, Due, AskedIn
  <2> QED BY <2>3 DEF EpochsClear, EpochClears
<1>5. ASSUME NEW n \in TaskRecord, GoesOn(n),
             n.kind = "epoch" /\ tasks[1].pc = "queued" =>
                 \A t \in Tab : ~AskedIn(t, n.window)'
      PROVE  EpochsClear'
  <2>1. /\ DOMAIN tasks' = DOMAIN tasks /\ tasks'[1] = n
        /\ \A i \in DOMAIN tasks : i # 1 => tasks'[i] = tasks[i]
    BY <1>1, <1>5, PutIs DEF GoesOn
  <2>2. ASSUME NEW k \in DOMAIN tasks, tasks'[k].kind = "epoch"
        PROVE  EpochClears(k)'
    <3>1. tasks[k].kind = "epoch" /\ tasks'[k].window = tasks[k].window
      BY <1>5, <2>1, <2>2 DEF GoesOn
    <3>2. ASSUME NEW i \in DOMAIN tasks', i < k, tasks'[i].kind = "accept",
                 tasks'[i].window = tasks'[k].window,
                 tasks'[i].pc \notin {"prepare", "dispatch"}
          PROVE  tasks'[i].late
      <4>1. CASE i # 1
        BY <1>2, <2>1, <3>1, <3>2, <4>1
      <4>2. CASE i = 1
        BY <1>2, <1>5, <2>1, <3>1, <3>2, <4>2 DEF GoesOn
      <4> QED BY <4>1, <4>2
    <3>3. ASSUME NEW t \in Tab, NEW w, w = tasks[k].window PROVE ~Due(t, w)'
      BY <1>3, <3>1, <3>3
    <3>4. ASSUME tasks'[k].pc # "queued", NEW t \in Tab, NEW w, w = tasks[k].window
          PROVE  ~AskedIn(t, w)'
      <4>1. CASE tasks[k].pc # "queued"
        BY <1>3, <3>1, <3>4, <4>1
      <4>2. CASE tasks[k].pc = "queued" /\ k # 1
        BY <2>1, <3>4, <4>2
      <4>3. CASE tasks[k].pc = "queued" /\ k = 1
        <5>1. n.kind = "epoch" /\ n.window = w
          BY <1>5, <2>1, <2>2, <3>4, <4>3 DEF GoesOn
        <5> QED BY <1>5, <4>3, <5>1
      <4> QED BY <4>1, <4>2, <4>3
    <3> QED BY <3>1, <3>2, <3>3, <3>4 DEF EpochClears, Due, AskedIn
  <2> QED BY <2>1, <2>2 DEF EpochsClear, EpochClears
<1> QED BY <1>4, <1>5

LEMMA DispatchesGoOn ==
  ASSUME Dispatches, tasks # <<>>
  PROVE  \/ tasks' = Tail(tasks)
         \/ \E n \in TaskRecord : GoesOn(n) /\ n.pc \in {"prepare", "dispatch"}
BY DEF Dispatches, GoesOn

\* A task that dispatches or ends neither admits nor stages.
LEMMA DispatchedHead ==
  ASSUME TInv, TInv', Dispatches, tasks # <<>>
  PROVE  Admitting' /\ StagesStored' /\ CommitsRestorable'
<1>1. CASE tasks' = Tail(tasks)
  BY <1>1, PoppedIsQueued, NothingAdmitted
<1>2. ASSUME NEW n \in TaskRecord, tasks' = [tasks EXCEPT ![1] = n],
             n.pc \in {"prepare", "dispatch"}
      PROVE  Admitting' /\ StagesStored' /\ CommitsRestorable'
  <2>1. tasks'[1] = n
    BY <1>2, PutIs, TypesOf
  <2> QED BY <1>2, <2>1, NothingAdmitted
<1> QED BY <1>1, <1>2 DEF Dispatches

\* What a step that stores nothing and asks nothing leaves of what is stored,
\* due and asked
LEMMA StillMarks ==
  ASSUME TInv, MarksOK, Quiet, \A t \in Tab : Kept(t), UNCHANGED disk, KeepsPending,
         \A t \in Tab : asked'[t] \in {None, asked[t]},
         \A t \in Tab : mem'.pending[t] # None => ~Dispatching(t)
  PROVE  /\ \A t \in Tab : PanelStored(t)' /\ AskedStored(t)' /\ DueStored(t)'
         /\ \A t \in Tab, w \in Window :
                (Due(t, w)' => Due(t, w)) /\ (AskedIn(t, w)' => AskedIn(t, w))
<1>1. \A t \in Tab : PanelStored(t)'
  BY QuietPanels DEF MarksOK
<1>2. \A t \in Tab : AskedStored(t)' /\ DueStored(t)'
  BY AskedStays, DueStays DEF MarksOK, KeepsPending
<1>3. ASSUME NEW t \in Tab, NEW w \in Window
      PROVE  (Due(t, w)' => Due(t, w)) /\ (AskedIn(t, w)' => AskedIn(t, w))
  BY DEF KeepsPending, Keeps, Due, AskedIn
<1> QED BY <1>1, <1>2, <1>3

LEMMA StartLoadingMarks ==
  ASSUME TInv, MarksOK, StartLoading
  PROVE  MarksOK'
<1>1. /\ TInv' /\ Quiet /\ \A t \in Tab : Kept(t)
  BY QuietIs DEF QuietStep
<1>2. /\ tasks # <<>> /\ Head(tasks) = tasks[1] /\ tasks[1] \in TaskRecord
      /\ tasks[1].pc = "queued" /\ tasks[1].kind \in {"accept", "epoch"}
      /\ UNCHANGED disk /\ \E f : mem' = [mem EXCEPT !.mark = f]
      /\ tasks[1].kind = "accept" => UNCHANGED <<mem, asked>>
      /\ tasks[1].kind = "epoch" =>
                \A t \in Tab : asked'[t] =
                    IF asked[t] # None /\ asked[t].window = tasks[1].window
                    THEN None ELSE asked[t]
  BY StartLoadingDoes, HeadTaskIs, TypesOf
<1>3. PICK n \in TaskRecord : n = [tasks[1] EXCEPT !.pc = "load"]
                              /\ tasks' = [tasks EXCEPT ![1] = n]
  BY <1>2, StartLoadingDoes
<1>4. /\ n.pc = "load" /\ n.kind = tasks[1].kind /\ n.window = tasks[1].window
      /\ n.late = tasks[1].late
  BY <1>2, <1>3 DEF TaskRecord
<1>5. KeepsPending
  BY <1>2, MarkOnly, TypesOf DEF KeepsPending, Keeps
<1>6. \A t \in Tab : asked'[t] \in {None, asked[t]} /\ ~Dispatching(t)
  BY <1>2 DEF Dispatching
<1>7. /\ \A t \in Tab : PanelStored(t)' /\ AskedStored(t)' /\ DueStored(t)'
      /\ \A t \in Tab, w \in Window :
             (Due(t, w)' => Due(t, w)) /\ (AskedIn(t, w)' => AskedIn(t, w))
  BY <1>1, <1>2, <1>5, <1>6, StillMarks
<1>8. tasks'[1] = n
  BY <1>2, <1>3, PutIs, TypesOf
<1>9. Admitting' /\ StagesStored' /\ CommitsRestorable'
  BY <1>1, <1>4, <1>8, NothingAdmitted
<1>10. GoesOn(n) /\ (n.kind = "epoch" => \A t \in Tab : ~AskedIn(t, n.window)')
  BY <1>2, <1>3, <1>4 DEF GoesOn, AskedIn
<1>11. EpochsClear'
  BY <1>2, <1>7, <1>10, EpochsStay DEF MarksOK
<1> QED BY <1>7, <1>9, <1>11 DEF MarksOK

LEMMA DispatchingMarks ==
  ASSUME TInv, MarksOK, StartActivating \/ Dispatched
  PROVE  MarksOK'
<1>1. /\ TInv' /\ Quiet /\ \A t \in Tab : Kept(t)
  BY QuietIs DEF QuietStep
<1>2. /\ tasks # <<>> /\ UNCHANGED <<disk, asked>> /\ KeepsPending /\ Dispatches
  BY StartActivatingDoes, DispatchedDoes DEF Dispatches
<1>3. \A t \in Tab : mem'.pending[t] # None => ~Dispatching(t)
  <2>1. CASE StartActivating
    BY <2>1, StartActivatingDoes, HeadTaskIs, TypesOf DEF Dispatching
  <2>2. CASE Dispatched
    BY <2>2, DispatchedDoes, CancelIs, TypesOf DEF Dispatching
  <2> QED BY <2>1, <2>2
<1>4. /\ \A t \in Tab : PanelStored(t)' /\ AskedStored(t)' /\ DueStored(t)'
      /\ \A t \in Tab, w \in Window :
             (Due(t, w)' => Due(t, w)) /\ (AskedIn(t, w)' => AskedIn(t, w))
  BY <1>1, <1>2, <1>3, StillMarks
<1>5. Admitting' /\ StagesStored' /\ CommitsRestorable'
  BY <1>1, <1>2, DispatchedHead
<1>6. EpochsClear'
  <2>1. CASE tasks' = Tail(tasks)
    BY <1>2, <1>4, <2>1, EpochsStay DEF MarksOK
  <2>2. ASSUME NEW n \in TaskRecord, GoesOn(n), n.pc \in {"prepare", "dispatch"},
               tasks' # Tail(tasks)
        PROVE  EpochsClear'
    <3>1. StartActivating
      BY <2>2, DispatchedDoes
    <3>2. tasks[1].kind = "activate"
      BY <3>1, StartActivatingDoes, HeadTaskIs, TypesOf
    <3>3. n.kind # "epoch"
      BY <2>2, <3>2 DEF GoesOn
    <3> QED BY <1>2, <1>4, <2>2, <3>3, EpochsStay DEF MarksOK
  <2> QED BY <1>2, <2>1, <2>2, DispatchesGoOn
<1> QED BY <1>4, <1>5, <1>6 DEF MarksOK

LEMMA PreparedMarks ==
  ASSUME TInv, LifeOK, MarksOK, Prepared
  PROVE  MarksOK'
<1>1. /\ TInv' /\ Quiet /\ \A t \in Tab : Kept(t)
  BY QuietIs DEF QuietStep
<1> DEFINE u == tasks[1].tab
<1>2. /\ tasks # <<>> /\ UNCHANGED disk /\ KeepsPending /\ Dispatches
      /\ tasks[1].pc = "prepare" /\ tasks[1] \in TaskRecord /\ u \in Tab
      /\ tasks[1].kind # "epoch"
  BY PreparedDoes, HeadTaskIs, TypesOf DEF TaskKnows
<1>3. Admitting' /\ StagesStored' /\ CommitsRestorable'
  BY <1>1, <1>2, DispatchedHead
<1>4. \A t \in Tab : ~Dispatching(t)
  BY <1>2 DEF Dispatching
<1>5. \/ tasks' = Tail(tasks)
      \/ \E n \in TaskRecord : GoesOn(n) /\ n.kind # "epoch"
  BY <1>2, DispatchesGoOn DEF GoesOn
<1>6. CASE UNCHANGED asked
  <2>1. /\ \A t \in Tab : PanelStored(t)' /\ AskedStored(t)' /\ DueStored(t)'
        /\ \A t \in Tab, w \in Window :
               (Due(t, w)' => Due(t, w)) /\ (AskedIn(t, w)' => AskedIn(t, w))
    BY <1>1, <1>2, <1>4, <1>6, StillMarks
  <2>2. EpochsClear'
    BY <1>2, <1>5, <2>1, EpochsStay DEF MarksOK
  <2> QED BY <1>3, <2>1, <2>2 DEF MarksOK
<1>7. CASE /\ IsCurrentRefresh(mem, u) /\ UNCHANGED mem
           /\ \E k \in TaskRecord :
                  /\ tasks' = [tasks EXCEPT ![1] = k]
                  /\ k.pc = "dispatch" /\ k.tab = u
           /\ \A t \in Tab : asked'[t] =
                  IF t = u /\ ~mem.pending[t].late
                  THEN [window |-> mem.pending[t].window,
                        mark |-> mem.pending[t].mark]
                  ELSE asked[t]
  <2>1. \A t \in Tab : PanelStored(t)'
    BY <1>1, QuietPanels DEF MarksOK
  <2>2. mem.pending[u] # None
    BY <1>7 DEF IsCurrentRefresh
  <2>3. tasks' # <<>> /\ tasks'[1].pc = "dispatch" /\ tasks'[1].tab = u
    BY <1>2, <1>7, PutIs, TypesOf
  <2> HIDE DEF u
  <2>4. ASSUME NEW t \in Tab PROVE AskedStored(t)' /\ DueStored(t)'
    <3>1. CASE asked'[t] = asked[t]
      BY <1>1, <1>2, <1>4, <3>1, AskedStays, DueStays DEF MarksOK, KeepsPending
    <3>2. CASE asked'[t] # asked[t]
      <4>1. /\ t = u /\ ~mem.pending[t].late
            /\ asked'[t] = [window |-> mem.pending[t].window, mark |-> mem.pending[t].mark]
        BY <1>7, <3>2
      <4>2. StoredAt(t, mem.pending[t].window, mem.pending[t].mark)
        BY <2>2, <4>1 DEF MarksOK, DueStored
      <4>3. t = u => Dispatching(t)'
        BY <2>3 DEF Dispatching
      <4> QED BY <1>2, <1>7, <4>1, <4>2, <4>3 DEF AskedStored, DueStored, StoredAt
    <3> QED BY <3>1, <3>2
  <2>5. ASSUME NEW t \in Tab, NEW w \in Window
        PROVE  (Due(t, w)' => Due(t, w)) /\ (AskedIn(t, w)' => AskedIn(t, w) \/ Due(t, w))
    <3>1. CASE asked'[t] = asked[t]
      BY <1>7, <3>1 DEF Due, AskedIn
    <3>2. CASE asked'[t] # asked[t]
      <4>1. /\ t = u /\ ~mem.pending[t].late
            /\ asked'[t] = [window |-> mem.pending[t].window, mark |-> mem.pending[t].mark]
        BY <1>7, <3>2
      <4>2. asked'[t].window = mem.pending[t].window
        BY <4>1
      <4> QED BY <1>7, <2>2, <4>1, <4>2 DEF Due, AskedIn
    <3> QED BY <3>1, <3>2
  <2>6. EpochsClear'
    BY <1>2, <1>5, <2>5, EpochsStay DEF MarksOK
  <2> QED BY <1>3, <2>1, <2>4, <2>6 DEF MarksOK
<1> QED BY <1>6, <1>7, PreparedDoes

LEMMA AdmitMarks ==
  ASSUME TInv, MarksOK, Admit
  PROVE  MarksOK'
<1>1. /\ TInv' /\ Quiet /\ \A t \in Tab : Kept(t)
  BY QuietIs DEF QuietStep
<1>2. /\ UNCHANGED <<disk, store, asked>>
      /\ tasks # <<>> /\ tasks[1].kind = "accept" /\ tasks[1].pc = "admit"
      /\ \E f : mem' = [mem EXCEPT !.mark = f]
  BY AdmitDoes
<1>3. KeepsPending /\ \A t \in Tab : ~Dispatching(t)
  BY <1>2, MarkOnly, TypesOf DEF KeepsPending, Keeps, Dispatching
<1>4. /\ \A t \in Tab : PanelStored(t)' /\ AskedStored(t)' /\ DueStored(t)'
      /\ \A t \in Tab, w \in Window :
             (Due(t, w)' => Due(t, w)) /\ (AskedIn(t, w)' => AskedIn(t, w))
  BY <1>1, <1>2, <1>3, StillMarks
<1>5. CASE tasks' = Tail(tasks)
  <2>1. Admitting' /\ StagesStored' /\ CommitsRestorable'
    BY <1>1, <1>2, <1>5, PoppedIsQueued, NothingAdmitted
  <2>2. EpochsClear'
    BY <1>2, <1>4, <1>5, EpochsStay DEF MarksOK
  <2> QED BY <1>4, <2>1, <2>2 DEF MarksOK
<1>6. ASSUME NEW k \in TaskRecord, tasks' = [tasks EXCEPT ![1] = k],
             k.pc = "active", k.kind = "accept",
             k.window = tasks[1].window, k.mark = tasks[1].mark, k.late = tasks[1].late
      PROVE  MarksOK'
  <2>1. tasks'[1] = k /\ GoesOn(k)
    BY <1>2, <1>6, PutIs, TypesOf DEF GoesOn
  <2>2. StagesStored' /\ CommitsRestorable'
    BY <1>1, <1>6, <2>1, NothingStagedNext
  <2>3. Admitting'
    <3>1. mem'.pending = mem.pending
      BY <1>2, MarkOnly, TypesOf
    <3> QED BY <1>2, <1>6, <2>1, <3>1 DEF MarksOK, Admitting, Due, AskedIn
  <2>4. EpochsClear'
    BY <1>2, <1>4, <1>6, <2>1, EpochsStay DEF MarksOK
  <2> QED BY <1>4, <2>2, <2>3, <2>4 DEF MarksOK
<1> QED BY <1>5, <1>6, AdmitDoes

\* A refresh that is admitted is newer than what its window's tabs store, hence
\* than what they were asked, or are due.
LEMMA AcceptLoadedMarks ==
  ASSUME TInv, MarksOK, AcceptLoaded
  PROVE  MarksOK'
<1>1. /\ TInv' /\ Quiet /\ \A t \in Tab : Kept(t)
  BY QuietIs DEF QuietStep
<1>2. /\ UNCHANGED <<disk, mem, asked>>
      /\ tasks # <<>> /\ tasks[1].kind = "accept" /\ tasks[1].pc = "load"
  BY AcceptLoadedDoes
<1>3. KeepsPending /\ \A t \in Tab : ~Dispatching(t)
  BY <1>2 DEF KeepsPending, Keeps, Dispatching
<1>4. /\ \A t \in Tab : PanelStored(t)' /\ AskedStored(t)' /\ DueStored(t)'
      /\ \A t \in Tab, w \in Window :
             (Due(t, w)' => Due(t, w)) /\ (AskedIn(t, w)' => AskedIn(t, w))
  BY <1>1, <1>2, <1>3, StillMarks
<1>5. CASE tasks' = Tail(tasks)
  <2>1. Admitting' /\ StagesStored' /\ CommitsRestorable'
    BY <1>1, <1>2, <1>5, PoppedIsQueued, NothingAdmitted
  <2>2. EpochsClear'
    BY <1>2, <1>4, <1>5, EpochsStay DEF MarksOK
  <2> QED BY <1>4, <2>1, <2>2 DEF MarksOK
<1>6. ASSUME NEW k \in TaskRecord, tasks' = [tasks EXCEPT ![1] = k],
             k.pc = "admit", k.kind = "accept",
             k.window = tasks[1].window, k.mark = tasks[1].mark, k.late = tasks[1].late,
             \A t \in Tab : disk[t] # None /\ disk[t].window = k.window =>
                 Rank(disk[t].mark) < Rank(k.mark)
      PROVE  MarksOK'
  <2>1. tasks'[1] = k /\ GoesOn(k)
    BY <1>2, <1>6, PutIs, TypesOf DEF GoesOn
  <2>2. StagesStored' /\ CommitsRestorable'
    BY <1>1, <1>6, <2>1, NothingStagedNext
  <2>3. Rank(k.mark) \in Nat
    BY <1>6, RankIs DEF TaskRecord
  <2>4. ASSUME NEW t \in Tab, NEW m, Rank(m) \in Nat, StoredAt(t, k.window, m)
        PROVE  Rank(k.mark) > Rank(m)
    <3> DEFINE a == Rank(k.mark)
               b == Rank(disk[t].mark)
               c == Rank(m)
    <3>1. b \in Nat /\ b < a /\ b >= c /\ a \in Nat /\ c \in Nat
      BY <1>6, <2>3, <2>4, MarksAreRanked DEF StoredAt
    <3> HIDE DEF a, b, c
    <3>2. a > c
      BY <3>1
    <3> QED BY <3>2 DEF a, c
  <2>5. Admitting'
    <3>1. ASSUME NEW t \in Tab, disk[t] # None, AskedIn(t, k.window)
          PROVE  Rank(k.mark) > Rank(asked[t].mark)
      BY <2>4, <3>1, MarksAreRanked DEF MarksOK, AskedStored, AskedIn
    <3>2. ASSUME NEW t \in Tab, Due(t, k.window)
          PROVE  Rank(k.mark) > Rank(mem.pending[t].mark)
      BY <2>4, <3>2, MarksAreRanked DEF MarksOK, DueStored, Due
    <3> QED BY <1>2, <2>1, <3>1, <3>2 DEF Admitting, Due, AskedIn
  <2>6. EpochsClear'
    BY <1>2, <1>4, <1>6, <2>1, EpochsStay DEF MarksOK
  <2> QED BY <1>4, <2>2, <2>5, <2>6 DEF MarksOK
<1> QED BY <1>5, <1>6, AcceptLoadedDoes

\* While a window's epoch is under way nothing of the window is asked, or due,
\* so its watermarks may fall.
LEMMA EpochMarks ==
  ASSUME TInv, LifeOK, MarksOK, EpochLoaded \/ EpochStored
  PROVE  MarksOK'
<1>1. /\ TInv' /\ Quiet /\ \A t \in Tab : Kept(t)
  BY QuietIs DEF QuietStep
<1>2. /\ UNCHANGED <<mem, asked>> /\ EpochNext
      /\ tasks # <<>> /\ tasks[1].kind = "epoch" /\ tasks[1].pc \in {"load", "epoch"}
      /\ 1 \in DOMAIN tasks
  BY EpochLoadedDoes, EpochStoredDoes, HeadTaskIs, TypesOf
<1>3. ASSUME NEW t \in Tab, disk'[t] # disk[t]
      PROVE  disk[t] # None /\ disk[t].window = tasks[1].window
  BY <1>3, EpochLoadedDoes, EpochStoredDoes
<1>4. \A t \in Tab : ~AskedIn(t, tasks[1].window) /\ ~Due(t, tasks[1].window)
  BY <1>2 DEF MarksOK, EpochsClear, EpochClears
<1>5. ASSUME NEW t \in Tab PROVE PanelStored(t)' /\ AskedStored(t)' /\ DueStored(t)'
  <2>1. PanelStored(t)'
    BY <1>1, QuietPanels DEF MarksOK
  <2>2. ~Dispatching(t)
    BY <1>2 DEF Dispatching
  <2>3. CASE disk'[t] = disk[t]
    BY <1>1, <1>2, <2>1, <2>2, <2>3, AskedStays, DueStays DEF MarksOK, Keeps
  <2>4. CASE disk'[t] # disk[t]
    <3>1. disk[t] # None /\ disk[t].window = tasks[1].window
      BY <1>3, <2>4
    <3>2. asked[t] = None
      BY <1>4, <3>1 DEF MarksOK, AskedStored, StoredAt, AskedIn
    <3>3. mem.pending[t] = None \/ mem.pending[t].late
      BY <1>4, <3>1 DEF MarksOK, DueStored, StoredAt, Due
    <3> QED BY <1>2, <2>1, <3>2, <3>3 DEF AskedStored, DueStored
  <2> QED BY <2>3, <2>4
<1>6. Admitting' /\ StagesStored' /\ CommitsRestorable'
  <2>1. CASE tasks' = Tail(tasks)
    BY <1>1, <1>2, <2>1, PoppedIsQueued, NothingAdmitted
  <2>2. ASSUME NEW k \in TaskRecord, tasks' = [tasks EXCEPT ![1] = k], k.pc = "epoch"
        PROVE  Admitting' /\ StagesStored' /\ CommitsRestorable'
    <3>1. tasks'[1] = k
      BY <1>2, <2>2, PutIs, TypesOf
    <3> QED BY <1>1, <2>2, <3>1, NothingAdmitted
  <2> QED BY <1>2, <2>1, <2>2 DEF EpochNext
<1>7. EpochsClear'
  <2>1. \A t \in Tab, w \in Window :
            (Due(t, w)' => Due(t, w)) /\ (AskedIn(t, w)' => AskedIn(t, w))
    BY <1>2 DEF Due, AskedIn
  <2>2. \/ tasks' = Tail(tasks)
        \/ \E n \in TaskRecord : GoesOn(n)
    BY <1>2 DEF EpochNext, GoesOn
  <2>3. tasks[1].pc # "queued"
    BY <1>2
  <2> QED BY <1>2, <2>1, <2>2, <2>3, EpochsStay DEF MarksOK
<1> QED BY <1>5, <1>6, <1>7 DEF MarksOK

\* The tabs a task has staged, in lifecycles that go on, are stored; what it
\* would restore is restorable.
StagedStands(k) ==
    \A s \in k.staged :
        s.auto /\ mem.revision[s.tab] = s.revision /\ mem.panel[s.tab] = k.window
        => StoredAt(s.tab, k.window, k.mark)

CommitsStand(k) == \A c \in Members(k.commits) : Restorable(c.tab, c.before)

\* The refresh that is being admitted goes on as k.
AdmitsAs(k) ==
    /\ tasks # <<>> /\ tasks[1].kind = "accept" /\ tasks[1].pc \in {"active", "stage"}
    /\ Accepts(k) /\ k.window = tasks[1].window
    /\ k.mark = tasks[1].mark /\ k.late = tasks[1].late
    /\ StagedStands(k) /\ CommitsStand(k)

LEMMA StageNextMarks ==
  ASSUME TInv, TInv', MarksOK, UNCHANGED <<disk, asked>>, NEW k, AdmitsAs(k),
         NEW jobs \in Seq(JobRecord), \A j \in Members(jobs) : j.kind \notin TaskKinds,
         StageNext(k, jobs)
  PROVE  Admitting' /\ StagesStored' /\ CommitsRestorable' /\ EpochsClear'
<1>1. PICK t \in k.todo, n \in TaskRecord, j \in JobRecord :
        /\ mem' = mem
        /\ tasks' = [tasks EXCEPT ![1] = n]
        /\ n.pc = "stage" /\ n.kind = "accept" /\ n.window = k.window
        /\ n.mark = k.mark /\ n.late = k.late
        /\ n.staged = k.staged /\ n.commits = k.commits
        /\ store' = Append(jobs, j)
        /\ j.kind = "stage" /\ j.phase = "queued"
  BY DEF StageNext
<1>2. /\ tasks'[1] = n /\ tasks' # <<>> /\ Jobs' = Members(jobs) \cup {j}
      /\ tasks # <<>> /\ tasks[1].pc \in {"active", "stage"}
  BY <1>1, PutIs, AppendIs, TypesOf DEF AdmitsAs, Jobs
<1>3. Admitting'
  BY <1>1, <1>2 DEF Admitting, MarksOK, AdmitsAs, AskedIn, Due
<1>4. StagesStored'
  <2>1. ASSUME NEW i \in Jobs', i.kind = "stage" PROVE i.phase = "queued"
    BY <1>1, <1>2, <2>1 DEF TaskKinds
  <2>2. ASSUME NEW s \in k.staged, s.auto, mem.revision[s.tab] = s.revision,
               mem.panel[s.tab] = k.window
        PROVE  StoredAt(s.tab, k.window, k.mark)
    BY <2>2 DEF AdmitsAs, StagedStands
  <2> QED BY <1>1, <1>2, <2>1, <2>2 DEF StagesStored, StageStands, StoredAt
<1>5. CommitsRestorable'
  <2>1. ASSUME NEW i \in Jobs', i.kind \in {"stage", "rollback"}
        PROVE  i.kind = "stage" /\ i.phase = "queued"
    BY <1>1, <1>2, <2>1 DEF TaskKinds
  <2>2. ASSUME NEW c \in Members(k.commits) PROVE Restorable(c.tab, c.before)
    BY <2>2 DEF AdmitsAs, CommitsStand
  <2> QED BY <1>1, <1>2, <2>1, <2>2
          DEF CommitsRestorable, JobRestores, Restorable, AskedIn, Due
<1>6. EpochsClear'
  <2>1. GoesOn(n) /\ n.kind # "epoch"
    BY <1>1, <1>2 DEF GoesOn, AdmitsAs
  <2>2. \A u \in Tab, w \in Window :
            (Due(u, w)' => Due(u, w)) /\ (AskedIn(u, w)' => AskedIn(u, w))
    BY <1>1 DEF Due, AskedIn
  <2> QED BY <1>2, <2>1, <2>2, EpochsStay DEF MarksOK
<1> QED BY <1>3, <1>4, <1>5, <1>6

\* What becomes due is stored, newer than what was asked, and of an epoch that
\* did not end.
LEMMA StagesDoneMarks ==
  ASSUME TInv, MarksOK, UNCHANGED <<disk, asked>>, NEW k, AdmitsAs(k),
         NEW jobs, StagesDone(k, jobs)
  PROVE  (\A t \in Tab : DueStored(t)') /\ EpochsClear'
<1> DEFINE n == StagedOperations(mem, k)
<1>1. /\ tasks # <<>> /\ tasks[1].kind = "accept" /\ tasks[1].pc \in {"active", "stage"}
      /\ k \in TaskRecord /\ k.mark \in Refresh /\ mem \in Memory
      /\ k.window = tasks[1].window /\ k.mark = tasks[1].mark /\ k.late = tasks[1].late
  BY TypesOf DEF AdmitsAs, Accepts
<1>2. ASSUME NEW t \in Tab
      PROVE  \/ n.pending[t] = mem.pending[t]
             \/ \E s \in k.staged : s.tab = t /\ n.pending[t] = StagedOperation(mem, k, s)
  BY <1>1, StagedOperationsAre
<1>3. \A t \in Tab : Keeps(n.pending[t], mem'.pending[t])
  BY DEF StagesDone
<1> HIDE DEF n
<1>4. ASSUME NEW t \in Tab, ~Keeps(mem.pending[t], mem'.pending[t]), ~mem'.pending[t].late
      PROVE  /\ mem'.pending[t].window = k.window /\ mem'.pending[t].mark = k.mark
             /\ ~k.late /\ StoredAt(t, k.window, k.mark)
  <2>1. n.pending[t] # mem.pending[t] /\ n.pending[t] # None
    BY <1>3, <1>4 DEF Keeps
  <2>2. PICK s \in k.staged : s.tab = t /\ n.pending[t] = StagedOperation(mem, k, s)
    BY <1>2, <2>1
  <2>3. /\ s.auto /\ IsCurrentPanel(mem, s.tab, k.window, s.revision)
        /\ n.pending[t].window = k.window /\ n.pending[t].mark = k.mark
        /\ n.pending[t].late = k.late
    BY <1>1, <2>1, <2>2, StagedOperationIs
  <2>4. /\ mem'.pending[t].window = k.window /\ mem'.pending[t].mark = k.mark
        /\ mem'.pending[t].late = k.late
    BY <1>3, <1>4, <2>3 DEF Keeps
  <2>5. StoredAt(t, k.window, k.mark)
    BY <2>2, <2>3 DEF IsCurrentPanel, AdmitsAs, StagedStands
  <2> QED BY <1>4, <2>4, <2>5
<1>5. ASSUME NEW t \in Tab PROVE DueStored(t)'
  <2>1. ~Dispatching(t)
    BY <1>1 DEF Dispatching
  <2>2. CASE Keeps(mem.pending[t], mem'.pending[t])
    BY <2>1, <2>2, DueStays DEF MarksOK
  <2>3. CASE ~Keeps(mem.pending[t], mem'.pending[t]) /\ ~mem'.pending[t].late
    <3>1. /\ mem'.pending[t].window = k.window /\ mem'.pending[t].mark = k.mark
          /\ StoredAt(t, k.window, k.mark)
      BY <1>4, <2>3
    <3>2. AskedIn(t, k.window) => Rank(k.mark) > Rank(asked[t].mark)
      BY <1>1, <3>1 DEF MarksOK, Admitting, StoredAt
    <3> QED BY <3>1, <3>2 DEF DueStored, StoredAt, AskedIn
  <2>4. CASE mem'.pending[t].late
    BY <2>4 DEF DueStored
  <2> QED BY <2>2, <2>3, <2>4
<1>6. EpochsClear'
  <2>1. ASSUME ~k.late PROVE NoEpoch(k.window)
    <3>1. ASSUME NEW m \in DOMAIN tasks, tasks[m].kind = "epoch", tasks[m].window = k.window
          PROVE  FALSE
      <4>1. m # 1 /\ m \in Nat /\ m >= 1 /\ 1 \in DOMAIN tasks
        BY <1>1, <3>1, TypesOf, HeadTaskIs
      <4>2. 1 < m
        BY <4>1
      <4> QED BY <1>1, <2>1, <3>1, <4>1, <4>2 DEF MarksOK, EpochsClear, EpochClears
    <3> QED BY <3>1 DEF NoEpoch
  <2>2. ASSUME NEW t \in Tab, NEW w \in Window, Due(t, w)'
        PROVE  Due(t, w) \/ NoEpoch(w)
    <3>1. CASE Keeps(mem.pending[t], mem'.pending[t])
      BY <2>2, <3>1 DEF Due, Keeps
    <3>2. CASE ~Keeps(mem.pending[t], mem'.pending[t])
      <4>1. ~mem'.pending[t].late /\ mem'.pending[t].window = w
        BY <2>2 DEF Due
      <4> QED BY <1>4, <2>1, <3>2, <4>1
    <3> QED BY <3>1, <3>2
  <2>3. \A t \in Tab, w \in Window : AskedIn(t, w)' => AskedIn(t, w)
    BY DEF AskedIn
  <2>4. \/ tasks' = Tail(tasks)
        \/ \E p \in TaskRecord : GoesOn(p) /\ p.kind # "epoch"
    BY <1>1, DispatchesGoOn DEF StagesDone, GoesOn
  <2> QED BY <1>1, <2>2, <2>3, <2>4, EpochsStay DEF MarksOK
<1> QED BY <1>5, <1>6

\* A refresh that stages its next tab, or its last one
LEMMA StageMarks ==
  ASSUME TInv, TInv', MarksOK, Quiet, \A t \in Tab : Kept(t),
         UNCHANGED <<disk, asked>>, NEW k, AdmitsAs(k),
         NEW jobs \in Seq(JobRecord), \A j \in Members(jobs) : j.kind \notin TaskKinds,
         StageNext(k, jobs) \/ StagesDone(k, jobs)
  PROVE  MarksOK'
<1>1. \A t \in Tab : PanelStored(t)' /\ AskedStored(t)'
  BY QuietPanels, AskedStays DEF MarksOK
<1>2. CASE StageNext(k, jobs)
  <2>1. \A t \in Tab : DueStored(t)'
    <3>1. mem' = mem /\ \A t \in Tab : ~Dispatching(t)
      BY <1>2 DEF StageNext, AdmitsAs, Dispatching
    <3> QED BY <3>1, DueStays DEF MarksOK, Keeps
  <2> QED BY <1>1, <1>2, <2>1, StageNextMarks DEF MarksOK
<1>3. CASE StagesDone(k, jobs)
  <2>1. Admitting' /\ StagesStored' /\ CommitsRestorable'
    BY <1>3, DispatchedHead DEF StagesDone, AdmitsAs
  <2> QED BY <1>1, <1>3, <2>1, StagesDoneMarks DEF MarksOK
<1> QED BY <1>2, <1>3

LEMMA ActiveTabMarks ==
  ASSUME TInv, MarksOK, ActiveTab
  PROVE  MarksOK'
<1>1. /\ TInv' /\ Quiet /\ \A t \in Tab : Kept(t)
  BY QuietIs DEF QuietStep
<1>2. /\ UNCHANGED <<disk, asked>>
      /\ tasks # <<>> /\ tasks[1].kind = "accept" /\ tasks[1].pc = "active"
  BY ActiveTabDoes
<1>3. PICK k : /\ Accepts(k) /\ k.window = tasks[1].window
               /\ k.mark = tasks[1].mark /\ k.late = tasks[1].late
               /\ k.staged = {} /\ k.commits = <<>>
               /\ StageNext(k, store) \/ StagesDone(k, store)
  BY ActiveTabDoes
<1>4. AdmitsAs(k)
  BY <1>2, <1>3, EmptyIs DEF AdmitsAs, StagedStands, CommitsStand
<1>5. store \in Seq(JobRecord) /\ \A j \in Members(store) : j.kind \notin TaskKinds
  BY <1>2, TypesOf DEF TInv, QueuesOK, InStep, Jobs, TaskKinds
<1> QED BY <1>1, <1>2, <1>3, <1>4, <1>5, StageMarks

\* A rollback that goes on, or ends
LEMMA RollbackMarks ==
  ASSUME TInv, TInv', MarksOK, UNCHANGED asked, NEW k,
         tasks # <<>>, tasks[1].kind = "accept", tasks[1].pc \in {"stage", "rollback"},
         k.window = tasks[1].window, k.late = tasks[1].late, CommitsStand(k),
         store # <<>>, store[1].kind \in TaskKinds,
         RollbackNext(k) \/ RollbackEnds
  PROVE  /\ Admitting' /\ StagesStored' /\ CommitsRestorable' /\ EpochsClear'
         /\ mem'.pending = mem.pending
<1>1. mem'.pending = mem.pending
  BY MarkOnly, TypesOf DEF RollbackNext, RollbackEnds
<1>2. \A t \in Tab, w \in Window :
          (Due(t, w)' => Due(t, w)) /\ (AskedIn(t, w)' => AskedIn(t, w))
  BY <1>1 DEF Due, AskedIn
<1>3. CASE RollbackEnds
  <2>1. tasks' = Tail(tasks)
    BY <1>3 DEF RollbackEnds
  <2> QED BY <1>1, <1>2, <2>1, PoppedIsQueued, NothingAdmitted, EpochsStay DEF MarksOK
<1>4. CASE RollbackNext(k)
  <2>1. PICK c \in Members(k.commits), n \in TaskRecord, j \in JobRecord :
          /\ tasks' = [tasks EXCEPT ![1] = n]
          /\ n.pc = "rollback" /\ n.kind = "accept" /\ n.window = k.window
          /\ n.late = k.late
          /\ Members(n.commits) \subseteq Members(k.commits)
          /\ store' = Append(Tail(store), j)
          /\ j.kind = "rollback" /\ j.tab = c.tab
          /\ j.found.before = c.before
    BY <1>4 DEF RollbackNext
  <2>2. tasks'[1] = n /\ GoesOn(n) /\ n.kind # "epoch"
    BY <2>1, PutIs, TypesOf DEF GoesOn
  <2>3. Admitting'
    BY <2>1, <2>2 DEF Admitting
  <2>4. StagesStored'
    <3>1. \A i \in Jobs' : i.kind # "stage"
      BY <2>1, <2>2 DEF TInv, QueuesOK, InStep, TaskKinds
    <3> QED BY <2>1, <2>2, <3>1 DEF StagesStored, StageStands
  <2>5. CommitsRestorable'
    <3>1. ASSUME NEW i \in Jobs', i.kind \in TaskKinds PROVE i = j
      <4> DEFINE q == Tail(store)
      <4>1. q \in Seq(JobRecord)
        BY TypesOf, TailIs
      <4> HIDE DEF q
      <4>2. Members(Append(q, j)) = Members(q) \cup {j}
        BY <4>1, AppendIs
      <4>4. Jobs' = Members(Tail(store)) \cup {j}
        BY <2>1, <4>2 DEF Jobs, q
      <4>3. Idle(Tail(store))
        BY TypesOf, IdleRest
      <4> QED BY <3>1, <4>3, <4>4 DEF Idle
    <3>2. ASSUME NEW b \in Members(k.commits) PROVE Restorable(b.tab, b.before)'
      BY <1>1, <3>2 DEF CommitsStand, Restorable, AskedIn, Due
    <3>3. \A i \in Jobs' : JobRestores(i)'
      BY <2>1, <3>1, <3>2 DEF JobRestores, TaskKinds
    <3> QED BY <2>1, <2>2, <3>2, <3>3 DEF CommitsRestorable
  <2> QED BY <1>1, <1>2, <2>2, <2>3, <2>4, <2>5, EpochsStay DEF MarksOK
<1> QED BY <1>3, <1>4

LEMMA StageStoredMarks ==
  ASSUME TInv, MarksOK, StageStored
  PROVE  MarksOK'
<1>1. /\ TInv' /\ Quiet /\ \A t \in Tab : Kept(t)
  BY QuietIs DEF QuietStep
<1> DEFINE j == store[1]
<1>2. /\ UNCHANGED <<disk, asked>>
      /\ store # <<>> /\ j \in Jobs /\ j.kind = "stage"
      /\ j.phase \in {"done", "failed"}
      /\ tasks # <<>> /\ tasks[1].kind = "accept" /\ tasks[1].pc = "stage"
      /\ j.tab \in Tab /\ j.window = tasks[1].window
  BY StageStoredDoes
<1>3. PICK k : /\ Staged(k, j)
               /\ \/ /\ j.phase = "done"
                     /\ \A s \in k.staged :
                            \/ s \in tasks[1].staged
                            \/ /\ s.tab = j.tab
                               /\ s.revision = j.revision
                               /\ s.auto => j.found.after # None
                     /\ \/ StageNext(k, Tail(store))
                        \/ StagesDone(k, Tail(store))
                  \/ RollbackNext(k) \/ RollbackEnds
  BY StageStoredDoes
<1> HIDE DEF j
<1>4. /\ Accepts(k) /\ k.window = tasks[1].window
      /\ k.mark = tasks[1].mark /\ k.late = tasks[1].late
  BY <1>3 DEF Staged
<1>5. CommitsStand(k)
  <2>1. ASSUME NEW c \in Members(k.commits), c \notin Members(tasks[1].commits)
        PROVE  Restorable(c.tab, c.before)
    <3>1. j.found.before # None /\ c.tab = j.tab /\ c.before = j.found.before
      BY <1>3, <2>1 DEF Staged
    <3> QED BY <1>2, <3>1 DEF MarksOK, CommitsRestorable, JobRestores
  <2> QED BY <1>2, <2>1 DEF CommitsStand, MarksOK, CommitsRestorable
<1>6. CASE RollbackNext(k) \/ RollbackEnds
  <2>1. /\ Admitting' /\ StagesStored' /\ CommitsRestorable' /\ EpochsClear'
        /\ mem'.pending = mem.pending
    BY <1>1, <1>2, <1>4, <1>5, <1>6, RollbackMarks DEF j, TaskKinds
  <2>2. KeepsPending /\ \A t \in Tab : ~Dispatching(t)
    BY <1>2, <2>1 DEF KeepsPending, Keeps, Dispatching
  <2>3. \A t \in Tab : PanelStored(t)' /\ AskedStored(t)' /\ DueStored(t)'
    BY <1>1, <1>2, <2>2, StillMarks
  <2> QED BY <2>1, <2>3 DEF MarksOK
<1>7. CASE /\ j.phase = "done"
           /\ \A s \in k.staged :
                  \/ s \in tasks[1].staged
                  \/ /\ s.tab = j.tab
                     /\ s.revision = j.revision
                     /\ s.auto => j.found.after # None
           /\ \/ StageNext(k, Tail(store))
              \/ StagesDone(k, Tail(store))
  <2>1. StagedStands(k)
    <3> SUFFICES ASSUME NEW s \in k.staged, s.auto, mem.revision[s.tab] = s.revision,
                        mem.panel[s.tab] = k.window
                 PROVE  StoredAt(s.tab, k.window, k.mark)
      BY DEF StagedStands
    <3>1. CASE s \in tasks[1].staged
      BY <1>2, <1>4, <3>1 DEF MarksOK, StagesStored
    <3>2. CASE s.tab = j.tab /\ s.revision = j.revision /\ j.found.after # None
      BY <1>2, <1>4, <1>7, <3>2 DEF MarksOK, StagesStored, StageStands
    <3> QED BY <1>7, <3>1, <3>2
  <2>2. AdmitsAs(k)
    BY <1>2, <1>4, <1>5, <2>1 DEF AdmitsAs
  <2>3. Tail(store) \in Seq(JobRecord) /\ \A i \in Members(Tail(store)) : i.kind \notin TaskKinds
    BY <1>2, TypesOf, TailIs, IdleRest DEF Idle, j, TaskKinds
  <2> QED BY <1>1, <1>2, <1>7, <2>2, <2>3, StageMarks
<1> QED BY <1>3, <1>6, <1>7

\* What is restored is not older than what was asked, or is due.
LEMMA RolledBackMarks ==
  ASSUME TInv, MarksOK, RolledBack
  PROVE  MarksOK'
<1>1. /\ TInv' /\ Quiet /\ \A t \in Tab : Kept(t)
  BY QuietIs DEF QuietStep
<1> DEFINE j == store[1]
<1>2. /\ UNCHANGED asked
      /\ store # <<>> /\ j \in Jobs /\ j.kind = "rollback"
      /\ tasks # <<>> /\ tasks[1].kind = "accept" /\ tasks[1].pc = "rollback"
      /\ j.tab \in Tab
      /\ Restage(j.found.before, j.found.after)
      /\ \A t \in Tab : disk'[t] # disk[t] =>
             /\ t = j.tab /\ disk[t] = j.found.after /\ disk'[t] = j.found.before
  BY RolledBackDoes
<1>3. PICK k : /\ k.window = tasks[1].window
               /\ k.late = tasks[1].late
               /\ k.commits = tasks[1].commits
               /\ RollbackNext(k) \/ RollbackEnds
  BY RolledBackDoes
<1>4. CommitsStand(k)
  BY <1>2, <1>3 DEF CommitsStand, MarksOK, CommitsRestorable
<1>5. /\ Admitting' /\ StagesStored' /\ CommitsRestorable' /\ EpochsClear'
      /\ mem'.pending = mem.pending
  BY <1>1, <1>2, <1>3, <1>4, RollbackMarks DEF TaskKinds
<1> HIDE DEF j
<1>6. ASSUME NEW t \in Tab PROVE PanelStored(t)' /\ AskedStored(t)' /\ DueStored(t)'
  <2>1. PanelStored(t)'
    BY <1>1, QuietPanels DEF MarksOK
  <2>2. ~Dispatching(t)
    BY <1>2 DEF Dispatching
  <2>3. CASE disk'[t] = disk[t]
    BY <1>1, <1>2, <1>5, <2>1, <2>2, <2>3, AskedStays, DueStays DEF MarksOK, Keeps
  <2>4. CASE disk'[t] # disk[t]
    <3>1. /\ disk[t] # None /\ disk'[t] # None /\ disk'[t] = j.found.before
          /\ disk'[t].window = disk[t].window /\ t = j.tab
      BY <1>2, <2>4, NoneIsNoRecord DEF Restage
    <3>2. Restorable(t, j.found.before)
      BY <1>2, <3>1 DEF MarksOK, CommitsRestorable, JobRestores
    <3>3. AskedStored(t)'
      BY <1>2, <3>1, <3>2 DEF MarksOK, AskedStored, StoredAt, Restorable, AskedIn
    <3>4. DueStored(t)'
      BY <1>2, <1>5, <2>2, <3>1, <3>2
         DEF MarksOK, DueStored, StoredAt, Restorable, Due, AskedIn
    <3> QED BY <2>1, <3>3, <3>4
  <2> QED BY <2>3, <2>4
<1> QED BY <1>5, <1>6 DEF MarksOK

\* What an update of the storage does to its tab's stored watermark
LEMMA UpdateRanks ==
  ASSUME TInv, Update, NEW t \in Tab, disk[t] # None
  PROVE  /\ disk'[t] # None
         /\ disk'[t].window = disk[t].window =>
                \/ Rank(disk'[t].mark) >= Rank(disk[t].mark)
                \/ /\ tasks # <<>> /\ tasks[1].pc = "stage"
                   /\ disk'[t].mark = tasks[1].mark
                   /\ disk[t].window = tasks[1].window
<1> DEFINE i == store[1]
<1>1. /\ i \in Jobs /\ i.kind \in TwoSteps /\ i.tab \in Tab
      /\ \A u \in Tab \ {i.tab} : disk'[u] = disk[u]
      /\ disk'[i.tab] \in {disk[i.tab], Updated(i)}
  BY UpdateDoes
<1>2. \/ StoresOwn(i)
      \/ /\ Stages(i) /\ Restage(disk[i.tab], Updated(i))
         /\ tasks # <<>> /\ Updated(i).mark = tasks[1].mark
      \/ Updated(i) = disk[i.tab]
  BY <1>1, UpdatedIs
<1>3. i.kind = "stage" => tasks[1].pc = "stage" /\ i.window = tasks[1].window
  BY <1>1 DEF TInv, QueuesOK, InStep, TaskKinds
<1> HIDE DEF i
<1>4. CASE disk'[t] = disk[t]
  <2>1. Rank(disk[t].mark) \in Nat
    BY MarksAreRanked
  <2>2. Rank(disk[t].mark) >= Rank(disk[t].mark)
    BY <2>1
  <2> QED BY <1>4, <2>2
<1>5. CASE t = i.tab /\ disk'[t] = Updated(i) /\ StoresOwn(i)
  <2>1. /\ disk'[t] # None /\ disk'[t].window = i.window
        /\ disk[t].window = i.window => Rank(disk[t].mark) <= Rank(disk'[t].mark)
    BY <1>5, NoneIsNoRecord DEF StoresOwn
  <2>2. Rank(disk[t].mark) \in Nat /\ Rank(disk'[t].mark) \in Nat
    BY <1>5, MarksAreRanked, RankIs DEF StoresOwn, DurableState
  <2>3. disk[t].window = i.window => Rank(disk'[t].mark) >= Rank(disk[t].mark)
    <3> DEFINE a == Rank(disk[t].mark)
               b == Rank(disk'[t].mark)
    <3>1. a \in Nat /\ b \in Nat /\ (disk[t].window = i.window => a <= b)
      BY <2>1, <2>2
    <3> HIDE DEF a, b
    <3>2. disk[t].window = i.window => b >= a
      BY <3>1
    <3> QED BY <3>2 DEF a, b
  <2> QED BY <2>1, <2>3
<1>6. CASE t = i.tab /\ disk'[t] = Updated(i) /\ Stages(i)
           /\ Restage(disk[t], Updated(i))
           /\ tasks # <<>> /\ Updated(i).mark = tasks[1].mark
  <2>1. i.kind = "stage" /\ disk[t].window = i.window
    BY <1>6 DEF Stages, StoredIn
  <2> QED BY <1>3, <1>6, <2>1, NoneIsNoRecord DEF Restage
<1> QED BY <1>1, <1>2, <1>4, <1>5, <1>6

\* A tab that was asked and is stored no more is not stored again.
LEMMA UpdateEmpty ==
  ASSUME TInv, Update, NEW t \in Tab, AskedStored(t), asked[t] # None,
         disk'[t] # None
  PROVE  disk[t] # None
<1> SUFFICES ASSUME disk[t] = None PROVE FALSE
  OBVIOUS
<1> DEFINE i == store[1]
<1>1. /\ i \in Jobs /\ i.kind \in TwoSteps /\ i.tab \in Tab
      /\ \A u \in Tab \ {i.tab} : disk'[u] = disk[u]
      /\ disk'[i.tab] \in {disk[i.tab], Updated(i)}
  BY UpdateDoes
<1>2. /\ t \in mem.terminal
      /\ \A j \in Jobs : j.kind = "settings" => j.tab # t
  BY DEF AskedStored
<1>3. \/ i.kind = "open" /\ i.tab \notin mem.terminal
      \/ i.kind = "settings"
      \/ disk[i.tab] # None
      \/ Updated(i) = disk[i.tab]
  BY <1>1, UpdatedIs DEF IsCurrentPanel, Stages, StoredIn
<1> HIDE DEF i
<1> QED BY <1>1, <1>2, <1>3

\* What is stored for the panel of a stage that runs
LEMMA StageFinds ==
  ASSUME TInv, LifeOK, \A t \in Tab : PanelStored(t), store # <<>>,
         store[1].kind = "stage", store[1].tab \in Tab, store[1].window \in Window,
         mem.revision[store[1].tab] = store[1].revision,
         mem.panel[store[1].tab] = store[1].window
  PROVE  Stages(store[1])
<1> DEFINE i == store[1]
           t == i.tab
<1>1. t \in Tab /\ mem.panel[t] # None /\ 1 \in DOMAIN store
  BY NoneIsNoRecord, TypesOf, HeadJobIs
<1>2. ASSUME NEW j \in Jobs, j.kind = "open", j.tab = t, j.revision = mem.revision[t]
      PROVE  FALSE
  <2>1. PICK n \in DOMAIN store : j = store[n]
    BY DEF Jobs, Members
  <2>2. n < 1
    BY <1>1, <1>2, <2>1 DEF TInv, QueuesOK, StoreOK, Ordered
  <2>3. n \in 1..Len(store) /\ Len(store) \in Nat
    BY TypesOf
  <2> QED BY <2>2, <2>3
<1>3. disk[t] # None /\ disk[t].window = mem.panel[t]
  BY <1>1, <1>2 DEF PanelStored
<1> QED BY <1>1, <1>3 DEF Stages, StoredIn

LEMMA UpdateStages ==
  ASSUME TInv, TInv', LifeOK, MarksOK, Update
  PROVE  StagesStored'
<1> DEFINE i == store[1]
<1>1. /\ UNCHANGED <<mem, tasks>> /\ store # <<>> /\ i \in Jobs
      /\ i.tab \in Tab /\ i.window \in Window
  BY UpdateDoes
<1>2. PICK j \in JobRecord :
          /\ store' = [store EXCEPT ![1] = j] /\ Like(i, j)
          /\ j.found.after = Updated(i)
          /\ j.phase = "done" => disk'[j.tab] = Updated(i)
  BY UpdateDoes DEF Like
<1>3. \A k \in Jobs' : k = j \/ k.phase = "queued"
  <2> DEFINE s == [store EXCEPT ![1] = j]
  <2>1. s \in Seq(JobRecord) /\ s # <<>> /\ s[1] = j /\ Tail(s) = Tail(store)
    BY <1>1, TypesOf, PutIs
  <2> HIDE DEF s
  <2>2. Members(s) = Members(Tail(s)) \cup {j}
    BY <2>1, RestHas
  <2> QED BY <1>1, <1>2, <2>1, <2>2, RestWaits DEF Jobs, s
<1>4. i.kind = "stage" => /\ tasks # <<>> /\ tasks[1].pc = "stage"
                          /\ i.window = tasks[1].window
  BY <1>1 DEF TInv, QueuesOK, InStep, TaskKinds
<1>5. tasks # <<>> => tasks[1] \in TaskRecord /\ Rank(tasks[1].mark) \in Nat
  BY MarksAreRanked, TypesOf, HeadTaskIs
<1>6. StageStands(j)'
  <2> SUFFICES ASSUME j.kind = "stage", j.phase = "done",
                      mem.revision[j.tab] = j.revision, mem.panel[j.tab] = j.window,
                      j.found.after # None
               PROVE  StoredAt(j.tab, j.window, tasks[1].mark)'
    BY <1>1 DEF StageStands
  <2>1. Stages(i)
    BY <1>1, <1>2, StageFinds DEF Like, MarksOK
  <2>2. /\ Restage(disk[i.tab], Updated(i)) /\ Updated(i).mark = tasks[1].mark
        /\ i.kind = "stage" /\ disk[i.tab].window = i.window
    BY <1>1, <1>2, <2>1, UpdatedIs DEF Like, Stages, StoredIn, TwoSteps
  <2>3. Rank(tasks[1].mark) >= Rank(tasks[1].mark)
    BY <1>4, <1>5, <2>2
  <2> HIDE DEF i
  <2> QED BY <1>1, <1>2, <2>2, <2>3 DEF Like, StoredAt, Restage
<1>7. ASSUME tasks # <<>>, tasks[1].pc = "stage", NEW s \in tasks[1].staged,
             s.auto, mem.revision[s.tab] = s.revision,
             mem.panel[s.tab] = tasks[1].window
      PROVE  StoredAt(s.tab, tasks[1].window, tasks[1].mark)'
  <2>1. StoredAt(s.tab, tasks[1].window, tasks[1].mark)
    BY <1>7 DEF MarksOK, StagesStored
  <2>2. s.tab \in Tab /\ tasks[1].window \in Window /\ Rank(tasks[1].mark) \in Nat
    BY <1>5, <1>7 DEF TaskRecord
  <2>3. Rank(tasks[1].mark) >= Rank(tasks[1].mark)
    BY <2>2
  <2> DEFINE w == tasks[1].window
             m == tasks[1].mark
  <2>4. StoredAt(s.tab, w, m)'
    <3>1. /\ w \in Window /\ Rank(m) \in Nat /\ StoredAt(s.tab, w, m)
          /\ mem.panel[s.tab] = w /\ tasks[1].window = w
          /\ Rank(tasks[1].mark) >= Rank(m)
      BY <1>7, <2>1, <2>2, <2>3
    <3>2. PICK x, y : x = w /\ y = m
      OBVIOUS
    <3>3. StoredAt(s.tab, x, y)'
      BY <2>2, <3>1, <3>2, UpdateStores
    <3>4. x = w' /\ y = m'
      BY <1>1, <3>2
    <3> QED BY <3>3, <3>4
  <2> QED BY <2>4
<1> HIDE DEF i
<1> QED BY <1>1, <1>3, <1>6, <1>7 DEF StagesStored, StageStands

LEMMA UpdateMarks ==
  ASSUME TInv, LifeOK, MarksOK, Update
  PROVE  MarksOK'
<1> DEFINE i == store[1]
<1>1. /\ TInv' /\ UNCHANGED <<mem, tasks>> /\ store # <<>> /\ i \in Jobs
      /\ i.kind \in TwoSteps /\ i.tab \in Tab
      /\ \A t \in Tab : asked'[t] \in {None, asked[t]}
      /\ \A t \in Tab : disk'[t] # None /\ asked'[t] # None =>
                            disk'[t].window = asked[t].window
  BY UpdateDoes
<1>2. PICK j \in JobRecord :
          /\ store' = [store EXCEPT ![1] = j] /\ Like(i, j)
          /\ j.found.before = IF Stages(i) THEN disk[j.tab] ELSE None
  BY UpdateDoes DEF Like
<1>3. Jobs' \subseteq Jobs \cup {j}
  BY <1>1, <1>2, TypesOf, PutIs DEF Jobs
<1> HIDE DEF i
<1>4. \A t \in Tab, w \in Window :
          (Due(t, w)' <=> Due(t, w)) /\ (AskedIn(t, w)' => AskedIn(t, w))
  BY <1>1 DEF Due, AskedIn
<1>5. \A t \in Tab : PanelStored(t)'
  BY UpdatePanels DEF MarksOK
<1>6. Admitting /\ \A t \in Tab : AskedStored(t) /\ DueStored(t)
  BY DEF MarksOK
<1>7. ASSUME NEW t \in Tab PROVE AskedStored(t)'
  <2> SUFFICES ASSUME asked'[t] # None PROVE AskedStored(t)'
    BY DEF AskedStored
  <2>1. asked'[t] = asked[t] /\ asked[t] # None
    BY <1>1
  <2>2. CASE disk'[t] = None
    <3>1. disk[t] = None
      BY <2>2, UpdateRanks
    <3>2. /\ t \in mem.terminal
          /\ \A k \in Jobs : k.kind = "settings" => k.tab # t
      BY <1>6, <2>1, <3>1 DEF AskedStored
    <3> QED BY <1>1, <1>2, <1>3, <2>2, <3>2 DEF AskedStored, Like
  <2>3. CASE disk'[t] # None
    <3>1. disk[t] # None
      BY <1>6, <2>1, <2>3, UpdateEmpty
    <3>2. disk[t].window = asked[t].window /\ Rank(disk[t].mark) >= Rank(asked[t].mark)
      BY <1>6, <2>1, <3>1 DEF AskedStored, StoredAt
    <3>3. disk'[t].window = asked[t].window
      BY <1>1, <2>3
    <3>4. /\ Rank(disk[t].mark) \in Nat /\ Rank(asked[t].mark) \in Nat
          /\ Rank(disk'[t].mark) \in Nat
      <4>1. disk'[t] \in DurableState
        BY <1>1, <2>3, TypesOf DEF TInv, DataOK, StoredState
      <4> QED BY <2>1, <3>1, <4>1, MarksAreRanked, RankIs DEF DurableState
    <3>5. CASE Rank(disk'[t].mark) >= Rank(disk[t].mark)
      <4> DEFINE a == Rank(disk'[t].mark)
                 b == Rank(disk[t].mark)
                 c == Rank(asked[t].mark)
      <4>1. a \in Nat /\ b \in Nat /\ c \in Nat /\ a >= b /\ b >= c
        BY <3>2, <3>4, <3>5
      <4> HIDE DEF a, b, c
      <4>2. a >= c
        BY <4>1
      <4> QED BY <2>1, <2>3, <3>3, <4>2 DEF AskedStored, StoredAt, a, c
    <3>6. CASE /\ tasks # <<>> /\ tasks[1].pc = "stage"
               /\ disk'[t].mark = tasks[1].mark
               /\ disk[t].window = tasks[1].window
      <4>1. Rank(disk'[t].mark) > Rank(asked[t].mark)
        BY <1>6, <2>1, <3>1, <3>2, <3>6 DEF Admitting, AskedIn
      <4>2. Rank(disk'[t].mark) >= Rank(asked[t].mark)
        BY <3>4, <4>1
      <4> QED BY <2>1, <2>3, <3>3, <4>2 DEF AskedStored, StoredAt
    <3> QED BY <3>1, <3>2, <3>3, <3>5, <3>6, UpdateRanks
  <2> QED BY <2>2, <2>3
<1>8. ASSUME NEW t \in Tab PROVE DueStored(t)'
  <2> SUFFICES ASSUME mem.pending[t] # None, ~mem.pending[t].late PROVE DueStored(t)'
    BY <1>1 DEF DueStored
  <2>1. PICK w, m : w = mem.pending[t].window /\ m = mem.pending[t].mark
    OBVIOUS
  <2>2. w \in Window /\ Rank(m) \in Nat
    BY <2>1, MarksAreRanked
  <2>3. StoredAt(t, w, m)
    BY <1>6, <2>1 DEF DueStored
  <2>4. mem.panel[t] = w
    BY <2>1 DEF LifeOK, Stands
  <2>5. tasks # <<>> /\ tasks[1].pc = "stage" /\ tasks[1].window = w =>
            Rank(tasks[1].mark) >= Rank(m)
    <3> SUFFICES ASSUME tasks # <<>>, tasks[1].pc = "stage", tasks[1].window = w
                 PROVE  Rank(tasks[1].mark) >= Rank(m)
      OBVIOUS
    <3>1. Rank(tasks[1].mark) > Rank(m)
      BY <1>6, <2>1 DEF Admitting, Due
    <3>2. Rank(tasks[1].mark) \in Nat
      BY MarksAreRanked, TypesOf, HeadTaskIs
    <3> QED BY <2>2, <3>1, <3>2
  <2>6. StoredAt(t, w, m)'
    BY <2>2, <2>3, <2>4, <2>5, UpdateStores
  <2>7. AskedIn(t, w)' => /\ AskedIn(t, w) /\ asked'[t] = asked[t]
                          /\ Rank(m) > Rank(asked[t].mark) \/ Dispatching(t)
    BY <1>1, <1>6, <2>1 DEF AskedIn, DueStored
  <2>8. w = mem'.pending[t].window /\ m = mem'.pending[t].mark
    BY <1>1, <2>1
  <2>9. Dispatching(t) => Dispatching(t)'
    BY <1>1 DEF Dispatching
  <2> QED BY <2>6, <2>7, <2>8, <2>9 DEF DueStored
<1>9. Admitting'
  <2>1. ASSUME tasks # <<>>, tasks[1].pc \in {"admit", "active", "stage"}, NEW t \in Tab,
               disk'[t] # None, AskedIn(t, tasks[1].window)'
        PROVE  Rank(tasks[1].mark) > Rank(asked'[t].mark)
    <3>1. asked'[t] = asked[t] /\ asked[t] # None /\ asked[t].window = tasks[1].window
      BY <1>1, <2>1 DEF AskedIn
    <3>2. disk[t] # None
      BY <1>6, <2>1, <3>1, UpdateEmpty
    <3> QED BY <1>6, <2>1, <3>1, <3>2 DEF Admitting, AskedIn
  <2>2. ASSUME tasks # <<>>, tasks[1].pc \in {"admit", "active", "stage"}, NEW t \in Tab,
               Due(t, tasks[1].window)'
        PROVE  Rank(tasks[1].mark) > Rank(mem.pending[t].mark)
    BY <1>1, <1>6, <2>2 DEF Admitting, Due
  <2> QED BY <1>1, <2>1, <2>2 DEF Admitting
<1>10. StagesStored'
  BY <1>1, UpdateStages
<1>11. \A t \in Tab : \A b : Restorable(t, b) => Restorable(t, b)'
  BY <1>1 DEF Restorable, AskedIn, Due
<1>12. CommitsRestorable'
  <2>1. ASSUME Stages(i), disk[i.tab] # None PROVE Restorable(i.tab, disk[i.tab])
    BY <1>1, <1>6, <2>1 DEF Restorable, AskedStored, DueStored, AskedIn, Due, StoredAt
  <2>2. JobRestores(j)'
    <3>1. j.kind # "rollback"
      BY <1>1, <1>2 DEF Like, TwoSteps
    <3>2. j.tab = i.tab
      BY <1>2 DEF Like
    <3>3. j.found.before # None => Restorable(j.tab, j.found.before)'
      BY <1>1, <1>2, <1>11, <2>1, <3>2
    <3> QED BY <3>1, <3>3 DEF JobRestores
  <2>3. ASSUME NEW k \in Jobs, JobRestores(k),
               \/ k.kind = "rollback"
               \/ k.kind = "stage" /\ k.phase # "queued" /\ k.found.before # None
        PROVE  Restorable(k.tab, k.found.before)'
    <3>1. k.tab \in Tab
      BY <2>3, JobIs, TypesOf DEF JobKnows, TwoSteps
    <3> QED BY <1>11, <2>3, <3>1 DEF JobRestores
  <2>4. \A k \in Jobs : JobRestores(k)
    BY DEF MarksOK, CommitsRestorable
  <2>5. \A k \in Jobs' : JobRestores(k)'
    BY <1>3, <2>2, <2>3, <2>4 DEF JobRestores
  <2>6. ASSUME tasks # <<>>, NEW c \in Members(tasks[1].commits)
        PROVE  Restorable(c.tab, c.before)'
    <3>1. c.tab \in Tab
      BY <2>6, CommitTabs, TypesOf, HeadTaskIs
    <3>2. Restorable(c.tab, c.before)
      BY <2>6 DEF MarksOK, CommitsRestorable
    <3> QED BY <1>11, <3>1, <3>2
  <2> QED BY <1>1, <2>5, <2>6 DEF CommitsRestorable
<1>13. EpochsClear'
  <2>1. \A k \in DOMAIN tasks : tasks[k].window \in Window
    BY MarksAreRanked
  <2> QED BY <1>1, <1>4, <2>1 DEF MarksOK, EpochsClear, EpochClears
<1> QED BY <1>5, <1>7, <1>8, <1>9, <1>10, <1>12, <1>13 DEF MarksOK

\* Nothing is due, and nothing is being done, when the worker starts.
LEMMA InitMarks == Init => MarksOK
<1> SUFFICES ASSUME Init PROVE MarksOK
  OBVIOUS
<1>1. /\ mem = Forgotten /\ store = <<FirstJob>> /\ tasks = <<>>
      /\ \A t \in Tab : asked[t] = None
  BY DEF Init, FirstJob
<1>2. FirstJob.kind = "init"
  BY DEF FirstJob, Job
<1>3. \A j \in Jobs : j.kind = "init"
  BY <1>1, <1>2 DEF Jobs, Members
<1>4. \A t \in Tab : mem.panel[t] = None /\ mem.pending[t] = None
  BY <1>1 DEF Forgotten
<1>5. DOMAIN tasks = {}
  BY <1>1
<1>6. \A t \in Tab : PanelStored(t) /\ AskedStored(t) /\ DueStored(t)
  BY <1>1, <1>4 DEF PanelStored, AskedStored, DueStored
<1>7. Admitting /\ StagesStored /\ CommitsRestorable /\ EpochsClear
  BY <1>1, <1>3, <1>5 DEF Admitting, StagesStored, StageStands, CommitsRestorable,
                          JobRestores, EpochsClear
<1> QED BY <1>6, <1>7 DEF MarksOK

LEMMA RestartMarks ==
  ASSUME TInv, MarksOK, Restart
  PROVE  MarksOK'
<1>1. /\ tasks' = <<>> /\ UNCHANGED <<disk, asked>>
      /\ \A j \in Jobs' : j = FirstJob
      /\ mem' = [Forgotten EXCEPT !.terminal = mem.terminal]
  BY RestartDoes
<1>2. \A j \in Jobs' : j.kind = "init"
  BY <1>1 DEF FirstJob, Job
<1>3. /\ mem'.terminal = mem.terminal
      /\ \A t \in Tab : mem'.panel[t] = None /\ mem'.pending[t] = None
  BY <1>1 DEF Forgotten
<1>4. \A t \in Tab : AskedStored(t)'
  BY <1>1, <1>2, <1>3 DEF MarksOK, AskedStored, StoredAt
<1>5. DOMAIN tasks' = {}
  BY <1>1
<1>6. \A t \in Tab : PanelStored(t)' /\ DueStored(t)'
  BY <1>3 DEF PanelStored, DueStored
<1>7. Admitting' /\ StagesStored' /\ CommitsRestorable' /\ EpochsClear'
  BY <1>1, <1>2, <1>5 DEF Admitting, StagesStored, StageStands, CommitsRestorable,
                          JobRestores, EpochsClear
<1> QED BY <1>4, <1>6, <1>7 DEF MarksOK

LEMMA SameMarks ==
  ASSUME MarksOK, UNCHANGED vars
  PROVE  MarksOK'
<1>1. UNCHANGED <<disk, mem, store, tasks, asked>>
  BY DEF vars
<1>2. Jobs' = Jobs
  BY <1>1 DEF Jobs
<1>3. \A t \in Tab : PanelStored(t)' /\ AskedStored(t)' /\ DueStored(t)'
  BY <1>1, <1>2 DEF MarksOK, PanelStored, AskedStored, DueStored, StoredAt, AskedIn,
                    Dispatching
<1>4. Admitting' /\ StagesStored' /\ EpochsClear'
  BY <1>1, <1>2 DEF MarksOK, Admitting, AskedIn, Due, StagesStored, StageStands, StoredAt,
                    EpochsClear, EpochClears
<1>5. CommitsRestorable'
  BY <1>1, <1>2 DEF MarksOK, CommitsRestorable, JobRestores, Restorable, AskedIn, Due
<1> QED BY <1>3, <1>4, <1>5 DEF MarksOK

\* The running task's next step
HeadStep ==
    \/ StartLoading \/ StartActivating \/ Admit \/ ActiveTab \/ Prepared \/ Dispatched
    \/ AcceptLoaded \/ EpochLoaded \/ EpochStored \/ StageStored \/ RolledBack

LEMMA NextIs ==
  ASSUME Next
  PROVE  \/ CallStep \/ QueueStep \/ HeadStep \/ Update
         \/ OpenEnds \/ SettingsEnd \/ CloseEnds \/ RemoveEnds \/ WindowEnds
         \/ Restart
BY DEF Next, CallStep, QueueStep, HeadStep

LEMMA NextMarks == TInv /\ LifeOK /\ MarksOK /\ [Next]_vars => MarksOK'
<1> SUFFICES ASSUME TInv, LifeOK, MarksOK, [Next]_vars PROVE MarksOK'
  OBVIOUS
<1>1. TInv' /\ \A t \in Tab : PanelStored(t)
  BY NextIsTyped DEF MarksOK
<1>2. CASE UNCHANGED vars
  BY <1>2, SameMarks
<1>3. CASE CallStep
  BY <1>1, <1>3, CallsCalm, CalmMarks
<1>4. CASE QueueStep
  BY <1>1, <1>4, QueueCalm, CalmMarks
<1>5. CASE HeadStep
  BY <1>5, StartLoadingMarks, DispatchingMarks, PreparedMarks, AdmitMarks,
     ActiveTabMarks, AcceptLoadedMarks, EpochMarks, StageStoredMarks, RolledBackMarks
     DEF HeadStep
<1>6. CASE OpenEnds \/ SettingsEnd \/ CloseEnds \/ RemoveEnds \/ WindowEnds
  <2>1. Calm /\ UNCHANGED tasks /\ \A t \in Tab : PanelStored(t)'
    BY <1>1, <1>6, EndsCalm
  <2>2. DOMAIN tasks' = DOMAIN tasks
    BY <2>1
  <2> QED BY <1>1, <2>1, <2>2, CalmMarks
<1>7. CASE Update
  BY <1>7, UpdateMarks
<1>8. CASE Restart
  BY <1>8, RestartMarks
<1> QED BY <1>2, <1>3, <1>4, <1>5, <1>6, <1>7, <1>8, NextIs

\* Only the running task asks its tab.
LEMMA OnlyPrepared ==
  ASSUME TInv, LifeOK, MarksOK, Next, NEW t \in Tab, Asks(t)
  PROVE  Prepared
<1>1. /\ tasks # <<>> /\ tasks[1].pc = "prepare" /\ 1 \in DOMAIN tasks
  BY TypesOf, HeadTaskIs DEF Asks, Running
<1>2. TInv' /\ \A u \in Tab : PanelStored(u)
  BY NextIsTyped DEF MarksOK
<1>3. tasks' # <<>> /\ tasks'[1].pc = "dispatch"
  <2>1. tasks' \in Seq(TaskRecord)
    BY <1>2 DEF TInv, QueuesOK, TasksOK
  <2> QED BY <2>1 DEF Asks
<1>4. CASE Calm
  BY <1>1, <1>3, <1>4 DEF Calm, Mirrors
<1>5. CASE CallStep \/ QueueStep
  BY <1>2, <1>4, <1>5, CallsCalm, QueueCalm
<1>6. CASE OpenEnds \/ SettingsEnd \/ CloseEnds \/ RemoveEnds \/ WindowEnds
  BY <1>2, <1>4, <1>6, EndsCalm
<1>7. CASE Update \/ Restart
  BY <1>1, <1>3, <1>7, UpdateDoes, RestartDoes
<1>8. CASE HeadStep
  <2>1. Head(tasks) = tasks[1]
    BY <1>1, TypesOf, HeadTaskIs
  <2> QED BY <1>1, <1>8, <2>1, StartLoadingDoes, StartActivatingDoes, AdmitDoes,
          ActiveTabDoes, DispatchedDoes, AcceptLoadedDoes, EpochLoadedDoes,
          EpochStoredDoes, StageStoredDoes, RolledBackDoes DEF HeadStep
<1> QED BY <1>5, <1>6, <1>7, <1>8, NextIs

\* What a tab is asked now is newer than what it was asked in this epoch.
LEMMA AskedIsNewer ==
  ASSUME TInv, LifeOK, MarksOK, Next, NEW t \in Tab, Asks(t),
         ~mem.pending[t].late, asked[t] # None,
         asked[t].window = mem.pending[t].window
  PROVE  IsNewerRefresh(mem.pending[t].mark, asked[t].mark)
<1>1. /\ tasks # <<>> /\ tasks[1].pc = "prepare" /\ tasks[1].tab = t
  <2>1. tasks # <<>> => Head(tasks) = tasks[1]
    BY TypesOf, HeadTaskIs
  <2> QED BY <2>1 DEF Asks, Running
<1>2. TInv' /\ Prepared
  BY NextIsTyped, OnlyPrepared
<1>3. tasks' # <<>> /\ tasks'[1].pc = "dispatch"
  <2>1. tasks' \in Seq(TaskRecord)
    BY <1>2 DEF TInv, QueuesOK, TasksOK
  <2> QED BY <2>1 DEF Asks
<1>4. tasks' # Tail(tasks)
  BY <1>1, <1>3, PoppedIsQueued
<1>5. IsCurrentRefresh(mem, t)
  BY <1>1, <1>2, <1>4, PreparedDoes
<1>6. mem.pending[t] # None
  BY <1>5 DEF IsCurrentRefresh
<1>7. ~Dispatching(t)
  BY <1>1 DEF Dispatching
<1>8. Rank(mem.pending[t].mark) > Rank(asked[t].mark)
  BY <1>6, <1>7 DEF MarksOK, DueStored, AskedIn
<1>9. mem.pending[t].mark \in Watermark /\ asked[t].mark \in Watermark
  BY <1>6, MarksAreRanked
<1> QED BY <1>8, <1>9, NewerIs

\* In one epoch of its window a tab that stays stored as the window's is never
\* asked twice for a refresh, nor for an older one than before: what is asked was
\* stored first, and neither a rollback, nor storage that fails, nor a restart of
\* the worker stores less.
THEOREM AskedOnlyOnce == Spec => AskedOnce
<1>1. Init => TInv /\ LifeOK /\ MarksOK
  BY InitIsTyped, InitLife, InitMarks
<1>2. TInv /\ LifeOK /\ MarksOK /\ [Next]_vars => TInv' /\ LifeOK' /\ MarksOK'
  BY NextIsTyped, NextLife, NextMarks
<1>3. TInv /\ LifeOK /\ MarksOK /\ [Next]_vars =>
          [\A t \in Tab :
              LET op == mem.pending[t] IN
              /\ Asks(t) /\ ~op.late
              /\ asked[t] # None /\ asked[t].window = op.window
              => IsNewerRefresh(op.mark, asked[t].mark)]_vars
  BY AskedIsNewer
<1> QED BY <1>1, <1>2, <1>3, PTL DEF Spec, AskedOnce
=============================================================================
