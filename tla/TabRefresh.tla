----------------------------- MODULE TabRefresh ------------------------------
(***************************************************************************)
(* Which tabs of a browser take part in Auto Refresh and which refresh     *)
(* each of them is due: TabRefreshCoordinator (tabRefreshCoordinator.ts)   *)
(* and the TabRefreshStateStore it persists to (tabRefreshStateStore.ts),  *)
(* driven by the background router (backgroundRouter.ts).                  *)
(*                                                                         *)
(* The store runs its jobs one after the other, and so does the            *)
(* coordinator its tasks; what is done before the first await of a call    *)
(* happens at once.  Every job takes two steps, its update of the storage  *)
(* and the continuation of the call that waits for it, so that everything  *)
(* else may happen in between.  The storage outlives the worker.           *)
(***************************************************************************)
EXTENDS Integers, FiniteSets, Sequences, FiniteSetsExt

CONSTANTS
    Tab,            \* tab ids
    Window,         \* window ids
    MaxGeneration,  \* bound on refreshGeneration
    MaxRevision,    \* bound on the lifecycle revisions of a tab in use at a time
    MaxJobs,        \* bound on the jobs of the store
    MaxTasks,       \* bound on the tasks of the coordinator
    Faults,         \* what may fail: a subset of AllFaults
    None

\* "storage": a storage access rejects, whether it took effect or not.
\* "crash": the worker restarts.
AllFaults == {"storage", "crash"}

ASSUME TabRefreshAssumption ==
    /\ Tab \subseteq Nat
    /\ MaxGeneration \in Nat /\ MaxRevision \in Nat
    /\ MaxJobs \in Nat \ {0} /\ MaxTasks \in Nat
    /\ Faults \subseteq AllFaults

VARIABLES
    disk,    \* the stored state of every tab, or None
    mem,     \* what the worker remembers
    store,   \* jobs of the store, the running one first
    tasks,   \* tasks of the coordinator, the running one first
    asked    \* observer: the refresh each tab was last asked for in its epoch

vars == <<disk, mem, store, tasks, asked>>

-----------------------------------------------------------------------------
\* Watermarks: the newest refresh a window accepted.

Mode == {"styles", "reload"}
Watermark == [generation : 0..MaxGeneration, mode : Mode]
Refresh == [generation : 1..MaxGeneration, mode : Mode]

Epoch0 == [generation |-> 0, mode |-> "styles"]

IsNewerRefresh(incoming, current) ==
    \/ current = None
    \/ incoming.generation > current.generation
    \/ /\ incoming.generation = current.generation
       /\ incoming.mode = "reload" /\ current.mode = "styles"

\* currentWatermark
Newest(marks, current) ==
    IF \E m \in marks : IsNewerRefresh(m, current)
    THEN CHOOSE m \in marks : \A n \in marks : ~IsNewerRefresh(n, m)
    ELSE current

\* durableWatermarkSnapshot: the stored watermark or the remembered newer one
DurableMark(stored, remembered) ==
    IF stored = None
    THEN IF remembered = None THEN Epoch0 ELSE remembered
    ELSE IF remembered # None /\ IsNewerRefresh(remembered, stored)
         THEN remembered ELSE stored

DurableState == [window : Window, auto : BOOLEAN, mark : Watermark]

StoredIn(w) == {t \in Tab : disk[t] # None /\ disk[t].window = w}

-----------------------------------------------------------------------------
\* The worker's memory.

\* late is an observer: the window's epoch ended before the tab was to be asked.
Operation == [ window : Window, revision : 0..MaxRevision, mark : Refresh,
               phase : {"pending", "dispatching"}, late : BOOLEAN ]

Memory == [ mark : [Window -> Watermark \cup {None}],
            panel : [Tab -> Window \cup {None}],
            participant : [Tab -> Window \cup {None}],
            revision : [Tab -> 0..MaxRevision],
            pending : [Tab -> Operation \cup {None}],
            terminal : SUBSET Tab,
            removing : SUBSET Window ]

Forgotten ==
    [ mark |-> [w \in Window |-> None],
      panel |-> [t \in Tab |-> None],
      participant |-> [t \in Tab |-> None],
      revision |-> [t \in Tab |-> 0],
      pending |-> [t \in Tab |-> None],
      terminal |-> {},
      removing |-> {} ]

\* isCurrentPanelLifecycle
IsCurrentPanel(m, t, w, r) ==
    /\ m.revision[t] = r
    /\ m.panel[t] = w
    /\ t \notin m.terminal
    /\ w \notin m.removing

\* isCurrentRefreshOperation, of the tab's refresh
IsCurrentRefresh(m, t) ==
    /\ m.pending[t] # None
    /\ IsCurrentPanel(m, t, m.pending[t].window, m.pending[t].revision)
    /\ m.participant[t] = m.pending[t].window

\* completeTabRefresh: the operation is over, whether it was carried out or not.
Cancel(m, t) == [m EXCEPT !.pending[t] = None]

CancelIn(m, w) ==
    [m EXCEPT !.pending = [t \in Tab |->
        IF @[t] # None /\ @[t].window = w THEN None ELSE @[t]]]

\* The revisions of the tab that something still refers to.  They are only
\* compared, with those of the same tab, and the counter never returns to one it
\* gave before: any other will do.
InUse(t) ==
    {mem.revision[t]}
        \cup {store[i].revision : i \in {i \in DOMAIN store : store[i].tab = t}}
        \cup {f.revision : f \in {f \in UNION {store[i].fenced : i \in DOMAIN store}
                                    : f.tab = t}}
        \cup {s.revision : s \in {s \in UNION {tasks[i].staged : i \in DOMAIN tasks}
                                    : s.tab = t}}

Fresh(t) == (1..MaxRevision) \ InUse(t)

NewRevision(t) == CHOOSE r \in Fresh(t) : TRUE

\* advanceLifecycle
Advance(m, t) == [m EXCEPT !.revision[t] = NewRevision(t)]

\* Mutant of Leave: the tabs' refreshes stay.
Leave_KeepPending(m, gone) ==
    [m EXCEPT
        !.revision = [t \in Tab |-> IF t \in gone THEN NewRevision(t) ELSE @[t]],
        !.panel = [t \in Tab |-> IF t \in gone THEN None ELSE @[t]],
        !.participant = [t \in Tab |-> IF t \in gone THEN None ELSE @[t]]]

\* Panels go: the refreshes of their tabs are cancelled and they take part no
\* more.
Leave(m, gone) ==
    [m EXCEPT
        !.revision = [t \in Tab |-> IF t \in gone THEN NewRevision(t) ELSE @[t]],
        !.pending = [t \in Tab |-> IF t \in gone THEN None ELSE @[t]],
        !.panel = [t \in Tab |-> IF t \in gone THEN None ELSE @[t]],
        !.participant = [t \in Tab |-> IF t \in gone THEN None ELSE @[t]]]

\* retireLifecycle
Retire(m, t, r) == IF m.revision[t] = r THEN [m EXCEPT !.revision[t] = 0] ELSE m

-----------------------------------------------------------------------------
\* Jobs and tasks.

Job(kind, t, w, r, auto) ==
    [ kind |-> kind, tab |-> t, window |-> w, revision |-> r, auto |-> auto,
      phase |-> "queued", found |-> None, fenced |-> {} ]

Task(kind, w, t, mark) ==
    [ kind |-> kind, window |-> w, tab |-> t, mark |-> mark, current |-> TRUE,
      late |-> FALSE, pc |-> "queued", previous |-> None, active |-> None,
      todo |-> {}, staged |-> {}, commits |-> <<>>, restored |-> TRUE ]

Asking == [window : Window, mark : Refresh]
StoredState == DurableState \cup {None}

JobRecord ==
    [ kind : {"init", "open", "settings", "close", "remove", "window",
              "load", "epoch", "stage", "rollback"},
      tab : Tab \cup {None}, window : Window \cup {None},
      revision : 0..MaxRevision, auto : BOOLEAN,
      phase : {"queued", "done", "failed"},
      found : [before : StoredState, after : StoredState] \cup {None},
      fenced : SUBSET [tab : Tab, revision : 1..MaxRevision] ]

TaskRecord ==
    [ kind : {"accept", "epoch", "activate"},
      window : Window, tab : Tab \cup {None}, mark : Watermark,
      current : BOOLEAN, late : BOOLEAN,
      pc : {"queued", "load", "admit", "active", "stage", "rollback", "epoch",
            "prepare", "dispatch"},
      previous : Watermark \cup {None}, active : Tab \cup {None},
      todo : SUBSET Tab,
      staged : SUBSET [tab : Tab, revision : 0..MaxRevision, auto : BOOLEAN],
      commits : Seq([tab : Tab, before : StoredState, after : StoredState]),
      restored : BOOLEAN ]

ASSUME NoneAssumption ==
    None \notin Tab \cup Window \cup Watermark \cup DurableState
               \cup Operation \cup Asking

TypeOK ==
    /\ disk \in [Tab -> StoredState]
    /\ mem \in Memory
    /\ store \in Seq(JobRecord) /\ Len(store) <= MaxJobs + 1
    /\ tasks \in Seq(TaskRecord) /\ Len(tasks) <= MaxTasks
    /\ asked \in [Tab -> Asking \cup {None}]

\* ensureInitialized: everything waits for the first load.
Init ==
    /\ disk = [t \in Tab |-> None]
    /\ mem = Forgotten
    /\ store = <<Job("init", None, None, 0, FALSE)>>
    /\ tasks = <<>>
    /\ asked = [t \in Tab |-> None]

\* A call's first part, which ends by giving the store a job.
Call(m, job) ==
    /\ Len(store) < MaxJobs
    /\ mem' = m
    /\ store' = Append(store, job)
    /\ UNCHANGED <<disk, tasks, asked>>

CanAdvance(t) == Fresh(t) # {}

\* panelOpened
PanelOpened(t, w) ==
    /\ CanAdvance(t)
    /\ t \notin mem.terminal /\ w \notin mem.removing
    /\ LET moves == mem.panel[t] # w
           m == Advance([Cancel(mem, t) EXCEPT
                   !.panel[t] = w,
                   !.participant[t] = IF moves THEN None ELSE @], t)
       IN  Call(m, Job("open", t, w, m.revision[t], FALSE))

\* panelClosed, and detachTab of the window that has the tab's panel
PanelClosed(t) ==
    /\ CanAdvance(t)
    /\ mem.panel[t] # None
    /\ LET m == Leave(mem, {t})
       IN  Call(m, Job("close", t, mem.panel[t], m.revision[t], FALSE))

\* A call that turns Auto Refresh off takes the tab out before it is stored.
Disabled(m, t, w) ==
    LET c == Cancel(m, t)
    IN  IF c.participant[t] = w THEN [c EXCEPT !.participant[t] = None] ELSE c

\* updateSettings, of a panel that is open or not yet
UpdateSettings(t, w, auto) ==
    /\ mem.panel[t] \in {w, None} /\ t \notin mem.terminal
    /\ Call(IF auto THEN mem ELSE Disabled(mem, t, w),
            Job("settings", t, w, mem.revision[t], auto))

\* removeTab
RemoveTab(t) ==
    /\ CanAdvance(t)
    /\ t \notin mem.terminal
    /\ LET m == Leave([mem EXCEPT !.terminal = @ \cup {t}], {t})
       IN  Call(m, Job("remove", t, None, m.revision[t], FALSE))

\* beginWindowRefreshEpoch of the router: what was received before is not
\* admitted any more.
Outdated(w) ==
    [i \in DOMAIN tasks |->
        IF tasks[i].window = w /\ tasks[i].kind = "accept"
        THEN [tasks[i] EXCEPT !.current = FALSE]
        ELSE tasks[i]]

\* removeWindow, when the window closes or is unlinked
RemoveWindow(w) ==
    LET inside == {t \in Tab : mem.panel[t] = w}
        m == Leave(mem, inside)
    IN  /\ w \notin mem.removing
        /\ \A t \in inside : CanAdvance(t)
        /\ Len(store) < MaxJobs
        /\ mem' = [m EXCEPT !.removing = @ \cup {w}]
        /\ store' = Append(store,
               [Job("window", None, w, 0, FALSE) EXCEPT
                   !.fenced = {[tab |-> t, revision |-> m.revision[t]]
                                 : t \in inside}])
        /\ tasks' = Outdated(w)
        /\ UNCHANGED <<disk, asked>>

-----------------------------------------------------------------------------
\* The coordinator's tasks.

Queue(m, task) ==
    /\ Len(tasks) < MaxTasks
    /\ mem' = m
    /\ tasks' = Append(tasks, task)
    /\ UNCHANGED <<disk, store, asked>>

\* acceptPageRefresh.  One that no longer fits its router's epoch is refused
\* at once.
AcceptPageRefresh(w, mark) == Queue(mem, Task("accept", w, None, mark))

\* beginWindowEpoch: an IDE connects
BeginWindowEpoch(w) ==
    /\ Len(tasks) < MaxTasks
    /\ mem' = CancelIn(mem, w)
    /\ tasks' = Append([i \in DOMAIN tasks |->
                          [tasks[i] EXCEPT !.late = @ \/ tasks[i].window = w]],
                      Task("epoch", w, None, Epoch0))
    /\ UNCHANGED <<disk, store, asked>>

\* clearWindowPending: the peer became incompatible
ClearWindowPending(w) ==
    /\ mem' = CancelIn(mem, w)
    /\ mem' # mem
    /\ UNCHANGED <<disk, store, tasks, asked>>

\* activateTab
ActivateTab(t, w) == Queue(mem, Task("activate", w, t, Epoch0))

Running(pc) == tasks # <<>> /\ Head(tasks).pc = pc
Pop == tasks' = Tail(tasks)
Continue(task) == tasks' = [tasks EXCEPT ![1] = task]

\* dispatch up to the cleanup that precedes the refresh
Dispatch(m, t, task) ==
    IF IsCurrentRefresh(m, t)
    THEN /\ mem' = [m EXCEPT !.pending[t].phase = "dispatching"]
         /\ Continue([Task(task.kind, task.window, t, task.mark)
                         EXCEPT !.pc = "prepare"])
    ELSE /\ mem' = Cancel(m, t)
         /\ Pop

StartLoading ==
    /\ Running("queued") /\ Head(tasks).kind \in {"accept", "epoch"}
    /\ Continue([Head(tasks) EXCEPT !.pc = "load"])
    /\ store' = Append(store, Job("load", None, None, 0, FALSE))
    /\ LET w == Head(tasks).window IN
           IF Head(tasks).kind = "epoch"
           THEN /\ mem' = [mem EXCEPT !.mark[w] = Epoch0]
                /\ asked' = [t \in Tab |->
                       IF asked[t] # None /\ asked[t].window = w
                       THEN None ELSE asked[t]]
           ELSE UNCHANGED <<mem, asked>>
    /\ UNCHANGED disk

StartActivating ==
    /\ Running("queued") /\ Head(tasks).kind = "activate"
    /\ LET t == Head(tasks).tab
           w == Head(tasks).window
           here == mem.panel[t] = w /\ mem.participant[t] = w
           waits == mem.pending[t] # None /\ mem.pending[t].phase = "pending"
       IN  \/ ~here /\ mem' = Cancel(mem, t) /\ Pop
           \/ here /\ ~waits /\ Pop /\ UNCHANGED mem
           \/ here /\ waits /\ Dispatch(mem, t, Head(tasks))
    /\ UNCHANGED <<disk, store, asked>>

\* The router answers onAccepted: it admits what fits its epoch, unless it
\* cannot find out which tabs take part.
Admit ==
    /\ Running("admit")
    /\ LET task == Head(tasks)
           w == task.window
       IN  \/ /\ ~task.current \/ "storage" \in Faults
              /\ Pop /\ UNCHANGED mem
           \/ /\ task.current
              /\ mem' = [mem EXCEPT !.mark[w] = task.mark]
              /\ Continue([task EXCEPT !.previous = mem.mark[w],
                                       !.pc = "active"])
    /\ UNCHANGED <<disk, store, asked>>

\* The tabs' operations, once every stage is stored: a tab that still takes
\* part gets the refresh as its pending one, any other loses what it had.
StagedOperation(m, task, s) ==
    IF /\ s.auto
       /\ IsCurrentPanel(m, s.tab, task.window, s.revision)
       /\ m.participant[s.tab] = task.window
    THEN [window |-> task.window, revision |-> s.revision, mark |-> task.mark,
          phase |-> "pending", late |-> task.late]
    ELSE None

StagedOperations(m, task) ==
    [m EXCEPT !.pending = [t \in Tab |->
        IF \E s \in task.staged : s.tab = t
        THEN StagedOperation(m, task, CHOOSE s \in task.staged : s.tab = t)
        ELSE @[t]]]

\* The next tab is staged, or the tab that is active is refreshed.
Stage(task, jobs) ==
    IF task.todo # {}
    THEN LET t == Min(task.todo) IN
         /\ Continue([task EXCEPT !.pc = "stage", !.todo = @ \ {t}])
         /\ store' = Append(jobs,
                Job("stage", t, task.window, mem.revision[t], FALSE))
         /\ UNCHANGED mem
    ELSE LET m == StagedOperations(mem, task)
             active == task.active
         IN  /\ store' = jobs
             /\ IF active # None /\ m.pending[active] # None
                   /\ \E s \in task.staged : s.tab = active
                THEN Dispatch(m, active, task)
                ELSE mem' = m /\ Pop

\* getActiveTabId answers, or fails
ActiveTab ==
    /\ Running("active")
    /\ \E t \in Tab \cup {None} :
           Stage([Head(tasks) EXCEPT !.active = t], store)
    /\ UNCHANGED <<disk, asked>>

\* The cleanup has ended: the tab's content script is asked to refresh, unless
\* the refresh was cancelled meanwhile or its tab takes part no more.
Prepared ==
    /\ Running("prepare")
    /\ LET t == Head(tasks).tab
           op == mem.pending[t]
       IN  IF IsCurrentRefresh(mem, t)
           THEN /\ Continue([Head(tasks) EXCEPT !.pc = "dispatch"])
                /\ asked' = IF op.late THEN asked
                            ELSE [asked EXCEPT ![t] =
                                    [window |-> op.window, mark |-> op.mark]]
                /\ UNCHANGED mem
           ELSE mem' = Cancel(mem, t) /\ Pop /\ UNCHANGED asked
    /\ UNCHANGED <<disk, store>>

\* Mutant of Dispatched: what was carried out stays pending.
Dispatched_Again ==
    /\ Running("dispatch")
    /\ LET t == Head(tasks).tab IN
           mem' = IF mem.pending[t] # None
                  THEN [mem EXCEPT !.pending[t].phase = "pending"] ELSE mem
    /\ Pop
    /\ UNCHANGED <<disk, store, asked>>

\* The content script answers, or cannot be reached: the operation is complete.
Dispatched ==
    /\ Running("dispatch")
    /\ mem' = Cancel(mem, Head(tasks).tab)
    /\ Pop
    /\ UNCHANGED <<disk, store, asked>>

-----------------------------------------------------------------------------
\* The store's jobs.  One whose update depends on the worker's memory takes two
\* steps: the update, and the rest of the call that waits for it.

TwoSteps == {"open", "settings", "stage"}

\* Mutant of IsOn: a panel that opens always takes part.
IsOn_Always(state) == TRUE

IsOn(state) == state = None \/ state.auto

\* The job stages a refresh for a tab that is still the window's and in the
\* lifecycle it was found in.
Stages(job) ==
    /\ job.kind = "stage"
    /\ job.tab \in StoredIn(job.window)
    /\ mem.revision[job.tab] = job.revision

\* What the running job stores for its tab.
Updated(job) ==
    LET t == job.tab
        w == job.window
        old == disk[t]
        here == IF t \in StoredIn(w) THEN old.mark ELSE None
    IN  CASE job.kind = "open" /\ IsCurrentPanel(mem, t, w, job.revision) ->
               [ window |-> w, auto |-> old = None \/ old.auto,
                 mark |-> DurableMark(here, mem.mark[w]) ]
          [] job.kind = "settings" /\ mem.revision[t] = job.revision ->
               [ window |-> w, auto |-> job.auto,
                 mark |-> DurableMark(here, mem.mark[w]) ]
          [] Stages(job) -> [old EXCEPT !.mark = Head(tasks).mark]
          [] OTHER -> old

\* A storage access that rejects may have taken effect.
Outcome == {[ok |-> TRUE, effect |-> TRUE]}
           \cup IF "storage" \in Faults
                THEN {[ok |-> FALSE, effect |-> e] : e \in BOOLEAN} ELSE {}

\* found: what the job stores, and what a stage replaces (None if it does not).
Update ==
    /\ store # <<>>
    /\ Head(store).kind \in TwoSteps /\ Head(store).phase = "queued"
    /\ \E o \in Outcome :
           LET job == Head(store)
               after == Updated(job)
           IN  /\ disk' = IF o.effect THEN [disk EXCEPT ![job.tab] = after]
                          ELSE disk
               /\ store' = [store EXCEPT ![1] = [job EXCEPT
                      !.phase = IF o.ok THEN "done" ELSE "failed",
                      !.found = [before |-> IF Stages(job) THEN disk[job.tab]
                                            ELSE None,
                                 after |-> after]]]
    /\ asked' = [t \in Tab |->
           IF disk'[t] # None /\ asked[t] # None
              /\ disk'[t].window # asked[t].window
           THEN None ELSE asked[t]]
    /\ UNCHANGED <<mem, tasks>>

\* The running job ends with outcome o.
Ends(kind, o) ==
    /\ store # <<>>
    /\ Head(store).kind = kind
    /\ IF kind \in TwoSteps
       THEN Head(store).phase = (IF o.ok THEN "done" ELSE "failed") /\ o.effect
       ELSE o \in Outcome

Outcomes == [ok : BOOLEAN, effect : BOOLEAN]

Rest == Tail(store)

\* The store's part of a call that ends; the memory becomes m.
CallEnds(m) ==
    /\ mem' = m
    /\ store' = Rest
    /\ UNCHANGED <<tasks, asked>>

Ousted(m, t, w) ==
    [m EXCEPT !.participant[t] = IF @ = w THEN None ELSE @]

\* The first load of a worker does not fail.
Initialized ==
    /\ Ends("init", [ok |-> TRUE, effect |-> TRUE])
    /\ CallEnds([mem EXCEPT !.mark = [w \in Window |->
           Newest({disk[t].mark : t \in StoredIn(w)}, @[w])]])
    /\ UNCHANGED disk

\* The rest of panelOpened: the tab takes part unless it is stored as off.  One
\* that fails takes its panel back.
OpenEnds ==
    /\ UNCHANGED disk
    /\ \E o \in Outcomes :
           /\ Ends("open", o)
           /\ LET job == Head(store)
                  t == job.tab
                  w == job.window
                  r == job.revision
                  mine == IsCurrentPanel(mem, t, w, r)
                  auto == IsOn(job.found.after)
              IN  \/ /\ o.ok /\ mine /\ auto
                     /\ CallEnds([mem EXCEPT !.participant[t] = w])
                  \/ /\ o.ok /\ mine /\ ~auto
                     /\ CallEnds(Ousted(mem, t, w))
                  \/ /\ o.ok /\ ~mine
                     /\ CallEnds(mem)
                  \/ /\ ~o.ok /\ mem.revision[t] = r
                     /\ LET m == Ousted(Cancel(mem, t), t, w) IN
                        CallEnds(Retire([m EXCEPT
                            !.panel[t] = IF @ = w THEN None ELSE @], t, r))
                  \/ /\ ~o.ok /\ mem.revision[t] # r
                     /\ CallEnds(mem)

\* The rest of updateSettings
SettingsEnd ==
    /\ UNCHANGED disk
    /\ \E o \in Outcomes :
           /\ Ends("settings", o)
           /\ LET job == Head(store)
                  t == job.tab
                  w == job.window
                  mine == IsCurrentPanel(mem, t, w, job.revision)
              IN  \/ /\ mine /\ ~job.auto
                     /\ CallEnds(Ousted(mem, t, w))
                  \/ /\ mine /\ job.auto /\ o.ok
                     /\ CallEnds([mem EXCEPT !.participant[t] = w])
                  \/ /\ ~mine \/ (job.auto /\ ~o.ok)
                     /\ CallEnds(mem)

\* The rest of panelClosed and detachTab
CloseEnds ==
    /\ \E o \in Outcomes : Ends("close", o)
    /\ CallEnds(Retire(mem, Head(store).tab, Head(store).revision))
    /\ UNCHANGED disk

\* The rest of removeTab
RemoveEnds ==
    /\ \E o \in Outcomes :
           /\ Ends("remove", o)
           /\ disk' = IF o.effect THEN [disk EXCEPT ![Head(store).tab] = None]
                      ELSE disk
    /\ CallEnds(Retire(mem, Head(store).tab, Head(store).revision))

\* The rest of removeWindow
WindowEnds ==
    /\ \E o \in Outcomes : Ends("window", o)
    /\ LET job == Head(store)
           m == [mem EXCEPT !.mark[job.window] = None,
                            !.removing = @ \ {job.window}]
       IN  CallEnds([m EXCEPT !.revision = [t \in Tab |->
               IF [tab |-> t, revision |-> @[t]] \in job.fenced
               THEN 0 ELSE @[t]]])
    /\ UNCHANGED disk

\* acceptPageRefresh knows the states of all tabs: the refresh is new or not.
AcceptLoaded ==
    /\ tasks # <<>> /\ Head(tasks).kind = "accept"
    /\ \E o \in Outcomes :
           /\ Ends("load", o)
           /\ LET task == Head(tasks)
                  inside == StoredIn(task.window)
                  known == Newest({disk[t].mark : t \in inside},
                                  mem.mark[task.window])
              IN  IF o.ok /\ IsNewerRefresh(task.mark, known)
                  THEN Continue([task EXCEPT !.pc = "admit", !.todo = inside])
                  ELSE Pop
    /\ store' = Rest
    /\ UNCHANGED <<disk, mem, asked>>

\* beginWindowEpoch resets one tab of the window after the other.
NextReset(task) ==
    IF task.todo = {}
    THEN Pop /\ store' = Rest
    ELSE /\ Continue([task EXCEPT !.pc = "epoch", !.todo = @ \ {Min(@)}])
         /\ store' = Append(Rest,
                Job("epoch", Min(task.todo), task.window, 0, FALSE))

EpochLoaded ==
    /\ tasks # <<>> /\ Head(tasks).kind = "epoch"
    /\ \E o \in Outcomes :
           /\ Ends("load", o)
           /\ NextReset([Head(tasks) EXCEPT
                  !.todo = IF o.ok THEN StoredIn(Head(tasks).window) ELSE {}])
    /\ UNCHANGED <<disk, mem, asked>>

EpochStored ==
    /\ \E o \in Outcomes :
           /\ Ends("epoch", o)
           /\ LET t == Head(store).tab IN
              disk' = IF o.effect /\ t \in StoredIn(Head(store).window)
                      THEN [disk EXCEPT ![t].mark = Epoch0] ELSE disk
           /\ NextReset(IF o.ok THEN Head(tasks)
                        ELSE [Head(tasks) EXCEPT !.todo = {}])
    /\ UNCHANGED <<mem, asked>>

\* rollbackRefreshAdmission: the commits are undone, the last one first; then
\* the window's watermark is what it was, if every commit was undone.
Rollback(task) ==
    IF task.commits # <<>>
    THEN LET c == Head(task.commits) IN
         /\ Continue([task EXCEPT !.pc = "rollback", !.commits = Tail(@)])
         /\ store' = Append(Rest,
                [Job("rollback", c.tab, task.window, 0, FALSE) EXCEPT
                    !.found = [before |-> c.before, after |-> c.after]])
         /\ UNCHANGED mem
    ELSE /\ Pop
         /\ store' = Rest
         /\ mem' = IF task.restored /\ mem.mark[task.window] = task.mark
                   THEN [mem EXCEPT !.mark[task.window] = task.previous]
                   ELSE mem

\* A tab's stage is stored, or its storage failed.
StageStored ==
    /\ \E o \in Outcomes :
           /\ Ends("stage", o)
           /\ LET job == Head(store)
                  now == job.found.after
                  commit == [tab |-> job.tab, before |-> job.found.before,
                             after |-> now]
                  task == IF job.found.before = None THEN Head(tasks)
                          ELSE [Head(tasks) EXCEPT
                                   !.commits = <<commit>> \o @]
              IN  IF o.ok
                  THEN Stage([task EXCEPT !.staged = @ \cup
                          {[tab |-> job.tab, revision |-> job.revision,
                            auto |-> now # None /\ now.auto]}], Rest)
                  ELSE Rollback(task)
    /\ UNCHANGED <<disk, asked>>

RolledBack ==
    /\ \E o \in Outcomes :
           /\ Ends("rollback", o)
           /\ LET t == Head(store).tab
                  c == Head(store).found
              IN  /\ disk' = IF o.effect /\ disk[t] = c.after
                             THEN [disk EXCEPT ![t] = c.before] ELSE disk
                  /\ Rollback([Head(tasks) EXCEPT
                         !.restored = @ /\ o.ok
                                        /\ disk[t] \in {c.before, c.after}])
    /\ UNCHANGED asked

-----------------------------------------------------------------------------
\* The worker ends and starts again.  A closed tab stays closed: browsers do
\* not use its id again.
Restart ==
    /\ "crash" \in Faults
    /\ mem' = [Forgotten EXCEPT !.terminal = mem.terminal]
    /\ store' = <<Job("init", None, None, 0, FALSE)>>
    /\ tasks' = <<>>
    /\ UNCHANGED <<disk, asked>>

Next ==
    \/ \E t \in Tab, w \in Window :
           \/ PanelOpened(t, w)
           \/ ActivateTab(t, w)
           \/ \E auto \in BOOLEAN : UpdateSettings(t, w, auto)
    \/ \E t \in Tab : PanelClosed(t) \/ RemoveTab(t)
    \/ \E w \in Window :
           \/ RemoveWindow(w) \/ BeginWindowEpoch(w) \/ ClearWindowPending(w)
           \/ \E mark \in Refresh : AcceptPageRefresh(w, mark)
    \/ StartLoading \/ StartActivating \/ Admit \/ ActiveTab
    \/ Prepared \/ Dispatched
    \/ Update \/ Initialized \/ OpenEnds \/ SettingsEnd
    \/ CloseEnds \/ RemoveEnds \/ WindowEnds
    \/ AcceptLoaded \/ EpochLoaded \/ EpochStored \/ StageStored \/ RolledBack
    \/ Restart

Spec == Init /\ [][Next]_vars

-----------------------------------------------------------------------------
\* Every refresh a tab still has to make belongs to the panel that is open on
\* it now, in that panel's window and lifecycle; a tab takes part for the window
\* of its panel.
PendingIsOwned ==
    /\ TypeOK
    /\ \A t \in Tab :
           /\ mem.participant[t] # None => mem.panel[t] = mem.participant[t]
           /\ LET op == mem.pending[t] IN
              op # None => IsCurrentPanel(mem, t, op.window, op.revision)

\* A tab with Auto Refresh off takes no part, whatever the order in which its
\* panel opened, moved and changed its settings, once their calls have ended.
DisabledStaysOut ==
    \A t \in Tab :
        /\ mem.participant[t] # None
        /\ \A i \in DOMAIN store :
               store[i].tab = t => store[i].kind \notin {"open", "settings"}
        => /\ disk[t] # None
           /\ disk[t].auto

\* In one epoch of its window a tab that is stored as the window's is never
\* asked twice for a refresh, nor for an older one than before, restarts and
\* failed storage included.
Asks(t) ==
    /\ Running("prepare") /\ Head(tasks).tab = t
    /\ tasks' # <<>> /\ Head(tasks').pc = "dispatch"

AskedOnce ==
    [][\A t \in Tab :
        LET op == mem.pending[t] IN
        /\ Asks(t) /\ ~op.late
        /\ asked[t] # None /\ asked[t].window = op.window
        => IsNewerRefresh(op.mark, asked[t].mark)]_vars

\* No tab is left with a refresh of an earlier epoch of its window, one newer
\* than any the window accepted since: beginWindowEpoch clears what is pending.
PendingIsCurrent ==
    tasks = <<>> =>
        \A t \in Tab :
            LET op == mem.pending[t] IN
            op # None => ~IsNewerRefresh(op.mark, mem.mark[op.window])
=============================================================================
