------------------------------- MODULE DomTree -------------------------------
(***************************************************************************)
(* The lazy DOM tree of the panel.  DomTreeProvider, in the inspected      *)
(* page, hands out references and bounded pages of children, and           *)
(* invalidates the branches that mutations of the document change.         *)
(* DomTreeController, in the panel, loads the branches that are expanded,  *)
(* loads them again when they are invalidated, and keeps for a while the   *)
(* subtrees a page no longer names, since another page may name them.      *)
(* The port between the two keeps the order of each direction.             *)
(*                                                                         *)
(* One document of elements, whose root stays; siblings are in the order   *)
(* of their numbers.  <<n, k>> is the k-th reference that was given to n.  *)
(***************************************************************************)
EXTENDS Integers, Sequences, FiniteSets, FiniteSetsExt, SequencesExt,
        Functions, Folds

CONSTANTS
    N,              \* the number of elements below the root
    Start,          \* the documents to start from
    PageSize,       \* CHILD_PAGE_SIZE
    MaxMutations,   \* bound on the changes of the document
    MaxRequests,    \* bound on the requests the user adds to
    MaxHeld,        \* DOM_TREE_MAX_QUARANTINED_ROOTS
    MaxFaults,      \* bound on the requests that time out, and on overflows
    None

Root == 0
Node == 1..N
Elem == {Root} \cup Node

ASSUME DomTreeAssumption ==
    /\ N \in Nat /\ PageSize \in Nat \ {0}
    /\ MaxMutations \in Nat /\ MaxRequests \in Nat /\ MaxHeld \in Nat \ {0}
    /\ Start \subseteq [Node -> Elem \cup {None}]
    /\ MaxFaults \in Nat
    /\ None \notin Nat
    /\ None \notin [after : Node \cup {None}, owned : BOOLEAN]

MaxLife == MaxMutations + 1
Ref == Elem \X (1..MaxLife)
Revision == 1..(MaxMutations + 1)
RootRef == <<Root, 1>>

VARIABLES
    up,        \* the document: the parent of each node, None when detached
    changes,   \* how often it changed
    faults,    \* how often a request timed out or there were too many mutations
    records,   \* the mutations that are not yet processed
    page,      \* the provider
    toPage,    \* requests
    toPanel,   \* responses and events
    panel      \* the controller

vars == <<up, changes, faults, records, page, toPage, toPanel, panel>>

Record == [target : Elem, node : Node, added : BOOLEAN]

\* A row and its branch; a row that cannot be expanded has no branch.
Row == [ exp : BOOLEAN,                \* the view's expandable
         parent : Ref \cup {None},     \* parentRef
         kids : SUBSET Ref,            \* children
         at : Revision,                \* the branch's revision, or the view's
         loaded : BOOLEAN,
         more : Node \cup {None},      \* nextCursor: the node to go on after
         pending : [after : Node \cup {None}, owned : BOOLEAN] \cup {None} ]

TypeOK ==
    /\ up \in [Node -> Elem \cup {None}]
    /\ changes \in 0..MaxMutations
    /\ faults \in 0..MaxFaults
    /\ records \subseteq Record
    /\ page \in [ last : [Elem -> 0..MaxLife],       \* refsByNode
                  live : SUBSET Elem,                \* in DomNodeRegistry
                  known : SUBSET Elem,               \* records
                  parent : [Elem -> Ref \cup {None}],
                  open : SUBSET Elem,                \* expandedBranches
                  gen : [Elem -> {0} \cup Revision] ]  \* branchGenerations
    /\ \A k \in DOMAIN toPage : toPage[k].kind \in {"root", "children"}
    /\ \A k \in DOMAIN toPanel :
           toPanel[k].kind \in {"root", "children", "error", "invalidated"}
    /\ DOMAIN panel.rows \subseteq Ref
    /\ \A r \in DOMAIN panel.rows : panel.rows[r] \in Row
    /\ panel.rootRev \in Revision
    /\ panel.asking \in BOOLEAN
    /\ panel.required \in {0} \cup Revision
    /\ panel.waiters \in 0..MaxMutations
    /\ panel.expanded \subseteq DOMAIN panel.rows
    /\ Len(panel.held) <= MaxHeld
    /\ panel.cut = {} /\ panel.out = <<>>

-----------------------------------------------------------------------------
\* The document.

Kids(e) == {n \in Node : up[n] = e}

\* The element and those above it
Path(e) ==
    LET Above(s) == s \cup ({up[n] : n \in s \cap Node} \ {None})
        Up[k \in 0..N] == IF k = 0 THEN {e} ELSE Above(Up[k - 1])
    IN  Up[N]

Connected(e) == Root \in Path(e)
Subtree(e) == {d \in Elem : e \in Path(d)}

\* A node is removed, inserted or moved, and the observer records it.
Mutate ==
    /\ changes < MaxMutations
    /\ \E n \in Node, p \in Elem \cup {None} :
           /\ p # up[n]
           /\ up[n] # None => Connected(n)
           /\ p # None => Connected(p) /\ p \notin Subtree(n)
           /\ up' = [up EXCEPT ![n] = p]
           /\ records' = records
                  \cup (IF up[n] = None THEN {}
                        ELSE {[target |-> up[n], node |-> n, added |-> FALSE]})
                  \cup (IF p = None THEN {}
                        ELSE {[target |-> p, node |-> n, added |-> TRUE]})
    /\ changes' = changes + 1
    /\ UNCHANGED <<faults, page, toPage, toPanel, panel>>

-----------------------------------------------------------------------------
\* The provider.

RefOf(v, e) == <<e, v.last[e]>>
IsOpen(v, r) == r # None /\ r[1] \in v.open /\ r = RefOf(v, r[1])

\* branchRevisionFor
RevisionOf(v, e) == IF v.gen[e] = 0 THEN 1 ELSE v.gen[e]

\* referenceNode, and the record that viewElement stores
Referenced(v, e, parent) ==
    LET r == IF e \in v.live THEN v
             ELSE [v EXCEPT !.live = @ \cup {e}, !.last[e] = @ + 1,
                            !.gen[e] = 0]
    IN  [r EXCEPT !.known = @ \cup {e}, !.parent[e] = parent]

View(v, e) == [ref |-> RefOf(v, e), rev |-> RevisionOf(v, e),
               exp |-> Kids(e) # {}]

\* replaceMovedNodePath: the path down to a moved node is recorded anew.
PathRecorded(v, n) ==
    FoldLeft(LAMBDA w, e :
                 Referenced(w, e, IF e = Root THEN None ELSE RefOf(w, up[e])),
             v, SetToSortSeq(Path(n), LAMBDA a, b : a \in Path(b) \ {b}))

\* invalidateBranches: those of the branches that are open, and the forced
InvalidateBranches(v, affected, forced) ==
    LET all == {r \in affected : IsOpen(v, r)} \cup forced
    IN  [ page |-> [v EXCEPT !.gen = [e \in Elem |->
                        IF RefOf(v, e) \in all THEN RevisionOf(v, e) + 1
                        ELSE @[e]]],
          branches |-> {[ref |-> r, rev |-> RevisionOf(v, r[1]) + 1] : r \in all} ]

\* Mutant of Affected: the owner, which shows whether t has children, is not
\* told.
Affected_OwnBranch(v, t) == {r \in {RefOf(v, t)} : IsOpen(v, r)}

\* The branches a change of t's children is seen in: its own and its owner's
Affected(v, t) == {r \in {RefOf(v, t), v.parent[t]} : IsOpen(v, r)}

\* A branch nobody opened is invalidated too when its row may be on display.
Forced(v, t) ==
    /\ v.last[t] # 0 /\ t \notin v.open
    /\ v.parent[t] = None \/ IsOpen(v, v.parent[t])

\* processPendingMutationRecords
Process(v) ==
    LET targets == {m.target : m \in records}
        removed == {m.node : m \in {x \in records : ~x.added}}
        moved == {n \in removed : n \in v.known /\ Connected(n)}
        w == FoldSet(LAMBDA n, x : PathRecorded(x, n), v, moved)
        gone == (UNION {Subtree(n) : n \in removed \ moved}) \cap w.live
    IN  InvalidateBranches(
            [w EXCEPT !.live = @ \ gone, !.known = @ \ gone, !.open = @ \ gone,
                !.parent = [e \in Elem |-> IF e \in gone THEN None ELSE @[e]],
                !.gen = [e \in Elem |-> IF e \in gone THEN 0 ELSE @[e]]],
            (UNION {Affected(v, t) : t \in targets})
                \cup {RefOf(w, up[n]) : n \in moved},
            {RefOf(v, t) : t \in {x \in targets : Forced(v, x)}})

\* recoverMutationOverflow: every open branch is invalidated, and every record
\* and generation forgotten except the root's.
Recover(v) ==
    LET all == InvalidateBranches(v, {RefOf(v, e) : e \in Elem}, {RootRef})
    IN  [all EXCEPT !.page =
            [@ EXCEPT !.open = {}, !.known = {},
                      !.parent = [e \in Elem |-> None],
                      !.gen = [e \in Elem |-> IF e = Root THEN @[e] ELSE 0]]]

\* processMutations: the page, and the branches invalidated.  Only here does
\* it show that the mutations were too many (markMutationOverflow).
Drained(overflow) ==
    IF records = {} THEN [page |-> page, branches |-> {}]
    ELSE IF overflow THEN Recover(page) ELSE Process(page)

Overflow ==
    {o \in BOOLEAN : o => records # {} /\ faults < MaxFaults}

\* The events of the session: the branches in one of the orders they come in
Events(branches) ==
    IF branches = {} THEN {<<>>}
    ELSE {<<[kind |-> "invalidated", branches |-> s]>> :
              s \in SetToSeqs(branches)}

\* The timer of queueMutations
Drain ==
    /\ records # {}
    /\ \E o \in Overflow :
           LET d == Drained(o)
           IN  /\ page' = d.page
               /\ \E event \in Events(d.branches) : toPanel' = toPanel \o event
               /\ faults' = IF o THEN faults + 1 ELSE faults
    /\ records' = {}
    /\ UNCHANGED <<up, changes, toPage, panel>>

GetRoot(v) ==
    LET w == Referenced(v, Root, None)
    IN  [page |-> w, reply |-> [kind |-> "root", view |-> View(w, Root)]]

\* getChildren: one page, when the request knows the branch's revision
GetChildren(v, m) ==
    LET e == m.ref[1]
        rest == {n \in Kids(e) : m.after = None \/ n > m.after}
        some == {n \in rest : Cardinality({k \in rest : k < n}) < PageSize}
        w == FoldSet(LAMBDA n, x : Referenced(x, n, m.ref),
                     [v EXCEPT !.open = @ \cup {e}, !.gen[e] = m.at], some)
        views == [n \in some |-> View(w, n)]
    IN  IF \/ e \notin v.known \/ m.ref # RefOf(v, e)   \* unknown-node
           \/ m.at # RevisionOf(v, e)                   \* stale-branch
           \/ m.after # None /\ e \notin v.open         \* invalid-cursor
        THEN [page |-> v, reply |-> [kind |-> "error", ref |-> m.ref]]
        ELSE [page |-> w,
              reply |-> [kind |-> "children", ref |-> m.ref, views |-> views,
                         more |-> IF rest = some THEN None ELSE Max(some)]]

\* A request is served once the mutations so far are processed
\* (flushMutationBarrier); nobody waits for one that the panel gave up.
Serve ==
    /\ toPage # <<>>
    /\ \E o \in Overflow :
           LET d == Drained(o)
               m == Head(toPage)
               a == IF m.kind = "root" THEN GetRoot(d.page)
                    ELSE GetChildren(d.page, m)
           IN  /\ page' = a.page
               /\ faults' = IF o THEN faults + 1 ELSE faults
               /\ \E event \in Events(d.branches) :
                      toPanel' = toPanel \o event
                                     \o (IF m.live THEN <<a.reply>> ELSE <<>>)
    /\ toPage' = Tail(toPage)
    /\ records' = {}
    /\ UNCHANGED <<up, changes, panel>>

-----------------------------------------------------------------------------
\* The controller.  An operator takes the panel's state to the next; cut
\* collects the rows whose request is given up, and out the new requests.

\* A page has a view for each of its nodes; they are taken in their order.
FoldInOrder(op(_, _), base, f) ==
    MapThenFoldSet(LAMBDA x, y : op(y, x), base, LAMBDA k : f[k],
                   LAMBDA s : Max(s), DOMAIN f)

NewRow(view, parent) ==
    [exp |-> view.exp, parent |-> parent, kids |-> {}, at |-> view.rev,
     loaded |-> FALSE, more |-> None, pending |-> None]

KidsOf(p, r) == IF r \in DOMAIN p.rows THEN p.rows[r].kids ELSE {}

\* collectSubtreeNodeRefs, from several rows, stopping at those of a set
Below(p, from, stop) ==
    LET Further(s) == s \cup ((UNION {KidsOf(p, r) : r \in s}) \ stop)
        Down[k \in Nat] == IF k = 0 THEN from \ stop ELSE Further(Down[k - 1])
    IN  Down[Cardinality(DOMAIN p.rows)]

\* hasLiveOwner, isDeferredPruneNode
Owned(p) == Below(p, {RootRef}, {})
Held(p) == UNION {p.held[k].refs : k \in DOMAIN p.held}

\* settlePendingBranchRequest
Settle(p, refs) ==
    LET given == {r \in refs \cap DOMAIN p.rows : p.rows[r].pending # None}
    IN  [p EXCEPT !.cut = @ \cup given,
                  !.rows = [r \in DOMAIN @ |->
                      IF r \in given THEN [@[r] EXCEPT !.pending = None] ELSE @[r]]]

\* removeSubtree: what has an owner, or is held, stays.
RemoveSubtrees(p, refs) ==
    LET gone == Below(p, refs, Owned(p) \cup Held(p))
        q == Settle(p, gone)
    IN  [q EXCEPT !.rows = Restrict(@, DOMAIN @ \ gone), !.expanded = @ \ gone]

\* Mutant of Advance: a request for the earlier revision is still awaited.
Advance_Awaiting(p, r, rev) ==
    [p EXCEPT !.rows[r] =
        [@ EXCEPT !.at = rev, !.loaded = FALSE, !.more = None]]

\* advanceBranchRevisionState
Advance(p, r, rev) ==
    [Settle(p, {r}) EXCEPT !.rows[r] =
        [@ EXCEPT !.at = rev, !.loaded = FALSE, !.more = None]]

\* retireBranchPresentation
Retire(p, r) ==
    RemoveSubtrees([Settle(p, {r}) EXCEPT !.expanded = @ \ {r},
                        !.rows[r] = [@ EXCEPT !.kids = {}, !.loaded = FALSE,
                                              !.more = None]],
                   p.rows[r].kids)

\* upsertNode
Upsert(p, view, parent) ==
    LET r == view.ref
        known == r \in DOMAIN p.rows
        q == IF ~known THEN [p EXCEPT !.rows = [o \in DOMAIN @ \cup {r} |->
                                 IF o = r THEN NewRow(view, parent) ELSE @[o]]]
             ELSE IF view.rev > p.rows[r].at THEN Advance(p, r, view.rev) ELSE p
        new == [q EXCEPT !.rows[r] =
                   [@ EXCEPT !.parent = parent, !.exp = view.exp]]
    IN  IF known /\ view.rev < p.rows[r].at
        THEN [p EXCEPT !.rows[r].parent = parent]
        ELSE IF view.exp THEN new ELSE Retire(new, r)

\* fetchChildren
Fetch(p, r, after, owned) ==
    IF p.rows[r].pending # None THEN p
    ELSE [p EXCEPT !.rows[r].pending = [after |-> after, owned |-> owned],
                   !.out = Append(@, [kind |-> "children", ref |-> r,
                                      at |-> p.rows[r].at, after |-> after,
                                      live |-> TRUE])]

\* resumeOwnedExpandedBranches
Resume(p, refs, owned) ==
    LET wanted(q, r) ==
            /\ r \in DOMAIN q.rows /\ q.rows[r].exp /\ ~q.rows[r].loaded
            /\ r \in q.expanded /\ r \in Owned(q) \ Held(q)
    IN  FoldInOrder(LAMBDA q, r : IF wanted(q, r) THEN Fetch(q, r, None, owned)
                                  ELSE q,
                    p, refs)

\* releaseQuarantinedSubtree: r is adopted; what only r kept is let go.
Release(p, r) ==
    IF r \notin Held(p) THEN p
    ELSE LET i == CHOOSE k \in DOMAIN p.held : r \in p.held[k].refs
             h == p.held[i]
             released == Below(p, {r}, {})
             retained == IF r = h.root THEN {}
                         ELSE (Below(p, {h.root}, {}) \cap h.refs) \ released
         IN  RemoveSubtrees(
                 [p EXCEPT !.held =
                     IF retained = {} THEN RemoveAt(@, i)
                     ELSE [@ EXCEPT ![i].refs = retained]],
                 h.refs \ (released \cup retained))

\* evictQuarantinedSubtree, of the oldest
Evict(p) ==
    RemoveSubtrees([p EXCEPT !.held = Tail(@)],
                   {Head(p.held).root} \cup Head(p.held).refs)

\* deferDetachedSubtree and quarantineDetachedSubtree
Defer(p, r, owned) ==
    LET h == [root |-> r, refs |-> Below(p, {r}, {}) \ Held(p)]
        q == IF Len(p.held) >= MaxHeld THEN Evict(p) ELSE p
    IN  IF r \in Owned(p) THEN Release(p, r)
        ELSE IF ~owned THEN RemoveSubtrees(p, {r})
        ELSE IF r \in Held(p) THEN p
        ELSE Settle([q EXCEPT !.held = Append(@, h)], h.refs)

\* detachPageChild
Detach(p, parent, r) ==
    IF r \in DOMAIN p.rows /\ p.rows[r].parent = parent
    THEN [p EXCEPT !.rows[r].parent = None] ELSE p

\* Mutant of Adopt: the branch that had the child before keeps it.
Adopt_Shared(p, view, parent) ==
    LET r == view.ref
        s == Release(Upsert(p, view, parent), r)
    IN  IF r \in DOMAIN s.rows THEN s ELSE Upsert(s, view, parent)

\* adoptPageChild, of a child that makes no cycle
Adopt(p, view, parent) ==
    LET r == view.ref
        q == [p EXCEPT !.rows = [o \in DOMAIN @ |->
                  IF o = parent THEN @[o]
                  ELSE [@[o] EXCEPT !.kids = p.rows[o].kids \ {r}]]]
        s == Release(Upsert(q, view, parent), r)
    IN  IF r \in DOMAIN s.rows THEN s ELSE Upsert(s, view, parent)

\* wouldCreateOwnershipCycle
MakesCycle(p, parent, r) ==
    LET Above(s) == s \cup
            ({p.rows[o].parent : o \in s \cap DOMAIN p.rows} \ {None})
        Up[k \in Nat] == IF k = 0 THEN {parent} ELSE Above(Up[k - 1])
    IN  r \in {RootRef, parent} \cup Up[Cardinality(DOMAIN p.rows)]

\* failFirstPageRefresh
FailFirstPage(p, r) ==
    LET kids == p.rows[r].kids
        q == [p EXCEPT !.rows[r] =
                 [@ EXCEPT !.kids = {}, !.loaded = FALSE, !.more = None]]
    IN  RemoveSubtrees([q EXCEPT !.rows = [o \in DOMAIN @ |->
                            IF o \in kids /\ @[o].parent = r
                            THEN [@[o] EXCEPT !.parent = None] ELSE @[o]]],
                       kids)

\* The views of a page are adopted, and a further page's are appended.
AdoptPage(p, r, views, further) ==
    LET Take(x, view) ==
            LET more == IF further THEN {view.ref} ELSE {}
            IN  [Adopt(x, view, r) EXCEPT !.rows[r].kids = @ \cup more]
    IN  FoldInOrder(Take, p, views)

\* replacePageChildren: what the page no longer names is detached.
ReplaceChildren(p, r, views, owned) ==
    LET named == {views[k].ref : k \in DOMAIN views}
        last(refs) == CHOOSE c \in refs : \A d \in refs : d[1] <= c[1]
        Leave(c, x) == Defer(Detach(x, r, c), c, owned)
        q == AdoptPage(p, r, views, FALSE)
    IN  MapThenFoldSet(Leave, [q EXCEPT !.rows[r].kids = named],
                       LAMBDA c : c, last, p.rows[r].kids \ named)

\* The end of fetchChildren: a response, an error or none in time
Failed(p, r) ==
    LET first == p.rows[r].pending.after = None
        q == IF first THEN FailFirstPage(p, r) ELSE p
    IN  [q EXCEPT !.rows[r].pending = None]

Loaded(p, m) ==
    LET r == m.ref
        asked == p.rows[r].pending
        q == IF asked.after = None THEN ReplaceChildren(p, r, m.views, asked.owned)
             ELSE AdoptPage(p, r, m.views, TRUE)
        s == Resume([q EXCEPT !.rows[r] =
                        [@ EXCEPT !.loaded = TRUE, !.more = m.more]],
                    [k \in DOMAIN m.views |-> m.views[k].ref], asked.owned)
    IN  IF \E k \in DOMAIN m.views : MakesCycle(p, r, m.views[k].ref)
        THEN Failed(p, r)
        ELSE [s EXCEPT !.rows[r].pending = None]

\* refreshRootSnapshot: one request at a time; a later call waits for it.
RefreshRoot(p, required) ==
    IF p.rootRev >= required THEN p
    ELSE IF p.asking THEN [p EXCEPT !.waiters = @ + 1]
    ELSE [p EXCEPT !.asking = TRUE, !.required = required,
                   !.out = Append(@, [kind |-> "root", live |-> TRUE])]

\* Its end: those that waited look at the revision again.
RootAsked(p) ==
    LET latest == p.rows[RootRef].at
        newer == latest > p.required
        q == [p EXCEPT !.asking = FALSE, !.required = 0, !.waiters = 0]
        s == RefreshRoot(q, latest)
    IN  IF ~(newer \/ p.waiters > 0) \/ ~s.asking THEN q
        ELSE [s EXCEPT !.waiters = IF newer THEN p.waiters ELSE p.waiters - 1]

RootLoaded(p, view) ==
    RootAsked(IF view.rev < p.rows[RootRef].at THEN p
              ELSE Resume(Upsert([p EXCEPT !.rootRev = view.rev], view, None),
                          <<RootRef>>, TRUE))

\* invalidateBranch
Invalidate(p, b) ==
    LET r == b.ref
        q == IF r = RootRef /\ ~p.rows[r].exp THEN p ELSE Advance(p, r, b.rev)
        s == IF r = RootRef THEN RefreshRoot(q, b.rev) ELSE q
    IN  IF r \notin DOMAIN p.rows THEN p
        ELSE IF b.rev <= p.rows[r].at THEN p
        ELSE IF r \in s.expanded \cap Owned(s) THEN Fetch(s, r, None, TRUE)
        ELSE s

\* The requests that were given up are nobody's; the new ones follow.
Commit(p) ==
    LET given(m) == m.kind \in {"children", "error"} /\ m.ref \in p.cut
    IN  /\ panel' = [p EXCEPT !.cut = {}, !.out = <<>>]
        /\ toPage' = [k \in DOMAIN toPage |->
                          IF given(toPage[k])
                          THEN [toPage[k] EXCEPT !.live = FALSE] ELSE toPage[k]]
                     \o p.out

Without(messages, dropped) ==
    FoldLeft(LAMBDA s, m : IF m \in dropped THEN s ELSE Append(s, m),
             <<>>, messages)

StillAwaited(messages, p) ==
    Without(messages, {m \in ToSet(messages) :
                          m.kind \in {"children", "error"} /\ m.ref \in p.cut})

\* A response or an event arrives.
Receive ==
    /\ toPanel # <<>>
    /\ LET m == Head(toPanel)
           p == CASE m.kind = "children" -> Loaded(panel, m)
                  [] m.kind = "error" -> Failed(panel, m.ref)
                  [] m.kind = "root" -> RootLoaded(panel, m.view)
                  [] m.kind = "invalidated" ->
                         FoldLeft(Invalidate, panel, m.branches)
       IN  /\ Commit(p)
           /\ toPanel' = StillAwaited(Tail(toPanel), p)
    /\ UNCHANGED <<up, changes, faults, records, page>>

\* The transport's timer: the request fails, its answer is not awaited.
TimesOut ==
    /\ faults < MaxFaults
    /\ faults' = faults + 1
    /\ \E r \in DOMAIN panel.rows :
           /\ panel.rows[r].pending # None
           /\ LET p == Failed([panel EXCEPT !.cut = {r}], r)
              IN  /\ Commit(p)
                  /\ toPanel' = StillAwaited(toPanel, p)
    /\ UNCHANGED <<up, changes, records, page>>

RootTimesOut ==
    /\ faults < MaxFaults
    /\ faults' = faults + 1
    /\ panel.asking
    /\ LET p == RootAsked(panel)
           late(m) == m.kind = "root"
       IN  /\ panel' = [p EXCEPT !.out = <<>>]
           /\ toPage' = [k \in DOMAIN toPage |->
                             IF late(toPage[k])
                             THEN [toPage[k] EXCEPT !.live = FALSE] ELSE toPage[k]]
                        \o p.out
           /\ toPanel' = Without(toPanel, {m \in ToSet(toPanel) : late(m)})
    /\ UNCHANGED <<up, changes, records, page>>

\* The rows on display: those below the root through expanded rows
Shown ==
    LET p == panel IN
    Below([p EXCEPT !.rows = [r \in DOMAIN @ |->
              IF r \in p.expanded THEN @[r] ELSE [@[r] EXCEPT !.kids = {}]]],
          {RootRef}, {})

\* The rows the user can act upon
Usable == {r \in Shown \cap DOMAIN panel.rows : panel.rows[r].exp}

Ask(p) ==
    /\ Len(toPage) + Len(p.out) <= MaxRequests
    /\ Commit(p)
    /\ UNCHANGED <<up, changes, faults, records, page, toPanel>>

Expand ==
    \E r \in Usable :
        LET p == [panel EXCEPT !.expanded = @ \cup {r}]
        IN  Ask(IF p.rows[r].loaded THEN p ELSE Fetch(p, r, None, FALSE))

Collapse ==
    \E r \in Usable \cap panel.expanded :
        Ask([panel EXCEPT !.expanded = @ \ {r}])

LoadMore ==
    \E r \in Usable :
        /\ panel.rows[r].loaded => panel.rows[r].more # None
        /\ Ask(Fetch(panel, r, panel.rows[r].more, FALSE))

-----------------------------------------------------------------------------

Init ==
    /\ up \in Start
    /\ changes = 0 /\ faults = 0 /\ records = {}
    /\ page = [ last |-> [e \in Elem |-> IF e = Root THEN 1 ELSE 0],
                live |-> {Root}, known |-> {Root},
                parent |-> [e \in Elem |-> None], open |-> {},
                gen |-> [e \in Elem |-> 0] ]
    /\ toPage = <<>> /\ toPanel = <<>>
    /\ panel = [ rootRev |-> 1,
                 asking |-> FALSE, required |-> 0, waiters |-> 0,
                 rows |-> [r \in {RootRef} |-> NewRow(View(page, Root), None)],
                 expanded |-> {}, held |-> <<>>, cut |-> {}, out |-> <<>> ]

Next ==
    \/ Mutate \/ Drain \/ Serve
    \/ Receive \/ TimesOut \/ RootTimesOut
    \/ Expand \/ Collapse \/ LoadMore

Spec == Init /\ [][Next]_vars

-----------------------------------------------------------------------------

\* Each row has one place: no two branches have it as a child, none is below
\* itself, a held row is not on display, and every child has a row.
OneOwner ==
    /\ TypeOK
    /\ \A r, s \in DOMAIN panel.rows :
           /\ r # s => panel.rows[r].kids \cap panel.rows[s].kids = {}
           /\ r \notin Below(panel, panel.rows[r].kids, {})
    /\ Held(panel) \cap Owned(panel) = {}
    /\ Owned(panel) \subseteq DOMAIN panel.rows
    /\ DOMAIN panel.rows \subseteq Owned(panel) \cup Held(panel)

Quiet == records = {} /\ toPage = <<>> /\ toPanel = <<>>

\* A row that is at a revision the page has forgotten, as an overflow makes it
\* do, or the root when the request for its new view failed.
LeftBehind(r) ==
    \/ panel.rows[r].at > RevisionOf(page, r[1])
    \/ r = RootRef /\ panel.rootRev < RevisionOf(page, Root)

\* Once the page and the panel have heard all of each other, the panel shows
\* the document: every row on display is a node where it is in the document,
\* by the reference it has now, a loaded branch has all the children up to its
\* cursor, and an expanded branch is loaded unless a request for it failed.
ShownIsCurrent ==
    Quiet =>
        \A r \in Shown :
            /\ r = RefOf(page, r[1]) /\ Connected(r[1])
            /\ \/ panel.rows[r].exp = (Kids(r[1]) # {})
               \/ faults > 0 /\ LeftBehind(r)
            /\ r \in panel.expanded =>
                   panel.rows[r].loaded \/ (faults > 0 /\ panel.rows[r].kids = {})
            /\ panel.rows[r].loaded =>
                   panel.rows[r].kids =
                       {RefOf(page, n) : n \in {k \in Kids(r[1]) :
                            panel.rows[r].more = None \/ k <= panel.rows[r].more}}

\* A branch that is loading awaits exactly one answer, to a request that was
\* made at the revision it is at now: no load is forgotten by the panel, or
\* completed by the answer to an earlier one.
AwaitedOnce ==
    LET asked == [k \in {i \in DOMAIN toPage : toPage[i].live} |-> toPage[k]]
        about(m, kinds, r) ==
            m.kind \in kinds /\ (m.kind = "root" \/ m.ref = r)
        requests(kind, r) == {k \in DOMAIN asked : about(asked[k], {kind}, r)}
        answers(kinds, r) == {k \in DOMAIN toPanel : about(toPanel[k], kinds, r)}
        awaited(kind, kinds, r) ==
            Cardinality(requests(kind, r)) + Cardinality(answers(kinds, r))
    IN  /\ \A r \in DOMAIN panel.rows :
               /\ awaited("children", {"children", "error"}, r) =
                      IF panel.rows[r].pending = None THEN 0 ELSE 1
               /\ \A k \in requests("children", r) :
                      /\ asked[k].at = panel.rows[r].at
                      /\ asked[k].after = panel.rows[r].pending.after
        /\ awaited("root", {"root"}, RootRef) =
               IF panel.asking THEN 1 ELSE 0
        /\ \A k \in DOMAIN asked :
               asked[k].kind = "children" => asked[k].ref \in DOMAIN panel.rows

=============================================================================
