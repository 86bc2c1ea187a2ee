# Pin-op: a verification project

Pin-op links a browser's DevTools panel to VS Code: an element picked in the
page is resolved to the source that produced it, the panel shows where each CSS
rule comes from, and clicking opens it in the editor.  Everything travels over
a loopback WebSocket *bridge* that the VS Code extension hosts.  These modules
model the parts of the program where several actors share state, and check and
prove what must hold whatever order things happen in.

## 1. Inventory

| Component (source) | State | Operations | Hard behaviour | What makes it correct |
|---|---|---|---|---|
| Reply routes (`packages/bridge/src/replyRouteRegistry.ts`) | routes by inspect id; index by asker, index by answering IDE; touch order; a revision | register, claim, invalidate, replace matches, prepare rules, authorise, remove, removeClient, clear | two-phase preparations around a send; eviction at a limit | indexes exact; ownership and generations never regress; a commit never overwrites a newer change |
| Server, router (`server.ts`, `router.ts`, `heartbeat.ts`, `clientRegistry.ts`, `peerStateRegistry.ts`) | sockets, handshake timers, registered clients, missed pongs, peer state per session | accept, link, hello, unlink, pong, route each message, heartbeat, stop | frames buffered behind an eviction or a stop; sends that fail halfway | presence exact and ordered; what can be opened is what was delivered; nothing survives stop |
| Link authenticator (`linkAuthenticator.ts`, `auth.ts`) | PIN failures, cooldown, tokens | attemptLink, issueTrustedToken, validate, revoke | window edges, expiry, a limit per role | a bounded number of guesses; tokens lost are lost for good |
| Window connection (`browser-extension-core/src/windowConnectionCoordinator.ts`, `bridgeClient.ts`, `browserWindowLinkStore.ts`) | one record per browser window: owners, generation, client, link, pending link, timer, operation token; a storage queue | link, unlink, remove window, register panel, participants, publish | awaits between read and use, aborts, worker restarts, storage failures | link in use = link stored; authority only over a live connection; it keeps trying, and stops trying |
| VS Code bridge lifecycle (`bridgeManager.ts`, `runtimeController.ts`) | state machine, operation tail, credentials | start, stop, dispose | coalesced calls, dispose during start, ports in use | one bridge at most; credentials only of the running one |
| VS Code client (`extensions/vscode/src/bridgeClient.ts`) | socket, reconnect timer, current inspect and rules route | connect, send, close | reconnect, rollback of an optimistic route | what may be opened was sent |
| Rule origins (`rules/rulesOpenAuthorityRegistry.ts`, `rulesSourcesPublication.ts`, `rulesSourceController.ts`, browser `rulesSourcesController.ts`) | active authorities and high-watermarks; panel's origins | prepare, activate, commit, roll back; accept, invalidate, open | two-phase publication over a link that may fail; late publications | panel never opens what the IDE withdrew |
| Active editor (`presenter/activeEditorCoordinator.ts`, ...) | work and resolution generations, abort, debounce timer | select, refresh, edit, clear | late results | only the latest resolution is published |
| Save observer (`refresh/saveObserver.ts`) | dirty files, pending mode, timer, preprocessor window | edit, save, generated CSS | several timers folded into one | a save is published, once, with the stronger mode |
| Tab refresh (`tabRefreshCoordinator.ts`, `tabRefreshStateStore.ts`) | per-window watermark, lifecycle revisions, durable tab state | accept refresh, epochs, tab and window removal | partial failure and rollback while tabs move | a refresh is admitted at most once, for tabs that still belong |
| Router, panel sessions (`backgroundRouter.ts`, `panel*Transport.ts`, `inspectCorrelationStore.ts`) | ports, activations, commands, correlations | messages of panels, tabs and windows | very many | one command per window; correlations die with their panel |
| Inspect leases, DOM recovery (`inspectLease.ts`, `domTreeRecoveryCoordinator.ts`) | leases; recovery token and deadline | attach, release; recover, cancel | a deadline racing an answer and a manual choice | one lease per tab; the latest recovery wins |
| DOM tree (`domTreeProvider.ts`, `domTreeController.ts`) | references, watched branches and revisions in the page; rows, loads, held subtrees in the panel | mutate, observe, load a page, invalidate, expand, collapse | answers and invalidations crossing; subtrees moving between branches | the panel ends up showing the document; a row has one place |
| Page inspection, previews | views of the live DOM | computation | little shared state | |
| Source plugins, resolvers | none | pure resolution | | |
| Protocol schemas, UI | none | validation, rendering | | |

How they interact: panels talk to the background worker (`backgroundRouter`)
over ports; per window the worker keeps one `WindowConnectionCoordinator`
record whose `BrowserBridgeClient` holds a WebSocket to the bridge; the bridge
authenticates it (`LinkAuthenticator`), registers it (`ClientRegistry`), tells
it whether an IDE is there (`PeerStateRegistry`) and correlates its requests
with the IDE's answers (`ReplyRouteRegistry`).  The VS Code extension starts
the bridge, takes a trusted token and connects to it as the IDE.

Hazards are listed in `PROJECT.json`, each at the line where it bites with the
properties that cover it, or why no property does.

## 2. What is modelled

All of this code runs on JavaScript event loops: a callback runs to its end, and
interleaving happens between callbacks and at `await`.  So **one callback, or
one stretch between two awaits, is one action**; the continuation of a promise
is in the same action as its resolution unless the code can run something else
in between (the awaited transition of a command, the storage queues, the tasks
of the refresh coordinator).  Type correctness is a conjunct of one invariant of
each module, next to the structural facts it belongs with.

| Module | Stands for | Composes |
|---|---|---|
| `ReplyRoutes`, `ReplyRouteRegistry` | the bridge's table of reply routes: its methods as operators, its interface as actions | |
| `Bridge` | server, router, heartbeat, registries | `ReplyRoutes`; tokens as promised by `AcceptedTokens` |
| `LinkAuthenticator`, `AcceptedTokens` | PIN and tokens; what they promise | refinement |
| `IdeRuntime` | controller, manager and client of the IDE | rests on `Bridge`'s `StopDrains`, `SilentClientsLeave` |
| `WindowConnection` | one browser window's link | |
| `TabRefresh` | Auto Refresh of a browser's tabs, and its store | |
| `RuleOrigins` | rule origins from the IDE through the router to the panel | channels as ordered by `Bridge` |
| `DomTree` | the lazy DOM tree, from the page to the panel | |

### `ReplyRoutes`, `ReplyRouteRegistry`
`ReplyRoutes` writes each method of the class as an operator from a registry
value to a registry value, with its guard beside it (`CanClaim`/`Claim`,
`CanPublishRules`/`PublishRules`, ...); the table is a function on the live ids
and the insertion order of each client's `Map` is the relation `older`.
`ReplyRouteRegistry` puts these behind the class's interface and adds the
preparations that callers hold between `register`/`prepareRulesSources` and
commit or rollback.  The revision counter appears as a flag `fresh` on each
preparation ("no mutation since"), which is what comparing counters decides and
keeps the state space finite.  `Bridge` uses the same operators directly:
its handlers prepare, send and commit in one callback, and a send that fails
terminates only the socket, whose close event comes later.

### `Bridge`
One action per handler of `server.ts` and per case of `router.ts`.  A socket is
*opened*, *writable* (readyState OPEN), *closed* (its close event was handled):
`terminate()` only ends writability, so frames that were already buffered are
still handled before the close event, which is where the hard cases are.  A peer
can hang up or fall silent (`Faults` names which faults a run allows).  The
authenticator is the set of tokens it accepts, with tokens lost at any time.
`shown`, `rulesShown`, `sent` and `told` are observers: what each asker last
received, and the authority-bearing messages of the step.  One heartbeat tick,
which evicts and pings clients in a synchronous loop, is one action.
`page.refresh` and error replies change no state and are left out.

### `LinkAuthenticator`, `AcceptedTokens`
`attemptLink` with its failure window and cooldown, tokens and failures, the
limit per role (`MakeRoom`), expiry at every use.  The code's two lists are only
appended to and filtered, so each is the set of the positions its entries have
in the history it is filtered from (`issued`, `wrong`); the histories are
observers of every token issued and every wrong PIN compared.  The clock moves
forward by ticks (the code rejects an invalid clock; it never adjusts times when
the clock goes back, which is not modelled).  `AcceptedTokens` is the abstract
promise: a value is accepted from its issue on and, once lost, is lost for good;
`LostForGood` is the refinement, and what `Bridge` assumes of it.

### `IdeRuntime`
`queue` is `ExtensionRuntimeController`'s chain of operations
(`operationTail`), the running one first, `phase` what it awaits: the manager's
start, port by port, or its stop.  Nothing but the controller calls the manager,
and it calls it one operation at a time, so the manager's own coalescing of
overlapping starts and stops never comes into play and is not modelled.
`client` is the IDE's `BridgeClient`: its credentials, socket, reconnect timer,
and whether the bridge refused it for good.  Token expiry, ports in use, a
client that cannot be created and messages that do not parse are faults.

### `WindowConnection`
One browser window.  `rec` is its `WindowRecord` together with the state of its
`BrowserBridgeClient`, `ops` are the `linkWindow`, `unlinkWindow` and
`removeWindow` calls awaiting their controlled transition or their storage
operation, `queue` is the per-window storage chain (`enqueueStore`), `stored`
the record in session storage.  Generations and client tokens only matter by
equality with the current one, so they are kept *rebased*: `0` is the current
one and `Stale` any older (`Become` renames them whenever the record's own
advances).  Aborts, storage failures, failing sends, protocol errors and the
restart of a background worker are faults.  `Faults` is a set of fault sets, one
of which (`faults`) is chosen at `Init`, because what holds depends on which can
occur: `StoredIsUsed` says nothing of behaviours with storage failures or aborts,
`KeepsTrying` nothing of those with aborts.  The router's rule that a window runs one panel
command at a time is `NoCommand`; window removal is not a panel command and may
overlap.

### `TabRefresh`
`TabRefreshCoordinator` and `TabRefreshStateStore` with the calls the router
makes: panels open, move and close, settings change, tabs and windows are
removed, refreshes are accepted, an epoch of a window begins.  `disk` is what
the storage holds, `mem` what the worker remembers, `store` the chain of the
store's jobs and `tasks` that of the coordinator.  A job takes two steps, its
update of the storage and the continuation of its caller, so anything may happen
between them.  `disk` survives a restart of the worker, everything else starts
again.  A storage access may reject with or without having taken effect.
Lifecycle revisions are only compared, so those in use are renumbered densely.
`asked` is an observer: the refresh each tab was last asked for.

### `RuleOrigins`
`RulesSourceController` with its `RulesOpenAuthorityRegistry` and the IDE's
`BridgeClient` (variable `ide`), the router with its `InspectCorrelationStore`
(`router`), the panel's `RulesSourcesController` (`panel`), and the three
channels between them.  A publication is prepared, activated, sent, then
committed or rolled back in one callback; a click becomes an open that the IDE
checks, reads the file for, checks again and reveals, in steps (`AcceptOpen`,
`ReadBefore`, `Show`, `ReadAfter`, `Reveal`) between which files change, new
inspects arrive and connections end.  In the router, `publishSelection` ends
what is recorded before its awaits (`BeginPublication`), and then inspects the
element (`InspectElement`) or returns without telling anybody
(`DropPublication`).  A styles invalidation ends the record in any case
(`PageChanges`); the panel hears of it when the stylesheets changed, and an
event that the panel drops, because only the applicability of rules did, is not
put on the port.  A selection event (`SelectionMoves`) ends it too.  When the
IDE goes, or the tab is refreshed, a controlled cleanup comes first: `cleaning`
shuts the gate at once, the record ends with the cleanup, and only then is the
panel told (`PeerLeaves`, `CleanupEnds`, `RefreshRevokes`).  A send is refused
by the browser's own connection (fault "send"); with no IDE behind the bridge
it succeeds and the message is lost.  An element has one rule; what a resolution
finds is the file's version, and a version change is noticed by VS Code in a
step of its own.

### `DomTree`
The provider in the page (`page`: the references it gave out, the branches it
watches and their revisions) and the panel's `DomTreeController` (`panel`: rows,
loads, held subtrees), with one channel each way.  A mutation of the document is
followed, in a later step, by the observer's callback (`Drain`).  A branch is
loaded page by page, an invalidation makes the panel load it again, and
subtrees that a page no longer names are *held* (quarantined) until another
branch names them or they are pushed out.  Requests may time out and the
observer's records may overflow (`MaxFaults`).  References are `<<node, k>>`,
`k` counting how often the node got a new one.

## 3. Runs

| Run | Instance | States | Properties |
|---|---|---|---|
| `routes` | 2 connections, 2 ids, 1 match, authority and rule, limit 1, 1 rules generation, 2 preparations | 171,717 | `TypeOK`, `IndexConsistent`, `BoundedTable`, `OwnedAuthority`, `FreshStillHolds`, `NoRegression` |
| `bridge` | 1 browser, 2 IDEs, 1 id, 2 matches, 1 authority, limit 1; hangup, protocol errors, stop | 192,364 | `RegistrySound`, `AuthorityAsShown`, `RoutedAsShown`, `PeerViewsAgree`, `PeerViewsAdvance` |
| `bridge_endings` | 1 browser, 1 IDE, 1 id; falling silent, hangup, protocol errors, token loss, heartbeat, stop; fair | 30,242 | `StoppedStaysEmpty`, `RoutesEndWithSockets`, `SilentClientsLeave`, `SocketsAuthenticateOrEnd`, `StopDrains` |
| `link` | 2 roles, 3 tokens, limit 1, 2 failures, window, cooldown and lifetime 2, time 5 | 283,637 | `GuessesBounded`, `TokensBounded`, `TokensKept`, `LostForGood` |
| `window` | 2 panels, 1 tab, 2 links, 2 calls, 3 storage operations; two fault sets; fair | 77,732 | `LinkIsStored`, `StoredIsUsed`, `AuthorityIsLive`, `KeepsTrying`, `CallsEnd`, `ReconnectingEnds` |
| `ide` | 2 bridge instances, 2 ports, 3 operations queued; all faults; fair | 2,596 | `OneBridge`, `LastStopHolds`, `TriesAgain`, `DisposeEnds` |
| `refresh` | 1 tab, 2 windows, 1 generation, 3 revisions, 2 jobs, 2 tasks, `FewAtATime`; storage failures, restarts | 307,126 | `PendingIsOwned`, `DisabledStaysOut`, `AskedOnce` |
| `rules` | 2 inspects, 3 generations, 1 file change or 1 refresh (`OneCause`), channels of 2; all faults | 2,544,547 | `ClientMatchesRegistry`, `ForwardedIsShown`, `PanelMatchesIde`, `RevealIsCurrent` |
| `dom` | 3 nodes, pages of 2, 2 mutations or 1 and 1 fault (`FewChanges`), 1 request, 1 held subtree | 245,495 | `OneOwner`, `ShownIsCurrent`, `AwaitedOnce` |
| `window_forgotten` | 1 panel, 1 link, no fault | violation | `ClosedWindowForgotten` |
| `window_aborted_relink` | aborts only | violation | `AbortedKeepsTrying` |
| `refresh_epoch` | no fault | violation | `PendingIsCurrent` |

What they show.

* `routes`: answers, publications, disconnects and eviction, with two
  preparations outstanding together, keep the table exact; what a commit writes
  is still allowed.
* `bridge`: whatever the order of handshakes, hang-ups, failing sends and a stop
  with frames still buffered, what can be opened is what was delivered, and
  presence is exact and announced in order.
* `bridge_endings`: silent or unauthenticated sockets end, a stop drains, routes
  go with their sockets, a stopped bridge stays empty.
* `link`: the number of PINs compared in any window is bounded at the edges of a
  cooldown, the limit per role costs only that role's oldest tokens, and the
  authenticator implements `AcceptedTokens`.
* `window`: the link in use is the stored one, requests go over live
  connections, commands end, and a reconnecting window connects, gives up or is
  `Idle` (no socket being opened and no timer: an aborted command can leave it
  so, see the findings).
* `ide`: one bridge at most, its credentials only with its client; the last stop
  holds and a disposal is final, whatever was starting when they were asked for;
  a client that is not connected tries again unless it was refused.
* `refresh`: a pending refresh belongs to the panel that is open now, a tab that
  was switched off takes no part, and no tab is asked twice in an epoch, restarts
  and failing storage included.
* `rules`: the client lets through what the registry has in force; what the
  router forwards the panel shows, however silently a record ended before; the
  panel catches up with the IDE while the router correlates; and what is
  revealed is in the publication in force and in a file not known to have
  changed.  The converse of the second does not
  hold: see the observations below.
* `dom`: when all is quiet the panel shows the document; each row has one place,
  and each load awaits one answer.

Bounds.  Two connections of each kind that matters are enough for one to
overtake or replace the other; a limit of one route, one token per role or one
held subtree is reached and passed.  `routes` has one rules generation and
one resolution, so that two preparations fit beside them: a second generation of
rules and of resolutions occurs in `bridge`, and the theorem `NothingRegresses`
covers them all.  The heartbeat and the loss of tokens are left to
`bridge_endings`, where clients fall silent.  `window` takes failing storage and
aborts in one fault set and failing sends and protocol errors in the other,
restarts in both: TLC sees no behaviour with a fault of each, the theorems on
`WindowConnection` cover them.
`MaxAttempts` is 2 where the code counts 5: the count is only compared with its
end.  `MaxQueue` of `WindowConnection` bounds the storage chain at 3 (a call's
removal, a load and a save of what it replaced); guards refuse a new command when
it is full, they never drop an entry.  In `IdeRuntime` 3 operations are a start
and a stop that overtake a running one.  In the authenticator the constants are
small but keep the code's relation: window equal to cooldown, several failures
before it; time 5 holds two windows and an edge.  `TabRefresh` is cut by the
constraint `FewAtATime` (in `MCTabRefresh`): two calls, two tasks or one of each
overlap in the first window, and one call and one task of the first window once
the second is in play; a move between windows thus meets one task under way, not
two.  The theorems on `TabRefresh` need no such cut.  `RuleOrigins` has two inspects, three generations (a publication, a newer
one, and one more after a loss), and a file change or a resolution asked for
again, not both (`OneCause`); two messages under way in a
direction are enough for one to be stale when it arrives.  `DomTree` starts from
a document with two children of the root, one of which has a child, and pages of
two, so that a third child of the root, moved there, is on a second page.  Bounds
on generations appear as the ranges of the quantifiers in `Next`.  Symmetry is
used for connections and ids that play the same part, never in a run with a
liveness property.

Fairness.  `Bridge`: close events arrive, armed handshake timers fire, the
heartbeat interval fires; nothing is assumed of clients.  `WindowConnection`:
an awaited transition ends, storage operations settle, an armed timer fires, a
socket that is being opened is answered or closed.  `IdeRuntime`: the event loop
runs the next operation, a port answers, a bridge that is asked to stop does
(`StopDrains`), an armed timer fires, and a socket whose client is in error ends,
by the transport or because the bridge evicts a client that leaves pings
unanswered (`SilentClientsLeave`).  Nothing is assumed of users, of a connected
bridge, or of aborts.  `TabRefresh`, `RuleOrigins` and `DomTree` have safety
properties only; that the panel catches up is stated of the states where nothing
is under way (`PanelMatchesIde`, `ShownIsCurrent`).

`CHECK_DEADLOCK FALSE` is set where the system may really stop: all sockets of
a stopped bridge closed, time, inspects or mutations at their bound, a closed
window with nothing left to do.  Each property has a mutant (an operator beside
the one it changes) with which the run fails.

### Findings
* **Closed windows are not always forgotten** (`window_forgotten`).
  `docs/security.md:71`: "Closing the window, ending the browser session, or
  selecting Disconnect removes the record."  `removeWindow` first awaits the
  controlled transition, then gives up (line 745) if the record's generation
  moved.  The release of the window's last panel or participant, which closing
  a window also causes, moves it.  The credentials then stay in storage.
* **An aborted command suppresses reconnection** (`window_aborted_relink`).
  While `linkWindow` or `unlinkWindow` awaits its cleanup a lost connection
  schedules no reconnect (`canScheduleReconnect`, line 1254); if the command is
  then aborted nothing does so later, against `docs/mvp-usage.md:87`.
* **An ended epoch leaves a refresh pending** (`refresh_epoch`).
  `tabRefreshCoordinator.test.ts:1565` is named "starts a new window epoch below
  persisted generations and clears stale pending".  `beginWindowEpoch` (line 420)
  clears the window's pending refreshes at once, but an `acceptPageRefresh` that
  is staging its tabs at that time goes on and creates its pending operations
  afterwards (lines 371-408); activating such a tab carries out a refresh of the
  epoch that ended.

Five more observations, which are written into the models as the code has them;
no run is devoted to them.  When Auto Refresh is switched off while an earlier
call of the same tab (its panel's opening, or switching it on) is still queued
and a refresh is being staged, the refresh can become pending in between;
`updateSettings` cancels what is pending only when it is called (line 235), and
its `finally` (lines 261-268) takes the tab out without cancelling.  The refresh
then waits for a tab that takes no part; activating the tab drops it, but if Auto
Refresh is switched on first it is carried out, whereas
`tabRefreshCoordinator.test.ts:994` is named "discards pending work while disabled
and never replays disabled generations".  `PendingIsOwned` therefore does not say
that a tab with a pending refresh takes part.  A click while the IDE resolves an inspect again is
refused and ends that inspect's origins until the element is inspected afresh.
`inspectorPanelRuntime.ts:368-370` says: "An applicability-only invalidation ...
leaves every reference intact, and dropping the origins there is what made
resizing lose the source links."  The panel keeps them, but the router disposes
of the correlation with every accepted `styles.invalidated`
(`backgroundRouter.ts:4176`), so a click on such a link gets no authority and is
dropped, as is what the IDE publishes later.  The page inspects the element again
only if its matched evidence changed (`pageInspectionSession.ts:2832-2834`);
until then, or until the user does, the links are dead.  That is why
`ForwardedIsShown` has no converse and `PanelMatchesIde` asks that the router
still correlates.
A first publication that the router drops at its inspection gate makes the panel
refuse the later generations of that inspect, since it only begins with
generation 1; `PanelMatchesIde` therefore excepts an inspect held at the gate.
After an overflow of its records the provider forgets the revisions of branches
it has just announced at a higher one, so requests for them are refused as stale
until later mutations bring the numbers together; `ShownIsCurrent` excepts those
rows (`LeftBehind`), and only in behaviours with a fault.

## 4. Proofs

Every theorem holds for all values of the constants, under the named assumption
of its module: sets of connections, ids and values may be infinite, limits are
positive, and the null value is in none of the sets it is compared with
(`RoutesAssumption`, `RegistryAssumption`, `BridgeAssumption`,
`RuntimeAssumption`, `AuthenticatorAssumption`, `RuleOriginsAssumption`,
`WindowAssumption`, `TabRefreshAssumption`, `DomTreeAssumption`,
`NoneAssumption`).  TLC checks the same assumptions on each run.

**The table of routes** (`ReplyRouteRegistryProofs`).  `RegistrySpec => []IInv` with

    IInv == RegistryTypeOK /\ Sound(registry) /\ FreshStillHolds

where `Sound` joins the exactness of the two indexes, the order's being
irreflexive and confined to live ids, and the ownership of authorities.
`IndexConsistent` alone is inductive only because removal reads the indexes it
repairs, so it needs the table's typing; `OwnedAuthority` needs the guards of
publications, which at commit are no longer tested: what holds them is
`FreshStillHolds`, true because every mutation makes all preparations stale.
That is the argument of the code's revision counter, and why the three parts are
proved together.  Each operator of `ReplyRoutes` has a typing lemma and a
soundness lemma; each action cites them.  `BoundedTable` needs more: that a
client at its limit has a least recent route to push out.  The lemmas
show that the order of touches stays total on each client's routes and that a
finite non-empty set has a first element in it: among the finite sets "routes
older than r" one is minimal under inclusion, and the r it belongs to is the
first.

**The bridge** (`BridgeProofs`).  `BInv == SocketsInv /\ RoutesInv /\
RoutedAsShown`.  `RoutesInv` reuses the lemmas on `ReplyRoutes` and ties each
live route to registered sockets and to what its asker was last sent.
`StoppedStaysEmpty` is not inductive: a frame that was buffered at the stop can
still be answered with a token.  What holds is `StoppedIsSilent`: everything
accepted before the stop is revoked, and a token issued later is held by nobody,
because an asker holds one only once its own link reply was delivered
(`HeldIsLinked`) and a stopped bridge can deliver nothing.  `PeerViewsAdvance`
follows from `PeerViewsAgree` and from the peer generation's never decreasing.

**The IDE's runtime** (`IdeRuntimeProofs`).  `RInv` joins the types with
`PhasesAgree` (what exists in each phase of an operation), `StopsHold` and
`DisposeIsLast` (after a disposal the queue ends with its stop or is empty).
`OneBridge` and `LastStopHolds` follow.

**The authenticator** (`LinkAuthenticatorProofs`).  `GuessesBounded` counts the
wrong PINs of every window since the last right one, although the code forgets
its list when a cooldown ends.  `GuessesCounted` is why it is right: before a
cooldown every wrong PIN young enough to matter is in the list, which is shorter
than the limit, and when a cooldown ends all of them are older than a window,
which needs `Cooldown >= Window`, an assumption the code's constants satisfy with
equality.  `TokensKept` is proved of positions in the history (`PositionsKept`);
the refinement of `AcceptedTokens` follows from values being issued once.

**Rule origins** (`RuleOriginsProofs`).  `OInv` types the channels and states the
agreement of registry, client and controller (`Standing`) and what an open under
way may rely on (`Watched`: its file is watched, so a change is noticed or still
to be reported).  `RevealIsCurrent` follows from it.  `ForwardedIsShown`
speaks only of an empty channel; its strengthening `Chained` speaks of every
message on it: each publication follows what the panel shows after the messages
before it, and what is shown after the last is what the router has recorded, if
it has anything.  A step that ends the record, silently or not, keeps that for
want of anything recorded (`Ending`); the work is in what the router records
next, which only an inspect the panel is told of can begin.

`PanelMatchesIde` speaks of a moment when nothing is under way, so its invariant
`DInv` has to say of every moment what will have arrived by then.

* `Rising` and `Ahead` order the two directions: inspects are numbered as they
  are made, the sources under way come in the order of their inspects, and none
  is older than the one held back at the gate or newer than the IDE's own.
* `Delivers` holds while router and IDE are `InStep` (on the same inspect, none of
  whose publications is held back, with no cleanup under way; an inspect whose
  record ended is never recorded again): the publications under way are newer
  than the router's and rise by generation, the first to arrive is generation 1,
  and what is in force has arrived or is under way.  `Latest` adds that what is in
  force is the last generation the registry gave out.

The hard steps are a refused or failed preparation (a failed first one
invalidates the inspect, so no generation 2 can meet a router without
generation 1) and a disconnection, after which the two are only in step again
when an inspect made later has arrived.

**The window's connection** (`WindowConnectionProofs`).  `WInv == TypeOK /\
Live(rec) /\ Typed(ops, queue) /\ Kept(rec, ops, queue, stored)`.  `LinkIsStored`
alone is not inductive: a queued save or removal could change what is stored
under a link.  `Kept` says why none does: while the record has a link only loads
are queued, which change nothing; an operation that could give it a link is the
last of the queue, and a call that owns the record has none behind it.  The
record's operators compose (a report may stop an attempt, which drops the client
and invalidates the generation), so each is shown once to give a typed record
that `Follows` the one before, and `FollowsKeeps` shows that a record that
follows keeps `Kept`: links and attempts are only dropped, a client is only
opened for one of them, and dropping either outdates what was captured before.
`MaxQueue` is a positive number here, not 3.

`KeepsTrying` and `StoredIsUsed` rest on a second invariant, `HInv == "abort"
\notin faults => Caring`, beside `WInv`.  `Caring` has two parts.

* `Calm`: the record is `Sound` (a timer is its client's, a connection and a
  socket are in a state of the client that can have them, and a promise is kept:
  something is under way or a call's token is on the record).  The token is
  `Backed` by a call in progress, and where a client or a load is still there, by
  one that waits for its cleanup and will forget the link.  A save the record
  would take belongs to an attempt nothing ends meanwhile (`Assured`).  An open
  window is `Manned`: nobody uses it and it does nothing, or the panels that gave
  its commands are still there.
* `Accounted`, for an open window while storage works: whoever uses it has the
  link, has a load of it queued, or whatever is stored and will be is going to be
  erased (`Erased`): a removal that nothing skips is queued, behind every save
  under way whose record is gone (`Lost`).

The steps of the socket and the timer give a record that `Stays` as it was for
the calls and the queue, or whose attempt was stopped when no save belonged to
it; `StaysCares` shows that both keep `Caring`.  An aborted command breaks it:
`window_aborted_relink` is the counterexample.

**Auto Refresh** (`TabRefreshProofs`).  For any numbers of tabs, windows,
generations, jobs and tasks and with every fault; revisions must not run out
(`CanAdvance` is a guard), which the code's counter does not.  Four invariants,
each resting on those before it.

* `TInv` types the storage, the memory and the two queues and says how they are
  in step: one job at most belongs to the running task (`InStep`), only the
  running job has begun, a tab's stage is queued after the opening of its panel
  and its settings before its removal (`Ordered`).
* `LifeOK` ties each tab's revision to its panel (`Stands`) and says what a call
  that is under way may conclude from finding its own revision (`Standing`): the
  panel it closed is still closed, the one it opened is still its own.
  `PendingIsOwned` is a part of it.  It is inductive because a revision that
  begins is one that nothing refers to (`Fresh`).
* `SwitchOK` gives `DisabledStaysOut`: a tab that takes part is stored as on, or a
  call is under way that will take it out (`Owes`), and a call that will let a
  tab take part finds it stored as on (`Granted`).
* `MarksOK` gives `AskedOnce`, which says nothing of the storage and is far from
  inductive.  What is stored for a tab is never older than what the tab was asked
  or is due (`AskedStored`, `DueStored`); a refresh that is being admitted is newer
  than both (`Admitting`); a stage that is over is stored (`StagesStored`), unless
  its tab's lifecycle ended; what a rollback would restore is not older either
  (`CommitsRestorable`), because nothing is due or asked for a refresh before all
  of its stages are stored; and a tab whose storage was removed will not be stored
  again.  An epoch resets what is stored, which would break all of this for a
  refresh staged before it (the finding `refresh_epoch`): `EpochsClear` says that
  what survives it is marked `late`, and `AskedOnce` excepts it.

The proofs first show once what each step does to the few things the invariants
mention (the lemmas `...Does`), and then sort the steps: those that change no
panel, participant or revision (`Quiet`) keep `LifeOK` and `SwitchOK`, those that
neither ask nor store (`Calm`) keep `MarksOK`.

**The DOM tree** (`DomTreeProofs`).  `AwaitedOnce`, for every document, page size
and number of changes, requests, faults and held subtrees.  `AwaitedInv` is the
same in an inductive form: the rows and messages have their shape, no handler
left anything to be sent or given up, and for each reference, whether it has a
row or not, the requests and the answers under way are together one when its row
loads and none otherwise (`AwaitsRow`).  It counts by saying that a set has one
element or none (`One`), so that cardinalities appear only where `AwaitedOnce`
itself is concluded.

A handler of the controller is a composition of some twenty operators on the
panel.  What counts about each is shown once: `Trims` says that it only gives
requests up, and every row that lost one is cut; `Tracks` that it may also make
new ones, and each row keeps its request, has a new one, or has none.  Both
compose, and `Handles` is what a handler as a whole comes to; the row whose
answer it handles awaits nothing any more.  `Commit` and `StillAwaited` then drop
the messages of the rows that were cut, and the rest of a sequence is as many as
it was (`AsMany`).  The folds, over the views of a page, the references of a
resumed display and the branches of an event, are computed by recursive
functions; that these exist, and that what each step keeps the fold keeps, is by
induction on the size of the set folded over, with the theorems of
`WellFoundedInduction` that take no operator.  `AwaitedOnce` alone would not do:
a row that is removed and comes back must not find the answer to an earlier
request, hence every reference and not only those with a row.

Only model-checked: `OneOwner` and `ShownIsCurrent` of `DomTree`, and all
liveness.  The first speaks of closures over the tree (`Below`, `Owned`) as the
adoption and the removal of whole subtrees change them, the second of what the
document is once page and panel have heard all of each other, which is an
invariant about every event and answer under way at once; liveness needs
fairness and ENABLED, which the prover used here does not reason about.

## 5. What is left

Next in order:

1. An inductive invariant of `DomTree` for `OneOwner`, on top of `AwaitedInv`,
   and one for `ShownIsCurrent`.
2. The router's inspection gate and panel sessions around `RuleOrigins` and
   `TabRefresh`.

Not modelled, and why:

* **`SaveObserver`, `ActiveEditorCoordinator`**: one object each, driven by
  VS Code's events and its own timers; a generation counter and an abort
  controller decide what is late, and their tests drive them with fake timers.
* **Inspect leases, DOM recovery**: the lease registry and the recovery of a
  selection after its document or port was replaced.  `DomTree` keeps one
  document and one port, so recovery has nothing to do there.
* **In `DomTree`**: selection and the reveal path, epochs and a replaced root,
  prologue and epilogue, shadow roots and frames, text and attributes, hover and
  focus (with the reconciliation batches, which only concern focus), the
  eviction of records and cursors at their capacity, and mutations inside
  detached subtrees.  `Init` is the state after the root's first load.
* **In `WindowConnection`**: `coordinator.dispose()`, clients that throw while
  being created or started (only with invalid configuration), listeners that
  re-enter the coordinator, the payload of what is published.
* **In `TabRefresh`**: the IDE's highlighting, the legacy recovery key, the
  content script that reloads the styles.
* **The rest of the background router, page inspection, previews**: very large,
  mostly computation on the page or forwarding for one panel session.
* **Source plugins, resolvers, schemas, UI**: pure functions of text and
  rendering, without shared state.
