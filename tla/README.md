# Chromium for iOS: a verification project

TLA+ models of the parts of Chromium for iOS that hold the browser's own
state: the list of tabs of a window and when it reaches the disk, the session
history of a tab, the bridge through which the system's URL loading uses
Chrome's network stack, the offline copies of the reading list, and the threads
all of this runs on. TLC checks the models on small instances; TLAPS proves the safety properties
for every instance (section 5); the liveness properties stay with TLC.

Paths are relative to `src/`. Names of actions and operators are those of the
code wherever TLA+ allows it; 0-based indices stay 0-based.

## 1. Inventory

| Component | State it keeps | Operations | What is hard | Status |
|---|---|---|---|---|
| Tab list, `chrome/browser/web_state_list/web_state_list.mm` | the wrappers (WebState, opener, opener's page), the active index | insert, append, move, replace, detach, close, close all, activate, set opener | indices shift under every operation; openers are raw pointers | modelled |
| Tab order, `web_state_list_order_controller.mm` | none | where a new tab goes, which tab is selected next | computed before a removal, used after it | modelled |
| Observers of the list (bridge, fast enumeration, closing observer, tab collection mediator) | a copy of the tabs, flags, a mutation counter | one handler per notification | flags set by one notification and read by a later one; a list mutated inside a loop | partly |
| Window session, `web_state_list_serialization.mm`, `tabs/tab_model.mm` | the saved window | save, restore, old format | a crash between the two; restoring behind open tabs | modelled |
| Session history, `web/navigation/crw_session_controller.mm`, `navigation_manager_impl.mm` | items, three indices, pending and transient item, transient rewriters | load, redirect, commit, late commit, discard, reload, go, pushState, replaceState, remove, prune, restore | navigations overtake each other; redirects are skipped; an interstitial sits on top | partly |
| Interstitials, `web/interstitials` | whether one is shown | show, proceed, dismiss | changes the history while loads are pending | partly |
| Web controller and WebState, `web/web_state` | the web view and its navigations | WKNavigationDelegate and the load handlers | late callbacks of superseded navigations | only as the driver of the history |
| HTTP protocol handler, `net/crn_http_protocol_handler.mm` and its proxy | the request, the upload stream, the pause queue | start, cancel, callbacks of the network stack, pause, resume, stop | two threads, an unsynchronised pointer, pausing inside a callback | modelled |
| Request tracker, `web/net/request_tracker_impl.mm` | counts per request, closing flag | start, stop, certificate errors, trim, close | keyed by raw pointers; may drop a callback | partly |
| Session service, `chrome/browser/sessions/session_service_ios.mm`, `crash_report/crash_restore_helper.mm` | pending factories and their timers, the session files, the backup of a crashed session | save now, save later, delete, load, move aside, restore after a crash | a factory runs after the delay; the incognito model may be replaced before; kills between any two writes | modelled |
| TabModel, `chrome/browser/tabs/tab_model.mm` | the list, the factory it hands out | save, restore, notifications of the application | holds the service's factory weakly | partly |
| Reading list downloads, `chrome/browser/reading_list/url_downloader.cc`, `reading_list_download_service.cc` | a queue of tasks, the page being distilled, directories on disk, URLs waiting for a connection | schedule, download, save, delete, retry, clean up | UI and FILE thread share members; entries change during their download; restarts; lost connections | partly |
| Web threads, `web/web_thread_impl.cc`, `web/app/web_main_loop.mm` | `globals.threads` and its lock | start, stop, post a task | pointers read without the lock while threads are deleted | modelled |
| IO thread, `components/io_thread/ios_io_thread.mm` | its globals | `Init`, `CleanUp` on the IO thread | lives on one thread, used on another | partly |
| Cookies, snapshots, certificate verification, WebUI data, Omaha, sign-in, data removal, safe mode | various | various | asynchronous answers, persistence | planned (section 7) |
| UI, extensions, sync/autofill/passwords glue, web_view, crnet, build | | | | not modelled |

Interaction: `TabModel` owns a `WebStateList`; its observers are called
synchronously inside every operation. Each WebState of the list owns a
`NavigationManagerImpl`, whose last committed index the list stores with each
opener. `CRWWebController` drives the history from WKWebView's callbacks. A page
load goes through `CRNHTTPProtocolHandler` on a client thread, which posts to
`HttpProtocolHandlerCore` on the network thread; callbacks come back through the
proxy. The core reports to the request tracker of the tab and asks it about
certificate errors. `TabModel` asks `SessionServiceIOS` to save; the service
writes on a sequenced runner, and the next launch loads, or moves aside, what
is on disk. `ReadingListDownloadService` observes the reading list and queues
downloads and deletions in `URLDownloader`, which distills the page on the UI
thread and writes on the FILE thread. Every thread named here is a
`WebThreadImpl`, created and destroyed by `WebMainLoop`.

What makes each correct: the list must never have an index past its end, an
opener that is gone, or a tab that is in it twice, and must announce what it
does; a restored window must be the one saved; the history must have at most one
pending navigation, keep its committed page through surgery, and give the back
button and its menu the same answer; a load must reach its client complete, in
order and exactly once, and must release what it holds when cancelled; a save
that was asked for must not be lost, and incognito tabs must not come back; a
directory must neither outlive its entry nor be taken for a copy when it is half
written, and an entry must not wait for ever; a thread must not be used after it
was deleted, and the shutdown must end. The hazards behind these are listed, with their lines, in `PROJECT.json`.

## 2. Modules

```
WebStateList ──┬── WebStateListObservers ──── MCWebStateListObservers
               ├── WebStateListSerialization ─ MCWebStateListSerialization
               ├── MCWebStateList
               └── WebStateListProofs ── SequenceLemmas
WebStateListObservers + WebStateListSerialization + WebStateListProofs
               └── WebStateListClientsProofs
NavigationManager ──┬── MCNavigationManager
                    └── NavigationManagerProofs ── SequenceLemmas
URLProtocolClient <── HttpProtocolHandler ──┬── MCHttpProtocolHandler
  (abstract)                                └── HttpProtocolHandlerProofs
SessionServiceIOS ──┬── MCSessionServiceIOS
                    └── SessionServiceIOSProofs
URLDownloader ── ReadingListDownloadService ──┬── MCReadingListDownloadService
                                              └── ReadingListDownloadServiceProofs
WebThread ──┬── MCWebThread
            └── WebThreadProofs
```

**WebStateList.** `wrappers` is `web_state_wrappers_`, `active_index` is
`active_index_`. The list lives on the UI thread and each method runs to its
end, so each method is one action; `CloseAllWebStates` is a loop with one action
per turn. `parented` records what the delegate does to a `Tab`'s parent, and
`notified` the notifications the last operation sent, each with the active
index observers could read at that moment. `Navigate` is external: it stands
for the navigation manager of a WebState. The order controller is the pair of
operators `DetermineInsertionIndex` and `DetermineNewActiveIndex`, with
`GetValidIndex` as it is written in the code.

**WebStateListObservers** composes the list with three observers. Since they
are called synchronously, `ListStep` is an operation of the list together with
what they make of its notifications, one after the other (`Observed`). The enumeration helper's `_mutationCounter` is the flag
`mutated`. `GiveNext` is a turn of the compiled loop, which compares the counter
before it hands an element of the buffer to the body; `CountByEnumerating` is the
call for the next batch, which comes before that comparison. The body may run any
operations of the list in between; `body` is what it was given.

**WebStateListSerialization** composes the list with saving and restoring.
`SaveSession` and `RestoreSessionWindow` are the TabModel's methods;
`Restart` is the process being killed. `Init` starts with no session or with one
of an older version, whose tabs refer to each other by id. The restore that
closes the old NTP tab is one call in the code; the model gives the close a
step of its own (`ClobberNTP`) and lets nothing but a crash come between.

**NavigationManager** is one tab's history. A URL is a pair of an origin and a
ref, which is what tells apart same-document navigations, hash changes and the
rest. An action covers a whole handler: `LoadURLWithParams` is
`-[CRWWebController loadWithParams:]` with everything it does to the history
through `AddPendingItem` and `registerLoadRequestForURL:`. A load ends in a
later action: it commits (`CommitNewItem`, `CommitHistoryItem`), commits after
a newer one was started (`CommitLateNavigation`), is discarded, or is
overtaken.

**HttpProtocolHandler** is one load. `tasks` are the tasks posted to the network
thread, `posted` the invocations posted to the client thread, both in order;
`queued` is the proxy's queue for a paused load. Handlers of the core are
actions; `Post` models the proxy's unlocked read of `_protocol`: once the client
thread has cleared it, any prefix of a handler's calls may still be posted. The
client may pause or stop the load on its own and inside any callback.
`net::URLRequest` and the client are not in the repository and are modelled
from how this code uses them. `sent` and `received` are history variables.

**URLProtocolClient** is the abstract specification: what a client may observe.
The comment at the head of `HttpProtocolHandlerCore` quotes that contract.

**SessionServiceIOS** has two models, `"main"` and `"otr"`, and a session is the
set of its tabs. `pending` is `_pendingSessions`: no factory, a factory whose
TabModel is there, or one whose TabModel is gone (it then archives nil); `timer`
is the delayed `performSaveToPathInBackground:`; an immediate save
(`SaveImmediately`) cancels the timers of all paths and uses up one factory, and
`SaveNow` is two of them, one for each model; `queue` holds the tasks of
`_taskRunner`, a deletion being a write of no file. `CloseTab` of the last
incognito tab posts the deletion of the file and, through the IO thread,
`-deleteIncognitoBrowserState` (`DeleteIncognitoTabModelState`), which replaces
the model. `Die` loses everything that is not on disk; `Terminate` lets the
runner finish first. A launch takes one of two paths by the flag of a clean exit, which is
written on a thread of its own (`CommitPendingWrite`). `requested`, `swept` and
`ended` are history variables.

**URLDownloader** is the downloader alone: its queue and one conversation at a
time, `wait`, with the FILE thread or the web. `FileStep` is what the FILE
thread does, with the answer left in `wait` for the UI thread; a save is two
steps, so that the process may die with a directory half written. `page` is the
`ReadingListDistillerPage`, which may be loaded up to `MaxLoads` times while it is
distilled, as it is for a Google AMP page, which loads the page in its frame; `render`
counts what it has posted (`DelayedOnLoadURLDone`, the scripts of the AMP and
Wikipedia workarounds). These stay posted when the page is detached, and are stopped
by the checks of `CurrentWebState()` when they run (`ContinuePageDistillation`). **ReadingListDownloadService** composes it with its client: the
entries of the reading list (external: the model is not in the tree), the
clean-up at start, the downloads scheduled after a delay, the URLs parked until a
connection comes, and the notifications of the connection, which are delivered
later than the change. `Restart` keeps the entries and the disk.

**WebThread** has one action for each access to `globals.threads`: `Scan` and
`Compare` are the loop of `GetCurrentThreadIdentifier`, which takes no lock,
`Acquire`, `Lookup`, `ReadMessageLoop` and `Deliver` the rest of `PostTaskHelper`: the
entry of the array, the `message_loop()` of the thread, and its use. A thread that
stops ends its message loop in a step of its own, `MessageLoopEnds`, whoever has the
lock; `CleanUp` needs the lock only for `CurrentlyOn`. The threads are
numbered in the order of the enumeration; the last is the IO thread with its
delegate. `Construct` to `DeleteThread` are `WebMainLoop::CreateThreads` and
`ShutdownThreadsAndCleanUp`. A thread of the pool may post too.

## 3. Runs

Sizes are distinct states. Each property of a passing run has a mutant of the
code's logic in `PROJECT.json` that violates it.

| Run | Instance | What it shows |
|---|---|---|
| `tab_list` | 3 tabs with two pages each, symmetry; 347 169 | `ActiveIndexValid`, `OpenersInList`, `SelectionKept`, `ActiveChangeNotified`, and `NewTabJoinsGroup`, also when a tab's opener has left the page it was opened from |
| `observers` | 3 tabs, batches of 2; 332 452 | `ConsumerMirrorsList`, `EnumerationInOrder`, `SavedIffActiveClosed` |
| `sessions` | 3 tabs, saved windows of up to 2; 442 089 | `RoundTrip`, `RestoredApart`, `SelectionRestored` |
| `history` | 3 URLs of 2 origins with 2 items, or 1 URL with 4 items, redirects and reloads; 156 044 | `IndicesValid`, `OnePendingItem`, `CommittedPageKept`, `NewPageEndsHistory`, `BackButtonMatchesList`, `ForwardThenBack` |
| `http_load` | 3 chunks, 3 pauses; 16 667 | `StreamIntact`, `CancelReleases`, `NoStaleCounts`, `ClientContract` (refinement), `LoadEnds` (liveness) |
| `reading_list` | 2 URLs, pages that load up to twice, 3 events, give up after 2 failures; 778 448 | `TypeOK`, `QueueServed`, `NoOrphans`, `PartialNotFound`, `SaverAlone`, `ProcessedWithCopy`, `EntrySettles` (liveness) |
| `session_service` | 2 tabs, 5 events; 319 073 | `TypeOK`, `NoSaveLost`, `IncognitoGone`, `InfobarHonest`, `RestartKeepsTabs`, `SavedEventually` (liveness) |
| `web_threads` | 3 named threads and one of the pool, 2 posts; 153 500 | `TypeOK`, `NoDanglingPointer`, `OutlivedReached`, `DelegateBalanced`, `ShutdownCompletes` (liveness) |

Why the bounds suffice. Three tabs hold an opener, a child and a stranger, or an
opener with children of two of its pages; what more tabs would add is covered by
the proofs. Two saved tabs behind one open tab exercise the
shift of opener indices. Two items give a back and a forward direction and a
pending history item; offsets need four so that a redirect chain can sit between
two pages on each side of the current one. `MCBound`, a constraint of that run, gives
only histories of up to two items all URLs, or both user agents; longer ones have one
URL, and those of four items no reloaded page. Three chunks and three
pauses let a load be paused while it has received some, queued some and posted
some, be resumed and be paused again while the queue is running. Three events
of the reading list let an entry be added, then removed or interrupted while it
is downloaded, and added again or reached by a connection; the limits on
failures (5 and 7 in the code) become 1 and 2, so that an entry is retried once, with
wifi only, and then given up; two loads of a page are what it takes to load an AMP
page, to be redirected and then get a PDF, and to have something still posted when
the page is detached. Five events of
the session let a last incognito tab be opened, closed, and opened again before
its model is replaced, with a crash and a launch left. Three threads are the
first, the last and one between; two posts let two threads be in
`PostTaskHelper` during the shutdown. Larger instances pass as well: 4 tabs that do not navigate
(22 648), 6 session events (3.1 million).

`MaxItems` (items of a tab), `MaxRestored` (items of a restored or copied
history), `MaxSavedTabs`, `BatchSize`, `MaxChunks`, `MaxPauses`, `MaxLoads`,
`MaxEvents` and `MaxPosts` are the bounds; all are constants.

Deadlock checking is off where the system really ends, or rests once the events
of the environment are used up: a load, the reading list, the session, the
shutdown.

### Findings

Four runs are expected to violate what the repository says of itself:

| Run | Property | The code | What it says |
|---|---|---|---|
| `first_child` | `FirstChildSelected` | `web_state_list_order_controller.mm:88`, `std::min(0, index - 1)`: every successor behind the removed tab becomes tab 0 | lines 48-50: the first child is selected |
| `download_exists` | `ExistsIsNoFailure` | `reading_list_download_service.cc:246`: `DOWNLOAD_EXISTS` comes with an empty path and is taken for an error, so an entry that has its copy becomes `WILL_RETRY` | `url_downloader.h:49`: "The URL was already available offline. No action was done." |
| `redirected_pdf` | `SavesForOriginal` | `url_downloader.cc:219`: `OnURLFetchComplete` reports the URL the fetcher was created for, which is `distilled_url_` after a redirect (line 229), while the PDF is in the directory of `original_url_` | `url_downloader.h:75`: "The completion callbacks will be called with the original url" |
| `post_task_race` | `PostTaskSafe` | `web_thread_impl.cc:461`: `GetCurrentThreadIdentifier` reads an entry of `globals.threads` and then uses it, without the lock; a thread of the pool, which outlives the named ones, meets a thread deleted in between | `web/public/web_thread.h:55-56`: "It's always safe to call PostTask on any thread. [...] There are no race conditions." |

The other properties hold with the first two in the models: an index of 0 is
valid and some tab is selected, only not the promised one; an entry that lost its
state is tried again, or given up. The third takes two loads of one page, the
first redirected and the second a PDF. A save that fails then is cleaned up under the
wrong URL, and one that succeeds is reported for it, so its own entry stays
`PROCESSING` until the next start. What rests on the reports says so: `PartialNotFound`
and `EntrySettles` assume `SavesForOriginal` throughout, `ProcessedWithCopy` only in
the step that makes an entry processed.

The fourth ends at the first conjunct of `PostTaskSafe`. The second one fails too: a
named thread that holds the lock has read `message_loop()` (`web_thread_impl.cc:313`)
when the message loop ends, because `Stop()` runs outside the lock (line 277), and posts
to it (line 318). How `base::Thread` ends its message loop is not in the tree, so the
finding rests on the first. `NoDanglingPointer` is what is left of the promise: pointers
to threads are good under the lock and, for named threads, without it; message loops
are good for the main thread, which joins the others, and for callers that need no
lock, whose targets outlive them.

More of the repository's comments say something else than its code. They have
no run of their own; the models have what the code does:

* `web_state_list_fast_enumeration_helper.mm:118` implements a selector the
  bridge never sends (`web_state_list_observer_bridge.mm:51`), so a replaced tab
  is not counted as a mutation, as line 41 says every one is.
* `navigation_manager_impl.mm:184-188`: the pending item that is given a user
  agent may be an older one that has the desktop one, against the comment and
  the `DCHECK_NE`.
* Transient rewriters outlive a load that creates no item
  (`crw_session_controller.mm:311`), against `web/public/navigation_manager.h:118-121`.
* `crw_session_controller.h:102` says a transient item is "discarded on any
  navigation", but the commit of a history item keeps it (`commitPendingItem`,
  line 421 of the implementation); and going forward keeps a pending history
  item (line 557, against line 137 of the header).
* `request_tracker_impl.mm:601` drops the certificate callback of a request it
  does not know; `crn_http_protocol_handler.mm:442` says the tracker will invoke
  it.
* `web_state_list_fast_enumeration_helper.mm:87`: the `DCHECK_LE` fails when the body
  of a for-in loop closes tabs while it handles the last element of a batch, because the
  next batch is asked for before the loop looks at the mutation counter. Where `DCHECK`s
  are off, the loop gets a huge count and raises its exception then. No loop body in
  the tree inserts, moves or closes tabs, so this is a limit of the helper and not a
  failure of the program.
* `url_downloader.h:38-39` says that a deletion cancels the downloads of its URL:
  only the queued ones, not the one that is running.
* `session_service_ios.h` says that a delayed save is ignored while another is
  pending; the code replaces the factory, which `NoSaveLost` needs.
* The `DCHECK` at `browser_view_wrangler.mm:240` does not hold when an incognito
  tab is opened between the last close and the destruction of its browser state;
  the comment above it says so and calls it unlikely. The tab is lost then, and
  `swept` excuses it in `IncognitoGone`.

## 4. Fairness

* `HttpProtocolHandler`: weak fairness of the posted tasks (`Start \/ Cancel`),
  of posted invocations and of the proxy's loop, since both threads run what is
  posted to them; of the callbacks of the network stack, which answers a started
  request; and of `Resume`, since a client that paused a load resumes it or
  stops it. `LoadEnds` excludes a load whose certificate the tracker was left
  to judge: the tracker may drop the callback, and that load waits for ever.
* `ReadingListDownloadService`: weak fairness of every posted task (the clean-up
  and its reply, scheduled downloads, replies of the FILE thread, notifications
  of the connection) and of the distiller and the fetcher, which answer or time
  out. Entries, connections and restarts are not fair; `EntrySettles` assumes
  that from some time on there is a connection, and that saves are reported for the
  URL that was asked for: a save reported for another one leaves its entry
  `PROCESSING`.
* `SessionServiceIOS`: the delay of a save ends, the runner runs its tasks, the
  trip through the IO thread ends, and preferences are written. Nothing the
  user or the system does is fair.
* `WebThread`: threads run, a lock that is released again and again is granted
  to who waits for it (at most `MaxPosts` calls compete for it), and the main
  thread goes on. `PostTask` and the decision to shut down are not fair.
* The other specifications state no fairness; their properties are safety.

## 5. Proofs

All for arbitrary constants satisfying the named assumptions
(`WebStateListAssumption`, `NavigationAssumption`, `HandlerAssumption`,
`DownloaderAssumption`, `ServiceAssumption`, `SessionAssumption`,
`WebThreadAssumption`: bounds are natural numbers, the null value is not an
element, transitions and options are known ones, a download gives up after at
least one failure and asks for wifi no later, there are at least two named
threads and the pool's are others).

* **WebStateListProofs.** `IndInv` is `TypeOK`, `ActiveIndexValid`,
  `OpenersInList`, `ParentedOnce` and "a closing loop has a tab to close". They
  need each other: `DetermineNewActiveIndex` falls back to the index of the
  opener, which is valid after the removal only if the opener is another tab
  of the list (`OpenersInList`) that occurs once (`NoDuplicates`). Theorems:
  `Invariance`, `TypeCorrect`, `ActiveIndexAlwaysValid`,
  `OpenersAlwaysInList`, `AlwaysParentedOnce`, and, from the same invariant,
  the action properties `SelectionAlwaysKept` and `ActiveChangeAlwaysNotified`
  (one lemma per operation: what it notifies against what it does to the
  active index) and `NewTabAlwaysJoinsGroup`. The last one follows the loop of
  `GetIndexOfNthWebStateOpenedBy`: with a limit no run can reach it answers the
  end of the first run of the opener's page (`LastOfGroup`), and
  `LinkInsertedBehindGroup` reads the neighbours of that place.
  `SequenceLemmas` says what inserting and removing an element do to a sequence,
  and that a bounded set of numbers has a greatest element.
* **WebStateListClientsProofs**, about observers. `ObsInv` is the list's `IndInv`
  with the types of the observers, `ConsumerMirrorsList` and `EnumerationSound` (the
  tabs given to the loop body and those in its buffer are the first of the list, up to
  the offset, unless the counter has changed or a tab was replaced): what an observer makes of a notification depends on the
  index in it, which is right because the list's own invariant holds. An
  operation sends at most four notifications, so the recursive `Observed` is
  unfolded by hand (`ObservedInOrder`); a removal is the hard case, since the
  consumer drops the tab at `detached` and moves its selection only at
  `activated`. Theorems: `ObserversInvariance`, `ConsumerAlwaysMirrors`,
  `EnumerationAlwaysInOrder`, and the action property `SavedExactlyForActive`.
* **WebStateListClientsProofs**, about sessions. `SerInv` is `IndInv` with
  `OpenerlessPlain` (a wrapper without an opener has no navigation index, which a
  saved window could not tell apart), `SessionSound` (the window on disk is of an
  older version, or agrees tab by tab with `saved`: `TabSaved`) and
  `RestoringSound` (between the restore and the closing of the old NTP tab there
  is one more tab than was saved, and the selection is one further on). A restore
  appends wrappers that hold fresh WebStates and refer to each other only
  (`RestoredWrapperSound`), so `OpenersInList` and `NoDuplicates` survive it.
  Theorems: `SessionsInvariance`, `RestoredAlwaysApart`,
  `SelectionAlwaysRestored`, and `RoundTripAlways`, which composes what
  `SaveSession` wrote with what `RestoredAsSaved` reads back. The bound
  `MaxSavedTabs` is arbitrary in them.
* **NavigationManagerProofs.** `IndInv` is `TypeOK /\ IndicesValid /\
  OnePendingItem`; reading or writing the item at an index is type-correct only
  while the index is in range, and pruning the forward items keeps the pending
  index in range only because a new item is pending then. Theorems:
  `HistoryInvariance`, `HistoryTypeCorrect`, `IndicesAlwaysValid`,
  `AtMostOnePending`, and the action properties `CommittedPageAlwaysKept` and
  `NewPageAlwaysEndsHistory`, which rest on the indices being in range.
  `BackButtonAlwaysMatches` and `ForwardThenBackReturns` follow the loop of
  `GetIndexForOffset`, which skips redirects: one step of it ends at the nearest
  item that is not the target of a redirect, the item the back list starts with.
* **HttpProtocolHandlerProofs.** `StreamIntact` is not inductive: an invocation
  that arrives at a load that is not paused overtakes the queue unless the
  queue is empty then. `IndInv` adds `QueueIdle` (the queue is empty unless
  the load is paused or the queue is being run), `StartOnce` (`Start` runs once,
  before anything is said), `EndIsLast` (what ends the load is the last thing
  said, with the request gone) and `CompleteSeen`. `CancelReleases` needs
  `Released` as well: until a stopped load has no request, `Cancel` is the last
  task posted for it. Theorems: `LoadInvariance`, `LoadTypeCorrect`,
  `StreamAlwaysIntact`, `NothingEverAfterComplete`, `CancelAlwaysReleases`,
  `CountsNeverStale`. `ClientContractImplemented` is the refinement of
  `URLProtocolClient`: the client's phase and the last piece of data are read
  off `received`. `ContractInv` says that the core speaks in the contract's order
  (`InOrder`), where in it the request is (`SaidByRequest`), and that the client
  has heard a prefix of what was said, also after it stopped the load
  (`HeardPrefix`, which `StreamIntact` does not give); so the next callback is a
  step of the contract (`CallbackSimulates`).
* **ReadingListDownloadServiceProofs.** `NoOrphans` is not inductive: a queued
  download of an entry that is gone would create a directory nobody deletes.
  `IndInv` adds `GoodQueue` (a queued download has its entry, or a deletion of
  its URL behind it in the queue), `RunningCovered` (the same for the running
  one), `WaitURLs` (the running task knows its URL), `FailuresBounded` (only an
  entry that was given up has used up its failures), and `QueueServed`. Theorems:
  `TypeCorrect`, `QueueIsServed`, `NothingOrphaned` and, from the same
  invariant, the action property `SaverIsAlone`. For the copies on disk,
  `CopyInv` adds `PartialCovered`: a half-written directory is that of the running
  save, or is removed before anybody looks for a copy there (by the clean-up of a
  failed save, by the one at start or by a deletion that comes first in the
  queue), or nobody will look, its entry being processed. It is inductive only while `SavesForOriginal` holds,
  the hypothesis of `PartialNotFound`, which `PartialNeverFound` proves for any number
  of loads of a page. `ProcessedOnlyWithCopy` needs less: `WholeInv` says that a save
  that was answered as successful has left a complete copy in the directory of
  `original_url`, whatever was reported before.
* **SessionServiceIOSProofs.** `IndInv` is the safety invariants with three
  facts: `Gone` (a process that ended left only its files, and if all was saved they restore its
  tabs), `GoneFactory` (only the incognito model's factory outlives its model, and
  no save was asked for since) and `GoneInBackground`.
  What a queue of writes leaves on disk (`EndsAs`) is followed through appends
  and through the run of its head by lemmas of their own. Theorems:
  `TypeCorrect`, `SavesAreKept`, `BackgroundIsSaved`, `IncognitoIsGone`,
  `InfobarIsHonest`, `RestartKeeps`.
* **WebThreadProofs.** `IndInv` is `TypeOK /\ Stage /\ Calls /\ Delegate`.
  `Stage` says of each place of `WebMainLoop` which threads are up (`Up`), gone, or
  in between; `Calls` says of a thread in `PostTaskHelper` that it runs, and, if
  it holds no lock there, that it is a named thread whose target comes before it; a
  message loop that the main thread has read is not ended, since only the main thread
  stops the others.
  The targets of the shortcut are up because the threads go in the reverse order
  of their list. Theorems: `TypeCorrect`, `PointersAreSafe`, `ShortcutIsSound`,
  `LifetimesAreNested`, `DelegateIsBalanced`.

The type invariants of the first three modules, `ParentedOnce`,
`NothingAfterComplete`, `SavedInBackground` and `ListedByLifetime` are proved
and have no run: the proofs cover every instance.

Only model-checked: the liveness properties `LoadEnds`, `EntrySettles`,
`SavedEventually` and `ShutdownCompletes`, since fairness and `ENABLED` are out
of the prover's reach. Every other property of a passing run is proved.

## 6. What the models leave out

* Native pages, which commit inside the call that loads them; POST data,
  titles, scroll state and SSL status of an item; favicons and facades.
* The delay of a save in `WebStateListSerialization`, where a save is immediate;
  the delay is the subject of `SessionServiceIOS`, where a window is a set of
  tabs.
* Re-entrant calls to a `WebStateList` from an observer: none of the observers
  modelled makes one.
* The metrics, synced-window and selected-tab observers, which change no state
  of the parts modelled.
* The client resuming a load from inside a callback, which would run the first
  element of the proxy's queue twice
  (`crn_http_protocol_handler_proxy_with_client_thread.mm:110-117`): no caller in the
  repository does it.
* The tracker's load estimates, policies and observers, several requests of one
  tracker, and the certificate callback it runs with `NO` when it trims a request
  (`request_tracker_impl.mm:1126-1127`).
* A tab that is its own opener: `SetOpenerOfWebStateAt` would accept one, but only a
  corrupt session of the old format has it.
* The `FORWARD_BACK` bit of the transition of a history load
  (`crw_web_controller.mm:2095-2096`).
* Sessions: a save skipped because tabs are there but none is selected (a
  transitional state inside one call), the list of recently closed tabs, and the
  failures of moving a session aside, which leave the file where it was.
* Reading list: a `base::DeleteFile` that fails, the result of a second distiller script in
  a page that loaded twice (the distiller is external and takes the first), articles of several pages, `CancelTask` (nobody calls it), tasks
  that hold the downloader unretained when it is destroyed. The vectors
  `url_to_download_cellular_` and `url_to_download_wifi_` are never cleared;
  they are counts here, bounded only by the events.
* Threads: the `Run` functions of `WebThreadImpl`, which only mark the stack,
  `PostTaskAndReply`, which posts twice, and the request context getter the IO
  thread's `CleanUp` uses (`ios_io_thread.mm:372`), created by a task on the UI
  thread. base's threads and message loops are external.

The rest of the repository is mostly user interface and glue to components that
are not in the tree. The parts with logic of their own that are still missing
are in the plan.

## 7. Plan

Order of the work, the most important behaviour first. Done: the tab list with
its observers and sessions, the session history, one HTTP load, the session
service, the downloads of the reading list, the threads, and a theorem for each
safety property.
Next:

1. `RequestTracker`: several requests of one tab over UI and IO thread
   (`counts_by_request_`, estimate rounds, `TrimToURL`, `Close`), composed with
   `HttpProtocolHandler` for the certificate callback.
2. `CRWWebController`'s navigations (`CRWWKNavigationStates`): the states of
   in-flight navigations, composed with `NavigationManager`; native pages.
3. `CookieStoreIOS` and `CookieCache`: synchronisation with the system store and
   change callbacks; an abstract cookie store as the specification.
4. `OmahaService` (ping and retry timers, persisted), the browsing data remover,
   `SnapshotCache` with its LRU cache, certificate verification,
   `URLDataManagerIOSBackend`, `AuthenticationService`, crash-loop detection.

## 8. Running

`tlc -config <file>.cfg <module>` with the pairs of `PROJECT.json` `runs`, and
`tlapm <module>.tla` for the modules named `*Proofs` and `SequenceLemmas`.
