# A verification project for the Overland GPX editor

TLA+ modules of the parts of this repository whose correctness depends on the
order of things: who holds which lock when, what a crash leaves on disk, which
request overtakes which. Each module is translated from the source named in it;
`PROJECT.json` maps every definition to the lines it stands for.

Run a check with `tlc -workers 2 -config <run>.cfg <module>` and a proof with
`tlapm <module>.tla`.

## 1. The system

A Go server (`internal/server`) serves a React application (`src/`), caches what
it fetches from map, elevation, routing and POI providers on disk, downloads
regions ("packs") for offline use, and keeps tracks and accounts in files. An
MCP server (`internal/mcp`) lets agents drive an open page through a broker.
`mobile/` embeds the same server in an Android application.

| Component | State | Operations | Talks to | Hard behaviours |
|---|---|---|---|---|
| Offline mode controller, `provider.go:30-115`, `offline.go:205-270` | mode, network generation (a cancellable context), count of transfers | set, networkContext, release | every outbound transfer; management requests | a drain gives the mutex up; clients overlap |
| Outbound client, `provider.go:291-612` | in-flight table, circuits, rate groups | do, fetch, revalidate | cache store, offline controller | coalescing; a 304 racing pins |
| Provider cache, `cache_store.go` | index, body and sidecar files, backups, byte counters, access log | get, put, remove, pin, clear, expire, recover | outbound client, packs, disk | two locks; crashes between renames; failing syncs |
| Storage accounting, `storage_quota.go`, `cache_store.go` | bytes per scope, pinned bytes, admission windows | admit, make room, release | cache, elevation tiles, packs | counters adjusted at many places |
| Pack manager, `packs.go`, `packs_regional.go` | manifests in memory and on disk, running jobs, queue | start, retry, cancel, delete, run, fill the queue, recover | cache (pins), elevation tiles, maps, disk | jobs outlive their deletion; slots change hands over several critical sections; crash recovery |
| Elevation tiles, `elevation_tiles.go`, `elevation_pins.go` | memory LRU, tile files, pins, in-flight downloads | grid, load, prefetch, pin, evict | offline controller, packs | memory and disk diverge; shared downloads |
| Map generations, `maps.go` | active style generation, pinned one, files | activate, refresh, pin, restore | outbound client, packs | activation while another refresh runs |
| Routing data, `broom*.go` | current dataset, selection file, jobs, sessions | prepare, replace, upgrade, route | files, external router | replacement while routes are computed |
| Owners and their caches, `owner*.go`, `spaces.go` | one store per owner, idle timers | open, evict, remove | HTTP handlers | eviction while in use |
| Track library, `files.go` | GPX files, revisions | list, save, move, delete | disk | conditional saves |
| Passkey accounts, `internal/passkeyauth` | users, credentials, ceremonies, sessions in a file | register, log in, reset | disk, WebAuthn library | one-time tokens; concurrent ceremonies |
| MCP broker, `internal/mcp/bridge.go` | views, queues, pending calls, streams | Call, handleView, handleEvents, handleResult, prune, Close | agents, the page's hook | wake-ups shared by streams; redelivery; pruning |
| Page's MCP hook, `src/useMcpBridge.ts` | promise queue, deliveries, sequence number | publish, handle, submit, open the stream | broker | lost answers, reconnects, overtaking publishes |
| Track editor and library of the page, `src/App.tsx`, `RideCheck.tsx` | open track, selection, undo list, unsaved mark, library list | open, edit, undo, save, delete, the agent's commands | library on the server, broker hook, Broom | replies applied to what the page shows now; an agent edits beside the user |
| Route planner of the page, `src/App.tsx`, `lib/planner.ts` | control points, profile, session, route, busy mark | edit, route, upload a profile, save, search | Broom, geocoding, POI | aborted requests that still answer; the dataset changes under a route |
| Page shell, `src/App.tsx`, `useEscapeDismiss.ts` | messages, offline mode, tile progress, stack of open panels | show, switch, dismiss | offline controller, map | complaints of the map before and after a switch |
| Region manager and downloads, `OfflineRegions.tsx`, `RegionBrowser.tsx`, `useRegionDownloads.ts`, `downloads.ts` | packs as last polled, target, notified; the way into an area; estimate | start, stop, remove, poll, walk, ask | pack manager, routing data | polls overtake commands; an estimate for a region one has left |
| Library of the page, `src/lib` | session caches, rate-limited queue, in-flight data set | plan packs, edit tracks, read and write GPX, fuel, access, searches, decoding | providers, backend | date line, rounding, pools and queues, malformed answers |
| Mobile app, `mobile/frontend/src` | document, undo list, questions, tasks, draft, panels | edit, save, share, restore, back | embedded server, Android's inbox | drafts written one after the other; lost acknowledgements |
| HTTP server, telemetry, command line, mobile host, Android shell, map layers | wiring and platform | | all of the above | start and stop |

What makes them correct, in a sentence each:

- offline mode: once a switch to cache-only is answered nothing uses the network,
  and once a switch to auto is answered transfers start again;
- cache: what was stored and not removed is found, also after a crash, and is
  whole; a pinned entry stays until its last pack lets go;
- packs: a bounded number of jobs and places, nothing forgotten, nothing twice;
  what a pack counts as its own is in the cache, pinned for it; what is removed
  leaves nothing behind;
- broker: each call is applied at most once and in order, an agent reads its own
  writes, and every call ends;
- page and app: what is shown answers the latest question for what is on the
  screen; unsaved work is never replaced unasked; what says "busy" has somebody
  who will end it; a ride survives a restart;
- library: parts and packs cover an area exactly; edits and files keep the
  track; a rider is warned of every dry or closed stretch and of nothing else;
  what the page cannot read makes it careful rather than bold;
- the server parts without a module: see the plan.

## 2. Modules

| Module | Models | One step is |
|---|---|---|
| `NetworkGate` | what the offline switch promises | an abstract transition |
| `OfflineMode`, `OfflineProofs` | `offlineModeController` and its HTTP handler; implements `NetworkGate` | one critical section of the controller's mutex |
| `CachePair`, `CacheProofs` | one cache entry on disk: replacement, rollback, removal, recovery | one file operation |
| `CacheFetch`, `CacheProofs` | one resource and everybody who uses it: callers, the shared fetch, pins, eviction | one critical section, or one network answer |
| `PackJobs`, `PackJobsProofs` | the queue of the pack manager | one critical section of `packManager.mu` |
| `PackPins`, `OfflineProofs` | pins, manifests, workers, deletion and recovery of packs | one critical section of the store or the manager |
| `McpBridge`, `McpBridgeProofs` | the broker and the page's hook, with the connections between them | one critical section of `Bridge.mu`, or one turn of the page |
| `RegionDownloads` | both hooks that follow a download (`useRegionDownloads.ts`, the app's `downloads.ts`), the start they share, the server's list | one handler, one reply |
| `RegionManager` | the dialog `OfflineRegions.tsx` and the app's `RegionBrowser.tsx` | one handler, one answer |
| `TrackEditor` | library and track editor of `App.tsx`, with the agent's commands | one handler, one answer |
| `RoutePlanner` | planner, routing effect, profile sessions | one handler, one answer, one run of an effect |
| `PlannerSearch` | place, around and POI searches and heights of the planner's map | one handler, one answer |
| `TrackAnnotation` | the road match a ride check shows | one effect, one answer |
| `PageShell` | messages, offline switch, tiles of the view, Escape, intro, cursor | one handler, one answer |
| `MobileEditor` | library, editor, questions, tasks and inbox of the mobile app | one handler, one answer |
| `MobileRide` | draft, route of the plan, panels and back button of the app | one handler, one write |
| `PlaceSearch`, `ElevationProfile`, `AreaSearch`, `Fuel` | the parts of `src/lib` that keep a state: rate-limited search, worker pool, session cache, shared data set; and their pure functions | one request or answer |
| `Geometry`, `RegionPlan`, `TrackEdit`, `TrackReport`, `TrackView`, `GpxFile` | pure functions of `src/lib` and of the components that draw a track | |
| `Wire`, `Replies`, `McpCommands` | decoding of configuration, replies and agent commands | |
| `Library`, `RegionProofs`, `LibraryProofs` | the pure functions, asked one question; what they may be asked and what their answers promise | the answer |
| `Client`, `PageProofs`, `MobileProofs` | the parts of the page, of the app and the library side by side, and what they promise | a step of one part |
| `MCClient` | values for the constants of `Client`, among them the questions to the library | |

The other `MC*` modules add symmetry sets and model values for TLC.

How the pieces fit. `OfflineMode` is what every transfer passes first.
`CacheFetch` is one key of the provider cache seen from the index, `CachePair` the
same key seen from the disk. `PackJobs` decides which pack has a job,
`PackPins` what a job does to the store; a job is in both, as "running" there
and as `job[p].at` here. `RegionDownloads` sees the pack manager only as the list
it answers with. The composition is by assumption and not by INSTANCE:
`PackPins` has, of `CacheFetch`, the two things that undo a pin: revalidations that
write back an older copy of the metadata, and removals of an entry that is pinned.

`Client` composes the client side with `INSTANCE ... WITH`. The parts share no
state: each has the variables of its own hooks or of its own module, and React
runs one handler at a time. A behaviour therefore chooses a `part` at the start
and only that one moves; interleaving two of them would multiply the states
and show no new one of either. The choices that a part begins with (a task, a
concern, a length) are fixed while another one moves. In the part "library"
the steps are those of `Library`: a behaviour asks one question and the answer is
the next state. What may be asked is said there too (`AreaQuestion`,
`FuelQuestion` and so on; `LibraryAssumption` has every question be of its kind),
as weakly as the properties allow: a track to be edited has two points, stops
come in the order of the track, spans of a road match follow each other.
No function of the library is declared RECURSIVE: what the code computes in a
loop or by calling itself is a recursive function on the numbers that it goes
through, so that it can be reasoned about. Areas are nested in parts of parts;
`MaxNesting` bounds how deep they are followed, and an area below it counts as
skipped by a plan and as missing from a download. The halving has a limit of
its own in the code (`SPLIT_DEPTH`), and a grid is never cut into a grid again
unless its cells still do not fit. Five levels are all that the areas of the run
have: an area, a part of the catalogue, a cell of the grid and `SplitDepth` = 2
halvings.

A question about areas is asked the way the page asks it: `StartPlans` normalizes
the corners once more before anything is planned, as `startRegionDownload` does,
and an area may be cut into parts by the catalogue, which do not fill it. A
question about packs names the group (maps, terrain, places), and a pack reports
of every group what `packFinished` and `packGroups` read: done, total, failed,
whether it is there at all, and whether it was unavailable.

### OfflineMode

`current`, `generation`, `active` are the controller's fields; `fetch[f]` is a
goroutine that holds a network context ("running", or "cancelled" once its
generation is); `pc[c]` a management request. `cond.Wait` is two states,
"waiting" and "woken", so that anything can happen between `Broadcast` and the
re-test. A generation has no name: one is replaced only after it was cancelled,
so that the transfers of the live one are those that are "running".

### CachePair

Four files, each holding the version it was written for. `todo` is the list of
file operations that the call under way has yet to take: `PutOps`, `Rollback`,
`RemoveOps`, and the two passes of the recovery. `Step` takes the next one.
Any of them may fail: where the code looks at the error the call fails
(`PutFails`, `RemoveFails`), where it does not, in rollbacks, recoveries and the
removal of backups, it goes on (`Unnoticed`). `Crash` may come at any time and
`Stop` between two calls. `accepted` is the set of versions that a reader may
legitimately find; a removal that succeeded leaves only "none" in it.

### CacheFetch

`seen[c]` is the metadata a reader copied before it read the body without a lock;
`fetch` is the in-flight record with the stale metadata it took along; `locked`
is `writeMu`. `holders` remembers which packs were told that the entry is pinned.
The upstream never goes back to an earlier version. A put may fail before the
files are touched (`StoreFails`) or after, when only the sync of the directory
fails and the index keeps the old entry over the new body, or half-way through
its renames (`StoreBreaks`); a removal may lose its files' errors
(`RemovalFails`). `torn` remembers that one of these happened and nothing
succeeded since.

### PackJobs

An element of `Objects` is one `packManifest` value, not one pack: a retry makes a
new value under the old ID and a deleted value lives on in its goroutine. A
finished job gives up its slot and looks at the queue in two critical sections;
the code between them is where others get in. The queue is the code's
`queueSeq` order, so leaving it (`Unqueued`) is a change of state or of `working`
in Go and the removal of one place here. An input has labels (a name, the kind
of coverage, whether it was automatic): `Matching` compares them as
`matchingPackLocked` does, `Retried` only what `Area` keeps, as
`retryPackLocked` does, and the newest of several failed attempts is any of
them, since the order of `updatedAt` is not kept. A removed pack is out of the
list before its file is (`Delete`, `Cleaned`); a restart in between brings it back
(`Restart`, `returned`).

### PackPins

Every pack wants every key, each key of a running pack has a worker, and the
worker's pin, its manifest update and its release of a rejected pin are separate
steps. An entry that nobody pins may be evicted (`Evict`), and any entry may go
when it is prohibited, found corrupt or expired by force (`Lost`). Somebody who
revalidates copies the metadata (`Copy`), and writes the pins of that time back at
any later one (`WriteBack`) or not at all (`Drop`). A release may fail
(`UnpinFails`), which the code ignores. `lapse` remembers, for each pack and key,
that a pin went without the pack's doing ("taken"), outlived its release ("left"),
or had no entry any more at a restart ("wiped"): the properties name these
exceptions, and the runs and theorems show that there is no other. `Restart` is
a crash together with `newPackManager`, which runs before the server listens.
`Wipes` lets entries be missing after it.

### McpBridge

`token[v]` is the content of the one-place `notify` channel of the view that is
registered now; a stream whose `own` is false still holds the channel of a view
that was pruned. `net[v]` are publishes on their way: they arrive in any order.
A snapshot is abstracted to the number of commands the page had applied.
`unseen` collects the calls that were answered for without a publish, because
they failed or because the publish was given up, as the hook's comment grants.
Every wake-up is merged with the critical section it follows, and the command,
the rendering and the first publish are one step of the page. Which of several
fresh views is chosen is left open. The page tracks 128 commands; one is enough
in the model because the broker delivers in queue order.

### RegionDownloads

`list` is what the page was last told, `server` what the manager has. A poll, a
start, a stop and a removal are requests in `Slots`; a reply is delivered at
any later time or fails. `hook` says which of the two frontends runs. A row of the
list carries the number of its attempt, so that what was reported of one attempt
(`notified`) does not count for the next; `late` has the packs whose earlier
attempt came in after the later one was known.

### RegionManager

`screen` tells the dialog from the browser, `about` (a named bound) whether a
behaviour walks the lists or starts and stops downloads. A download is one step
here, since `RegionDownloads` has its steps; the estimate keeps its requests
apart, with the region and the status each was asked for.

### TrackEditor, RoutePlanner, PlannerSearch, TrackAnnotation, PageShell

A callback works with the state of the render that made it, so what a handler
reads before an `await` travels in the request. A cleanup of an effect is part
of the step that changes its dependencies: React runs it after that commit.
A content (a track, a list of points, a geometry) is a revision number.
An aborted request may still answer when its body had arrived.

### MobileEditor, MobileRide

The app has one boolean for "busy", which whichever task ends first takes back.
`line` is the promise chain that writes the draft: the first in it may have
reached the file (`sent`), its answer may be lost, and the app may be killed at
any time. `MobileRide` begins a behaviour with one `concern`: the draft, the
route, or the panels.

### The library

Coordinates are whole units on a small globe whose longitudes run from -`Half` to
`Half` and meet there (`LonDiff`), so that distances wrap as the haversine does
while boxes are clamped at `Half` and at `Pole`; ways are whole metres, a missing
number is the empty set, so that what the code does with `NaN`, `undefined` and
`null` is a case of its own. Rounding, floors and widths of tile grids are those
of the code. JSON values are records with their kind (`Wire`), and the decoders
refuse what the code refuses.

## 3. Runs

Safety runs have no fairness. With two workers the longest, `PackPins_shared`
(2,245,000 states), `RegionDownloads_follow` (657,000), `PackJobs_queue` (1,119,000)
and `Client_parts` (741,000), take about two minutes, the others well under one.

| Run | Shows | Bounds |
|---|---|---|
| `OfflineMode_two` | no lost wake-up, offline means cancelled; a switch ends; implements `NetworkGate` | 2 clients, 3 transfers |
| `CachePair_faults` | one crash or failed rename costs nothing and leaves no file that is not charged; while at most one rename or removal was lost, no version that was superseded or removed is found again | 4 faults: crashes, renames, removals and syncs that fail |
| `CachePair_recrash` | finding 1 | 2 crashes |
| `CacheFetch_shared` | index and disk agree but after a put or a removal that failed, callers are answered, replacement keeps pins | 2 callers, 1 pack, 2 versions, an upstream with and one without validators |
| `PackJobs_queue` | one attempt, nobody abandoned, the queue drains | 2 owners, one with 3 inputs (one of them the same area under another label) and one with 1, 1 slot, 2 waiting places, 2 packs per owner, 3 starts, 1 removal cut short |
| `PackPins_shared` | what a pack counts is pinned, complete is whole, no orphan pins, each but for the losses it names | 2 packs, 1 key, 1 restart, 1 failed write or release, 1 copy of the metadata under way |
| `McpBridge_served` | a command does not wait for the keep-alive; every call ends | 1 page, 1 stream, 2 calls, 1 break, stale views |
| `McpBridge_views` | at most once and in order, read your writes | 2 pages, room for 1, 2 calls, 1 break, 1 lost answer |
| `RegionDownloads_follow` | a manager that keeps polling ends with the server's list; the failure of the attempt that was started is reported, but for one case | 2 packs, 2 requests in flight, 1 start, 1 lost reply, both hooks |
| `Client_parts` | eighteen properties of the client side, below | a world of 16 longitudes, zooms 1 to 3; the constants of `MCClient`; `MaxNesting` = 5 |
| `TrackEditor_agent` | finding 2 | 1 file, 3 revisions, 2 tracks |
| `RoutePlanner_leave` | finding 3 | 2 edits, 5 runs of the effect, 2 requests |

`Client_parts`, by part:

- areas to download: `PartsTile` (the grid of a large area covers it without
  overlap, also across the date line; the packs of a download cover an area that
  does not cross it, or exactly its parts in the catalogue), `DoneIsDownloaded` (an
  area shown as done for a group, or each of its parts, lies in packs that are
  whole for that group);
- the track: `TrackKeepsShape` (splits, stages, reversal, smoothing,
  simplification), `RoundTrip` (a file written and read again), `DrawnWhole`
  (coloured runs meet, a card has its tiles), `RiderWarned` (dry legs and closed
  ways, no more and no fewer), `MeasuredIsMeasured` (a height not marked as
  interpolated was measured at its point);
- configuration: `FailsClosed` (what cannot be read never makes a page that was
  told to stay offline go to a provider);
- searches: `AnswerComplete` (a circle answered from an earlier area lacks
  nothing on its side of the date line), `ShowsLatest`, `ServicesSpared` (one search per interval, a bounded
  pool);
- screens: `RouteIsCurrent`, `AnnotationFits`, `OfflineIsQuiet`, `EstimateFits`;
- the app: `SharedOnce` (in one session: what was handled is kept in a ref, and a
  reload forgets it), `SharedWaits`, `DraftKept`.

Some properties say when the code keeps a promise that it breaks otherwise:
`DurableOnce` is `Durable` after at most one fault, `PinsKeptByReplacement` is
`PinsKept` for an upstream without validators, `WakeReachesOwnStream` is
`WakeReachesStream` while the view lives and streams do not overlap.
`NeverResurrects` holds while one rename or removal was lost: two lost removals
leave both backups of a replaced pair on disk, and once the pair itself is
removed a restart puts them back. `PinsHeld`, `NoOrphanPins` and `CompleteIsWhole`
name their exceptions through `lapse`, `IndexMatchesDisk` through `torn`,
`FailureHeard` through `late`. The violation runs check a
promise itself. A module may define further invariants that no run lists
(types, limits of the queue, removal); those that TLAPS proves are named in
section 4.

Why the bounds are enough. A wake-up, a lost generation or a stolen slot takes
two actors and a third that is affected: two clients and three transfers, two
owners and three manifests. One fault anywhere is what the code is written
for; up to four are tried to see which promises survive (`NeverResurrects` does
with any number of crashes and syncs, `Durable` does not). Versions in `CachePair` are reused
once nothing holds them, so `MaxVersion` bounds only how many are told apart at
one time; `CacheFetch` bounds the changes of the upstream by `MaxUpstream`.
`PackPins_shared` has one key because keys meet only in the manifest
and in the end of a job, and one restart because a restart begins again from the
files with every exception but "wiped" forgotten; the theorems cover any number
of keys, packs, restarts, failures and copies. The limits of
the code (2 jobs, 32 commands, 8 views, 128 tracked commands, 16 parts, 4 workers,
2 remembered messages) are shrunk to values that the runs fill. An answer that is
overtaken takes three requests: one shown, one late, one new; the bounds of the
client's parts allow at least that many. The boxes of the area questions include
one that crosses the date line, one that touches it, and one too large for a
pack, whole or cut by one of two catalogues; the packs that are asked about are
those of a plan for the area, whole, failed or under way, for each of the three
groups. `PackLimit` (14 tiles) is below what a part takes (20), so that plans
have to split and to skip.

Deadlock is checked in `OfflineMode_two`, `CachePair_*`, `CacheFetch_shared` and
`PackJobs_queue`. Elsewhere bounds on crashes, calls, edits and losses let a run
come to rest, and a question to the library is over once it is answered.

### Fairness

- `OfflineMode`: a goroutine that holds or has been handed the mutex goes on;
  a transfer ends, since it has a timeout and its context is cancelled. If
  clients keep going online a drain may be prolonged by new transfers for
  ever, which is why `SwitchTerminates` is claimed once nobody does any more.
- `CacheFetch`: callers and the fetch go on. `Drop` needs strong fairness: it
  waits for `writeMu`, which Go hands to a waiter that starves.
- `PackJobs`: some goroutine that can go on does: a job ends (it has a deadline),
  a re-estimate ends. Submissions are bounded, so no fairness among the
  goroutines is needed.
- `McpBridge`: the page and the handlers go on, requests arrive, the keep-alive
  ticks, EventSource reconnects. `Gone` needs strong fairness: a `select` picks
  at random among ready channels, and the done channel of a dead request stays
  ready.
- `RegionDownloads`: the interval fires, replies arrive or fail, and a start that
  was begun goes on.
- `RoutePlanner`: a debounce timer fires and a request is answered or fails,
  since `calculateRoute` has a time limit. `LoadingEnds` is refuted under this
  fairness, so that the counterexample is no mere pause.

Nothing is assumed of users, of upstream, of crashes or of losses.

## 4. Proofs

TLAPS proves, for every value of the constants:

- `OfflineProofs`, about `OfflineMode`: type correctness, `ActiveAgrees`, `NoLostWakeup`,
  `OfflineIsCancelled`, `StartupPolicy`, `DrainedBeforeReturn`, and that
  `OfflineMode` implements `NetworkGate`. Assumption: `Fetches` is finite. The
  inductive invariant adds two facts to the checked ones: `RunningUnderLive`
  (a transfer that was not cancelled has a live generation) and
  `OnlineNotCancelled` (online, the generation is live or missing). The
  counter lemma `InFlightCount` says what one transfer more or less does to
  the cardinality.
- `OfflineProofs`, about `PackPins`: type correctness, `PinsHeld`, `NoOrphanPins`,
  `CompleteIsWhole`, `RemovedForGood`. None is inductive: a pin outlives its worker
  through the manifest, a manifest through the file, and a complete pack is
  whole only because its job let it be complete after every worker was done.
  `IInv` names these links: work happens under a job (`WorkUnderJob`), a pack
  not yet drawn has nothing (`NewIsIdle`), pins are of entries that are present
  (`PinsArePresent`), a worker that is done has its key held (`DoneIsHeld`), a
  complete pack holds every key in memory and in its file (`CompleteHeld`,
  `FileComplete`), a pack that is gone has no file (`GoneHasNoFile`), and a listed
  pack has the pin of every key it counts unless it is known how it lost it
  (`KeysKept`). Every step that takes a pin off or brings one back has to say so
  in `lapse`, which is what makes the exceptions of the properties complete.
- `CacheProofs`, about `CacheFetch`: `IndexMatchesDisk` and `PinsKeptByReplacement`. The step
  that needs an argument is the 304, which writes back metadata that a caller
  copied under no lock and long before. Versions only grow, so the invariant
  orders them: nobody knows more than upstream has (`BehindOrigin`), no copy is
  ahead of the entry (`BehindEntry`), and what a fetch received is ahead of
  everything (`BehindAnswer`). When a 304 confirms the copy, the entry lies
  between two equal versions. `PutWritten` ties a put under way to its file. After
  a put or a removal that failed the body is gone or newer than the index says,
  never older, which is what the copies need.
- `PackJobsProofs`: `OneAttempt`, `NobodyAbandoned` and the limits. The strengthening says
  that a retry displaces nothing that still works (`NoneDisplaced`), which states
  a job can have in which phase (`StateOfJob`), that the queue holds exactly
  those that wait, each once (`InQueue`), and that while somebody waits a
  goroutine works or is about to look (`LookedAt`). The last look at the queue
  may end with somebody waiting only when no slot is free, and who holds the
  slot will look again (`SlotTaken`). One lemma, `OneChanges`, covers every step
  that changes one manifest. `SlotsHeld` and `QueueHeld` state `SlotsBounded` and
  `QueueBounded`, which no run lists: a run of the constants of `PackJobs_queue`
  found both to hold before they were proved, and they are
  inductive next to `IInv` (`LimitsInvariant`). A pack begins to count only where it is
  submitted, retried or claimed, and all three look at the limit in the critical
  section that changes the pack; `OneCountsNoMore` covers every other step.
  Assumption: at least one slot.
- `McpBridgeProofs`: `AppliedInOrder` and `WaitingIsQueued`. A page refuses a
  second delivery because it remembers the command, but it remembers only the
  newest few, so the order has to come from elsewhere. Calls are numbered without
  gaps (`Numbered`) and queued behind each other (`QueueRises`); what left the
  queue, or is being written on the page's one connection, is not ahead of what
  is still in it (`QueueBehind`, `HeadBetween`, `OneConnection`). So deliveries
  may repeat a command and never go back behind it (`InboxSorted`,
  `InboxAfterLog`), and it is enough that the page never forgets the last command
  that it applied (`LastTracked`). Steps that move no command forward are covered
  by one lemma, `QuietKeeps`. A queue that rises holds a command once, which
  reduces `WaitingIsQueued` to an equality of sets.
  `WakeReachesOwnStream` is inductive by itself once it is said of the one stream
  there is (`AloneIsWoken`): a stream that has not yet taken a command of its
  view has a wake-up in the channel.
  `ReadsOwnWrite` follows a publish through the network. Publishes on their way
  are numbered as the page sent them and a later one shows no less (`InOrder`);
  what the broker holds is no later than what the page has shown
  (`HeldInOrder`); a page that waits for a publish before it answers has one on
  the way that shows everything it applied (`AwaitedShows`); a result is of a
  command that the page applied (`ResultOfApplied`); what the page applied is
  shown or was excused (`Shown`); and a view that is used has been published
  (`ServesPublished`). Together they are `AllRead`.
  Assumptions: the page remembers at least one command, and there are finitely
  many streams (`bridge.go:29` and `363` bound them).
- `CacheProofs`, about `CachePair`: `NeverResurrects` for any number of crashes and
  failed syncs while at most one rename or removal was lost, `DurableOnce` and
  `NothingUncharged` after at most one crash or failed rename. The store works off
  one of few programs of file operations (`ProgramOK`), so its phase and the
  number of operations left say where it is. For the first theorem, a version
  that may not be found has lost its body or its sidecar, in place and among the
  backups (`Halves`), and nothing brings the two halves together again because at
  most one backup lies about between two calls (`SplitPhase`): this is where a
  second lost removal would do harm. `OnceInv` says what lies in each of the four
  files at each operation of each phase, without a fault (`Unfaulted`) and after
  one (`PhaseFits`).
- `PageProofs`, about the parts of the page and of the library:
  - `RouteIsCurrent`. The invariant relates the requests to the screen: a custom
    profile has its session (`CustomHasSession`), a run that waits has one for
    the open data (`TimerIsReady`), and the one request that will be heard is
    for what is shown (`HeardIsCurrent`).
  - `ShowsLatest`: at most one lookup around a point was not aborted
    (`OneIsHeard`), the place list says "searching" exactly while the search with
    the newest number is under way (`ListIsLatest`), and the panel says so
    exactly while a lookup will be heard (`PanelIsLatest`).
  - `AnnotationFits`: the match that will be heard is of the track and the
    generation that are shown (`HeardIsShown`), and one is asked for whenever the
    track has a line.
  - `OfflineIsQuiet`: the mode that the map's handler reads from a ref is the one
    on the screen whenever no switch is under way, and under cache-only nothing
    complains (`ModesAgree`).
  - `ServicesSpared`: the next request to Nominatim waits for the interval after
    the last one (`LastIsSpaced`), the requests made are that far apart
    (`StartsAreSpaced`), one is under way only for the head of the queue
    (`HeadIsAsked`); a chunk is taken only when a worker is free (`PoolInv`).
  - `AnswerComplete`: an area that the session keeps has every place of its box
    unless it says it was cut short (`KeptAreas`); a circle lies in the box that
    is asked for, on whichever grid (`CircleInBox`), as far as it is on the centre's
    side of the date line, where the box is clamped, and a box that surrounds it
    answers it (`FoundCovers`). That the places can be put in order, so that
    sorting loses none, is shown by the smallest set that could not be
    (`SmallestPart`, `OrderedOf`).
  - `MeasuredIsMeasured`: the samples rise from the first point to the last
    (`SamplesRise`), each lies in its chunk at its place (`ChunkOfSample`), a
    chunk that was taken and is not under way holds heights of its own points or
    nothing (`ProfileInv`), and a point that is no sample is filled in from one
    before it (`SampleBefore`), so that it is either marked or empty.
- `MobileProofs`, about the app, and the manager that it shares with the page:
  - `DraftKept`, for any number of changes, refused writes and restarts: nothing
    is written before the draft was read (`WritesAfterReading`), the last in
    line is the newest (`NewestIsLast`), and only the first can have reached the
    file (`FirstIsStored`).
  - `SharedOnce`: what was imported is remembered as handled or has left the
    inbox (`ImportedIsHandled`), and what is read to be opened was not imported
    yet or has left the inbox (`ReadIsNew`).
  - `SharedWaits`, an action property: from the guards of the steps that import.
  - `EstimateFits`, for any catalogue: a request is told by its region and by
    whether it was aborted (`AskedAreRequests`), so that at most one that was not
    is under way.
  - `LibraryMoves`: as far as question and reply are concerned a client is its
    library, so that what is proved of `LibrarySpec` holds in every client.

  `PageProofs` and `MobileProofs` assume `ClientAssumption`: what stands for
  "absent" is not among the values, two complaints of the same text are the same
  complaint, sizes (grid, chunk, samples, lengths) are positive, and there are
  finitely many places, on the globe.

- `RegionProofs` and `LibraryProofs`, about the library. The invariant is small:
  the question is one that may be asked (`Asked`) and the reply is its answer
  (`Answered`). The work is to show what the functions compute, for questions of
  any size. Induction comes from finite sets: among the numbers of an interval at
  which a claim fails there would be a least one (`Least`, `Induction`). That a
  recursive function exists, and not only an arbitrary value that is written
  like one, is shown the same way (`Recursion`).
  - `PartsTile`. A box is cut by marks between its edges. The marks of n parts
    rise from the first edge to the last, however they are rounded (`Marks`), so a
    column and a row between two of them is a box inside the box (`Window`), and
    every unit square of it is between exactly two (`GridTiled`). Longitudes are
    counted from the western edge and wrapped last, so the date line makes no
    difference: on less than the whole circle wrapping loses nothing. `Cut` says
    this of a grid and of two halves (`GridCut`, `SplitCut`), and the plan of an
    area covers it because the plans of its parts do (`GoodParts`), level by
    level (`PlanCovers`, for every limit of the server). Of an area that the
    catalogue cuts, the plan covers the whole when one pack takes it and exactly
    the parts otherwise (`WellPlanned`, `SpannedExactly`). To normalize the corners
    of a box again changes nothing unless it crosses the date line
    (`NormalizedAgain`).
  - `DoneIsDownloaded`, for every group and for areas that do not cross the date
    line, since `coversBounds` compares longitudes as numbers. A pack that covers
    such a box has its squares (`CoveredByPack`); parts of a box that does not cross
    the date line do not either; when nothing is missing of the parts, the packs
    that were found hold all of them (`FoldHeld`), whichever of the grid, the
    catalogue and the halves each level was cut by (`HeldPiece`, `HeldArea`); and
    "done" says that nothing is missing and every pack that was found is finished
    for the group (`DoneCovers`).
  - `RiderWarned`: the legs of a tour end at its stops and at its goal, so that each
    kilometre lies on one leg, and the tank is what was ridden since the last
    stop; stretches are runs of spans that carry a warning, and the lengths of
    the classes are those of the spans.
  - `TrackKeepsShape`: splitting at a point that both sides keep, reversing, and a
    sliding window whose sum and count are those of the points in it at every
    step (`Holds`, `WindowsFollow`). For the simplification the points that are
    kept are computed for longer and longer spans (`KeepExists`); a span is
    bridged by a line or by two spans that are (`BridgesMeet`).
  - `RoundTrip`: the file keeps points and waypoints in their order and leaves out
    the heights that were guessed; rounding to its precision changes nothing the
    second time.
  - `DrawnWhole`: the run that is extended always ends at the last point drawn, and
    the tiles of a card go from that of its first pixel to beyond that of its last.
  - `FailsClosed`: what is embedded as cache-only decodes to a configuration
    without services, which serves nobody directly (`EmbeddedIsClosed`); it is
    what such a page starts with (`FirstIsClosed`), and the only thing that a
    failed load gives (`UnreadIsFirst`).

  Assumption: `LibraryAssumption`, that is, positive sizes, zooms and percentages
  in their ranges, and questions of their kind. Widths, heights, counts of
  points, limits of the server, packs and their progress are arbitrary.

Each invariant was model-checked before it was proved, on the bounds of the run
that checks its property or, where that run's are too small to meet every case,
on larger ones (two shared files instead of one: 4.8 million states).

Only model-checked is liveness (`SwitchTerminates`, `Answered`, `QueueDrains`,
`Served`, `Converges`), since the prover has no ENABLED.

Every safety property and the action property that the passing runs check have
theorems.

## 5. Where the code and its documentation disagree

1. `CachePair_recrash`: recovery restores the body first and the sidecar second
   (`cache_store.go:418-421`); a crash between the two loses both versions.
2. `TrackEditor_agent`: `open_track` looks at `dirty` before it reads the file and
   opens without looking again (`App.tsx:2339-2346`), so edits made meanwhile
   are replaced, against `docs/MCP.md:57`.
3. `RoutePlanner_leave`: leaving the planner aborts the route request without clearing `routedLoading` (`App.tsx:2043-2062`): the
   overlay stays on every screen, and `planner.loading` stays true for an agent
   that polls it (`docs/MCP.md:171-173`).

Met while modelling and part of the models, without a run of their own.

On the server: two removals of backups that fail unnoticed let a version come
back after it was removed (`cache_store.go:1003-1004`, `404-421`), and one of them
can cost the pair that replaced it; a put whose directory sync fails leaves the
index with the old entry over the new body (`cache_store.go:890-892`); a removed
pack comes back when a crash precedes the removal of its file
(`packs.go:1907-1932`), and then stands beside a new one for the same download;
a release that fails leaves a pin that nobody takes off before a restart
(`packs.go:1781`, `1928-1930`); an entry that is prohibited or found corrupt goes
although packs pinned it (`provider.go:526`, `589`); a drain that ends after another client went online throws the
new generation away (`provider.go:79-84`); a 304 writes back the pins as they
were before the request (`provider.go:503-524`); a manifest that cannot be
written costs a pin that the pack counts on (`packs.go:1590`); the stream of a
view that was pruned and came back waits on a channel nobody wakes
(`bridge.go:356`, `409`); a read that overlaps a replacement takes the new pair
for a corrupt one and removes it (`cache_store.go:743-745`); the job of a
removed pack is not counted while it winds down (`packs.go:1464`); a submission
can take a slot before a waiting pack does (`packs.go:1247`); a result that the
page gave up posting is sent again only after a reconnect (`useMcpBridge.ts:130`).

In the page: the answer to a save clears `dirty` although edits were made
meanwhile, and undo never touches it; the reply of `refetchElevation` replaces
what an agent edited meanwhile; POI layers and a waypoint's elevation arrive for
a track that was left; a list of the library read before a deletion brings the
card back; an area across the date line is asked for as the rest of the circle,
since its corners are normalized a second time (`offlineRegions.ts:769-772`), and
is shown as downloaded once those packs have come, whatever of it they hold;
an area whose parts the server halved, though all its packs have come, is shown
as partial when levels of the grid or of the catalogue used up `SPLIT_DEPTH`
(`offlineRegions.ts:459-465`, which planning does not count, `700-710`); a settled
pack without terrain or places is "done" for that group and not "unavailable"
(`447-448`, `558`, `564`); "inside this pack" does not know boxes that cross the
date line; a circle across the date line is searched on the near side only
(`around.ts:146-159` clamps the box while its distances wrap); simplification may exceed its cap on points; an unreadable answer
to the offline switch reads as auto; a list that was read before a pack was
started again and is applied after it reports the failure of the attempt before
and swallows that of the new one (`useRegionDownloads.ts:105-110`); the bar of the elevation prefetch stays when a
poll is refused; the ride check of a track of one point says "loading" for ever.

In the region manager: an invisible question takes the first Back of the dialog;
the app's Back skips from a part of an area without record to the list; an area
opened before the catalogue gave its bounds keeps its record; "Stop all" of
somebody who is no operator cancels the packs and is refused the routing.

In the app: whichever task ends first takes "busy" back; undo after a save
says that nothing is unsaved; a write of an earlier draft marks the later one saved;
reading the draft replaces what was edited before it arrived;
a name that was asked for and cancelled loses the edits that waited for it.

## 6. Not modelled

Everything listed as `not_modelled` in `PROJECT.json`, with its reason. Of the
modelled components: circles that reach a pole, where all longitudes meet; the
configuration that is loaded while the offline mode is switched; a manifest that
is on disk although writing it failed at the start of a pack, and which of several
failed attempts is the newest; the estimates and allowances that may refuse a pack
before it is queued; byte counts, expiry and LRU order of the cache; circuit
breaker and rate groups of the outbound client; damaged manifests; the cookie
of the broker and its limit on streams; markers that an agent draws on the
planner; the text of the agent's snapshot; the map of the app; the storage
totals of the region manager; pixels, wording and translations; the escapes of
a GPX text; floating point below the precision that is written.

## 7. Plan

In this order, each with its runs, and with proofs where noted:

1. `CacheQuota`: byte counters against the entries, admission, eviction order,
   pinned storage (invariant: every counter is the sum it stands for; proof).
2. `ElevationTiles`: memory, disk, pins and shared downloads of tiles; prefetch
   generations.
3. `MapGenerations`: activation, pinning, restoring.
4. `OutboundQueue`: caps per provider and owner, circuit breaker, rate groups.
5. `RoutingLifecycle`: dataset replacement, deferred upgrade, sessions.
6. `TrackLibrary`, `PasskeyAccounts`, `OwnerCaches`, `MobileHost`.
   Small components that share actors are composed, so that one run covers them.
7. `MapLayers.tsx`, once there is a property that is not about the map library.
