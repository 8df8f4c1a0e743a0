# PHC Remote: TLA+ models and proofs

PHC Remote controls a PEHA/Honeywell PHC home installation. A Go service, the
*bridge* (`bridge/`), talks to the control module of the installation (the STM)
over XML-RPC and serves a website with live state; an iOS app (`Sources/`)
talks to the STM by itself. The hard parts are concurrent (goroutines, two
locks, bounded channels, timers, cancellation, a project that is reloaded while
browsers are connected, browsers and phones that keep a copy of the state) and
sequential (a response cut anywhere by TCP, a download of a project that changes
meanwhile, a parser whose loops share a map). This directory models both.

`tlc -config X.cfg M` checks a model, `tlapm XProofs.tla` the proofs about it.
`PROJECT.json` lists every run, the code lines every definition stands for, the
hazards, the mutants that show a property can fail, and the theorems.

## 1. Inventory

| Part (source) | State | Operations | What is hard | What makes it correct |
|---|---|---|---|---|
| Scheduler (`controller/scheduler.go`) | two bounded channels, a result slot per request, the loop, the stop context | `command`, `poll`, `run`, `next`, `drain`, `close` | selects that pick at random, callers that give up, stop racing submission | one operation at a time; commands wait for little; nobody hangs; nothing runs after it was given up |
| Controller (`controller/controller.go`, `events.go`, `polling.go`, `commands.go`) | revision, connection, stale mark, states; subscribers and their buffers; wake and refresh channels; three timers | `Subscribe` and cancel, `Execute`, `pollLoop`, `publish`, `Close` | state and publication under different locks, coalesced wakes, grace period, failed sweeps, Close against Subscribe | the state settles on the installation; revisions count changes; no blocked publisher; nothing left after Close |
| Page (`web/static/app.js`) | last revision, device states, connection | snapshot, delta, gap test, fetch of the state | lost, reordered and duplicated knowledge | the view equals the controller's state |
| Bridge process (`cmd/phc-bridge/main.go`, `web/server.go`, `web/events.go`) | current controller, reload lock, notifiers, loader | start, load and reload, install, event stream, shutdown | two controllers at a time, streams of the old one, crash and restart | handlers get a running controller, no controller leaks, streams move on, the loader succeeds |
| Project cache (`cache/cache.go`) | one file | `Load`, `Save` | written before the project is accepted, crash | a start never depends on it |
| Download (`project/download.go`) | the chunks so far | `Download`, `Extract` | an STM that repeats, skips, changes or falls silent | one project the STM had, whole and in order, or an error; it ends |
| STM client (`stm/client.go`, `transport.go`, `xmlrpc.go`) | one connection per call, whether the last response was mended | `call`, header sanitizer, XML-RPC decoder, typed results | a malformed header over split reads, a cut response, limits, timeouts | only the one defect is removed; what is returned is what was meant |
| Parser (`project/parser.go`, `tools.go`, `keywords.go`) | none between calls; five loops over shared maps | `Parse` | map order, what the loops take from one another, duplicate identities, limits | every input belongs to one device; independent of map order; refused only for conflicts; sorted |
| iOS store and client (`Sources/Store`, `Sources/Client`) | project, optimistic states, polled devices, delayed save, timers | load, reload, toggle, shutters, poll | tasks that overlap at their awaits, optimistic values against older polls, a store that outlives its view | the view settles on the installation; what is polled is what is shown |
| Templates, pages, layout of the iOS views, probe, simulator | - | rendering, tools | - | - |

Interaction: a browser's request reaches `Server.current()`, the controller in
place. `Execute` submits one operation to the scheduler; the poll loop submits
one per module; a reload submits one per chunk. Each operation makes one or more
calls of the client. Results change the state under `stateMu`; events go out
under `subsMu` into one buffer per subscriber, from there through the handler of
`/api/v1/events` to the page. The iOS app shares nothing with the bridge but the
STM.

## 2. Modules

| Module | Models |
|---|---|
| `SerialExecutor` | what callers of the scheduler may rely on: operations one at a time, each once, none after close, results of ended operations only |
| `Scheduler`, `SchedulerProofs` | `scheduler.go`, one action per select, send or receive |
| `Controller`, `ControllerProofs` | `controller.go`, `events.go`, `polling.go`, and `Execute` |
| `LiveView`, `LiveViewProofs` | extends `Controller` by one page of `app.js` on top of a subscriber |
| `Bridge`, `BridgeProofs` | `main.go`, `server.go`, `events.go`, `cache.go` around controllers |
| `ProjectZIP` | what an STM may hold, and the limits of a download |
| `Download`, `DownloadProofs` | `download.go`: the loop over the chunks, `Extract` |
| `Commands` | `commands.go`, `input_events.go`: what a device can be told, and the calls that tell it |
| `StmClient` | `client.go`, `transport.go`, `xmlrpc.go`: one call over one connection |
| `ProjectParser`, `ProjectParserProofs` | `parser.go`, `tools.go`, `keywords.go` |
| `ProjectLoad`, `ProjectLoadProofs` | the reload function of `main.go`: `Download` over `StmClient`, with `Commands` of others in between, then `Extract` and `ProjectParser` |
| `HomeStore`, `HomeStoreProofs` | `HomeStore.swift`, `ProjectCache.swift`, polling and setPower of `STMv3Client.swift` |
| `MC*` | values of the constants for TLC |

**Scheduler.** `caller[r]` is where the goroutine inside `submit` stands, `loop`
where `run` and `next` stand. A Go select is one step that takes any ready
branch; the `default` branches are the guards that a channel is empty. `next`
has three selects and so three actions (`StopCheck`, `CommandCheck`, `Select`),
between which anything else may happen. `started`, `overtaken` and
`startsAfterStop` are history: no action reads them.

**Controller.** A section under one lock is one action. A section under
`stateMu` leaves its events in `outbox[a]` of the goroutine `a` that ran it, and
`Publish(a)` sends them one at a time, so the order of publication is free
across goroutines as it is in the code. `Subscribe` is five actions (check,
register, mark stale, snapshot, deliver) and the wake. The poll loop is one
action per branch of its select and one per step of a sweep. `timers` are those
armed or fired: time itself is left out, so a timer may fire as soon as it is
armed. A call of the scheduler answers, fails or is cancelled quietly; a command
may or may not have reached its output whatever its caller is told.

**LiveView.** The subscriber's channel stands for the whole way to the page,
which is in order. `Gap` and `OnDelta` are `updateRevision` with its JavaScript
truth test; fetches of `/api/v1/state` are answered and arrive in any order, or
are lost.

**Bridge.** A controller is an instance that runs, is stopping or is closed,
with at most one STM call in flight (what `Scheduler` shows). `Server.Reload` is
one action per step between lock and unlock; download, extraction and parsing
are one step that succeeds or fails (`ProjectLoad` is that step in detail). The
project in the STM can be one that `controller.New` rejects. The cache file
outlives crashes; a page outlives the process and its `EventSource` connects
again, unless it was answered 503.

**Download.** One action per step of the loop; `Accepts` is its chain of checks.
A project is a sequence of pieces. Two projects never end in the same piece: the
last holds the central directory of the ZIP with the checksum of every entry
(`CentralDirectoryAssumption`), which is what `readEntry` verifies by reading an
entry to its end. The project in the STM may be replaced between any two chunks.

**StmClient.** A response is a sequence of symbols: pieces of header lines, then
XML tokens. A symbol arrives whole; any number arrive at a time, and the
connection may end after any. `rewrite` is where the sanitizer stands, `taken`
what it has consumed, `arrived` what has come out of the connection, so the
symbols between the two are what `bufio` holds when the body is served.
`Decode` is the recursive decoder with an explicit stack of the functions that
have been called: one `Read` per token, `Reading(body)[k]` after `k` of them. Numbers, words and
payloads are tokens with a value.

**ProjectParser.** A project file is a sequence of starts and ends of elements.
A text is a sequence of letters: digits, delimiters, and words, of which a
keyword list is a set. `CollectPPFX` and `CollectTools` are recursive functions over a file;
`buildProject` is one action per turn of its loops, because the loops over Go
maps (`PairTurn`, and the floors in `ToolsEnd`) take their keys in any order.
`sort.SliceStable` is the insertion it does for up to twenty elements (`Inserted`,
`Sorted`), given as a set of pairs what belongs before what. What is said of the
result is said of `floors`, which is what a page shows: `Shown` are the devices
there, not those that were handed to `add`.

**ProjectLoad.** `op` is the operation the scheduler runs, one at a time (what
`SerialExecutor` promises): a chunk of the download, or a poll or a command of
the running controller in between. The STM is external: `Sayings` are what it
may answer, in the three header blocks and the forms of a number the client
reads, and what the client must refuse (a fault, a truncated array, unsound
headers, an empty body). A call the client gives up on may or may not have been
executed. `heard` and `meant` are history.

**HomeStore.** The store runs on the main actor, so what it does between two
awaits is one action. One light stands for the devices that are polled, one
shutter for those with an indicator; a parse gives devices new ids, one number
here. `Disconnect` lets go of the store, but its event task holds it: it stays
in `live` until the app is ended. Commands are a set, since each is sent by a
task of its own; reloads and gestures are counted, since each tap starts a task
and no button waits for the one before. Devices can be touched while there is a
project (`Shown`), because the detail column of an iPad does not ask for the
phase; the reload button is only there while the phase is ready. An iPhone,
which asks for the phase in both cases, does less than that. `wanted`, `calm`, `lastLoaded` and `restored` are history.

Operators under a comment that begins with BUG are a definition with a plausible
mistake in it; they belong to no specification and serve to show that a property
can fail.

## 3. Runs

| Run | Question | Bounds |
|---|---|---|
| `scheduler_safety` | what `next` bounds, who is answered, refinement of `SerialExecutor` | 1 command, 2 polls (interchangeable), channels of 1 |
| `scheduler_liveness` | is every caller released, does `close` return | 2 submissions, channel of 1, so one blocks in its send |
| `controller_safety` | buffers, revisions, stale mark, Close | 2 modules, 1 browser, 1 command, buffers of 2, idle probe, polls that do not fail |
| `controller_recovers` | does a watched controller settle | 1 module, 1 browser, 1 command, 1 upset |
| `controller_watched` | wakes and epochs of two browsers; end of polling | 1 module, 2 browsers |
| `liveview_stepwise` | does a page that missed nothing show the truth | 1 module of 2 devices, 1 browser, 1 command, 2 fetches, buffers of 2 |
| `bridge_reload` | controllers, streams, loader | loader and 1 request, 1 page, 2 controllers at a time, 1 edit, 1 stop or crash |
| `project_load` | responses, gestures, download, parser | 3 projects of 2 or 3 pieces with a common first piece, any number of edits, segments of 1 to 3 symbols in the header, 1 other operation, 14 pairs of project files, 9 archives |
| `home` | store against installation | 1 store, 3 loads, 2 touches, 1 fault, stream of 1 update |

Why these bounds are enough to be interesting: one-slot channels are full as
soon as they hold something, so every blocking and dropping branch is taken; a
buffer of two also holds a snapshot and a delta, or two deltas, at a time. Two
polls are needed for one to be overtaken twice; two modules for a sweep that
fails halfway; two browsers for a wake that stands for a leave and an arrival;
two devices in a module for one poll that makes two events. An *upset* is a
failed call or an output switched by hand, counted by `MaxUpsets`; it happens at
any moment (failures of the command and Close are free). `MaxInstances = 2`
makes a third controller wait until no page holds on to the first, which the
code does not; such a page only holds a closed controller, from which it must
move on either way.

In `project_load` two of the projects share their first piece, and a third
begins like one of them and is too large: chunks of two projects can be mixed,
and the size limit bites. The limits of the code (4096 chunks, 16 MB, 4 KB of
line, 4096 channels) are constants, set low enough to be reached. The project
files are those of `MCProjectLoad`: one of the ordinary kind with two shutters,
pairs and unpaired inputs, numbered names, a virtual module, hidden channels and
floors with two indices; nested module groups and a module that is both virtual
and an input module; two shutters that share an input; and one file for every
reason to refuse a project, and for every limit. An edit is taken to come just
before the STM answers a chunk, where alone it shows. In `home` two touches are
what it takes for a command and a hand, or two commands, to cross; three loads
for two reloads to overlap each other and, with a project on disk, `connect`.

`CHECK_DEADLOCK FALSE` stands where the system may stop: every caller of a
scheduler has returned, a controller is closed and nothing is armed, the app was
ended. `Bridge` and `ProjectLoad` are checked for deadlock; that the parser
comes to an end is shown by that and by its loops, which only go forward, not by
a liveness property.

### Fairness

A goroutine that can go on does (weak fairness of its steps). An STM call ends:
the HTTP client has a timeout of 10 s (`stm/client.go:74`) and commands and polls
one of their own (`polling.go:99`, `commands.go:71`). A branch of the poll loop's
select that is ready again and again is taken in the end (strong fairness): Go
picks at random among ready branches. `sync.Mutex` starves nobody
(`AcquireReload`), and for `LoaderInstalls` the STM answers a download now and
then, which is the assumption that property needs. `DownloadEnds` assumes only
that timeouts fire and that the bridge's goroutines run: the STM need not answer
at all. In `home` tasks run, timers fire and calls end, by an answer or an error
(URLSession has a timeout). Nothing is assumed of browsers, users, commands,
contexts, Close, crashes, failures or hands on switches.

### Where the code differs from what is said about it

Three runs expect a violation; each checks one sentence of a comment.

* `liveview_overwritten`: "the authoritative state" (`app.js:31`). A page at the
  controller's revision may show something else: at revision 0 the gap test is
  off, older events are applied over newer state.
* `bridge_startup`: "either way the website comes up immediately"
  (`main.go:70`). Not when the cache holds a project `controller.New` rejects,
  and the reload writes the cache before it asks `New`.
* `home_cache`: "persists the last-loaded project" (`ProjectCache.swift:3`). A
  store that was let go is kept by its event task, polls on, and saves its own
  project over the one a new store has downloaded.

Others follow from the models and have no run of their own:

* "Always drain a command already in the queue before starting another poll"
  (`scheduler.go:119`): a command that arrives between two selects may be passed
  over, once. `AtMostOneOvertake`, which is proved, is what holds.
* "A slow consumer may miss deltas, detect the revision gap"
  (`controller.go:159`): not when nothing follows the missed one. The properties
  of a page speak of one at the controller's revision, so none of them excludes
  this.
* "The single ownership point for STM calls" (`scheduler.go:24`): two
  controllers, each with a scheduler, overlap while a project is installed, and
  only then (`OverlapOnlyWhileInstalling`, proved).
* "Avoid duplicate actions by hardware reference"
  (`docs/GO_BRIDGE_PLAN.md:536`): two tools of one input are not merged, the
  second makes `add` refuse the whole project (`RefusedOnlyForConflicts` names
  the reason).
* The parser checks the address of the input that lowers a shutter and not of
  the one that raises it (`parser.go:172`): such a shutter is accepted, and each
  command to raise it fails and marks the connection as lost.
* iOS: a shutter's indicator that is saved while it shows comes back at the next
  launch with no timer to clear it (`IndicatorClears` excepts it); a toggle does
  not schedule a save by itself; when `connect` fails with a cached project,
  polling never starts (`HomeStore.swift:51-67`); one failed gesture or reload
  sets the phase to failed, which takes the view away (on an iPad the list of
  rooms) though a project is there, and no reload still in flight brings it
  back; a reply without numbers reads as "everything off"
  (`STMv3Client.swift:231`), until the next poll.

`UniqueRevisions` speaks of deltas. Two snapshots may carry one revision, and a
snapshot that of a delta: that is what a revision is for.

## 4. Proofs

The theorems hold for every value of the constants that meets the assumptions
named in the module (sets are disjoint, capacities positive, and the like). Each
is proved from one inductive invariant, `IInv`: `Init => IInv`, every action
preserves it (one step per action, one per conjunct it can disturb), and the
property follows. `TypeOK` alone is not inductive for any of them.

**SchedulerProofs**: `TypeCorrect`, `AnswersNeverBlock`, `BoundedOvertaking`,
`BoundedStop`, `GivenUpStaysUnrun`, and `Refinement`: `Spec => Executor!Spec`.
Each needs to know where a request can be:

* `OnePlace`: a request is in at most one place (once in its channel, or with
  the loop), so a request the loop answers is answered for the only time;
* `HeldFresh`, `OutsideFresh`: a request that is held has an empty result slot
  and has not begun unless it is the running one; a request nobody submitted has
  left no trace. `AnsweredOnce` is the first of them;
* `Provenance`: an operation's result in a slot or an answer means it began;
* `StopState`: how many operations began after the stop, by where the loop
  stands (none before it has passed its first check);
* `OvertakeState`: a command that has been overtaken finds the loop past its
  third select, where the next check takes the command.

**ControllerProofs**: `TypeCorrect`, `SnapshotsFindRoom`, `CloseLeavesNobody`,
`FreshMeansRead`, `RevisionsDiffer`, and `RevisionsCount` for the action
property. `IInv` is `TypeOK` in named parts and

* `Registration`: a subscriber between registration and delivery has an empty
  buffer, is not ready and so is skipped by every publisher, which is why the
  send under `subsMu` finds room;
* `Stopping`: where each `Subscribe` stands when Close has cut the subscribers
  off; none registers afterwards, since it tests the mark under the lock that
  Close takes to set it;
* `Sweeping`: the modules a sweep has still to read are all that is not known,
  so the step that takes the stale mark away finds every state known;
* `Revisions`: every delta in an outbox, in a buffer or on its way has a
  revision between 1 and the current one, and no two share one.

**BridgeProofs**: `TypeCorrect`, `HandlersGetARunningController`,
`ReloadsLeaveNothingBehind`, `BoundedOverlap`, for any number of projects,
reload requests, pages and instances. The invariant follows the holder of
`reloadMu`: what it has built and not yet installed, what it has replaced and
not yet closed, are the only instances besides the one in place.

**DownloadProofs**: `TypeCorrect`, `NoMixedProject`, `WholeAndInOrder`,
`LimitNeverReached`. The invariant: the pieces so far number `i`, each is the
piece at its place of a project that was in the STM, of `expectedTotal` pieces.
The last piece then decides which one it can be.

**LiveViewProofs**: `PageInvariance`, `StepwisePageIsRight`, for any devices,
modules, browsers, commands, fetches and buffer sizes. It extends
`ControllerProofs` and uses its invariant: revisions do not repeat. No variable
remembers what the state was at an earlier revision, so `PageInv` says that there
is an account `H` of it, one value per revision so far, that agrees with
everything on its way to the page: a delta with revision `r` in an outbox or in
the stream leads from `H[r - 1]` to `H[r]`, a snapshot with revision `r` in the
stream or in a fetch says `H[r]`, `H[revision]` is what the controller holds,
and a page that has been stepwise shows `H[lastRevision]`. A section under
`stateMu` extends the account by one value per event it makes (`LeadsOn`), and
every other step keeps it. A page that took each delta right after the one
before it then moves along `H`, and at the controller's revision shows its state.
The account is what the buffers that drop events cannot spoil: dropping an event
takes nothing from `H`.

**HomeStoreProofs**: `TypeCorrect`, `PolledIsShown`, `LastCommandWins`, for any
number of stores (`StoresAssumption`), loads, touches, faults and updates, and
any number of reloads in flight at a time.
`RegisteredIsShown` is inductive once a store that was never opened has
registered nothing (`OpenedRun`). `LastIntentWins` is not: while a calm light has
a command on its way, that command says what is wanted, and it is the only one
(`OneCommand`).

**ProjectLoadProofs**: `TypeCorrect`, `OnlyTheKnownDefect`,
`CommandsRunInOrder`, `CallsReturnWhatWasMeant`, `SoundResponsesAreRead`,
`DownloadImplemented`, `WhatWasLoadedWasThere`, `EveryPieceInPlace`, for any
projects, devices, addresses, limits, lengths of a segment and numbers of other
operations. The argument has four parts.

1. *The decoder, without states.* `Leads(d, s, e)`: wherever in a body the tokens
   `s` are read by a decoder that stands at `d`, it stands at `e` behind them. It
   composes, so it is proved of a token, of a value of each type (`Yields`), of
   members, structs and arrays, and at last of each form of response: `Ends(body,
   result)`. A decoder that has a result keeps it, so one that ends with the last
   token has none before, and what it makes of any beginning of a body is either
   an error or the result (`TrueTo`): a response cut anywhere is never taken for
   another one. For a response to be *refused* it is enough that its result is an
   error. The bodies that are quantified over (chunks of any piece, arrays of any
   four numbers) are of bounded shape; where a statement is about every position
   of a sequence, the prover gets a least counterexample (`LeastOf`, from the
   well-foundedness of the naturals) instead of an induction.
2. *The sanitizer.* `Rewritten`: what it has let through is what it has read,
   without the bare date line if that is the first line behind the status line,
   wherever it stands in the header. `AtLineEnd`: it stands behind the end of a
   line, of a blank one exactly when it serves the body. A header has its blank
   line at its end and nowhere else (`BlankIsLast`, of each header block an STM
   sends), so the body begins where the sanitizer stops, and what `net/http` is
   given is the header with the defect mended.
3. *The call.* `ClientInv /\ OpInv /\ DownloadTyped /\ Meaning /\ AnswerInv` is
   the invariant. `Spoken` ties what is on the connection to what the STM means by
   it and `Meaning` a chunk that it means to the one that was asked for, so the
   two parts above give `AnswersAreTrue` and `GoodResponsesAreRead` in the step
   that reads the body. `HeardInOrder` counts the calls the STM has executed
   against those the client has made: an answered call was executed, a failed one
   may have been, which is why a command stops there.
4. *The download.* With that invariant a step of the composition is a step of
   `Download` or stutters: the answer that arrives is the chunk that was asked
   for, or an error. `DP == INSTANCE DownloadProofs` then carries
   `LoadedWasThere` and `PiecesInPlace` over to the composition.

Assumptions: `HeaderAssumption` and `ResponseAssumption` say that a status line,
and a response with sound headers, is within the limits of the client, whose
values in the code are larger by orders of magnitude; without them
`GoodResponsesAreRead` is false. The others are those of `ProjectZIP`.

**ProjectParserProofs**: `OnlyConflictsAreRefused`, `NoInputIsLost`,
`MapOrderIsIrrelevant`, `NoInputIsShared`, `FloorsAreInOrder`,
`DevicesAreShownOnce`, of `FairSpec` of `ProjectLoad`, for any files, keywords and
limits, and `NamesSort`, of any texts. They need four things.

1. *What the collectors return* (`ParseCollects`): channels with numbers for
   addresses, and actions whose inputs have an address, so that of the devices
   only a channel can be refused for having none. An element keeps the collector
   in its type (`PPFXKeeps`, `TPFXKeeps`); that a whole file does is shown by the
   least place where it would not (`StaysIn`), and that the recursive function
   over the file exists by the least place it would not reach (`StepsExist`).
2. *What the loops have made* (`BuildInv`). `Made` gives, for each loop, the set
   of devices with an input at its turn `n`: in the loop over the motor channels
   the shutters of the keys that are no longer in `unpaired`, in the next one all
   pairs and the scenes of the channels before `n`, and so on; the sets are
   defined from `channels` and `actions`, not from the order in which anything
   was added. `Taken` says that `representedInputs` is what these devices press,
   and that the loop over buttons leaves no input channel behind it out.
   `MotorsKnown` ties each entry of the two maps to a channel of that direction
   whose text has that key, `OnOutputs` keeps the devices on outputs apart, and
   `Distinct` is what `add` checks.

   A device is then refused in three ways only. A shutter meets another key with
   the same input, hence another channel; a scene meets a motor channel, which is
   another since its category is a shutter's, or an earlier scene; a button meets
   nothing, because an input that is not represented belongs to no device
   (`FreeInputs`); an action of a tool meets an earlier action. Two devices that
   would press one input lead back to two channels in the same way
   (`InputsApart`). At the end `Made` is the set `OrderIrrelevant` names.

3. *That `naturalLess` is an order* (`NamesSort`). The loop compares what two
   texts have at a place: their end, a character before the digits, a whole run
   of digits, a character after them (`Class`), then its code or the value of the
   run (`Worth`), then the length of the run (`Extent`). It goes on while the
   three agree (`Alike`) and then says which comes `Sooner`, so the places of two
   texts stay the same number. If two texts were each before the other there
   would be a greatest place where both answers hold; it would be neither alike,
   for the next place would be greater, nor decided, for `Sooner` is
   lexicographic (`NeverBoth`; `BetweenOrBeside` is the same for three texts).
   The recursive function the loop is written as exists by the least place it
   would not reach from the end (`WalkExists`). A name with a number is its
   `Stem` and one more place, so what is numbered goes by number
   (`NumberedInOrder`).
4. *What becomes of the devices* (`FloorsInv`). What the files hold are texts of
   known letters, so are their parts, and so are the devices made from them
   (`DevicesTyped`, kept by every action). An insertion puts an element behind
   the last one that it does not belong before (`InsertedAt`), so it keeps what
   is there, doubles nothing, and keeps the order if the pairs are one
   (`InsertedKeeps`, `SortedIs`). Devices, compared by kind, category and name,
   and floors, by index and name, are in such an order (`DevicesSort`,
   `FloorsSort`). The first needs the exception `FloorsInOrder` makes: with two
   categories that differ in case alone the comparison is not transitive. The
   builder of a floor holds the devices of its name, each once (`DevicesOfIs`),
   and every name has its floor, in whatever order the map gives them
   (`FloorsMade`), hence `Shown` is what was added (`ShownAre`), and what
   `BuildInv` says of the devices made holds of those on the floors.

Assumptions: `FilesAssumption`, a file is a sequence of the elements that are
read, `NoInputAssumption`, no input looks like none, and `CodeAssumption`, letters
have numbers, among them those of the names the parser supplies itself for an
action, a category and a floor. `Sorted` is what Go does for up to twenty elements; for
more it merges such insertions, and the proofs of the order are of the insertion.

Only model-checked:

* all liveness (`EverySubmitReturns`, `CloseCompletes`, `WatchedSettles`,
  `UnwatchedGoesIdle`, `StreamsFollowBackend`, `LoaderInstalls`, `DownloadEnds`,
  `ViewSettles`, `IndicatorClears`): fairness and `ENABLED` are out of the
  prover's reach.

## 5. Not modelled

* Time: timers fire in any order. That a poll is due after 2.5 s is not a
  property of the models, that it is due again is.
* The moment at which `submit` takes a result (`scheduler.go:80`) is not a step of
  `Controller`: a result it takes although the stop is ready too is one that came
  before the stop (`ModuleAnswers`), what the poll loop makes of it may come after
  (`PollRecords`). Without the guard of `ModuleAnswers` a probe that begins after
  the stop could be answered, which `scheduler.go:98` excludes. The select itself
  is in `Scheduler`.
* `Controller` does not look into a telegram: a command sets its output to
  anything (`Commands` says what is sent). Commands of devices without a state
  (scenes, shutters) change outputs as a hand on a switch does.
* Characters: header and XML texts are symbols, keywords are words. Character
  sets (`charsetReader`), request encoding, base64 and the date pattern of the
  sanitizer are taken as what they mean.
* The name of the project, which only pages show.
* `WhoAreYou`, `RawWhoAreYou` and the probe: one-shot diagnostics. `ParseEndpoint`.
* Request checks, templates, favourites, prefetching: presentation.
* `Server.Close` while handlers run: it sets the backend to nil when `Shutdown`
  gives up after 10 s because event streams stay open; handlers meet a nil
  backend and a reload in flight may install a controller nobody closes. The
  model has these steps; no property is stated because the process ends right
  after.
* Temp files of the cache: a crash between `CreateTemp` and `Rename` leaves one
  behind. The cache itself is replaced by one rename.
* The iOS parser and download, which follow the same steps as the Go ones; the
  iOS download does not compare the totals of its chunks
  (`STMv3Client.swift:303`). Brightness: no kind of device has one.

## 6. Plan

Done: every component with state of its own; proofs for the scheduler, the
controller, the page, the bridge, the download, the client, the parser and the
iOS store. Next: a page that keeps the old project because its stream was between
`Subscribe` and its notifier when the new one was installed, as a view of the
project in `Bridge`, as `LiveView` is one of the state.
