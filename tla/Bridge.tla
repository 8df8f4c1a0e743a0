------------------------------- MODULE Bridge -------------------------------
(***************************************************************************)
(* The phc-bridge process around its controllers: start from the project   *)
(* cache, the background loader and the reload requests that download a    *)
(* project and install a new controller, the event streams of open pages,  *)
(* shutdown, crashes and restarts (cmd/phc-bridge/main.go, web/server.go,  *)
(* web/events.go, cache/cache.go).                                         *)
(*                                                                         *)
(* A controller appears as an instance that runs, is stopping or is        *)
(* closed, and that has at most one STM call in flight (module Scheduler). *)
(* An operator under a comment that begins with BUG is part of no          *)
(* specification: it is the definition after it with a mistake in it.      *)
(***************************************************************************)
EXTENDS Naturals

CONSTANTS
    Projects,      \* what the STM's project may be
    Buildable,     \* the projects controller.New accepts
    Empty,         \* domain.Project{}: the shell without a cache
    NoProject,     \* no cache file that can be used
    Loader,        \* the background project loader
    Requests,      \* calls of POST /api/v1/project/reload
    Pages,         \* open pages of the web interface
    Nobody,        \* no holder of reloadMu
    MaxInstances,  \* bound: controllers that exist at a time
    MaxEdits,      \* bound: changes of the STM's project
    MaxStops       \* bound: crashes and orderly stops of the process

Instances == 1..MaxInstances
None == 0   \* a nil Backend
Reloaders == {Loader} \cup Requests

ASSUME ProjectsAssumption ==
    /\ Empty \in Buildable
    /\ NoProject \notin Projects \cup Buildable
ASSUME ReloadersAssumption == Loader \notin Requests /\ Nobody \notin Reloaders
ASSUME BoundsAssumption ==
    /\ MaxInstances \in Nat \ {0}
    /\ MaxEdits \in Nat
    /\ MaxStops \in Nat

VARIABLES
    phase,         \* where the process is
    backend,       \* Server.backend
    leaving,       \* the controller Server.Close took
    controllerAt,  \* what has become of each controller
    projectOf,     \* Controller.project
    calling,       \* the controllers with an STM call in flight
    reloadMu,      \* its holder
    reloadAt, got, made, previous,   \* the calls of Server.Reload
    pageAt, shows, streamOn,         \* the pages and their event streams
    notified,      \* the pages whose notifier holds a notice
    cache,         \* the cache file: survives the process
    stmProject,    \* the project in the STM
    edits, stops

procVars   == <<phase, leaving, stops>>
ctrlVars   == <<backend, controllerAt, projectOf>>
reloadVars == <<reloadMu, reloadAt, got, made, previous>>
pageVars   == <<pageAt, shows, streamOn, notified>>
worldVars  == <<stmProject, edits>>
vars == <<procVars, ctrlVars, calling, reloadVars, pageVars, cache, worldVars>>

StreamStates == {"backend", "subscribed", "live"}

TypeOK ==
    /\ phase \in {"down", "failed", "serving", "closing", "exiting"}
    /\ backend \in Instances \cup {None} /\ leaving \in Instances \cup {None}
    /\ controllerAt \in [Instances -> {"none", "running", "stopping", "closed"}]
    /\ projectOf \in [Instances -> Buildable]
    /\ calling \subseteq {i \in Instances : controllerAt[i] \in {"running", "stopping"}}
    /\ reloadMu \in Reloaders \cup {Nobody}
    /\ reloadAt \in [Reloaders -> {"idle", "waiting", "loading", "saving",
                       "building", "swapping", "notifying", "stopping",
                       "closing", "backoff", "done"}]
    /\ got \in [Reloaders -> Projects \cup {NoProject}]
    /\ made \in [Reloaders -> Instances \cup {None}]
    /\ previous \in [Reloaders -> Instances \cup {None}]
    /\ pageAt \in [Pages -> {"away", "navigating", "rendered", "retry", "dead"}
                            \cup StreamStates]
    /\ shows \in [Pages -> Buildable]
    /\ streamOn \in [Pages -> Instances \cup {None}]
    /\ \A p \in Pages : streamOn[p] # None <=> pageAt[p] \in StreamStates
    /\ notified \subseteq {p \in Pages : pageAt[p] = "live"}
    /\ cache \in Projects \cup {NoProject}
    /\ stmProject \in Projects
    /\ edits \in 0..MaxEdits /\ stops \in 0..MaxStops

Init ==
    /\ phase = "down" /\ leaving = None /\ stops = 0
    /\ backend = None
    /\ controllerAt = [i \in Instances |-> "none"]
    /\ projectOf = [i \in Instances |-> Empty]
    /\ calling = {}
    /\ reloadMu = Nobody
    /\ reloadAt = [r \in Reloaders |-> "idle"]
    /\ got = [r \in Reloaders |-> NoProject]
    /\ made = [r \in Reloaders |-> None]
    /\ previous = [r \in Reloaders |-> None]
    /\ pageAt = [p \in Pages |-> "away"]
    /\ shows = [p \in Pages |-> Empty]
    /\ streamOn = [p \in Pages |-> None]
    /\ notified = {}
    /\ cache = NoProject
    /\ stmProject \in Projects
    /\ edits = 0

-----------------------------------------------------------------------------
(* The process: start, orderly stop, crash.                                *)

(* store.Load and controller.New: the cached project, or an empty shell    *)
(* when there is no cache, an unreadable or foreign one, or none in use.   *)
Start ==
    /\ phase \in {"down", "failed"}
    /\ \E seed \in {Empty} \cup ({cache} \ {NoProject}) :
       \/ /\ seed \in Buildable
          /\ phase' = "serving"
          /\ backend' = 1
          /\ controllerAt' = [controllerAt EXCEPT ![1] = "running"]
          /\ projectOf' = [projectOf EXCEPT ![1] = seed]
          /\ reloadAt' = [reloadAt EXCEPT ![Loader] = "waiting"]
       \/ /\ seed \notin Buildable
          /\ phase' = "failed"
          /\ UNCHANGED <<ctrlVars, reloadAt>>
    /\ UNCHANGED <<leaving, stops, calling, reloadMu, got, made, previous,
                   pageVars, cache, worldVars>>

(* The process is gone, and its streams with it: an EventSource that loses *)
(* its connection tries again.                                             *)
ProcessEnds ==
    /\ phase' = "down"
    /\ backend' = None
    /\ leaving' = None
    /\ controllerAt' = [i \in Instances |-> "none"]
    /\ projectOf' = [i \in Instances |-> Empty]
    /\ calling' = {}
    /\ reloadMu' = Nobody
    /\ reloadAt' = [r \in Reloaders |-> "idle"]
    /\ got' = [r \in Reloaders |-> NoProject]
    /\ made' = [r \in Reloaders |-> None]
    /\ previous' = [r \in Reloaders |-> None]
    /\ pageAt' = [p \in Pages |-> IF pageAt[p] \in StreamStates
                                    THEN "retry" ELSE pageAt[p]]
    /\ streamOn' = [p \in Pages |-> None]
    /\ notified' = {}
    /\ UNCHANGED <<shows, cache, worldVars>>

Crash ==
    /\ phase \in {"serving", "closing", "exiting"}
    /\ stops < MaxStops
    /\ stops' = stops + 1
    /\ ProcessEnds

(* A signal, or a listener that failed: the loader is cancelled.  Shutdown *)
(* waits for the handlers, ten seconds at most, so any may still run.      *)
Signal ==
    /\ phase = "serving"
    /\ stops < MaxStops
    /\ stops' = stops + 1
    /\ phase' = "closing"
    /\ UNCHANGED <<leaving, ctrlVars, calling, reloadVars, pageVars, cache,
                   worldVars>>

(* Server.Close, once the loader has returned.                             *)
CloseWebsite ==
    /\ phase = "closing"
    /\ reloadAt[Loader] = "done"
    /\ phase' = "exiting"
    /\ leaving' = backend
    /\ backend' = None
    /\ controllerAt' = [controllerAt EXCEPT ![backend] = "stopping"]
    /\ UNCHANGED <<stops, projectOf, calling, reloadVars, pageVars, cache,
                   worldVars>>

Exit ==
    /\ phase = "exiting"
    /\ controllerAt[leaving] = "closed"
    /\ stops' = stops
    /\ ProcessEnds

(* An electrician changes the project in the STM.                          *)
EditProject ==
    /\ edits < MaxEdits
    /\ edits' = edits + 1
    /\ stmProject' \in Projects \ {stmProject}
    /\ UNCHANGED <<procVars, ctrlVars, calling, reloadVars, pageVars, cache>>

-----------------------------------------------------------------------------
(* Controllers.                                                            *)

(* A poll, a command or a chunk of a download.  A controller that is not   *)
(* in use yet makes no call: it has no subscriber, and the idle probe of   *)
(* its first interval is not due.                                          *)
CallStarts(i) ==
    /\ controllerAt[i] = "running"
    /\ \A r \in Reloaders : reloadAt[r] = "swapping" => made[r] # i
    /\ i \notin calling
    /\ calling' = calling \cup {i}
    /\ UNCHANGED <<procVars, ctrlVars, reloadVars, pageVars, cache, worldVars>>

CallEnds(i) ==
    /\ i \in calling
    /\ calling' = calling \ {i}
    /\ UNCHANGED <<procVars, ctrlVars, reloadVars, pageVars, cache, worldVars>>

(* Close ends: the call in flight has returned, the subscribers are cut.   *)
ControllerCloses(i) ==
    /\ controllerAt[i] = "stopping"
    /\ i \notin calling
    /\ controllerAt' = [controllerAt EXCEPT ![i] = "closed"]
    /\ UNCHANGED <<procVars, backend, projectOf, calling, reloadVars, pageVars,
                   cache, worldVars>>

-----------------------------------------------------------------------------
(* Server.Reload and install: the calls take turns under reloadMu.         *)

ReloadGoes(r, from, to) ==
    /\ reloadAt[r] = from
    /\ reloadAt' = [reloadAt EXCEPT ![r] = to]

RequestReload(r) ==
    /\ phase = "serving"
    /\ ReloadGoes(r, "idle", "waiting")
    /\ UNCHANGED <<procVars, ctrlVars, calling, reloadMu, got, made, previous,
                   pageVars, cache, worldVars>>

(* BUG: two calls of Reload are not kept apart.                            *)
AcquireReloadUnlocked(r) ==
    /\ ReloadGoes(r, "waiting", "loading")
    /\ reloadMu' = r
    /\ previous' = [previous EXCEPT ![r] = backend]
    /\ UNCHANGED <<procVars, ctrlVars, calling, got, made, pageVars, cache,
                   worldVars>>

(* reloadMu is taken; previous[r] is the controller the download uses.     *)
AcquireReload(r) ==
    /\ reloadMu = Nobody
    /\ ReloadGoes(r, "waiting", "loading")
    /\ reloadMu' = r
    /\ previous' = [previous EXCEPT ![r] = backend]
    /\ UNCHANGED <<procVars, ctrlVars, calling, got, made, pageVars, cache,
                   worldVars>>

Release(r) ==
    /\ reloadMu' = Nobody
    /\ got' = [got EXCEPT ![r] = NoProject]
    /\ made' = [made EXCEPT ![r] = None]
    /\ previous' = [previous EXCEPT ![r] = None]

(* BUG: the loader does not try again.                                     *)
FailReloadForGood(r, from) ==
    /\ ReloadGoes(r, from, "idle")
    /\ Release(r)
    /\ UNCHANGED <<procVars, ctrlVars, calling, pageVars, worldVars>>

(* Reload returns an error: the loader backs off, unless it was cancelled. *)
FailReload(r, from) ==
    /\ \/ r # Loader /\ ReloadGoes(r, from, "idle")
       \/ r = Loader /\ phase = "serving" /\ ReloadGoes(r, from, "backoff")
       \/ r = Loader /\ phase # "serving" /\ ReloadGoes(r, from, "done")
    /\ Release(r)
    /\ UNCHANGED <<procVars, ctrlVars, calling, pageVars, worldVars>>

(* Download, Extract and Parse, chunk by chunk over the controller that    *)
(* was current: it must still run.                                         *)
LoadSucceeds(r) ==
    /\ previous[r] # None /\ controllerAt[previous[r]] = "running"
    /\ ReloadGoes(r, "loading", "saving")
    /\ got' = [got EXCEPT ![r] = stmProject]
    /\ UNCHANGED <<procVars, ctrlVars, calling, reloadMu, made, previous,
                   pageVars, cache, worldVars>>

LoadFails(r) == FailReload(r, "loading") /\ UNCHANGED cache

(* store.Save: the rename happens, or an error is logged and ignored.      *)
SaveCache(r) ==
    /\ ReloadGoes(r, "saving", "building")
    /\ cache' \in {cache, got[r]}
    /\ UNCHANGED <<procVars, ctrlVars, calling, reloadMu, got, made, previous,
                   pageVars, worldVars>>

Referred(i) ==
    \/ \E r \in Reloaders : i \in {made[r], previous[r]}
    \/ \E p \in Pages : streamOn[p] = i
    \/ i \in {backend, leaving}
Free == {i \in Instances : controllerAt[i] \in {"none", "closed"} /\ ~Referred(i)}

BuildController(r) ==
    /\ got[r] \in Buildable
    /\ ReloadGoes(r, "building", "swapping")
    /\ \E i \in Free :
         /\ \A j \in Free : i <= j
         /\ made' = [made EXCEPT ![r] = i]
         /\ controllerAt' = [controllerAt EXCEPT ![i] = "running"]
         /\ projectOf' = [projectOf EXCEPT ![i] = got[r]]
    /\ UNCHANGED <<procVars, backend, calling, reloadMu, got, previous,
                   pageVars, cache, worldVars>>

BuildFails(r) ==
    /\ got[r] \notin Buildable
    /\ FailReload(r, "building")
    /\ UNCHANGED cache

Swap(r) ==
    /\ ReloadGoes(r, "swapping", "notifying")
    /\ previous' = [previous EXCEPT ![r] = backend]
    /\ backend' = made[r]
    /\ UNCHANGED <<procVars, controllerAt, projectOf, calling, reloadMu, got,
                   made, pageVars, cache, worldVars>>

(* notifyProjectReload: every registered notifier holds a notice.          *)
NotifyPages(r) ==
    /\ ReloadGoes(r, "notifying", "stopping")
    /\ notified' = {p \in Pages : pageAt[p] = "live"}
    /\ UNCHANGED <<procVars, ctrlVars, calling, reloadMu, got, made, previous,
                   pageAt, shows, streamOn, cache, worldVars>>

(* BUG: the previous controller is left alone.                             *)
StopPreviousNever(r) ==
    /\ ReloadGoes(r, "stopping", "closing")
    /\ previous' = [previous EXCEPT ![r] = None]
    /\ UNCHANGED <<procVars, backend, controllerAt, projectOf, calling,
                   reloadMu, got, made, pageVars, cache, worldVars>>

(* BUG: the controller that is current by now is closed.                   *)
StopCurrent(r) ==
    /\ ReloadGoes(r, "stopping", "closing")
    /\ controllerAt' = [controllerAt EXCEPT ![backend] = "stopping"]
    /\ UNCHANGED <<procVars, backend, projectOf, calling, reloadMu, got, made,
                   previous, pageVars, cache, worldVars>>

StopPrevious(r) ==
    /\ ReloadGoes(r, "stopping", "closing")
    /\ controllerAt' = IF previous[r] = None THEN controllerAt
                       ELSE [controllerAt EXCEPT ![previous[r]] = "stopping"]
    /\ UNCHANGED <<procVars, backend, projectOf, calling, reloadMu, got, made,
                   previous, pageVars, cache, worldVars>>

(* BUG: the previous controller is closed in the background.               *)
ReloadReturnsEarly(r) ==
    /\ ReloadGoes(r, "closing", IF r = Loader THEN "done" ELSE "idle")
    /\ Release(r)
    /\ UNCHANGED <<procVars, ctrlVars, calling, pageVars, cache, worldVars>>

ReloadReturns(r) ==
    /\ previous[r] # None => controllerAt[previous[r]] = "closed"
    /\ ReloadGoes(r, "closing", IF r = Loader THEN "done" ELSE "idle")
    /\ Release(r)
    /\ UNCHANGED <<procVars, ctrlVars, calling, pageVars, cache, worldVars>>

(* The loader's wait is over, or it is cancelled.                          *)
LoaderRetries ==
    /\ ReloadGoes(Loader, "backoff", IF phase = "serving" THEN "waiting"
                                                          ELSE "done")
    /\ UNCHANGED <<procVars, ctrlVars, calling, reloadMu, got, made, previous,
                   pageVars, cache, worldVars>>

-----------------------------------------------------------------------------
(* Pages and their event streams.                                          *)

PageGoes(p, from, to) ==
    /\ pageAt[p] \in from
    /\ pageAt' = [pageAt EXCEPT ![p] = to]
NoReload == UNCHANGED <<procVars, ctrlVars, calling, reloadVars, cache, worldVars>>

(* A page is rendered from the project of the current controller.          *)
RenderPage(p) ==
    /\ phase = "serving"
    /\ PageGoes(p, {"away", "navigating"}, "rendered")
    /\ shows' = [shows EXCEPT ![p] = projectOf[backend]]
    /\ UNCHANGED <<streamOn, notified>> /\ NoReload

(* eventsAPI: the backend is read, ...                                     *)
OpenStream(p) ==
    /\ phase = "serving"
    /\ PageGoes(p, {"rendered", "retry"}, "backend")
    /\ streamOn' = [streamOn EXCEPT ![p] = backend]
    /\ UNCHANGED <<shows, notified>> /\ NoReload

(* ... subscribed to, which a stopped controller refuses (503: the         *)
(* EventSource gives up), ...                                              *)
SubscribeStream(p) ==
    /\ \/ /\ PageGoes(p, {"backend"}, "subscribed")
          /\ controllerAt[streamOn[p]] = "running"
          /\ UNCHANGED streamOn
       \/ /\ PageGoes(p, {"backend"}, "dead")
          /\ controllerAt[streamOn[p]] # "running"
          /\ streamOn' = [streamOn EXCEPT ![p] = None]
    /\ UNCHANGED <<shows, notified>> /\ NoReload

(* ... and then the notifier is registered.                                *)
RegisterNotifier(p) ==
    /\ PageGoes(p, {"subscribed"}, "live")
    /\ UNCHANGED <<shows, streamOn, notified>> /\ NoReload

(* The project event: the page loads again.                                *)
TakeNotice(p) ==
    /\ p \in notified
    /\ PageGoes(p, {"live"}, "navigating")
    /\ streamOn' = [streamOn EXCEPT ![p] = None]
    /\ notified' = notified \ {p}
    /\ UNCHANGED shows /\ NoReload

(* The controller cut the stream and there is no notice: the EventSource   *)
(* connects again.                                                         *)
StreamEnds(p) ==
    /\ p \notin notified
    /\ PageGoes(p, {"live"}, "retry")
    /\ controllerAt[streamOn[p]] = "closed"
    /\ streamOn' = [streamOn EXCEPT ![p] = None]
    /\ UNCHANGED <<shows, notified>> /\ NoReload

LeavePage(p) ==
    /\ PageGoes(p, {"rendered", "live", "retry", "dead"}, "away")
    /\ streamOn' = [streamOn EXCEPT ![p] = None]
    /\ notified' = notified \ {p}
    /\ UNCHANGED shows /\ NoReload

-----------------------------------------------------------------------------
LoadEnds(r) == LoadSucceeds(r) \/ LoadFails(r)
ReloadStep(r) == \/ LoadEnds(r) \/ SaveCache(r)
                 \/ BuildController(r) \/ BuildFails(r)
                 \/ Swap(r) \/ NotifyPages(r) \/ StopPrevious(r)
                 \/ ReloadReturns(r)
StreamStep(p) == \/ SubscribeStream(p) \/ RegisterNotifier(p) \/ TakeNotice(p)
                 \/ StreamEnds(p)

Next ==
    \/ Start \/ Crash \/ Signal \/ CloseWebsite \/ Exit \/ EditProject
    \/ \E i \in Instances : CallStarts(i) \/ CallEnds(i) \/ ControllerCloses(i)
    \/ \E r \in Requests : RequestReload(r)
    \/ \E r \in Reloaders : AcquireReload(r) \/ ReloadStep(r)
    \/ LoaderRetries
    \/ \E p \in Pages : RenderPage(p) \/ OpenStream(p) \/ StreamStep(p)
                        \/ LeavePage(p)

Spec == Init /\ [][Next]_vars

(* Goroutines that can go on do, and Go's mutex starves nobody; calls end  *)
(* (client timeout); the STM answers a download now and then.              *)
Fairness ==
    /\ \A i \in Instances : WF_vars(CallEnds(i)) /\ WF_vars(ControllerCloses(i))
    /\ \A r \in Reloaders : SF_vars(AcquireReload(r)) /\ WF_vars(ReloadStep(r))
    /\ SF_vars(LoadSucceeds(Loader)) /\ WF_vars(LoaderRetries)
    /\ \A p \in Pages : WF_vars(StreamStep(p))

FairSpec == Spec /\ Fairness

-----------------------------------------------------------------------------
(* Properties.                                                             *)

(* While the process serves, the controller a handler gets runs: the new   *)
(* one is in place before the old one is stopped (server.go:197-203).      *)
BackendRuns == phase = "serving" => /\ backend # None
                                    /\ controllerAt[backend] = "running"

(* While the process serves, every controller that is not closed is the    *)
(* current one, or the one before or after it in the reload that holds     *)
(* reloadMu: reloads that overlap or fail leave no poll loop behind        *)
(* (server.go:178-203, main.go:86-107).                                    *)
NoControllerLeaks ==
    phase = "serving" =>
        \A i \in Instances : controllerAt[i] \in {"running", "stopping"} =>
            \/ i = backend
            \/ reloadMu # Nobody /\ i \in {made[reloadMu], previous[reloadMu]}

(* A live event stream of a controller that was replaced ends: the page    *)
(* goes on to the current one (server.go:197-203, events.go:45-58).        *)
StreamsFollowBackend ==
    \A p \in Pages :
        pageAt[p] = "live" /\ streamOn[p] # backend
            ~> pageAt[p] # "live" \/ streamOn[p] = backend

(* In a process that goes on serving, with a project in the STM that a     *)
(* controller can be built from, the background loader gets it installed   *)
(* (main.go:117-144).                                                      *)
LoaderInstalls ==
    <>[](phase = "serving" /\ stmProject \in Buildable)
        => <>[](reloadAt[Loader] = "done")

(* main.go:70-71: from the cache or as an empty shell, the website comes   *)
(* up.                                                                     *)
WebsiteComesUp == phase # "failed"

(* Two controllers have calls on their way at a time only in the part of   *)
(* an install that follows the swap, and then they are the new one and the *)
(* one it replaces: Reload returns, and lets the next one begin, when the  *)
(* last call of the old one has (server.go:197-203).                       *)
OverlapOnlyWhileInstalling ==
    phase = "serving" =>
        \A i, j \in calling : i # j =>
            /\ reloadMu # Nobody
            /\ reloadAt[reloadMu] \in {"notifying", "stopping", "closing"}
            /\ {i, j} = {backend, previous[reloadMu]}
=============================================================================
