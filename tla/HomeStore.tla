------------------------------ MODULE HomeStore ------------------------------
(***************************************************************************)
(* The iOS app, which talks to the STM by itself: the store that holds the *)
(* project a view shows (Store/HomeStore.swift), the polling of its client *)
(* (Client/STMv3Client.swift) and the project it keeps on disk             *)
(* (Store/ProjectCache.swift).                                             *)
(*                                                                         *)
(* The store runs on the main actor: what it does between two awaits is    *)
(* one action.  The project has one light and one shutter; a parse gives   *)
(* the devices new ids, all the same number here.                          *)
(*                                                                         *)
(* Disconnect lets go of a store, but listenForEvents keeps it: its task   *)
(* holds self while it waits for events, and the client that would end     *)
(* them is held by self.  Its polling and its tasks go on.                 *)
(*                                                                         *)
(* An operator under a comment that begins with BUG is part of no          *)
(* specification: it is the definition after it with a mistake in it.      *)
(***************************************************************************)
EXTENDS Integers, Sequences, FiniteSets

CONSTANTS
    MaxStores,    \* bound: stores made, in all launches from now on
    MaxLoads,     \* bound: projects downloaded, the one on disk included
    MaxTouches,   \* bound: switches thrown, commands given
    MaxFaults,    \* bound: calls that fail or are answered with nothing
    MaxEvents     \* bound: updates in the stream of a store

ASSUME StoresAssumption == MaxStores \in Nat

Stores == 1..MaxStores
None == [id |-> 0, isOn |-> FALSE, moving |-> FALSE]

VARIABLES
    power,       \* the output of the light, in the installation
    commands,    \* the setPower calls on their way
    cache,       \* the project on disk, or None
    current,     \* the store the window shows, 0 when it shows none
    live,        \* the stores whose tasks run
    phase, project, loader,   \* of each store
    reloading,   \* its reload tasks, one for each tap
    gestures,    \* its tasks that press an input
    registered,  \* the id of the light it polls, or 0
    polling,     \* whether startPolling has been called
    poll,        \* where pollOnce is
    events,      \* the updates apply has to see
    saveDue,     \* whether cacheSaveTask sleeps
    clearDue,    \* the ids of shutterClearTasks
    opened, loads, touches, faults,   \* counters for the bounds
    wanted,      \* history: what the light was last told, by whom ever
    calm,        \* history: one at a time, and none was lost
    lastLoaded,  \* history: the id of the project downloaded last
    restored     \* history: the stores whose indicator is out of the cache

world == <<power, commands>>
stores == <<phase, project, loader, reloading, gestures, registered, polling,
            poll, events, saveDue, clearDue>>
bounds == <<opened, loads, touches, faults>>
history == <<wanted, calm, lastLoaded, restored>>
vars == <<world, cache, current, live, stores, bounds, history>>

Resting == [at |-> "idle", id |-> 0, isOn |-> FALSE]
Fresh(id) == [id |-> id, isOn |-> FALSE, moving |-> FALSE]

(* The app starts, for the first time or after launches that left a        *)
(* project on disk.                                                        *)
Init ==
    /\ power \in BOOLEAN /\ commands = {}
    /\ cache \in {None} \cup [id : {1}, isOn : BOOLEAN, moving : BOOLEAN]
    /\ current = 0 /\ live = {}
    /\ phase = [s \in Stores |-> "connecting"]
    /\ project = [s \in Stores |-> None]
    /\ loader = [s \in Stores |-> "done"]
    /\ reloading = [s \in Stores |-> 0] /\ gestures = [s \in Stores |-> 0]
    /\ registered = [s \in Stores |-> 0]
    /\ polling = [s \in Stores |-> FALSE]
    /\ poll = [s \in Stores |-> Resting]
    /\ events = [s \in Stores |-> <<>>]
    /\ saveDue = [s \in Stores |-> FALSE] /\ clearDue = [s \in Stores |-> {}]
    /\ opened = 0 /\ loads = cache.id /\ touches = 0 /\ faults = 0
    /\ wanted = power /\ calm = TRUE /\ lastLoaded = cache.id /\ restored = {}

Fault == faults < MaxFaults /\ faults' = faults + 1
         /\ UNCHANGED <<opened, loads, touches>>
Touch == touches < MaxTouches /\ touches' = touches + 1
         /\ UNCHANGED <<opened, loads, faults>>

-----------------------------------------------------------------------------
(* The app.                                                                *)

(* A host is chosen: a store is made and started, and load runs to its     *)
(* first await.                                                            *)
Open ==
    /\ current = 0 /\ opened < MaxStores
    /\ LET s == opened + 1 IN
       /\ opened' = s /\ current' = s /\ live' = live \cup {s}
       /\ project' = [project EXCEPT ![s] = cache]
       /\ phase' = [phase EXCEPT ![s] = IF cache = None THEN "connecting" ELSE "ready"]
       /\ loader' = [loader EXCEPT ![s] = "connecting"]
       /\ restored' = IF cache.moving THEN restored \cup {s} ELSE restored
    /\ UNCHANGED <<world, cache, reloading, gestures, registered, polling, poll,
                   events, saveDue, clearDue, loads, touches, faults, wanted,
                   calm, lastLoaded>>

Disconnect ==
    /\ current # 0
    /\ current' = 0
    /\ UNCHANGED <<world, cache, live, stores, bounds, history>>

(* The app is ended, at any moment; calls already sent go on.              *)
Kill ==
    /\ live # {}
    /\ current' = 0 /\ live' = {}
    /\ UNCHANGED <<world, cache, stores, bounds, history>>

-----------------------------------------------------------------------------
(* load and reloadProject.                                                 *)

Fails(s) == phase' = [phase EXCEPT ![s] = "failed"]

(* registerDevices and startPolling.                                       *)
Follow(s, id) ==
    /\ registered' = [registered EXCEPT ![s] = id]
    /\ polling' = [polling EXCEPT ![s] = TRUE]

(* A downloaded project replaces the one shown, and the one on disk.       *)
Replace(s) ==
    /\ loads < MaxLoads /\ loads' = loads + 1
    /\ project' = [project EXCEPT ![s] = Fresh(loads')]
    /\ cache' = Fresh(loads')
    /\ lastLoaded' = loads' /\ restored' = restored \ {s}
    /\ UNCHANGED <<opened, touches, faults, wanted, calm>>

ConnectSucceeds(s) ==
    /\ s \in live /\ loader[s] = "connecting"
    /\ IF project[s] = None
         THEN loader' = [loader EXCEPT ![s] = "loading"]
              /\ UNCHANGED <<registered, polling>>
         ELSE loader' = [loader EXCEPT ![s] = "done"] /\ Follow(s, project[s].id)
    /\ UNCHANGED <<world, cache, current, live, phase, project, reloading,
                   gestures, poll, events, saveDue, clearDue, bounds, history>>

LoadSucceeds(s) ==
    /\ s \in live /\ loader[s] = "loading"
    /\ Replace(s)
    /\ phase' = [phase EXCEPT ![s] = "ready"]
    /\ loader' = [loader EXCEPT ![s] = "done"]
    /\ Follow(s, loads')
    /\ UNCHANGED <<world, current, live, reloading, gestures, poll, events,
                   saveDue, clearDue>>

(* connect or loadProject throws: polling is not started.                  *)
LoadFails(s) ==
    /\ s \in live /\ loader[s] \in {"connecting", "loading"}
    /\ Fault
    /\ loader' = [loader EXCEPT ![s] = "done"]
    /\ IF project[s] = None THEN Fails(s) ELSE UNCHANGED phase
    /\ UNCHANGED <<world, cache, current, live, project, reloading, gestures,
                   registered, polling, poll, events, saveDue, clearDue, history>>

(* The devices can be touched as long as there is a project: the detail    *)
(* column of an iPad asks for no more.  An iPhone also asks for the phase. *)
Shown(s) == s = current /\ project[s] # None

(* The button is in the part of the view that only the phase "ready" has.  *)
(* Each tap starts a task, whatever others are on their way; the bound     *)
(* leaves a download to each.                                              *)
ReloadTapped(s) ==
    /\ Shown(s) /\ phase[s] = "ready"
    /\ loads + reloading[s] < MaxLoads
    /\ reloading' = [reloading EXCEPT ![s] = @ + 1]
    /\ UNCHANGED <<world, cache, current, live, phase, project, loader, gestures,
                   registered, polling, poll, events, saveDue, clearDue, bounds,
                   history>>

(* BUG: the client goes on polling the devices of the old project.         *)
ReloadSucceedsUnregistered(s) ==
    /\ s \in live /\ reloading[s] > 0
    /\ reloading' = [reloading EXCEPT ![s] = @ - 1]
    /\ Replace(s)
    /\ UNCHANGED <<world, current, live, phase, loader, gestures, registered,
                   polling, poll, events, saveDue, clearDue>>

ReloadSucceeds(s) ==
    /\ s \in live /\ reloading[s] > 0
    /\ reloading' = [reloading EXCEPT ![s] = @ - 1]
    /\ Replace(s)
    /\ registered' = [registered EXCEPT ![s] = loads']
    /\ UNCHANGED <<world, current, live, phase, loader, gestures, polling, poll,
                   events, saveDue, clearDue>>

ReloadFails(s) ==
    /\ s \in live /\ reloading[s] > 0
    /\ Fault
    /\ reloading' = [reloading EXCEPT ![s] = @ - 1]
    /\ Fails(s)
    /\ UNCHANGED <<world, cache, current, live, project, loader, gestures,
                   registered, polling, poll, events, saveDue, clearDue, history>>

-----------------------------------------------------------------------------
(* Polling, and the updates it makes.                                      *)

PollBegins(s) ==
    /\ s \in live /\ polling[s] /\ poll[s].at = "idle"
    /\ poll' = [poll EXCEPT ![s] = [at |-> "asked", id |-> registered[s],
                                    isOn |-> FALSE]]
    /\ UNCHANGED <<world, cache, current, live, phase, project, loader, reloading,
                   gestures, registered, polling, events, saveDue, clearDue,
                   bounds, history>>

(* BUG: a poll without an answer is the last one.                          *)
PollFailsForGood(s) ==
    /\ s \in live /\ poll[s].at = "asked"
    /\ Fault
    /\ poll' = [poll EXCEPT ![s] = [at |-> "over", id |-> 0, isOn |-> FALSE]]
    /\ UNCHANGED <<world, cache, current, live, phase, project, loader, reloading,
                   gestures, registered, polling, events, saveDue, clearDue,
                   history>>

PollFails(s) ==
    /\ s \in live /\ poll[s].at = "asked"
    /\ Fault
    /\ poll' = [poll EXCEPT ![s] = Resting]
    /\ UNCHANGED <<world, cache, current, live, phase, project, loader, reloading,
                   gestures, registered, polling, events, saveDue, clearDue,
                   history>>

(* The STM reads the output.  A response without numbers reads as 0.       *)
PollAnswered(s) ==
    /\ s \in live /\ poll[s].at = "asked"
    /\ \/ poll' = [poll EXCEPT ![s].at = "answered", ![s].isOn = power]
          /\ UNCHANGED bounds
       \/ poll' = [poll EXCEPT ![s].at = "answered"]
          /\ Fault
    /\ UNCHANGED <<world, cache, current, live, phase, project, loader, reloading,
                   gestures, registered, polling, events, saveDue, clearDue,
                   history>>

PollYields(s) ==
    /\ s \in live /\ poll[s].at = "answered"
    /\ Len(events[s]) < MaxEvents
    /\ events' = [events EXCEPT ![s] = Append(@, poll[s])]
    /\ poll' = [poll EXCEPT ![s] = Resting]
    /\ UNCHANGED <<world, cache, current, live, phase, project, loader, reloading,
                   gestures, registered, polling, saveDue, clearDue, bounds,
                   history>>

(* apply: updates of another project, and those that change nothing, are   *)
(* ignored; the rest are saved some seconds later.                         *)
Apply(s) ==
    /\ s \in live /\ events[s] # <<>>
    /\ events' = [events EXCEPT ![s] = Tail(@)]
    /\ LET update == Head(events[s]) IN
       IF update.id = project[s].id /\ update.isOn # project[s].isOn
         THEN /\ project' = [project EXCEPT ![s].isOn = update.isOn]
              /\ saveDue' = [saveDue EXCEPT ![s] = TRUE]
         ELSE UNCHANGED <<project, saveDue>>
    /\ UNCHANGED <<world, cache, current, live, phase, loader, reloading, gestures,
                   registered, polling, poll, clearDue, bounds, history>>

Save(s) ==
    /\ s \in live /\ saveDue[s]
    /\ saveDue' = [saveDue EXCEPT ![s] = FALSE]
    /\ cache' = project[s]
    /\ UNCHANGED <<world, current, live, phase, project, loader, reloading,
                   gestures, registered, polling, poll, events, clearDue, bounds,
                   history>>

-----------------------------------------------------------------------------
(* Intents.                                                                *)

(* The view shows the new value at once; a task of its own sends it.       *)
TogglePower(s) ==
    /\ Shown(s) /\ Touch
    /\ LET newValue == ~project[s].isOn IN
       /\ project' = [project EXCEPT ![s].isOn = newValue]
       /\ commands' = commands \cup {[n |-> touches', on |-> newValue]}
       /\ wanted' = newValue /\ calm' = (calm /\ commands = {})
    /\ UNCHANGED <<power, cache, current, live, phase, loader, reloading, gestures,
                   registered, polling, poll, events, saveDue, clearDue,
                   lastLoaded, restored>>

(* BUG: the telegram is the one that toggles the output.                   *)
CommandToggles(c) ==
    /\ commands' = commands \ {c}
    /\ power' = ~power
    /\ UNCHANGED <<cache, current, live, stores, bounds, history>>

(* The STM takes the calls in any order.                                   *)
CommandArrives(c) ==
    /\ commands' = commands \ {c}
    /\ power' = c.on
    /\ UNCHANGED <<cache, current, live, stores, bounds, history>>

(* setPower throws; the task drops the error.                              *)
CommandLost(c) ==
    /\ Fault
    /\ commands' = commands \ {c} /\ calm' = FALSE
    /\ UNCHANGED <<power, cache, current, live, stores, wanted, lastLoaded,
                   restored>>

(* BUG: a second command cancels the timer and does not start another.     *)
MoveShutterUntimed(s) ==
    /\ Shown(s) /\ Touch
    /\ \E stop \in BOOLEAN :
         /\ project' = [project EXCEPT ![s].moving = ~stop]
         /\ clearDue' = [clearDue EXCEPT ![s] =
              IF stop \/ project[s].id \in @ THEN @ \ {project[s].id}
              ELSE @ \cup {project[s].id}]
    /\ gestures' = [gestures EXCEPT ![s] = @ + 1]
    /\ restored' = restored \ {s}
    /\ UNCHANGED <<world, cache, current, live, phase, loader, reloading,
                   registered, polling, poll, events, saveDue, wanted, calm,
                   lastLoaded>>

(* moveShutter: up or down shows an indicator for some seconds, stop takes *)
(* it away.  A second command starts the time again.                       *)
MoveShutter(s) ==
    /\ Shown(s) /\ Touch
    /\ \E stop \in BOOLEAN :
         /\ project' = [project EXCEPT ![s].moving = ~stop]
         /\ clearDue' = [clearDue EXCEPT ![s] =
              IF stop THEN @ \ {project[s].id} ELSE @ \cup {project[s].id}]
    /\ gestures' = [gestures EXCEPT ![s] = @ + 1]
    /\ restored' = restored \ {s}
    /\ UNCHANGED <<world, cache, current, live, phase, loader, reloading,
                   registered, polling, poll, events, saveDue, wanted, calm,
                   lastLoaded>>

ClearIndicator(s, id) ==
    /\ s \in live /\ id \in clearDue[s]
    /\ clearDue' = [clearDue EXCEPT ![s] = @ \ {id}]
    /\ project' = IF project[s].id = id THEN [project EXCEPT ![s].moving = FALSE]
                  ELSE project
    /\ UNCHANGED <<world, cache, current, live, phase, loader, reloading, gestures,
                   registered, polling, poll, events, saveDue, bounds, history>>

(* activateScene, longPressButton: nothing is shown.                       *)
PressInput(s) ==
    /\ Shown(s) /\ Touch
    /\ gestures' = [gestures EXCEPT ![s] = @ + 1]
    /\ UNCHANGED <<world, cache, current, live, phase, project, loader, reloading,
                   registered, polling, poll, events, saveDue, clearDue, history>>

(* What a press throws in the installation is a SwitchThrown.              *)
GestureDone(s) ==
    /\ s \in live /\ gestures[s] > 0
    /\ gestures' = [gestures EXCEPT ![s] = @ - 1]
    /\ UNCHANGED <<world, cache, current, live, phase, project, loader, reloading,
                   registered, polling, poll, events, saveDue, clearDue, bounds,
                   history>>

(* One call that fails takes the view away: all of it on an iPhone, the    *)
(* list of rooms on an iPad.  No reload brings it back.                    *)
GestureFails(s) ==
    /\ s \in live /\ gestures[s] > 0
    /\ Fault
    /\ gestures' = [gestures EXCEPT ![s] = @ - 1]
    /\ Fails(s)
    /\ UNCHANGED <<world, cache, current, live, project, loader, reloading,
                   registered, polling, poll, events, saveDue, clearDue, history>>

(* A hand on a switch, or another client of the STM.                       *)
SwitchThrown ==
    /\ Touch
    /\ power' = ~power
    /\ wanted' = power' /\ calm' = (calm /\ commands = {})
    /\ UNCHANGED <<commands, cache, current, live, stores, lastLoaded, restored>>

-----------------------------------------------------------------------------
PollReturns(s) == PollAnswered(s) \/ PollFails(s)
CommandEnds == \E c \in commands : CommandArrives(c) \/ CommandLost(c)

StoreStep(s) ==
    \/ ConnectSucceeds(s) \/ LoadSucceeds(s) \/ LoadFails(s)
    \/ ReloadTapped(s) \/ ReloadSucceeds(s) \/ ReloadFails(s)
    \/ PollBegins(s) \/ PollReturns(s) \/ PollYields(s) \/ Apply(s) \/ Save(s)
    \/ TogglePower(s) \/ MoveShutter(s) \/ PressInput(s)
    \/ GestureDone(s) \/ GestureFails(s)
    \/ \E id \in clearDue[s] : ClearIndicator(s, id)

Next == Open \/ Disconnect \/ Kill \/ SwitchThrown \/ CommandEnds
        \/ \E s \in Stores : StoreStep(s)

Spec == Init /\ [][Next]_vars

(* Tasks run, timers fire, and a call to the STM ends (URLSession has a    *)
(* timeout).  The user need not do anything.                               *)
Fairness ==
    /\ WF_vars(CommandEnds)
    /\ \A s \in Stores :
         /\ WF_vars(PollBegins(s)) /\ WF_vars(PollReturns(s))
         /\ WF_vars(PollYields(s)) /\ WF_vars(Apply(s)) /\ WF_vars(Save(s))
         /\ WF_vars(\E id \in clearDue[s] : ClearIndicator(s, id))
FairSpec == Spec /\ Fairness

-----------------------------------------------------------------------------
(* Properties.                                                             *)

(* A store polls the devices it shows: load and any number of reloads that *)
(* overlap in any way never leave it polling those of a project it has     *)
(* replaced (HomeStore.swift:54 and 76; apply would ignore every update).  *)
RegisteredIsShown ==
    \A s \in live : registered[s] # 0 => registered[s] = project[s].id

(* The light is as it was last told, however old what the user saw was     *)
(* when he touched it, unless two commands were on their way at a time,    *)
(* which may arrive in the other order, or one was lost                    *)
(* (HomeStore.swift:166: a task for each).                                 *)
LastIntentWins == calm /\ commands = {} => power = wanted

(* The view of a store that polls comes to show the installation:          *)
(* optimistic values, polls answered before a command and overtaken by it, *)
(* reloads and lost calls are all made good (HomeStore.swift:86).          *)
ViewSettles ==
    <>[](current # 0 /\ polling[current] => project[current].isOn = power)

(* The sign that a shutter moves goes away again (HomeStore.swift:197), if *)
(* it was not saved to disk and read again by the next launch, which knows *)
(* of no timer for it.                                                     *)
IndicatorClears ==
    \A s \in Stores :
        [](project[s].moving /\ s \in live /\ s \notin restored
             => <>(~project[s].moving \/ s \notin live \/ s \in restored))

(* The project on disk is the one that was downloaded last                 *)
(* (ProjectCache.swift:3).                                                 *)
CacheHoldsLastLoaded == cache.id = lastLoaded
=============================================================================
