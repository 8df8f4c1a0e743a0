----------------------------- MODULE Controller -----------------------------
(***************************************************************************)
(* bridge/internal/controller: the state of one controller, its poll loop, *)
(* the subscribers of its event stream, the commands of the web API, and   *)
(* Close (controller.go, events.go, polling.go, commands.go).              *)
(*                                                                         *)
(* Two locks split the work: stateMu guards revision, connection, stale    *)
(* and states; subsMu guards the subscribers.  A section under one lock is *)
(* one step.  Every state change makes its events under stateMu and        *)
(* publishes them, one subsMu section each, after it released stateMu:     *)
(* outbox[a] holds what goroutine a has made and not published yet.        *)
(*                                                                         *)
(* The scheduler appears by what it promises (SerialExecutor): a call ends *)
(* with the operation's result, an error or the quiet errors of a stop.    *)
(* An operator under a comment that begins with BUG is part of no          *)
(* specification: it is the definition after it with a mistake in it.      *)
(***************************************************************************)
EXTENDS Naturals, Sequences, FiniteSets

CONSTANTS
    Devices,        \* the devices of AMD modules: those with a state
    Channels,       \* c.modules: the devices of each module, in order
    Subscribers,    \* calls of Subscribe
    Executes,       \* calls of Execute
    Target,         \* Target[x]: the device of Execute call x
    Poller,         \* the goroutine of pollLoop
    EventBuffer,    \* capacity of a subscriber's channel
    QueueDepth,     \* capacity of refreshModule
    IdleHealth,     \* IdleHealthInterval > 0
    MayClose,       \* bound: whether Close is ever called
    MaxUpsets       \* bound: outputs switched by hand and calls that fail

ASSUME ChannelsAssumption ==
    /\ Channels \in Seq(Seq(Devices))
    /\ \A m, n \in DOMAIN Channels : \A i \in DOMAIN Channels[m] :
         \A j \in DOMAIN Channels[n] :
           Channels[m][i] = Channels[n][j] => m = n /\ i = j
    /\ \A d \in Devices : \E m \in DOMAIN Channels :
         \E i \in DOMAIN Channels[m] : Channels[m][i] = d
ASSUME ActorsAssumption ==
    /\ Subscribers \cap Executes = {}
    /\ Poller \notin Subscribers \cup Executes
ASSUME TargetAssumption == Target \in [Executes -> Devices]
ASSUME BoundsAssumption ==
    /\ EventBuffer \in Nat \ {0}
    /\ QueueDepth \in Nat \ {0}
    /\ IdleHealth \in BOOLEAN
    /\ MayClose \in BOOLEAN
    /\ MaxUpsets \in Nat

Addresses == DOMAIN Channels
Actors == {Poller} \cup Subscribers \cup Executes
Power == {"on", "off"}
DeviceState == Power \cup {"unknown"}

DevicesOf(m) == {Channels[m][i] : i \in DOMAIN Channels[m]}
ModuleOf(d) == CHOOSE m \in Addresses : d \in DevicesOf(m)

VARIABLES
    \* Under stateMu.
    revision, connection, stale, states,
    \* Under subsMu.
    subscribers,      \* the registered subscribers
    ready,            \* those whose snapshot was sent
    subscriberEpoch,
    channel,          \* channel[s]: the buffered events of s
    chanClosed,       \* the subscribers whose channel is closed
    \* Channels between goroutines.
    pollWake, refreshModule,
    \* Stopping: c.stopped, c.ctx, and the caller of Close.
    stopped, ctxDone, closerAt,
    \* The poll loop.
    pollerAt, job, module, reading, active, seenEpoch,
    timers,           \* the timers that are armed, or fired and not taken
    \* The other goroutines.
    subAt, first, snapshot, executeAt,
    outbox,
    \* The installation, and what has disturbed it.
    outputs, upsets

stateVars  == <<revision, connection, stale, states>>
subsVars   == <<subscribers, ready, subscriberEpoch, channel, chanClosed>>
stopVars   == <<stopped, ctxDone, closerAt>>
pollVars   == <<pollerAt, job, module, reading, active, seenEpoch, timers>>
callVars   == <<subAt, first, snapshot, executeAt>>
worldVars  == <<outputs, upsets>>
vars == <<stateVars, subsVars, pollWake, refreshModule, stopVars, pollVars,
          callVars, outbox, worldVars>>

NoReading == [d \in Devices |-> "unknown"]

Snapshot == [kind |-> "snapshot", revision |-> revision,
             connection |-> connection, stale |-> stale, states |-> states]
ConnectionEvent(rev, conn, st) ==
    [kind |-> "connection", revision |-> rev, connection |-> conn, stale |-> st]
StateEvent(rev, d, p) ==
    [kind |-> "state", revision |-> rev, device |-> d, power |-> p]

Connections == {"connected", "disconnected"}
Events ==
    [kind : {"snapshot"}, revision : Nat, connection : Connections,
     stale : BOOLEAN, states : [Devices -> DeviceState]]
    \cup [kind : {"connection"}, revision : Nat, connection : Connections,
          stale : BOOLEAN]
    \cup [kind : {"state"}, revision : Nat, device : Devices, power : Power]

TypeOK ==
    /\ revision \in Nat /\ connection \in Connections /\ stale \in BOOLEAN
    /\ states \in [Devices -> DeviceState]
    /\ subscribers \subseteq Subscribers /\ ready \subseteq subscribers
    /\ subscriberEpoch \in Nat /\ seenEpoch \in 0..subscriberEpoch
    /\ channel \in [Subscribers -> Seq(Events)]
    /\ \A s \in Subscribers : Len(channel[s]) <= EventBuffer
    /\ chanClosed \subseteq Subscribers
    /\ pollWake \in BOOLEAN
    /\ refreshModule \in Seq(Addresses) /\ Len(refreshModule) <= QueueDepth
    /\ stopped \in BOOLEAN /\ ctxDone \in BOOLEAN
    /\ closerAt \in {"open", "stopping", "waiting", "closed"}
    /\ pollerAt \in {"select", "woken", "sweep", "calling", "replied",
                     "update", "failed", "exited"}
    /\ job \in {"sweep", "health", "refresh"}
    /\ module \in 1..(Len(Channels) + 1)
    /\ reading \in [Devices -> DeviceState]
    /\ active \in BOOLEAN
    /\ timers \subseteq {"poll", "grace", "health"}
    /\ subAt \in [Subscribers -> {"idle", "checked", "registered", "snapshot",
                                  "deliver", "wake", "live", "cancelled",
                                  "gone", "refused"}]
    /\ first \in [Subscribers -> BOOLEAN]
    /\ executeAt \in [Executes -> {"idle", "calling", "succeeded", "refresh",
                                   "failed", "done"}]
    /\ snapshot \in [Subscribers -> Seq(Events)]
    /\ outbox \in [Actors -> Seq(Events)]
    /\ outputs \in [Devices -> Power]
    /\ upsets \in 0..MaxUpsets

(* New: disconnected, stale, every state unknown; with idle health the     *)
(* first probe is due after one interval (polling.go:21-30).               *)
Init ==
    /\ revision = 0 /\ connection = "disconnected" /\ stale = TRUE
    /\ states = [d \in Devices |-> "unknown"]
    /\ subscribers = {} /\ ready = {} /\ subscriberEpoch = 0
    /\ channel = [s \in Subscribers |-> <<>>] /\ chanClosed = {}
    /\ pollWake = FALSE /\ refreshModule = <<>>
    /\ stopped = FALSE /\ ctxDone = FALSE /\ closerAt = "open"
    /\ pollerAt = "select" /\ job = "sweep" /\ module = 1
    /\ reading = NoReading /\ active = FALSE /\ seenEpoch = 0
    /\ timers = IF IdleHealth /\ Addresses # {} THEN {"health"} ELSE {}
    /\ subAt = [s \in Subscribers |-> "idle"]
    /\ first = [s \in Subscribers |-> FALSE]
    /\ snapshot = [s \in Subscribers |-> <<>>]
    /\ executeAt = [x \in Executes |-> "idle"]
    /\ outbox = [a \in Actors |-> <<>>]
    /\ outputs = [d \in Devices |-> "off"]
    /\ upsets = 0

-----------------------------------------------------------------------------
(* events.go: the sections under stateMu.  Each leaves the events it made  *)
(* in the outbox of the goroutine that ran it.                             *)

Quiet(a) == outbox[a] = <<>>

(* BUG: the mark changes, the revision does not.                           *)
SetStaleUncounted(a, value) ==
    \/ /\ stale = value
       /\ UNCHANGED <<stateVars, outbox>>
    \/ /\ stale # value
       /\ stale' = value
       /\ outbox' = [outbox EXCEPT
            ![a] = <<ConnectionEvent(revision, connection, value)>>]
       /\ UNCHANGED <<revision, connection, states>>

SetStale(a, value) ==
    \/ /\ stale = value
       /\ UNCHANGED <<stateVars, outbox>>
    \/ /\ stale # value
       /\ stale' = value
       /\ revision' = revision + 1
       /\ outbox' = [outbox EXCEPT
            ![a] = <<ConnectionEvent(revision + 1, connection, value)>>]
       /\ UNCHANGED <<connection, states>>

RecordConnected(a) ==
    \/ /\ connection = "connected"
       /\ UNCHANGED <<stateVars, outbox>>
    \/ /\ connection # "connected"
       /\ connection' = "connected"
       /\ revision' = revision + 1
       /\ outbox' = [outbox EXCEPT
            ![a] = <<ConnectionEvent(revision + 1, "connected", stale)>>]
       /\ UNCHANGED <<stale, states>>

(* BUG: the loss of the connection is published under the old revision.    *)
RecordDisconnectedUncounted(a) ==
    \/ /\ connection = "disconnected" /\ stale
       /\ UNCHANGED <<stateVars, outbox>>
    \/ /\ ~(connection = "disconnected" /\ stale)
       /\ connection' = "disconnected"
       /\ stale' = TRUE
       /\ outbox' = [outbox EXCEPT
            ![a] = <<ConnectionEvent(revision, "disconnected", TRUE)>>]
       /\ UNCHANGED <<revision, states>>

(* BUG: the event carries the mark from before the loss.                   *)
RecordDisconnectedStaleLost(a) ==
    \/ /\ connection = "disconnected" /\ stale
       /\ UNCHANGED <<stateVars, outbox>>
    \/ /\ ~(connection = "disconnected" /\ stale)
       /\ connection' = "disconnected"
       /\ stale' = TRUE
       /\ revision' = revision + 1
       /\ outbox' = [outbox EXCEPT
            ![a] = <<ConnectionEvent(revision + 1, "disconnected", stale)>>]
       /\ UNCHANGED states

RecordDisconnected(a) ==
    \/ /\ connection = "disconnected" /\ stale
       /\ UNCHANGED <<stateVars, outbox>>
    \/ /\ ~(connection = "disconnected" /\ stale)
       /\ connection' = "disconnected"
       /\ stale' = TRUE
       /\ revision' = revision + 1
       /\ outbox' = [outbox EXCEPT
            ![a] = <<ConnectionEvent(revision + 1, "disconnected", TRUE)>>]
       /\ UNCHANGED states

(* The devices of module m whose power differs from the reading, in the    *)
(* order of its channels.                                                  *)
Changed(m, devices) ==
    \E at \in [DOMAIN devices -> DOMAIN Channels[m]] :
        /\ \A i \in DOMAIN devices : devices[i] = Channels[m][at[i]]
        /\ \A i, j \in DOMAIN devices : i < j => at[i] < at[j]
        /\ \A k \in DOMAIN Channels[m] :
             states[Channels[m][k]] # reading[Channels[m][k]]
                <=> \E i \in DOMAIN devices : at[i] = k

(* One revision and one event for each device whose power differs.         *)
UpdateModuleState(a, m) ==
    \E n \in 0..Len(Channels[m]) : \E changed \in [1..n -> DevicesOf(m)] :
        /\ Changed(m, changed)
        /\ states' = [d \in Devices |-> IF d \in DevicesOf(m) THEN reading[d]
                                                              ELSE states[d]]
        /\ revision' = revision + n
        /\ outbox' = [outbox EXCEPT ![a] =
             [i \in 1..n |->
                StateEvent(revision + i, changed[i], reading[changed[i]])]]
        /\ UNCHANGED <<connection, stale>>

(* BUG: the send does not look for room.                                   *)
PublishUnbounded(a) ==
    /\ ~Quiet(a)
    /\ channel' = [s \in Subscribers |->
         IF s \in ready THEN Append(channel[s], Head(outbox[a])) ELSE channel[s]]
    /\ outbox' = [outbox EXCEPT ![a] = Tail(@)]
    /\ UNCHANGED <<stateVars, subscribers, ready, subscriberEpoch, chanClosed,
                   pollWake, refreshModule, stopVars, pollVars, callVars,
                   worldVars>>

(* BUG: events go to subscribers that have no snapshot yet.                *)
PublishToAll(a) ==
    /\ ~Quiet(a)
    /\ channel' = [s \in Subscribers |->
         IF s \in subscribers /\ Len(channel[s]) < EventBuffer
           THEN Append(channel[s], Head(outbox[a]))
           ELSE channel[s]]
    /\ outbox' = [outbox EXCEPT ![a] = Tail(@)]
    /\ UNCHANGED <<stateVars, subscribers, ready, subscriberEpoch, chanClosed,
                   pollWake, refreshModule, stopVars, pollVars, callVars,
                   worldVars>>

(* publish: one event to every ready subscriber whose buffer has room; the *)
(* others miss it.                                                         *)
Publish(a) ==
    /\ ~Quiet(a)
    /\ channel' = [s \in Subscribers |->
         IF s \in ready /\ Len(channel[s]) < EventBuffer
           THEN Append(channel[s], Head(outbox[a]))
           ELSE channel[s]]
    /\ outbox' = [outbox EXCEPT ![a] = Tail(@)]
    /\ UNCHANGED <<stateVars, subscribers, ready, subscriberEpoch, chanClosed,
                   pollWake, refreshModule, stopVars, pollVars, callVars,
                   worldVars>>

-----------------------------------------------------------------------------
(* Subscribe and the cancel function it returns.                           *)

SubGoes(s, from, to) ==
    /\ subAt[s] = from
    /\ Quiet(s)
    /\ subAt' = [subAt EXCEPT ![s] = to]

SubscribeChecks(s) ==
    /\ \/ ~stopped /\ SubGoes(s, "idle", "checked")
       \/ stopped /\ SubGoes(s, "idle", "refused")
    /\ UNCHANGED <<stateVars, subsVars, pollWake, refreshModule, stopVars,
                   pollVars, first, snapshot, executeAt, outbox, worldVars>>

(* BUG: c.stopped is not read again under subsMu.                          *)
RegisterUnchecked(s) ==
    /\ SubGoes(s, "checked", "registered")
    /\ subscribers' = subscribers \cup {s}
    /\ first' = [first EXCEPT ![s] = subscribers = {}]
    /\ subscriberEpoch' = subscriberEpoch + (IF subscribers = {} THEN 1 ELSE 0)
    /\ UNCHANGED <<stateVars, ready, channel, chanClosed, pollWake,
                   refreshModule, stopVars, pollVars, snapshot, executeAt,
                   outbox, worldVars>>

(* BUG: only the very first subscriber begins an epoch.                    *)
RegisterOneEpoch(s) ==
    /\ ~stopped
    /\ SubGoes(s, "checked", "registered")
    /\ subscribers' = subscribers \cup {s}
    /\ first' = [first EXCEPT ![s] = subscribers = {}]
    /\ subscriberEpoch' = 1
    /\ UNCHANGED <<stateVars, ready, channel, chanClosed, pollWake,
                   refreshModule, stopVars, pollVars, snapshot, executeAt,
                   outbox, worldVars>>

(* c.stopped is read again under subsMu, before the entry is made.         *)
Register(s) ==
    /\ \/ /\ ~stopped
          /\ SubGoes(s, "checked", "registered")
          /\ subscribers' = subscribers \cup {s}
          /\ first' = [first EXCEPT ![s] = subscribers = {}]
          /\ subscriberEpoch' = subscriberEpoch
                                + (IF subscribers = {} THEN 1 ELSE 0)
          /\ UNCHANGED chanClosed
       \/ /\ stopped
          /\ SubGoes(s, "checked", "refused")
          /\ chanClosed' = chanClosed \cup {s}
          /\ UNCHANGED <<subscribers, first, subscriberEpoch>>
    /\ UNCHANGED <<stateVars, ready, channel, pollWake, refreshModule,
                   stopVars, pollVars, snapshot, executeAt, outbox, worldVars>>

(* The first subscriber marks the state stale.                             *)
MarkStale(s) ==
    /\ SubGoes(s, "registered", "snapshot")
    /\ \/ first[s] /\ SetStale(s, TRUE)
       \/ ~first[s] /\ UNCHANGED <<stateVars, outbox>>
    /\ first' = [first EXCEPT ![s] = FALSE]
    /\ UNCHANGED <<subsVars, pollWake, refreshModule, stopVars, pollVars,
                   snapshot, executeAt, worldVars>>

TakeSnapshot(s) ==
    /\ SubGoes(s, "snapshot", "deliver")
    /\ snapshot' = [snapshot EXCEPT ![s] = <<Snapshot>>]
    /\ UNCHANGED <<stateVars, subsVars, pollWake, refreshModule, stopVars,
                   pollVars, first, executeAt, outbox, worldVars>>

(* The send holds subsMu: it would block every publisher if it blocked.    *)
DeliverSnapshot(s) ==
    /\ SubGoes(s, "deliver", "wake")
    /\ \/ /\ s \in subscribers
          /\ Len(channel[s]) < EventBuffer
          /\ ready' = ready \cup {s}
          /\ channel' = [channel EXCEPT ![s] = @ \o snapshot[s]]
       \/ /\ s \notin subscribers
          /\ UNCHANGED <<ready, channel>>
    /\ snapshot' = [snapshot EXCEPT ![s] = <<>>]
    /\ UNCHANGED <<stateVars, subscribers, subscriberEpoch, chanClosed,
                   pollWake, refreshModule, stopVars, pollVars, first,
                   executeAt, outbox, worldVars>>

(* wakePoller: a wake that is already pending stands for this one too.     *)
WakePoller(s) ==
    /\ \/ SubGoes(s, "wake", "live")
       \/ SubGoes(s, "cancelled", "gone")
    /\ pollWake' = TRUE
    /\ UNCHANGED <<stateVars, subsVars, refreshModule, stopVars, pollVars,
                   first, snapshot, executeAt, outbox, worldVars>>

(* BUG: the poll loop is not told that a subscriber left.                  *)
CancelSilently(s) ==
    /\ SubGoes(s, "live", "gone")
    /\ subscribers' = subscribers \ {s}
    /\ ready' = ready \ {s}
    /\ chanClosed' = chanClosed \cup {s}
    /\ UNCHANGED <<stateVars, subscriberEpoch, channel, pollWake,
                   refreshModule, stopVars, pollVars, first, snapshot,
                   executeAt, outbox, worldVars>>

(* The browser leaves, or its stream ends because its channel was closed.  *)
Cancel(s) ==
    /\ SubGoes(s, "live", "cancelled")
    /\ subscribers' = subscribers \ {s}
    /\ ready' = ready \ {s}
    /\ chanClosed' = chanClosed \cup {s}
    /\ UNCHANGED <<stateVars, subscriberEpoch, channel, pollWake,
                   refreshModule, stopVars, pollVars, first, snapshot,
                   executeAt, outbox, worldVars>>

(* The stream's handler takes the next event (web/events.go:49).           *)
Receive(s) ==
    /\ subAt[s] = "live"
    /\ channel[s] # <<>>
    /\ channel' = [channel EXCEPT ![s] = Tail(@)]
    /\ UNCHANGED <<stateVars, subscribers, ready, subscriberEpoch, chanClosed,
                   pollWake, refreshModule, stopVars, pollVars, callVars,
                   outbox, worldVars>>

-----------------------------------------------------------------------------
(* Execute.                                                                *)

ExecuteGoes(x, from, to) ==
    /\ executeAt[x] = from
    /\ Quiet(x)
    /\ executeAt' = [executeAt EXCEPT ![x] = to]

ExecuteChecks(x) ==
    /\ \/ ~stopped /\ ExecuteGoes(x, "idle", "calling")
       \/ stopped /\ ExecuteGoes(x, "idle", "done")
    /\ UNCHANGED <<stateVars, subsVars, pollWake, refreshModule, stopVars,
                   pollVars, subAt, first, snapshot, outbox, worldVars>>

(* scheduler.command returns.  The telegram may have reached the device    *)
(* whatever the caller is told; context.Canceled and ErrSchedulerStopped   *)
(* leave the recorded connection alone.                                    *)
CommandReturns(x) ==
    /\ \E to \in {"succeeded", "failed", "done"} : ExecuteGoes(x, "calling", to)
    /\ \E p \in Power : outputs' = [outputs EXCEPT ![Target[x]] = p]
    /\ UNCHANGED <<stateVars, subsVars, pollWake, refreshModule, stopVars,
                   pollVars, subAt, first, snapshot, outbox, upsets>>

ExecuteRecords(x) ==
    /\ \/ ExecuteGoes(x, "succeeded", "refresh") /\ RecordConnected(x)
       \/ ExecuteGoes(x, "failed", "done") /\ RecordDisconnected(x)
    /\ UNCHANGED <<subsVars, pollWake, refreshModule, stopVars, pollVars,
                   subAt, first, snapshot, worldVars>>

(* A full refresh queue drops the request.                                 *)
RequestRefresh(x) ==
    /\ ExecuteGoes(x, "refresh", "done")
    /\ refreshModule' = IF Len(refreshModule) < QueueDepth
                          THEN Append(refreshModule, ModuleOf(Target[x]))
                          ELSE refreshModule
    /\ UNCHANGED <<stateVars, subsVars, pollWake, stopVars, pollVars, subAt,
                   first, snapshot, outbox, worldVars>>

-----------------------------------------------------------------------------
(* pollLoop, pollSweep and pollModule: the poller goroutine.               *)

Polls(from) == pollerAt = from /\ Quiet(Poller)

(* The frame of a step that reads and moves the poll loop alone.           *)
PollerOnly ==
    UNCHANGED <<stateVars, subsVars, refreshModule, stopVars, callVars, outbox,
                worldVars>>

(* <-c.ctx.Done(), one branch among the ready ones.                        *)
PollerExits ==
    /\ Polls("select")
    /\ ctxDone
    /\ pollerAt' = "exited"
    /\ UNCHANGED <<job, module, reading, active, seenEpoch, timers, pollWake>>
    /\ PollerOnly

TakeWake ==
    /\ Polls("select")
    /\ pollWake
    /\ pollWake' = FALSE
    /\ pollerAt' = "woken"
    /\ UNCHANGED <<job, module, reading, active, seenEpoch, timers>>
    /\ PollerOnly

StartJob(what, address) ==
    /\ pollerAt' = IF what = "sweep" THEN "sweep" ELSE "calling"
    /\ job' = what
    /\ module' = address

(* subscriberState after a wake, and what follows from it.                 *)
HandleWake ==
    /\ Polls("woken")
    /\ \/ /\ subscribers # {} /\ subscriberEpoch # seenEpoch
          /\ seenEpoch' = subscriberEpoch
          /\ active' = TRUE
          /\ timers' = timers \ {"grace", "health"}
          /\ StartJob("sweep", 1)
       \/ /\ subscribers # {} /\ subscriberEpoch = seenEpoch
          /\ timers' = timers \ {"grace"}
          /\ pollerAt' = "select"
          /\ UNCHANGED <<job, module, active, seenEpoch>>
       \/ /\ subscribers = {}
          /\ timers' = IF active THEN timers \cup {"grace"} ELSE timers
          /\ pollerAt' = "select"
          /\ UNCHANGED <<job, module, active, seenEpoch>>
    /\ UNCHANGED <<reading, pollWake>>
    /\ PollerOnly

PollTimer ==
    /\ Polls("select")
    /\ "poll" \in timers
    /\ timers' = timers \ {"poll"}
    /\ \/ active /\ StartJob("sweep", 1)
       \/ ~active /\ UNCHANGED <<pollerAt, job, module>>
    /\ UNCHANGED <<reading, active, seenEpoch, pollWake>>
    /\ PollerOnly

(* The grace period ends; the subscribers are counted again.               *)
GraceTimer ==
    /\ Polls("select")
    /\ "grace" \in timers
    /\ \/ /\ subscribers = {}
          /\ active' = FALSE
          /\ timers' = (timers \ {"grace", "poll"}) \cup
                         (IF IdleHealth /\ Addresses # {} THEN {"health"} ELSE {})
       \/ /\ subscribers # {}
          /\ timers' = timers \ {"grace"}
          /\ UNCHANGED active
    /\ UNCHANGED <<pollerAt, job, module, reading, seenEpoch, pollWake>>
    /\ PollerOnly

HealthTimer ==
    /\ Polls("select")
    /\ "health" \in timers
    /\ timers' = timers \ {"health"}
    /\ \/ ~active /\ StartJob("health", 1)
       \/ active /\ UNCHANGED <<pollerAt, job, module>>
    /\ UNCHANGED <<reading, active, seenEpoch, pollWake>>
    /\ PollerOnly

TakeRefresh ==
    /\ Polls("select")
    /\ refreshModule # <<>>
    /\ StartJob("refresh", Head(refreshModule))
    /\ refreshModule' = Tail(refreshModule)
    /\ UNCHANGED <<reading, active, seenEpoch, timers, pollWake>>
    /\ UNCHANGED <<stateVars, subsVars, stopVars, callVars, outbox, worldVars>>

(* The head of pollSweep's loop: a sweep that read every module clears the *)
(* stale mark, one that a stop interrupts does not.                        *)
SweepNext ==
    /\ Polls("sweep")
    /\ \/ /\ module > Len(Channels)
          /\ SetStale(Poller, FALSE)
          /\ pollerAt' = "select"
          /\ module' = 1
          /\ timers' = timers \cup {"poll"}
       \/ /\ module <= Len(Channels) /\ ctxDone
          /\ pollerAt' = "select"
          /\ module' = 1
          /\ timers' = timers \cup {"poll"}
          /\ UNCHANGED <<stateVars, outbox>>
       \/ /\ module <= Len(Channels) /\ ~ctxDone
          /\ pollerAt' = "calling"
          /\ UNCHANGED <<stateVars, outbox, module, timers>>
    /\ UNCHANGED <<job, reading, active, seenEpoch, pollWake, subsVars,
                   refreshModule, stopVars, callVars, worldVars>>

(* BUG: a sweep goes on, as complete, past a module that failed.           *)
ModuleDoneRegardless(ok) ==
    \/ /\ job = "sweep"
       /\ pollerAt' = "sweep"
       /\ module' = module + 1
       /\ UNCHANGED <<job, timers>>
    \/ /\ job # "sweep"
       /\ pollerAt' = "select"
       /\ module' = 1
       /\ timers' = timers \cup (IF job = "health" THEN {"health"} ELSE {})
       /\ job' = "sweep"

(* BUG: a failed sweep does not arm the poll timer again.                  *)
ModuleDoneUnarmed(ok) ==
    \/ /\ job = "sweep" /\ ok
       /\ pollerAt' = "sweep"
       /\ module' = module + 1
       /\ UNCHANGED <<job, timers>>
    \/ /\ job = "sweep" /\ ~ok
       /\ pollerAt' = "select"
       /\ module' = 1
       /\ UNCHANGED <<job, timers>>
    \/ /\ job # "sweep"
       /\ pollerAt' = "select"
       /\ module' = 1
       /\ timers' = timers \cup (IF job = "health" THEN {"health"} ELSE {})
       /\ job' = "sweep"

(* What follows a module that could be read, and one that could not.       *)
ModuleDone(ok) ==
    \/ /\ job = "sweep" /\ ok
       /\ pollerAt' = "sweep"
       /\ module' = module + 1
       /\ UNCHANGED <<job, timers>>
    \/ /\ job = "sweep" /\ ~ok
       /\ pollerAt' = "select"
       /\ module' = 1
       /\ timers' = timers \cup {"poll"}
       /\ UNCHANGED job
    \/ /\ job # "sweep"
       /\ pollerAt' = "select"
       /\ module' = 1
       /\ timers' = timers \cup (IF job = "health" THEN {"health"} ELSE {})
       /\ job' = "sweep"

(* The telegram is answered: the module's outputs as they are now.  A      *)
(* result that submit finds together with the stop, and takes at random    *)
(* (scheduler.go:80), is this step before CloseCancels; PollRecords may    *)
(* come after it.  A call that begins after the stop is not answered       *)
(* (scheduler.go:98).                                                      *)
ModuleAnswers ==
    /\ Polls("calling")
    /\ ~ctxDone
    /\ reading' = [d \in Devices |-> IF d \in DevicesOf(module)
                                       THEN outputs[d] ELSE "unknown"]
    /\ pollerAt' = "replied"
    /\ UNCHANGED <<job, module, active, seenEpoch, timers, pollWake>>
    /\ PollerOnly

(* The call fails or times out, or a stop interrupts it and its error is   *)
(* wrapped: all of these count as a lost connection.                       *)
ModuleFails ==
    /\ Polls("calling")
    /\ \/ ctxDone /\ UNCHANGED upsets
       \/ ~ctxDone /\ upsets < MaxUpsets /\ upsets' = upsets + 1
    /\ pollerAt' = "failed"
    /\ UNCHANGED <<job, module, reading, active, seenEpoch, timers, pollWake,
                   stateVars, subsVars, refreshModule, stopVars, callVars,
                   outbox, outputs>>

(* context.Canceled itself, or ErrSchedulerStopped: nothing is recorded.   *)
ModuleCancelled ==
    /\ Polls("calling")
    /\ ctxDone
    /\ ModuleDone(FALSE)
    /\ UNCHANGED <<reading, active, seenEpoch, pollWake>>
    /\ PollerOnly

PollRecords ==
    /\ \/ /\ Polls("replied")
          /\ RecordConnected(Poller)
          /\ pollerAt' = "update"
          /\ UNCHANGED <<job, module, timers>>
       \/ /\ Polls("failed")
          /\ RecordDisconnected(Poller)
          /\ ModuleDone(FALSE)
    /\ UNCHANGED <<reading, active, seenEpoch, pollWake, subsVars,
                   refreshModule, stopVars, callVars, worldVars>>

PollUpdates ==
    /\ Polls("update")
    /\ UpdateModuleState(Poller, module)
    /\ ModuleDone(TRUE)
    /\ reading' = NoReading
    /\ UNCHANGED <<active, seenEpoch, pollWake, subsVars, refreshModule,
                   stopVars, callVars, worldVars>>

-----------------------------------------------------------------------------
(* Close: c.stopped, then c.ctx and the scheduler, then the poll loop is   *)
(* waited for, then every subscriber left is cut off.                      *)
CloseStops ==
    /\ MayClose
    /\ closerAt = "open"
    /\ closerAt' = "stopping"
    /\ stopped' = TRUE
    /\ UNCHANGED <<ctxDone, stateVars, subsVars, pollWake, refreshModule,
                   pollVars, callVars, outbox, worldVars>>

CloseCancels ==
    /\ closerAt = "stopping"
    /\ closerAt' = "waiting"
    /\ ctxDone' = TRUE
    /\ UNCHANGED <<stopped, stateVars, subsVars, pollWake, refreshModule,
                   pollVars, callVars, outbox, worldVars>>

CloseCuts ==
    /\ closerAt = "waiting"
    /\ pollerAt = "exited"
    /\ closerAt' = "closed"
    /\ chanClosed' = chanClosed \cup subscribers
    /\ subscribers' = {}
    /\ ready' = {}
    /\ UNCHANGED <<stopped, ctxDone, stateVars, subscriberEpoch, channel,
                   pollWake, refreshModule, pollVars, callVars, outbox,
                   worldVars>>

(* Somebody switches an output by hand.                                    *)
SwitchByHand(d) ==
    /\ upsets < MaxUpsets
    /\ upsets' = upsets + 1
    /\ \E p \in Power \ {outputs[d]} : outputs' = [outputs EXCEPT ![d] = p]
    /\ UNCHANGED <<stateVars, subsVars, pollWake, refreshModule, stopVars,
                   pollVars, callVars, outbox>>

-----------------------------------------------------------------------------
SubscribeStep(s) == \/ Register(s) \/ MarkStale(s) \/ TakeSnapshot(s)
                    \/ DeliverSnapshot(s) \/ WakePoller(s)
ExecuteStep(x) == CommandReturns(x) \/ ExecuteRecords(x) \/ RequestRefresh(x)
PollStep == \/ HandleWake \/ SweepNext \/ ModuleAnswers \/ ModuleFails
            \/ ModuleCancelled \/ PollRecords \/ PollUpdates
PollBranch == \/ PollerExits \/ TakeWake \/ PollTimer \/ GraceTimer
              \/ HealthTimer \/ TakeRefresh
CloseStep == CloseCancels \/ CloseCuts

\* Every step but the stream's Receive.
NextButReceive ==
    \/ \E s \in Subscribers : SubscribeChecks(s) \/ SubscribeStep(s) \/ Cancel(s)
    \/ \E x \in Executes : ExecuteChecks(x) \/ ExecuteStep(x)
    \/ PollStep \/ PollBranch
    \/ \E a \in Actors : Publish(a)
    \/ CloseStops \/ CloseStep
    \/ \E d \in Devices : SwitchByHand(d)

Next == NextButReceive \/ \E s \in Subscribers : Receive(s)

Spec == Init /\ [][Next]_vars

(* A goroutine that can go on does; a call of the scheduler returns (the   *)
(* operation timeout); and an armed timer fires and stays ready, so a loop *)
(* that keeps coming back to its select takes each ready branch in the     *)
(* end: Go picks among them at random.  Nothing is assumed of browsers,    *)
(* commands, Close, failures or hands on switches.                         *)
Fairness ==
    /\ \A s \in Subscribers : WF_vars(SubscribeStep(s))
    /\ \A x \in Executes : WF_vars(ExecuteStep(x))
    /\ \A a \in Actors : WF_vars(Publish(a))
    /\ WF_vars(PollStep) /\ WF_vars(CloseStep)
    /\ SF_vars(PollerExits) /\ SF_vars(TakeWake) /\ SF_vars(PollTimer)
    /\ SF_vars(GraceTimer) /\ SF_vars(HealthTimer) /\ SF_vars(TakeRefresh)

FairSpec == Spec /\ Fairness

-----------------------------------------------------------------------------
(* Properties.                                                             *)

(* The snapshot Subscribe sends while it holds subsMu finds room: nothing  *)
(* is published to a subscriber before it is ready (controller.go:189-194, *)
(* 216-219).  A send that blocked there would stop every publisher.        *)
SubscribeNeverBlocks ==
    \A s \in subscribers : subAt[s] \notin {"wake", "live"} => channel[s] = <<>>

(* After Close returned nobody is subscribed and no stream is left open,   *)
(* whatever Subscribe calls were under way (controller.go:170-175,         *)
(* 240-253).                                                               *)
NothingLeftAfterClose ==
    closerAt = "closed" =>
        /\ subscribers = {}
        /\ \A s \in Subscribers :
             subAt[s] \notin {"idle", "checked", "refused"} => s \in chanClosed

(* States that are not marked stale have all been read (polling.go:82-96). *)
FreshStatesKnown == ~stale => \A d \in Devices : states[d] # "unknown"

(* A revision stands for one change: the deltas a subscriber holds and     *)
(* those that are still to be published all differ in it, by whichever     *)
(* goroutines and under whichever lock they were made and sent (events.go, *)
(* controller.go:213-225).  The browser's gap test counts on it; only the  *)
(* snapshot may have the revision of a delta behind it.                    *)
IsDelta(e) == e.kind # "snapshot"
UniqueRevisions ==
    /\ \A a, b \in Actors :
         \A i \in 1..Len(outbox[a]) : \A j \in 1..Len(outbox[b]) :
           outbox[a][i].revision = outbox[b][j].revision => a = b /\ i = j
    /\ \A s \in Subscribers : \A i \in 1..Len(channel[s]) : IsDelta(channel[s][i]) =>
         /\ \A j \in 1..Len(channel[s]) :
              /\ IsDelta(channel[s][j])
              /\ channel[s][i].revision = channel[s][j].revision
              => i = j
         /\ \A a \in Actors : \A j \in 1..Len(outbox[a]) :
              channel[s][i].revision # outbox[a][j].revision

(* What a watcher sees never changes under an unchanged revision, and the  *)
(* revision never goes back (events.go:3-85).                              *)
RevisionCountsChanges ==
    [][/\ revision' >= revision
       /\ <<connection, stale, states>>' # <<connection, stale, states>>
            => revision' > revision]_vars

Settled == connection = "connected" /\ ~stale /\ states = outputs

(* A controller that some browser keeps watching ends up showing the       *)
(* installation as it is, connected and fresh, however wakes, grace        *)
(* period, commands and failed polls interleaved (polling.go:32-96).       *)
WatchedSettles ==
    <>[](subscribers # {} /\ ~stopped) => <>[]Settled

(* Without browsers, polling stops: the grace period is not lost           *)
(* (polling.go:48-66).                                                     *)
UnwatchedGoesIdle ==
    <>[](subscribers = {}) => <>[](~active \/ pollerAt = "exited")
=============================================================================
