-------------------------- MODULE ControllerProofs --------------------------
(***************************************************************************)
(* Proofs about Controller for any modules and devices, any number of      *)
(* subscribers and commands and any size of their buffers.  IInv is the    *)
(* inductive invariant: where a subscriber stands in its registration,     *)
(* what a sweep has read so far, and which revisions are on their way.     *)
(***************************************************************************)
EXTENDS Controller, TLAPS

Unserved == {"idle", "checked", "registered", "snapshot", "deliver", "refused"}
Served == {"wake", "live"}
Left == {"cancelled", "gone"}
AtModule == {"calling", "replied", "update", "failed"}
InSweep == {"sweep", "calling", "replied", "update"}

-----------------------------------------------------------------------------
(* The inductive invariant, in named parts.                                *)

(* The type invariant in parts, one for each group of variables.           *)
StateTyped ==
    /\ revision \in Nat /\ connection \in Connections /\ stale \in BOOLEAN
    /\ states \in [Devices -> DeviceState]
SubsTyped ==
    /\ subscribers \subseteq Subscribers /\ ready \subseteq subscribers
    /\ subscriberEpoch \in Nat /\ seenEpoch \in 0..subscriberEpoch
    /\ chanClosed \subseteq Subscribers
ChannelTyped ==
    /\ channel \in [Subscribers -> Seq(Events)]
    /\ \A s \in Subscribers : Len(channel[s]) <= EventBuffer
QueueTyped ==
    /\ pollWake \in BOOLEAN
    /\ refreshModule \in Seq(Addresses) /\ Len(refreshModule) <= QueueDepth
StopTyped ==
    /\ stopped \in BOOLEAN /\ ctxDone \in BOOLEAN
    /\ closerAt \in {"open", "stopping", "waiting", "closed"}
PollTyped ==
    /\ pollerAt \in {"select", "woken", "sweep", "calling", "replied",
                     "update", "failed", "exited"}
    /\ job \in {"sweep", "health", "refresh"}
    /\ module \in 1..(Len(Channels) + 1)
    /\ reading \in [Devices -> DeviceState]
    /\ active \in BOOLEAN
    /\ timers \subseteq {"poll", "grace", "health"}
CallTyped ==
    /\ subAt \in [Subscribers -> {"idle", "checked", "registered", "snapshot",
                                  "deliver", "wake", "live", "cancelled",
                                  "gone", "refused"}]
    /\ first \in [Subscribers -> BOOLEAN]
    /\ executeAt \in [Executes -> {"idle", "calling", "succeeded", "refresh",
                                   "failed", "done"}]
    /\ snapshot \in [Subscribers -> Seq(Events)]
OutboxTyped == outbox \in [Actors -> Seq(Events)]
WorldTyped == outputs \in [Devices -> Power] /\ upsets \in 0..MaxUpsets
Typed == /\ StateTyped /\ SubsTyped /\ ChannelTyped /\ QueueTyped /\ StopTyped
         /\ PollTyped /\ CallTyped /\ OutboxTyped /\ WorldTyped

(* How far each call of Subscribe is, and what it finds in its buffer.     *)
Registration ==
    /\ \A s \in subscribers :
         subAt[s] \in {"registered", "snapshot", "deliver"} \cup Served
    /\ \A s \in ready : subAt[s] \in Served
    /\ \A s \in Subscribers : subAt[s] \in Unserved => channel[s] = <<>>
    /\ \A s \in Subscribers : subAt[s] = "deliver" =>
         Len(snapshot[s]) = 1 /\ snapshot[s][1].kind = "snapshot"

(* Close, and what each subscriber has of it.                              *)
Stopping ==
    /\ stopped <=> closerAt # "open"
    /\ ctxDone <=> closerAt \in {"waiting", "closed"}
    /\ closerAt = "closed" => subscribers = {}
    /\ \A s \in Subscribers :
         subAt[s] \in {"registered", "snapshot", "deliver"} \cup Served \cup Left =>
           s \in subscribers \/ s \in chanClosed
    /\ \A s \in Subscribers : subAt[s] \in Left => s \in chanClosed

(* What the poll loop is about, and what a sweep has read.                 *)
Sweeping ==
    /\ pollerAt = "sweep" => job = "sweep"
    /\ pollerAt \in AtModule => module \in Addresses
    /\ "health" \in timers => Addresses # {}
    /\ pollerAt \in {"replied", "update"} =>
         \A d \in DevicesOf(module) : reading[d] \in Power
    /\ pollerAt \in InSweep /\ job = "sweep" =>
         \A m \in Addresses : m < module =>
           \A d \in DevicesOf(m) : states[d] # "unknown"

(* The revisions of events that are on their way.                          *)
Revisions ==
    /\ \A a \in Actors : \A i \in 1..Len(outbox[a]) :
         IsDelta(outbox[a][i]) /\ outbox[a][i].revision <= revision
    /\ \A s \in Subscribers : \A i \in 1..Len(channel[s]) :
         IsDelta(channel[s][i]) => channel[s][i].revision <= revision
    /\ UniqueRevisions

IInv == /\ Typed /\ Registration /\ Stopping /\ Sweeping /\ FreshStatesKnown
        /\ Revisions

-----------------------------------------------------------------------------
(* Events.                                                                 *)

LEMMA EventsMade ==
    ASSUME NEW rev \in Nat
    PROVE  /\ \A conn \in Connections, st \in BOOLEAN :
                /\ ConnectionEvent(rev, conn, st) \in Events
                /\ IsDelta(ConnectionEvent(rev, conn, st))
                /\ ConnectionEvent(rev, conn, st).revision = rev
           /\ \A d \in Devices, p \in Power :
                /\ StateEvent(rev, d, p) \in Events
                /\ IsDelta(StateEvent(rev, d, p))
                /\ StateEvent(rev, d, p).revision = rev
  BY DEF Events, ConnectionEvent, StateEvent, IsDelta

LEMMA SnapshotMade ==
    ASSUME TypeOK
    PROVE  Snapshot \in Events /\ Snapshot.kind = "snapshot" /\ ~IsDelta(Snapshot)
  BY DEF Events, Snapshot, IsDelta, TypeOK

LEMMA RevisionTyped == \A e \in Events : e.revision \in Nat
  BY DEF Events

(* What a section under stateMu leaves behind: as many events as it        *)
(* counted revisions, one for each.                                        *)
EmitsThese(a, n, made) ==
    /\ revision' = revision + n
    /\ outbox' = [outbox EXCEPT ![a] = made]
    /\ \A i \in 1..n : IsDelta(made[i]) /\ made[i].revision = revision + i
Emits(a) == \E n \in Nat : \E made \in [1..n -> Events] : EmitsThese(a, n, made)

LEMMA NothingEmitted ==
    ASSUME TypeOK, NEW a \in Actors, Quiet(a), revision' = revision, outbox' = outbox
    PROVE  Emits(a)
<1>1. <<>> \in [1..0 -> Events]
  OBVIOUS
<1>2. outbox' = [outbox EXCEPT ![a] = <<>>]
  BY DEF Quiet, TypeOK
<1>3. revision' = revision + 0 /\ \A i \in 1..0 : FALSE
  BY DEF TypeOK
<1>4. EmitsThese(a, 0, <<>>)
  BY <1>2, <1>3 DEF EmitsThese
<1>5. 0 \in Nat
  OBVIOUS
<1> QED
  BY <1>1, <1>4, <1>5 DEF Emits

LEMMA OneEmitted ==
    ASSUME TypeOK, NEW a \in Actors, NEW e \in Events, IsDelta(e),
           e.revision = revision + 1, revision' = revision + 1,
           outbox' = [outbox EXCEPT ![a] = <<e>>]
    PROVE  Emits(a)
<1>1. <<e>> \in [1..1 -> Events] /\ \A i \in 1..1 : <<e>>[i] = e /\ i = 1
  OBVIOUS
<1>2. EmitsThese(a, 1, <<e>>)
  BY <1>1 DEF EmitsThese
<1> QED
  BY <1>1, <1>2 DEF Emits

(* setStale (events.go:3-17).                                              *)
LEMMA SetStaleEmits ==
    ASSUME TypeOK, NEW a \in Actors, Quiet(a), NEW value \in BOOLEAN,
           SetStale(a, value)
    PROVE  Emits(a) /\ stale' = value /\ UNCHANGED <<connection, states>>
<1>1. CASE stale = value
  <2>1. UNCHANGED <<revision, outbox, connection, stale, states>>
    BY <1>1 DEF SetStale, stateVars
  <2> QED
    BY <1>1, <2>1, NothingEmitted
<1>2. CASE stale # value
  <2> DEFINE e == ConnectionEvent(revision + 1, connection, value)
  <2>1. e \in Events /\ IsDelta(e) /\ e.revision = revision + 1
    BY EventsMade DEF TypeOK
  <2>2. revision' = revision + 1 /\ outbox' = [outbox EXCEPT ![a] = <<e>>]
    BY <1>2 DEF SetStale
  <2>3. Emits(a)
    BY <2>1, <2>2, OneEmitted
  <2> QED
    BY <1>2, <2>3 DEF SetStale
<1> QED
  BY <1>1, <1>2

(* recordConnected (events.go:21-35).                                      *)
LEMMA RecordConnectedEmits ==
    ASSUME TypeOK, NEW a \in Actors, Quiet(a), RecordConnected(a)
    PROVE  Emits(a) /\ connection' \in Connections /\ UNCHANGED <<stale, states>>
<1>1. CASE connection = "connected"
  <2>1. UNCHANGED <<revision, outbox, connection, stale, states>>
    BY <1>1 DEF RecordConnected, stateVars
  <2> QED
    BY <1>1, <2>1, NothingEmitted DEF Connections
<1>2. CASE connection # "connected"
  <2> DEFINE e == ConnectionEvent(revision + 1, "connected", stale)
  <2>1. e \in Events /\ IsDelta(e) /\ e.revision = revision + 1
    BY EventsMade DEF TypeOK, Connections
  <2>2. revision' = revision + 1 /\ outbox' = [outbox EXCEPT ![a] = <<e>>]
    BY <1>2 DEF RecordConnected
  <2>3. Emits(a)
    BY <2>1, <2>2, OneEmitted
  <2> QED
    BY <1>2, <2>3 DEF RecordConnected, Connections
<1> QED
  BY <1>1, <1>2

(* recordDisconnected (events.go:39-54).                                   *)
LEMMA RecordDisconnectedEmits ==
    ASSUME TypeOK, NEW a \in Actors, Quiet(a), RecordDisconnected(a)
    PROVE  Emits(a) /\ connection' \in Connections /\ stale' /\ stale' \in BOOLEAN
           /\ UNCHANGED states
<1>1. CASE connection = "disconnected" /\ stale
  <2>1. UNCHANGED <<revision, outbox, connection, stale, states>>
    BY <1>1 DEF RecordDisconnected, stateVars
  <2> QED
    BY <1>1, <2>1, NothingEmitted DEF Connections, TypeOK
<1>2. CASE ~(connection = "disconnected" /\ stale)
  <2> DEFINE e == ConnectionEvent(revision + 1, "disconnected", TRUE)
  <2>0. revision + 1 \in Nat /\ "disconnected" \in Connections /\ TRUE \in BOOLEAN
    BY DEF TypeOK, Connections
  <2>1. e \in Events /\ IsDelta(e) /\ e.revision = revision + 1
    BY <2>0, EventsMade, Zenon
  <2>2. revision' = revision + 1 /\ outbox' = [outbox EXCEPT ![a] = <<e>>]
    BY <1>2 DEF RecordDisconnected
  <2>3. Emits(a)
    BY <2>1, <2>2, OneEmitted
  <2> QED
    BY <1>2, <2>3 DEF RecordDisconnected, Connections
<1> QED
  BY <1>1, <1>2

(* updateModuleState (events.go:58-84).                                    *)
LEMMA UpdateEmits ==
    ASSUME TypeOK, NEW a \in Actors, NEW m \in Addresses, UpdateModuleState(a, m),
           \A d \in DevicesOf(m) : reading[d] \in Power
    PROVE  /\ Emits(a) /\ UNCHANGED <<connection, stale>>
           /\ states' = [d \in Devices |-> IF d \in DevicesOf(m) THEN reading[d]
                                                                 ELSE states[d]]
<1>0. PICK n \in 0..Len(Channels[m]) : \E changed \in [1..n -> DevicesOf(m)] :
         /\ revision' = revision + n
         /\ outbox' = [outbox EXCEPT ![a] =
              [i \in 1..n |->
                 StateEvent(revision + i, changed[i], reading[changed[i]])]]
  BY DEF UpdateModuleState
<1>1. PICK changed \in [1..n -> DevicesOf(m)] :
         /\ revision' = revision + n
         /\ outbox' = [outbox EXCEPT ![a] =
              [i \in 1..n |->
                 StateEvent(revision + i, changed[i], reading[changed[i]])]]
  BY <1>0
<1> DEFINE made == [i \in 1..n |->
                      StateEvent(revision + i, changed[i], reading[changed[i]])]
<1>2. n \in Nat
  BY ChannelsAssumption DEF Addresses
<1>3. DevicesOf(m) \subseteq Devices
  BY ChannelsAssumption DEF DevicesOf, Addresses
<1>4. \A i \in 1..n : /\ made[i] \in Events /\ IsDelta(made[i])
                      /\ made[i].revision = revision + i
  <2> SUFFICES ASSUME NEW i \in 1..n
               PROVE  /\ made[i] \in Events /\ IsDelta(made[i])
                      /\ made[i].revision = revision + i
    OBVIOUS
  <2>1. revision + i \in Nat
    BY <1>2 DEF TypeOK
  <2>2. changed[i] \in Devices /\ reading[changed[i]] \in Power
    BY <1>3
  <2> QED
    BY <2>1, <2>2, EventsMade
<1>5. made \in [1..n -> Events]
  BY <1>4
<1>6. EmitsThese(a, n, made)
  BY <1>1, <1>4 DEF EmitsThese
<1>7. Emits(a)
  BY <1>2, <1>5, <1>6 DEF Emits
<1> QED
  BY <1>7 DEF UpdateModuleState

-----------------------------------------------------------------------------
(* The revisions on their way.                                             *)

LEMMA EmitKeeps ==
    ASSUME TypeOK, Revisions, NEW a \in Actors, Emits(a), UNCHANGED channel
    PROVE  /\ revision' \in Nat /\ outbox' \in [Actors -> Seq(Events)]
           /\ Revisions'
<1>0. PICK n \in Nat : \E made \in [1..n -> Events] : EmitsThese(a, n, made)
  BY DEF Emits
<1>1. PICK made \in [1..n -> Events] : EmitsThese(a, n, made)
  BY <1>0
<1>2. made \in Seq(Events) /\ Len(made) = n
  OBVIOUS
<1>3. /\ outbox'[a] = made
      /\ \A b \in Actors : b # a => outbox'[b] = outbox[b]
      /\ outbox' \in [Actors -> Seq(Events)]
  BY <1>1, <1>2 DEF TypeOK, EmitsThese
<1>4. revision \in Nat /\ revision' \in Nat /\ revision <= revision'
  BY <1>1 DEF TypeOK, EmitsThese
<1>5. ASSUME NEW b \in Actors, b = a, NEW i \in 1..Len(outbox'[b])
      PROVE  /\ IsDelta(outbox'[b][i]) /\ i \in Nat \ {0}
             /\ outbox'[b][i].revision = revision + i
             /\ outbox'[b][i].revision <= revision'
  BY <1>1, <1>2, <1>3, <1>4, <1>5 DEF EmitsThese
<1>6. ASSUME NEW b \in Actors, b # a, NEW i \in 1..Len(outbox'[b])
      PROVE  /\ IsDelta(outbox'[b][i]) /\ outbox'[b][i].revision \in Nat
             /\ i \in 1..Len(outbox[b]) /\ outbox'[b][i] = outbox[b][i]
             /\ outbox'[b][i].revision <= revision
             /\ outbox'[b][i].revision <= revision'
  <2>1. outbox'[b] = outbox[b] /\ outbox[b] \in Seq(Events)
    BY <1>3, <1>6 DEF TypeOK
  <2>2. outbox[b][i] \in Events /\ IsDelta(outbox[b][i])
        /\ outbox[b][i].revision <= revision
    BY <2>1, <1>6 DEF Revisions
  <2> QED
    BY <2>1, <2>2, <1>4, <1>6, RevisionTyped
<1>7. ASSUME NEW s \in Subscribers, NEW i \in 1..Len(channel[s]), IsDelta(channel[s][i])
      PROVE  /\ channel[s][i].revision \in Nat
             /\ channel[s][i].revision <= revision
             /\ channel[s][i].revision <= revision'
  <2>1. channel[s][i] \in Events /\ channel[s][i].revision <= revision
    BY <1>7 DEF Revisions, TypeOK
  <2> QED
    BY <2>1, <1>4, RevisionTyped
<1>8. ASSUME NEW b \in Actors, NEW c \in Actors, NEW i \in 1..Len(outbox'[b]),
             NEW j \in 1..Len(outbox'[c]),
             outbox'[b][i].revision = outbox'[c][j].revision
      PROVE  b = c /\ i = j
  <2>1. CASE b = a /\ c = a
    BY <2>1, <1>4, <1>5, <1>8
  <2>2. CASE b = a /\ c # a
    BY <2>2, <1>4, <1>5, <1>6, <1>8
  <2>3. CASE b # a /\ c = a
    <3>1. outbox'[b][i].revision \in Nat /\ outbox'[b][i].revision <= revision
      BY <2>3, <1>6
    <3>2. j \in Nat \ {0} /\ outbox'[c][j].revision = revision + j
      BY <2>3, <1>5
    <3> QED
      BY <3>1, <3>2, <1>4, <1>8
  <2>4. CASE b # a /\ c # a
    <3>1. i \in 1..Len(outbox[b]) /\ outbox'[b][i] = outbox[b][i]
      BY <2>4, <1>6
    <3>2. j \in 1..Len(outbox[c]) /\ outbox'[c][j] = outbox[c][j]
      BY <2>4, <1>6
    <3>3. outbox[b][i].revision = outbox[c][j].revision
      BY <3>1, <3>2, <1>8
    <3> QED
      BY <3>1, <3>2, <3>3 DEF Revisions, UniqueRevisions
  <2> QED
    BY <2>1, <2>2, <2>3, <2>4
<1>9. ASSUME NEW s \in Subscribers, NEW i \in 1..Len(channel[s]), IsDelta(channel[s][i]),
             NEW b \in Actors, NEW j \in 1..Len(outbox'[b])
      PROVE  channel[s][i].revision # outbox'[b][j].revision
  <2>0. channel[s][i].revision \in Nat /\ channel[s][i].revision <= revision
    BY <1>7, <1>9
  <2>1. CASE b = a
    <3>1. j \in Nat \ {0} /\ outbox'[b][j].revision = revision + j
      BY <2>1, <1>5
    <3> QED
      BY <3>1, <2>0, <1>4
  <2>2. CASE b # a
    <3>1. j \in 1..Len(outbox[b]) /\ outbox'[b][j] = outbox[b][j]
      BY <2>2, <1>6
    <3> QED
      BY <3>1, <1>9 DEF Revisions, UniqueRevisions
  <2> QED
    BY <2>1, <2>2
<1>10. UniqueRevisions'
  BY <1>8, <1>9 DEF Revisions, UniqueRevisions
<1>11. \A b \in Actors : \A i \in 1..Len(outbox'[b]) :
         IsDelta(outbox'[b][i]) /\ outbox'[b][i].revision <= revision'
  BY <1>5, <1>6
<1> QED
  BY <1>3, <1>4, <1>7, <1>10, <1>11 DEF Revisions

(* publish moves an event, and drops it where there is no room             *)
(* (controller.go:213-225).                                                *)
LEMMA PublishRevisions ==
    ASSUME TypeOK, Revisions, NEW a \in Actors, Publish(a)
    PROVE  /\ channel' \in [Subscribers -> Seq(Events)]
           /\ \A s \in Subscribers : Len(channel'[s]) <= EventBuffer
           /\ outbox' \in [Actors -> Seq(Events)]
           /\ Revisions'
<1> DEFINE e == Head(outbox[a])
<1>1. /\ outbox[a] \in Seq(Events) /\ outbox[a] # <<>>
      /\ e \in Events /\ e = outbox[a][1] /\ 1 \in 1..Len(outbox[a])
  BY DEF Publish, Quiet, TypeOK
<1>2. /\ outbox'[a] = Tail(outbox[a])
      /\ \A b \in Actors : b # a => outbox'[b] = outbox[b]
      /\ outbox' \in [Actors -> Seq(Events)]
  BY <1>1 DEF Publish, TypeOK
<1>3. ASSUME NEW b \in Actors, NEW i \in 1..Len(outbox'[b])
      PROVE  \E k \in 1..Len(outbox[b]) :
               /\ outbox'[b][i] = outbox[b][k]
               /\ k = IF b = a THEN i + 1 ELSE i
  <2>1. CASE b = a
    <3>1. /\ Len(Tail(outbox[a])) = Len(outbox[a]) - 1
          /\ i \in 1..(Len(outbox[a]) - 1)
          /\ Tail(outbox[a])[i] = outbox[a][i + 1]
      BY <1>1, <1>2, <2>1
    <3>2. i + 1 \in 1..Len(outbox[a])
      BY <1>1, <3>1
    <3> QED
      BY <1>2, <2>1, <3>1, <3>2
  <2>2. CASE b # a
    BY <1>2, <2>2
  <2> QED
    BY <2>1, <2>2
<1>4. \A s \in Subscribers :
        \/ channel'[s] = channel[s]
        \/ channel'[s] = Append(channel[s], e) /\ Len(channel[s]) < EventBuffer
  BY DEF Publish
<1>5. \A s \in Subscribers : Len(channel[s]) \in Nat /\ channel[s] \in Seq(Events)
  BY DEF TypeOK
<1>6. /\ channel' \in [Subscribers -> Seq(Events)]
      /\ \A s \in Subscribers : Len(channel'[s]) <= EventBuffer
  BY <1>1, <1>5, BoundsAssumption DEF Publish, TypeOK
<1>7. ASSUME NEW s \in Subscribers, NEW i \in 1..Len(channel'[s])
      PROVE  \/ i \in 1..Len(channel[s]) /\ channel'[s][i] = channel[s][i]
             \/ /\ i = Len(channel[s]) + 1 /\ channel'[s][i] = e
                /\ Len(channel'[s]) = Len(channel[s]) + 1
  <2>1. CASE channel'[s] = channel[s]
    BY <2>1
  <2>2. CASE channel'[s] = Append(channel[s], e)
    BY <2>2, <1>1, <1>5
  <2> QED
    BY <1>4, <2>1, <2>2
<1>8. revision' = revision
  BY DEF Publish, stateVars
<1>9. ASSUME NEW b \in Actors, NEW c \in Actors, NEW i \in 1..Len(outbox'[b]),
             NEW j \in 1..Len(outbox'[c]),
             outbox'[b][i].revision = outbox'[c][j].revision
      PROVE  b = c /\ i = j
  <2>1. PICK k \in 1..Len(outbox[b]) :
          outbox'[b][i] = outbox[b][k] /\ k = IF b = a THEN i + 1 ELSE i
    BY <1>3
  <2>2. PICK l \in 1..Len(outbox[c]) :
          outbox'[c][j] = outbox[c][l] /\ l = IF c = a THEN j + 1 ELSE j
    BY <1>3
  <2>3. outbox[b][k].revision = outbox[c][l].revision
    BY <1>9, <2>1, <2>2
  <2>4. b = c /\ k = l
    BY <2>3 DEF Revisions, UniqueRevisions
  <2> QED
    BY <2>1, <2>2, <2>4
<1>10. ASSUME NEW b \in Actors, NEW j \in 1..Len(outbox'[b])
       PROVE  e.revision # outbox'[b][j].revision
  <2>1. PICK l \in 1..Len(outbox[b]) :
          outbox'[b][j] = outbox[b][l] /\ l = IF b = a THEN j + 1 ELSE j
    BY <1>3
  <2>2. SUFFICES ASSUME outbox[a][1].revision = outbox[b][l].revision PROVE FALSE
    BY <1>1, <2>1
  <2>3. b = a /\ l = 1
    BY <1>1, <2>2 DEF Revisions, UniqueRevisions
  <2> QED
    BY <2>1, <2>3
<1>11. ASSUME NEW s \in Subscribers, NEW i \in 1..Len(channel'[s]), IsDelta(channel'[s][i]),
              NEW b \in Actors, NEW j \in 1..Len(outbox'[b])
       PROVE  channel'[s][i].revision # outbox'[b][j].revision
  <2>1. PICK l \in 1..Len(outbox[b]) : outbox'[b][j] = outbox[b][l]
    BY <1>3
  <2>2. CASE i \in 1..Len(channel[s]) /\ channel'[s][i] = channel[s][i]
    BY <2>1, <2>2, <1>11 DEF Revisions, UniqueRevisions
  <2>3. CASE channel'[s][i] = e
    BY <2>3, <1>10
  <2> QED
    BY <2>2, <2>3, <1>7
<1>12. ASSUME NEW s \in Subscribers, NEW i \in 1..Len(channel[s]), IsDelta(channel[s][i])
       PROVE  channel[s][i].revision # e.revision
  BY <1>1, <1>12 DEF Revisions, UniqueRevisions
<1>13. ASSUME NEW s \in Subscribers, NEW i \in 1..Len(channel'[s]),
              NEW j \in 1..Len(channel'[s]),
              IsDelta(channel'[s][i]), IsDelta(channel'[s][j]),
              channel'[s][i].revision = channel'[s][j].revision
       PROVE  i = j
  <2>1. CASE i \in 1..Len(channel[s]) /\ channel'[s][i] = channel[s][i]
    <3>1. CASE j \in 1..Len(channel[s]) /\ channel'[s][j] = channel[s][j]
      BY <2>1, <3>1, <1>13 DEF Revisions, UniqueRevisions
    <3>2. CASE channel'[s][j] = e
      BY <2>1, <3>2, <1>12, <1>13
    <3> QED
      BY <3>1, <3>2, <1>7
  <2>2. CASE i = Len(channel[s]) + 1 /\ channel'[s][i] = e
    <3>1. CASE j \in 1..Len(channel[s]) /\ channel'[s][j] = channel[s][j]
      BY <2>2, <3>1, <1>12, <1>13
    <3>2. CASE j = Len(channel[s]) + 1
      BY <2>2, <3>2
    <3> QED
      BY <3>1, <3>2, <1>7
  <2> QED
    BY <2>1, <2>2, <1>7
<1>14. UniqueRevisions'
  BY <1>9, <1>11, <1>13 DEF UniqueRevisions
<1>15. ASSUME NEW b \in Actors, NEW i \in 1..Len(outbox'[b])
       PROVE  IsDelta(outbox'[b][i]) /\ outbox'[b][i].revision <= revision'
  <2>1. PICK k \in 1..Len(outbox[b]) : outbox'[b][i] = outbox[b][k]
    BY <1>3
  <2> QED
    BY <2>1, <1>8 DEF Revisions
<1>16. ASSUME NEW s \in Subscribers, NEW i \in 1..Len(channel'[s]), IsDelta(channel'[s][i])
       PROVE  channel'[s][i].revision <= revision'
  <2>1. CASE i \in 1..Len(channel[s]) /\ channel'[s][i] = channel[s][i]
    BY <2>1, <1>8, <1>16 DEF Revisions
  <2>2. CASE channel'[s][i] = e
    BY <2>2, <1>1, <1>8 DEF Revisions
  <2> QED
    BY <2>1, <2>2, <1>7
<1> QED
  BY <1>2, <1>6, <1>14, <1>15, <1>16 DEF Revisions


-----------------------------------------------------------------------------
LEMMA TypedParts == (TypeOK <=> Typed) /\ (TypeOK' <=> Typed')
  BY Zenon DEF TypeOK, Typed, StateTyped, SubsTyped, ChannelTyped, QueueTyped,
               StopTyped, PollTyped, CallTyped, OutboxTyped, WorldTyped

LEMMA TypesFramed ==
    ASSUME Typed
    PROVE  /\ UNCHANGED <<revision, connection, stale, states>> => StateTyped'
           /\ UNCHANGED <<subscribers, ready, subscriberEpoch, seenEpoch, chanClosed>>
                => SubsTyped'
           /\ UNCHANGED channel => ChannelTyped'
           /\ UNCHANGED <<pollWake, refreshModule>> => QueueTyped'
           /\ UNCHANGED <<stopped, ctxDone, closerAt>> => StopTyped'
           /\ UNCHANGED <<pollerAt, job, module, reading, active, timers>> => PollTyped'
           /\ UNCHANGED <<subAt, first, snapshot, executeAt>> => CallTyped'
           /\ UNCHANGED outbox => OutboxTyped'
           /\ UNCHANGED <<outputs, upsets>> => WorldTyped'
<1>1. UNCHANGED <<revision, connection, stale, states>> => StateTyped'
  BY DEF Typed, StateTyped
<1>2. UNCHANGED <<subscribers, ready, subscriberEpoch, seenEpoch, chanClosed>> => SubsTyped'
  BY DEF Typed, SubsTyped
<1>3. UNCHANGED channel => ChannelTyped'
  BY DEF Typed, ChannelTyped
<1>4. UNCHANGED <<pollWake, refreshModule>> => QueueTyped'
  BY DEF Typed, QueueTyped
<1>5. UNCHANGED <<stopped, ctxDone, closerAt>> => StopTyped'
  BY DEF Typed, StopTyped
<1>6. UNCHANGED <<pollerAt, job, module, reading, active, timers>> => PollTyped'
  BY DEF Typed, PollTyped
<1>7. UNCHANGED <<subAt, first, snapshot, executeAt>> => CallTyped'
  BY DEF Typed, CallTyped
<1>8. UNCHANGED outbox => OutboxTyped'
  BY DEF Typed, OutboxTyped
<1>9. UNCHANGED <<outputs, upsets>> => WorldTyped'
  BY DEF Typed, WorldTyped
<1> QED
  BY <1>1, <1>2, <1>3, <1>4, <1>5, <1>6, <1>7, <1>8, <1>9

(* What a step leaves alone.                                               *)

LEMMA FrameKeeps ==
    ASSUME IInv
    PROVE  /\ UNCHANGED <<revision, outbox, channel>> => Revisions'
           /\ UNCHANGED <<pollerAt, job, module, timers, reading, states>> => Sweeping'
           /\ UNCHANGED states /\ (stale' \/ UNCHANGED stale) => FreshStatesKnown'
           /\ UNCHANGED <<subscribers, ready, subAt, channel, snapshot>> => Registration'
           /\ UNCHANGED <<stopped, ctxDone, closerAt, subscribers, subAt, chanClosed>>
                => Stopping'
<1>1. UNCHANGED <<revision, outbox, channel>> => Revisions'
  BY DEF IInv, Revisions, UniqueRevisions
<1>2. UNCHANGED <<pollerAt, job, module, timers, reading, states>> => Sweeping'
  BY DEF IInv, Sweeping
<1>3. UNCHANGED states /\ (stale' \/ UNCHANGED stale) => FreshStatesKnown'
  BY DEF IInv, FreshStatesKnown
<1>4. UNCHANGED <<subscribers, ready, subAt, channel, snapshot>> => Registration'
  BY DEF IInv, Registration
<1>5. UNCHANGED <<stopped, ctxDone, closerAt, subscribers, subAt, chanClosed>> => Stopping'
  BY DEF IInv, Stopping
<1> QED
  BY <1>1, <1>2, <1>3, <1>4, <1>5

(* A module has devices of the installation, and a device has its module.  *)
LEMMA ModulesTyped ==
    /\ Addresses = 1..Len(Channels) /\ Len(Channels) \in Nat
    /\ \A m \in Addresses : DevicesOf(m) \subseteq Devices
    /\ \A d \in Devices : ModuleOf(d) \in Addresses /\ d \in DevicesOf(ModuleOf(d))
<1>1. Addresses = 1..Len(Channels) /\ Len(Channels) \in Nat
  BY ChannelsAssumption DEF Addresses
<1>2. \A m \in Addresses : DevicesOf(m) \subseteq Devices
  BY ChannelsAssumption DEF DevicesOf, Addresses
<1>3. \A d \in Devices : \E m \in Addresses : d \in DevicesOf(m)
  BY ChannelsAssumption DEF DevicesOf, Addresses
<1>4. \A d \in Devices : ModuleOf(d) \in Addresses /\ d \in DevicesOf(ModuleOf(d))
  BY <1>3 DEF ModuleOf
<1> QED
  BY <1>1, <1>2, <1>4

-----------------------------------------------------------------------------
(* The calls of Subscribe.                                                 *)

LEMMA SubscriberMoves ==
    ASSUME IInv, NEW s \in Subscribers, NEW to,
           subAt' = [subAt EXCEPT ![s] = to],
           UNCHANGED <<subscribers, ready, channel, snapshot>>,
           s \in subscribers => to \in {"registered", "snapshot"} \cup Served,
           s \in ready => to \in Served,
           to \in Unserved => channel[s] = <<>>, to # "deliver"
    PROVE  Registration'
<1>1. \A t \in Subscribers : subAt'[t] = IF t = s THEN to ELSE subAt[t]
  BY DEF IInv, Typed, CallTyped
<1>2. subscribers \subseteq Subscribers /\ ready \subseteq subscribers
  BY DEF IInv, Typed, SubsTyped
<1>3. (\A t \in subscribers : subAt[t] \in {"registered", "snapshot", "deliver"} \cup Served)'
  BY <1>1, <1>2 DEF IInv, Registration
<1>4. (\A t \in ready : subAt[t] \in Served)'
  BY <1>1, <1>2 DEF IInv, Registration
<1>5. (\A t \in Subscribers : subAt[t] \in Unserved => channel[t] = <<>>)'
  BY <1>1 DEF IInv, Registration
<1>6. (\A t \in Subscribers : subAt[t] = "deliver" =>
         Len(snapshot[t]) = 1 /\ snapshot[t][1].kind = "snapshot")'
  BY <1>1 DEF IInv, Registration
<1> QED
  BY <1>3, <1>4, <1>5, <1>6 DEF Registration

LEMMA SubscribeChecksKeeps ==
    ASSUME IInv, NEW s \in Subscribers, SubscribeChecks(s) PROVE IInv'
<1> USE DEF SubscribeChecks, SubGoes, stateVars, subsVars, stopVars, pollVars, worldVars
<1>1. CallTyped'
  BY DEF IInv, Typed, CallTyped
<1>2. Registration'
  <2>1. channel[s] = <<>> /\ s \notin subscribers /\ s \notin ready
    BY DEF IInv, Typed, SubsTyped, Registration, Unserved, Served
  <2>2. PICK to \in {"checked", "refused"} : subAt' = [subAt EXCEPT ![s] = to]
    OBVIOUS
  <2> QED
    BY <2>1, <2>2, SubscriberMoves
<1>3. Stopping'
  BY DEF IInv, Typed, CallTyped, Stopping, Served, Left
<1> QED
  BY <1>1, <1>2, <1>3, TypesFramed, FrameKeeps DEF IInv, Typed

LEMMA RegisterKeeps ==
    ASSUME IInv, NEW s \in Subscribers, Register(s) PROVE IInv'
<1> USE DEF Register, SubGoes, stateVars, stopVars, pollVars, worldVars
<1>1. CallTyped'
  BY DEF IInv, Typed, CallTyped
<1>2. SubsTyped'
  BY DEF IInv, Typed, SubsTyped
<1>3. Registration'
  <2>1. \A t \in Subscribers :
          subAt'[t] = IF t # s THEN subAt[t]
                      ELSE IF stopped THEN "refused" ELSE "registered"
    BY DEF IInv, Typed, CallTyped
  <2>2. subscribers' \subseteq subscribers \cup {s} /\ (stopped => subscribers' = subscribers)
    OBVIOUS
  <2>3. subAt[s] = "checked" /\ UNCHANGED <<ready, channel, snapshot>>
        /\ subscribers \subseteq Subscribers /\ ready \subseteq subscribers
    BY DEF IInv, Typed, SubsTyped
  <2>4. s \notin subscribers /\ s \notin ready
    BY <2>3 DEF IInv, Registration, Served
  <2>5. (\A t \in subscribers :
           subAt[t] \in {"registered", "snapshot", "deliver"} \cup Served)'
    BY <2>1, <2>2, <2>3, <2>4 DEF IInv, Registration, Served
  <2>6. (\A t \in ready : subAt[t] \in Served)'
    BY <2>1, <2>3, <2>4 DEF IInv, Registration, Served
  <2>7. (\A t \in Subscribers : subAt[t] \in Unserved => channel[t] = <<>>)'
    BY <2>1, <2>3 DEF IInv, Registration, Unserved
  <2>8. (\A t \in Subscribers : subAt[t] = "deliver" =>
           Len(snapshot[t]) = 1 /\ snapshot[t][1].kind = "snapshot")'
    BY <2>1, <2>3 DEF IInv, Registration
  <2> QED
    BY <2>5, <2>6, <2>7, <2>8 DEF Registration
<1>4. Stopping'
  BY DEF IInv, Typed, CallTyped, StopTyped, Stopping, Served, Left
<1> QED
  BY <1>1, <1>2, <1>3, <1>4, TypesFramed, FrameKeeps DEF IInv, Typed

LEMMA MarkStaleKeeps ==
    ASSUME IInv, NEW s \in Subscribers, MarkStale(s) PROVE IInv'
<1> USE DEF MarkStale, SubGoes, subsVars, stopVars, pollVars, worldVars
<1>0. TypeOK /\ s \in Actors /\ Quiet(s)
  BY TypedParts DEF IInv, Actors
<1>1. /\ Emits(s) /\ UNCHANGED <<connection, states>>
      /\ stale' \in BOOLEAN /\ (stale' \/ UNCHANGED stale)
  <2>1. CASE first[s] /\ SetStale(s, TRUE)
    <3>1. TRUE \in BOOLEAN
      OBVIOUS
    <3>2. Emits(s) /\ stale' = TRUE /\ UNCHANGED <<connection, states>>
      BY <1>0, <2>1, <3>1, SetStaleEmits
    <3> QED
      BY <3>2
  <2>2. CASE UNCHANGED <<stateVars, outbox>>
    <3>1. UNCHANGED <<revision, connection, stale, states, outbox>>
      BY <2>2 DEF stateVars
    <3>2. Emits(s)
      BY <1>0, <3>1, NothingEmitted
    <3> QED
      BY <3>1, <3>2 DEF IInv, Typed, StateTyped
  <2> QED
    BY <2>1, <2>2
<1>2. revision' \in Nat /\ OutboxTyped' /\ Revisions'
  BY <1>0, <1>1, EmitKeeps DEF IInv, OutboxTyped
<1>3. StateTyped'
  BY <1>1, <1>2 DEF IInv, Typed, StateTyped
<1>4. CallTyped'
  BY DEF IInv, Typed, CallTyped
<1>5. Registration'
  BY DEF IInv, Typed, CallTyped, Registration, Unserved, Served
<1>6. Stopping'
  BY DEF IInv, Typed, CallTyped, Stopping, Served, Left
<1> QED
  BY <1>1, <1>2, <1>3, <1>4, <1>5, <1>6, TypesFramed, FrameKeeps DEF IInv, Typed

LEMMA TakeSnapshotKeeps ==
    ASSUME IInv, NEW s \in Subscribers, TakeSnapshot(s) PROVE IInv'
<1> USE DEF TakeSnapshot, SubGoes, stateVars, subsVars, stopVars, pollVars, worldVars
<1>1. Snapshot \in Events /\ Snapshot.kind = "snapshot"
  BY SnapshotMade, TypedParts DEF IInv
<1>2. CallTyped'
  BY <1>1 DEF IInv, Typed, CallTyped
<1>3. Registration'
  BY <1>1 DEF IInv, Typed, CallTyped, Registration, Unserved, Served
<1>4. Stopping'
  BY DEF IInv, Typed, CallTyped, Stopping, Served, Left
<1> QED
  BY <1>2, <1>3, <1>4, TypesFramed, FrameKeeps DEF IInv, Typed

LEMMA DeliverSnapshotKeeps ==
    ASSUME IInv, NEW s \in Subscribers, DeliverSnapshot(s) PROVE IInv'
<1> USE DEF DeliverSnapshot, SubGoes, stateVars, stopVars, pollVars, worldVars
<1>1. /\ channel[s] = <<>> /\ snapshot[s] \in Seq(Events) /\ Len(snapshot[s]) = 1
      /\ snapshot[s][1].kind = "snapshot"
  BY DEF IInv, Typed, CallTyped, Registration, Unserved
<1>2. <<>> \o snapshot[s] = snapshot[s]
  BY <1>1
<1>3. /\ \A t \in Subscribers : t # s => channel'[t] = channel[t]
      /\ channel'[s] = channel[s] \/ channel'[s] = snapshot[s]
      /\ DOMAIN channel' = Subscribers /\ channel' = [t \in Subscribers |-> channel'[t]]
  BY <1>1, <1>2 DEF IInv, Typed, ChannelTyped
<1>4. ChannelTyped'
  <2>1. \A t \in Subscribers : channel'[t] \in Seq(Events)
    BY <1>1, <1>3 DEF IInv, Typed, ChannelTyped
  <2>2. \A t \in Subscribers : Len(channel'[t]) <= EventBuffer
    <3>1. 1 <= EventBuffer
      BY BoundsAssumption
    <3>2. \A t \in Subscribers : Len(channel[t]) <= EventBuffer
      BY DEF IInv, Typed, ChannelTyped
    <3>3. Len(channel'[s]) <= EventBuffer
      BY <1>1, <1>3, <3>1, <3>2
    <3> QED
      BY <1>3, <3>2, <3>3
  <2> QED
    BY <1>3, <2>1, <2>2 DEF ChannelTyped
<1>5. \A i \in 1..Len(channel'[s]) : ~IsDelta(channel'[s][i])
  BY <1>1, <1>3 DEF IsDelta
<1>6. SubsTyped' /\ CallTyped'
  BY DEF IInv, Typed, SubsTyped, CallTyped
<1>7. Registration'
  BY <1>3 DEF IInv, Typed, CallTyped, SubsTyped, Registration, Unserved, Served
<1>8. Stopping'
  BY DEF IInv, Typed, CallTyped, Stopping, Served, Left
<1>9. UNCHANGED <<revision, outbox>>
  OBVIOUS
<1>10. Revisions'
  BY <1>3, <1>5, <1>9 DEF IInv, Revisions, UniqueRevisions
<1> QED
  BY <1>4, <1>6, <1>7, <1>8, <1>10, TypesFramed, FrameKeeps DEF IInv, Typed

LEMMA WakePollerKeeps ==
    ASSUME IInv, NEW s \in Subscribers, WakePoller(s) PROVE IInv'
<1> USE DEF WakePoller, SubGoes, stateVars, subsVars, stopVars, pollVars, worldVars
<1>1. CallTyped' /\ QueueTyped'
  BY DEF IInv, Typed, CallTyped, QueueTyped
<1>2. Registration'
  <2>1. CASE SubGoes(s, "wake", "live")
    BY <2>1, SubscriberMoves DEF Served, Unserved
  <2>2. CASE SubGoes(s, "cancelled", "gone")
    <3>1. s \notin subscribers /\ s \notin ready
      BY <2>2 DEF IInv, Typed, SubsTyped, Registration, Served
    <3> QED
      BY <2>2, <3>1, SubscriberMoves DEF Unserved
  <2> QED
    BY <2>1, <2>2
<1>3. Stopping'
  BY DEF IInv, Typed, CallTyped, Stopping, Served, Left
<1> QED
  BY <1>1, <1>2, <1>3, TypesFramed, FrameKeeps DEF IInv, Typed

LEMMA CancelKeeps ==
    ASSUME IInv, NEW s \in Subscribers, Cancel(s) PROVE IInv'
<1> USE DEF Cancel, SubGoes, stateVars, stopVars, pollVars, worldVars
<1>1. CallTyped' /\ SubsTyped'
  BY DEF IInv, Typed, CallTyped, SubsTyped
<1>2. Registration'
  BY DEF IInv, Typed, CallTyped, Registration, Unserved, Served
<1>3. Stopping'
  BY DEF IInv, Typed, CallTyped, Stopping, Served, Left
<1> QED
  BY <1>1, <1>2, <1>3, TypesFramed, FrameKeeps DEF IInv, Typed

LEMMA ReceiveKeeps ==
    ASSUME IInv, NEW s \in Subscribers, Receive(s) PROVE IInv'
<1> USE DEF Receive, stateVars, stopVars, pollVars, callVars, worldVars
<1>1. channel[s] \in Seq(Events) /\ channel[s] # <<>> /\ Len(channel[s]) <= EventBuffer
  BY DEF IInv, Typed, ChannelTyped
<1>2. /\ channel'[s] = Tail(channel[s])
      /\ \A t \in Subscribers : t # s => channel'[t] = channel[t]
      /\ channel' \in [Subscribers -> Seq(Events)]
  BY <1>1 DEF IInv, Typed, ChannelTyped
<1>3. /\ Len(channel'[s]) = Len(channel[s]) - 1
      /\ \A i \in 1..Len(channel'[s]) :
           i + 1 \in 1..Len(channel[s]) /\ channel'[s][i] = channel[s][i + 1]
  BY <1>1, <1>2
<1>4. ChannelTyped'
  BY <1>1, <1>2, <1>3, BoundsAssumption DEF IInv, Typed, ChannelTyped
<1>5. Registration'
  BY <1>2 DEF IInv, Typed, CallTyped, Registration, Unserved, Served
<1>6. UNCHANGED <<revision, outbox>>
  OBVIOUS
<1>7. ASSUME NEW t \in Subscribers, NEW i \in 1..Len(channel'[t])
      PROVE  \E k \in 1..Len(channel[t]) :
               /\ channel'[t][i] = channel[t][k]
               /\ k = IF t = s THEN i + 1 ELSE i
  BY <1>2, <1>3, <1>7
<1>8. ASSUME NEW t \in Subscribers, NEW i \in 1..Len(channel'[t]),
             NEW j \in 1..Len(channel'[t]), IsDelta(channel'[t][i]),
             IsDelta(channel'[t][j]),
             channel'[t][i].revision = channel'[t][j].revision
      PROVE  i = j
  <2>1. PICK k \in 1..Len(channel[t]) :
          channel'[t][i] = channel[t][k] /\ k = IF t = s THEN i + 1 ELSE i
    BY <1>7
  <2>2. PICK l \in 1..Len(channel[t]) :
          channel'[t][j] = channel[t][l] /\ l = IF t = s THEN j + 1 ELSE j
    BY <1>7
  <2>3. k = l
    BY <2>1, <2>2, <1>8 DEF IInv, Revisions, UniqueRevisions
  <2> QED
    BY <2>1, <2>2, <2>3
<1>9. ASSUME NEW t \in Subscribers, NEW i \in 1..Len(channel'[t]), IsDelta(channel'[t][i])
      PROVE  /\ channel'[t][i].revision <= revision'
             /\ \A a \in Actors : \A j \in 1..Len(outbox'[a]) :
                  channel'[t][i].revision # outbox'[a][j].revision
  <2>1. PICK k \in 1..Len(channel[t]) : channel'[t][i] = channel[t][k]
    BY <1>7
  <2> QED
    BY <2>1, <1>6, <1>9 DEF IInv, Revisions, UniqueRevisions
<1>10. UniqueRevisions'
  <2>1. (\A a, b \in Actors :
           \A i \in 1..Len(outbox[a]) : \A j \in 1..Len(outbox[b]) :
             outbox[a][i].revision = outbox[b][j].revision => a = b /\ i = j)'
    BY <1>6 DEF IInv, Revisions, UniqueRevisions
  <2> QED
    BY <2>1, <1>8, <1>9 DEF UniqueRevisions
<1>11. Revisions'
  BY <1>6, <1>9, <1>10 DEF IInv, Revisions
<1> QED
  BY <1>4, <1>5, <1>11, TypesFramed, FrameKeeps DEF IInv, Typed

LEMMA PublishKeeps ==
    ASSUME IInv, NEW a \in Actors, Publish(a) PROVE IInv'
<1> USE DEF Publish, stateVars, stopVars, pollVars, callVars, worldVars
<1>1. ChannelTyped' /\ OutboxTyped' /\ Revisions'
  BY PublishRevisions, TypedParts DEF IInv, ChannelTyped, OutboxTyped
<1>2. \A s \in Subscribers : s \notin ready => channel'[s] = channel[s]
  OBVIOUS
<1>3. Registration'
  BY <1>2 DEF IInv, Typed, CallTyped, SubsTyped, Registration, Unserved, Served
<1> QED
  BY <1>1, <1>3, TypesFramed, FrameKeeps DEF IInv, Typed

-----------------------------------------------------------------------------
(* The calls of Execute.                                                   *)

LEMMA ExecuteChecksKeeps ==
    ASSUME IInv, NEW x \in Executes, ExecuteChecks(x) PROVE IInv'
<1> USE DEF ExecuteChecks, ExecuteGoes, stateVars, subsVars, stopVars, pollVars, worldVars
<1>1. CallTyped'
  BY DEF IInv, Typed, CallTyped
<1> QED
  BY <1>1, TypesFramed, FrameKeeps DEF IInv, Typed

LEMMA CommandReturnsKeeps ==
    ASSUME IInv, NEW x \in Executes, CommandReturns(x) PROVE IInv'
<1> USE DEF CommandReturns, ExecuteGoes, stateVars, subsVars, stopVars, pollVars
<1>1. CallTyped'
  BY DEF IInv, Typed, CallTyped
<1>2. PICK p \in Power : outputs' = [outputs EXCEPT ![Target[x]] = p]
  OBVIOUS
<1>3. WorldTyped'
  BY <1>2, TargetAssumption DEF IInv, Typed, WorldTyped
<1> QED
  BY <1>1, <1>3, TypesFramed, FrameKeeps DEF IInv, Typed

LEMMA ExecuteRecordsKeeps ==
    ASSUME IInv, NEW x \in Executes, ExecuteRecords(x) PROVE IInv'
<1> USE DEF ExecuteRecords, ExecuteGoes, subsVars, stopVars, pollVars, worldVars
<1>0. TypeOK /\ x \in Actors /\ Quiet(x)
  BY TypedParts DEF IInv, Actors
<1>1. /\ Emits(x) /\ connection' \in Connections /\ UNCHANGED states
      /\ stale' \in BOOLEAN /\ (stale' \/ UNCHANGED stale)
  <2>1. CASE RecordConnected(x)
    BY <1>0, <2>1, RecordConnectedEmits DEF IInv, Typed, StateTyped
  <2>2. CASE RecordDisconnected(x)
    BY <1>0, <2>2, RecordDisconnectedEmits
  <2> QED
    BY <2>1, <2>2
<1>2. revision' \in Nat /\ OutboxTyped' /\ Revisions'
  BY <1>0, <1>1, EmitKeeps DEF IInv, OutboxTyped
<1>3. StateTyped'
  BY <1>1, <1>2 DEF IInv, Typed, StateTyped
<1>4. CallTyped'
  BY DEF IInv, Typed, CallTyped
<1> QED
  BY <1>1, <1>2, <1>3, <1>4, TypesFramed, FrameKeeps DEF IInv, Typed

LEMMA RequestRefreshKeeps ==
    ASSUME IInv, NEW x \in Executes, RequestRefresh(x) PROVE IInv'
<1> USE DEF RequestRefresh, ExecuteGoes, stateVars, subsVars, stopVars, pollVars, worldVars
<1>1. CallTyped'
  BY DEF IInv, Typed, CallTyped
<1>2. ModuleOf(Target[x]) \in Addresses
  BY ModulesTyped, TargetAssumption
<1>3. QueueTyped'
  BY <1>2, BoundsAssumption DEF IInv, Typed, QueueTyped
<1> QED
  BY <1>1, <1>3, TypesFramed, FrameKeeps DEF IInv, Typed

-----------------------------------------------------------------------------
(* The poll loop.                                                          *)

LEMMA PollerExitsKeeps ==
    ASSUME IInv, PollerExits PROVE IInv'
<1> USE DEF PollerExits, Polls, PollerOnly, stateVars, subsVars, stopVars, callVars, worldVars
<1>1. PollTyped'
  BY DEF IInv, Typed, PollTyped
<1>2. Sweeping'
  BY DEF IInv, Sweeping, AtModule, InSweep
<1> QED
  BY <1>1, <1>2, TypesFramed, FrameKeeps DEF IInv, Typed

LEMMA TakeWakeKeeps ==
    ASSUME IInv, TakeWake PROVE IInv'
<1> USE DEF TakeWake, Polls, PollerOnly, stateVars, subsVars, stopVars, callVars, worldVars
<1>1. PollTyped' /\ QueueTyped'
  BY DEF IInv, Typed, PollTyped, QueueTyped
<1>2. Sweeping'
  BY DEF IInv, Sweeping, AtModule, InSweep
<1> QED
  BY <1>1, <1>2, TypesFramed, FrameKeeps DEF IInv, Typed

(* A sweep starts at the first module: it has nothing to have read.        *)
LEMMA SweepStarts ==
    ASSUME IInv, pollerAt' = "sweep", job' = "sweep", module' = 1,
           timers' \subseteq timers
    PROVE  Sweeping'
<1>1. \A m \in Addresses : ~(m < 1)
  BY ModulesTyped
<1> QED
  BY <1>1 DEF IInv, Sweeping, AtModule, InSweep

LEMMA HandleWakeKeeps ==
    ASSUME IInv, HandleWake PROVE IInv'
<1> USE DEF HandleWake, Polls, PollerOnly, StartJob, stateVars, subsVars, stopVars,
            callVars, worldVars
<1>1. PollTyped'
  <2>1. 1 \in 1..(Len(Channels) + 1)
    BY ModulesTyped
  <2>2. pollerAt' \in {"sweep", "select"} /\ job' \in {"sweep", job} /\ module' \in {1, module}
        /\ timers' \subseteq timers \cup {"grace"} /\ UNCHANGED reading
    OBVIOUS
  <2>3. active' \in BOOLEAN
    BY DEF IInv, Typed, PollTyped
  <2> QED
    BY <2>1, <2>2, <2>3 DEF IInv, Typed, PollTyped
<1>2. SubsTyped'
  BY DEF IInv, Typed, SubsTyped
<1>3. Sweeping'
  <2>1. CASE pollerAt' = "sweep"
    BY <2>1, SweepStarts
  <2>2. CASE pollerAt' = "select"
    BY <2>2 DEF IInv, Sweeping, AtModule, InSweep
  <2> QED
    BY <2>1, <2>2
<1> QED
  BY <1>1, <1>2, <1>3, TypesFramed, FrameKeeps DEF IInv, Typed

LEMMA PollTimerKeeps ==
    ASSUME IInv, PollTimer PROVE IInv'
<1> USE DEF PollTimer, Polls, PollerOnly, StartJob, stateVars, subsVars, stopVars,
            callVars, worldVars
<1>0. 1 \in 1..(Len(Channels) + 1)
  BY ModulesTyped
<1>1. PollTyped'
  BY <1>0 DEF IInv, Typed, PollTyped
<1>2. Sweeping'
  <2>1. CASE pollerAt' = "sweep"
    BY <2>1, SweepStarts
  <2>2. CASE pollerAt' = "select"
    BY <2>2 DEF IInv, Sweeping, AtModule, InSweep
  <2> QED
    BY <2>1, <2>2
<1> QED
  BY <1>1, <1>2, TypesFramed, FrameKeeps DEF IInv, Typed

LEMMA GraceTimerKeeps ==
    ASSUME IInv, GraceTimer PROVE IInv'
<1> USE DEF GraceTimer, Polls, PollerOnly, stateVars, subsVars, stopVars, callVars, worldVars
<1>1. PollTyped'
  BY DEF IInv, Typed, PollTyped
<1>2. Sweeping'
  BY DEF IInv, Sweeping, AtModule, InSweep
<1> QED
  BY <1>1, <1>2, TypesFramed, FrameKeeps DEF IInv, Typed

LEMMA HealthTimerKeeps ==
    ASSUME IInv, HealthTimer PROVE IInv'
<1> USE DEF HealthTimer, Polls, PollerOnly, StartJob, stateVars, subsVars, stopVars,
            callVars, worldVars
<1>0. 1 \in 1..(Len(Channels) + 1)
  BY ModulesTyped
<1>1. PollTyped'
  BY <1>0 DEF IInv, Typed, PollTyped
<1>2. Sweeping'
  BY ModulesTyped DEF IInv, Sweeping, AtModule, InSweep
<1> QED
  BY <1>1, <1>2, TypesFramed, FrameKeeps DEF IInv, Typed

LEMMA TakeRefreshKeeps ==
    ASSUME IInv, TakeRefresh PROVE IInv'
<1> USE DEF TakeRefresh, Polls, StartJob, stateVars, subsVars, stopVars, callVars, worldVars
<1>1. /\ Head(refreshModule) \in Addresses /\ refreshModule' \in Seq(Addresses)
      /\ Len(refreshModule') <= QueueDepth
  BY BoundsAssumption DEF IInv, Typed, QueueTyped
<1>2. PollTyped' /\ QueueTyped'
  BY <1>1, ModulesTyped DEF IInv, Typed, PollTyped, QueueTyped
<1>3. Sweeping'
  BY <1>1 DEF IInv, Sweeping, AtModule, InSweep
<1> QED
  BY <1>2, <1>3, TypesFramed, FrameKeeps DEF IInv, Typed

(* The sweep that passes its last module has read every one of them.       *)
LEMMA SweepNextKeeps ==
    ASSUME IInv, SweepNext PROVE IInv'
<1> USE DEF SweepNext, Polls, subsVars, stopVars, callVars, worldVars
<1>0. TypeOK /\ Poller \in Actors /\ Quiet(Poller)
  BY TypedParts DEF IInv, Actors
<1>1. job = "sweep" /\ module \in Nat
  BY ModulesTyped DEF IInv, Typed, PollTyped, Sweeping
<1>2. CASE module > Len(Channels)
  <2>0. ~(module <= Len(Channels))
    BY <1>1, <1>2, ModulesTyped
  <2>1. SetStale(Poller, FALSE) /\ pollerAt' = "select" /\ module' = 1
        /\ timers' = timers \cup {"poll"}
    BY <2>0
  <2>2. FALSE \in BOOLEAN
    OBVIOUS
  <2>3. Emits(Poller) /\ stale' = FALSE /\ UNCHANGED <<connection, states>>
    BY <1>0, <2>1, <2>2, SetStaleEmits
  <2>4. revision' \in Nat /\ OutboxTyped' /\ Revisions'
    BY <1>0, <2>3, EmitKeeps DEF IInv, OutboxTyped
  <2>5. StateTyped'
    BY <2>3, <2>4 DEF IInv, Typed, StateTyped
  <2>6. PollTyped'
    BY <2>1, ModulesTyped DEF IInv, Typed, PollTyped
  <2>7. \A m \in Addresses : m < module
    BY <1>1, <1>2, ModulesTyped
  <2>8. FreshStatesKnown'
    <3>1. \A m \in Addresses : \A d \in DevicesOf(m) : states[d] # "unknown"
      BY <1>1, <2>7 DEF IInv, Sweeping, InSweep
    <3> QED
      BY <2>3, <3>1, ModulesTyped DEF FreshStatesKnown
  <2>9. Sweeping'
    BY <2>1 DEF IInv, Sweeping, AtModule, InSweep
  <2> QED
    BY <2>4, <2>5, <2>6, <2>8, <2>9, TypesFramed, FrameKeeps DEF IInv, Typed
<1>3. CASE ~(module > Len(Channels))
  <2>1. UNCHANGED <<revision, connection, stale, states, outbox>>
    BY <1>3 DEF stateVars
  <2>2. PollTyped'
    <3>1. /\ pollerAt' \in {"select", "calling"} /\ module' \in {1, module}
          /\ timers' \subseteq timers \cup {"poll"} /\ UNCHANGED <<job, reading, active>>
      BY <1>3
    <3>2. 1 \in 1..(Len(Channels) + 1)
      BY ModulesTyped
    <3> QED
      BY <3>1, <3>2 DEF IInv, Typed, PollTyped
  <2>3. module \in Addresses
    BY <1>1, <1>3, ModulesTyped DEF IInv, Typed, PollTyped
  <2>4. Sweeping'
    <3>1. CASE pollerAt' = "select"
      BY <3>1, <1>3 DEF IInv, Sweeping, AtModule, InSweep
    <3>2. CASE pollerAt' = "calling"
      BY <3>2, <1>1, <1>3, <2>1, <2>3 DEF IInv, Sweeping, AtModule, InSweep
    <3> QED
      BY <1>3, <3>1, <3>2
  <2> QED
    BY <2>1, <2>2, <2>4, TypesFramed, FrameKeeps DEF IInv, Typed
<1> QED
  BY <1>2, <1>3

LEMMA ModuleAnswersKeeps ==
    ASSUME IInv, ModuleAnswers PROVE IInv'
<1> USE DEF ModuleAnswers, Polls, PollerOnly, stateVars, subsVars, stopVars, callVars,
            worldVars
<1>1. \A d \in Devices : outputs[d] \in Power
  BY DEF IInv, Typed, WorldTyped
<1>2. PollTyped'
  BY <1>1 DEF IInv, Typed, PollTyped, DeviceState
<1>3. module \in Addresses
  BY DEF IInv, Sweeping, AtModule
<1>4. \A d \in DevicesOf(module) : reading'[d] \in Power
  BY <1>1, <1>3, ModulesTyped
<1>5. Sweeping'
  BY <1>3, <1>4 DEF IInv, Sweeping, AtModule, InSweep
<1> QED
  BY <1>2, <1>5, TypesFramed, FrameKeeps DEF IInv, Typed

LEMMA ModuleFailsKeeps ==
    ASSUME IInv, ModuleFails PROVE IInv'
<1> USE DEF ModuleFails, Polls, stateVars, subsVars, stopVars, callVars
<1>1. PollTyped'
  BY DEF IInv, Typed, PollTyped
<1>2. WorldTyped'
  BY BoundsAssumption DEF IInv, Typed, WorldTyped
<1>3. Sweeping'
  BY DEF IInv, Sweeping, AtModule, InSweep
<1> QED
  BY <1>1, <1>2, <1>3, TypesFramed, FrameKeeps DEF IInv, Typed

(* The poll loop gives a module up.                                        *)
LEMMA GivenUp ==
    ASSUME IInv, ModuleDone(FALSE), pollerAt \in AtModule,
           UNCHANGED <<reading, active, states>>
    PROVE  PollTyped' /\ Sweeping'
<1>1. pollerAt' = "select" /\ module' = 1 /\ timers' \subseteq timers \cup {"poll", "health"}
      /\ job' \in {"sweep", job} /\ Addresses # {}
  BY DEF ModuleDone, IInv, Sweeping
<1>2. PollTyped'
  BY <1>1, ModulesTyped DEF IInv, Typed, PollTyped
<1>3. Sweeping'
  BY <1>1 DEF Sweeping, AtModule, InSweep
<1> QED
  BY <1>2, <1>3

LEMMA ModuleCancelledKeeps ==
    ASSUME IInv, ModuleCancelled PROVE IInv'
<1> USE DEF ModuleCancelled, Polls, PollerOnly, stateVars, subsVars, stopVars, callVars,
            worldVars
<1>1. PollTyped' /\ Sweeping'
  BY GivenUp DEF AtModule
<1> QED
  BY <1>1, TypesFramed, FrameKeeps DEF IInv, Typed

LEMMA PollRecordsKeeps ==
    ASSUME IInv, PollRecords PROVE IInv'
<1> USE DEF PollRecords, Polls, subsVars, stopVars, callVars, worldVars
<1>0. TypeOK /\ Poller \in Actors /\ Quiet(Poller)
  BY TypedParts DEF IInv, Actors
<1>1. /\ Emits(Poller) /\ connection' \in Connections /\ UNCHANGED states
      /\ stale' \in BOOLEAN /\ (stale' \/ UNCHANGED stale)
  <2>1. CASE RecordConnected(Poller)
    BY <1>0, <2>1, RecordConnectedEmits DEF IInv, Typed, StateTyped
  <2>2. CASE RecordDisconnected(Poller)
    BY <1>0, <2>2, RecordDisconnectedEmits
  <2> QED
    BY <2>1, <2>2
<1>2. revision' \in Nat /\ OutboxTyped' /\ Revisions'
  BY <1>0, <1>1, EmitKeeps DEF IInv, OutboxTyped
<1>3. StateTyped'
  BY <1>1, <1>2 DEF IInv, Typed, StateTyped
<1>4. PollTyped' /\ Sweeping'
  <2>1. CASE pollerAt = "failed" /\ ModuleDone(FALSE)
    BY <1>1, <2>1, GivenUp DEF AtModule
  <2>2. CASE pollerAt = "replied" /\ pollerAt' = "update" /\ UNCHANGED <<job, module, timers>>
    <3>1. PollTyped'
      BY <2>2 DEF IInv, Typed, PollTyped
    <3>2. Sweeping'
      BY <1>1, <2>2 DEF IInv, Sweeping, AtModule, InSweep
    <3> QED
      BY <3>1, <3>2
  <2> QED
    BY <2>1, <2>2
<1> QED
  BY <1>1, <1>2, <1>3, <1>4, TypesFramed, FrameKeeps DEF IInv, Typed

(* The poller takes over what it read of a module.                         *)
LEMMA PollUpdatesKeeps ==
    ASSUME IInv, PollUpdates PROVE IInv'
<1> USE DEF PollUpdates, Polls, subsVars, stopVars, callVars, worldVars
<1>0. TypeOK /\ Poller \in Actors /\ module \in Addresses /\ Addresses # {}
  BY TypedParts DEF IInv, Actors, Sweeping, AtModule
<1>1. \A d \in DevicesOf(module) : reading[d] \in Power
  BY DEF IInv, Sweeping
<1>2. /\ Emits(Poller) /\ UNCHANGED <<connection, stale>>
      /\ states' = [d \in Devices |-> IF d \in DevicesOf(module) THEN reading[d]
                                                               ELSE states[d]]
  BY <1>0, <1>1, UpdateEmits
<1>3. revision' \in Nat /\ OutboxTyped' /\ Revisions'
  BY <1>0, <1>2, EmitKeeps DEF IInv, OutboxTyped
<1>4. states' \in [Devices -> DeviceState]
  BY <1>1, <1>2 DEF IInv, Typed, StateTyped, DeviceState
<1>5. StateTyped'
  BY <1>2, <1>3, <1>4 DEF IInv, Typed, StateTyped
<1>6. /\ pollerAt' \in {"select", "sweep"} /\ (pollerAt' = "sweep" => job = "sweep")
      /\ job' \in {job, "sweep"} /\ (pollerAt' = "sweep" => module' = module + 1)
      /\ (pollerAt' = "select" => module' = 1) /\ timers' \subseteq timers \cup {"health"}
      /\ reading' = NoReading /\ UNCHANGED active
  BY DEF ModuleDone
<1>7. PollTyped'
  <2>1. 1 \in 1..(Len(Channels) + 1) /\ module + 1 \in 1..(Len(Channels) + 1)
    BY <1>0, ModulesTyped
  <2>2. NoReading \in [Devices -> DeviceState]
    BY DEF NoReading, DeviceState
  <2> QED
    BY <1>6, <2>1, <2>2 DEF IInv, Typed, PollTyped
<1>8. ASSUME NEW d \in Devices, states[d] # "unknown" PROVE states'[d] # "unknown"
  BY <1>1, <1>2, <1>8 DEF Power
<1>9. FreshStatesKnown'
  BY <1>2, <1>8 DEF IInv, FreshStatesKnown
<1>10. Sweeping'
  <2>1. ASSUME pollerAt' = "sweep", NEW m \in Addresses, m < module', NEW d \in DevicesOf(m)
        PROVE  states'[d] # "unknown"
    <3>1. d \in Devices /\ module' = module + 1 /\ job = "sweep"
      BY <1>6, <2>1, ModulesTyped
    <3>2. CASE m < module
      BY <1>8, <2>1, <3>1, <3>2 DEF IInv, Sweeping, InSweep
    <3>3. CASE m = module
      BY <1>1, <1>2, <2>1, <3>1, <3>3 DEF Power
    <3> QED
      BY <1>0, <2>1, <3>1, <3>2, <3>3, ModulesTyped
  <2>2. pollerAt' = "sweep" => job' = "sweep"
    BY <1>6
  <2> QED
    BY <1>0, <1>6, <2>1, <2>2 DEF Sweeping, AtModule, InSweep
<1> QED
  BY <1>2, <1>3, <1>5, <1>7, <1>9, <1>10, TypesFramed, FrameKeeps DEF IInv, Typed

-----------------------------------------------------------------------------
(* Close, and hands on switches.                                           *)

LEMMA CloseStopsKeeps ==
    ASSUME IInv, CloseStops PROVE IInv'
<1> USE DEF CloseStops, stateVars, subsVars, pollVars, callVars, worldVars
<1>1. StopTyped'
  BY DEF IInv, Typed, StopTyped
<1>2. Stopping'
  BY DEF IInv, Typed, StopTyped, Stopping
<1> QED
  BY <1>1, <1>2, TypesFramed, FrameKeeps DEF IInv, Typed

LEMMA CloseCancelsKeeps ==
    ASSUME IInv, CloseCancels PROVE IInv'
<1> USE DEF CloseCancels, stateVars, subsVars, pollVars, callVars, worldVars
<1>1. StopTyped'
  BY DEF IInv, Typed, StopTyped
<1>2. Stopping'
  BY DEF IInv, Typed, StopTyped, Stopping
<1> QED
  BY <1>1, <1>2, TypesFramed, FrameKeeps DEF IInv, Typed

LEMMA CloseCutsKeeps ==
    ASSUME IInv, CloseCuts PROVE IInv'
<1> USE DEF CloseCuts, stateVars, pollVars, callVars, worldVars
<1>1. StopTyped' /\ SubsTyped'
  BY DEF IInv, Typed, StopTyped, SubsTyped
<1>2. Stopping'
  BY DEF IInv, Typed, StopTyped, Stopping
<1>3. Registration'
  BY DEF IInv, Registration
<1> QED
  BY <1>1, <1>2, <1>3, TypesFramed, FrameKeeps DEF IInv, Typed

LEMMA SwitchByHandKeeps ==
    ASSUME IInv, NEW d \in Devices, SwitchByHand(d) PROVE IInv'
<1> USE DEF SwitchByHand, stateVars, subsVars, stopVars, pollVars, callVars
<1>1. PICK p \in Power : outputs' = [outputs EXCEPT ![d] = p]
  OBVIOUS
<1>2. upsets' \in 0..MaxUpsets
  BY BoundsAssumption DEF IInv, Typed, WorldTyped
<1>3. WorldTyped'
  BY <1>1, <1>2 DEF IInv, Typed, WorldTyped
<1> QED
  BY <1>3, TypesFramed, FrameKeeps DEF IInv, Typed

-----------------------------------------------------------------------------
(* The invariant.                                                          *)

LEMMA InitHolds == Init => IInv
<1> SUFFICES ASSUME Init PROVE IInv
  OBVIOUS
<1> USE DEF Init
<1>0. Len(Channels) \in Nat /\ 1 \in 1..(Len(Channels) + 1)
  BY ModulesTyped
<1>1. StateTyped /\ SubsTyped /\ QueueTyped /\ StopTyped /\ OutboxTyped
  <2>1. StateTyped
    BY DEF StateTyped, Connections, DeviceState
  <2>2. SubsTyped
    BY DEF SubsTyped
  <2>3. QueueTyped
    <3>1. refreshModule \in Seq(Addresses) /\ Len(refreshModule) = 0 /\ 0 <= QueueDepth
      BY BoundsAssumption
    <3>2. pollWake \in BOOLEAN
      OBVIOUS
    <3> QED
      BY <3>1, <3>2 DEF QueueTyped
  <2>4. StopTyped
    BY DEF StopTyped
  <2>5. OutboxTyped
    BY DEF OutboxTyped
  <2> QED
    BY <2>1, <2>2, <2>3, <2>4, <2>5
<1>2. ChannelTyped
  BY BoundsAssumption DEF ChannelTyped
<1>3. PollTyped
  BY <1>0 DEF PollTyped, NoReading, DeviceState
<1>4. CallTyped /\ WorldTyped
  BY BoundsAssumption DEF CallTyped, WorldTyped, Power
<1>5. Registration
  BY DEF Registration, Unserved, Served
<1>6. Stopping
  BY DEF Stopping, Served, Left
<1>7. Sweeping
  BY DEF Sweeping, AtModule, InSweep
<1>8. FreshStatesKnown
  BY DEF FreshStatesKnown
<1>9. Revisions
  BY DEF Revisions, UniqueRevisions
<1> QED
  BY <1>1, <1>2, <1>3, <1>4, <1>5, <1>6, <1>7, <1>8, <1>9 DEF IInv, Typed

LEMMA StepKeeps == IInv /\ [Next]_vars => IInv'
<1> SUFFICES ASSUME IInv, [Next]_vars PROVE IInv'
  OBVIOUS
<1>1. ASSUME NEW s \in Subscribers,
             SubscribeChecks(s) \/ SubscribeStep(s) \/ Cancel(s) \/ Receive(s)
      PROVE  IInv'
  BY <1>1, SubscribeChecksKeeps, RegisterKeeps, MarkStaleKeeps, TakeSnapshotKeeps,
     DeliverSnapshotKeeps, WakePollerKeeps, CancelKeeps, ReceiveKeeps DEF SubscribeStep
<1>2. ASSUME NEW x \in Executes, ExecuteChecks(x) \/ ExecuteStep(x) PROVE IInv'
  BY <1>2, ExecuteChecksKeeps, CommandReturnsKeeps, ExecuteRecordsKeeps, RequestRefreshKeeps
     DEF ExecuteStep
<1>3. CASE PollStep
  BY <1>3, HandleWakeKeeps, SweepNextKeeps, ModuleAnswersKeeps, ModuleFailsKeeps,
     ModuleCancelledKeeps, PollRecordsKeeps, PollUpdatesKeeps DEF PollStep
<1>4. CASE PollBranch
  BY <1>4, PollerExitsKeeps, TakeWakeKeeps, PollTimerKeeps, GraceTimerKeeps,
     HealthTimerKeeps, TakeRefreshKeeps DEF PollBranch
<1>5. CASE CloseStops \/ CloseStep
  BY <1>5, CloseStopsKeeps, CloseCancelsKeeps, CloseCutsKeeps DEF CloseStep
<1>6. CASE UNCHANGED vars
  BY <1>6, TypesFramed, FrameKeeps DEF vars, stateVars, subsVars, stopVars, pollVars,
     callVars, worldVars, IInv, Typed
<1> QED
  BY <1>1, <1>2, <1>3, <1>4, <1>5, <1>6, PublishKeeps, SwitchByHandKeeps
     DEF Next, NextButReceive

LEMMA Invariance == Spec => []IInv
  BY InitHolds, StepKeeps, PTL DEF Spec

-----------------------------------------------------------------------------
(* The theorems.                                                           *)

(* Every variable keeps its type: no buffer overflows its capacity.        *)
THEOREM TypeCorrect == Spec => []TypeOK
<1>1. IInv => TypeOK
  BY TypedParts DEF IInv
<1> QED
  BY <1>1, Invariance, PTL

(* The snapshot that Subscribe sends while it holds subsMu always finds    *)
(* room in the subscriber's buffer.                                        *)
THEOREM SnapshotsFindRoom == Spec => []SubscribeNeverBlocks
<1>1. IInv => SubscribeNeverBlocks
  BY DEF IInv, Typed, SubsTyped, Registration, Unserved, Served, SubscribeNeverBlocks
<1> QED
  BY <1>1, Invariance, PTL

(* After Close nobody is subscribed and no stream is left open.            *)
THEOREM CloseLeavesNobody == Spec => []NothingLeftAfterClose
<1>1. IInv => NothingLeftAfterClose
  <2> SUFFICES ASSUME IInv, closerAt = "closed" 
               PROVE  /\ subscribers = {}
                      /\ \A s \in Subscribers :
                           subAt[s] \notin {"idle", "checked", "refused"} => s \in chanClosed
    BY DEF NothingLeftAfterClose
  <2>1. subscribers = {}
    BY DEF IInv, Stopping
  <2>2. ASSUME NEW s \in Subscribers, subAt[s] \notin {"idle", "checked", "refused"}
        PROVE  s \in chanClosed
    <3>1. subAt[s] \in {"registered", "snapshot", "deliver"} \cup Served \cup Left
      BY <2>2 DEF IInv, Typed, CallTyped, Served, Left
    <3> QED
      BY <2>1, <3>1 DEF IInv, Stopping
  <2> QED
    BY <2>1, <2>2
<1> QED
  BY <1>1, Invariance, PTL

(* A state that is not marked stale has been read from every module.       *)
THEOREM FreshMeansRead == Spec => []FreshStatesKnown
<1>1. IInv => FreshStatesKnown
  BY DEF IInv
<1> QED
  BY <1>1, Invariance, PTL

(* No two deltas on their way to a browser carry the same revision.        *)
THEOREM RevisionsDiffer == Spec => []UniqueRevisions
<1>1. IInv => UniqueRevisions
  BY DEF IInv, Revisions
<1> QED
  BY <1>1, Invariance, PTL

-----------------------------------------------------------------------------
(* The revision counts the changes: the body of RevisionCountsChanges, and *)
(* the steps that change the state.                                        *)
Counted ==
    /\ revision' >= revision
    /\ <<connection, stale, states>>' # <<connection, stale, states>> => revision' > revision

LEMMA FrameCounts == ASSUME Typed, UNCHANGED stateVars PROVE Counted
  BY DEF Counted, stateVars, Typed, StateTyped

LEMMA SectionCounts ==
    ASSUME Typed, NEW a,
           \/ \E value \in BOOLEAN : SetStale(a, value)
           \/ RecordConnected(a) \/ RecordDisconnected(a)
    PROVE  Counted
<1>1. CASE UNCHANGED stateVars
  BY <1>1, FrameCounts
<1>2. CASE revision' = revision + 1
  BY <1>2 DEF Counted, Typed, StateTyped
<1> QED
  BY <1>1, <1>2 DEF SetStale, RecordConnected, RecordDisconnected, stateVars

LEMMA UpdateCounts ==
    ASSUME Typed, NEW a, NEW m \in Addresses, UpdateModuleState(a, m)
    PROVE  Counted
<1>0. PICK n \in 0..Len(Channels[m]) : \E changed \in [1..n -> DevicesOf(m)] :
         Changed(m, changed) /\ revision' = revision + n
  BY DEF UpdateModuleState
<1>1. PICK changed \in [1..n -> DevicesOf(m)] : Changed(m, changed) /\ revision' = revision + n
  BY <1>0
<1>2. n \in Nat /\ revision \in Nat
  BY <1>0, ChannelsAssumption DEF Addresses, Typed, StateTyped
<1>3. CASE n = 0
  <2>1. \A k \in DOMAIN Channels[m] : states[Channels[m][k]] = reading[Channels[m][k]]
    BY <1>1, <1>3 DEF Changed
  <2>2. \A d \in DevicesOf(m) : states[d] = reading[d]
    BY <2>1 DEF DevicesOf
  <2>3. states' = states
    BY <2>2 DEF UpdateModuleState, Typed, StateTyped
  <2> QED
    BY <1>1, <1>2, <1>3, <2>3 DEF UpdateModuleState, Counted
<1>4. CASE n # 0
  BY <1>1, <1>2, <1>4 DEF Counted
<1> QED
  BY <1>3, <1>4

LEMMA StepCounts == IInv /\ [Next]_vars => Counted
<1> SUFFICES ASSUME IInv, [Next]_vars PROVE Counted
  OBVIOUS
<1>0. Typed
  BY DEF IInv
<1>1. ASSUME NEW s \in Subscribers,
             SubscribeChecks(s) \/ SubscribeStep(s) \/ Cancel(s) \/ Receive(s)
      PROVE  Counted
  <2>1. CASE MarkStale(s)
    <3>1. CASE SetStale(s, TRUE)
      <4>1. \E value \in BOOLEAN : SetStale(s, value)
        BY <3>1, Zenon
      <4> QED
        BY <1>0, <4>1, SectionCounts
    <3>2. CASE UNCHANGED stateVars
      BY <1>0, <3>2, FrameCounts
    <3> QED
      BY <2>1, <3>1, <3>2 DEF MarkStale
  <2>2. CASE ~MarkStale(s)
    <3>1. UNCHANGED stateVars
      BY <1>1, <2>2 DEF SubscribeStep, SubscribeChecks, Register, TakeSnapshot,
         DeliverSnapshot, WakePoller, Cancel, Receive
    <3> QED
      BY <1>0, <3>1, FrameCounts
  <2> QED
    BY <2>1, <2>2
<1>2. ASSUME NEW x \in Executes, ExecuteChecks(x) \/ ExecuteStep(x) PROVE Counted
  <2>1. CASE ExecuteRecords(x)
    BY <1>0, <2>1, SectionCounts DEF ExecuteRecords
  <2>2. CASE ~ExecuteRecords(x)
    <3>1. UNCHANGED stateVars
      BY <1>2, <2>2 DEF ExecuteStep, ExecuteChecks, CommandReturns, RequestRefresh
    <3> QED
      BY <1>0, <3>1, FrameCounts
  <2> QED
    BY <2>1, <2>2
<1>3. CASE SweepNext
  <2>1. CASE SetStale(Poller, FALSE)
    <3>1. \E value \in BOOLEAN : SetStale(Poller, value)
      BY <2>1, Zenon
    <3> QED
      BY <1>0, <3>1, SectionCounts
  <2>2. CASE UNCHANGED stateVars
    BY <1>0, <2>2, FrameCounts
  <2> QED
    BY <1>3, <2>1, <2>2 DEF SweepNext
<1>4. CASE PollRecords
  BY <1>0, <1>4, SectionCounts DEF PollRecords
<1>5. CASE PollUpdates
  <2>1. module \in Addresses
    BY <1>5 DEF PollUpdates, Polls, IInv, Sweeping, AtModule
  <2> QED
    BY <1>0, <1>5, <2>1, UpdateCounts DEF PollUpdates
<1>6. CASE HandleWake \/ ModuleAnswers \/ ModuleFails \/ ModuleCancelled \/ PollBranch
  <2>1. UNCHANGED stateVars
    BY <1>6 DEF HandleWake, ModuleAnswers, ModuleFails, ModuleCancelled, PollBranch,
       PollerExits, TakeWake, PollTimer, GraceTimer, HealthTimer, TakeRefresh, PollerOnly
  <2> QED
    BY <1>0, <2>1, FrameCounts
<1>7. CASE \/ \E a \in Actors : Publish(a)
           \/ CloseStops \/ CloseStep
           \/ \E d \in Devices : SwitchByHand(d)
           \/ UNCHANGED vars
  <2>1. UNCHANGED stateVars
    BY <1>7 DEF Publish, CloseStops, CloseStep, CloseCancels, CloseCuts, SwitchByHand, vars
  <2> QED
    BY <1>0, <2>1, FrameCounts
<1> QED
  BY <1>1, <1>2, <1>3, <1>4, <1>5, <1>6, <1>7 DEF Next, NextButReceive, PollStep

(* What a watcher sees never changes under an unchanged revision, and the  *)
(* revision never goes back.                                               *)
THEOREM RevisionsCount == Spec => RevisionCountsChanges
<1>1. IInv /\ [Next]_vars =>
        [/\ revision' >= revision
         /\ <<connection, stale, states>>' # <<connection, stale, states>>
              => revision' > revision]_vars
  BY StepCounts DEF Counted
<1> QED
  BY <1>1, Invariance, PTL DEF Spec, RevisionCountsChanges

=============================================================================
