--------------------------- MODULE HomeStoreProofs ---------------------------
(***************************************************************************)
(* Proofs about HomeStore for any number of stores, loads, touches, faults *)
(* and events.  A store that was never opened has registered nothing; a    *)
(* calm light has at most one command on its way, and that one says what   *)
(* is wanted.                                                              *)
(***************************************************************************)
EXTENDS HomeStore, TLAPS

Shapes == [id : Nat, isOn : BOOLEAN, moving : BOOLEAN]
Polls == [at : {"idle", "asked", "answered"}, id : Nat, isOn : BOOLEAN]

WorldTyped ==
    /\ power \in BOOLEAN /\ commands \subseteq [n : Nat, on : BOOLEAN]
    /\ cache \in Shapes
ViewTyped ==
    /\ phase \in [Stores -> {"connecting", "ready", "failed"}]
    /\ project \in [Stores -> Shapes]
    /\ loader \in [Stores -> {"connecting", "loading", "done"}]
    /\ reloading \in [Stores -> Nat] /\ gestures \in [Stores -> Nat]
PollTyped ==
    /\ registered \in [Stores -> Nat] /\ polling \in [Stores -> BOOLEAN]
    /\ poll \in [Stores -> Polls] /\ events \in [Stores -> Seq(Polls)]
TimersTyped ==
    /\ saveDue \in [Stores -> BOOLEAN] /\ clearDue \in [Stores -> SUBSET Nat]
AppTyped ==
    /\ opened \in 0..MaxStores /\ current \in 0..opened
    /\ loads \in Nat /\ touches \in Nat /\ faults \in Nat
    /\ wanted \in BOOLEAN /\ calm \in BOOLEAN /\ lastLoaded \in Nat
    /\ restored \subseteq Stores
Typed == WorldTyped /\ ViewTyped /\ PollTyped /\ TimersTyped /\ AppTyped

(* Only stores that were opened run, and only they poll anything.          *)
OpenedRun ==
    /\ live \subseteq 1..opened
    /\ \A s \in Stores : s > opened => registered[s] = 0

(* The one command of a calm light.                                        *)
OneCommand ==
    calm => \/ commands = {} /\ power = wanted
            \/ \E c \in commands : commands = {c} /\ c.on = wanted

IInv == Typed /\ OpenedRun /\ RegisteredIsShown /\ OneCommand

-----------------------------------------------------------------------------
LEMMA InitHolds == Init => IInv
  <1> SUFFICES ASSUME Init PROVE IInv
    OBVIOUS
  <1>0. None \in Shapes /\ Resting \in Polls
    BY DEF None, Shapes, Resting, Polls
  <1>1. cache \in Shapes /\ cache.id \in Nat
    BY <1>0 DEF Init, Shapes
  <1>2. WorldTyped /\ ViewTyped /\ PollTyped /\ TimersTyped
    BY <1>0, <1>1 DEF Init, WorldTyped, ViewTyped, PollTyped, TimersTyped
  <1>3. AppTyped
    BY <1>1, StoresAssumption DEF Init, AppTyped
  <1> QED
    BY <1>2, <1>3 DEF Init, IInv, Typed, OpenedRun, RegisteredIsShown, OneCommand

(* The app opens, closes and ends stores.                                  *)
LEMMA OpenKeeps == IInv /\ Open => IInv'
  <1> SUFFICES ASSUME IInv, Open PROVE IInv'
    OBVIOUS
  <1>1. opened' = opened + 1 /\ opened' \in Stores /\ opened \in 0..MaxStores
    BY StoresAssumption DEF Open, IInv, Typed, AppTyped, Stores
  <1>2. Typed'
    BY <1>1, StoresAssumption
       DEF Open, IInv, Typed, WorldTyped, ViewTyped, PollTyped, TimersTyped,
           AppTyped, world
  <1>3. /\ live' = live \cup {opened'} /\ registered' = registered
        /\ project' = [project EXCEPT ![opened'] = cache]
        /\ UNCHANGED <<power, commands, calm, wanted>>
    BY <1>1 DEF Open, world
  <1>4. OpenedRun'
    BY <1>1, <1>3, StoresAssumption DEF IInv, OpenedRun, Stores
  <1>5. RegisteredIsShown'
    <2> SUFFICES ASSUME NEW s \in live', registered'[s] # 0
                 PROVE  registered'[s] = project'[s].id
      BY DEF RegisteredIsShown
    <2>1. s # opened'
      BY <1>1, <1>3, StoresAssumption DEF IInv, OpenedRun, Stores
    <2>2. s \in live /\ s \in Stores
      BY <1>1, <1>3, <2>1, StoresAssumption DEF IInv, OpenedRun, Stores
    <2> QED
      BY <1>3, <2>1, <2>2
         DEF IInv, RegisteredIsShown, Typed, ViewTyped
  <1>6. OneCommand'
    BY <1>3 DEF IInv, OneCommand
  <1> QED
    BY <1>2, <1>4, <1>5, <1>6 DEF IInv

LEMMA CloseKeeps == IInv /\ (Disconnect \/ Kill) => IInv'
  <1> SUFFICES ASSUME IInv, Disconnect \/ Kill PROVE IInv'
    OBVIOUS
  <1>1. /\ current' = 0 /\ live' \subseteq live
        /\ UNCHANGED <<world, cache, stores, bounds, history>>
    BY DEF Disconnect, Kill
  <1> QED
    BY <1>1 DEF IInv, Typed, WorldTyped, ViewTyped, PollTyped, TimersTyped,
                AppTyped, OpenedRun, RegisteredIsShown, OneCommand, world,
                stores, bounds, history

-----------------------------------------------------------------------------
(* What a step leaves alone.                                               *)

(* A step that neither opens nor ends a store, registers nothing and gives *)
(* no device a new id.                                                     *)
SameDevices ==
    /\ UNCHANGED <<live, opened, registered>>
    /\ \A s \in Stores : project'[s].id = project[s].id

LEMMA SameDevicesKeep ==
  ASSUME IInv, SameDevices
  PROVE  OpenedRun' /\ RegisteredIsShown'
  <1>1. 1..opened \subseteq Stores
    BY StoresAssumption DEF IInv, Typed, AppTyped, Stores
  <1> QED
    BY <1>1 DEF IInv, OpenedRun, RegisteredIsShown, SameDevices

(* A change of what is shown of a device.                                  *)
LEMMA IsOnChanged ==
  ASSUME NEW s \in Stores, NEW on \in BOOLEAN, project \in [Stores -> Shapes],
         project' = [project EXCEPT ![s].isOn = on]
  PROVE  /\ project' \in [Stores -> Shapes]
         /\ \A t \in Stores : project'[t].id = project[t].id
  BY DEF Shapes

LEMMA MovingChanged ==
  ASSUME NEW s \in Stores, NEW on \in BOOLEAN, project \in [Stores -> Shapes],
         project' = [project EXCEPT ![s].moving = on]
  PROVE  /\ project' \in [Stores -> Shapes]
         /\ \A t \in Stores : project'[t].id = project[t].id
  BY DEF Shapes

(* A step that has nothing to do with the light.                           *)
SameLight == UNCHANGED <<world, wanted, calm>>

LEMMA SameLightKeeps == IInv /\ SameLight => OneCommand'
  BY DEF IInv, OneCommand, SameLight, world

LEMMA ConnectSucceedsKeeps == ASSUME IInv, NEW s \in Stores, ConnectSucceeds(s) PROVE IInv'
  <1> USE DEF ConnectSucceeds, Follow, IInv, Typed, world, bounds, history
  <1>0. /\ s \in 1..opened /\ project[s].id \in Nat
        /\ UNCHANGED <<live, opened, project, poll, events>>
        /\ \/ UNCHANGED <<registered, polling>>
           \/ /\ registered' = [registered EXCEPT ![s] = project[s].id]
              /\ polling' = [polling EXCEPT ![s] = TRUE]
    BY DEF OpenedRun, ViewTyped, Shapes
  <1>1. WorldTyped'
    BY DEF WorldTyped, ViewTyped, AppTyped, Shapes
  <1>2. ViewTyped'
    BY DEF WorldTyped, ViewTyped, AppTyped, PollTyped, Shapes, Polls
  <1>3. PollTyped'
    BY ONLY <1>0, IInv DEF IInv, Typed, PollTyped
  <1>4. TimersTyped'
    BY DEF TimersTyped, ViewTyped, Shapes
  <1>5. AppTyped'
    BY DEF AppTyped, ViewTyped, Shapes
  <1>6. OpenedRun' /\ RegisteredIsShown'
    <2>1. /\ live \subseteq Stores /\ live \subseteq 1..opened
          /\ \A t \in Stores : t > opened => t # s
      BY ONLY <1>0, IInv, StoresAssumption DEF IInv, Typed, OpenedRun, AppTyped, Stores
    <2>2. \A t \in Stores : registered'[t] \in {registered[t], IF t = s THEN project[s].id ELSE registered[t]}
      BY ONLY <1>0, IInv DEF IInv, Typed, PollTyped
    <2> QED
      BY ONLY <1>0, <2>1, <2>2, IInv DEF IInv, OpenedRun, RegisteredIsShown
  <1>7. SameLight
    BY DEF SameLight
  <1> QED
    BY ONLY IInv, <1>1, <1>2, <1>3, <1>4, <1>5, <1>6, <1>7, SameLightKeeps
       DEF IInv, Typed

LEMMA LoadSucceedsKeeps == ASSUME IInv, NEW s \in Stores, LoadSucceeds(s) PROVE IInv'
  <1> USE DEF LoadSucceeds, Replace, Follow, Fresh, IInv, Typed, world, bounds, history
  <1>1. WorldTyped'
    BY DEF WorldTyped, ViewTyped, AppTyped, Shapes
  <1>2. ViewTyped'
    BY DEF WorldTyped, ViewTyped, AppTyped, PollTyped, Shapes, Polls
  <1>3. PollTyped'
    BY DEF ViewTyped, PollTyped, WorldTyped, AppTyped, Shapes, Polls
  <1>4. TimersTyped'
    BY DEF TimersTyped, ViewTyped, Shapes
  <1>5. AppTyped'
    BY DEF AppTyped, ViewTyped, Shapes
  <1>6. OpenedRun' /\ RegisteredIsShown'
    BY DEF OpenedRun, RegisteredIsShown, ViewTyped, PollTyped, Stores, AppTyped
  <1>7. SameLight
    BY DEF SameLight
  <1> QED
    BY ONLY IInv, <1>1, <1>2, <1>3, <1>4, <1>5, <1>6, <1>7, SameLightKeeps
       DEF IInv, Typed

LEMMA LoadFailsKeeps == ASSUME IInv, NEW s \in Stores, LoadFails(s) PROVE IInv'
  <1> USE DEF LoadFails, Fails, Fault, IInv, Typed, world, bounds, history
  <1>1. WorldTyped'
    BY DEF WorldTyped, ViewTyped, AppTyped, Shapes
  <1>2. ViewTyped'
    BY DEF WorldTyped, ViewTyped, AppTyped, PollTyped, Shapes, Polls
  <1>3. PollTyped'
    BY DEF ViewTyped, PollTyped, WorldTyped, AppTyped, Shapes, Polls
  <1>4. TimersTyped'
    BY DEF TimersTyped, ViewTyped, Shapes
  <1>5. AppTyped'
    BY DEF AppTyped, ViewTyped, Shapes
  <1>6. SameDevices
    BY DEF SameDevices, ViewTyped, Shapes
  <1>7. SameLight
    BY DEF SameLight
  <1> QED
    BY ONLY IInv, <1>1, <1>2, <1>3, <1>4, <1>5, <1>6, <1>7, SameDevicesKeep, SameLightKeeps
       DEF IInv, Typed

LEMMA ReloadTappedKeeps == ASSUME IInv, NEW s \in Stores, ReloadTapped(s) PROVE IInv'
  <1> USE DEF ReloadTapped, IInv, Typed, world, bounds, history
  <1>1. WorldTyped'
    BY DEF WorldTyped, ViewTyped, AppTyped, Shapes
  <1>2. ViewTyped'
    BY DEF WorldTyped, ViewTyped, AppTyped, PollTyped, Shapes, Polls
  <1>3. PollTyped'
    BY DEF ViewTyped, PollTyped, WorldTyped, AppTyped, Shapes, Polls
  <1>4. TimersTyped'
    BY DEF TimersTyped, ViewTyped, Shapes
  <1>5. AppTyped'
    BY DEF AppTyped, ViewTyped, Shapes
  <1>6. SameDevices
    BY DEF SameDevices, ViewTyped, Shapes
  <1>7. SameLight
    BY DEF SameLight
  <1> QED
    BY ONLY IInv, <1>1, <1>2, <1>3, <1>4, <1>5, <1>6, <1>7, SameDevicesKeep, SameLightKeeps
       DEF IInv, Typed

LEMMA ReloadSucceedsKeeps == ASSUME IInv, NEW s \in Stores, ReloadSucceeds(s) PROVE IInv'
  <1> USE DEF ReloadSucceeds, Replace, Fresh, IInv, Typed, world, bounds, history
  <1>1. WorldTyped'
    BY DEF WorldTyped, ViewTyped, AppTyped, Shapes
  <1>2. ViewTyped'
    BY DEF WorldTyped, ViewTyped, AppTyped, PollTyped, Shapes, Polls
  <1>3. PollTyped'
    BY DEF ViewTyped, PollTyped, WorldTyped, AppTyped, Shapes, Polls
  <1>4. TimersTyped'
    BY DEF TimersTyped, ViewTyped, Shapes
  <1>5. AppTyped'
    BY DEF AppTyped, ViewTyped, Shapes
  <1>6. OpenedRun' /\ RegisteredIsShown'
    BY DEF OpenedRun, RegisteredIsShown, ViewTyped, PollTyped, Stores, AppTyped
  <1>7. SameLight
    BY DEF SameLight
  <1> QED
    BY ONLY IInv, <1>1, <1>2, <1>3, <1>4, <1>5, <1>6, <1>7, SameLightKeeps
       DEF IInv, Typed

LEMMA ReloadFailsKeeps == ASSUME IInv, NEW s \in Stores, ReloadFails(s) PROVE IInv'
  <1> USE DEF ReloadFails, Fails, Fault, IInv, Typed, world, bounds, history
  <1>1. WorldTyped'
    BY DEF WorldTyped, ViewTyped, AppTyped, Shapes
  <1>2. ViewTyped'
    BY DEF WorldTyped, ViewTyped, AppTyped, PollTyped, Shapes, Polls
  <1>3. PollTyped'
    BY DEF ViewTyped, PollTyped, WorldTyped, AppTyped, Shapes, Polls
  <1>4. TimersTyped'
    BY DEF TimersTyped, ViewTyped, Shapes
  <1>5. AppTyped'
    BY DEF AppTyped, ViewTyped, Shapes
  <1>6. SameDevices
    BY DEF SameDevices, ViewTyped, Shapes
  <1>7. SameLight
    BY DEF SameLight
  <1> QED
    BY ONLY IInv, <1>1, <1>2, <1>3, <1>4, <1>5, <1>6, <1>7, SameDevicesKeep, SameLightKeeps
       DEF IInv, Typed

LEMMA PollBeginsKeeps == ASSUME IInv, NEW s \in Stores, PollBegins(s) PROVE IInv'
  <1> USE DEF PollBegins, IInv, Typed, world, bounds, history
  <1>1. WorldTyped'
    BY DEF WorldTyped, ViewTyped, AppTyped, Shapes
  <1>2. ViewTyped'
    BY DEF WorldTyped, ViewTyped, AppTyped, PollTyped, Shapes, Polls
  <1>3. PollTyped'
    BY DEF ViewTyped, PollTyped, WorldTyped, AppTyped, Shapes, Polls
  <1>4. TimersTyped'
    BY DEF TimersTyped, ViewTyped, Shapes
  <1>5. AppTyped'
    BY DEF AppTyped, ViewTyped, Shapes
  <1>6. SameDevices
    BY DEF SameDevices, ViewTyped, Shapes
  <1>7. SameLight
    BY DEF SameLight
  <1> QED
    BY ONLY IInv, <1>1, <1>2, <1>3, <1>4, <1>5, <1>6, <1>7, SameDevicesKeep, SameLightKeeps
       DEF IInv, Typed

LEMMA PollAnsweredKeeps == ASSUME IInv, NEW s \in Stores, PollAnswered(s) PROVE IInv'
  <1> USE DEF PollAnswered, Fault, IInv, Typed, world, bounds, history
  <1>1. WorldTyped'
    BY DEF WorldTyped, ViewTyped, AppTyped, Shapes
  <1>2. ViewTyped'
    BY DEF WorldTyped, ViewTyped, AppTyped, PollTyped, Shapes, Polls
  <1>3. PollTyped'
    <2>1. /\ UNCHANGED <<registered, polling, events>> /\ power \in BOOLEAN
          /\ \/ poll' = [poll EXCEPT ![s].at = "answered", ![s].isOn = power]
             \/ poll' = [poll EXCEPT ![s].at = "answered"]
      BY DEF WorldTyped
    <2>2. poll \in [Stores -> Polls] /\ power \in BOOLEAN
      BY DEF PollTyped, WorldTyped
    <2>3. poll' \in [Stores -> Polls]
      BY ONLY <2>1, <2>2, s \in Stores DEF Polls
    <2> QED
      BY <2>1, <2>3 DEF PollTyped
  <1>4. TimersTyped'
    BY DEF TimersTyped, ViewTyped, Shapes
  <1>5. AppTyped'
    BY DEF AppTyped, ViewTyped, Shapes
  <1>6. SameDevices
    BY DEF SameDevices, ViewTyped, Shapes
  <1>7. SameLight
    BY DEF SameLight
  <1> QED
    BY ONLY IInv, <1>1, <1>2, <1>3, <1>4, <1>5, <1>6, <1>7, SameDevicesKeep, SameLightKeeps
       DEF IInv, Typed

LEMMA PollFailsKeeps == ASSUME IInv, NEW s \in Stores, PollFails(s) PROVE IInv'
  <1> USE DEF PollFails, Fault, Resting, IInv, Typed, world, bounds, history
  <1>1. WorldTyped'
    BY DEF WorldTyped, ViewTyped, AppTyped, Shapes
  <1>2. ViewTyped'
    BY DEF WorldTyped, ViewTyped, AppTyped, PollTyped, Shapes, Polls
  <1>3. PollTyped'
    BY DEF ViewTyped, PollTyped, WorldTyped, AppTyped, Shapes, Polls
  <1>4. TimersTyped'
    BY DEF TimersTyped, ViewTyped, Shapes
  <1>5. AppTyped'
    BY DEF AppTyped, ViewTyped, Shapes
  <1>6. SameDevices
    BY DEF SameDevices, ViewTyped, Shapes
  <1>7. SameLight
    BY DEF SameLight
  <1> QED
    BY ONLY IInv, <1>1, <1>2, <1>3, <1>4, <1>5, <1>6, <1>7, SameDevicesKeep, SameLightKeeps
       DEF IInv, Typed

LEMMA PollYieldsKeeps == ASSUME IInv, NEW s \in Stores, PollYields(s) PROVE IInv'
  <1> USE DEF PollYields, Resting, IInv, Typed, world, bounds, history
  <1>1. WorldTyped'
    BY DEF WorldTyped, ViewTyped, AppTyped, Shapes
  <1>2. ViewTyped'
    BY DEF WorldTyped, ViewTyped, AppTyped, PollTyped, Shapes, Polls
  <1>3. PollTyped'
    BY DEF ViewTyped, PollTyped, WorldTyped, AppTyped, Shapes, Polls
  <1>4. TimersTyped'
    BY DEF TimersTyped, ViewTyped, Shapes
  <1>5. AppTyped'
    BY DEF AppTyped, ViewTyped, Shapes
  <1>6. SameDevices
    BY DEF SameDevices, ViewTyped, Shapes
  <1>7. SameLight
    BY DEF SameLight
  <1> QED
    BY ONLY IInv, <1>1, <1>2, <1>3, <1>4, <1>5, <1>6, <1>7, SameDevicesKeep, SameLightKeeps
       DEF IInv, Typed

LEMMA ApplyKeeps == ASSUME IInv, NEW s \in Stores, Apply(s) PROVE IInv'
  <1> USE DEF Apply, IInv, Typed, world, bounds, history
  <1>0. /\ Tail(events[s]) \in Seq(Polls)
        /\ Head(events[s]).isOn \in BOOLEAN
    <2>1. events[s] \in Seq(Polls) /\ events[s] # <<>>
      BY DEF PollTyped
    <2>2. Head(events[s]) \in Polls
      BY ONLY <2>1
    <2> QED
      BY ONLY <2>1, <2>2 DEF Polls
  <1>1. WorldTyped'
    BY DEF WorldTyped, ViewTyped, AppTyped, Shapes
  <1>2. ViewTyped' /\ SameDevices
    <2>1. \/ project' = project
          \/ project' = [project EXCEPT ![s].isOn = Head(events[s]).isOn]
      OBVIOUS
    <2>2. project \in [Stores -> Shapes]
      BY DEF ViewTyped
    <2>3. /\ project' \in [Stores -> Shapes]
          /\ \A t \in Stores : project'[t].id = project[t].id
      BY ONLY <1>0, <2>1, <2>2, s \in Stores, IsOnChanged
    <2> QED
      BY <2>3 DEF ViewTyped, SameDevices
  <1>3. PollTyped'
    BY DEF ViewTyped, PollTyped, WorldTyped, AppTyped, Shapes, Polls
  <1>4. TimersTyped'
    BY DEF TimersTyped, ViewTyped, Shapes
  <1>5. AppTyped'
    BY DEF AppTyped, ViewTyped, Shapes
  <1>7. SameLight
    BY DEF SameLight
  <1> QED
    BY ONLY IInv, <1>1, <1>2, <1>3, <1>4, <1>5, <1>7, SameDevicesKeep, SameLightKeeps
       DEF IInv, Typed

LEMMA SaveKeeps == ASSUME IInv, NEW s \in Stores, Save(s) PROVE IInv'
  <1> USE DEF Save, IInv, Typed, world, bounds, history
  <1>1. WorldTyped'
    BY DEF WorldTyped, ViewTyped, AppTyped, Shapes
  <1>2. ViewTyped'
    BY DEF WorldTyped, ViewTyped, AppTyped, PollTyped, Shapes, Polls
  <1>3. PollTyped'
    BY DEF ViewTyped, PollTyped, WorldTyped, AppTyped, Shapes, Polls
  <1>4. TimersTyped'
    BY DEF TimersTyped, ViewTyped, Shapes
  <1>5. AppTyped'
    BY DEF AppTyped, ViewTyped, Shapes
  <1>6. SameDevices
    BY DEF SameDevices, ViewTyped, Shapes
  <1>7. SameLight
    BY DEF SameLight
  <1> QED
    BY ONLY IInv, <1>1, <1>2, <1>3, <1>4, <1>5, <1>6, <1>7, SameDevicesKeep, SameLightKeeps
       DEF IInv, Typed

LEMMA TogglePowerKeeps == ASSUME IInv, NEW s \in Stores, TogglePower(s) PROVE IInv'
  <1> USE DEF TogglePower, Touch, IInv, Typed, world, bounds, history
  <1>0. /\ touches' \in Nat /\ (~project[s].isOn) \in BOOLEAN
        /\ commands' = commands \cup {[n |-> touches', on |-> ~project[s].isOn]}
        /\ wanted' = ~project[s].isOn /\ calm' = (calm /\ commands = {})
    BY DEF AppTyped
  <1>1. WorldTyped'
    <2>1. [n |-> touches', on |-> ~project[s].isOn] \in [n : Nat, on : BOOLEAN]
      BY ONLY <1>0
    <2> QED
      BY <1>0, <2>1 DEF WorldTyped
  <1>2. ViewTyped'
    BY DEF WorldTyped, ViewTyped, AppTyped, PollTyped, Shapes, Polls
  <1>3. PollTyped'
    BY DEF ViewTyped, PollTyped, WorldTyped, AppTyped, Shapes, Polls
  <1>4. TimersTyped'
    BY DEF TimersTyped, ViewTyped, Shapes
  <1>5. AppTyped'
    BY <1>0 DEF AppTyped
  <1>6. SameDevices
    BY DEF SameDevices, ViewTyped, Shapes
  <1>7. OneCommand'
    <2>1. CASE calm /\ commands = {}
      <3> DEFINE c == [n |-> touches', on |-> ~project[s].isOn]
      <3>1. commands' = {c} /\ c.on = wanted'
        BY ONLY <1>0, <2>1
      <3> QED
        BY ONLY <3>1 DEF OneCommand
    <2>2. CASE ~(calm /\ commands = {})
      BY ONLY <1>0, <2>2 DEF OneCommand
    <2> QED
      BY ONLY <2>1, <2>2
  <1> QED
    BY ONLY IInv, <1>1, <1>2, <1>3, <1>4, <1>5, <1>6, <1>7, SameDevicesKeep
       DEF IInv, Typed

LEMMA MoveShutterKeeps == ASSUME IInv, NEW s \in Stores, MoveShutter(s) PROVE IInv'
  <1> USE DEF MoveShutter, Touch, IInv, Typed, world, bounds, history
  <1>1. WorldTyped'
    BY DEF WorldTyped, ViewTyped, AppTyped, Shapes
  <1>2. ViewTyped'
    <2>1. PICK stop \in BOOLEAN : project' = [project EXCEPT ![s].moving = ~stop]
      OBVIOUS
    <2>2. (~stop) \in BOOLEAN /\ project \in [Stores -> Shapes]
      BY DEF ViewTyped
    <2>3. project' \in [Stores -> Shapes]
      BY ONLY <2>1, <2>2, s \in Stores, MovingChanged
    <2> QED
      BY <2>3 DEF ViewTyped
  <1>3. PollTyped'
    BY DEF ViewTyped, PollTyped, WorldTyped, AppTyped, Shapes, Polls
  <1>4. TimersTyped'
    BY DEF TimersTyped, ViewTyped, Shapes
  <1>5. AppTyped'
    BY DEF AppTyped, ViewTyped, Shapes
  <1>6. SameDevices
    BY DEF SameDevices, ViewTyped, Shapes
  <1>7. SameLight
    BY DEF SameLight
  <1> QED
    BY ONLY IInv, <1>1, <1>2, <1>3, <1>4, <1>5, <1>6, <1>7, SameDevicesKeep, SameLightKeeps
       DEF IInv, Typed

LEMMA PressInputKeeps == ASSUME IInv, NEW s \in Stores, PressInput(s) PROVE IInv'
  <1> USE DEF PressInput, Touch, IInv, Typed, world, bounds, history
  <1>1. WorldTyped'
    BY DEF WorldTyped, ViewTyped, AppTyped, Shapes
  <1>2. ViewTyped'
    BY DEF WorldTyped, ViewTyped, AppTyped, PollTyped, Shapes, Polls
  <1>3. PollTyped'
    BY DEF ViewTyped, PollTyped, WorldTyped, AppTyped, Shapes, Polls
  <1>4. TimersTyped'
    BY DEF TimersTyped, ViewTyped, Shapes
  <1>5. AppTyped'
    BY DEF AppTyped, ViewTyped, Shapes
  <1>6. SameDevices
    BY DEF SameDevices, ViewTyped, Shapes
  <1>7. SameLight
    BY DEF SameLight
  <1> QED
    BY ONLY IInv, <1>1, <1>2, <1>3, <1>4, <1>5, <1>6, <1>7, SameDevicesKeep, SameLightKeeps
       DEF IInv, Typed

LEMMA GestureDoneKeeps == ASSUME IInv, NEW s \in Stores, GestureDone(s) PROVE IInv'
  <1> USE DEF GestureDone, IInv, Typed, world, bounds, history
  <1>1. WorldTyped'
    BY DEF WorldTyped, ViewTyped, AppTyped, Shapes
  <1>2. ViewTyped'
    BY DEF WorldTyped, ViewTyped, AppTyped, PollTyped, Shapes, Polls
  <1>3. PollTyped'
    BY DEF ViewTyped, PollTyped, WorldTyped, AppTyped, Shapes, Polls
  <1>4. TimersTyped'
    BY DEF TimersTyped, ViewTyped, Shapes
  <1>5. AppTyped'
    BY DEF AppTyped, ViewTyped, Shapes
  <1>6. SameDevices
    BY DEF SameDevices, ViewTyped, Shapes
  <1>7. SameLight
    BY DEF SameLight
  <1> QED
    BY ONLY IInv, <1>1, <1>2, <1>3, <1>4, <1>5, <1>6, <1>7, SameDevicesKeep, SameLightKeeps
       DEF IInv, Typed

LEMMA GestureFailsKeeps == ASSUME IInv, NEW s \in Stores, GestureFails(s) PROVE IInv'
  <1> USE DEF GestureFails, Fault, Fails, IInv, Typed, world, bounds, history
  <1>1. WorldTyped'
    BY DEF WorldTyped, ViewTyped, AppTyped, Shapes
  <1>2. ViewTyped'
    BY DEF WorldTyped, ViewTyped, AppTyped, PollTyped, Shapes, Polls
  <1>3. PollTyped'
    BY DEF ViewTyped, PollTyped, WorldTyped, AppTyped, Shapes, Polls
  <1>4. TimersTyped'
    BY DEF TimersTyped, ViewTyped, Shapes
  <1>5. AppTyped'
    BY DEF AppTyped, ViewTyped, Shapes
  <1>6. SameDevices
    BY DEF SameDevices, ViewTyped, Shapes
  <1>7. SameLight
    BY DEF SameLight
  <1> QED
    BY ONLY IInv, <1>1, <1>2, <1>3, <1>4, <1>5, <1>6, <1>7, SameDevicesKeep, SameLightKeeps
       DEF IInv, Typed

LEMMA ClearIndicatorKeeps ==
  ASSUME IInv, NEW s \in Stores, NEW id \in clearDue[s], ClearIndicator(s, id)
  PROVE  IInv'
  <1> USE DEF ClearIndicator, IInv, Typed, world, bounds, history
  <1>1. WorldTyped'
    BY DEF WorldTyped
  <1>2. ViewTyped' /\ SameDevices
    <2>1. /\ \/ project' = project
             \/ project' = [project EXCEPT ![s].moving = FALSE]
          /\ project \in [Stores -> Shapes] /\ FALSE \in BOOLEAN
      BY DEF ViewTyped
    <2>2. /\ project' \in [Stores -> Shapes]
          /\ \A t \in Stores : project'[t].id = project[t].id
      BY ONLY <2>1, s \in Stores, MovingChanged
    <2> QED
      BY <2>2 DEF ViewTyped, SameDevices
  <1>3. PollTyped'
    BY DEF PollTyped
  <1>4. TimersTyped'
    BY DEF TimersTyped
  <1>5. AppTyped'
    BY DEF AppTyped
  <1>6. SameLight
    BY DEF SameLight
  <1> QED
    BY ONLY IInv, <1>1, <1>2, <1>3, <1>4, <1>5, <1>6, SameDevicesKeep, SameLightKeeps
       DEF IInv, Typed

-----------------------------------------------------------------------------
(* The installation.                                                       *)

LEMMA SwitchThrownKeeps == IInv /\ SwitchThrown => IInv'
  <1> SUFFICES ASSUME IInv, SwitchThrown PROVE IInv'
    OBVIOUS
  <1> USE DEF SwitchThrown, Touch, IInv, Typed, stores
  <1>0. (~power) \in BOOLEAN /\ (calm /\ commands = {}) \in BOOLEAN
    OBVIOUS
  <1>1. WorldTyped'
    BY <1>0 DEF WorldTyped
  <1>2. ViewTyped' /\ PollTyped' /\ TimersTyped'
    BY DEF ViewTyped, PollTyped, TimersTyped
  <1>3. AppTyped'
    BY <1>0 DEF AppTyped
  <1>4. SameDevices
    BY DEF SameDevices
  <1>5. OneCommand'
    BY DEF OneCommand
  <1> QED
    BY ONLY IInv, <1>1, <1>2, <1>3, <1>4, <1>5, SameDevicesKeep DEF IInv, Typed

LEMMA CommandEndsKeeps == IInv /\ CommandEnds => IInv'
  <1> SUFFICES ASSUME IInv, NEW c \in commands, CommandArrives(c) \/ CommandLost(c)
               PROVE  IInv'
    BY DEF CommandEnds
  <1> USE DEF CommandArrives, CommandLost, Fault, IInv, Typed, stores, bounds, history
  <1>1. WorldTyped'
    BY DEF WorldTyped
  <1>2. ViewTyped' /\ PollTyped' /\ TimersTyped'
    BY DEF ViewTyped, PollTyped, TimersTyped
  <1>3. AppTyped'
    <2>1. CASE CommandArrives(c)
      BY <2>1 DEF AppTyped
    <2>2. CASE CommandLost(c)
      <3>1. calm' \in BOOLEAN
        BY <2>2, Zenon
      <3>2. /\ UNCHANGED <<opened, current, loads, touches, wanted, lastLoaded, restored>>
            /\ faults' = faults + 1 /\ faults' \in Nat
        BY <2>2 DEF AppTyped
      <3> QED
        BY <3>1, <3>2 DEF AppTyped
    <2> QED
      BY <2>1, <2>2
  <1>4. SameDevices
    BY DEF SameDevices
  <1>5. OneCommand'
    BY DEF OneCommand
  <1> QED
    BY ONLY IInv, <1>1, <1>2, <1>3, <1>4, <1>5, SameDevicesKeep DEF IInv, Typed

-----------------------------------------------------------------------------
LEMMA StoreStepKeeps == ASSUME IInv, NEW s \in Stores, StoreStep(s) PROVE IInv'
  BY ConnectSucceedsKeeps, LoadSucceedsKeeps, LoadFailsKeeps, ReloadTappedKeeps,
     ReloadSucceedsKeeps, ReloadFailsKeeps, PollBeginsKeeps, PollAnsweredKeeps,
     PollFailsKeeps, PollYieldsKeeps, ApplyKeeps, SaveKeeps, TogglePowerKeeps,
     MoveShutterKeeps, PressInputKeeps, GestureDoneKeeps, GestureFailsKeeps,
     ClearIndicatorKeeps
     DEF StoreStep, PollReturns

LEMMA Invariance == Spec => []IInv
  <1>1. IInv /\ [Next]_vars => IInv'
    <2>1. IInv /\ UNCHANGED vars => IInv'
      BY DEF IInv, Typed, WorldTyped, ViewTyped, PollTyped, TimersTyped, AppTyped,
             OpenedRun, RegisteredIsShown, OneCommand, vars, world, stores,
             bounds, history
    <2> QED
      BY <2>1, OpenKeeps, CloseKeeps, SwitchThrownKeeps, CommandEndsKeeps,
         StoreStepKeeps
         DEF Next
  <1> QED
    BY <1>1, InitHolds, PTL DEF Spec

(* The variables of the app always have their types.                       *)
THEOREM TypeCorrect == Spec => []Typed
  <1>1. IInv => Typed
    BY DEF IInv
  <1> QED
    BY <1>1, Invariance, PTL

(* However loads and reloads of any number of stores overlap, a store      *)
(* polls the devices it shows, and so does one that was let go of          *)
(* (HomeStore.swift:54 and 76).                                            *)
THEOREM PolledIsShown == Spec => []RegisteredIsShown
  <1>1. IInv => RegisteredIsShown
    BY DEF IInv
  <1> QED
    BY <1>1, Invariance, PTL

(* The light is as it was last told unless two commands were on their way  *)
(* at a time or one was lost, whatever is polled, reloaded, saved or       *)
(* applied in between (HomeStore.swift:166).                               *)
THEOREM LastCommandWins == Spec => []LastIntentWins
  <1>1. IInv => LastIntentWins
    BY DEF IInv, OneCommand, LastIntentWins
  <1> QED
    BY <1>1, Invariance, PTL
=============================================================================
