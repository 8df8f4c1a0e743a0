--------------------------- MODULE LiveViewProofs ---------------------------
(***************************************************************************)
(* A page that followed the stream one revision at a time shows the        *)
(* controller's state.  No variable of the model remembers what the state  *)
(* was at an earlier revision; the invariant says that some account H of   *)
(* it, one value for each revision so far, agrees with everything that is  *)
(* on its way to the page: a delta leads from the value before its         *)
(* revision to the value at it, a snapshot is the value at its revision.   *)
(***************************************************************************)
EXTENDS LiveView, ControllerProofs

(* What the controller has to show, what the page shows, and what a        *)
(* snapshot says.                                                          *)
Shown(devices, status, mark) ==
    [power |-> devices, link |-> [status |-> status, stale |-> mark]]
Now == Shown(states, connection, stale)
View == [power |-> deviceStates, link |-> connectionState]
Content(snap) == Shown(snap.states, snap.connection, snap.stale)

(* What a delta makes of a view (app.js:331-344).                          *)
After(w, e) ==
    IF e.kind = "state"
      THEN [power |-> [w.power EXCEPT ![e.device] = e.power], link |-> w.link]
      ELSE Shown(w.power, e.connection, e.stale)

(* An event that agrees with account H of the revisions up to r.           *)
Fits(H, r, e) ==
    \/ /\ e.kind = "snapshot"
       /\ e.revision \in 0..r
       /\ H[e.revision] = Content(e)
    \/ /\ e.kind # "snapshot"
       /\ e.revision \in 1..r
       /\ H[e.revision] = After(H[e.revision - 1], e)
AllFit(H, r, events) == \A i \in 1..Len(events) : Fits(H, r, events[i])

-----------------------------------------------------------------------------
(* The inductive invariant.                                                *)

History(H) ==
    /\ H[revision] = Now
    /\ \A a \in Actors : AllFit(H, revision, outbox[a])
    /\ AllFit(H, revision, channel[Stream])
    /\ AllFit(H, revision, snapshot[Stream])
    /\ \A f \in Fetches : AllFit(H, revision, fetched[f])
Followed(H) == stepwise => lastRevision \in 0..revision /\ H[lastRevision] = View

ViewTyped ==
    /\ lastRevision \in Nat
    /\ deviceStates \in [Devices -> DeviceState]
    /\ connectionState \in [status : Connections, stale : BOOLEAN]
    /\ stepwise \in BOOLEAN
FetchTyped ==
    /\ fetchAt \in [Fetches -> {"free", "asked", "answered"}]
    /\ fetched \in [Fetches -> Seq(Events)]
    /\ \A f \in Fetches : fetchAt[f] = "answered" =>
         Len(fetched[f]) = 1 /\ fetched[f][1].kind = "snapshot"

PageInv ==
    /\ IInv /\ ViewTyped /\ FetchTyped
    /\ \E H : History(H) /\ Followed(H)

-----------------------------------------------------------------------------
(* Accounts grow with the revision.                                        *)

LEMMA StaysFitting ==
    ASSUME NEW H, NEW K, NEW r \in Nat, NEW n \in Nat,
           \A i \in 0..r : K[i] = H[i],
           NEW e \in Events, Fits(H, r, e)
    PROVE  Fits(K, r + n, e)
<1>1. e.revision \in Nat
  BY RevisionTyped
<1>2. CASE e.kind = "snapshot"
  BY <1>1, <1>2 DEF Fits
<1>3. CASE e.kind # "snapshot"
  <2>1. e.revision \in 1..r /\ e.revision - 1 \in 0..r /\ e.revision \in 0..r
    BY <1>1, <1>3 DEF Fits
  <2>2. K[e.revision] = H[e.revision] /\ K[e.revision - 1] = H[e.revision - 1]
    BY <2>1
  <2>3. H[e.revision] = After(H[e.revision - 1], e)
    BY <1>3 DEF Fits
  <2> QED
    BY <1>3, <2>1, <2>2, <2>3 DEF Fits
<1> QED
  BY <1>2, <1>3

LEMMA AllStayFitting ==
    ASSUME NEW H, NEW K, NEW r \in Nat, NEW n \in Nat,
           \A i \in 0..r : K[i] = H[i],
           NEW events \in Seq(Events), AllFit(H, r, events)
    PROVE  AllFit(K, r + n, events)
<1> SUFFICES ASSUME NEW i \in 1..Len(events) PROVE Fits(K, r + n, events[i])
  BY DEF AllFit
<1>1. events[i] \in Events /\ Fits(H, r, events[i])
  BY DEF AllFit
<1> QED
  BY <1>1, StaysFitting

(* A section under stateMu: each event it makes leads one revision on, the *)
(* last of them to the state it leaves.                                    *)
LeadsOn(a, n, made, G) ==
    /\ revision' = revision + n
    /\ outbox' = [outbox EXCEPT ![a] = made]
    /\ G[0] = Now /\ G[n] = Now'
    /\ \A i \in 1..n : /\ made[i].kind # "snapshot"
                       /\ made[i].revision = revision + i
                       /\ G[i] = After(G[i - 1], made[i])
Advances(a) == \E n \in Nat : \E made \in [1..n -> Events] : \E G : LeadsOn(a, n, made, G)

LEMMA NothingAdvances ==
    ASSUME Typed, NEW a \in Actors, Quiet(a), UNCHANGED <<stateVars, outbox>>
    PROVE  Advances(a)
<1> DEFINE G == [i \in {0} |-> Now]
<1>1. <<>> \in [1..0 -> Events]
  OBVIOUS
<1>2. outbox' = [outbox EXCEPT ![a] = <<>>]
  BY DEF Quiet, Typed, OutboxTyped
<1>3. revision' = revision + 0 /\ (\A i \in 1..0 : FALSE) /\ 0 \in Nat
  BY DEF stateVars, Typed, StateTyped
<1>4. Now' = Now
  BY DEF Now, stateVars
<1>5. G[0] = Now
  OBVIOUS
<1>6. LeadsOn(a, 0, <<>>, G)
  BY <1>2, <1>3, <1>4, <1>5 DEF LeadsOn
<1> QED
  BY <1>1, <1>3, <1>6 DEF Advances

LEMMA OneAdvances ==
    ASSUME Typed, NEW a \in Actors, NEW e \in Events, e.kind # "snapshot",
           e.revision = revision + 1, revision' = revision + 1,
           outbox' = [outbox EXCEPT ![a] = <<e>>],
           Now' = After(Now, e)
    PROVE  Advances(a)
<1> DEFINE G == [i \in {0, 1} |-> IF i = 0 THEN Now ELSE Now']
<1>1. <<e>> \in [1..1 -> Events] /\ \A i \in 1..1 : <<e>>[i] = e /\ i = 1
  OBVIOUS
<1>2. G[0] = Now /\ G[1] = Now'
  OBVIOUS
<1>3. \A i \in 1..1 : /\ <<e>>[i].kind # "snapshot" /\ <<e>>[i].revision = revision + i
                      /\ G[i] = After(G[i - 1], <<e>>[i])
  BY <1>1, <1>2
<1>4. LeadsOn(a, 1, <<e>>, G)
  BY <1>2, <1>3 DEF LeadsOn
<1>5. 1 \in Nat
  OBVIOUS
<1> QED
  BY <1>1, <1>4, <1>5 DEF Advances

(* A section that publishes the connection anew.                           *)
LEMMA ConnectionAdvances ==
    ASSUME Typed, NEW a \in Actors, NEW conn \in Connections, NEW mark \in BOOLEAN,
           connection' = conn, stale' = mark, UNCHANGED states,
           revision' = revision + 1,
           outbox' = [outbox EXCEPT ![a] = <<ConnectionEvent(revision + 1, conn, mark)>>]
    PROVE  Advances(a)
<1> DEFINE e == ConnectionEvent(revision + 1, conn, mark)
<1>1. revision + 1 \in Nat
  BY DEF Typed, StateTyped
<1>2. e \in Events /\ e.revision = revision + 1
  BY <1>1, EventsMade
<1>3. e.kind = "connection" /\ e.connection = conn /\ e.stale = mark
  BY DEF ConnectionEvent
<1>4. Now' = Shown(states, conn, mark)
  BY DEF Now
<1>5. After(Now, e) = Shown(states, conn, mark)
  BY <1>3 DEF After, Now, Shown
<1>6. e.kind # "snapshot" /\ Now' = After(Now, e)
  BY <1>3, <1>4, <1>5
<1> HIDE DEF e
<1> QED
  BY <1>2, <1>6, OneAdvances DEF e

LEMMA SectionAdvances ==
    ASSUME Typed, NEW a \in Actors, Quiet(a),
           \/ \E value \in BOOLEAN : SetStale(a, value)
           \/ RecordConnected(a) \/ RecordDisconnected(a)
    PROVE  Advances(a)
<1>1. CASE UNCHANGED <<stateVars, outbox>>
  BY <1>1, NothingAdvances
<1>2. ASSUME NEW value \in BOOLEAN, SetStale(a, value), stale # value PROVE Advances(a)
  <2>1. connection \in Connections
    BY DEF Typed, StateTyped
  <2>2. /\ connection' = connection /\ stale' = value /\ UNCHANGED states
        /\ revision' = revision + 1
        /\ outbox' = [outbox EXCEPT ![a] = <<ConnectionEvent(revision + 1, connection, value)>>]
    BY <1>2 DEF SetStale
  <2> QED
    BY <2>1, <2>2, ConnectionAdvances
<1>3. CASE RecordConnected(a) /\ connection # "connected"
  <2>1. "connected" \in Connections /\ stale \in BOOLEAN
    BY DEF Typed, StateTyped, Connections
  <2>2. /\ connection' = "connected" /\ stale' = stale /\ UNCHANGED states
        /\ revision' = revision + 1
        /\ outbox' = [outbox EXCEPT ![a] = <<ConnectionEvent(revision + 1, "connected", stale)>>]
    BY <1>3 DEF RecordConnected
  <2> QED
    BY <2>1, <2>2, ConnectionAdvances
<1>4. CASE RecordDisconnected(a) /\ ~(connection = "disconnected" /\ stale)
  <2>1. "disconnected" \in Connections /\ TRUE \in BOOLEAN
    BY DEF Connections
  <2>2. /\ connection' = "disconnected" /\ stale' = TRUE /\ UNCHANGED states
        /\ revision' = revision + 1
        /\ outbox' = [outbox EXCEPT ![a] = <<ConnectionEvent(revision + 1, "disconnected", TRUE)>>]
    BY <1>4 DEF RecordDisconnected
  <2> QED
    BY <2>1, <2>2, ConnectionAdvances
<1>5. \/ UNCHANGED <<stateVars, outbox>>
      \/ \E value \in BOOLEAN : SetStale(a, value) /\ stale # value
      \/ RecordConnected(a) /\ connection # "connected"
      \/ RecordDisconnected(a) /\ ~(connection = "disconnected" /\ stale)
  BY Zenon DEF SetStale, RecordConnected, RecordDisconnected
<1> QED
  BY <1>1, <1>2, <1>3, <1>4, <1>5

(* updateModuleState: the devices change one by one, in the order of the   *)
(* events; the others do not.                                              *)
LEMMA UpdateAdvances ==
    ASSUME Typed, NEW a \in Actors, NEW m \in Addresses, UpdateModuleState(a, m),
           \A d \in DevicesOf(m) : reading[d] \in Power
    PROVE  Advances(a)
<1>0. PICK n \in 0..Len(Channels[m]) : \E changed \in [1..n -> DevicesOf(m)] :
         /\ Changed(m, changed)
         /\ revision' = revision + n
         /\ outbox' = [outbox EXCEPT ![a] =
              [i \in 1..n |->
                 StateEvent(revision + i, changed[i], reading[changed[i]])]]
  BY DEF UpdateModuleState
<1>1. PICK changed \in [1..n -> DevicesOf(m)] :
         /\ Changed(m, changed)
         /\ revision' = revision + n
         /\ outbox' = [outbox EXCEPT ![a] =
              [i \in 1..n |->
                 StateEvent(revision + i, changed[i], reading[changed[i]])]]
  BY <1>0
<1>2. n \in Nat /\ revision \in Nat /\ DevicesOf(m) \subseteq Devices
  BY <1>0, ChannelsAssumption, ModulesTyped DEF Addresses, Typed, StateTyped
<1> DEFINE made == [i \in 1..n |-> StateEvent(revision + i, changed[i], reading[changed[i]])]
           Power1(k) == [d \in Devices |-> IF \E j \in 1..k : changed[j] = d
                                             THEN reading[d] ELSE states[d]]
           G == [k \in 0..n |-> Shown(Power1(k), connection, stale)]
<1>3. \A i \in 1..n : /\ made[i] = StateEvent(revision + i, changed[i], reading[changed[i]])
                      /\ made[i] \in Events /\ made[i].revision = revision + i
                      /\ made[i].kind = "state" /\ made[i].device = changed[i]
                      /\ made[i].power = reading[changed[i]]
                      /\ changed[i] \in Devices
  <2> TAKE i \in 1..n
  <2>1. revision + i \in Nat /\ changed[i] \in DevicesOf(m) /\ changed[i] \in Devices
    BY <1>2
  <2>2. reading[changed[i]] \in Power
    BY <2>1
  <2> QED
    BY <2>1, <2>2, EventsMade DEF StateEvent
<1>4. made \in [1..n -> Events]
  BY <1>3
<1>5. states \in [Devices -> DeviceState] /\ UNCHANGED <<connection, stale>>
      /\ states' = [d \in Devices |-> IF d \in DevicesOf(m) THEN reading[d] ELSE states[d]]
  BY DEF Typed, StateTyped, UpdateModuleState
<1>6. G[0] = Now
  <2>1. Power1(0) = states
    BY <1>5
  <2> QED
    BY <1>2, <2>1 DEF Now
<1>7. G[n] = Now'
  <2>1. ASSUME NEW d \in Devices PROVE Power1(n)[d] = states'[d]
    <3>1. CASE \E j \in 1..n : changed[j] = d
      BY <1>5, <3>1
    <3>2. CASE ~ \E j \in 1..n : changed[j] = d
      <4>1. d \in DevicesOf(m) => reading[d] = states[d]
        <5> SUFFICES ASSUME NEW k \in DOMAIN Channels[m], Channels[m][k] = d
                     PROVE  reading[d] = states[d]
          BY DEF DevicesOf
        <5>1. PICK at \in [DOMAIN changed -> DOMAIN Channels[m]] :
                /\ \A i \in DOMAIN changed : changed[i] = Channels[m][at[i]]
                /\ \A k1 \in DOMAIN Channels[m] :
                     states[Channels[m][k1]] # reading[Channels[m][k1]]
                       <=> \E i \in DOMAIN changed : at[i] = k1
          BY <1>1 DEF Changed
        <5> QED
          BY <3>2, <5>1
      <4> QED
        BY <1>5, <3>2, <4>1
    <3> QED
      BY <3>1, <3>2
  <2>2. Power1(n) = states'
    BY <1>5, <2>1
  <2> QED
    BY <1>2, <1>5, <2>2 DEF Now
<1>8. ASSUME NEW i \in 1..n PROVE G[i] = After(G[i - 1], made[i])
  <2>1. i - 1 \in 0..n /\ i \in 0..n
    BY <1>2
  <2>2. Power1(i) = [Power1(i - 1) EXCEPT ![changed[i]] = reading[changed[i]]]
    <3>1. \A d \in Devices : (\E j \in 1..i : changed[j] = d)
                                <=> (d = changed[i] \/ \E j \in 1..(i - 1) : changed[j] = d)
      BY <1>2
    <3> QED
      BY <1>3, <3>1
  <2>3. G[i] = Shown(Power1(i), connection, stale)
        /\ G[i - 1] = Shown(Power1(i - 1), connection, stale)
    BY <2>1
  <2>4. made[i].kind = "state" /\ made[i].device = changed[i]
        /\ made[i].power = reading[changed[i]]
    BY <1>3
  <2> HIDE DEF made, Power1, G
  <2> QED
    BY <2>2, <2>3, <2>4 DEF After, Shown
<1>9. LeadsOn(a, n, made, G)
  BY <1>1, <1>3, <1>6, <1>7, <1>8 DEF LeadsOn
<1> HIDE DEF made, G
<1> QED
  BY <1>2, <1>4, <1>9 DEF Advances

-----------------------------------------------------------------------------
(* The steps.                                                              *)

(* A section under stateMu: the account is continued by what it did.       *)
LEMMA AdvanceKeeps ==
    ASSUME PageInv, TypeOK', NEW a \in Actors, Advances(a),
           UNCHANGED <<channel, snapshot, pageVars>>
    PROVE  \E K : History(K)' /\ Followed(K)'
<1>1. PICK n \in Nat : \E made \in [1..n -> Events] : \E G : LeadsOn(a, n, made, G)
  BY DEF Advances
<1>2. PICK made \in [1..n -> Events] : \E G : LeadsOn(a, n, made, G)
  BY <1>1
<1>3. PICK G : LeadsOn(a, n, made, G)
  BY <1>2
<1>4. PICK H : History(H) /\ Followed(H)
  BY DEF PageInv
<1>5. /\ Typed /\ revision \in Nat /\ revision' = revision + n
      /\ outbox \in [Actors -> Seq(Events)]
      /\ channel \in [Subscribers -> Seq(Events)]
      /\ snapshot \in [Subscribers -> Seq(Events)]
      /\ fetched \in [Fetches -> Seq(Events)]
  BY <1>3 DEF LeadsOn, PageInv, IInv, Typed, StateTyped, OutboxTyped, ChannelTyped,
     CallTyped, FetchTyped
<1> DEFINE r == revision
<1>6. H[r] = G[0]
  BY <1>3, <1>4 DEF History, LeadsOn
<1>7. PICK K : K = [i \in 0..(r + n) |-> IF i <= r THEN H[i] ELSE G[i - r]]
  OBVIOUS
<1>8. (\A i \in 0..r : K[i] = H[i]) /\ (\A i \in 0..n : K[r + i] = G[i])
  <2>1. \A i \in 0..r : K[i] = H[i]
    BY <1>5, <1>7
  <2>2. ASSUME NEW i \in 0..n PROVE K[r + i] = G[i]
    <3>1. r + i \in 0..(r + n) /\ (r + i <= r <=> i = 0) /\ (r + i) - r = i
      BY <1>5
    <3>2. CASE i = 0
      BY <1>5, <1>6, <1>7, <3>1, <3>2
    <3>3. CASE i # 0
      BY <1>7, <3>1, <3>3
    <3> QED
      BY <3>2, <3>3
  <2> QED
    BY <2>1, <2>2
<1>9. ASSUME NEW events \in Seq(Events), AllFit(H, r, events) PROVE AllFit(K, r + n, events)
  BY <1>5, <1>8, <1>9, AllStayFitting
<1>10. AllFit(K, r + n, made)
  <2>1. Len(made) = n
    BY <1>2
  <2> SUFFICES ASSUME NEW i \in 1..n PROVE Fits(K, r + n, made[i])
    BY <2>1 DEF AllFit
  <2>2. made[i].kind # "snapshot" /\ made[i].revision = r + i /\ G[i] = After(G[i - 1], made[i])
    BY <1>3 DEF LeadsOn
  <2>3. i \in 0..n /\ i - 1 \in 0..n /\ r + (i - 1) = (r + i) - 1 /\ r + i \in 1..(r + n)
    BY <1>5
  <2>4. K[r + i] = G[i] /\ K[(r + i) - 1] = G[i - 1]
    BY <1>8, <2>3
  <2> QED
    BY <2>2, <2>3, <2>4 DEF Fits
<1>11. (\A b \in Actors : AllFit(K, revision, outbox[b]))'
  <2> SUFFICES ASSUME NEW b \in Actors PROVE AllFit(K, r + n, outbox'[b])
    BY <1>5
  <2>1. outbox'[b] = IF b = a THEN made ELSE outbox[b]
    BY <1>3, <1>5 DEF LeadsOn
  <2>2. outbox[b] \in Seq(Events) /\ AllFit(H, r, outbox[b])
    BY <1>4, <1>5 DEF History
  <2> QED
    BY <1>9, <1>10, <2>1, <2>2
<1>12. AllFit(K, revision, channel[Stream])' /\ AllFit(K, revision, snapshot[Stream])'
  <2>1. channel[Stream] \in Seq(Events) /\ snapshot[Stream] \in Seq(Events)
    BY <1>5, StreamAssumption
  <2>2. AllFit(H, r, channel[Stream]) /\ AllFit(H, r, snapshot[Stream])
    BY <1>4 DEF History
  <2>3. AllFit(K, r + n, channel[Stream]) /\ AllFit(K, r + n, snapshot[Stream])
    BY <1>9, <2>1, <2>2
  <2> QED
    BY <1>5, <2>3
<1>13. (\A f \in Fetches : AllFit(K, revision, fetched[f]))'
  <2> SUFFICES ASSUME NEW f \in Fetches PROVE AllFit(K, r + n, fetched[f])
    BY <1>5 DEF pageVars
  <2>1. fetched[f] \in Seq(Events) /\ AllFit(H, r, fetched[f])
    BY <1>4, <1>5 DEF History
  <2> QED
    BY <1>9, <2>1
<1>14. (K[revision] = Now)'
  <2>1. G[n] = Now'
    BY <1>3 DEF LeadsOn
  <2>2. K[r + n] = G[n]
    BY <1>8
  <2> QED
    BY <1>5, <2>1, <2>2
<1>15. Followed(K)'
  <2> SUFFICES ASSUME stepwise PROVE lastRevision \in 0..(r + n) /\ K[lastRevision] = View
    BY <1>5 DEF Followed, View, pageVars, viewVars
  <2>1. lastRevision \in 0..r /\ H[lastRevision] = View
    BY <1>4 DEF Followed
  <2> QED
    BY <1>5, <1>8, <2>1
<1>16. History(K)'
  BY <1>11, <1>12, <1>13, <1>14 DEF History
<1> QED
  BY <1>15, <1>16

(* A step that leaves the state as it is, and moves events of the account, *)
(* keeps the account.                                                      *)
LEMMA SameAccount ==
    ASSUME NEW H, History(H), Followed(H), UNCHANGED stateVars,
           \A a \in Actors : AllFit(H, revision, outbox'[a]),
           AllFit(H, revision, channel'[Stream]),
           AllFit(H, revision, snapshot'[Stream])
    PROVE  /\ UNCHANGED <<fetchAt, fetched>> => History(H)'
           /\ (\A f \in Fetches : AllFit(H, revision, fetched'[f])) => History(H)'
           /\ UNCHANGED <<viewVars, stepwise>> => Followed(H)'
<1>1. revision' = revision /\ Now' = Now
  BY DEF stateVars, Now
<1>2. (\A f \in Fetches : AllFit(H, revision, fetched'[f])) => History(H)'
  BY <1>1 DEF History
<1>3. UNCHANGED <<fetchAt, fetched>> => \A f \in Fetches : AllFit(H, revision, fetched'[f])
  BY DEF History
<1>4. UNCHANGED <<viewVars, stepwise>> => Followed(H)'
  BY <1>1 DEF Followed, View, viewVars
<1> QED
  BY <1>2, <1>3, <1>4

LEMMA FitHead ==
    ASSUME NEW H, NEW r, NEW events \in Seq(Events), events # <<>>, AllFit(H, r, events)
    PROVE  /\ Head(events) \in Events /\ Fits(H, r, Head(events))
           /\ AllFit(H, r, Tail(events))
           /\ \A q \in Seq(Events) : AllFit(H, r, q) => AllFit(H, r, Append(q, Head(events)))
<1>1. Head(events) = events[1] /\ 1 \in 1..Len(events) /\ Len(Tail(events)) = Len(events) - 1
      /\ \A i \in 1..Len(Tail(events)) :
           Tail(events)[i] = events[i + 1] /\ i + 1 \in 1..Len(events)
  OBVIOUS
<1>2. Head(events) \in Events /\ Fits(H, r, Head(events)) /\ AllFit(H, r, Tail(events))
  BY <1>1 DEF AllFit
<1>3. ASSUME NEW q \in Seq(Events), AllFit(H, r, q)
      PROVE  AllFit(H, r, Append(q, Head(events)))
  <2> DEFINE e == Head(events)
  <2> HIDE DEF e
  <2>1. \A i \in 1..Len(Append(q, e)) :
          Append(q, e)[i] = e \/ (i \in 1..Len(q) /\ Append(q, e)[i] = q[i])
    OBVIOUS
  <2>2. Fits(H, r, e)
    BY <1>2 DEF e
  <2> QED
    BY <1>3, <2>1, <2>2 DEF AllFit, e
<1> QED
  BY <1>2, <1>3

LEMMA PublishSameAccount ==
    ASSUME PageInv, NEW a \in Actors, Publish(a), UNCHANGED pageVars
    PROVE  \E H : History(H)' /\ Followed(H)'
<1>1. PICK H : History(H) /\ Followed(H)
  BY DEF PageInv
<1>2. /\ outbox \in [Actors -> Seq(Events)] /\ channel \in [Subscribers -> Seq(Events)]
  BY DEF PageInv, IInv, Typed, OutboxTyped, ChannelTyped
<1>3. /\ outbox[a] \in Seq(Events) /\ outbox[a] # <<>> /\ AllFit(H, revision, outbox[a])
      /\ channel[Stream] \in Seq(Events) /\ AllFit(H, revision, channel[Stream])
  BY <1>1, <1>2, StreamAssumption DEF Publish, Quiet, History
<1>4. \A b \in Actors : outbox'[b] = IF b = a THEN Tail(outbox[a]) ELSE outbox[b]
  BY <1>2 DEF Publish
<1>5. channel'[Stream] = channel[Stream]
      \/ channel'[Stream] = Append(channel[Stream], Head(outbox[a]))
  BY StreamAssumption DEF Publish
<1>6. AllFit(H, revision, Tail(outbox[a]))
      /\ AllFit(H, revision, Append(channel[Stream], Head(outbox[a])))
  BY <1>3, FitHead
<1>7. \A b \in Actors : AllFit(H, revision, outbox'[b])
  BY <1>1, <1>4, <1>6 DEF History
<1>8. AllFit(H, revision, channel'[Stream])
  BY <1>3, <1>5, <1>6
<1>9. UNCHANGED stateVars /\ UNCHANGED snapshot
  BY DEF Publish, callVars
<1>10. AllFit(H, revision, snapshot'[Stream])
  BY <1>1, <1>9 DEF History
<1>11. UNCHANGED <<fetchAt, fetched>> /\ UNCHANGED <<viewVars, stepwise>>
  BY DEF pageVars
<1> QED
  BY <1>1, <1>7, <1>8, <1>9, <1>10, <1>11, SameAccount

LEMMA TakeSnapshotSameAccount ==
    ASSUME PageInv, NEW s \in Subscribers, TakeSnapshot(s), UNCHANGED pageVars
    PROVE  \E H : History(H)' /\ Followed(H)'
<1>1. PICK H : History(H) /\ Followed(H)
  BY DEF PageInv
<1>2. snapshot \in [Subscribers -> Seq(Events)] /\ revision \in Nat
  BY DEF PageInv, IInv, Typed, CallTyped, StateTyped
<1>3. UNCHANGED <<outbox, channel>> /\ UNCHANGED stateVars
  BY DEF TakeSnapshot, subsVars
<1>4. Fits(H, revision, Snapshot)
  BY <1>1, <1>2 DEF Fits, Snapshot, History, Now, Content
<1>5. AllFit(H, revision, snapshot'[Stream])
  <2>1. snapshot'[Stream] = IF Stream = s THEN <<Snapshot>> ELSE snapshot[Stream]
    BY <1>2, StreamAssumption DEF TakeSnapshot
  <2>2. AllFit(H, revision, <<Snapshot>>)
    BY <1>4 DEF AllFit
  <2> QED
    BY <1>1, <2>1, <2>2 DEF History
<1>6. (\A a \in Actors : AllFit(H, revision, outbox'[a])) /\ AllFit(H, revision, channel'[Stream])
  BY <1>1, <1>3 DEF History
<1>7. UNCHANGED <<fetchAt, fetched>> /\ UNCHANGED <<viewVars, stepwise>>
  BY DEF pageVars
<1> QED
  BY <1>1, <1>3, <1>5, <1>6, <1>7, SameAccount

LEMMA DeliverSameAccount ==
    ASSUME PageInv, NEW s \in Subscribers, DeliverSnapshot(s), UNCHANGED pageVars
    PROVE  \E H : History(H)' /\ Followed(H)'
<1>1. PICK H : History(H) /\ Followed(H)
  BY DEF PageInv
<1>2. /\ snapshot \in [Subscribers -> Seq(Events)] /\ channel \in [Subscribers -> Seq(Events)]
  BY DEF PageInv, IInv, Typed, CallTyped, ChannelTyped
<1>3. UNCHANGED outbox /\ UNCHANGED stateVars
  BY DEF DeliverSnapshot
<1>4. /\ channel[Stream] \in Seq(Events) /\ AllFit(H, revision, channel[Stream])
      /\ snapshot[Stream] \in Seq(Events) /\ AllFit(H, revision, snapshot[Stream])
  BY <1>1, <1>2, StreamAssumption DEF History
<1>5. AllFit(H, revision, channel'[Stream])
  <2>1. \/ channel'[Stream] = channel[Stream]
        \/ channel'[Stream] = channel[Stream] \o snapshot[Stream]
    BY <1>2, StreamAssumption DEF DeliverSnapshot
  <2> DEFINE c == channel[Stream]
             n == snapshot[Stream]
  <2>2. \A i \in 1..Len(c \o n) :
          \/ i \in 1..Len(c) /\ (c \o n)[i] = c[i]
          \/ i - Len(c) \in 1..Len(n) /\ (c \o n)[i] = n[i - Len(c)]
    <3> HIDE DEF c, n
    <3>1. c \in Seq(Events) /\ n \in Seq(Events)
      BY <1>4 DEF c, n
    <3> QED
      BY <3>1
  <2>3. AllFit(H, revision, c \o n)
    BY <1>4, <2>2 DEF AllFit
  <2> QED
    BY <1>4, <2>1, <2>3
<1>6. AllFit(H, revision, snapshot'[Stream])
  <2>1. snapshot'[Stream] = IF Stream = s THEN <<>> ELSE snapshot[Stream]
    BY <1>2, StreamAssumption DEF DeliverSnapshot
  <2>2. AllFit(H, revision, <<>>)
    BY DEF AllFit
  <2> QED
    BY <1>4, <2>1, <2>2
<1>7. \A a \in Actors : AllFit(H, revision, outbox'[a])
  BY <1>1, <1>3 DEF History
<1>8. UNCHANGED <<fetchAt, fetched>> /\ UNCHANGED <<viewVars, stepwise>>
  BY DEF pageVars
<1> QED
  BY <1>1, <1>3, <1>5, <1>6, <1>7, <1>8, SameAccount

(* A stream's Receive, the page's or another's, takes the head of a        *)
(* channel and leaves everything else where it is.                         *)
LEMMA ReceiveSameAccount ==
    ASSUME PageInv, NEW H, History(H), Followed(H), NEW s \in Subscribers, Receive(s),
           UNCHANGED fetched
    PROVE  /\ History(H)'
           /\ UNCHANGED <<viewVars, stepwise>> => Followed(H)'
           /\ s = Stream => /\ Head(channel[Stream]) \in Events
                            /\ Fits(H, revision, Head(channel[Stream]))
<1>1. /\ channel \in [Subscribers -> Seq(Events)]
      /\ channel[s] # <<>> /\ UNCHANGED <<outbox, snapshot>> /\ UNCHANGED stateVars
      /\ \A t \in Subscribers : channel'[t] = IF t = s THEN Tail(channel[s]) ELSE channel[t]
  BY DEF PageInv, IInv, Typed, ChannelTyped, Receive, callVars
<1>2. channel[Stream] \in Seq(Events) /\ AllFit(H, revision, channel[Stream])
  BY <1>1, StreamAssumption DEF History
<1>3. s = Stream => /\ Head(channel[Stream]) \in Events
                    /\ Fits(H, revision, Head(channel[Stream]))
                    /\ AllFit(H, revision, Tail(channel[Stream]))
  BY <1>1, <1>2, FitHead
<1>4. AllFit(H, revision, channel'[Stream])
  BY <1>1, <1>2, <1>3, StreamAssumption
<1>5. /\ \A a \in Actors : AllFit(H, revision, outbox'[a])
      /\ AllFit(H, revision, snapshot'[Stream])
      /\ \A f \in Fetches : AllFit(H, revision, fetched'[f])
  BY <1>1 DEF History
<1> QED
  BY <1>1, <1>3, <1>4, <1>5, SameAccount

(* applySnapshot: the page shows what the account has at its revision.     *)
LEMMA SnapshotFollowed ==
    ASSUME NEW H, NEW snap \in Events, snap.kind = "snapshot",
           revision \in Nat, Fits(H, revision, snap), ApplySnapshot(snap),
           revision' = revision
    PROVE  Followed(H)' /\ ViewTyped'
<1>1. snap.revision \in 0..revision /\ H[snap.revision] = Content(snap)
  BY DEF Fits
<1>2. /\ snap.revision \in Nat /\ snap.connection \in Connections
      /\ snap.stale \in BOOLEAN /\ snap.states \in [Devices -> DeviceState]
  BY DEF Events
<1>3. View' = Content(snap)
  BY DEF ApplySnapshot, View, Content, Shown
<1>4. Followed(H)'
  BY <1>1, <1>3 DEF Followed, ApplySnapshot
<1>5. ViewTyped'
  BY <1>2 DEF ViewTyped, ApplySnapshot
<1> QED
  BY <1>4, <1>5

(* A delta applied in order leads the page on as it led the state on.      *)
LEMMA DeltaFollowed ==
    ASSUME NEW H, NEW event \in Events, event.kind # "snapshot", ViewTyped,
           revision \in Nat, Fits(H, revision, event), Followed(H), OnDelta(event),
           revision' = revision
    PROVE  Followed(H)' /\ ViewTyped'
<1>0. event.revision \in Nat
  BY RevisionTyped
<1>1. event.revision \in 1..revision /\ H[event.revision] = After(H[event.revision - 1], event)
  BY DEF Fits
<1>2. CASE UNCHANGED <<viewVars, stepwise>>
  BY <1>2 DEF Followed, ViewTyped, View, viewVars
<1>3. CASE /\ ApplyDelta(event)
           /\ lastRevision' = IF event.revision > lastRevision THEN event.revision
                                                               ELSE lastRevision
           /\ stepwise' = (stepwise /\ event.revision = lastRevision + 1)
  <2>1. View' = After(View, event)
    <3>1. CASE event.kind = "state"
      <4>1. deviceStates' = [deviceStates EXCEPT ![event.device] = event.power]
            /\ connectionState' = connectionState
        BY <1>3, <3>1 DEF ApplyDelta
      <4> QED
        BY <3>1, <4>1 DEF After, View
    <3>2. CASE event.kind # "state"
      <4>1. connectionState' = [status |-> event.connection, stale |-> event.stale]
            /\ deviceStates' = deviceStates
        BY <1>3, <3>2 DEF ApplyDelta
      <4> QED
        BY <3>2, <4>1 DEF After, View, Shown
    <3> QED
      BY <3>1, <3>2
  <2>2. Followed(H)'
    <3> SUFFICES ASSUME stepwise' PROVE lastRevision' \in 0..revision /\ H[lastRevision'] = View'
      BY DEF Followed, View
    <3>1. /\ lastRevision \in 0..revision /\ H[lastRevision] = View
          /\ event.revision = lastRevision + 1 /\ lastRevision' = event.revision
      <4>1. stepwise /\ event.revision = lastRevision + 1
        BY <1>3, Zenon
      <4>2. event.revision > lastRevision
        BY <4>1 DEF ViewTyped
      <4> QED
        BY <1>3, <4>1, <4>2 DEF Followed
    <3>2. event.revision - 1 = lastRevision /\ lastRevision' \in 0..revision
      BY <1>1, <3>1 DEF ViewTyped
    <3>3. H[lastRevision'] = After(H[lastRevision], event)
      BY <1>1, <3>1, <3>2
    <3> QED
      BY <2>1, <3>1, <3>2, <3>3
  <2>3. ViewTyped'
    <3>1. lastRevision' \in Nat
      BY <1>0, <1>3 DEF ViewTyped
    <3>2. stepwise' \in BOOLEAN
      BY <1>3, Zenon
    <3>3. event.kind = "state" => event.device \in Devices /\ event.power \in DeviceState
      BY DEF Events, DeviceState
    <3>4. event.kind = "connection" => event.connection \in Connections /\ event.stale \in BOOLEAN
      BY DEF Events
    <3>5. deviceStates' \in [Devices -> DeviceState]
      BY <1>3, <3>3 DEF ApplyDelta, ViewTyped
    <3>6. connectionState' \in [status : Connections, stale : BOOLEAN]
      BY <1>3, <3>4 DEF ApplyDelta, ViewTyped
    <3> QED
      BY <3>1, <3>2, <3>5, <3>6 DEF ViewTyped
  <2> QED
    BY <2>2, <2>3
<1> QED
  BY <1>2, <1>3 DEF OnDelta

LEMMA ReceivesKeeps ==
    ASSUME PageInv, PageReceives
    PROVE  ViewTyped' /\ FetchTyped' /\ \E H : History(H)' /\ Followed(H)'
<1> DEFINE event == Head(channel[Stream])
<1>1. PICK H : History(H) /\ Followed(H)
  BY DEF PageInv
<1>2. /\ Receive(Stream) /\ UNCHANGED fetched
      /\ \/ event.kind = "snapshot" /\ ApplySnapshot(event) /\ UNCHANGED fetchAt
         \/ event.kind # "snapshot" /\ OnDelta(event)
  BY DEF PageReceives
<1>3. event \in Events /\ Fits(H, revision, event) /\ History(H)'
  BY <1>1, <1>2, ReceiveSameAccount, StreamAssumption
<1>4. revision \in Nat /\ revision' = revision /\ ViewTyped
  BY <1>2 DEF PageInv, IInv, Typed, StateTyped, Receive, stateVars
<1> HIDE DEF event
<1>5. Followed(H)' /\ ViewTyped'
  BY <1>1, <1>2, <1>3, <1>4, SnapshotFollowed, DeltaFollowed
<1>6. FetchTyped'
  <2>1. FetchTyped
    BY DEF PageInv
  <2>2. CASE UNCHANGED fetchAt
    BY <1>2, <2>1, <2>2 DEF FetchTyped
  <2>3. CASE RefreshSnapshot
    <3>1. PICK f \in Fetches : fetchAt' = [fetchAt EXCEPT ![f] = "asked"]
      BY <2>3 DEF RefreshSnapshot
    <3>2. \A g \in Fetches : fetchAt'[g] = IF g = f THEN "asked" ELSE fetchAt[g]
      BY <2>1, <3>1 DEF FetchTyped
    <3>3. fetchAt' \in [Fetches -> {"free", "asked", "answered"}]
      BY <2>1, <3>1 DEF FetchTyped
    <3> QED
      BY <1>2, <2>1, <3>2, <3>3 DEF FetchTyped
  <2> QED
    BY <1>2, <2>2, <2>3 DEF OnDelta
<1> QED
  BY <1>3, <1>5, <1>6

LEMMA StateAPIKeeps ==
    ASSUME PageInv, NEW f \in Fetches, StateAPI(f)
    PROVE  ViewTyped' /\ FetchTyped' /\ \E H : History(H)' /\ Followed(H)'
<1>1. PICK H : History(H) /\ Followed(H)
  BY DEF PageInv
<1>2. /\ FetchTyped /\ ViewTyped /\ Typed /\ revision \in Nat
      /\ UNCHANGED stateVars /\ UNCHANGED <<outbox, channel, snapshot>>
      /\ UNCHANGED <<viewVars, stepwise>>
      /\ fetchAt' = [fetchAt EXCEPT ![f] = "answered"]
      /\ fetched' = [fetched EXCEPT ![f] = <<Snapshot>>]
  BY DEF PageInv, IInv, Typed, StateTyped, StateAPI, vars, subsVars, callVars
<1>3. Snapshot \in Events /\ Snapshot.kind = "snapshot"
  BY <1>2, SnapshotMade, TypedParts
<1>4. Fits(H, revision, Snapshot)
  BY <1>1, <1>2 DEF Fits, Snapshot, History, Now, Content
<1>5. \A g \in Fetches : /\ fetchAt'[g] = IF g = f THEN "answered" ELSE fetchAt[g]
                         /\ fetched'[g] = IF g = f THEN <<Snapshot>> ELSE fetched[g]
  BY <1>2 DEF FetchTyped
<1>6. FetchTyped'
  <2>1. <<Snapshot>> \in Seq(Events) /\ Len(<<Snapshot>>) = 1 /\ <<Snapshot>>[1].kind = "snapshot"
    BY <1>3
  <2>2. fetchAt' \in [Fetches -> {"free", "asked", "answered"}] /\ fetched' \in [Fetches -> Seq(Events)]
    BY <1>2, <2>1 DEF FetchTyped
  <2>3. ASSUME NEW g \in Fetches, fetchAt'[g] = "answered"
        PROVE  Len(fetched'[g]) = 1 /\ fetched'[g][1].kind = "snapshot"
    BY <1>2, <1>5, <2>1, <2>3 DEF FetchTyped
  <2> QED
    BY <2>2, <2>3 DEF FetchTyped
<1>7. \A g \in Fetches : AllFit(H, revision, fetched'[g])
  <2>1. AllFit(H, revision, <<Snapshot>>)
    BY <1>4 DEF AllFit
  <2> QED
    BY <1>1, <1>5, <2>1 DEF History
<1>8. /\ \A a \in Actors : AllFit(H, revision, outbox'[a])
      /\ AllFit(H, revision, channel'[Stream]) /\ AllFit(H, revision, snapshot'[Stream])
  BY <1>1, <1>2 DEF History
<1>9. History(H)' /\ Followed(H)'
  BY <1>1, <1>2, <1>7, <1>8, SameAccount
<1>10. ViewTyped'
  BY <1>2 DEF ViewTyped, viewVars
<1> QED
  BY <1>6, <1>9, <1>10

LEMMA FetchReturnsKeeps ==
    ASSUME PageInv, NEW f \in Fetches, FetchReturns(f)
    PROVE  ViewTyped' /\ FetchTyped' /\ \E H : History(H)' /\ Followed(H)'
<1>1. PICK H : History(H) /\ Followed(H)
  BY DEF PageInv
<1>2. /\ FetchTyped /\ ViewTyped /\ revision \in Nat /\ fetchAt[f] = "answered"
      /\ UNCHANGED stateVars /\ UNCHANGED <<outbox, channel, snapshot>>
      /\ fetchAt' = [fetchAt EXCEPT ![f] = "free"]
      /\ fetched' = [fetched EXCEPT ![f] = <<>>]
  BY DEF PageInv, IInv, Typed, StateTyped, FetchReturns, vars, subsVars, callVars
<1>3. \A g \in Fetches : /\ fetchAt'[g] = IF g = f THEN "free" ELSE fetchAt[g]
                         /\ fetched'[g] = IF g = f THEN <<>> ELSE fetched[g]
  BY <1>2 DEF FetchTyped
<1>4. FetchTyped'
  <2>1. fetchAt' \in [Fetches -> {"free", "asked", "answered"}] /\ fetched' \in [Fetches -> Seq(Events)]
    BY <1>2 DEF FetchTyped
  <2> QED
    BY <1>2, <1>3, <2>1 DEF FetchTyped
<1>5. \A g \in Fetches : AllFit(H, revision, fetched'[g])
  <2>1. AllFit(H, revision, <<>>)
    BY DEF AllFit
  <2> QED
    BY <1>1, <1>3, <2>1 DEF History
<1>6. /\ \A a \in Actors : AllFit(H, revision, outbox'[a])
      /\ AllFit(H, revision, channel'[Stream]) /\ AllFit(H, revision, snapshot'[Stream])
  BY <1>1, <1>2 DEF History
<1>7. History(H)' /\ (UNCHANGED <<viewVars, stepwise>> => Followed(H)')
  BY <1>1, <1>2, <1>5, <1>6, SameAccount
<1>8. Followed(H)' /\ ViewTyped'
  <2>1. CASE UNCHANGED <<viewVars, stepwise>>
    BY <1>2, <1>7, <2>1 DEF ViewTyped, viewVars
  <2>2. CASE ApplySnapshot(fetched[f][1])
    <3>1. fetched[f] \in Seq(Events) /\ Len(fetched[f]) = 1 /\ fetched[f][1].kind = "snapshot"
      BY <1>2 DEF FetchTyped
    <3>2. fetched[f][1] \in Events /\ Fits(H, revision, fetched[f][1])
      BY <1>1, <3>1 DEF History, AllFit
    <3>3. revision' = revision
      BY <1>2 DEF stateVars
    <3> QED
      BY <1>2, <2>2, <3>1, <3>2, <3>3, SnapshotFollowed
  <2> QED
    BY <2>1, <2>2 DEF FetchReturns
<1> QED
  BY <1>4, <1>7, <1>8

-----------------------------------------------------------------------------
(* The theorem.                                                            *)

(* A step of the controller, seen from the page.                           *)
LEMMA ControllerStepKeeps ==
    ASSUME PageInv, TypeOK', NextButReceive, UNCHANGED pageVars
    PROVE  \E H : History(H)' /\ Followed(H)'
<1>0. IInv /\ Typed
  BY DEF PageInv, IInv
<1>1. ASSUME UNCHANGED stateVars, UNCHANGED <<outbox, channel, snapshot>>
      PROVE  \E H : History(H)' /\ Followed(H)'
  <2>1. PICK H : History(H) /\ Followed(H)
    BY DEF PageInv
  <2>2. /\ \A a \in Actors : AllFit(H, revision, outbox'[a])
        /\ AllFit(H, revision, channel'[Stream]) /\ AllFit(H, revision, snapshot'[Stream])
    BY <1>1, <2>1 DEF History
  <2>3. UNCHANGED <<fetchAt, fetched>> /\ UNCHANGED <<viewVars, stepwise>>
    BY DEF pageVars
  <2> QED
    BY <1>1, <2>1, <2>2, <2>3, SameAccount
<1>2. ASSUME NEW a \in Actors, Advances(a), UNCHANGED <<channel, snapshot>>
      PROVE  \E H : History(H)' /\ Followed(H)'
  BY <1>2, AdvanceKeeps
<1>3. ASSUME NEW s \in Subscribers, SubscribeChecks(s) \/ SubscribeStep(s) \/ Cancel(s)
      PROVE  \E H : History(H)' /\ Followed(H)'
  <2>1. CASE MarkStale(s)
    <3>1. s \in Actors /\ Quiet(s) /\ UNCHANGED <<channel, snapshot>>
      BY <2>1 DEF Actors, MarkStale, SubGoes, subsVars
    <3>2. CASE SetStale(s, TRUE)
      <4>1. \E value \in BOOLEAN : SetStale(s, value)
        BY <3>2, Zenon
      <4> QED
        BY <1>0, <1>2, <3>1, <4>1, SectionAdvances
    <3>3. CASE UNCHANGED <<stateVars, outbox>>
      BY <1>1, <3>1, <3>3
    <3> QED
      BY <2>1, <3>2, <3>3 DEF MarkStale
  <2>2. CASE TakeSnapshot(s)
    BY <2>2, TakeSnapshotSameAccount
  <2>3. CASE DeliverSnapshot(s)
    BY <2>3, DeliverSameAccount
  <2>4. CASE SubscribeChecks(s) \/ Register(s) \/ WakePoller(s) \/ Cancel(s)
    <3>1. UNCHANGED stateVars /\ UNCHANGED <<outbox, channel, snapshot>>
      BY <2>4 DEF SubscribeChecks, Register, WakePoller, Cancel, subsVars
    <3> QED
      BY <1>1, <3>1
  <2> QED
    BY <1>3, <2>1, <2>2, <2>3, <2>4 DEF SubscribeStep
<1>4. ASSUME NEW x \in Executes, ExecuteChecks(x) \/ ExecuteStep(x)
      PROVE  \E H : History(H)' /\ Followed(H)'
  <2>1. CASE ExecuteRecords(x)
    <3>1. x \in Actors /\ Quiet(x) /\ UNCHANGED <<channel, snapshot>>
      BY <2>1 DEF Actors, ExecuteRecords, ExecuteGoes, subsVars
    <3>2. RecordConnected(x) \/ RecordDisconnected(x)
      BY <2>1 DEF ExecuteRecords
    <3> QED
      BY <1>0, <1>2, <3>1, <3>2, SectionAdvances
  <2>2. CASE ExecuteChecks(x) \/ CommandReturns(x) \/ RequestRefresh(x)
    <3>1. UNCHANGED stateVars /\ UNCHANGED <<outbox, channel, snapshot>>
      BY <2>2 DEF ExecuteChecks, CommandReturns, RequestRefresh, subsVars
    <3> QED
      BY <1>1, <3>1
  <2> QED
    BY <1>4, <2>1, <2>2 DEF ExecuteStep
<1>5. CASE SweepNext \/ PollRecords \/ PollUpdates
  <2>1. Poller \in Actors /\ Quiet(Poller) /\ UNCHANGED <<channel, snapshot>>
    BY <1>5 DEF Actors, SweepNext, PollRecords, PollUpdates, Polls, subsVars, callVars
  <2>2. CASE \/ \E value \in BOOLEAN : SetStale(Poller, value)
             \/ RecordConnected(Poller) \/ RecordDisconnected(Poller)
    BY <1>0, <1>2, <2>1, <2>2, SectionAdvances
  <2>3. CASE UNCHANGED <<stateVars, outbox>>
    BY <1>1, <2>1, <2>3
  <2>4. CASE PollUpdates
    <3>1. module \in Addresses /\ \A d \in DevicesOf(module) : reading[d] \in Power
      BY <1>0, <2>4 DEF PollUpdates, Polls, IInv, Sweeping, AtModule
    <3>2. UpdateModuleState(Poller, module)
      BY <2>4 DEF PollUpdates
    <3> QED
      BY <1>0, <1>2, <2>1, <3>1, <3>2, UpdateAdvances
  <2>5. SetStale(Poller, FALSE) => \E value \in BOOLEAN : SetStale(Poller, value)
    BY Zenon
  <2> QED
    BY <1>5, <2>2, <2>3, <2>4, <2>5 DEF SweepNext, PollRecords
<1>6. CASE HandleWake \/ ModuleAnswers \/ ModuleFails \/ ModuleCancelled \/ PollBranch
  <2>1. UNCHANGED stateVars /\ UNCHANGED <<outbox, channel, snapshot>>
    BY <1>6 DEF HandleWake, ModuleAnswers, ModuleFails, ModuleCancelled, PollBranch,
       PollerExits, TakeWake, PollTimer, GraceTimer, HealthTimer, TakeRefresh, PollerOnly,
       subsVars, callVars
  <2> QED
    BY <1>1, <2>1
<1>7. ASSUME NEW a \in Actors, Publish(a) PROVE \E H : History(H)' /\ Followed(H)'
  BY <1>7, PublishSameAccount
<1>8. CASE CloseStops \/ CloseStep \/ \E d \in Devices : SwitchByHand(d)
  <2>1. UNCHANGED stateVars /\ UNCHANGED <<outbox, channel, snapshot>>
    BY <1>8 DEF CloseStops, CloseStep, CloseCancels, CloseCuts, SwitchByHand, subsVars, callVars
  <2> QED
    BY <1>1, <2>1
<1> QED
  BY <1>3, <1>4, <1>5, <1>6, <1>7, <1>8 DEF NextButReceive, PollStep

LEMMA PageInitHolds == Init /\ PageInit => PageInv
<1> SUFFICES ASSUME Init, PageInit PROVE PageInv
  OBVIOUS
<1>1. IInv
  BY InitHolds
<1>2. ViewTyped /\ FetchTyped
  <2>1. /\ lastRevision \in Nat /\ deviceStates \in [Devices -> DeviceState]
        /\ stepwise \in BOOLEAN
    BY DEF PageInit, DeviceState
  <2>2. connectionState \in [status : Connections, stale : BOOLEAN]
    BY DEF PageInit, Connections
  <2>3. FetchTyped
    <3>1. <<>> \in Seq(Events) /\ "free" \in {"free", "asked", "answered"} /\ "free" # "answered"
      OBVIOUS
    <3> QED
      BY <3>1 DEF PageInit, FetchTyped
  <2> QED
    BY <2>1, <2>2, <2>3 DEF ViewTyped
<1>3. PICK H : H = [i \in {0} |-> Now]
  OBVIOUS
<1>4. History(H)
  <2>1. AllFit(H, revision, <<>>)
    BY DEF AllFit
  <2>2. H[revision] = Now
    BY <1>3 DEF Init
  <2> QED
    BY <2>1, <2>2, StreamAssumption DEF History, Init, PageInit
<1>5. Followed(H)
  BY DEF Followed, PageInit
<1> QED
  BY <1>1, <1>2, <1>4, <1>5 DEF PageInv

LEMMA PageStepIsNext == PageNext => Next \/ UNCHANGED vars
<1> SUFFICES ASSUME PageNext PROVE Next \/ UNCHANGED vars
  OBVIOUS
<1>1. PageReceives => \E s \in Subscribers : Receive(s)
  BY StreamAssumption DEF PageReceives
<1>2. \A f \in Fetches : StateAPI(f) \/ FetchReturns(f) => UNCHANGED vars
  BY DEF StateAPI, FetchReturns
<1> QED
  BY <1>1, <1>2 DEF PageNext, Next

LEMMA PageStepKeeps == PageInv /\ [PageNext]_pageAndVars => PageInv'
<1> SUFFICES ASSUME PageInv, [PageNext]_pageAndVars PROVE PageInv'
  OBVIOUS
<1>0. IInv' /\ TypeOK'
  <2>1. [Next]_vars
    BY PageStepIsNext DEF pageAndVars
  <2>2. IInv'
    BY <2>1, StepKeeps DEF PageInv
  <2> QED
    BY <2>2, TypedParts DEF IInv
<1>1. ViewTyped /\ FetchTyped
  BY DEF PageInv
<1>2. UNCHANGED pageVars => ViewTyped' /\ FetchTyped'
  BY <1>1 DEF pageVars, viewVars, ViewTyped, FetchTyped
<1>3. CASE NextButReceive /\ UNCHANGED pageVars
  BY <1>0, <1>2, <1>3, ControllerStepKeeps DEF PageInv
<1>4. ASSUME NEW s \in Subscribers \ {Stream}, Receive(s), UNCHANGED pageVars PROVE PageInv'
  <2>1. PICK H : History(H) /\ Followed(H)
    BY DEF PageInv
  <2>2. UNCHANGED fetched /\ UNCHANGED <<viewVars, stepwise>>
    BY <1>4 DEF pageVars
  <2>3. History(H)' /\ Followed(H)'
    BY <1>4, <2>1, <2>2, ReceiveSameAccount
  <2> QED
    BY <1>0, <1>2, <1>4, <2>3 DEF PageInv
<1>5. CASE PageReceives
  BY <1>0, <1>5, ReceivesKeeps DEF PageInv
<1>6. ASSUME NEW f \in Fetches, StateAPI(f) \/ FetchReturns(f) PROVE PageInv'
  BY <1>0, <1>6, StateAPIKeeps, FetchReturnsKeeps DEF PageInv
<1>7. CASE UNCHANGED pageAndVars
  <2>1. PICK H : History(H) /\ Followed(H)
    BY DEF PageInv
  <2>2. UNCHANGED stateVars /\ UNCHANGED <<outbox, channel, snapshot>> /\ UNCHANGED pageVars
    BY <1>7 DEF pageAndVars, vars, subsVars, callVars
  <2>3. UNCHANGED <<fetchAt, fetched>> /\ UNCHANGED <<viewVars, stepwise>>
    BY <2>2 DEF pageVars
  <2>4. /\ \A a \in Actors : AllFit(H, revision, outbox'[a])
        /\ AllFit(H, revision, channel'[Stream]) /\ AllFit(H, revision, snapshot'[Stream])
    BY <2>1, <2>2 DEF History
  <2>5. History(H)' /\ Followed(H)'
    BY <2>1, <2>2, <2>3, <2>4, SameAccount
  <2> QED
    BY <1>0, <1>2, <2>2, <2>5 DEF PageInv
<1> QED
  BY <1>3, <1>4, <1>5, <1>6, <1>7 DEF PageNext

THEOREM PageInvariance == PageSpec => []PageInv
  BY PageInitHolds, PageStepKeeps, PTL DEF PageSpec

(* A page that has followed the stream one revision at a time since its    *)
(* last snapshot, and is at the controller's revision, shows the           *)
(* controller's state, for every number of subscribers, commands and       *)
(* fetches under way and every size of the buffers (events.go:3-85,        *)
(* app.js:68-99, 328-344).                                                 *)
THEOREM StepwisePageIsRight == PageSpec => []StepwiseViewIsRight
<1>1. PageInv => StepwiseViewIsRight
  <2> SUFFICES ASSUME PageInv, stepwise, lastRevision = revision PROVE ViewIsRight
    BY DEF StepwiseViewIsRight
  <2>1. PICK H : History(H) /\ Followed(H)
    BY DEF PageInv
  <2>2. View = Now
    BY <2>1 DEF History, Followed
  <2>3. View.power = deviceStates /\ View.link = connectionState
    BY DEF View
  <2>4. Now.power = states /\ Now.link = [status |-> connection, stale |-> stale]
    BY DEF Now, Shown
  <2> QED
    BY <2>2, <2>3, <2>4 DEF ViewIsRight
<1> QED
  BY <1>1, PageInvariance, PTL

=============================================================================
