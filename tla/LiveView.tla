------------------------------ MODULE LiveView ------------------------------
(***************************************************************************)
(* One open page of the web interface (web/static/app.js) on top of the    *)
(* controller whose event stream it reads: the snapshot and the deltas it  *)
(* applies, the revision gap test, and the snapshots it fetches when it    *)
(* finds a gap.  Events travel from a subscriber's channel through the SSE *)
(* handler (web/events.go:40-68) to the page in order, so the channel      *)
(* stands for the whole way.  Fetches are answered in any order.           *)
(***************************************************************************)
EXTENDS Controller

CONSTANTS
    Stream,   \* the Subscribe call behind the page's EventSource
    Fetches   \* bound: slots for GET /api/v1/state in flight

ASSUME StreamAssumption == Stream \in Subscribers

VARIABLES
    lastRevision,     \* app.js:27, 0 until the first snapshot
    deviceStates,     \* app.js:33
    connectionState,  \* app.js:34
    fetchAt, fetched, \* refreshSnapshot: where each fetch stands
    stepwise          \* history: since the last snapshot the revision went
                      \* up one by one

viewVars == <<lastRevision, deviceStates, connectionState>>
pageVars == <<viewVars, fetchAt, fetched, stepwise>>
pageAndVars == <<vars, pageVars>>

PageInit ==
    /\ lastRevision = 0
    /\ deviceStates = [d \in Devices |-> "unknown"]
    /\ connectionState = [status |-> "disconnected", stale |-> TRUE]
    /\ fetchAt = [f \in Fetches |-> "free"]
    /\ fetched = [f \in Fetches |-> <<>>]
    /\ stepwise = FALSE

-----------------------------------------------------------------------------
(* applySnapshot, app.js:68-77: whatever its revision, it replaces the     *)
(* view.                                                                   *)
ApplySnapshot(snap) ==
    /\ lastRevision' = snap.revision
    /\ deviceStates' = snap.states
    /\ connectionState' = [status |-> snap.connection, stale |-> snap.stale]
    /\ stepwise' = TRUE

(* updateRevision's test, app.js:93: a page at revision 0 sees no gap.     *)
Gap(rev) == lastRevision # 0 /\ rev > lastRevision + 1

RefreshSnapshot ==
    \E f \in Fetches :
        /\ fetchAt[f] = "free"
        /\ fetchAt' = [fetchAt EXCEPT ![f] = "asked"]

(* The delta's content, app.js:331-344.                                    *)
ApplyDelta(event) ==
    \/ /\ event.kind = "state"
       /\ deviceStates' = [deviceStates EXCEPT ![event.device] = event.power]
       /\ UNCHANGED connectionState
    \/ /\ event.kind = "connection"
       /\ connectionState' = [status |-> event.connection, stale |-> event.stale]
       /\ UNCHANGED deviceStates

(* A delta of a revision that is not too new is applied, also one that is  *)
(* older than the view.                                                    *)
OnDelta(event) ==
    \/ /\ Gap(event.revision)
       /\ RefreshSnapshot
       /\ UNCHANGED <<viewVars, stepwise>>
    \/ /\ ~Gap(event.revision)
       /\ ApplyDelta(event)
       /\ lastRevision' = IF event.revision > lastRevision THEN event.revision
                                                          ELSE lastRevision
       /\ stepwise' = (stepwise /\ event.revision = lastRevision + 1)
       /\ UNCHANGED fetchAt

(* The next event of the stream reaches the page.                          *)
PageReceives ==
    /\ Receive(Stream)
    /\ LET event == Head(channel[Stream]) IN
       \/ /\ event.kind = "snapshot"
          /\ ApplySnapshot(event)
          /\ UNCHANGED fetchAt
       \/ /\ event.kind # "snapshot"
          /\ OnDelta(event)
    /\ UNCHANGED fetched

(* stateAPI reads the controller (web/api.go:63-68).                       *)
StateAPI(f) ==
    /\ fetchAt[f] = "asked"
    /\ fetchAt' = [fetchAt EXCEPT ![f] = "answered"]
    /\ fetched' = [fetched EXCEPT ![f] = <<Snapshot>>]
    /\ UNCHANGED <<vars, viewVars, stepwise>>

(* The answer reaches the page, or is lost with its connection.            *)
FetchReturns(f) ==
    /\ fetchAt[f] = "answered"
    /\ fetchAt' = [fetchAt EXCEPT ![f] = "free"]
    /\ fetched' = [fetched EXCEPT ![f] = <<>>]
    /\ \/ ApplySnapshot(fetched[f][1])
       \/ UNCHANGED <<viewVars, stepwise>>
    /\ UNCHANGED vars

-----------------------------------------------------------------------------
PageNext ==
    \/ NextButReceive /\ UNCHANGED pageVars
    \/ \E s \in Subscribers \ {Stream} : Receive(s) /\ UNCHANGED pageVars
    \/ PageReceives
    \/ \E f \in Fetches : StateAPI(f) \/ FetchReturns(f)

PageSpec == Init /\ PageInit /\ [][PageNext]_pageAndVars

-----------------------------------------------------------------------------
(* Properties.                                                             *)

ViewIsRight ==
    /\ deviceStates = states
    /\ connectionState = [status |-> connection, stale |-> stale]

(* A view that has followed the stream one revision at a time since its    *)
(* last snapshot, and is at the controller's revision, shows exactly the   *)
(* controller's state: snapshots and deltas leave nothing out              *)
(* (events.go:3-85, app.js:68-99, 328-344).                                *)
StepwiseViewIsRight == stepwise /\ lastRevision = revision => ViewIsRight

(* Nothing is on its way to the page.                                      *)
NothingOnItsWay ==
    /\ subAt[Stream] = "live"
    /\ Stream \in subscribers
    /\ channel[Stream] = <<>>
    /\ \A a \in Actors : Quiet(a)
    /\ \A f \in Fetches : fetchAt[f] = "free"

(* app.js:31-32: the view is the authoritative live state, kept current by *)
(* SSE: at the controller's revision it shows the controller's state.      *)
CurrentViewIsRight ==
    NothingOnItsWay /\ lastRevision = revision => ViewIsRight
=============================================================================
