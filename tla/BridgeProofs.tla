---------------------------- MODULE BridgeProofs ----------------------------
(***************************************************************************)
(* Proofs about Bridge for any number of pages, reload requests, projects  *)
(* and controllers.  IInv is the inductive invariant: who holds reloadMu,  *)
(* and what the holder knows of the controllers at each point of a reload. *)
(***************************************************************************)
EXTENDS Bridge, TLAPS

AfterSwap == {"notifying", "stopping", "closing"}
Busy == {"loading", "saving", "building", "swapping"} \cup AfterSwap
Active(i) == controllerAt[i] \in {"running", "stopping"}

-----------------------------------------------------------------------------
(* The inductive invariant, in named parts.                                *)

(* The call of Reload that is past the lock is its holder; the others have *)
(* made no controller.                                                     *)
OneHolder ==
    \A r \in Reloaders : /\ reloadAt[r] \in Busy <=> reloadMu = r
                         /\ reloadMu # r => made[r] = None

(* A process that is not there has no controllers and no reloads.          *)
DownIsClean ==
    phase \in {"down", "failed"} =>
        /\ calling = {} /\ reloadMu = Nobody
        /\ \A r \in Reloaders : reloadAt[r] = "idle"
        /\ \A i \in Instances : controllerAt[i] = "none"

(* What a reload has in its hands at each point of its way, and which      *)
(* calls are made meanwhile.                                               *)
HolderKnows ==
    \A r \in Reloaders : phase = "serving" /\ reloadMu = r =>
        /\ reloadAt[r] \in {"loading", "saving", "building"} =>
             previous[r] = backend /\ made[r] = None
        /\ reloadAt[r] = "swapping" =>
             /\ previous[r] = backend
             /\ made[r] # None /\ made[r] # backend
             /\ controllerAt[made[r]] = "running"
             /\ made[r] \notin calling
        /\ reloadAt[r] \in AfterSwap =>
             made[r] = backend /\ previous[r] \notin {backend, None}
        /\ reloadAt[r] = "closing" =>
             controllerAt[previous[r]] \in {"stopping", "closed"}

IInv == /\ TypeOK /\ OneHolder /\ DownIsClean
        /\ BackendRuns /\ NoControllerLeaks /\ HolderKnows

-----------------------------------------------------------------------------
(* The invariant is inductive.  The leaves below take the assumptions on   *)
(* the constants and the parts of IInv as they are.                        *)
USE ProjectsAssumption, ReloadersAssumption, BoundsAssumption
USE DEF IInv, TypeOK, OneHolder, DownIsClean, BackendRuns, NoControllerLeaks,
        HolderKnows, Busy, AfterSwap, Instances, None, Reloaders, StreamStates,
        procVars, ctrlVars, reloadVars, pageVars, worldVars

LEMMA InitHolds == Init => IInv
  BY DEF Init

(* Starts, crashes, orderly stops, edits of the project (main.go).         *)
LEMMA ProcessKeeps ==
    ASSUME IInv, Start \/ Crash \/ Signal \/ CloseWebsite \/ Exit \/ EditProject
    PROVE  IInv'
<1>1. CASE Start
  BY <1>1 DEF Start
<1>2. CASE Crash
  BY <1>2 DEF Crash, ProcessEnds
<1>3. CASE Signal
  BY <1>3 DEF Signal
<1>4. CASE CloseWebsite
  BY <1>4 DEF CloseWebsite
<1>5. CASE Exit
  BY <1>5 DEF Exit, ProcessEnds
<1>6. CASE EditProject
  BY <1>6 DEF EditProject
<1> QED
  BY <1>1, <1>2, <1>3, <1>4, <1>5, <1>6

(* Calls to the STM, and the end of Close (controller.go).                 *)
LEMMA ControllerKeeps ==
    ASSUME IInv, NEW i \in Instances,
           CallStarts(i) \/ CallEnds(i) \/ ControllerCloses(i)
    PROVE  IInv'
<1>1. CASE CallStarts(i)
  BY <1>1 DEF CallStarts
<1>2. CASE CallEnds(i)
  BY <1>2 DEF CallEnds
<1>3. CASE ControllerCloses(i)
  BY <1>3 DEF ControllerCloses
<1> QED
  BY <1>1, <1>2, <1>3

(* The lock is taken by one call of Reload at a time (server.go:182).      *)
LEMMA AcquireKeeps ==
    ASSUME IInv, NEW r \in Reloaders, AcquireReload(r) PROVE IInv'
<1> USE DEF AcquireReload, ReloadGoes
<1>1. TypeOK'
  OBVIOUS
<1>2. OneHolder'
  OBVIOUS
<1>3. DownIsClean' /\ BackendRuns' /\ NoControllerLeaks'
  OBVIOUS
<1>4. HolderKnows'
  OBVIOUS
<1> QED
  BY <1>1, <1>2, <1>3, <1>4

(* A reload that ends lets go of all it had (server.go:183).               *)
LEMMA FailKeeps ==
    ASSUME IInv, NEW r \in Reloaders, NEW from \in {"loading", "building"},
           FailReload(r, from), UNCHANGED cache
    PROVE  IInv'
<1> USE DEF FailReload, Release, ReloadGoes
<1>1. TypeOK'
  OBVIOUS
<1>2. OneHolder'
  OBVIOUS
<1>3. DownIsClean' /\ BackendRuns'
  OBVIOUS
<1>4. NoControllerLeaks'
  <2> SUFFICES ASSUME phase = "serving", NEW i \in Instances, i # backend,
                      controllerAt[i] \in {"running", "stopping"}
               PROVE  FALSE
    OBVIOUS
  <2>1. reloadMu = r
    OBVIOUS
  <2>2. i \in {made[r], previous[r]}
    BY <2>1
  <2> QED
    BY <2>1, <2>2
<1>5. HolderKnows'
  OBVIOUS
<1> QED
  BY <1>1, <1>2, <1>3, <1>4, <1>5

LEMMA ReturnKeeps ==
    ASSUME IInv, NEW r \in Reloaders, ReloadReturns(r) PROVE IInv'
<1> USE DEF ReloadReturns, Release, ReloadGoes
<1>1. TypeOK'
  OBVIOUS
<1>2. OneHolder'
  OBVIOUS
<1>3. DownIsClean' /\ BackendRuns'
  OBVIOUS
<1>4. NoControllerLeaks'
  <2> SUFFICES ASSUME phase = "serving", NEW i \in Instances, i # backend,
                      controllerAt[i] \in {"running", "stopping"}
               PROVE  FALSE
    OBVIOUS
  <2>1. reloadMu = r
    OBVIOUS
  <2>2. i \in {made[r], previous[r]}
    BY <2>1
  <2> QED
    BY <2>1, <2>2
<1>5. HolderKnows'
  OBVIOUS
<1> QED
  BY <1>1, <1>2, <1>3, <1>4, <1>5

(* The other steps of a reload, from the download to the end of install.   *)
LEMMA ReloadKeeps ==
    ASSUME IInv, NEW r \in Reloaders,
           \/ r \in Requests /\ RequestReload(r)
           \/ ReloadStep(r) \/ LoaderRetries
    PROVE  IInv'
<1> USE DEF ReloadGoes
<1>1. CASE r \in Requests /\ RequestReload(r)
  BY <1>1 DEF RequestReload
<1>2. CASE LoadSucceeds(r)
  BY <1>2 DEF LoadSucceeds
<1>3. CASE LoadFails(r)
  BY <1>3, FailKeeps DEF LoadFails
<1>4. CASE SaveCache(r)
  BY <1>4 DEF SaveCache
<1>5. CASE BuildController(r)
  BY <1>5 DEF BuildController, Free, Referred
<1>6. CASE BuildFails(r)
  BY <1>6, FailKeeps DEF BuildFails
<1>7. CASE Swap(r)
  BY <1>7 DEF Swap
<1>8. CASE NotifyPages(r)
  BY <1>8 DEF NotifyPages
<1>9. CASE StopPrevious(r)
  BY <1>9 DEF StopPrevious
<1>10. CASE ReloadReturns(r)
  BY <1>10, ReturnKeeps
<1>11. CASE LoaderRetries
  BY <1>11 DEF LoaderRetries
<1> QED
  BY <1>1, <1>2, <1>3, <1>4, <1>5, <1>6, <1>7, <1>8, <1>9, <1>10, <1>11
     DEF ReloadStep, LoadEnds

(* A page and its stream disturb nothing but themselves (events.go).       *)
LEMMA PageKeeps ==
    ASSUME IInv, NEW p \in Pages,
           RenderPage(p) \/ OpenStream(p) \/ StreamStep(p) \/ LeavePage(p)
    PROVE  IInv'
<1> USE DEF PageGoes, NoReload
<1>1. CASE RenderPage(p)
  BY <1>1 DEF RenderPage
<1>2. CASE OpenStream(p)
  BY <1>2 DEF OpenStream
<1>3. CASE SubscribeStream(p)
  <2>1. CASE pageAt' = [pageAt EXCEPT ![p] = "subscribed"] /\ UNCHANGED streamOn
    BY <1>3, <2>1 DEF SubscribeStream
  <2>2. CASE /\ pageAt' = [pageAt EXCEPT ![p] = "dead"]
             /\ streamOn' = [streamOn EXCEPT ![p] = None]
    BY <1>3, <2>2 DEF SubscribeStream
  <2> QED
    BY <1>3, <2>1, <2>2 DEF SubscribeStream
<1>4. CASE RegisterNotifier(p)
  BY <1>4 DEF RegisterNotifier
<1>5. CASE TakeNotice(p)
  BY <1>5 DEF TakeNotice
<1>6. CASE StreamEnds(p)
  BY <1>6 DEF StreamEnds
<1>7. CASE LeavePage(p)
  BY <1>7 DEF LeavePage
<1> QED
  BY <1>1, <1>2, <1>3, <1>4, <1>5, <1>6, <1>7 DEF StreamStep

LEMMA StepKeeps == ASSUME IInv, [Next]_vars PROVE IInv'
<1>1. CASE UNCHANGED vars
  BY <1>1 DEF vars
<1>2. CASE Next
  BY <1>2, ProcessKeeps, ControllerKeeps, AcquireKeeps, ReloadKeeps, PageKeeps
     DEF Next
<1> QED
  BY <1>1, <1>2

LEMMA Invariance == Spec => []IInv
<1>1. Init => IInv
  BY InitHolds
<1>2. IInv /\ [Next]_vars => IInv'
  BY StepKeeps
<1> QED
  BY <1>1, <1>2, PTL DEF Spec

-----------------------------------------------------------------------------
(* The theorems.                                                           *)

(* The variables keep their types, for any number of pages, requests and   *)
(* controllers.                                                            *)
THEOREM TypeCorrect == Spec => []TypeOK
<1>1. IInv => TypeOK
  OBVIOUS
<1> QED
  BY <1>1, Invariance, PTL

(* A handler of the web server never gets a controller that is stopping    *)
(* (server.go:197-203).                                                    *)
THEOREM HandlersGetARunningController == Spec => []BackendRuns
<1>1. IInv => BackendRuns
  OBVIOUS
<1> QED
  BY <1>1, Invariance, PTL

(* However many reloads overlap or fail, no controller stays behind        *)
(* (server.go:178-203).                                                    *)
THEOREM ReloadsLeaveNothingBehind == Spec => []NoControllerLeaks
<1>1. IInv => NoControllerLeaks
  OBVIOUS
<1> QED
  BY <1>1, Invariance, PTL

(* Only an install after its swap has two controllers call the STM at a    *)
(* time (server.go:197-203).                                               *)
THEOREM BoundedOverlap == Spec => []OverlapOnlyWhileInstalling
<1>1. ASSUME IInv PROVE OverlapOnlyWhileInstalling
  <2> SUFFICES ASSUME phase = "serving",
                      NEW i \in calling, NEW j \in calling, i # j
               PROVE  /\ reloadMu # Nobody
                      /\ reloadAt[reloadMu] \in AfterSwap
                      /\ {i, j} = {backend, previous[reloadMu]}
    BY DEF OverlapOnlyWhileInstalling
  <2>1. Active(i) /\ Active(j) /\ i \in Instances /\ j \in Instances
    BY <1>1 DEF Active
  <2>2. reloadMu \in Reloaders
    BY <1>1, <2>1 DEF Active
  <2>3. reloadAt[reloadMu] \in AfterSwap
    BY <1>1, <2>1, <2>2 DEF Active
  <2>4. made[reloadMu] = backend
    BY <1>1, <2>2, <2>3
  <2>5. i \in {backend, previous[reloadMu]} /\ j \in {backend, previous[reloadMu]}
    BY <1>1, <2>1, <2>4 DEF Active
  <2> QED
    BY <2>2, <2>3, <2>5
<1> QED
  BY <1>1, Invariance, PTL
=============================================================================
