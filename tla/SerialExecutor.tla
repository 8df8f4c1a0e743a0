--------------------------- MODULE SerialExecutor ---------------------------
(***************************************************************************)
(* What the scheduler of bridge/internal/controller/scheduler.go promises  *)
(* its callers, without channels, selects or goroutines: operations run    *)
(* one at a time, each at most once, none for a caller already told that   *)
(* its context ended, none after close returned; and a caller hears an     *)
(* operation's result only after that operation ended.                     *)
(***************************************************************************)
CONSTANT Requests

VARIABLES
    open,     \* close has not returned
    running,  \* the operation in progress: a set of at most one request
    ran,      \* requests whose operation was begun
    told      \* told[r]: what the caller of r was told, "none" until then

vars == <<open, running, ran, told>>

OpResults == {"done", "interrupted"}

Init ==
    /\ open = TRUE
    /\ running = {}
    /\ ran = {}
    /\ told = [r \in Requests |-> "none"]

Start(r) ==
    /\ open
    /\ running = {}
    /\ r \notin ran
    /\ told[r] # "ctxErr"
    /\ running' = {r}
    /\ ran' = ran \cup {r}
    /\ UNCHANGED <<open, told>>

Finish(r) ==
    /\ running = {r}
    /\ running' = {}
    /\ UNCHANGED <<open, ran, told>>

Tell(r, a) ==
    /\ told[r] = "none"
    /\ a \in OpResults => r \in ran \ running
    /\ told' = [told EXCEPT ![r] = a]
    /\ UNCHANGED <<open, running, ran>>

Shut ==
    /\ open
    /\ running = {}
    /\ open' = FALSE
    /\ UNCHANGED <<running, ran, told>>

Next ==
    \/ \E r \in Requests :
         \/ Start(r)
         \/ Finish(r)
         \/ \E a \in OpResults \cup {"ctxErr", "stopped"} : Tell(r, a)
    \/ Shut

Spec == Init /\ [][Next]_vars
=============================================================================
