----------------------------- MODULE Scheduler -----------------------------
(***************************************************************************)
(* bridge/internal/controller/scheduler.go: the single goroutine that owns *)
(* every STM call of one controller, the two bounded channels that feed it *)
(* (commands before background work), the callers blocked in submit, and   *)
(* close.                                                                  *)
(*                                                                         *)
(* A request is one call of command() or poll().  A Go select is one step  *)
(* that takes any ready branch, so a caller whose result and whose context *)
(* are both ready may report either of them, as in the program.            *)
(*                                                                         *)
(* An operator under a comment that begins with BUG is part of no          *)
(* specification: it is the definition after it with a mistake in it, and  *)
(* shows that a property below would notice the mistake.                   *)
(***************************************************************************)
EXTENDS Naturals, Sequences, FiniteSets

CONSTANTS
    Commands,       \* submissions made through command()
    Polls,          \* submissions made through poll()
    QueueDepth,     \* capacity of each of the two channels
    NoRequest       \* "the loop holds no request"

ASSUME DisjointRequests == Commands \cap Polls = {}
ASSUME DepthAssumption == QueueDepth \in Nat \ {0}
ASSUME NoRequestAssumption == NoRequest \notin Commands \cup Polls

Requests == Commands \cup Polls

(* What an operation returns: success, an error of its own, or the error   *)
(* of a call that its cancelled context interrupted.                       *)
OpResults == {"done", "interrupted"}

(* What a caller is told: an operation's result, its own context's error   *)
(* or ErrSchedulerStopped.                                                 *)
Answers == OpResults \cup {"ctxErr", "stopped"}

VARIABLES
    caller,      \* caller[r]: where the goroutine inside submit stands
    answer,      \* answer[r]: what submit returned
    ctxDone,     \* ctxDone[r]: request.ctx is cancelled or past its deadline
    commands,    \* the buffered channel of commands
    background,  \* the buffered channel of background operations
    result,      \* result[r]: the one-slot result channel of the request
    loop,        \* where run() stands
    current,     \* the request run() has taken
    stopped,     \* s.ctx is done
    afterFired,  \* the AfterFunc(s.ctx, cancel) of the running operation ran
    closer,      \* where the caller of close() stands
    \* History, read by no action: what the properties speak about.
    started,         \* requests whose operation was begun
    overtaken,       \* overtaken[c]: polls picked while c waited in commands
    startsAfterStop  \* operations begun after s.ctx was done

callerVars  == <<caller, answer>>
loopVars    == <<loop, current, afterFired>>
historyVars == <<started, overtaken, startsAfterStop>>
vars == <<caller, answer, ctxDone, commands, background, result, loop,
          current, stopped, afterFired, closer, started, overtaken,
          startsAfterStop>>

InChannel(r, channel) == \E i \in 1..Len(channel) : channel[i] = r

TypeOK ==
    /\ caller \in [Requests -> {"idle", "enqueuing", "waiting", "returned"}]
    /\ answer \in [Requests -> Answers \cup {"none"}]
    /\ ctxDone \in [Requests -> BOOLEAN]
    /\ commands \in Seq(Commands)
    /\ background \in Seq(Polls)
    /\ result \in [Requests -> Answers \cup {"none"}]
    /\ loop \in {"stopCheck", "commandCheck", "select", "ctxCheck",
                 "running", "drain", "exited"}
    /\ current \in Requests \cup {NoRequest}
    /\ stopped \in BOOLEAN
    /\ afterFired \in BOOLEAN
    /\ closer \in {"open", "waiting", "closed"}
    /\ started \subseteq Requests
    /\ overtaken \in [Commands -> Nat]
    /\ startsAfterStop \in Nat

Init ==
    /\ caller = [r \in Requests |-> "idle"]
    /\ answer = [r \in Requests |-> "none"]
    /\ ctxDone = [r \in Requests |-> FALSE]
    /\ commands = <<>>
    /\ background = <<>>
    /\ result = [r \in Requests |-> "none"]
    /\ loop = "stopCheck"
    /\ current = NoRequest
    /\ stopped = FALSE
    /\ afterFired = FALSE
    /\ closer = "open"
    /\ started = {}
    /\ overtaken = [c \in Commands |-> 0]
    /\ startsAfterStop = 0

-----------------------------------------------------------------------------
(* submit: the caller's side.                                              *)

(* A goroutine calls command() or poll() and reaches the first select.     *)
Submit(r) ==
    /\ caller[r] = "idle"
    /\ caller' = [caller EXCEPT ![r] = "enqueuing"]
    /\ UNCHANGED <<answer, ctxDone, commands, background, result, loopVars,
                   stopped, closer, historyVars>>

(* BUG: command and poll hand submit each other's channel.                 *)
EnqueueSwapped(r) ==
    /\ caller[r] = "enqueuing"
    /\ \/ /\ r \in Polls
          /\ Len(commands) < QueueDepth
          /\ commands' = Append(commands, r)
          /\ UNCHANGED background
       \/ /\ r \in Commands
          /\ Len(background) < QueueDepth
          /\ background' = Append(background, r)
          /\ UNCHANGED commands
    /\ caller' = [caller EXCEPT ![r] = "waiting"]
    /\ UNCHANGED <<answer, ctxDone, result, loopVars, stopped, closer,
                   historyVars>>

(* The first select's send branch: ready while the channel has room.       *)
Enqueue(r) ==
    /\ caller[r] = "enqueuing"
    /\ \/ /\ r \in Commands
          /\ Len(commands) < QueueDepth
          /\ commands' = Append(commands, r)
          /\ UNCHANGED background
       \/ /\ r \in Polls
          /\ Len(background) < QueueDepth
          /\ background' = Append(background, r)
          /\ UNCHANGED commands
    /\ caller' = [caller EXCEPT ![r] = "waiting"]
    /\ UNCHANGED <<answer, ctxDone, result, loopVars, stopped, closer,
                   historyVars>>

Return(r, a) ==
    /\ caller' = [caller EXCEPT ![r] = "returned"]
    /\ answer' = [answer EXCEPT ![r] = a]

(* Either select's ctx.Done branch: the request, if it was queued, stays   *)
(* behind in its channel.                                                  *)
GiveUp(r) ==
    /\ caller[r] \in {"enqueuing", "waiting"}
    /\ ctxDone[r]
    /\ Return(r, "ctxErr")
    /\ UNCHANGED <<ctxDone, commands, background, result, loopVars, stopped,
                   closer, historyVars>>

(* BUG: only the first select watches s.ctx.                               *)
ReturnStoppedEnqueuing(r) ==
    /\ caller[r] = "enqueuing"
    /\ stopped
    /\ Return(r, "stopped")
    /\ UNCHANGED <<ctxDone, commands, background, result, loopVars, stopped,
                   closer, historyVars>>

(* Either select's s.ctx.Done branch.                                      *)
ReturnStopped(r) ==
    /\ caller[r] \in {"enqueuing", "waiting"}
    /\ stopped
    /\ Return(r, "stopped")
    /\ UNCHANGED <<ctxDone, commands, background, result, loopVars, stopped,
                   closer, historyVars>>

(* The second select's result branch.                                      *)
ReceiveResult(r) ==
    /\ caller[r] = "waiting"
    /\ result[r] # "none"
    /\ Return(r, result[r])
    /\ result' = [result EXCEPT ![r] = "none"]
    /\ UNCHANGED <<ctxDone, commands, background, loopVars, stopped, closer,
                   historyVars>>

Held(r) == r = current \/ InChannel(r, commands) \/ InChannel(r, background)

(* The caller's context ends: the browser leaves, OperationTimeout passes, *)
(* the controller closes, or the deferred cancel of a caller that returned *)
(* while the loop still holds or will take its request.                    *)
CtxDone(r) ==
    /\ ~ctxDone[r]
    /\ caller[r] \in {"enqueuing", "waiting"} \/ Held(r)
    /\ ctxDone' = [ctxDone EXCEPT ![r] = TRUE]
    /\ UNCHANGED <<callerVars, commands, background, result, loopVars,
                   stopped, closer, historyVars>>

-----------------------------------------------------------------------------
(* run and next: the scheduler goroutine.                                  *)

(* BUG: next does not look at s.ctx first.                                 *)
StopCheckSkipped ==
    /\ loop = "stopCheck"
    /\ loop' = "commandCheck"
    /\ UNCHANGED <<callerVars, ctxDone, commands, background, result,
                   current, stopped, afterFired, closer, historyVars>>

(* next's first select: a stopped scheduler takes nothing more.            *)
StopCheck ==
    /\ loop = "stopCheck"
    /\ loop' = IF stopped THEN "drain" ELSE "commandCheck"
    /\ UNCHANGED <<callerVars, ctxDone, commands, background, result,
                   current, stopped, afterFired, closer, historyVars>>

TakeCommand ==
    /\ commands # <<>>
    /\ current' = Head(commands)
    /\ commands' = Tail(commands)
    /\ loop' = "ctxCheck"
    /\ UNCHANGED <<background, overtaken>>

TakeBackground ==
    /\ background # <<>>
    /\ current' = Head(background)
    /\ background' = Tail(background)
    /\ loop' = "ctxCheck"
    /\ overtaken' = [c \in Commands |->
                       IF InChannel(c, commands) THEN overtaken[c] + 1
                                                 ELSE overtaken[c]]
    /\ UNCHANGED commands

(* BUG: next goes straight to its third select.                            *)
CommandCheckSkipped ==
    /\ loop = "commandCheck"
    /\ loop' = "select"
    /\ UNCHANGED <<callerVars, ctxDone, commands, background, result,
                   current, stopped, afterFired, closer, historyVars>>

(* next's second select: a command already queued goes first.              *)
CommandCheck ==
    /\ loop = "commandCheck"
    /\ \/ TakeCommand
       \/ /\ commands = <<>>
          /\ loop' = "select"
          /\ UNCHANGED <<commands, background, current, overtaken>>
    /\ UNCHANGED <<callerVars, ctxDone, result, stopped, afterFired, closer,
                   started, startsAfterStop>>

(* BUG: the blocking select has no s.ctx branch.                           *)
SelectDeaf ==
    /\ loop = "select"
    /\ TakeCommand \/ TakeBackground
    /\ UNCHANGED <<callerVars, ctxDone, result, stopped, afterFired, closer,
                   started, startsAfterStop>>

(* next's third select: blocks until a branch is ready, then takes any     *)
(* ready one -- a command that arrived after CommandCheck has no priority, *)
(* and neither has the stop.                                               *)
Select ==
    /\ loop = "select"
    /\ \/ TakeCommand
       \/ TakeBackground
       \/ /\ stopped
          /\ loop' = "drain"
          /\ UNCHANGED <<commands, background, current, overtaken>>
    /\ UNCHANGED <<callerVars, ctxDone, result, stopped, afterFired, closer,
                   started, startsAfterStop>>

(* The one-slot result channel: the send would block the loop for ever if  *)
(* the slot were taken.                                                    *)
Deliver(r, a) ==
    /\ result[r] = "none"
    /\ result' = [result EXCEPT ![r] = a]

(* BUG: the cancelled request is answered, and run anyway.                 *)
CtxCheckNoContinue ==
    /\ loop = "ctxCheck"
    /\ IF ctxDone[current] THEN Deliver(current, "ctxErr")
                           ELSE UNCHANGED result
    /\ loop' = "running"
    /\ afterFired' = FALSE
    /\ started' = started \cup {current}
    /\ startsAfterStop' = startsAfterStop + (IF stopped THEN 1 ELSE 0)
    /\ UNCHANGED <<callerVars, ctxDone, commands, background, current,
                   stopped, closer, overtaken>>

(* BUG: the request's context is not looked at before it is run.           *)
CtxCheckMissing ==
    /\ loop = "ctxCheck"
    /\ loop' = "running"
    /\ afterFired' = FALSE
    /\ started' = started \cup {current}
    /\ startsAfterStop' = startsAfterStop + (IF stopped THEN 1 ELSE 0)
    /\ UNCHANGED <<callerVars, ctxDone, commands, background, result,
                   current, stopped, closer, overtaken>>

(* run: a request whose context is already done is answered, not run.      *)
CtxCheck ==
    /\ loop = "ctxCheck"
    /\ \/ /\ ctxDone[current]
          /\ Deliver(current, "ctxErr")
          /\ loop' = "stopCheck"
          /\ current' = NoRequest
          /\ UNCHANGED <<afterFired, started, startsAfterStop>>
       \/ /\ ~ctxDone[current]
          /\ loop' = "running"
          /\ afterFired' = FALSE
          /\ started' = started \cup {current}
          /\ startsAfterStop' = startsAfterStop + (IF stopped THEN 1 ELSE 0)
          /\ UNCHANGED <<result, current>>
    /\ UNCHANGED <<callerVars, ctxDone, commands, background, stopped,
                   closer, overtaken>>

(* context.AfterFunc runs the cancel in a goroutine of its own.            *)
AfterFunc ==
    /\ loop = "running"
    /\ stopped
    /\ ~afterFired
    /\ afterFired' = TRUE
    /\ UNCHANGED <<callerVars, ctxDone, commands, background, result, loop,
                   current, stopped, closer, historyVars>>

(* The operation returns and its result is sent.  A call is interrupted    *)
(* only by its own context: the request's, or the AfterFunc's cancel.      *)
Finish ==
    /\ loop = "running"
    /\ \E a \in OpResults :
         /\ a = "interrupted" => ctxDone[current] \/ afterFired
         /\ Deliver(current, a)
    /\ loop' = "stopCheck"
    /\ current' = NoRequest
    /\ UNCHANGED <<callerVars, ctxDone, commands, background, stopped,
                   afterFired, closer, historyVars>>

(* drain: every request still queued is refused; then run() returns and    *)
(* its deferred close(s.done) releases close().                            *)
Drain ==
    /\ loop = "drain"
    /\ \/ /\ commands # <<>>
          /\ Deliver(Head(commands), "stopped")
          /\ commands' = Tail(commands)
          /\ UNCHANGED <<background, loop>>
       \/ /\ background # <<>>
          /\ Deliver(Head(background), "stopped")
          /\ background' = Tail(background)
          /\ UNCHANGED <<commands, loop>>
       \/ /\ commands = <<>>
          /\ background = <<>>
          /\ loop' = "exited"
          /\ UNCHANGED <<commands, background, result>>
    /\ UNCHANGED <<callerVars, ctxDone, current, stopped, afterFired, closer,
                   historyVars>>

-----------------------------------------------------------------------------
(* close: cancels s.ctx, then waits for run() to return.                   *)

Close ==
    /\ closer = "open"
    /\ closer' = "waiting"
    /\ stopped' = TRUE
    /\ UNCHANGED <<callerVars, ctxDone, commands, background, result,
                   loopVars, historyVars>>

(* BUG: close does not wait for the loop.                                  *)
CloseReturnsEarly ==
    /\ closer = "waiting"
    /\ closer' = "closed"
    /\ UNCHANGED <<callerVars, ctxDone, commands, background, result,
                   loopVars, stopped, historyVars>>

CloseReturns ==
    /\ closer = "waiting"
    /\ loop = "exited"
    /\ closer' = "closed"
    /\ UNCHANGED <<callerVars, ctxDone, commands, background, result,
                   loopVars, stopped, historyVars>>

-----------------------------------------------------------------------------
SubmitReturns(r) == GiveUp(r) \/ ReturnStopped(r) \/ ReceiveResult(r)

Run == \/ StopCheck \/ CommandCheck \/ Select \/ CtxCheck \/ Finish \/ Drain

Next ==
    \/ \E r \in Requests : \/ Submit(r) \/ Enqueue(r) \/ GiveUp(r)
                           \/ ReturnStopped(r) \/ ReceiveResult(r)
                           \/ CtxDone(r)
    \/ StopCheck \/ CommandCheck \/ Select \/ CtxCheck \/ AfterFunc
    \/ Finish \/ Drain
    \/ Close \/ CloseReturns

Spec == Init /\ [][Next]_vars

(* Goroutines that can run do run, and an STM call ends: the HTTP client   *)
(* of stm.NewClient carries a 10 s timeout of its own.  Nothing is assumed *)
(* of the contexts, nor that anybody submits or closes.                    *)
Fairness ==
    /\ \A r \in Requests : WF_vars(Enqueue(r)) /\ WF_vars(SubmitReturns(r))
    /\ WF_vars(Run)
    /\ WF_vars(AfterFunc)
    /\ WF_vars(CloseReturns)

FairSpec == Spec /\ Fairness
-----------------------------------------------------------------------------
(* Properties.                                                             *)

(* A request the loop holds or will take has an empty result slot, so the  *)
(* loop's send on the one-slot channel can never block it for ever         *)
(* (scheduler.go:70, 99, 108, 140, 142).                                   *)
AnsweredOnce == \A r \in Requests : Held(r) => result[r] = "none"

(* While a command waits in its channel, at most one background operation  *)
(* is picked ahead of it: the one that may win the race between next's     *)
(* second and third select (scheduler.go:119-133).                         *)
AtMostOneOvertake ==
    \A c \in Commands : InChannel(c, commands) => overtaken[c] <= 1

(* Once the scheduler's context is done at most one more operation begins: *)
(* the one whose request the loop had passed, or picked in the same select *)
(* that was ready to stop (scheduler.go:113-133).                          *)
AtMostOneStartAfterStop == startsAfterStop <= 1

(* A request whose caller was told that its context ended before the       *)
(* operation began is never begun afterwards: a command reported as timed  *)
(* out in the queue does not move a shutter later (scheduler.go:98-101).   *)
GivenUpNeverStarts ==
    [][\A r \in started' \ started : answer[r] # "ctxErr"]_vars

(* The scheduler implements the serial executor: one operation at a time,  *)
(* at most once each, none after close returned, results only of           *)
(* operations that ended (scheduler.go:24-25, 90-110, 149-152).            *)
Executor == INSTANCE SerialExecutor WITH
                open    <- closer # "closed",
                running <- IF loop = "running" THEN {current} ELSE {},
                ran     <- started,
                told    <- answer
ImplementsSerialExecutor == Executor!Spec

(* Every call of submit returns, also one whose request was left behind in *)
(* a channel nobody reads any more (scheduler.go:72-87).                   *)
EverySubmitReturns ==
    \A r \in Requests : (caller[r] = "enqueuing") ~> (caller[r] = "returned")

(* close returns: the loop notices the stop, whatever it is doing, and no  *)
(* late submission keeps drain going (scheduler.go:90-97, 136-152).        *)
CloseCompletes == (closer = "waiting") ~> (closer = "closed")
=============================================================================
