-------------------------- MODULE SchedulerProofs --------------------------
(***************************************************************************)
(* Proofs about Scheduler for every set of commands and polls and every    *)
(* channel depth.  IInv is the inductive invariant: it says where a        *)
(* request can be while nobody has begun it, what its result slot and its  *)
(* caller's answer may hold, and which control states a stop and a waiting *)
(* command leave to the loop.                                              *)
(***************************************************************************)
EXTENDS Scheduler, TLAPS

Distinct(s) == \A i, j \in 1..Len(s) : s[i] = s[j] => i = j

-----------------------------------------------------------------------------
(* The inductive invariant, in named parts.                                *)

(* Each request is in one place at most.                                   *)
OnePlace ==
    /\ current = NoRequest <=> loop \notin {"ctxCheck", "running"}
    /\ Distinct(commands) /\ Distinct(background)
    /\ ~InChannel(current, commands) /\ ~InChannel(current, background)

(* What the loop holds or will take was not begun, but for the running     *)
(* operation, and its slot is empty.                                       *)
HeldFresh ==
    /\ \A r \in Requests : Held(r) =>
         /\ result[r] = "none"
         /\ caller[r] \in {"waiting", "returned"}
    /\ \A r \in Requests :
         InChannel(r, commands) \/ InChannel(r, background) => r \notin started
    /\ loop = "ctxCheck" => current \notin started
    /\ loop = "running" => current \in started

(* A caller that has not enqueued its request has left no trace.           *)
OutsideFresh ==
    \A r \in Requests : caller[r] \in {"idle", "enqueuing"} =>
        /\ ~Held(r)
        /\ result[r] = "none"
        /\ r \notin started

(* Answers and results come from where they should.                        *)
Provenance ==
    \A r \in Requests :
        /\ answer[r] = "none" <=> caller[r] # "returned"
        /\ result[r] \in OpResults => r \in started
        /\ answer[r] \in OpResults => r \in started
        /\ result[r] = "ctxErr" => ctxDone[r]
        /\ answer[r] = "ctxErr" => ctxDone[r]

(* What stopping leaves to the loop.                                       *)
StopState ==
    /\ stopped <=> closer # "open"
    /\ closer = "closed" => loop = "exited"
    /\ loop \in {"drain", "exited"} => stopped
    /\ ~stopped => startsAfterStop = 0
    /\ startsAfterStop <= 1
    /\ startsAfterStop = 1 =>
         loop \in {"running", "stopCheck", "drain", "exited"}

(* A command still queued when the loop blocks in select has arrived since *)
(* CommandCheck, so no poll was picked ahead of it yet.                    *)
OvertakeState ==
    \A c \in Commands :
        /\ caller[c] \in {"idle", "enqueuing"} => overtaken[c] = 0
        /\ InChannel(c, commands) => overtaken[c] <= 1
        /\ InChannel(c, commands) /\ loop = "select" => overtaken[c] = 0

IInv == /\ TypeOK /\ OnePlace /\ HeldFresh /\ OutsideFresh /\ Provenance
        /\ StopState /\ OvertakeState

-----------------------------------------------------------------------------
(* Facts about the channels as sequences.                                  *)

(* Sending adds exactly the request sent (scheduler.go:73).                *)
LEMMA AppendMembers ==
    ASSUME NEW S, NEW s \in Seq(S), NEW x \in S
    PROVE  /\ Append(s, x) \in Seq(S)
           /\ \A r : InChannel(r, Append(s, x)) <=> InChannel(r, s) \/ r = x
           /\ Distinct(s) /\ ~InChannel(x, s) => Distinct(Append(s, x))
<1>1. /\ Append(s, x) \in Seq(S)
      /\ Len(Append(s, x)) = Len(s) + 1
      /\ Len(s) \in Nat
      /\ \A i \in 1..Len(s) : Append(s, x)[i] = s[i]
      /\ Append(s, x)[Len(s) + 1] = x
  OBVIOUS
<1>2. \A i : i \in 1..(Len(s) + 1) <=> i \in 1..Len(s) \/ i = Len(s) + 1
  BY <1>1
<1>3. \A r : InChannel(r, Append(s, x)) <=> InChannel(r, s) \/ r = x
  BY <1>1, <1>2 DEF InChannel
<1>4. Distinct(s) /\ ~InChannel(x, s) => Distinct(Append(s, x))
  BY <1>1, <1>2 DEF InChannel, Distinct
<1> QED
  BY <1>1, <1>3, <1>4

(* Receiving removes exactly the head (scheduler.go:121, 127, 129, 139).   *)
LEMMA TailMembers ==
    ASSUME NEW S, NEW s \in Seq(S), s # <<>>
    PROVE  /\ Head(s) \in S
           /\ Tail(s) \in Seq(S)
           /\ \A r : InChannel(r, s) <=> r = Head(s) \/ InChannel(r, Tail(s))
           /\ Distinct(s) => Distinct(Tail(s)) /\ ~InChannel(Head(s), Tail(s))
<1>1. /\ Head(s) \in S
      /\ Tail(s) \in Seq(S)
      /\ Len(s) \in Nat \ {0}
      /\ Len(Tail(s)) = Len(s) - 1
      /\ \A i \in 1..Len(Tail(s)) : Tail(s)[i] = s[i + 1]
      /\ Head(s) = s[1]
  OBVIOUS
<1>2. \A i : i \in 1..Len(Tail(s)) => i + 1 \in 1..Len(s) /\ i \in Nat
  BY <1>1
<1>3. \A i \in 1..Len(s) : i = 1 \/ (i - 1 \in 1..Len(Tail(s))
                                    /\ Tail(s)[i - 1] = s[i])
  BY <1>1
<1>4. \A r : InChannel(r, s) <=> r = Head(s) \/ InChannel(r, Tail(s))
  <2>1. ASSUME NEW r, InChannel(r, s)
        PROVE  r = Head(s) \/ InChannel(r, Tail(s))
    BY <2>1, <1>1, <1>3 DEF InChannel
  <2>2. ASSUME NEW r, InChannel(r, Tail(s)) PROVE InChannel(r, s)
    BY <2>2, <1>1, <1>2 DEF InChannel
  <2>3. InChannel(Head(s), s)
    BY <1>1 DEF InChannel
  <2> QED
    BY <2>1, <2>2, <2>3
<1>5. ASSUME Distinct(s) PROVE Distinct(Tail(s))
  BY <1>5, <1>1, <1>2 DEF Distinct
<1>6. ASSUME Distinct(s) PROVE ~InChannel(Head(s), Tail(s))
  BY <1>6, <1>1, <1>2 DEF Distinct, InChannel
<1> QED
  BY <1>1, <1>4, <1>5, <1>6

(* A channel holds only what its type says.                                *)
LEMMA MembersTyped ==
    ASSUME NEW S, NEW s \in Seq(S), NEW r, InChannel(r, s) PROVE r \in S
  BY DEF InChannel

LEMMA EmptyMembers == Distinct(<<>>) /\ \A r : ~InChannel(r, <<>>)
  BY DEF Distinct, InChannel

-----------------------------------------------------------------------------
(* The invariant is inductive.                                             *)

LEMMA InitIInv == Init => IInv
<1> SUFFICES ASSUME Init PROVE IInv
  OBVIOUS
<1> USE DisjointRequests, NoRequestAssumption, EmptyMembers DEF Init, Requests
<1>1. TypeOK
  <2>1. commands \in Seq(Commands) /\ background \in Seq(Polls)
    OBVIOUS
  <2> QED
    BY <2>1 DEF TypeOK
<1>2. OnePlace
  BY DEF OnePlace
<1>3. HeldFresh /\ OutsideFresh
  BY DEF HeldFresh, OutsideFresh, Held
<1>4. Provenance
  BY DEF Provenance, OpResults
<1>5. StopState /\ OvertakeState
  BY DEF StopState, OvertakeState
<1> QED
  BY <1>1, <1>2, <1>3, <1>4, <1>5 DEF IInv

(* The caller's side: no step of it moves the loop.                        *)
LEMMA SubmitStep ==
    ASSUME IInv, NEW r \in Requests, Submit(r) PROVE IInv'
<1> USE DEF Submit, IInv, loopVars, historyVars
<1>1. TypeOK'
  BY DEF TypeOK
<1>2. OnePlace'
  BY DEF OnePlace
<1>3. HeldFresh' /\ OutsideFresh'
  BY DEF HeldFresh, OutsideFresh, Held, TypeOK
<1>4. Provenance'
  BY DEF Provenance, TypeOK
<1>5. StopState' /\ OvertakeState'
  BY DEF StopState, OvertakeState, TypeOK, Requests
<1> QED
  BY <1>1, <1>2, <1>3, <1>4, <1>5

LEMMA EnqueueStep ==
    ASSUME IInv, NEW r \in Requests, Enqueue(r) PROVE IInv'
<1> USE DEF Enqueue, IInv, loopVars, historyVars
<1>1. CASE r \in Commands /\ commands' = Append(commands, r)
                          /\ background' = background
  <2> USE <1>1
  <2>1. /\ commands' \in Seq(Commands)
        /\ \A q : InChannel(q, commands') <=> InChannel(q, commands) \/ q = r
        /\ Distinct(commands) /\ ~InChannel(r, commands) => Distinct(commands')
    BY AppendMembers DEF TypeOK
  <2>2. ~Held(r) /\ r # current
    BY DEF OutsideFresh, Held
  <2>3. TypeOK'
    BY <2>1 DEF TypeOK
  <2>4. OnePlace'
    BY <2>1, <2>2 DEF OnePlace, Held
  <2>5. HeldFresh' /\ OutsideFresh'
    BY <2>1, <2>2 DEF HeldFresh, OutsideFresh, Held, TypeOK
  <2>6. Provenance'
    BY DEF Provenance, TypeOK
  <2>7. StopState' /\ OvertakeState'
    BY <2>1, <2>2 DEF StopState, OvertakeState, TypeOK, Requests
  <2> QED
    BY <2>3, <2>4, <2>5, <2>6, <2>7
<1>2. CASE r \in Polls /\ background' = Append(background, r)
                       /\ commands' = commands
  <2> USE <1>2
  <2>1. /\ background' \in Seq(Polls)
        /\ \A q : InChannel(q, background') <=> InChannel(q, background) \/ q = r
        /\ Distinct(background) /\ ~InChannel(r, background)
             => Distinct(background')
    BY AppendMembers DEF TypeOK
  <2>2. ~Held(r) /\ r # current
    BY DEF OutsideFresh, Held
  <2>3. TypeOK'
    BY <2>1 DEF TypeOK
  <2>4. OnePlace'
    BY <2>1, <2>2 DEF OnePlace, Held
  <2>5. HeldFresh' /\ OutsideFresh'
    BY <2>1, <2>2 DEF HeldFresh, OutsideFresh, Held, TypeOK
  <2>6. Provenance'
    BY DEF Provenance, TypeOK
  <2>7. StopState' /\ OvertakeState'
    BY DisjointRequests DEF StopState, OvertakeState, TypeOK, Requests
  <2> QED
    BY <2>3, <2>4, <2>5, <2>6, <2>7
<1> QED
  BY <1>1, <1>2

LEMMA ReturnStep ==
    ASSUME IInv, NEW r \in Requests, SubmitReturns(r) PROVE IInv'
<1> USE DEF IInv, Return, loopVars, historyVars
<1>1. CASE GiveUp(r) \/ ReturnStopped(r)
  <2> USE <1>1 DEF GiveUp, ReturnStopped
  <2>1. TypeOK'
    BY DEF TypeOK, Answers
  <2>2. OnePlace'
    BY DEF OnePlace
  <2>3. HeldFresh' /\ OutsideFresh'
    <3>1. \A q \in Requests : Held(q)' <=> Held(q)
      BY DEF Held
    <3>2. \A q \in Requests : caller'[q] = IF q = r THEN "returned" ELSE caller[q]
      BY DEF TypeOK
    <3>3. HeldFresh'
      BY <3>1, <3>2 DEF HeldFresh
    <3>4. OutsideFresh'
      BY <3>1, <3>2 DEF OutsideFresh
    <3> QED
      BY <3>3, <3>4
  <2>4. Provenance'
    BY DEF Provenance, TypeOK, OpResults
  <2>5. StopState' /\ OvertakeState'
    BY DEF StopState, OvertakeState, TypeOK, Requests
  <2> QED
    BY <2>1, <2>2, <2>3, <2>4, <2>5
<1>2. CASE ReceiveResult(r)
  <2> USE <1>2 DEF ReceiveResult
  <2>1. TypeOK'
    BY DEF TypeOK, Answers
  <2>2. OnePlace'
    BY DEF OnePlace
  <2>3. HeldFresh' /\ OutsideFresh'
    BY DEF HeldFresh, OutsideFresh, Held, TypeOK
  <2>4. Provenance'
    BY DEF Provenance, TypeOK, OpResults
  <2>5. StopState' /\ OvertakeState'
    BY DEF StopState, OvertakeState, TypeOK, Requests
  <2> QED
    BY <2>1, <2>2, <2>3, <2>4, <2>5
<1> QED
  BY <1>1, <1>2 DEF SubmitReturns

LEMMA CtxDoneStep ==
    ASSUME IInv, NEW r \in Requests, CtxDone(r) PROVE IInv'
<1> USE DEF IInv, CtxDone, callerVars, loopVars, historyVars
<1>1. TypeOK'
  BY DEF TypeOK
<1>2. OnePlace' /\ StopState' /\ OvertakeState'
  BY DEF OnePlace, StopState, OvertakeState
<1>3. HeldFresh' /\ OutsideFresh'
  BY DEF HeldFresh, OutsideFresh, Held
<1>4. Provenance'
  BY DEF Provenance, TypeOK
<1> QED
  BY <1>1, <1>2, <1>3, <1>4

(* The loop's side.                                                        *)
LEMMA TakeCommandStep ==
    ASSUME IInv, loop \in {"commandCheck", "select"}, TakeCommand,
           UNCHANGED <<callerVars, ctxDone, result, stopped, afterFired, closer,
                       started, startsAfterStop>>
    PROVE  IInv'
<1> USE DEF IInv, TakeCommand, callerVars
<1>1. /\ Head(commands) \in Commands
      /\ commands' \in Seq(Commands)
      /\ \A q : InChannel(q, commands)
              <=> q = current' \/ InChannel(q, commands')
      /\ Distinct(commands) => Distinct(commands') /\ ~InChannel(current', commands')
  BY TailMembers DEF TypeOK
<1>2. ~InChannel(current', background) /\ current' # NoRequest
  BY <1>1, MembersTyped, DisjointRequests, NoRequestAssumption DEF TypeOK
<1>3. current = NoRequest
  BY DEF OnePlace
<1>4. TypeOK'
  BY <1>1 DEF TypeOK, Requests
<1>5. OnePlace'
  BY <1>1, <1>2 DEF OnePlace
<1>6. \A q \in Requests : Held(q)' <=> Held(q)
  BY <1>1, <1>3, NoRequestAssumption DEF Held, Requests
<1>7. HeldFresh' /\ OutsideFresh'
  BY <1>1, <1>6 DEF HeldFresh, OutsideFresh, Requests
<1>8. Provenance'
  BY DEF Provenance
<1>9. StopState' /\ OvertakeState'
  BY <1>1 DEF StopState, OvertakeState
<1> QED
  BY <1>4, <1>5, <1>7, <1>8, <1>9

LEMMA TakeBackgroundStep ==
    ASSUME IInv, loop = "select", TakeBackground,
           UNCHANGED <<callerVars, ctxDone, result, stopped, afterFired, closer,
                       started, startsAfterStop>>
    PROVE  IInv'
<1> USE DEF IInv, TakeBackground, callerVars
<1>1. /\ Head(background) \in Polls
      /\ background' \in Seq(Polls)
      /\ \A q : InChannel(q, background)
              <=> q = current' \/ InChannel(q, background')
      /\ Distinct(background) =>
           Distinct(background') /\ ~InChannel(current', background')
  BY TailMembers DEF TypeOK
<1>2. ~InChannel(current', commands) /\ current' # NoRequest
  BY <1>1, MembersTyped, DisjointRequests, NoRequestAssumption DEF TypeOK
<1>3. current = NoRequest
  BY DEF OnePlace
<1>4. TypeOK'
  BY <1>1 DEF TypeOK, Requests
<1>5. OnePlace'
  BY <1>1, <1>2 DEF OnePlace
<1>6. \A q \in Requests : Held(q)' <=> Held(q)
  BY <1>1, <1>3, NoRequestAssumption DEF Held, Requests
<1>7. HeldFresh' /\ OutsideFresh'
  BY <1>1, <1>6 DEF HeldFresh, OutsideFresh, Requests
<1>8. Provenance'
  BY DEF Provenance
<1>9. StopState'
  BY DEF StopState
<1>10. OvertakeState'
  <2>1. ASSUME NEW c \in Commands
        PROVE  overtaken'[c] = IF InChannel(c, commands) THEN overtaken[c] + 1
                                                        ELSE overtaken[c]
    OBVIOUS
  <2>2. ASSUME NEW c \in Commands, caller[c] \in {"idle", "enqueuing"}
        PROVE  overtaken'[c] = 0
    BY <2>1, <2>2 DEF OvertakeState, OutsideFresh, Held, Requests
  <2>3. ASSUME NEW c \in Commands, InChannel(c, commands)
        PROVE  overtaken'[c] <= 1
    BY <2>1, <2>3 DEF OvertakeState
  <2> QED
    BY <2>2, <2>3 DEF OvertakeState
<1> QED
  BY <1>4, <1>5, <1>7, <1>8, <1>9, <1>10

LEMMA NextStep ==
    ASSUME IInv, StopCheck \/ CommandCheck \/ Select PROVE IInv'
<1> USE DEF callerVars, historyVars
<1>1. CASE StopCheck
  <2> USE <1>1 DEF StopCheck, IInv
  <2>1. TypeOK' /\ OnePlace' /\ Provenance'
    BY DEF TypeOK, OnePlace, Provenance
  <2>2. HeldFresh' /\ OutsideFresh'
    BY DEF HeldFresh, OutsideFresh, Held
  <2>3. StopState' /\ OvertakeState'
    BY DEF StopState, OvertakeState, TypeOK
  <2> QED
    BY <2>1, <2>2, <2>3
<1>2. CASE CommandCheck /\ TakeCommand
  BY <1>2, TakeCommandStep DEF CommandCheck
<1>3. CASE CommandCheck /\ commands = <<>> /\ loop' = "select"
           /\ UNCHANGED <<commands, background, current, overtaken>>
  <2> USE <1>3 DEF CommandCheck, IInv
  <2>1. TypeOK' /\ OnePlace' /\ Provenance'
    BY DEF TypeOK, OnePlace, Provenance
  <2>2. HeldFresh' /\ OutsideFresh'
    BY DEF HeldFresh, OutsideFresh, Held
  <2>3. StopState' /\ OvertakeState'
    BY EmptyMembers DEF StopState, OvertakeState, TypeOK
  <2> QED
    BY <2>1, <2>2, <2>3
<1>4. CASE Select /\ TakeCommand
  BY <1>4, TakeCommandStep DEF Select
<1>5. CASE Select /\ TakeBackground
  BY <1>5, TakeBackgroundStep DEF Select
<1>6. CASE Select /\ stopped /\ loop' = "drain"
           /\ UNCHANGED <<commands, background, current, overtaken>>
  <2> USE <1>6 DEF Select, IInv
  <2>1. TypeOK' /\ OnePlace' /\ Provenance'
    BY DEF TypeOK, OnePlace, Provenance
  <2>2. HeldFresh' /\ OutsideFresh'
    BY DEF HeldFresh, OutsideFresh, Held
  <2>3. StopState' /\ OvertakeState'
    BY DEF StopState, OvertakeState, TypeOK
  <2> QED
    BY <2>1, <2>2, <2>3
<1> QED
  BY <1>1, <1>2, <1>3, <1>4, <1>5, <1>6 DEF CommandCheck, Select

LEMMA CtxCheckStep ==
    ASSUME IInv, CtxCheck PROVE IInv'
<1> USE DEF IInv, CtxCheck, callerVars
<1>0. current \in Requests /\ result[current] = "none" /\ current # NoRequest
  BY NoRequestAssumption DEF OnePlace, HeldFresh, Held, TypeOK, Requests
<1>1. CASE /\ ctxDone[current]
           /\ Deliver(current, "ctxErr")
           /\ loop' = "stopCheck"
           /\ current' = NoRequest
           /\ UNCHANGED <<afterFired, started, startsAfterStop>>
  <2> USE <1>0, <1>1 DEF Deliver
  <2>1. TypeOK'
    BY DEF TypeOK, Answers
  <2>2. OnePlace'
    BY MembersTyped, NoRequestAssumption DEF OnePlace, TypeOK
  <2>3. \A q \in Requests : Held(q)' => Held(q) /\ q # current
    BY NoRequestAssumption DEF Held, OnePlace, Requests
  <2>4. HeldFresh' /\ OutsideFresh'
    BY <2>3 DEF HeldFresh, OutsideFresh, TypeOK, Held
  <2>5. Provenance'
    BY DEF Provenance, OpResults, TypeOK
  <2>6. StopState' /\ OvertakeState'
    BY DEF StopState, OvertakeState, TypeOK
  <2> QED
    BY <2>1, <2>2, <2>4, <2>5, <2>6
<1>2. CASE /\ ~ctxDone[current]
           /\ loop' = "running"
           /\ afterFired' = FALSE
           /\ started' = started \cup {current}
           /\ startsAfterStop' = startsAfterStop + (IF stopped THEN 1 ELSE 0)
           /\ UNCHANGED <<result, current>>
  <2> USE <1>0, <1>2
  <2>1. TypeOK'
    <3>1. startsAfterStop' \in Nat
      BY DEF TypeOK
    <3>2. started' \subseteq Requests /\ afterFired' \in BOOLEAN
      BY DEF TypeOK
    <3> QED
      BY <3>1, <3>2 DEF TypeOK
  <2>2. OnePlace'
    BY DEF OnePlace
  <2>3. HeldFresh' /\ OutsideFresh'
    BY DEF HeldFresh, OutsideFresh, Held, OnePlace
  <2>4. Provenance'
    BY DEF Provenance
  <2>5. StopState' /\ OvertakeState'
    BY DEF StopState, OvertakeState, TypeOK
  <2> QED
    BY <2>1, <2>2, <2>3, <2>4, <2>5
<1> QED
  BY <1>1, <1>2

LEMMA AfterFuncStep ==
    ASSUME IInv, AfterFunc PROVE IInv'
<1> USE DEF IInv, AfterFunc, callerVars, historyVars
<1>1. TypeOK' /\ OnePlace' /\ Provenance' /\ StopState' /\ OvertakeState'
  BY DEF TypeOK, OnePlace, Provenance, StopState, OvertakeState
<1>2. HeldFresh' /\ OutsideFresh'
  BY DEF HeldFresh, OutsideFresh, Held
<1> QED
  BY <1>1, <1>2

LEMMA FinishStep ==
    ASSUME IInv, Finish PROVE IInv'
<1> USE DEF IInv, Finish, callerVars, historyVars, Deliver
<1>0. current \in Requests /\ result[current] = "none" /\ current # NoRequest
  BY NoRequestAssumption DEF OnePlace, HeldFresh, Held, TypeOK, Requests
<1>1. PICK a \in OpResults : result' = [result EXCEPT ![current] = a]
  OBVIOUS
<1> USE <1>0, <1>1
<1>2. TypeOK'
  BY DEF TypeOK, Answers
<1>3. OnePlace'
  BY MembersTyped, NoRequestAssumption DEF OnePlace, TypeOK
<1>4. \A q \in Requests : Held(q)' => Held(q) /\ q # current
  BY NoRequestAssumption DEF Held, OnePlace, Requests
<1>5. HeldFresh' /\ OutsideFresh'
  BY <1>4 DEF HeldFresh, OutsideFresh, TypeOK, Held
<1>6. Provenance'
  BY DEF Provenance, OpResults, TypeOK, HeldFresh
<1>7. StopState' /\ OvertakeState'
  BY DEF StopState, OvertakeState, TypeOK
<1> QED
  BY <1>2, <1>3, <1>5, <1>6, <1>7

LEMMA DrainStep ==
    ASSUME IInv, Drain PROVE IInv'
<1> USE DEF IInv, Drain, callerVars, historyVars
<1>0. current = NoRequest
  BY DEF OnePlace
<1>1. CASE /\ commands # <<>>
           /\ Deliver(Head(commands), "stopped")
           /\ commands' = Tail(commands)
           /\ UNCHANGED <<background, loop>>
  <2> DEFINE r == Head(commands)
  <2> USE <1>1 DEF Deliver
  <2>1. /\ r \in Commands
        /\ commands' \in Seq(Commands)
        /\ \A q : InChannel(q, commands) <=> q = r \/ InChannel(q, commands')
        /\ Distinct(commands) => Distinct(commands') /\ ~InChannel(r, commands')
    BY TailMembers DEF TypeOK
  <2>2. ~InChannel(r, background)
    BY <2>1, MembersTyped, DisjointRequests DEF TypeOK
  <2>3. result' = [result EXCEPT ![r] = "stopped"]
    OBVIOUS
  <2>4. r \in Requests /\ \A q \in Requests : Held(q)' => Held(q) /\ q # r
    BY <1>0, <2>1, <2>2, NoRequestAssumption DEF Held, OnePlace, Requests
  <2> HIDE DEF r
  <2>5. TypeOK'
    BY <2>1, <2>3, <2>4 DEF TypeOK, Answers
  <2>6. OnePlace'
    BY <1>0, <2>1 DEF OnePlace
  <2>7. HeldFresh' /\ OutsideFresh'
    BY <1>0, <2>1, <2>3, <2>4 DEF HeldFresh, OutsideFresh, TypeOK, Held
  <2>8. Provenance'
    BY <2>3, <2>4 DEF Provenance, OpResults, TypeOK
  <2>9. StopState' /\ OvertakeState'
    BY <2>1 DEF StopState, OvertakeState, TypeOK
  <2> QED
    BY <2>5, <2>6, <2>7, <2>8, <2>9
<1>2. CASE /\ background # <<>>
           /\ Deliver(Head(background), "stopped")
           /\ background' = Tail(background)
           /\ UNCHANGED <<commands, loop>>
  <2> DEFINE r == Head(background)
  <2> USE <1>2 DEF Deliver
  <2>1. /\ r \in Polls
        /\ background' \in Seq(Polls)
        /\ \A q : InChannel(q, background) <=> q = r \/ InChannel(q, background')
        /\ Distinct(background) =>
             Distinct(background') /\ ~InChannel(r, background')
    BY TailMembers DEF TypeOK
  <2>2. ~InChannel(r, commands)
    BY <2>1, MembersTyped, DisjointRequests DEF TypeOK
  <2>3. result' = [result EXCEPT ![r] = "stopped"]
    OBVIOUS
  <2>4. r \in Requests /\ \A q \in Requests : Held(q)' => Held(q) /\ q # r
    BY <1>0, <2>1, <2>2, NoRequestAssumption DEF Held, OnePlace, Requests
  <2> HIDE DEF r
  <2>5. TypeOK'
    BY <2>1, <2>3, <2>4 DEF TypeOK, Answers
  <2>6. OnePlace'
    BY <1>0, <2>1 DEF OnePlace
  <2>7. HeldFresh' /\ OutsideFresh'
    BY <1>0, <2>1, <2>3, <2>4 DEF HeldFresh, OutsideFresh, TypeOK, Held
  <2>8. Provenance'
    BY <2>3, <2>4 DEF Provenance, OpResults, TypeOK
  <2>9. StopState' /\ OvertakeState'
    BY DEF StopState, OvertakeState, TypeOK
  <2> QED
    BY <2>5, <2>6, <2>7, <2>8, <2>9
<1>3. CASE /\ commands = <<>>
           /\ background = <<>>
           /\ loop' = "exited"
           /\ UNCHANGED <<commands, background, result>>
  <2> USE <1>3
  <2>1. TypeOK' /\ OnePlace' /\ Provenance'
    BY DEF TypeOK, OnePlace, Provenance
  <2>2. HeldFresh' /\ OutsideFresh'
    BY DEF HeldFresh, OutsideFresh, Held
  <2>3. StopState' /\ OvertakeState'
    BY DEF StopState, OvertakeState, TypeOK
  <2> QED
    BY <2>1, <2>2, <2>3
<1> QED
  BY <1>1, <1>2, <1>3

LEMMA CloseStep ==
    ASSUME IInv, Close \/ CloseReturns PROVE IInv'
<1> USE DEF IInv, Close, CloseReturns, callerVars, loopVars, historyVars
<1>1. TypeOK' /\ OnePlace' /\ Provenance' /\ OvertakeState'
  BY DEF TypeOK, OnePlace, Provenance, OvertakeState
<1>2. HeldFresh' /\ OutsideFresh'
  BY DEF HeldFresh, OutsideFresh, Held
<1>3. StopState'
  BY DEF StopState, TypeOK
<1> QED
  BY <1>1, <1>2, <1>3

LEMMA InductiveStep == IInv /\ [Next]_vars => IInv'
<1> SUFFICES ASSUME IInv, [Next]_vars PROVE IInv'
  OBVIOUS
<1>1. CASE UNCHANGED vars
  BY <1>1 DEF IInv, TypeOK, OnePlace, HeldFresh, OutsideFresh, Provenance,
              StopState, OvertakeState, Held, vars
<1>2. ASSUME NEW r \in Requests,
             \/ Submit(r) \/ Enqueue(r) \/ GiveUp(r) \/ ReturnStopped(r)
             \/ ReceiveResult(r) \/ CtxDone(r)
      PROVE  IInv'
  BY <1>2, SubmitStep, EnqueueStep, ReturnStep, CtxDoneStep DEF SubmitReturns
<1>3. CASE StopCheck \/ CommandCheck \/ Select
  BY <1>3, NextStep
<1>4. CASE CtxCheck \/ AfterFunc \/ Finish \/ Drain
  BY <1>4, CtxCheckStep, AfterFuncStep, FinishStep, DrainStep
<1>5. CASE Close \/ CloseReturns
  BY <1>5, CloseStep
<1> QED
  BY <1>1, <1>2, <1>3, <1>4, <1>5 DEF Next

THEOREM Invariance == Spec => []IInv
  BY InitIInv, InductiveStep, PTL DEF Spec

-----------------------------------------------------------------------------
(* What follows from it.                                                   *)

(* Every variable keeps its type, whatever the commands, polls and depth.  *)
THEOREM TypeCorrect == Spec => []TypeOK
<1>1. IInv => TypeOK
  BY DEF IInv
<1> QED
  BY <1>1, Invariance, PTL

(* The loop's sends on one-slot result channels never block it.            *)
THEOREM AnswersNeverBlock == Spec => []AnsweredOnce
<1>1. IInv => AnsweredOnce
  BY DEF IInv, HeldFresh, AnsweredOnce
<1> QED
  BY <1>1, Invariance, PTL

(* A waiting command is overtaken by one poll at most.                     *)
THEOREM BoundedOvertaking == Spec => []AtMostOneOvertake
<1>1. IInv => AtMostOneOvertake
  BY DEF IInv, OvertakeState, AtMostOneOvertake
<1> QED
  BY <1>1, Invariance, PTL

(* A stop lets one more operation begin at most.                           *)
THEOREM BoundedStop == Spec => []AtMostOneStartAfterStop
<1>1. IInv => AtMostOneStartAfterStop
  BY DEF IInv, StopState, AtMostOneStartAfterStop
<1> QED
  BY <1>1, Invariance, PTL

(* Only CtxCheck begins operations.                                        *)
LEMMA StartsOnlyInCtxCheck ==
    ASSUME [Next]_vars
    PROVE  \/ started' = started
           \/ CtxCheck /\ ~ctxDone[current] /\ started' = started \cup {current}
  BY DEF Next, vars, historyVars, Submit, Enqueue, GiveUp, ReturnStopped,
         ReceiveResult, CtxDone, StopCheck, CommandCheck, Select, CtxCheck,
         AfterFunc, Finish, Drain, Close, CloseReturns

(* A request given up before it began never begins.                        *)
THEOREM GivenUpStaysUnrun == Spec => GivenUpNeverStarts
<1>1. IInv /\ [Next]_vars =>
        [\A r \in started' \ started : answer[r] # "ctxErr"]_vars
  <2> SUFFICES ASSUME IInv, [Next]_vars, NEW r \in started' \ started
               PROVE  answer[r] # "ctxErr"
    OBVIOUS
  <2>1. CtxCheck /\ ~ctxDone[current] /\ r = current
    BY StartsOnlyInCtxCheck
  <2>2. current \in Requests
    BY <2>1 DEF CtxCheck, IInv, OnePlace, TypeOK
  <2> QED
    BY <2>1, <2>2 DEF IInv, Provenance
<1> QED
  BY <1>1, Invariance, PTL DEF Spec, GivenUpNeverStarts

-----------------------------------------------------------------------------
(* The scheduler implements the serial executor.                           *)

LEMMA TellStep ==
    ASSUME IInv, NEW r \in Requests, SubmitReturns(r) PROVE Executor!Next
<1> USE DEF IInv
<1>1. PICK a \in Answers :
        /\ caller[r] # "returned"
        /\ Return(r, a)
        /\ a \in OpResults => result[r] = a
  <2>1. CASE GiveUp(r)
    BY <2>1 DEF GiveUp, Answers, OpResults
  <2>2. CASE ReturnStopped(r)
    BY <2>2 DEF ReturnStopped, Answers, OpResults
  <2>3. CASE ReceiveResult(r)
    BY <2>3 DEF ReceiveResult, TypeOK
  <2> QED
    BY <2>1, <2>2, <2>3 DEF SubmitReturns
<1>2. /\ answer[r] = "none"
      /\ answer' = [answer EXCEPT ![r] = a]
  BY <1>1 DEF Return, Provenance
<1>3. a \in OpResults =>
        r \in started \ (IF loop = "running" THEN {current} ELSE {})
  BY <1>1 DEF Provenance, HeldFresh, Held, OpResults
<1>4. UNCHANGED <<closer, loop, current, started>>
  BY DEF SubmitReturns, GiveUp, ReturnStopped, ReceiveResult, loopVars,
         historyVars
<1>5. Executor!Tell(r, a)
  BY <1>2, <1>3, <1>4 DEF Executor!Tell, Executor!OpResults, OpResults
<1> QED
  BY <1>1, <1>5 DEF Executor!Next, Answers, OpResults, Executor!OpResults

(* Every step of the scheduler is a step of the executor, or a stutter.    *)
LEMMA ExecutorStep == IInv /\ [Next]_vars => [Executor!Next]_(Executor!vars)
<1> SUFFICES ASSUME IInv, [Next]_vars
             PROVE  Executor!Next \/ UNCHANGED Executor!vars
  OBVIOUS
<1> USE DEF Executor!vars
<1>1. CASE UNCHANGED vars
  BY <1>1 DEF vars
<1>2. ASSUME NEW r \in Requests, Submit(r) \/ Enqueue(r) \/ CtxDone(r)
      PROVE  UNCHANGED Executor!vars
  BY <1>2 DEF Submit, Enqueue, CtxDone, callerVars, loopVars, historyVars
<1>3. ASSUME NEW r \in Requests, SubmitReturns(r) PROVE Executor!Next
  BY <1>3, TellStep
<1>4. CASE StopCheck \/ CommandCheck \/ Select \/ AfterFunc \/ Drain
  <2>1. \/ loop # "running" /\ loop' # "running"
        \/ UNCHANGED <<loop, current>>
    BY <1>4 DEF StopCheck, CommandCheck, Select, TakeCommand, TakeBackground,
                AfterFunc, Drain
  <2>2. UNCHANGED <<closer, started, answer>>
    BY <1>4 DEF StopCheck, CommandCheck, Select, AfterFunc, Drain, callerVars,
                historyVars
  <2> QED
    BY <2>1, <2>2
<1>5. CASE CtxCheck
  <2>1. CASE loop' = "running"
    <3>1. /\ ~ctxDone[current] /\ started' = started \cup {current}
          /\ current' = current /\ current \in Requests
          /\ UNCHANGED <<answer, closer>>
      BY <1>5, <2>1 DEF CtxCheck, callerVars, IInv, OnePlace, TypeOK
    <3>2. /\ closer # "closed" /\ current \notin started
          /\ answer[current] # "ctxErr"
      BY <1>5, <3>1 DEF CtxCheck, IInv, StopState, HeldFresh, Provenance
    <3>3. Executor!Start(current)
      BY <1>5, <2>1, <3>1, <3>2 DEF Executor!Start, CtxCheck
    <3> QED
      BY <3>1, <3>3 DEF Executor!Next
  <2>2. CASE loop' # "running"
    BY <1>5, <2>2 DEF CtxCheck, callerVars
  <2> QED
    BY <2>1, <2>2
<1>6. CASE Finish
  <2>1. current \in Requests
    BY <1>6 DEF Finish, IInv, OnePlace, TypeOK
  <2>2. Executor!Finish(current)
    BY <1>6 DEF Finish, Executor!Finish, callerVars, historyVars
  <2> QED
    BY <2>1, <2>2 DEF Executor!Next
<1>7. CASE Close
  BY <1>7 DEF Close, callerVars, loopVars, historyVars
<1>8. CASE CloseReturns
  BY <1>8 DEF CloseReturns, callerVars, loopVars, historyVars,
              Executor!Shut, Executor!Next
<1> QED
  BY <1>1, <1>2, <1>3, <1>4, <1>5, <1>6, <1>7, <1>8
     DEF Next, SubmitReturns

(* For every set of requests and every depth, the scheduler's steps are    *)
(* steps of the serial executor.                                           *)
THEOREM Refinement == Spec => ImplementsSerialExecutor
<1>1. Init => Executor!Init
  BY DEF Init, Executor!Init
<1> QED
  BY <1>1, ExecutorStep, Invariance, PTL
     DEF Spec, ImplementsSerialExecutor, Executor!Spec
=============================================================================
