------------------------------ MODULE ProjectLoad ----------------------------
(***************************************************************************)
(* The reload function of cmd/phc-bridge/main.go: the download of the      *)
(* project, each chunk an operation of the scheduler between the polls and *)
(* commands of a running controller, then Extract and Parse.  It composes  *)
(*   Download       the loop over the chunks                               *)
(*   StmClient      the call that fetches one, over a connection           *)
(*   Commands       what the other operations call                         *)
(*   ProjectParser  what is made of the two files                          *)
(* The STM is external: it answers or not, in any of the forms the client  *)
(* reads and some it must refuse, and its project may be replaced at any   *)
(* moment.                                                                 *)
(*                                                                         *)
(* An operator under a comment that begins with BUG is part of no          *)
(* specification: it is the definition after it with a mistake in it.      *)
(***************************************************************************)
EXTENDS ProjectZIP, FiniteSets

CONSTANTS
    MaxHeaderLine, MaxHeaderBytes, MaxResponse, MaxSegment,
    Code, ShutterWords, OutletWords, DownWords, UpWords, PanicWords,
    PresenceWords, NoInput, MaxVisibleChannels, MaxChannelText, MaxToolActions,
    MaxToolCandidates, MaxLocationDepth, MaxFile,
    ArchivesOf,      \* the entries the ZIP of a project may have
    FilesOf,         \* the files it may hold, as project.ppfx and project.tpfx
    MaxZIPEntries, MaxEntryBytes,
    Devices,         \* the devices commanded meanwhile
    Actions,         \* what they may be told
    Modules,         \* the bus addresses that are polled
    MaxOperations    \* bound: polls and commands during the load

(* A status line is within both limits.                                    *)
ASSUME HeaderAssumption ==
    /\ MaxHeaderLine \in Nat /\ MaxHeaderLine >= 2
    /\ MaxHeaderBytes \in Nat /\ MaxHeaderBytes >= 2
(* So is every response with sound headers: they are 4 KB, 16 KB and 24 MB *)
(* in the code (transport.go:25, client.go:18).                            *)
ASSUME ResponseAssumption ==
    /\ MaxHeaderBytes >= 7
    /\ MaxResponse \in Nat /\ MaxResponse >= 40

VARIABLES
    at, i, expectedTotal, buf, size, chunk, project, seen,
    method, wire, arrived, taken, cutShort, rewrite, out, lastSanitized, answer,
    loop, n, channels, actions, added, down, up, unpaired, represented, floors,
    op,          \* the operation the scheduler runs, or ran last
    heard,       \* history: the calls the STM has executed during it
    meant,       \* history: what the STM means by its response
    operations   \* polls and commands so far

D == INSTANCE Download
C == INSTANCE StmClient
P == INSTANCE ProjectParser
Cmd == INSTANCE Commands

(* A project holds files that can be decoded, up to an element that cannot, *)
(* and no input is like none.                                              *)
ASSUME FilesAssumption ==
    \A p \in Projects : \A files \in FilesOf[p] :
        files.ppfx \in Seq(P!PPFXElements) /\ files.tpfx \in Seq(P!TPFXElements)
(* Letters have numbers, those of the texts the parser itself makes too.   *)
ASSUME CodeAssumption ==
    /\ \A letter \in DOMAIN Code : Code[letter] \in Int
    /\ {"Panic", "Presence", "Security", "Automation"} \subseteq DOMAIN Code
ASSUME NoInputAssumption == NoInput \notin {"emd", "amd"} \X Int \X Int

downloadVars == <<at, i, expectedTotal, buf, size, chunk, project, seen>>
clientVars == <<method, wire, arrived, taken, cutShort, rewrite, out,
                lastSanitized, answer>>
parserVars == <<loop, n, channels, actions, added, down, up, unpaired,
                represented, floors>>
opVars == <<op, heard, meant, operations>>
vars == <<downloadVars, clientVars, parserVars, opVars>>

-----------------------------------------------------------------------------
(* The responses of an STM.  Its number may be an <i4>, a <string> or bare *)
(* text; a header block is sound when the client should get along with it. *)

El(tag, content) == <<C!Start(tag)>> \o content \o <<C!End(tag)>>
Txt(kind, data) == <<C!Text(kind, data)>>
Number(style, k) ==
    El("value", IF style = "bare" THEN Txt("number", k)
                ELSE El(style, Txt("number", k)))
Member(name, value) == El("member", El("name", Txt("word", name)) \o value)
Struct(members) == El("value", El("struct", members))
Response(value) == El("methodResponse", El("params", El("param", value)))
FaultResponse ==
    El("methodResponse", El("fault", Struct(Member("faultCode", Number("i4", 4)))))
EmptyResponse == El("methodResponse", El("params", <<>>))

ChunkMembers(style, c) ==
    Member("cur", Number(style, c.cur)) \o Member("total", Number(style, c.total))
ChunkResponse(style, c) ==
    Response(Struct(ChunkMembers(style, c) \o
        IF c.bin = Nothing THEN <<>>
        ELSE Member("bin", El("value", El("base64", Txt("base64", c.bin))))))
ArrayResponse(numbers) ==
    Response(El("value", El("array", El("data", numbers))))

HeaderLine(symbols) == symbols \o C!Blank
StatusLine == HeaderLine(<<C!Status>>)
DateLine   == HeaderLine(<<C!BareDate>>)
FieldLine  == HeaderLine(<<C!Field>>)
JunkLine   == HeaderLine(<<C!Junk>>)
LongLine   == HeaderLine([k \in 1..MaxHeaderLine |-> C!Field])

StmHeader == StatusLine \o DateLine \o FieldLine \o C!Blank
StandardHeader == StatusLine \o FieldLine \o C!Blank
LongHeader == [k \in 1..(2 * MaxHeaderBytes) |->
                 IF k % 2 = 0 THEN C!Newline ELSE IF k = 1 THEN C!Status ELSE C!Field]
UnsoundHeaders ==
    {StatusLine \o FieldLine \o DateLine \o C!Blank,
     StatusLine \o DateLine \o DateLine \o C!Blank,
     StatusLine \o JunkLine \o C!Blank,
     DateLine \o FieldLine \o C!Blank,
     StatusLine \o LongLine \o C!Blank,
     LongHeader,
     StatusLine \o FieldLine}

Says(header, body, sound, result) ==
    [wire |-> header \o body, sound |-> sound, result |-> result]
Refused == <<"refused">>
NotHeard == Says(<<>>, <<>>, FALSE, Refused)

ChunkSayings(c) ==
    {Says(StmHeader, ChunkResponse("i4", c), TRUE, <<"chunk", c>>),
     Says(StandardHeader, ChunkResponse("string", c), TRUE, <<"chunk", c>>),
     Says(StandardHeader, FaultResponse, TRUE, <<"fault">>),
     Says(StandardHeader, Response(Struct(Member("cur", Number("i4", c.cur)))), TRUE,
          Refused)}

Reading == <<0, 64, 1, 0, 5>>
FourNumbers(style) ==
    Number(style, 0) \o Number(style, 64) \o Number(style, 1) \o Number(style, 0)
Numbers(style) == FourNumbers(style) \o Number(style, 5)
TelegramSayings ==
    {Says(h, ArrayResponse(Numbers("i4")), TRUE, <<"telegram", Reading>>) :
        h \in {StmHeader, StandardHeader}}
    \cup {Says(h, ArrayResponse(Numbers("int")), FALSE, <<"telegram", Reading>>) :
        h \in UnsoundHeaders}
    \cup {Says(StandardHeader, body, TRUE, Refused) :
        body \in {ArrayResponse(FourNumbers("i4")),
                  ArrayResponse(Numbers("i4") \o Numbers("i4")),
                  ArrayResponse(Numbers("string")),
                  Response(Number("bare", 5)), EmptyResponse, <<>>}}

InputSayings ==
    {Says(StmHeader, Response(Number(style, 0)), TRUE, <<"done">>) :
        style \in {"i4", "bare"}}
    \cup {Says(StandardHeader, FaultResponse, TRUE, <<"fault">>)}

-----------------------------------------------------------------------------
(* Operations: the scheduler runs one at a time.                           *)

Running == op.status = "running"
CurrentCall == op.plan[op.done + 1]
Begin(kind, plan) ==
    op' = [kind |-> kind, plan |-> plan, done |-> 0,
           status |-> IF plan = <<>> THEN "failed" ELSE "running"]
Loading == at \in {"loop", "asked", "answered"}

Init ==
    /\ D!Init /\ C!Idle /\ lastSanitized = FALSE /\ P!NothingParsed
    /\ op = [kind |-> "none", plan |-> <<>>, done |-> 0, status |-> "ok"]
    /\ heard = <<>>
    /\ meant = NotHeard
    /\ operations = 0

(* An edit shows in the next chunk and nowhere else: it is taken to come   *)
(* just before one.                                                        *)
EditProject ==
    /\ method = "readFile" /\ wire = <<>> /\ answer = C!Unanswered
    /\ D!EditProject
    /\ UNCHANGED <<clientVars, parserVars, opVars>>

AskChunk == D!AskChunk /\ UNCHANGED <<clientVars, parserVars, opVars>>

(* scheduledReader.ReadFile: the call waits for its turn.                  *)
ChunkBegins ==
    /\ at = "asked" /\ ~Running
    /\ Begin("chunk", <<[call |-> "readFile", index |-> i]>>)
    /\ heard' = <<>>
    /\ UNCHANGED <<downloadVars, clientVars, parserVars, meant, operations>>

OperationBegins(plan) ==
    /\ Loading /\ ~Running
    /\ operations < MaxOperations
    /\ operations' = operations + 1
    /\ Begin("command", plan)
    /\ heard' = <<>>
    /\ UNCHANGED <<downloadVars, clientVars, parserVars, meant>>

(* Execute turns down what the device cannot do.                           *)
Plans == {Cmd!Poll(module) : module \in Modules} \cup
         UNION {{Cmd!Plan(device, action) :
                   action \in Cmd!Capabilities(device) \cap Actions} :
                device \in Devices}

CallSTM ==
    /\ Running
    /\ C!Call(CurrentCall.call)
    /\ UNCHANGED <<downloadVars, parserVars, opVars>>

(* The STM executes the call and answers.                                  *)
Answer(saying) ==
    /\ C!Respond(saying.wire)
    /\ meant' = saying
    /\ heard' = Append(heard, CurrentCall)
    /\ UNCHANGED <<parserVars, op, operations>>

STMAnswersChunk ==
    /\ method = "readFile"
    /\ D!AnswerChunk
    /\ \E saying \in ChunkSayings(chunk') : Answer(saying)

STMAnswersTelegram ==
    /\ method = "sendTelegram"
    /\ \E saying \in TelegramSayings : Answer(saying)
    /\ UNCHANGED downloadVars

STMAnswersInput ==
    /\ method = "simInputEvent"
    /\ \E saying \in InputSayings : Answer(saying)
    /\ UNCHANGED downloadVars

ClientStep ==
    /\ \/ C!Deliver \/ C!ReadStatusLine \/ C!ReadHeaderLine \/ C!RewriteFails
       \/ C!ReadBody
    /\ UNCHANGED <<downloadVars, parserVars, opVars>>

Timeout == C!Interrupt /\ UNCHANGED <<downloadVars, parserVars, opVars>>

OpEnds(status) == op' = [op EXCEPT !.done = @ + 1, !.status = status]

(* The chunk call returns to Download.                                     *)
ChunkArrives ==
    /\ op.kind = "chunk" /\ Running
    /\ answer[1] = "chunk"
    /\ D!TakeChunk(answer[2]) \/ D!RefuseChunk(answer[2])
    /\ C!Returned /\ meant' = NotHeard
    /\ OpEnds("ok")
    /\ UNCHANGED <<parserVars, heard, operations>>

(* BUG: a chunk that could not be read is asked for again.                 *)
ChunkRetried ==
    /\ op.kind = "chunk" /\ Running
    /\ answer[1] \in {"error", "fault"}
    /\ at' = "loop" /\ chunk' = D!NoChunk
    /\ UNCHANGED <<i, expectedTotal, buf, size, project, seen>>
    /\ C!Returned /\ meant' = NotHeard
    /\ OpEnds("failed")
    /\ UNCHANGED <<parserVars, heard, operations>>

ChunkFails ==
    /\ op.kind = "chunk" /\ Running
    /\ answer[1] \in {"error", "fault"}
    /\ D!ReadFails
    /\ C!Returned /\ meant' = NotHeard
    /\ OpEnds("failed")
    /\ UNCHANGED <<parserVars, heard, operations>>

(* BUG: an event that failed does not end the plan.                        *)
GoesOn == answer # C!Unanswered

(* sendInputPlan goes on after a call that succeeded, and only then.       *)
Succeeded == answer[1] \in {"telegram", "done"}

CommandCallReturns ==
    /\ op.kind = "command" /\ Running
    /\ answer # C!Unanswered
    /\ OpEnds(IF ~Succeeded THEN "failed"
              ELSE IF op.done + 1 < Len(op.plan) THEN "running" ELSE "ok")
    /\ C!Returned /\ meant' = NotHeard
    /\ UNCHANGED <<downloadVars, parserVars, heard, operations>>

-----------------------------------------------------------------------------
(* Extract and Parse.                                                      *)

(* The projects the ZIP in buf can be: it opens, and its checksums are     *)
(* right, when it is one of them.                                          *)
Opened == {p \in Projects : buf = PiecesOf[p]}

ExtractAndParse ==
    /\ at = "done" /\ loop = "idle" /\ ~Running
    /\ IF Opened = {} THEN loop' = "unreadable" /\ UNCHANGED
                             <<n, channels, actions, added, down, up, unpaired,
                               represented, floors>>
       ELSE \E p \in Opened : \E archive \in ArchivesOf[p] :
              LET members == D!Extract(archive, MaxZIPEntries, MaxEntryBytes) IN
              IF members = {} THEN loop' = "unreadable" /\ UNCHANGED
                                     <<n, channels, actions, added, down, up,
                                       unpaired, represented, floors>>
              ELSE \E files \in FilesOf[p] :
                     P!Parse(files.ppfx, IF \E e \in members : e.name = "project.tpfx"
                                           THEN {files.tpfx} ELSE {})
    /\ UNCHANGED <<downloadVars, clientVars, opVars>>

BuildProject == P!Build /\ UNCHANGED <<downloadVars, clientVars, opVars>>

LoadOver == at = "failed" \/ loop \in {"done", "failed", "unreadable"}
Stop == LoadOver /\ ~Running /\ UNCHANGED vars

Next ==
    \/ EditProject \/ AskChunk \/ ChunkBegins
    \/ \E plan \in Plans : OperationBegins(plan)
    \/ CallSTM \/ STMAnswersChunk \/ STMAnswersTelegram \/ STMAnswersInput
    \/ ClientStep \/ Timeout \/ ChunkArrives \/ ChunkFails \/ CommandCallReturns
    \/ ExtractAndParse \/ BuildProject \/ Stop

(* The STM need not answer, nor send a response to its end; the client's   *)
(* timeouts see to it that the call ends.  The loop of the download and    *)
(* the scheduler are the bridge's own goroutines, which run.               *)
Fairness ==
    /\ WF_vars(AskChunk) /\ WF_vars(ChunkBegins) /\ WF_vars(CallSTM)
    /\ WF_vars(Timeout) /\ WF_vars(ChunkArrives) /\ WF_vars(ChunkFails)
    /\ WF_vars(CommandCallReturns)
FairSpec == Init /\ [][Next]_vars /\ Fairness

-----------------------------------------------------------------------------
(* Properties.                                                             *)

(* What a call returns without an error is what the STM meant, in whatever *)
(* pieces the response came and wherever the connection broke (client.go,  *)
(* xmlrpc.go).                                                             *)
AnswersAreTrue == answer[1] \notin {"none", "error"} => answer = meant.result

(* A response with the one known defect, or with none, that came to its    *)
(* end is read: the fix works however TCP splits it (transport.go:43).     *)
GoodResponsesAreRead ==
    answer = C!Error("response") /\ ~cutShort =>
        ~meant.sound \/ meant.result = Refused

(* What net/http gets is what the STM sent but for a bare date line that   *)
(* comes first, and the client reports just that (transport.go:38).        *)
OnlyTheDefectIsRemoved ==
    LET defect == SubSeq(wire, 3, 4) = DateLine IN
    rewrite = "serving" =>
        /\ lastSanitized = defect
        /\ SubSeq(wire, 1, taken) =
             IF defect THEN SubSeq(out, 1, 2) \o DateLine \o SubSeq(out, 3, Len(out))
             ELSE out

(* The STM executes the calls of a command in order, none of them twice    *)
(* and nothing in between, and all of them when the command is reported as *)
(* done; a command that failed may leave an input pressed, but never has   *)
(* later events follow a missing one (commands.go:139).                    *)
PlansRunInOrder ==
    op.kind = "command" =>
        /\ C!IsPrefix(heard, op.plan)
        /\ op.status = "ok" => heard = op.plan

(* Chunk by chunk over such a client, with other operations in between and *)
(* the project changing, the download is a download in the sense of        *)
(* Download.tla: the theorems about it hold here.                          *)
ImplementsDownload == D!Spec

LoadedWasThere == D!LoadedWasThere
PiecesInPlace == D!PiecesInPlace
NoSharedInput == P!NoSharedInput
EveryInputOperable == P!EveryInputOperable
OrderIrrelevant == P!OrderIrrelevant
RefusedOnlyForConflicts == P!RefusedOnlyForConflicts
FloorsInOrder == P!FloorsInOrder

(* A download ends, whether the STM answers or not, and however often its  *)
(* project changes (client.go:74: the timeouts of a call).                 *)
DownloadEnds == <>(at \in {"done", "failed"})
=============================================================================
