------------------------------ MODULE StmClient ------------------------------
(***************************************************************************)
(* One XML-RPC call to the STM (stm/client.go): the connection that takes  *)
(* the STM's malformed header line out of the response however TCP splits  *)
(* it (stm/transport.go), the decoder of the response (stm/xmlrpc.go) and  *)
(* the typed results of the calls.                                         *)
(*                                                                         *)
(* A response is a sequence of symbols: pieces of header lines, then the   *)
(* XML tokens of the body.  A symbol arrives whole; any number of them     *)
(* arrive at a time, and the STM may close the connection after any.       *)
(*                                                                         *)
(* An operator under a comment that begins with BUG is part of no          *)
(* specification: it is the definition after it with a mistake in it.      *)
(***************************************************************************)
EXTENDS Integers, Sequences, SequencesExt

CONSTANTS
    Nothing,         \* an empty payload
    MaxHeaderLine,   \* limit: symbols of a header line
    MaxHeaderBytes,  \* limit: symbols of the header block
    MaxResponse,     \* limit: symbols of a body
    MaxSegment       \* bound: symbols that arrive at a time in the header

VARIABLES
    method,     \* the call in flight, or "idle"
    wire,       \* the response
    arrived,    \* how much has come out of the connection into bufio
    taken,      \* how much readLine has consumed
    cutShort,   \* history: the connection ended before the response did
    rewrite,    \* where rewrite is
    out,        \* the header block it has made
    lastSanitized,
    answer      \* what the call returns

clientVars == <<method, wire, arrived, taken, cutShort, rewrite, out,
                lastSanitized, answer>>
lineVars == <<method, wire, arrived>>

Status   == <<"head", "status">>
BareDate == <<"head", "date">>      \* "Thu, 11 Jun 2026 21: 56:00"
Field    == <<"head", "field">>     \* part of a well-formed header
Junk     == <<"head", "junk">>      \* part of a malformed one
Newline  == <<"head", "newline">>
Blank    == <<Newline>>

Unanswered == <<"none">>
Error(why) == <<"error", why>>

Idle ==
    /\ method = "idle" /\ wire = <<>> /\ arrived = 0 /\ taken = 0
    /\ cutShort = FALSE /\ rewrite = "status" /\ out = <<>> /\ answer = Unanswered

-----------------------------------------------------------------------------
(* xmlrpc.go: the decoder.  A frame is a function that has been called and *)
(* has not returned; the frames are innermost last.                        *)

Start(tag) == <<"start", tag>>
End(tag)   == <<"end", tag>>
Text(kind, data) == <<"text", <<kind, data>>>>
Space == <<"space", 0>>

Frame(is, tag) == [is |-> is, tag |-> tag, depth |-> 1, text |-> <<>>,
                   items |-> <<>>, fields |-> <<>>, name |-> <<>>]

(* strings.TrimSpace                                                       *)
Trimmed(text) ==
    LET solid == {k \in 1..Len(text) : text[k] # Space} IN
    IF solid = {} THEN <<>>
    ELSE SubSeq(text, CHOOSE k \in solid : \A j \in solid : k <= j,
                      CHOOSE k \in solid : \A j \in solid : j <= k)
IsNumber(text) == Len(Trimmed(text)) = 1 /\ Trimmed(text)[1][1] = "number"
NumberIn(text) == Trimmed(text)[1][2]

(* decodeTyped, for the tags that hold text; none when it does not fit.    *)
Leaf(tag, text) ==
    CASE tag \in {"i4", "int"} ->
            IF IsNumber(text) THEN <<"int", NumberIn(text)>> ELSE Unanswered
      [] tag = "boolean" -> <<"bool", Trimmed(text) = <<<<"number", 1>>>>>>
      [] tag = "base64" ->
            CASE Trimmed(text) = <<>> -> <<"bytes", Nothing>>
              [] Len(Trimmed(text)) = 1 /\ Trimmed(text)[1][1] = "base64" ->
                    <<"bytes", NumberIn(text)>>
              [] OTHER -> Unanswered
      [] OTHER -> <<"text", text>>

Put(fields, name, v) ==
    [key \in DOMAIN fields \cup {name} |-> IF key = name THEN v ELSE fields[key]]

(* The innermost function returns v to its caller.                         *)
Give(frames, v) ==
    LET callee == Last(frames)
        rest == Front(frames)
        caller == Last(rest)
        Becomes(f) == [stack |-> Append(Front(rest), f), result |-> Unanswered]
    IN  CASE caller.is = "container" ->
               [stack |-> rest,
                result |-> IF caller.tag = "params" THEN <<"value", v>>
                           ELSE IF v[1] = "struct" THEN <<"fault">>
                           ELSE Error("malformed fault")]
          [] caller.is = "array" ->
               Becomes([caller EXCEPT !.items = Append(@, v)])
          [] caller.is = "struct" /\ callee.tag = "member" ->
               Becomes([caller EXCEPT !.name = Trimmed(v[2])])
          [] OTHER ->
               Becomes([caller EXCEPT !.fields = Put(@, caller.name, v)])

(* One token, read by the innermost function.                              *)
Read(d, token) ==
    LET stack == d.stack
        top == Last(stack)
        what == token[1]
        tag == token[2]
        Becomes(f) == [d EXCEPT !.stack = Append(Front(stack), f)]
        Calls(f) == [d EXCEPT !.stack = Append(stack, f)]
        Fails(why) == [d EXCEPT !.result = Error(why)]
    IN  IF stack = <<>> THEN     \* decodeResponse
             IF what = "start" /\ tag \in {"params", "fault"}
               THEN Calls(Frame("container", tag)) ELSE d
        ELSE
        CASE top.is = "container" ->     \* firstValue
               CASE what = "start" /\ tag = "value" -> Calls(Frame("value", tag))
                 [] what = "end" /\ tag = top.tag -> Fails("no value")
                 [] OTHER -> d
          [] top.is = "value" ->     \* decodeValue, decodeTyped
               CASE what = "text" -> Becomes([top EXCEPT !.text = Append(@, tag)])
                 [] what = "end" -> Give(stack, <<"text", top.text>>)
                 [] OTHER -> Becomes(Frame(IF tag \in {"array", "struct"}
                                             THEN tag ELSE "leaf", tag))
          [] top.is = "leaf" ->     \* leafText
               CASE what = "text" -> Becomes([top EXCEPT !.text = Append(@, tag)])
                 [] what = "start" -> Becomes([top EXCEPT !.depth = @ + 1])
                 [] OTHER -> IF top.depth > 1
                                 THEN Becomes([top EXCEPT !.depth = @ - 1])
                               ELSE IF Leaf(top.tag, top.text) = Unanswered
                                 THEN Fails("bad leaf")
                               ELSE Give(stack, Leaf(top.tag, top.text))
          [] top.is = "array" ->     \* decodeArray
               CASE what = "start" /\ tag = "value" -> Calls(Frame("value", tag))
                 [] what = "end" /\ tag = "array" ->
                      Give(stack, <<"array", top.items>>)
                 [] OTHER -> d
          [] OTHER ->     \* decodeStruct
               CASE what = "start" /\ tag = "value" -> Calls(Frame("value", tag))
                 [] what = "start" /\ tag = "name" -> Calls(Frame("leaf", "member"))
                 [] what = "end" /\ tag = "struct" ->
                      Give(stack, <<"struct", top.fields>>)
                 [] OTHER -> d

(* decodeResponse: it stops at the first value; a body that ends before is *)
(* an error.                                                               *)
Begun == [stack |-> <<>>, result |-> Unanswered]
ReadOn(d, token) == IF d.result = Unanswered THEN Read(d, token) ELSE d
Reading(body) ==
    LET reading[k \in 0..Len(body)] ==
          IF k = 0 THEN Begun ELSE ReadOn(reading[k - 1], body[k])
    IN  reading
Decode(body) ==
    LET result == Reading(body)[Len(body)].result
    IN  IF result = Unanswered THEN Error("truncated") ELSE result

-----------------------------------------------------------------------------
(* client.go: the typed results.  A struct or an array of another shape is *)
(* an error; integers may come as text.                                    *)

HasInt(fields, name) ==
    /\ name \in DOMAIN fields
    /\ \/ fields[name][1] = "int"
       \/ fields[name][1] = "text" /\ IsNumber(fields[name][2])
IntIn(fields, name) ==
    IF fields[name][1] = "int" THEN fields[name][2]
    ELSE NumberIn(fields[name][2])

ReadFile(v) ==
    IF v[1] # "struct" \/ ~HasInt(v[2], <<<<"word", "cur">>>>)
                       \/ ~HasInt(v[2], <<<<"word", "total">>>>)
      THEN Error("response")
      ELSE LET fields == v[2]
               bin == <<<<"word", "bin">>>>
           IN  <<"chunk", [cur |-> IntIn(fields, <<<<"word", "cur">>>>),
                 total |-> IntIn(fields, <<<<"word", "total">>>>),
                 bin |-> IF bin \in DOMAIN fields /\ fields[bin][1] = "bytes"
                           THEN fields[bin][2] ELSE Nothing]>>

(* BUG: the length of the array is not checked.                            *)
SendTelegramAnyLength(v) ==
    IF v[1] # "array" THEN Error("response")
    ELSE IF \E k \in 1..Len(v[2]) : v[2][k][1] # "int" THEN Error("response")
    ELSE <<"telegram", [k \in 1..Len(v[2]) |-> v[2][k][2]]>>

SendTelegram(v) ==
    IF v[1] # "array" THEN Error("response")
    ELSE IF Len(v[2]) # 5 \/ \E k \in 1..Len(v[2]) : v[2][k][1] # "int"
      THEN Error("response")
    ELSE <<"telegram", [k \in 1..5 |-> v[2][k][2]]>>

(* What the call m returns for a decoded response.                         *)
Result(m, decoded) ==
    IF decoded[1] # "value"
      THEN IF decoded[1] = "fault" THEN decoded ELSE Error("response")
    ELSE CASE m = "readFile" -> ReadFile(decoded[2])
           [] m = "sendTelegram" -> SendTelegram(decoded[2])
           [] OTHER -> <<"done">>     \* simInputEvent

-----------------------------------------------------------------------------
(* transport.go and call: one connection per call.                         *)

(* The request goes out.                                                   *)
Call(m) ==
    /\ Idle
    /\ method' = m
    /\ UNCHANGED <<wire, arrived, taken, cutShort, rewrite, out, lastSanitized,
                   answer>>

(* The STM answers with w.                                                 *)
Respond(w) ==
    /\ method # "idle" /\ wire = <<>> /\ answer = Unanswered
    /\ wire' = w
    /\ UNCHANGED <<method, arrived, taken, cutShort, rewrite, out, lastSanitized,
                   answer>>

(* readLine returns a line, or fails: the connection ends, or the line is  *)
(* too long.                                                               *)
LineEnds == {k \in (taken + 1)..arrived : wire[k] = Newline}
LineEnd == CHOOSE k \in LineEnds : \A j \in LineEnds : k <= j
Line == SubSeq(wire, taken + 1, LineEnd)
Rewriting == rewrite \in {"status", "first", "headers"} /\ answer = Unanswered
LineRead == LineEnds # {} /\ Len(Line) <= MaxHeaderLine
LineFails == wire # <<>> /\ (LineEnds # {} => Len(Line) > MaxHeaderLine)

(* A segment, when readLine has to wait for one.                           *)
Deliver ==
    /\ Rewriting /\ LineEnds = {}
    /\ \E k \in 1..MaxSegment :
         arrived + k <= Len(wire) /\ arrived' = arrived + k
    /\ UNCHANGED <<method, wire, taken, cutShort, rewrite, out, lastSanitized,
                   answer>>

Fail(early) ==
    answer' = Error("response") /\ rewrite' = "broken" /\ cutShort' = early

ReadStatusLine ==
    /\ rewrite = "status" /\ answer = Unanswered /\ LineRead
    /\ taken' = LineEnd
    /\ out' = Line
    /\ rewrite' = "first"
    /\ UNCHANGED <<lineVars, cutShort, lastSanitized, answer>>

(* BUG: every bare date line is removed, not only the first header line.   *)
AnyLineEligible(line) == line = <<BareDate, Newline>>

(* Only the first header line may be removed, and only the known defect.   *)
Removed(line) == rewrite = "first" /\ line = <<BareDate, Newline>>

(* rewrite is over: the client notes whether a line was removed.           *)
Report == lastSanitized' = (taken # Len(out))

(* taken is total as well: the symbols of the lines read so far.           *)
ReadHeaderLine ==
    /\ rewrite \in {"first", "headers"} /\ answer = Unanswered /\ LineRead
    /\ taken' = LineEnd
    /\ IF LineEnd > MaxHeaderBytes
         THEN Fail(FALSE) /\ Report /\ UNCHANGED out
         ELSE /\ out' = IF Removed(Line) THEN out ELSE out \o Line
              /\ UNCHANGED <<answer, cutShort>>
              /\ IF Line = Blank THEN rewrite' = "serving" /\ Report
                 ELSE rewrite' = "headers" /\ UNCHANGED lastSanitized
    /\ UNCHANGED lineVars

RewriteFails ==
    /\ Rewriting /\ LineFails
    /\ Fail(LineEnds = {} /\ arrived < Len(wire)) /\ Report
    /\ UNCHANGED <<lineVars, taken, out>>

(* net/http takes a header block without malformed lines.                  *)
Accepted(header) ==
    /\ header[1] = Status
    /\ \A k \in 1..Len(header) : header[k] \notin {Junk, BareDate}

(* BUG: what bufio holds beyond the header block is forgotten.             *)
LiveBody(end) == SubSeq(wire, arrived + 1, end)

(* What is left in bufio, then the connection until it ends.               *)
Body(end) == SubSeq(wire, taken + 1, arrived) \o SubSeq(wire, arrived + 1, end)

(* The body is read until the connection ends, and decoded.  When that was *)
(* too early net/http notices if the response says how long it is.         *)
ReadBody ==
    /\ rewrite = "serving" /\ answer = Unanswered
    /\ \E end \in arrived..Len(wire) :
         /\ cutShort' = (end < Len(wire))
         /\ \/ /\ Accepted(out) /\ Len(Body(end)) <= MaxResponse
               /\ answer' = Result(method, Decode(Body(end)))
            \/ /\ \/ ~Accepted(out)
                  \/ Len(Body(end)) > MaxResponse
                  \/ end < Len(wire)
               /\ answer' = Error("response")
    /\ UNCHANGED <<lineVars, taken, rewrite, out, lastSanitized>>

Closed ==
    wire' = <<>> /\ arrived' = 0 /\ taken' = 0 /\ out' = <<>> /\ rewrite' = "status"

(* BUG: nothing limits the wait for the first byte of a response.          *)
InterruptReading ==
    /\ method # "idle" /\ answer = Unanswered /\ wire # <<>>
    /\ answer' = Error("interrupted")
    /\ Report \/ UNCHANGED lastSanitized
    /\ Closed
    /\ UNCHANGED <<method, cutShort>>

(* No connection, a timeout, or the caller's context has ended.            *)
Interrupt ==
    /\ method # "idle" /\ answer = Unanswered
    /\ answer' = Error("interrupted")
    /\ Report \/ UNCHANGED lastSanitized
    /\ Closed
    /\ UNCHANGED <<method, cutShort>>

(* The caller has the answer; the connection is closed.                    *)
Returned ==
    /\ answer # Unanswered
    /\ method' = "idle" /\ cutShort' = FALSE /\ answer' = Unanswered
    /\ Closed
    /\ UNCHANGED lastSanitized
=============================================================================
