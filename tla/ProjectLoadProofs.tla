-------------------------- MODULE ProjectLoadProofs --------------------------
(***************************************************************************)
(* The load of a project and the commands between its chunks, over one     *)
(* connection per call, for any projects, devices, limits and ways TCP     *)
(* splits or cuts a response.  The parts:                                  *)
(*   - what the decoder makes of a body the STM sends, and of any          *)
(*     beginning of one;                                                   *)
(*   - what the sanitizer lets through of a header;                        *)
(*   - that a call therefore returns what was meant, or an error;          *)
(*   - in which order the STM executes the calls of a command;             *)
(*   - that the download is one in the sense of Download.tla, and so has   *)
(*     the properties that DownloadProofs proves of one.                   *)
(***************************************************************************)
EXTENDS ProjectLoad, WellFoundedInduction, TLAPS

DP == INSTANCE DownloadProofs

(* The symbols a response is made of.                                      *)
HeadPart == {"status", "date", "field", "junk", "newline"}
Tag == {"methodResponse", "params", "param", "fault", "value", "struct", "member",
        "name", "array", "data", "i4", "int", "string", "base64"}
Content == {"cur", "total", "bin", "faultCode"} \cup Int \cup Pieces
Token == ({"start", "end"} \X Tag)
         \cup ({"text"} \X ({"word", "number", "base64"} \X Content))
Symbol == ({"head"} \X HeadPart) \cup Token

(* A response begins with a header line of one symbol, and goes on.        *)
Opens(w) == Len(w) >= 4 /\ w[1] # C!Newline /\ w[2] = C!Newline

-----------------------------------------------------------------------------
(* What the STM can answer.                                                *)

LEMMA HeadSymbols ==
    /\ C!Status \in Symbol /\ C!BareDate \in Symbol /\ C!Field \in Symbol
    /\ C!Junk \in Symbol /\ C!Newline \in Symbol /\ C!Blank = <<C!Newline>>
    /\ C!Status # C!Newline /\ C!BareDate # C!Newline /\ C!Field # C!Newline
<1>1. /\ C!Status = <<"head", "status">> /\ C!BareDate = <<"head", "date">>
      /\ C!Field = <<"head", "field">> /\ C!Junk = <<"head", "junk">>
      /\ C!Newline = <<"head", "newline">> /\ C!Blank = <<C!Newline>>
  BY DEF C!Status, C!BareDate, C!Field, C!Junk, C!Newline, C!Blank
<1>2. \A part \in HeadPart : <<"head", part>> \in Symbol
  BY DEF Symbol
<1> QED
  BY <1>1, <1>2 DEF HeadPart

LEMMA LinesMade ==
    /\ \A a \in Symbol : HeaderLine(<<a>>) = <<a, C!Newline>>
    /\ \A symbols \in Seq(Symbol) : /\ HeaderLine(symbols) \in Seq(Symbol)
                                    /\ Len(HeaderLine(symbols)) = Len(symbols) + 1
<1>1. <<C!Newline>> \in Seq(Symbol) /\ C!Blank = <<C!Newline>>
  BY HeadSymbols
<1>2. ASSUME NEW a \in Symbol PROVE <<a>> \o <<C!Newline>> = <<a, C!Newline>>
  <2> DEFINE b == C!Newline
             s == <<a>> \o <<b>>
  <2> HIDE DEF b
  <2>1. b \in Symbol /\ <<a>> \in Seq(Symbol) /\ <<b>> \in Seq(Symbol)
        /\ Len(<<a>>) = 1 /\ Len(<<b>>) = 1
    BY HeadSymbols DEF b
  <2>2. s \in Seq(Symbol) /\ Len(s) = 2 /\ s[1] = a /\ s[2] = b
    BY <2>1
  <2>3. s = [k \in 1..2 |-> s[k]]
    BY <2>2
  <2> HIDE DEF s
  <2>4. s = <<a, b>>
    BY <2>2, <2>3
  <2> QED
    BY <2>4 DEF b, s
<1> QED
  BY <1>1, <1>2 DEF HeaderLine

LEMMA GoesOnOpen ==
    ASSUME NEW w \in Seq(Symbol), NEW rest \in Seq(Symbol)
    PROVE  w \o rest \in Seq(Symbol) /\ (Opens(w) => Opens(w \o rest))
  BY DEF Opens

LEMMA Joined ==
    ASSUME NEW S, NEW s \in Seq(S), NEW t \in Seq(S)
    PROVE  /\ s \o t \in Seq(S) /\ Len(s \o t) = Len(s) + Len(t)
           /\ \A k \in 1..Len(s) : (s \o t)[k] = s[k]
           /\ \A k \in 1..Len(t) : (s \o t)[Len(s) + k] = t[k]
  OBVIOUS

LEMMA FromOn ==
    ASSUME NEW S, NEW s \in Seq(S), NEW m \in 1..(Len(s) + 1)
    PROVE  /\ SubSeq(s, m, Len(s)) \in Seq(S)
           /\ Len(SubSeq(s, m, Len(s))) = Len(s) - m + 1
           /\ \A k \in 1..(Len(s) - m + 1) : SubSeq(s, m, Len(s))[k] = s[m + k - 1]
<1>1. CASE m <= Len(s)
  BY <1>1
<1>2. CASE m = Len(s) + 1
  <2>1. Len(s) < m
    BY <1>2
  <2>2. SubSeq(s, m, Len(s)) = <<>>
    BY <2>1
  <2> QED
    BY <1>2, <2>2
<1> QED
  BY <1>1, <1>2

LEMMA LineOpens ==
    ASSUME NEW line \in Seq(Symbol), Len(line) = 2, NEW w \in Seq(Symbol), Len(w) >= 2,
           line[1] # C!Newline, line[2] = C!Newline
    PROVE  line \o w \in Seq(Symbol) /\ Opens(line \o w)
<1>1. /\ line \o w \in Seq(Symbol) /\ Len(line \o w) = Len(line) + Len(w)
      /\ \A k \in 1..Len(line) : (line \o w)[k] = line[k]
  BY Joined
<1>2. (line \o w)[1] = line[1] /\ (line \o w)[2] = line[2] /\ Len(line \o w) >= 4
  BY <1>1
<1> QED
  BY <1>1, <1>2 DEF Opens

LEMMA HeadersOpen ==
    \A h \in UnsoundHeaders \cup {StmHeader, StandardHeader} : h \in Seq(Symbol) /\ Opens(h)
<1>1. /\ StatusLine = <<C!Status, C!Newline>> /\ DateLine = <<C!BareDate, C!Newline>>
      /\ FieldLine = <<C!Field, C!Newline>> /\ JunkLine = <<C!Junk, C!Newline>>
  BY HeadSymbols, LinesMade DEF StatusLine, DateLine, FieldLine, JunkLine
<1>2. /\ StatusLine \in Seq(Symbol) /\ DateLine \in Seq(Symbol) /\ FieldLine \in Seq(Symbol)
      /\ JunkLine \in Seq(Symbol) /\ C!Blank \in Seq(Symbol)
      /\ Len(DateLine) = 2 /\ Len(FieldLine) = 2 /\ Len(JunkLine) = 2
  BY <1>1, HeadSymbols
<1>3. LongLine \in Seq(Symbol) /\ Len(LongLine) >= 2
  <2> DEFINE fields == [k \in 1..MaxHeaderLine |-> C!Field]
  <2>1. fields \in Seq(Symbol) /\ Len(fields) = MaxHeaderLine
    BY HeadSymbols, HeaderAssumption
  <2> HIDE DEF fields
  <2>2. HeaderLine(fields) \in Seq(Symbol) /\ Len(HeaderLine(fields)) = MaxHeaderLine + 1
    BY <2>1, LinesMade
  <2> QED
    BY <2>2, HeaderAssumption DEF LongLine, fields
<1>4. LongHeader \in Seq(Symbol) /\ Opens(LongHeader)
  <2> DEFINE count == 2 * MaxHeaderBytes
             symbol(k) == IF k % 2 = 0 THEN C!Newline ELSE IF k = 1 THEN C!Status ELSE C!Field
  <2>1. count \in Nat /\ count >= 4 /\ LongHeader = [k \in 1..count |-> symbol(k)]
    BY HeaderAssumption DEF LongHeader
  <2>2. \A k \in 1..count : symbol(k) \in Symbol
    BY HeadSymbols
  <2>3. symbol(1) = C!Status /\ symbol(2) = C!Newline
    OBVIOUS
  <2> HIDE DEF count, symbol
  <2>4. LongHeader \in Seq(Symbol) /\ Len(LongHeader) = count
    BY <2>1, <2>2
  <2> QED
    BY <2>1, <2>3, <2>4, HeadSymbols DEF Opens
<1>5. /\ StatusLine \o FieldLine \in Seq(Symbol) /\ Opens(StatusLine \o FieldLine)
      /\ StatusLine \o DateLine \in Seq(Symbol) /\ Opens(StatusLine \o DateLine)
      /\ StatusLine \o JunkLine \in Seq(Symbol) /\ Opens(StatusLine \o JunkLine)
      /\ DateLine \o FieldLine \in Seq(Symbol) /\ Opens(DateLine \o FieldLine)
      /\ StatusLine \o LongLine \in Seq(Symbol) /\ Opens(StatusLine \o LongLine)
  <2>1. ASSUME NEW line \in {StatusLine, DateLine}, NEW w \in Seq(Symbol), Len(w) >= 2
        PROVE  line \o w \in Seq(Symbol) /\ Opens(line \o w)
    <3>1. line \in Seq(Symbol) /\ Len(line) = 2 /\ line[1] # C!Newline /\ line[2] = C!Newline
      <4>1. \A a \in {C!Status, C!BareDate} : <<a, C!Newline>> \in Seq(Symbol)
                /\ Len(<<a, C!Newline>>) = 2 /\ <<a, C!Newline>>[1] = a /\ a # C!Newline
                /\ <<a, C!Newline>>[2] = C!Newline
        BY HeadSymbols
      <4> QED
        BY <1>1, <4>1
    <3> QED
      BY <2>1, <3>1, LineOpens
  <2>2. \A w \in {DateLine, FieldLine, JunkLine, LongLine} : w \in Seq(Symbol) /\ Len(w) >= 2
    <3>1. /\ Len(DateLine) >= 2 /\ Len(FieldLine) >= 2 /\ Len(JunkLine) >= 2
      BY <1>2
    <3> QED
      BY <1>2, <1>3, <3>1
  <2>3. \A line \in {StatusLine, DateLine} : \A w \in {DateLine, FieldLine, JunkLine, LongLine} :
          line \o w \in Seq(Symbol) /\ Opens(line \o w)
    BY <2>1, <2>2
  <2> QED
    BY <2>3
<1>6. /\ StatusLine \o FieldLine \o DateLine \in Seq(Symbol)
      /\ Opens(StatusLine \o FieldLine \o DateLine)
      /\ StatusLine \o DateLine \o DateLine \in Seq(Symbol)
      /\ Opens(StatusLine \o DateLine \o DateLine)
      /\ StatusLine \o DateLine \o FieldLine \in Seq(Symbol)
      /\ Opens(StatusLine \o DateLine \o FieldLine)
  BY <1>2, <1>5, GoesOnOpen
<1>7. ASSUME NEW w \in Seq(Symbol), Opens(w)
      PROVE  w \o C!Blank \in Seq(Symbol) /\ Opens(w \o C!Blank)
  BY <1>2, <1>7, GoesOnOpen
<1>8. \A h \in {StmHeader, StandardHeader} : h \in Seq(Symbol) /\ Opens(h)
  BY <1>5, <1>6, <1>7 DEF StmHeader, StandardHeader
<1>9. \A h \in UnsoundHeaders : h \in Seq(Symbol) /\ Opens(h)
  BY <1>4, <1>5, <1>6, <1>7 DEF UnsoundHeaders
<1> QED
  BY <1>8, <1>9

(* The bodies.                                                             *)
LEMMA ElementsMade ==
    /\ \A tag \in Tag, content \in Seq(Token) : El(tag, content) \in Seq(Token)
    /\ \A kind \in {"word", "number", "base64"}, data \in Content :
         Txt(kind, data) \in Seq(Token)
<1>1. \A tag \in Tag : <<C!Start(tag)>> \in Seq(Token) /\ <<C!End(tag)>> \in Seq(Token)
  BY DEF C!Start, C!End, Token
<1>2. \A kind \in {"word", "number", "base64"}, data \in Content :
        <<C!Text(kind, data)>> \in Seq(Token)
  BY DEF C!Text, Token
<1>3. \A s, t \in Seq(Token) : s \o t \in Seq(Token)
  BY Joined
<1> QED
  BY <1>1, <1>2, <1>3 DEF El, Txt

LEMMA NumbersMade ==
    ASSUME NEW style \in {"i4", "int", "string", "bare"}, NEW k \in Int
    PROVE  Number(style, k) \in Seq(Token)
<1>1. k \in Content /\ "number" \in {"word", "number", "base64"}
  BY DEF Content
<1>2. Txt("number", k) \in Seq(Token)
  BY <1>1, ElementsMade
<1>3. "value" \in Tag /\ (style # "bare" => style \in Tag)
  BY DEF Tag
<1>4. style # "bare" => El(style, Txt("number", k)) \in Seq(Token)
  BY <1>2, <1>3, ElementsMade
<1> QED
  BY <1>2, <1>3, <1>4, ElementsMade DEF Number

LEMMA BodiesMade ==
    /\ \A style \in {"i4", "int", "string"} :
         FourNumbers(style) \in Seq(Token) /\ Numbers(style) \in Seq(Token)
    /\ \A s \in Seq(Token) :
         /\ ArrayResponse(s) \in Seq(Token) /\ Response(s) \in Seq(Token)
         /\ Struct(s) \in Seq(Token)
    /\ \A name \in {"cur", "total", "bin", "faultCode"}, value \in Seq(Token) :
         Member(name, value) \in Seq(Token)
    /\ FaultResponse \in Seq(Token) /\ EmptyResponse \in Seq(Token)
<1>1. \A s, t \in Seq(Token) : s \o t \in Seq(Token)
  BY Joined
<1>2. \A style \in {"i4", "int", "string"} :
         FourNumbers(style) \in Seq(Token) /\ Numbers(style) \in Seq(Token)
  <2> TAKE style \in {"i4", "int", "string"}
  <2>1. style \in {"i4", "int", "string", "bare"}
    OBVIOUS
  <2>2. \A k \in {0, 1, 5, 64} : Number(style, k) \in Seq(Token)
    <3> TAKE k \in {0, 1, 5, 64}
    <3>1. k \in Int
      OBVIOUS
    <3> QED
      BY <2>1, <3>1, NumbersMade
  <2>3. FourNumbers(style) \in Seq(Token)
    BY <1>1, <2>2 DEF FourNumbers
  <2> QED
    BY <1>1, <2>2, <2>3 DEF Numbers
<1>3. \A tag \in {"value", "array", "data", "struct", "methodResponse", "params", "param",
                  "fault", "member", "name"} : tag \in Tag
  BY DEF Tag
<1>4. \A tag \in {"value", "array", "data", "struct", "methodResponse", "params", "param",
                  "fault", "member", "name"}, s \in Seq(Token) : El(tag, s) \in Seq(Token)
  BY <1>3, ElementsMade
<1>5. \A s \in Seq(Token) : /\ Response(s) \in Seq(Token) /\ Struct(s) \in Seq(Token)
                             /\ El("value", El("array", El("data", s))) \in Seq(Token)
  BY <1>4 DEF Response, Struct
<1>6. \A s \in Seq(Token) : ArrayResponse(s) \in Seq(Token)
  BY <1>5 DEF ArrayResponse
<1>7. \A name \in {"cur", "total", "bin", "faultCode"} : Txt("word", name) \in Seq(Token)
  <2>1. \A name \in {"cur", "total", "bin", "faultCode"} : name \in Content
    BY DEF Content
  <2> QED
    BY <2>1, ElementsMade
<1>8. \A name \in {"cur", "total", "bin", "faultCode"}, value \in Seq(Token) :
         Member(name, value) \in Seq(Token)
  <2> TAKE name \in {"cur", "total", "bin", "faultCode"}, value \in Seq(Token)
  <2>1. El("name", Txt("word", name)) \in Seq(Token)
    BY <1>4, <1>7
  <2>2. El("name", Txt("word", name)) \o value \in Seq(Token)
    BY <1>1, <2>1
  <2> QED
    BY <1>4, <2>2 DEF Member
<1>9. <<>> \in Seq(Token) /\ Number("i4", 4) \in Seq(Token)
  BY NumbersMade
<1>10. FaultResponse \in Seq(Token)
  <2>1. Struct(Member("faultCode", Number("i4", 4))) \in Seq(Token)
    BY <1>5, <1>8, <1>9
  <2> QED
    BY <1>4, <2>1 DEF FaultResponse
<1>11. EmptyResponse \in Seq(Token)
  BY <1>4, <1>9 DEF EmptyResponse
<1> QED
  BY <1>2, <1>5, <1>6, <1>8, <1>10, <1>11

LEMMA LeastOf ==
    ASSUME NEW T \in SUBSET Nat, T # {}
    PROVE  \E x \in T : \A y \in T : x <= y
<1> DEFINE Less == {p \in Nat \X Nat : p[1] < p[2]}
<1>1. IsWellFoundedOn(Less, Nat)
  BY NatLessThanWellFounded DEF OpToRel
<1> HIDE DEF Less
<1>2. PICK x \in T : \A y \in T : <<y, x>> \notin Less
  BY <1>1, WFMin
<1>3. \A y \in T : y < x => <<y, x>> \in Less
  BY DEF Less
<1>4. ASSUME NEW y \in T PROVE x <= y
  <2>1. x \in Nat /\ y \in Nat
    OBVIOUS
  <2>2. ~(y < x)
    BY <1>2, <1>3
  <2> QED
    BY <2>1, <2>2
<1> QED
  BY <1>4

-----------------------------------------------------------------------------
(* The decoder.  Leads(d, s, e): reading the tokens s takes it from the   *)
(* state d to the state e, whatever comes before and after them.           *)

IsReading(reading, body) ==
    reading = [k \in 0..Len(body) |->
                 IF k = 0 THEN C!Begun ELSE C!ReadOn(reading[k - 1], body[k])]

Leads(d, s, e) ==
    \A reading : \A body \in Seq(Token), a \in Nat :
        /\ IsReading(reading, body) /\ a + Len(s) <= Len(body)
        /\ \A k \in 1..Len(s) : body[a + k] = s[k]
        /\ reading[a] = d
        => reading[a + Len(s)] = e

LEMMA LeadsOn ==
    ASSUME NEW s \in Seq(Token), NEW t \in Seq(Token), NEW d, NEW e, NEW f,
           Leads(d, s, e), Leads(e, t, f)
    PROVE  Leads(d, s \o t, f)
<1> SUFFICES ASSUME NEW body \in Seq(Token), NEW reading, NEW a \in Nat,
                    IsReading(reading, body), a + Len(s \o t) <= Len(body),
                    \A k \in 1..Len(s \o t) : body[a + k] = (s \o t)[k],
                    reading[a] = d
             PROVE  reading[a + Len(s \o t)] = f
  BY DEF Leads
<1>1. /\ Len(s \o t) = Len(s) + Len(t) /\ Len(s) \in Nat /\ Len(t) \in Nat
      /\ Len(body) \in Nat
      /\ \A k \in 1..Len(s) : (s \o t)[k] = s[k]
      /\ \A k \in 1..Len(t) : (s \o t)[Len(s) + k] = t[k]
  BY Joined
<1>2. a + Len(s) <= Len(body) /\ \A k \in 1..Len(s) : body[a + k] = s[k]
  <2>1. \A k \in 1..Len(s) : k \in 1..Len(s \o t)
    BY <1>1
  <2> QED
    BY <1>1, <2>1
<1>3. reading[a + Len(s)] = e
  BY <1>2 DEF Leads
<1> DEFINE b == a + Len(s)
<1>4. b \in Nat /\ b + Len(t) <= Len(body) /\ b + Len(t) = a + Len(s \o t)
  BY <1>1
<1>5. ASSUME NEW k \in 1..Len(t) PROVE body[b + k] = t[k]
  <2>1. Len(s) + k \in 1..Len(s \o t) /\ a + (Len(s) + k) = b + k
    BY <1>1
  <2>2. body[a + (Len(s) + k)] = (s \o t)[Len(s) + k]
    BY <2>1
  <2> QED
    BY <1>1, <2>1, <2>2
<1>6. reading[b] = e
  BY <1>3
<1> HIDE DEF b
<1>7. reading[b + Len(t)] = f
  BY <1>4, <1>5, <1>6 DEF Leads
<1> QED
  BY <1>4, <1>7

LEMMA LeadsOne ==
    ASSUME NEW d, NEW token \in Token
    PROVE  Leads(d, <<token>>, C!ReadOn(d, token))
<1> SUFFICES ASSUME NEW body \in Seq(Token), NEW reading, NEW a \in Nat,
                    IsReading(reading, body), a + Len(<<token>>) <= Len(body),
                    \A k \in 1..Len(<<token>>) : body[a + k] = <<token>>[k],
                    reading[a] = d
             PROVE  reading[a + Len(<<token>>)] = C!ReadOn(d, token)
  BY DEF Leads
<1>1. Len(<<token>>) = 1 /\ <<token>>[1] = token /\ Len(body) \in Nat
  OBVIOUS
<1>2. body[a + 1] = token /\ a + 1 \in 0..Len(body) /\ a + 1 # 0 /\ (a + 1) - 1 = a
  BY <1>1
<1>3. reading[a + 1] = C!ReadOn(reading[(a + 1) - 1], body[a + 1])
  BY <1>2 DEF IsReading
<1> QED
  BY <1>1, <1>2, <1>3

LEMMA LeadsElement ==
    ASSUME NEW tag \in Tag, NEW content \in Seq(Token), NEW d, NEW e,
           Leads(C!ReadOn(d, C!Start(tag)), content, e)
    PROVE  Leads(d, El(tag, content), C!ReadOn(e, C!End(tag)))
<1>1. /\ C!Start(tag) \in Token /\ C!End(tag) \in Token
      /\ <<C!Start(tag)>> \in Seq(Token) /\ <<C!End(tag)>> \in Seq(Token)
  BY DEF C!Start, C!End, Token
<1>2. Leads(d, <<C!Start(tag)>>, C!ReadOn(d, C!Start(tag)))
  BY <1>1, LeadsOne
<1>3. Leads(d, <<C!Start(tag)>> \o content, e)
  BY <1>1, <1>2, LeadsOn
<1>4. Leads(e, <<C!End(tag)>>, C!ReadOn(e, C!End(tag)))
  BY <1>1, LeadsOne
<1>5. <<C!Start(tag)>> \o content \in Seq(Token)
  BY <1>1
<1> QED
  BY <1>1, <1>3, <1>4, <1>5, LeadsOn DEF El

LEMMA LeadsText ==
    ASSUME NEW kind \in {"word", "number", "base64"}, NEW data \in Content, NEW d
    PROVE  Leads(d, Txt(kind, data), C!ReadOn(d, C!Text(kind, data)))
<1>1. C!Text(kind, data) \in Token
  BY DEF C!Text, Token
<1> QED
  BY <1>1, LeadsOne DEF Txt

(* Reading exists, and is the only one.                                    *)
LEMMA ReadingExists ==
    ASSUME NEW body \in Seq(Token)
    PROVE  IsReading(C!Reading(body), body)
<1> DEFINE Upto(reading, last) ==
             reading = [k \in 0..last |-> IF k = 0 THEN C!Begun
                                       ELSE C!ReadOn(reading[k - 1], body[k])]
           Missing == {last \in Nat : ~\E reading : Upto(reading, last)}
<1>1. Missing = {}
  <2> SUFFICES ASSUME Missing # {} PROVE FALSE
    OBVIOUS
  <2>1. PICK last \in Missing : \A other \in Missing : last <= other
    BY LeastOf
  <2>2. last \in Nat /\ ~\E reading : Upto(reading, last)
    OBVIOUS
  <2>3. CASE last = 0
    <3> DEFINE reading == [k \in 0..0 |-> C!Begun]
    <3>1. Upto(reading, 0)
      OBVIOUS
    <3> QED
      BY <2>2, <2>3, <3>1
  <2>4. CASE last # 0
    <3>1. last - 1 \in Nat /\ last - 1 \notin Missing
      <4>1. last - 1 \in Nat /\ ~(last <= last - 1)
        BY <2>2, <2>4
      <4> HIDE DEF Missing
      <4> QED
        BY <2>1, <4>1
    <3>2. PICK before : Upto(before, last - 1)
      BY <3>1
    <3> DEFINE reading == [k \in 0..last |-> IF k = last THEN C!ReadOn(before[last - 1], body[last])
                                          ELSE before[k]]
    <3>3. ASSUME NEW k \in 0..last
          PROVE  reading[k] = IF k = 0 THEN C!Begun ELSE C!ReadOn(reading[k - 1], body[k])
      <4>1. CASE k = last
        <5>1. k - 1 \in 0..last /\ k - 1 # last
          BY <2>2, <2>4, <4>1
        <5>2. reading[k - 1] = before[last - 1]
          BY <4>1, <5>1
        <5> QED
          BY <2>4, <4>1, <5>2
      <4>2. CASE k # last
        <5>1. k \in 0..(last - 1) /\ reading[k] = before[k]
          BY <2>2, <4>2
        <5>2. before[k] = IF k = 0 THEN C!Begun ELSE C!ReadOn(before[k - 1], body[k])
          BY <3>2, <5>1
        <5>3. k # 0 => k - 1 \in 0..last /\ k - 1 # last /\ reading[k - 1] = before[k - 1]
          BY <2>2, <5>1
        <5> QED
          BY <5>1, <5>2, <5>3
      <4> QED
        BY <4>1, <4>2
    <3>4. DOMAIN reading = 0..last /\ reading = [k \in 0..last |-> reading[k]]
      OBVIOUS
    <3> HIDE DEF reading
    <3>5. Upto(reading, last)
      BY <3>3, <3>4
    <3> QED
      BY <2>2, <3>5
  <2> QED
    BY <2>3, <2>4
<1>2. PICK reading : Upto(reading, Len(body))
  <2>1. Len(body) \in Nat
    OBVIOUS
  <2> QED
    BY <1>1, <2>1
<1> QED
  BY <1>2 DEF IsReading, C!Reading

LEMMA ReadingSteps ==
    ASSUME NEW body \in Seq(Token)
    PROVE  /\ C!Reading(body)[0] = C!Begun
           /\ \A k \in 1..Len(body) :
                C!Reading(body)[k] = C!ReadOn(C!Reading(body)[k - 1], body[k])
<1> DEFINE reading == C!Reading(body)
<1>1. IsReading(reading, body)
  BY ReadingExists
<1> HIDE DEF reading
<1>2. 0 \in 0..Len(body) /\ \A k \in 1..Len(body) : k \in 0..Len(body) /\ k # 0
  OBVIOUS
<1>3. reading[0] = C!Begun
  BY <1>1, <1>2 DEF IsReading
<1>4. ASSUME NEW k \in 1..Len(body)
      PROVE  reading[k] = C!ReadOn(reading[k - 1], body[k])
  BY <1>1, <1>2 DEF IsReading
<1> QED
  BY <1>3, <1>4 DEF reading

(* Once the decoder has a result it keeps it.                              *)
LEMMA ResultStays ==
    ASSUME NEW body \in Seq(Token), NEW k \in 0..Len(body),
           C!Reading(body)[k].result # C!Unanswered
    PROVE  C!Reading(body)[Len(body)] = C!Reading(body)[k]
<1> DEFINE reading == C!Reading(body)
           Changed == {j \in Nat : j \in k..Len(body) /\ reading[j] # reading[k]}
<1>1. \A j \in 1..Len(body) : reading[j] = C!ReadOn(reading[j - 1], body[j])
  BY ReadingSteps
<1> HIDE DEF reading
<1>2. Changed = {}
  <2> SUFFICES ASSUME Changed # {} PROVE FALSE
    OBVIOUS
  <2>1. Changed \in SUBSET Nat
    OBVIOUS
  <2>2. PICK j \in Changed : \A other \in Changed : j <= other
    BY <2>1, LeastOf
  <2>3. j \in Nat /\ j \in k..Len(body) /\ reading[j] # reading[k] /\ j # k
    BY <2>2
  <2>4. j - 1 \in Nat /\ j - 1 \in k..Len(body) /\ j \in 1..Len(body)
    BY <2>3
  <2>5. reading[j - 1] = reading[k]
    BY <2>2, <2>4
  <2>6. reading[j] = reading[j - 1]
    BY <1>1, <2>4, <2>5 DEF C!ReadOn, reading
  <2> QED
    BY <2>3, <2>5, <2>6
<1>3. Len(body) \in Nat /\ Len(body) \in k..Len(body)
  OBVIOUS
<1> QED
  BY <1>2, <1>3 DEF reading

(* Of a response that breaks off the decoder makes what it makes of the    *)
(* whole of it, or nothing.                                                *)
LEMMA CutOrWhole ==
    ASSUME NEW body \in Seq(Token), NEW part \in Seq(Token), Len(part) <= Len(body),
           \A k \in 1..Len(part) : part[k] = body[k],
           NEW final, Leads(C!Begun, body, final)
    PROVE  \/ C!Decode(part) = C!Error("truncated")
           \/ final.result # C!Unanswered /\ C!Decode(part) = final.result
<1> DEFINE reading == C!Reading(body)
           cut == C!Reading(part)
           Differ == {k \in Nat : k \in 0..Len(part) /\ cut[k] # reading[k]}
<1>1. /\ reading[0] = C!Begun /\ cut[0] = C!Begun
      /\ \A k \in 1..Len(body) : reading[k] = C!ReadOn(reading[k - 1], body[k])
      /\ \A k \in 1..Len(part) : cut[k] = C!ReadOn(cut[k - 1], part[k])
  BY ReadingSteps
<1>2. Len(part) \in Nat /\ Len(body) \in Nat
  OBVIOUS
<1>3. reading[Len(body)] = final
  <2>1. IsReading(reading, body) /\ 0 + Len(body) <= Len(body)
        /\ \A k \in 1..Len(body) : body[0 + k] = body[k]
    BY ReadingExists
  <2>2. reading[0 + Len(body)] = final
    BY <1>1, <2>1 DEF Leads
  <2> QED
    BY <1>2, <2>2
<1> HIDE DEF reading, cut
<1>4. Differ = {}
  <2> SUFFICES ASSUME Differ # {} PROVE FALSE
    OBVIOUS
  <2>1. Differ \in SUBSET Nat
    OBVIOUS
  <2>2. PICK k \in Differ : \A other \in Differ : k <= other
    BY <2>1, LeastOf
  <2>3. k \in Nat /\ k \in 0..Len(part) /\ cut[k] # reading[k]
    BY <2>2
  <2>4. k # 0
    BY <1>1, <2>3
  <2>5. k - 1 \in Nat /\ k - 1 \in 0..Len(part) /\ k \in 1..Len(part) /\ k \in 1..Len(body)
    BY <1>2, <2>3, <2>4
  <2>6. cut[k - 1] = reading[k - 1]
    BY <2>2, <2>5
  <2>7. part[k] = body[k]
    BY <2>5
  <2> QED
    BY <1>1, <2>3, <2>5, <2>6, <2>7
<1>5. cut[Len(part)] = reading[Len(part)]
  BY <1>2, <1>4
<1>6. Len(part) \in 0..Len(body)
  BY <1>2
<1>7. reading[Len(part)].result # C!Unanswered => reading[Len(part)] = final
  BY <1>3, <1>6, ResultStays DEF reading
<1>8. C!Decode(part) = IF cut[Len(part)].result = C!Unanswered THEN C!Error("truncated")
                       ELSE cut[Len(part)].result
  BY DEF C!Decode, cut
<1> QED
  BY <1>5, <1>7, <1>8

(* The functions that have been called.                                    *)
Stack(frames) == frames \in Seq({frames[k] : k \in 1..Len(frames)})
Calling(frames) == [stack |-> frames, result |-> C!Unanswered]

LEMMA Pushed ==
    ASSUME NEW frames, Stack(frames), NEW f
    PROVE  /\ Stack(Append(frames, f)) /\ Append(frames, f) # <<>>
           /\ C!Last(Append(frames, f)) = f
           /\ C!Front(Append(frames, f)) = frames
<1> DEFINE S == {frames[k] : k \in 1..Len(frames)} \cup {f}
           pushed == Append(frames, f)
<1>1. frames \in Seq(S) /\ f \in S
  BY DEF Stack
<1> HIDE DEF S
<1>2. /\ pushed \in Seq(S) /\ Len(pushed) = Len(frames) + 1 /\ Len(frames) \in Nat
      /\ pushed[Len(frames) + 1] = f
      /\ \A k \in 1..Len(frames) : pushed[k] = frames[k]
  BY <1>1
<1> HIDE DEF pushed
<1>3. Stack(pushed)
  BY <1>2 DEF Stack
<1>4. pushed # <<>>
  BY <1>2
<1>5. C!Last(pushed) = f
  BY <1>2 DEF C!Last
<1>6. C!Front(pushed) = frames
  <2>1. /\ SubSeq(pushed, 1, Len(frames)) \in Seq(S)
        /\ Len(SubSeq(pushed, 1, Len(frames))) = Len(frames)
        /\ \A k \in 1..Len(frames) : SubSeq(pushed, 1, Len(frames))[k] = pushed[k]
    BY <1>2
  <2>2. Len(pushed) - 1 = Len(frames)
    BY <1>2
  <2>3. SubSeq(pushed, 1, Len(frames)) = frames
    BY <1>1, <1>2, <2>1
  <2> QED
    BY <2>2, <2>3 DEF C!Front
<1> QED
  BY <1>3, <1>4, <1>5, <1>6 DEF pushed

LEMMA EmptyStack == Stack(<<>>)
  BY DEF Stack

(* One token, for each function that may read it.                          *)
InContainer(tag) == C!Frame("container", tag)
InValue == C!Frame("value", "value")
InText(is, tag, text) == [C!Frame(is, tag) EXCEPT !.text = text]
InArray(items) == [C!Frame("array", "array") EXCEPT !.items = items]
InStruct(fields, name) ==
    [C!Frame("struct", "struct") EXCEPT !.fields = fields, !.name = name]

LEMMA ReadsOn ==
    ASSUME NEW frames, NEW token
    PROVE  C!ReadOn(Calling(frames), token) = C!Read(Calling(frames), token)
  BY DEF C!ReadOn, Calling

LEMMA OutsideReads ==
    /\ C!ReadOn(Calling(<<>>), C!Start("methodResponse")) = Calling(<<>>)
    /\ \A tag \in {"params", "fault"} :
         C!ReadOn(Calling(<<>>), C!Start(tag)) = Calling(Append(<<>>, InContainer(tag)))
<1> DEFINE d == Calling(<<>>)
<1>1. d.stack = <<>> /\ d = [stack |-> d.stack, result |-> d.result]
  BY DEF Calling
<1>2. ASSUME NEW token
      PROVE  C!Read(d, token) =
               IF token[1] = "start" /\ token[2] \in {"params", "fault"}
                 THEN [d EXCEPT !.stack = Append(d.stack, C!Frame("container", token[2]))]
                 ELSE d
  <2> HIDE DEF d
  <2> QED
    BY <1>1 DEF C!Read
<1>3. C!Read(d, C!Start("methodResponse")) = d
  BY <1>2 DEF C!Start
<1>4. \A tag \in {"params", "fault"} :
        C!Read(d, C!Start(tag)) = Calling(Append(<<>>, InContainer(tag)))
  <2> TAKE tag \in {"params", "fault"}
  <2>1. C!Start(tag)[1] = "start" /\ C!Start(tag)[2] = tag
    BY DEF C!Start
  <2>2. C!Read(d, C!Start(tag)) = [d EXCEPT !.stack = Append(d.stack, InContainer(tag))]
    BY <1>2, <2>1 DEF InContainer
  <2> QED
    BY <2>2 DEF Calling
<1> QED
  BY <1>3, <1>4, ReadsOn

LEMMA ContainerReads ==
    ASSUME NEW frames, Stack(frames), NEW tag \in {"params", "fault"}
    PROVE  LET in == Append(frames, InContainer(tag)) IN
           /\ C!ReadOn(Calling(in), C!Start("param")) = Calling(in)
           /\ C!ReadOn(Calling(in), C!Start("value")) = Calling(Append(in, InValue))
           /\ C!ReadOn(Calling(in), C!End(tag)) =
                [stack |-> in, result |-> C!Error("no value")]
<1> DEFINE in == Append(frames, InContainer(tag))
<1>1. in # <<>> /\ C!Last(in) = InContainer(tag)
  BY Pushed
<1>2. InContainer(tag).is = "container" /\ InContainer(tag).tag = tag
  BY DEF InContainer, C!Frame
<1> HIDE DEF in
<1>3. C!Read(Calling(in), C!Start("param")) = Calling(in)
  BY <1>1, <1>2 DEF C!Read, Calling, C!Start
<1>4. C!Read(Calling(in), C!Start("value")) = Calling(Append(in, InValue))
  BY <1>1, <1>2 DEF C!Read, Calling, C!Start, InValue
<1>5. C!Read(Calling(in), C!End(tag)) = [stack |-> in, result |-> C!Error("no value")]
  BY <1>1, <1>2 DEF C!Read, Calling, C!End
<1> QED
  BY <1>3, <1>4, <1>5, ReadsOn DEF in

(* The functions that call decodeValue, and what they make of its result.  *)
Caller(f) ==
    \/ \E tag \in {"params", "fault"} : f = InContainer(tag)
    \/ \E items : f = InArray(items)
    \/ \E fields, name : f = InStruct(fields, name)
Given(rest, f, v) == C!Give(Append(Append(rest, f), InValue), v)

LEMMA GiveIs ==
    ASSUME NEW rest, Stack(rest), NEW f, NEW g, NEW v
    PROVE  LET frames == Append(Append(rest, f), g) IN
           /\ C!Last(frames) = g /\ C!Last(C!Front(frames)) = f
           /\ C!Front(frames) = Append(rest, f) /\ C!Front(C!Front(frames)) = rest
<1>1. Stack(Append(rest, f)) /\ C!Last(Append(rest, f)) = f /\ C!Front(Append(rest, f)) = rest
  BY Pushed
<1> DEFINE in == Append(rest, f)
<1> HIDE DEF in
<1>2. C!Last(Append(in, g)) = g /\ C!Front(Append(in, g)) = in
  BY <1>1, Pushed DEF in
<1> QED
  BY <1>1, <1>2 DEF in

LEMMA GiveContainer ==
    ASSUME NEW rest, Stack(rest), NEW tag \in {"params", "fault"}, NEW g, NEW v
    PROVE  C!Give(Append(Append(rest, InContainer(tag)), g), v) =
             [stack |-> Append(rest, InContainer(tag)),
              result |-> IF tag = "params" THEN <<"value", v>>
                         ELSE IF v[1] = "struct" THEN <<"fault">>
                         ELSE C!Error("malformed fault")]
<1> DEFINE f == InContainer(tag)
<1>1. f.is = "container" /\ f.tag = tag
  BY DEF InContainer, C!Frame
<1> HIDE DEF f
<1> DEFINE frames == Append(Append(rest, f), g)
<1>2. C!Last(C!Front(frames)) = f /\ C!Front(frames) = Append(rest, f)
  BY GiveIs
<1> HIDE DEF frames
<1>3. C!Give(frames, v) = [stack |-> Append(rest, f),
                           result |-> IF tag = "params" THEN <<"value", v>>
                                      ELSE IF v[1] = "struct" THEN <<"fault">>
                                      ELSE C!Error("malformed fault")]
  BY <1>1, <1>2 DEF C!Give
<1> QED
  BY <1>3 DEF frames, f

LEMMA GiveArray ==
    ASSUME NEW rest, Stack(rest), NEW items, NEW g, NEW v
    PROVE  C!Give(Append(Append(rest, InArray(items)), g), v) =
             Calling(Append(rest, InArray(Append(items, v))))
<1> DEFINE f == InArray(items)
<1>1. f.is = "array" /\ [f EXCEPT !.items = Append(f.items, v)] = InArray(Append(items, v))
  BY DEF InArray, C!Frame
<1> HIDE DEF f
<1> DEFINE frames == Append(Append(rest, f), g)
<1>2. C!Last(C!Front(frames)) = f /\ C!Front(C!Front(frames)) = rest
  BY GiveIs
<1> HIDE DEF frames
<1>3. C!Give(frames, v) = Calling(Append(rest, InArray(Append(items, v))))
  BY <1>1, <1>2 DEF C!Give, Calling
<1> QED
  BY <1>3 DEF frames, f

LEMMA GiveStruct ==
    ASSUME NEW rest, Stack(rest), NEW fields, NEW name, NEW g, NEW v
    PROVE  C!Give(Append(Append(rest, InStruct(fields, name)), g), v) =
             Calling(Append(rest, IF g.tag = "member" THEN InStruct(fields, C!Trimmed(v[2]))
                                  ELSE InStruct(C!Put(fields, name, v), name)))
<1> DEFINE f == InStruct(fields, name)
<1>1. /\ f.is = "struct" /\ f.name = name
      /\ [f EXCEPT !.name = C!Trimmed(v[2])] = InStruct(fields, C!Trimmed(v[2]))
      /\ [f EXCEPT !.fields = C!Put(f.fields, name, v)] = InStruct(C!Put(fields, name, v), name)
  BY DEF InStruct, C!Frame
<1> HIDE DEF f
<1> DEFINE frames == Append(Append(rest, f), g)
<1>2. C!Last(frames) = g /\ C!Last(C!Front(frames)) = f /\ C!Front(C!Front(frames)) = rest
  BY GiveIs
<1> HIDE DEF frames
<1>3. C!Give(frames, v) =
        Calling(Append(rest, IF g.tag = "member" THEN InStruct(fields, C!Trimmed(v[2]))
                             ELSE InStruct(C!Put(fields, name, v), name)))
  BY <1>1, <1>2 DEF C!Give, Calling
<1> QED
  BY <1>3 DEF frames, f

LEMMA CallerReads ==
    ASSUME NEW rest, Stack(rest), NEW f, Caller(f)
    PROVE  /\ C!ReadOn(Calling(Append(rest, f)), C!Start("value")) =
                Calling(Append(Append(rest, f), InValue))
           /\ \A g, v : g.tag # "member" =>
                C!Give(Append(Append(rest, f), g), v) = Given(rest, f, v)
           /\ \A v : C!ReadOn(Given(rest, f, v), C!End("value")) = Given(rest, f, v)
<1>1. Append(rest, f) # <<>> /\ C!Last(Append(rest, f)) = f
  BY Pushed
<1>2. f.is \in {"container", "array", "struct"}
  <2>1. /\ \A tag \in {"params", "fault"} : InContainer(tag).is = "container"
        /\ \A items : InArray(items).is = "array"
        /\ \A fields, name : InStruct(fields, name).is = "struct"
    BY DEF InContainer, InArray, InStruct, C!Frame
  <2> QED
    BY <2>1, Zenon DEF Caller
<1>3. InValue.tag # "member"
  BY DEF InValue, C!Frame
<1>4. C!Read(Calling(Append(rest, f)), C!Start("value")) =
        Calling(Append(Append(rest, f), InValue))
  BY <1>1, <1>2 DEF C!Read, Calling, C!Start, InValue
<1>5. ASSUME NEW g, NEW v, g.tag # "member"
      PROVE  C!Give(Append(Append(rest, f), g), v) = Given(rest, f, v)
  <2>1. CASE \E tag \in {"params", "fault"} : f = InContainer(tag)
    <3>1. PICK tag \in {"params", "fault"} : f = InContainer(tag)
      BY <2>1
    <3>2. \A h : C!Give(Append(Append(rest, f), h), v) =
                  [stack |-> Append(rest, f),
                   result |-> IF tag = "params" THEN <<"value", v>>
                              ELSE IF v[1] = "struct" THEN <<"fault">>
                              ELSE C!Error("malformed fault")]
      BY <3>1, GiveContainer
    <3> QED
      BY <3>2 DEF Given
  <2>2. CASE \E items : f = InArray(items)
    <3>1. PICK items : f = InArray(items)
      BY <2>2
    <3>2. \A h : C!Give(Append(Append(rest, f), h), v) =
                  Calling(Append(rest, InArray(Append(items, v))))
      BY <3>1, GiveArray
    <3> QED
      BY <3>2 DEF Given
  <2>3. CASE \E fields, name : f = InStruct(fields, name)
    <3>1. PICK fields, name : f = InStruct(fields, name)
      BY <2>3
    <3>2. \A h : h.tag # "member" => C!Give(Append(Append(rest, f), h), v) =
                  Calling(Append(rest, InStruct(C!Put(fields, name, v), name)))
      <4> TAKE h
      <4> HAVE h.tag # "member"
      <4>1. C!Give(Append(Append(rest, f), h), v) =
             Calling(Append(rest, IF h.tag = "member" THEN InStruct(fields, C!Trimmed(v[2]))
                                  ELSE InStruct(C!Put(fields, name, v), name)))
        BY <3>1, GiveStruct
      <4> QED
        BY <4>1
    <3> QED
      BY <1>3, <1>5, <3>2 DEF Given
  <2> QED
    BY <2>1, <2>2, <2>3 DEF Caller
<1>6. ASSUME NEW v PROVE C!ReadOn(Given(rest, f, v), C!End("value")) = Given(rest, f, v)
  <2>1. CASE \E tag \in {"params", "fault"} : f = InContainer(tag)
    <3>1. PICK tag \in {"params", "fault"} : f = InContainer(tag)
      BY <2>1
    <3> DEFINE result == IF tag = "params" THEN <<"value", v>>
                         ELSE IF v[1] = "struct" THEN <<"fault">>
                         ELSE <<"error", "malformed fault">>
    <3>2. Given(rest, f, v) = [stack |-> Append(rest, f), result |-> result]
      BY <3>1, GiveContainer DEF Given, C!Error
    <3>3. result # <<"none">>
      OBVIOUS
    <3> HIDE DEF result
    <3>4. Given(rest, f, v).result = result
      BY <3>2
    <3>5. Given(rest, f, v).result # C!Unanswered
      BY <3>3, <3>4 DEF C!Unanswered
    <3> QED
      BY <3>5 DEF C!ReadOn
  <2>2. CASE (\E items : f = InArray(items)) \/ (\E fields, name : f = InStruct(fields, name))
    <3>1. PICK h : Given(rest, f, v) = Calling(Append(rest, h)) /\ h.is \in {"array", "struct"}
      <4>1. CASE \E items : f = InArray(items)
        <5>1. PICK items : f = InArray(items)
          BY <4>1
        <5>2. Given(rest, f, v) = Calling(Append(rest, InArray(Append(items, v))))
          BY <5>1, GiveArray DEF Given
        <5>3. InArray(Append(items, v)).is = "array"
          BY DEF InArray, C!Frame
        <5> QED
          BY <5>2, <5>3
      <4>2. CASE \E fields, name : f = InStruct(fields, name)
        <5>1. PICK fields, name : f = InStruct(fields, name)
          BY <4>2
        <5>2. Given(rest, f, v) =
               Calling(Append(rest, IF InValue.tag = "member" THEN InStruct(fields, C!Trimmed(v[2]))
                                    ELSE InStruct(C!Put(fields, name, v), name)))
          BY <5>1, GiveStruct DEF Given
        <5>3. Given(rest, f, v) = Calling(Append(rest, InStruct(C!Put(fields, name, v), name)))
          BY <1>3, <5>2
        <5>4. InStruct(C!Put(fields, name, v), name).is = "struct"
          BY DEF InStruct, C!Frame
        <5> QED
          BY <5>3, <5>4
      <4> QED
        BY <2>2, <4>1, <4>2
    <3>2. Append(rest, h) # <<>> /\ C!Last(Append(rest, h)) = h
      BY Pushed
    <3>3. C!Read(Calling(Append(rest, h)), C!End("value")) = Calling(Append(rest, h))
      BY <3>1, <3>2 DEF C!Read, Calling, C!End
    <3> QED
      BY <3>1, <3>3, ReadsOn
  <2> QED
    BY <2>1, <2>2 DEF Caller
<1> QED
  BY <1>4, <1>5, <1>6, ReadsOn

LEMMA ValueReads ==
    ASSUME NEW frames, Stack(frames)
    PROVE  /\ \A kind, data : C!ReadOn(Calling(Append(frames, InValue)), C!Text(kind, data)) =
                Calling(Append(frames, InText("value", "value", <<<<kind, data>>>>)))
           /\ \A text : C!ReadOn(Calling(Append(frames, InText("value", "value", text))),
                                 C!End("value")) =
                C!Give(Append(frames, InText("value", "value", text)), <<"text", text>>)
           /\ \A tag \in {"i4", "int", "string", "base64"} :
                C!ReadOn(Calling(Append(frames, InValue)), C!Start(tag)) =
                  Calling(Append(frames, C!Frame("leaf", tag)))
           /\ C!ReadOn(Calling(Append(frames, InValue)), C!Start("array")) =
                Calling(Append(frames, InArray(<<>>)))
           /\ C!ReadOn(Calling(Append(frames, InValue)), C!Start("struct")) =
                Calling(Append(frames, InStruct(<<>>, <<>>)))
<1>1. /\ InValue.is = "value" /\ InValue.text = <<>>
      /\ \A text : InText("value", "value", text) = [InValue EXCEPT !.text = text]
      /\ \A text : InText("value", "value", text).is = "value"
                   /\ InText("value", "value", text).text = text
      /\ InArray(<<>>) = C!Frame("array", "array")
      /\ InStruct(<<>>, <<>>) = C!Frame("struct", "struct")
  <2>1. InValue.is = "value" /\ InValue.text = <<>>
    BY DEF InValue, C!Frame
  <2>2. \A text : InText("value", "value", text) = [InValue EXCEPT !.text = text]
    BY DEF InValue, InText
  <2>3. \A text : InText("value", "value", text).is = "value"
                   /\ InText("value", "value", text).text = text
    BY DEF InText, C!Frame
  <2>4. InArray(<<>>) = C!Frame("array", "array")
    BY DEF C!Frame, InArray
  <2>5. InStruct(<<>>, <<>>) = C!Frame("struct", "struct")
    <3> DEFINE frame == C!Frame("struct", "struct")
    <3>1. [frame EXCEPT !.fields = <<>>] = frame
      BY DEF C!Frame
    <3>2. [frame EXCEPT !.name = <<>>] = frame
      BY DEF C!Frame
    <3>3. InStruct(<<>>, <<>>) = [[frame EXCEPT !.fields = <<>>] EXCEPT !.name = <<>>]
      BY DEF InStruct
    <3> HIDE DEF frame
    <3>4. InStruct(<<>>, <<>>) = frame
      BY <3>1, <3>2, <3>3
    <3> QED
      BY <3>4 DEF frame
  <2> QED
    BY <2>1, <2>2, <2>3, <2>4, <2>5
<1>2. ASSUME NEW kind, NEW data
      PROVE  C!Read(Calling(Append(frames, InValue)), C!Text(kind, data)) =
               Calling(Append(frames, InText("value", "value", <<<<kind, data>>>>)))
  <2> DEFINE in == Append(frames, InValue)
  <2>1. in # <<>> /\ C!Last(in) = InValue /\ C!Front(in) = frames
    BY Pushed
  <2>2. Append(<<>>, <<kind, data>>) = <<<<kind, data>>>>
    OBVIOUS
  <2> HIDE DEF in
  <2> DEFINE piece == <<kind, data>>
             token == C!Text(kind, data)
  <2>3. token[1] = "text" /\ token[2] = piece
    BY DEF C!Text
  <2>4. [InValue EXCEPT !.text = Append(InValue.text, piece)] =
          InText("value", "value", <<piece>>)
    BY <1>1, <2>2
  <2> HIDE DEF piece, token
  <2>5. C!Read(Calling(in), token) =
          Calling(Append(frames, InText("value", "value", <<piece>>)))
    BY <1>1, <2>1, <2>3, <2>4 DEF C!Read, Calling
  <2> QED
    BY <2>5 DEF in, piece, token
<1>3. ASSUME NEW text
      PROVE  C!Read(Calling(Append(frames, InText("value", "value", text))), C!End("value")) =
               C!Give(Append(frames, InText("value", "value", text)), <<"text", text>>)
  <2> DEFINE in == Append(frames, InText("value", "value", text))
  <2>1. in # <<>> /\ C!Last(in) = InText("value", "value", text)
    BY Pushed
  <2> HIDE DEF in
  <2>2. C!Read(Calling(in), C!End("value")) = C!Give(in, <<"text", text>>)
    BY <1>1, <2>1 DEF C!Read, Calling, C!End
  <2> QED
    BY <2>2 DEF in
<1>4. ASSUME NEW tag \in {"i4", "int", "string", "base64", "array", "struct"}
      PROVE  C!Read(Calling(Append(frames, InValue)), C!Start(tag)) =
               Calling(Append(frames, C!Frame(IF tag \in {"array", "struct"} THEN tag
                                              ELSE "leaf", tag)))
  <2> DEFINE in == Append(frames, InValue)
  <2>1. in # <<>> /\ C!Last(in) = InValue /\ C!Front(in) = frames
    BY Pushed
  <2> HIDE DEF in
  <2>2. C!Start(tag)[1] = "start" /\ C!Start(tag)[2] = tag
    BY DEF C!Start
  <2>3. C!Read(Calling(in), C!Start(tag)) =
          Calling(Append(frames, C!Frame(IF tag \in {"array", "struct"} THEN tag
                                         ELSE "leaf", tag)))
    BY <1>1, <2>1, <2>2 DEF C!Read, Calling
  <2> QED
    BY <2>3 DEF in
<1>5. /\ \A tag \in {"i4", "int", "string", "base64"} :
           C!Read(Calling(Append(frames, InValue)), C!Start(tag)) =
             Calling(Append(frames, C!Frame("leaf", tag)))
      /\ C!Read(Calling(Append(frames, InValue)), C!Start("array")) =
           Calling(Append(frames, InArray(<<>>)))
      /\ C!Read(Calling(Append(frames, InValue)), C!Start("struct")) =
           Calling(Append(frames, InStruct(<<>>, <<>>)))
  BY <1>1, <1>4
<1> QED
  BY <1>2, <1>3, <1>5, ReadsOn

LEMMA LeafReads ==
    ASSUME NEW frames, Stack(frames), NEW tag
    PROVE  /\ \A kind, data :
                C!ReadOn(Calling(Append(frames, C!Frame("leaf", tag))), C!Text(kind, data)) =
                  Calling(Append(frames, InText("leaf", tag, <<<<kind, data>>>>)))
           /\ \A text, end : C!Leaf(tag, text) # C!Unanswered =>
                C!ReadOn(Calling(Append(frames, InText("leaf", tag, text))), C!End(end)) =
                  C!Give(Append(frames, InText("leaf", tag, text)), C!Leaf(tag, text))
<1> DEFINE leaf == C!Frame("leaf", tag)
<1>1. /\ leaf.is = "leaf" /\ leaf.text = <<>>
      /\ \A text : InText("leaf", tag, text) = [leaf EXCEPT !.text = text]
      /\ \A text : /\ InText("leaf", tag, text).is = "leaf" /\ InText("leaf", tag, text).tag = tag
                   /\ InText("leaf", tag, text).text = text /\ InText("leaf", tag, text).depth = 1
  BY DEF InText, C!Frame
<1> HIDE DEF leaf
<1>2. ASSUME NEW kind, NEW data
      PROVE  C!Read(Calling(Append(frames, leaf)), C!Text(kind, data)) =
               Calling(Append(frames, InText("leaf", tag, <<<<kind, data>>>>)))
  <2> DEFINE in == Append(frames, leaf)
  <2>1. in # <<>> /\ C!Last(in) = leaf /\ C!Front(in) = frames
    BY Pushed
  <2>2. Append(<<>>, <<kind, data>>) = <<<<kind, data>>>>
    OBVIOUS
  <2> HIDE DEF in
  <2> DEFINE piece == <<kind, data>>
             token == C!Text(kind, data)
  <2>3. token[1] = "text" /\ token[2] = piece
    BY DEF C!Text
  <2>4. [leaf EXCEPT !.text = Append(leaf.text, piece)] = InText("leaf", tag, <<piece>>)
    BY <1>1, <2>2
  <2> HIDE DEF piece, token
  <2>5. C!Read(Calling(in), token) = Calling(Append(frames, InText("leaf", tag, <<piece>>)))
    BY <1>1, <2>1, <2>3, <2>4 DEF C!Read, Calling
  <2> QED
    BY <2>5 DEF in, piece, token
<1>3. ASSUME NEW text, NEW end, C!Leaf(tag, text) # C!Unanswered
      PROVE  C!Read(Calling(Append(frames, InText("leaf", tag, text))), C!End(end)) =
               C!Give(Append(frames, InText("leaf", tag, text)), C!Leaf(tag, text))
  <2> DEFINE in == Append(frames, InText("leaf", tag, text))
  <2>1. in # <<>> /\ C!Last(in) = InText("leaf", tag, text)
    BY Pushed
  <2> DEFINE top == InText("leaf", tag, text)
  <2>2. top.is = "leaf" /\ top.tag = tag /\ top.text = text /\ ~(top.depth > 1)
    BY <1>1
  <2>3. C!End(end)[1] = "end"
    BY DEF C!End
  <2> HIDE DEF in, top
  <2>4. C!Read(Calling(in), C!End(end)) = C!Give(in, C!Leaf(tag, text))
    BY <1>3, <2>1, <2>2, <2>3 DEF C!Read, Calling, top
  <2> QED
    BY <2>4 DEF in
<1> QED
  BY <1>2, <1>3, ReadsOn DEF leaf

(* The text of an element is one piece.                                    *)
LEMMA TrimmedIs ==
    ASSUME NEW kind \in {"word", "number", "base64"}, NEW data
    PROVE  C!Trimmed(<<<<kind, data>>>>) = <<<<kind, data>>>>
<1> DEFINE text == <<<<kind, data>>>>
           solid == {k \in 1..Len(text) : text[k] # C!Space}
<1>1. <<kind, data>> # C!Space
  BY DEF C!Space
<1>2. solid = {1}
  BY <1>1
<1>3. \A k \in {1} : k = 1
  OBVIOUS
<1>4. SubSeq(text, 1, 1) = text
  <2> DEFINE piece == <<kind, data>>
  <2> HIDE DEF piece
  <2> DEFINE whole == <<piece>>
             part == SubSeq(whole, 1, 1)
  <2>1. whole \in Seq({piece}) /\ Len(whole) = 1
    OBVIOUS
  <2> HIDE DEF whole
  <2>2. part \in Seq({piece}) /\ Len(part) = Len(whole) /\ \A k \in 1..Len(whole) : part[k] = whole[k]
    BY <2>1
  <2> HIDE DEF part
  <2>3. part = whole
    BY <2>1, <2>2
  <2> QED
    BY <2>3 DEF piece, whole, part
<1> HIDE DEF text
<1>5. C!Trimmed(text) = IF solid = {} THEN <<>>
        ELSE SubSeq(text, CHOOSE k \in solid : \A j \in solid : k <= j,
                          CHOOSE k \in solid : \A j \in solid : j <= k)
  BY DEF C!Trimmed
<1> HIDE DEF solid
<1>6. C!Trimmed(text) = text
  <2>1. \E k \in solid : \A j \in solid : k <= j
    BY <1>2
  <2>2. \E k \in solid : \A j \in solid : j <= k
    BY <1>2
  <2>3. (CHOOSE k \in solid : \A j \in solid : k <= j) = 1
    BY <1>2, <2>1
  <2>4. (CHOOSE k \in solid : \A j \in solid : j <= k) = 1
    BY <1>2, <2>2
  <2> QED
    BY <1>2, <1>4, <1>5, <2>3, <2>4
<1> QED
  BY <1>6 DEF text

LEMMA LeavesAre ==
    /\ \A k : /\ C!Leaf("i4", <<<<"number", k>>>>) = <<"int", k>>
              /\ C!Leaf("int", <<<<"number", k>>>>) = <<"int", k>>
              /\ C!IsNumber(<<<<"number", k>>>>) /\ C!NumberIn(<<<<"number", k>>>>) = k
    /\ \A text : C!Leaf("string", text) = <<"text", text>> /\ C!Leaf("member", text) = <<"text", text>>
    /\ \A data : C!Leaf("base64", <<<<"base64", data>>>>) = <<"bytes", data>>
<1>1. \A k : C!IsNumber(<<<<"number", k>>>>) /\ C!NumberIn(<<<<"number", k>>>>) = k
  <2> TAKE k
  <2>1. C!Trimmed(<<<<"number", k>>>>) = <<<<"number", k>>>>
    BY TrimmedIs
  <2> QED
    BY <2>1 DEF C!IsNumber, C!NumberIn
<1>2. \A data : C!Leaf("base64", <<<<"base64", data>>>>) = <<"bytes", data>>
  <2> TAKE data
  <2>1. C!Trimmed(<<<<"base64", data>>>>) = <<<<"base64", data>>>>
    BY TrimmedIs
  <2>2. <<<<"base64", data>>>> # <<>> /\ Len(<<<<"base64", data>>>>) = 1
        /\ <<<<"base64", data>>>>[1][1] = "base64" /\ <<<<"base64", data>>>>[1][2] = data
    OBVIOUS
  <2> QED
    BY <2>1, <2>2 DEF C!Leaf, C!NumberIn
<1> QED
  BY <1>1, <1>2 DEF C!Leaf

LEMMA ArrayReads ==
    ASSUME NEW frames, Stack(frames), NEW items
    PROVE  LET in == Append(frames, InArray(items)) IN
           /\ C!ReadOn(Calling(in), C!Start("data")) = Calling(in)
           /\ C!ReadOn(Calling(in), C!End("data")) = Calling(in)
           /\ C!ReadOn(Calling(in), C!End("array")) = C!Give(in, <<"array", items>>)
<1> DEFINE in == Append(frames, InArray(items))
<1>1. in # <<>> /\ C!Last(in) = InArray(items)
  BY Pushed
<1>2. InArray(items).is = "array" /\ InArray(items).items = items
  BY DEF InArray, C!Frame
<1> HIDE DEF in
<1>3. C!Read(Calling(in), C!Start("data")) = Calling(in)
  BY <1>1, <1>2 DEF C!Read, Calling, C!Start
<1>4. C!Read(Calling(in), C!End("data")) = Calling(in)
  BY <1>1, <1>2 DEF C!Read, Calling, C!End
<1>5. C!Read(Calling(in), C!End("array")) = C!Give(in, <<"array", items>>)
  BY <1>1, <1>2 DEF C!Read, Calling, C!End
<1> QED
  BY <1>3, <1>4, <1>5, ReadsOn DEF in

LEMMA StructReads ==
    ASSUME NEW frames, Stack(frames), NEW fields, NEW name
    PROVE  LET in == Append(frames, InStruct(fields, name)) IN
           /\ C!ReadOn(Calling(in), C!Start("member")) = Calling(in)
           /\ C!ReadOn(Calling(in), C!End("member")) = Calling(in)
           /\ C!ReadOn(Calling(in), C!Start("name")) =
                Calling(Append(in, C!Frame("leaf", "member")))
           /\ C!ReadOn(Calling(in), C!End("struct")) = C!Give(in, <<"struct", fields>>)
<1> DEFINE in == Append(frames, InStruct(fields, name))
<1>1. in # <<>> /\ C!Last(in) = InStruct(fields, name)
  BY Pushed
<1>2. InStruct(fields, name).is = "struct" /\ InStruct(fields, name).fields = fields
  BY DEF InStruct, C!Frame
<1> HIDE DEF in
<1>3. C!Read(Calling(in), C!Start("member")) = Calling(in)
  BY <1>1, <1>2 DEF C!Read, Calling, C!Start
<1>4. C!Read(Calling(in), C!End("member")) = Calling(in)
  BY <1>1, <1>2 DEF C!Read, Calling, C!End
<1>5. C!Read(Calling(in), C!Start("name")) = Calling(Append(in, C!Frame("leaf", "member")))
  BY <1>1, <1>2 DEF C!Read, Calling, C!Start
<1>6. C!Read(Calling(in), C!End("struct")) = C!Give(in, <<"struct", fields>>)
  BY <1>1, <1>2 DEF C!Read, Calling, C!End
<1> QED
  BY <1>3, <1>4, <1>5, <1>6, ReadsOn DEF in

(* Yields(s, v): s is an element that decodeValue makes v of.              *)
Yields(s, v) ==
    /\ s \in Seq(Token)
    /\ \A rest, f : Stack(rest) /\ Caller(f) =>
         Leads(Calling(Append(rest, f)), s, Given(rest, f, v))

LEMMA ValueYields ==
    ASSUME NEW content \in Seq(Token), NEW v,
           \A rest, f : Stack(rest) /\ Caller(f) =>
             Leads(Calling(Append(Append(rest, f), InValue)), content, Given(rest, f, v))
    PROVE  Yields(El("value", content), v)
<1>1. "value" \in Tag /\ El("value", content) \in Seq(Token)
  BY ElementsMade DEF Tag
<1>2. ASSUME NEW rest, NEW f, Stack(rest), Caller(f)
      PROVE  Leads(Calling(Append(rest, f)), El("value", content), Given(rest, f, v))
  <2> DEFINE d == Calling(Append(rest, f))
             e == Given(rest, f, v)
  <2>1. /\ C!ReadOn(d, C!Start("value")) = Calling(Append(Append(rest, f), InValue))
        /\ C!ReadOn(e, C!End("value")) = e
    BY <1>2, CallerReads
  <2>2. Leads(C!ReadOn(d, C!Start("value")), content, e)
    BY <1>2, <2>1
  <2> HIDE DEF d, e
  <2>3. Leads(d, El("value", content), C!ReadOn(e, C!End("value")))
    BY <1>1, <2>2, LeadsElement
  <2> QED
    BY <2>1, <2>3 DEF d, e
<1> QED
  BY <1>1, <1>2 DEF Yields

LEMMA LeafYields ==
    ASSUME NEW tag \in {"i4", "int", "string", "base64"},
           NEW kind \in {"word", "number", "base64"}, NEW data \in Content,
           C!Leaf(tag, <<<<kind, data>>>>) # C!Unanswered
    PROVE  Yields(El("value", El(tag, Txt(kind, data))), C!Leaf(tag, <<<<kind, data>>>>))
<1> DEFINE text == <<<<kind, data>>>>
           v == C!Leaf(tag, text)
<1>1. /\ tag \in Tag /\ Txt(kind, data) \in Seq(Token)
      /\ El(tag, Txt(kind, data)) \in Seq(Token)
  <2>1. tag \in Tag
    BY DEF Tag
  <2> QED
    BY <2>1, ElementsMade
<1>2. ASSUME NEW rest, NEW f, Stack(rest), Caller(f)
      PROVE  Leads(Calling(Append(Append(rest, f), InValue)), El(tag, Txt(kind, data)),
                   Given(rest, f, v))
  <2> DEFINE in == Append(rest, f)
             d == Calling(Append(in, InValue))
             leaf == Calling(Append(in, C!Frame("leaf", tag)))
             e == Calling(Append(in, InText("leaf", tag, text)))
  <2>1. Stack(in)
    BY <1>2, Pushed
  <2>2. C!ReadOn(d, C!Start(tag)) = leaf
    BY <2>1, ValueReads
  <2>3. C!ReadOn(leaf, C!Text(kind, data)) = e
    BY <2>1, LeafReads
  <2>4. C!ReadOn(e, C!End(tag)) = C!Give(Append(in, InText("leaf", tag, text)), v)
    BY <2>1, LeafReads
  <2>5. InText("leaf", tag, text).tag # "member"
    BY DEF InText, C!Frame
  <2>6. C!Give(Append(in, InText("leaf", tag, text)), v) = Given(rest, f, v)
    BY <1>2, <2>5, CallerReads
  <2> HIDE DEF d, leaf, e, v, text
  <2>7. Leads(leaf, Txt(kind, data), e)
    BY <2>3, LeadsText
  <2>8. Leads(d, El(tag, Txt(kind, data)), C!ReadOn(e, C!End(tag)))
    BY <1>1, <2>2, <2>7, LeadsElement
  <2> QED
    BY <2>4, <2>6, <2>8 DEF d
<1> HIDE DEF v, text
<1>3. Yields(El("value", El(tag, Txt(kind, data))), v)
  BY <1>1, <1>2, ValueYields
<1> QED
  BY <1>3 DEF v, text

LEMMA BareYields ==
    ASSUME NEW data \in Content
    PROVE  Yields(El("value", Txt("number", data)), <<"text", <<<<"number", data>>>>>>)
<1> DEFINE text == <<<<"number", data>>>>
           content == Txt("number", data)
<1>1. "value" \in Tag /\ content \in Seq(Token) /\ El("value", content) \in Seq(Token)
  <2>1. "value" \in Tag /\ content \in Seq(Token)
    BY ElementsMade DEF Tag
  <2> QED
    BY <2>1, ElementsMade
<1>2. ASSUME NEW rest, NEW f, Stack(rest), Caller(f)
      PROVE  Leads(Calling(Append(rest, f)), El("value", content), Given(rest, f, <<"text", text>>))
  <2> DEFINE in == Append(rest, f)
             d == Calling(in)
             value == Calling(Append(in, InValue))
             e == Calling(Append(in, InText("value", "value", text)))
             v == <<"text", text>>
  <2>1. Stack(in)
    BY <1>2, Pushed
  <2>2. C!ReadOn(d, C!Start("value")) = value
    BY <1>2, CallerReads
  <2>3. C!ReadOn(value, C!Text("number", data)) = e
    BY <2>1, ValueReads
  <2>4. C!ReadOn(e, C!End("value")) = C!Give(Append(in, InText("value", "value", text)), v)
    BY <2>1, ValueReads
  <2>5. InText("value", "value", text).tag # "member"
    BY DEF InText, C!Frame
  <2>6. C!Give(Append(in, InText("value", "value", text)), v) = Given(rest, f, v)
    BY <1>2, <2>5, CallerReads
  <2> HIDE DEF d, value, e, v, text
  <2>7. Leads(value, content, e)
    BY <2>3, LeadsText
  <2> HIDE DEF content
  <2>8. Leads(d, El("value", content), C!ReadOn(e, C!End("value")))
    BY <1>1, <2>2, <2>7, LeadsElement
  <2> QED
    BY <2>4, <2>6, <2>8 DEF d, v
<1> QED
  BY <1>1, <1>2 DEF Yields

(* Items(s, vs): s are elements that decodeArray adds vs for.              *)
NumberValue(style, k) ==
    IF style \in {"i4", "int"} THEN <<"int", k>> ELSE <<"text", <<<<"number", k>>>>>>
Item == {NumberValue(style, k) : style \in {"i4", "int", "string", "bare"}, k \in Int}
Items(s, vs) ==
    /\ s \in Seq(Token) /\ vs \in Seq(Item)
    /\ \A frames : \A before \in Seq(Item) : Stack(frames) =>
         Leads(Calling(Append(frames, InArray(before))), s,
               Calling(Append(frames, InArray(before \o vs))))

LEMMA NumberYields ==
    ASSUME NEW style \in {"i4", "int", "string", "bare"}, NEW k \in Int
    PROVE  Yields(Number(style, k), NumberValue(style, k))
<1>1. k \in Content
  BY DEF Content
<1>2. CASE style = "bare"
  BY <1>1, <1>2, BareYields DEF Number, NumberValue
<1>3. CASE style # "bare"
  <2>1. style \in {"i4", "int", "string"}
    BY <1>3
  <2>2. C!Leaf(style, <<<<"number", k>>>>) = NumberValue(style, k)
    BY <2>1, LeavesAre DEF NumberValue
  <2>3. NumberValue(style, k) # C!Unanswered
    BY DEF NumberValue, C!Unanswered
  <2>4. Yields(El("value", El(style, Txt("number", k))), C!Leaf(style, <<<<"number", k>>>>))
    BY <1>1, <2>1, <2>2, <2>3, LeafYields
  <2> QED
    BY <1>3, <2>2, <2>4 DEF Number
<1> QED
  BY <1>2, <1>3

LEMMA NumberItems ==
    ASSUME NEW style \in {"i4", "int", "string", "bare"}, NEW k \in Int
    PROVE  Items(Number(style, k), <<NumberValue(style, k)>>)
<1> DEFINE v == NumberValue(style, k)
<1>1. v \in Item /\ <<v>> \in Seq(Item)
  BY DEF Item
<1>2. Yields(Number(style, k), v)
  BY NumberYields
<1> HIDE DEF v
<1>3. ASSUME NEW frames, NEW before \in Seq(Item), Stack(frames)
      PROVE  Leads(Calling(Append(frames, InArray(before))), Number(style, k),
                   Calling(Append(frames, InArray(before \o <<v>>))))
  <2>1. Caller(InArray(before))
    BY DEF Caller
  <2>2. Given(frames, InArray(before), v) = Calling(Append(frames, InArray(Append(before, v))))
    BY <1>3, GiveArray DEF Given
  <2>3. Append(before, v) = before \o <<v>>
    BY <1>1
  <2> QED
    BY <1>2, <1>3, <2>1, <2>2, <2>3 DEF Yields
<1>4. Number(style, k) \in Seq(Token)
  BY NumbersMade
<1> QED
  BY <1>1, <1>3, <1>4 DEF Items, v

LEMMA MoreItems ==
    ASSUME NEW s, NEW vs, NEW t, NEW ws, Items(s, vs), Items(t, ws)
    PROVE  Items(s \o t, vs \o ws)
<1>1. /\ s \in Seq(Token) /\ t \in Seq(Token) /\ vs \in Seq(Item) /\ ws \in Seq(Item)
  BY DEF Items
<1>2. s \o t \in Seq(Token) /\ vs \o ws \in Seq(Item)
  BY <1>1
<1>3. ASSUME NEW frames, NEW before \in Seq(Item), Stack(frames)
      PROVE  Leads(Calling(Append(frames, InArray(before))), s \o t,
                   Calling(Append(frames, InArray(before \o (vs \o ws)))))
  <2> DEFINE d == Calling(Append(frames, InArray(before)))
             e == Calling(Append(frames, InArray(before \o vs)))
             f == Calling(Append(frames, InArray((before \o vs) \o ws)))
  <2>1. before \o vs \in Seq(Item) /\ (before \o vs) \o ws = before \o (vs \o ws)
    BY <1>1
  <2>2. Leads(d, s, e)
    BY <1>3 DEF Items
  <2>3. Leads(e, t, f)
    BY <1>3, <2>1 DEF Items
  <2> HIDE DEF d, e, f
  <2>4. Leads(d, s \o t, f)
    BY <1>1, <2>2, <2>3, LeadsOn
  <2> QED
    BY <2>1, <2>4 DEF d, f
<1> QED
  BY <1>2, <1>3 DEF Items

LEMMA ArrayYields ==
    ASSUME NEW s, NEW vs, Items(s, vs)
    PROVE  Yields(El("value", El("array", El("data", s))), <<"array", vs>>)
<1> DEFINE v == <<"array", vs>>
<1>1. /\ s \in Seq(Token) /\ vs \in Seq(Item) /\ "array" \in Tag /\ "data" \in Tag
      /\ <<>> \in Seq(Item) /\ <<>> \o vs = vs
  BY DEF Items, Tag
<1>2. El("data", s) \in Seq(Token)
  BY <1>1, ElementsMade
<1>3. El("array", El("data", s)) \in Seq(Token)
  BY <1>1, <1>2, ElementsMade
<1>4. ASSUME NEW rest, NEW f, Stack(rest), Caller(f)
      PROVE  Leads(Calling(Append(Append(rest, f), InValue)), El("array", El("data", s)),
                   Given(rest, f, v))
  <2> DEFINE in == Append(rest, f)
             d == Calling(Append(in, InValue))
             a == Calling(Append(in, InArray(<<>>)))
             b == Calling(Append(in, InArray(vs)))
  <2>1. Stack(in)
    BY <1>4, Pushed
  <2>2. C!ReadOn(d, C!Start("array")) = a
    BY <2>1, ValueReads
  <2>3. C!ReadOn(a, C!Start("data")) = a /\ C!ReadOn(b, C!End("data")) = b
        /\ C!ReadOn(b, C!End("array")) = C!Give(Append(in, InArray(vs)), v)
    BY <2>1, ArrayReads
  <2>4. InArray(vs).tag # "member"
    BY DEF InArray, C!Frame
  <2>5. C!Give(Append(in, InArray(vs)), v) = Given(rest, f, v)
    BY <1>4, <2>4, CallerReads
  <2>6. Leads(a, s, Calling(Append(in, InArray(<<>> \o vs))))
    BY <1>1, <2>1 DEF Items
  <2>7. Leads(a, s, b)
    BY <1>1, <2>6
  <2> HIDE DEF d, a, b, v
  <2>8. Leads(a, El("data", s), b)
    <3>1. Leads(a, El("data", s), C!ReadOn(b, C!End("data")))
      BY <1>1, <2>3, <2>7, LeadsElement
    <3> QED
      BY <2>3, <3>1
  <2>9. Leads(d, El("array", El("data", s)), C!ReadOn(b, C!End("array")))
    BY <1>1, <1>2, <2>2, <2>8, LeadsElement
  <2> QED
    BY <2>3, <2>5, <2>9 DEF d
<1> HIDE DEF v
<1>5. Yields(El("value", El("array", El("data", s))), v)
  BY <1>3, <1>4, ValueYields
<1> QED
  BY <1>5 DEF v

(* Fills(s, fields, filled): s are members that decodeStruct adds.         *)
Key(name) == <<<<"word", name>>>>
Names == {"cur", "total", "bin", "faultCode"}
Fills(s, fields, filled) ==
    /\ s \in Seq(Token)
    /\ \A frames, before : Stack(frames) =>
         \E name : Leads(Calling(Append(frames, InStruct(fields, before))), s,
                         Calling(Append(frames, InStruct(filled, name))))

LEMMA MemberFills ==
    ASSUME NEW name \in Names, NEW value, NEW v, Yields(value, v), NEW fields
    PROVE  Fills(Member(name, value), fields, C!Put(fields, Key(name), v))
<1> DEFINE key == Key(name)
           filled == C!Put(fields, key, v)
           named == El("name", Txt("word", name))
<1>1. /\ "member" \in Tag /\ "name" \in Tag /\ name \in Content
      /\ value \in Seq(Token)
  BY DEF Tag, Names, Content, Yields
<1>2. Txt("word", name) \in Seq(Token) /\ named \in Seq(Token)
      /\ named \o value \in Seq(Token) /\ Member(name, value) \in Seq(Token)
  <2>1. Txt("word", name) \in Seq(Token)
    BY <1>1, ElementsMade
  <2>2. named \in Seq(Token)
    BY <1>1, <2>1, ElementsMade
  <2> HIDE DEF named
  <2>3. named \o value \in Seq(Token)
    BY <1>1, <2>2
  <2>4. El("member", named \o value) \in Seq(Token)
    BY <1>1, <2>3, ElementsMade
  <2> QED
    BY <2>1, <2>2, <2>3, <2>4 DEF Member, named
<1>3. ASSUME NEW frames, NEW before, Stack(frames)
      PROVE  Leads(Calling(Append(frames, InStruct(fields, before))), Member(name, value),
                   Calling(Append(frames, InStruct(filled, key))))
  <2> DEFINE in == Append(frames, InStruct(fields, before))
             d == Calling(in)
             leaf == Calling(Append(in, C!Frame("leaf", "member")))
             read == InText("leaf", "member", key)
             e == Calling(Append(in, read))
             g == Calling(Append(frames, InStruct(fields, key)))
             h == Calling(Append(frames, InStruct(filled, key)))
  <2>1. Stack(in)
    BY <1>3, Pushed
  <2>2. /\ C!ReadOn(d, C!Start("member")) = d /\ C!ReadOn(h, C!End("member")) = h
        /\ C!ReadOn(d, C!Start("name")) = leaf
    BY <1>3, StructReads
  <2>3. C!ReadOn(leaf, C!Text("word", name)) = e
    BY <2>1, LeafReads DEF Key
  <2>4. C!Leaf("member", key) = <<"text", key>> /\ <<"text", key>> # C!Unanswered
    BY LeavesAre DEF C!Unanswered
  <2>5. C!ReadOn(e, C!End("name")) = C!Give(Append(in, read), <<"text", key>>)
    BY <2>1, <2>4, LeafReads
  <2>6. read.tag = "member" /\ C!Trimmed(<<"text", key>>[2]) = key
    <3>1. C!Trimmed(<<<<"word", name>>>>) = <<<<"word", name>>>>
      BY TrimmedIs
    <3> QED
      BY <3>1 DEF InText, C!Frame, Key
  <2>7. C!Give(Append(in, read), <<"text", key>>) = g
    <3> HIDE DEF read, key
    <3>1. C!Give(Append(in, read), <<"text", key>>) =
            Calling(Append(frames, IF read.tag = "member"
                                     THEN InStruct(fields, C!Trimmed(<<"text", key>>[2]))
                                   ELSE InStruct(C!Put(fields, before, <<"text", key>>), before)))
      BY <1>3, GiveStruct
    <3> QED
      BY <2>6, <3>1
  <2>8. Leads(g, value, h)
    <3>1. Caller(InStruct(fields, key))
      BY DEF Caller
    <3>2. Leads(g, value, Given(frames, InStruct(fields, key), v))
      BY <1>3, <3>1 DEF Yields
    <3>3. InValue.tag # "member"
      BY DEF InValue, C!Frame
    <3> HIDE DEF key, filled
    <3>4. Given(frames, InStruct(fields, key), v) =
            Calling(Append(frames, IF InValue.tag = "member"
                                     THEN InStruct(fields, C!Trimmed(v[2]))
                                   ELSE InStruct(C!Put(fields, key, v), key)))
      BY <1>3, GiveStruct DEF Given
    <3>5. Given(frames, InStruct(fields, key), v) = h
      BY <3>3, <3>4 DEF filled
    <3> QED
      BY <3>2, <3>5
  <2> HIDE DEF d, leaf, e, g, h, read, in, filled, key
  <2>9. Leads(leaf, Txt("word", name), e)
    <3>1. Leads(leaf, Txt("word", name), C!ReadOn(leaf, C!Text("word", name)))
      BY <1>1, LeadsText
    <3> QED
      BY <2>3, <3>1
  <2>10. Leads(d, named, g)
    <3>1. Leads(d, named, C!ReadOn(e, C!End("name")))
      BY <1>1, <1>2, <2>2, <2>9, LeadsElement
    <3> QED
      BY <2>5, <2>7, <3>1
  <2>11. Leads(d, named \o value, h)
    <3> HIDE DEF named
    <3> QED
      BY <1>1, <1>2, <2>8, <2>10, LeadsOn
  <2>12. Leads(d, El("member", named \o value), C!ReadOn(h, C!End("member")))
    BY <1>1, <1>2, <2>2, <2>11, LeadsElement
  <2> QED
    BY <2>2, <2>12 DEF Member, d, h, in
<1> HIDE DEF filled, key
<1>4. Fills(Member(name, value), fields, filled)
  BY <1>2, <1>3 DEF Fills
<1> QED
  BY <1>4 DEF filled, key

LEMMA FillsOn ==
    ASSUME NEW s, NEW t, NEW fields, NEW half, NEW filled,
           Fills(s, fields, half), Fills(t, half, filled)
    PROVE  Fills(s \o t, fields, filled)
<1>1. s \in Seq(Token) /\ t \in Seq(Token) /\ s \o t \in Seq(Token)
  BY DEF Fills
<1>2. ASSUME NEW frames, NEW before, Stack(frames)
      PROVE  \E name : Leads(Calling(Append(frames, InStruct(fields, before))), s \o t,
                             Calling(Append(frames, InStruct(filled, name))))
  <2>1. PICK key : Leads(Calling(Append(frames, InStruct(fields, before))), s,
                         Calling(Append(frames, InStruct(half, key))))
    BY <1>2 DEF Fills
  <2>2. PICK name : Leads(Calling(Append(frames, InStruct(half, key))), t,
                          Calling(Append(frames, InStruct(filled, name))))
    BY <1>2 DEF Fills
  <2> QED
    BY <1>1, <2>1, <2>2, LeadsOn
<1> QED
  BY <1>1, <1>2 DEF Fills

LEMMA StructYields ==
    ASSUME NEW s, NEW fields, Fills(s, <<>>, fields)
    PROVE  Yields(Struct(s), <<"struct", fields>>)
<1> DEFINE v == <<"struct", fields>>
<1>1. s \in Seq(Token) /\ "struct" \in Tag
  BY DEF Fills, Tag
<1>2. El("struct", s) \in Seq(Token)
  BY <1>1, ElementsMade
<1>3. ASSUME NEW rest, NEW f, Stack(rest), Caller(f)
      PROVE  Leads(Calling(Append(Append(rest, f), InValue)), El("struct", s), Given(rest, f, v))
  <2> DEFINE in == Append(rest, f)
             d == Calling(Append(in, InValue))
             a == Calling(Append(in, InStruct(<<>>, <<>>)))
  <2>1. Stack(in)
    BY <1>3, Pushed
  <2>2. PICK name : Leads(a, s, Calling(Append(in, InStruct(fields, name))))
    BY <2>1 DEF Fills
  <2> DEFINE b == Calling(Append(in, InStruct(fields, name)))
  <2>3. C!ReadOn(d, C!Start("struct")) = a
    BY <2>1, ValueReads
  <2>4. C!ReadOn(b, C!End("struct")) = C!Give(Append(in, InStruct(fields, name)), v)
    BY <2>1, StructReads
  <2>5. InStruct(fields, name).tag # "member"
    BY DEF InStruct, C!Frame
  <2>6. C!Give(Append(in, InStruct(fields, name)), v) = Given(rest, f, v)
    BY <1>3, <2>5, CallerReads
  <2> HIDE DEF d, a, v
  <2>7. Leads(a, s, b)
    BY <2>2
  <2> HIDE DEF b
  <2>8. Leads(d, El("struct", s), C!ReadOn(b, C!End("struct")))
    BY <1>1, <2>3, <2>7, LeadsElement
  <2> QED
    BY <2>4, <2>6, <2>8 DEF d
<1> HIDE DEF v
<1>4. Yields(El("value", El("struct", s)), v)
  BY <1>2, <1>3, ValueYields
<1> QED
  BY <1>4 DEF Struct, v

(* Ends(body, result): what the decoder makes of the whole of a body.      *)
Ends(body, result) ==
    /\ body \in Seq(Token) /\ result # C!Unanswered
    /\ \E final : Leads(C!Begun, body, final) /\ final.result = result

LEMMA EndsDecoded ==
    ASSUME NEW body, NEW result, Ends(body, result)
    PROVE  C!Decode(body) = result
<1>1. body \in Seq(Token) /\ result # C!Unanswered
  BY DEF Ends
<1>2. PICK final : Leads(C!Begun, body, final) /\ final.result = result
  BY DEF Ends
<1> DEFINE reading == C!Reading(body)
<1>3. IsReading(reading, body) /\ reading[0] = C!Begun
  BY <1>1, ReadingExists, ReadingSteps
<1>4. Len(body) \in Nat
  BY <1>1
<1> HIDE DEF reading
<1>5. /\ 0 + Len(body) <= Len(body) /\ 0 + Len(body) = Len(body)
      /\ \A k \in 1..Len(body) : body[0 + k] = body[k]
  BY <1>4
<1>6. reading[0 + Len(body)] = final
  BY <1>1, <1>2, <1>3, <1>5 DEF Leads
<1>7. reading[Len(body)].result = result
  BY <1>2, <1>5, <1>6
<1> QED
  BY <1>1, <1>7 DEF C!Decode, reading

LEMMA ResultKept ==
    ASSUME NEW d, NEW tag \in Tag, NEW content \in Seq(Token), NEW e,
           Leads(C!ReadOn(d, C!Start(tag)), content, e), e.result # C!Unanswered
    PROVE  El(tag, content) \in Seq(Token) /\ Leads(d, El(tag, content), e)
<1>1. Leads(d, El(tag, content), C!ReadOn(e, C!End(tag)))
  BY LeadsElement
<1>2. C!ReadOn(e, C!End(tag)) = e
  BY DEF C!ReadOn
<1> QED
  BY <1>1, <1>2, ElementsMade

LEMMA BeganOutside == C!Begun = Calling(<<>>)
  BY DEF C!Begun, Calling

LEMMA ResponseEnds ==
    ASSUME NEW value, NEW v, Yields(value, v)
    PROVE  Ends(Response(value), <<"value", v>>)
<1> DEFINE in == Append(<<>>, InContainer("params"))
           final == Given(<<>>, InContainer("params"), v)
<1>1. value \in Seq(Token) /\ "methodResponse" \in Tag /\ "params" \in Tag /\ "param" \in Tag
  BY DEF Yields, Tag
<1>2. /\ C!ReadOn(Calling(<<>>), C!Start("methodResponse")) = Calling(<<>>)
      /\ C!ReadOn(Calling(<<>>), C!Start("params")) = Calling(in)
  BY OutsideReads
<1>3. C!ReadOn(Calling(in), C!Start("param")) = Calling(in)
  BY EmptyStack, ContainerReads
<1>4. Caller(InContainer("params"))
  BY DEF Caller
<1>5. Leads(Calling(in), value, final)
  BY <1>4, EmptyStack DEF Yields
<1>6. final.result = <<"value", v>> /\ <<"value", v>> # C!Unanswered
  <2>1. final = [stack |-> in,
                 result |-> IF "params" = "params" THEN <<"value", v>>
                            ELSE IF v[1] = "struct" THEN <<"fault">>
                            ELSE C!Error("malformed fault")]
    BY EmptyStack, GiveContainer DEF Given
  <2>2. final = [stack |-> in, result |-> <<"value", v>>]
    BY <2>1
  <2> HIDE DEF final
  <2> QED
    BY <2>2 DEF C!Unanswered
<1> HIDE DEF final, in
<1>7. El("param", value) \in Seq(Token) /\ Leads(Calling(in), El("param", value), final)
  BY <1>1, <1>3, <1>5, <1>6, ResultKept
<1>8. /\ El("params", El("param", value)) \in Seq(Token)
      /\ Leads(Calling(<<>>), El("params", El("param", value)), final)
  BY <1>1, <1>2, <1>6, <1>7, ResultKept
<1>9. Response(value) \in Seq(Token) /\ Leads(Calling(<<>>), Response(value), final)
  BY <1>1, <1>2, <1>6, <1>8, ResultKept DEF Response
<1> QED
  BY <1>6, <1>9, BeganOutside DEF Ends

LEMMA FaultEnds == Ends(FaultResponse, <<"fault">>)
<1> DEFINE in == Append(<<>>, InContainer("fault"))
           value == Struct(Member("faultCode", Number("i4", 4)))
           v == <<"struct", C!Put(<<>>, Key("faultCode"), NumberValue("i4", 4))>>
           final == Given(<<>>, InContainer("fault"), v)
<1>1. Yields(value, v)
  <2>1. Yields(Number("i4", 4), NumberValue("i4", 4))
    BY NumberYields
  <2>2. Fills(Member("faultCode", Number("i4", 4)), <<>>,
              C!Put(<<>>, Key("faultCode"), NumberValue("i4", 4)))
    BY <2>1, MemberFills DEF Names
  <2> QED
    BY <2>2, StructYields
<1>2. value \in Seq(Token) /\ "methodResponse" \in Tag /\ "fault" \in Tag
  BY <1>1 DEF Yields, Tag
<1>3. /\ C!ReadOn(Calling(<<>>), C!Start("methodResponse")) = Calling(<<>>)
      /\ C!ReadOn(Calling(<<>>), C!Start("fault")) = Calling(in)
  BY OutsideReads
<1>4. Caller(InContainer("fault"))
  BY DEF Caller
<1>5. Leads(Calling(in), value, final)
  BY <1>1, <1>4, EmptyStack DEF Yields
<1>6. final.result = <<"fault">> /\ <<"fault">> # C!Unanswered
  <2>1. v[1] = "struct"
    OBVIOUS
  <2> HIDE DEF v
  <2>2. final = [stack |-> in,
                 result |-> IF "fault" = "params" THEN <<"value", v>>
                            ELSE IF v[1] = "struct" THEN <<"fault">>
                            ELSE C!Error("malformed fault")]
    BY EmptyStack, GiveContainer DEF Given
  <2>3. final = [stack |-> in, result |-> <<"fault">>]
    BY <2>1, <2>2
  <2> HIDE DEF final
  <2> QED
    BY <2>3 DEF C!Unanswered
<1> HIDE DEF final, in, value
<1>7. El("fault", value) \in Seq(Token) /\ Leads(Calling(<<>>), El("fault", value), final)
  BY <1>2, <1>3, <1>5, <1>6, ResultKept
<1>8. FaultResponse \in Seq(Token) /\ Leads(Calling(<<>>), FaultResponse, final)
  BY <1>2, <1>3, <1>6, <1>7, ResultKept DEF FaultResponse, value
<1> QED
  BY <1>6, <1>8, BeganOutside DEF Ends

LEMMA LeadsNothing ==
    ASSUME NEW d PROVE Leads(d, <<>>, d)
<1> SUFFICES ASSUME NEW body \in Seq(Token), NEW reading, NEW a \in Nat, reading[a] = d
             PROVE  reading[a + Len(<<>>)] = d
  BY DEF Leads
<1>1. a + Len(<<>>) = a
  OBVIOUS
<1> QED
  BY <1>1

LEMMA EmptyEnds == Ends(EmptyResponse, C!Error("no value"))
<1> DEFINE in == Append(<<>>, InContainer("params"))
           final == [stack |-> in, result |-> C!Error("no value")]
<1>1. "methodResponse" \in Tag /\ "params" \in Tag /\ <<>> \in Seq(Token)
  BY DEF Tag
<1>2. /\ C!ReadOn(Calling(<<>>), C!Start("methodResponse")) = Calling(<<>>)
      /\ C!ReadOn(Calling(<<>>), C!Start("params")) = Calling(in)
  BY OutsideReads
<1>3. C!ReadOn(Calling(in), C!End("params")) = final
  BY EmptyStack, ContainerReads
<1>4. final.result = C!Error("no value") /\ C!Error("no value") # C!Unanswered
  BY DEF C!Error, C!Unanswered
<1> HIDE DEF final, in
<1>5. Leads(Calling(in), <<>>, Calling(in))
  BY LeadsNothing
<1>6. Leads(Calling(<<>>), El("params", <<>>), final)
  <2>1. Leads(Calling(<<>>), El("params", <<>>), C!ReadOn(Calling(in), C!End("params")))
    BY <1>1, <1>2, <1>5, LeadsElement
  <2> QED
    BY <1>3, <2>1
<1>7. El("params", <<>>) \in Seq(Token)
  BY <1>1, ElementsMade
<1>8. EmptyResponse \in Seq(Token) /\ Leads(Calling(<<>>), EmptyResponse, final)
  BY <1>1, <1>2, <1>4, <1>6, <1>7, ResultKept DEF EmptyResponse
<1> QED
  BY <1>4, <1>8, BeganOutside DEF Ends

(* TrueTo(m, body, result): whatever of the body arrives, the call m       *)
(* returns this result or an error.                                        *)
Starts(part, body) ==
    /\ part \in Seq(Token) /\ Len(part) <= Len(body)
    /\ \A k \in 1..Len(part) : part[k] = body[k]
TrueTo(m, body, result) ==
    \A part : Starts(part, body) =>
        \/ C!Result(m, C!Decode(part))[1] = "error"
        \/ C!Result(m, C!Decode(part)) = result

LEMMA TruncatedIsError ==
    \A m : \A why : C!Result(m, C!Error(why))[1] = "error"
  BY DEF C!Result, C!Error

(* Means(m, body, result): what it returns for the whole of it.            *)
Means(m, body, result) ==
    \E decoded : Ends(body, decoded) /\ C!Result(m, decoded) = result

LEMMA MeansTrue ==
    ASSUME NEW m, NEW body, NEW whole, NEW result, Means(m, body, whole),
           whole[1] = "error" \/ whole = result
    PROVE  TrueTo(m, body, result)
<1> PICK decoded : Ends(body, decoded) /\ C!Result(m, decoded) = whole
  BY DEF Means
<1> SUFFICES ASSUME NEW part, Starts(part, body)
             PROVE  \/ C!Result(m, C!Decode(part))[1] = "error"
                    \/ C!Result(m, C!Decode(part)) = result
  BY DEF TrueTo
<1>1. PICK final : Leads(C!Begun, body, final) /\ final.result = decoded
  BY DEF Ends
<1>2. body \in Seq(Token)
  BY DEF Ends
<1>3. C!Decode(part) = C!Error("truncated") \/ C!Decode(part) = decoded
  BY <1>1, <1>2, CutOrWhole DEF Starts
<1> QED
  BY <1>3, TruncatedIsError

LEMMA NothingTrue ==
    ASSUME NEW m, NEW result PROVE TrueTo(m, <<>>, result)
<1> SUFFICES ASSUME NEW part, Starts(part, <<>>)
             PROVE  C!Result(m, C!Decode(part))[1] = "error"
  BY DEF TrueTo
<1>1. Leads(C!Begun, <<>>, C!Begun) /\ C!Begun.result = C!Unanswered
  BY LeadsNothing DEF C!Begun
<1>2. C!Decode(part) = C!Error("truncated")
  <2>1. <<>> \in Seq(Token)
    OBVIOUS
  <2> QED
    BY <1>1, <2>1, CutOrWhole DEF Starts
<1> QED
  BY <1>2, TruncatedIsError

(* What the calls make of the values.                                      *)
LEMMA FourItems ==
    ASSUME NEW style \in {"i4", "int", "string"}
    PROVE  \E vs \in Seq(Item) :
             /\ Items(FourNumbers(style), vs) /\ Len(vs) = 4
             /\ vs[1] = NumberValue(style, 0) /\ vs[2] = NumberValue(style, 64)
             /\ vs[3] = NumberValue(style, 1) /\ vs[4] = NumberValue(style, 0)
<1> DEFINE one(k) == <<NumberValue(style, k)>>
           two == one(0) \o one(64)
           three == two \o one(1)
           four == three \o one(0)
<1>1. \A k \in {0, 1, 64} : Items(Number(style, k), one(k)) /\ one(k) \in Seq(Item)
                            /\ Len(one(k)) = 1 /\ one(k)[1] = NumberValue(style, k)
  <2> TAKE k \in {0, 1, 64}
  <2>1. k \in Int
    OBVIOUS
  <2>2. Items(Number(style, k), one(k))
    BY <2>1, NumberItems
  <2> QED
    BY <2>2 DEF Items
<1> HIDE DEF one
<1>2. /\ two \in Seq(Item) /\ Len(two) = 2
      /\ two[1] = NumberValue(style, 0) /\ two[2] = NumberValue(style, 64)
      /\ Items(Number(style, 0) \o Number(style, 64), two)
  <2>1. Items(Number(style, 0) \o Number(style, 64), two)
    BY <1>1, MoreItems
  <2>2. one(0) \in Seq(Item) /\ one(64) \in Seq(Item) /\ Len(one(0)) = 1 /\ Len(one(64)) = 1
    BY <1>1
  <2>3. /\ two \in Seq(Item) /\ Len(two) = Len(one(0)) + Len(one(64))
        /\ \A k \in 1..Len(one(0)) : two[k] = one(0)[k]
        /\ \A k \in 1..Len(one(64)) : two[Len(one(0)) + k] = one(64)[k]
    BY <2>2, Joined
  <2> HIDE DEF two
  <2>4. Len(two) = 2 /\ two[1] = one(0)[1] /\ two[1 + 1] = one(64)[1]
    BY <2>2, <2>3
  <2> QED
    BY <1>1, <2>1, <2>3, <2>4
<1> HIDE DEF two
<1>3. /\ three \in Seq(Item) /\ Len(three) = 3
      /\ three[1] = NumberValue(style, 0) /\ three[2] = NumberValue(style, 64)
      /\ three[3] = NumberValue(style, 1)
      /\ Items(Number(style, 0) \o Number(style, 64) \o Number(style, 1), three)
  <2>1. Items(Number(style, 0) \o Number(style, 64) \o Number(style, 1), three)
    BY <1>1, <1>2, MoreItems
  <2>2. one(1) \in Seq(Item) /\ Len(one(1)) = 1
    BY <1>1
  <2>3. /\ three \in Seq(Item) /\ Len(three) = Len(two) + Len(one(1))
        /\ \A k \in 1..Len(two) : three[k] = two[k]
        /\ \A k \in 1..Len(one(1)) : three[Len(two) + k] = one(1)[k]
    <3>1. two \in Seq(Item) /\ one(1) \in Seq(Item)
      BY <1>2, <2>2
    <3> QED
      BY <3>1, Joined
  <2> HIDE DEF three
  <2>4. Len(three) = 3 /\ three[1] = two[1] /\ three[2] = two[2] /\ three[2 + 1] = one(1)[1]
    BY <1>2, <2>2, <2>3
  <2> QED
    BY <1>1, <1>2, <2>1, <2>3, <2>4
<1> HIDE DEF three
<1>4. /\ four \in Seq(Item) /\ Len(four) = 4
      /\ four[1] = NumberValue(style, 0) /\ four[2] = NumberValue(style, 64)
      /\ four[3] = NumberValue(style, 1) /\ four[4] = NumberValue(style, 0)
      /\ Items(FourNumbers(style), four)
  <2>1. Items(FourNumbers(style), four)
    BY <1>1, <1>3, MoreItems DEF FourNumbers
  <2>2. one(0) \in Seq(Item) /\ Len(one(0)) = 1
    BY <1>1
  <2>3. /\ four \in Seq(Item) /\ Len(four) = Len(three) + Len(one(0))
        /\ \A k \in 1..Len(three) : four[k] = three[k]
        /\ \A k \in 1..Len(one(0)) : four[Len(three) + k] = one(0)[k]
    <3>1. three \in Seq(Item) /\ one(0) \in Seq(Item)
      BY <1>3, <2>2
    <3> QED
      BY <3>1, Joined
  <2> HIDE DEF four
  <2>4. /\ Len(four) = 4 /\ four[1] = three[1] /\ four[2] = three[2] /\ four[3] = three[3]
        /\ four[3 + 1] = one(0)[1]
    BY <1>3, <2>2, <2>3
  <2> QED
    BY <1>1, <1>3, <2>1, <2>3, <2>4
<1> QED
  BY <1>4

LEMMA FiveItems ==
    ASSUME NEW style \in {"i4", "int", "string"}
    PROVE  \E vs \in Seq(Item) :
             /\ Items(Numbers(style), vs) /\ Len(vs) = 5
             /\ \A k \in 1..5 : vs[k] = NumberValue(style, Reading[k])
<1>1. PICK four \in Seq(Item) :
        /\ Items(FourNumbers(style), four) /\ Len(four) = 4
        /\ four[1] = NumberValue(style, 0) /\ four[2] = NumberValue(style, 64)
        /\ four[3] = NumberValue(style, 1) /\ four[4] = NumberValue(style, 0)
  BY FourItems
<1> DEFINE fifth == <<NumberValue(style, 5)>>
           five == four \o fifth
<1>2. Items(Number(style, 5), fifth)
  BY NumberItems
<1>3. fifth \in Seq(Item) /\ Len(fifth) = 1 /\ fifth[1] = NumberValue(style, 5)
  BY <1>2 DEF Items
<1> HIDE DEF fifth
<1>4. Items(Numbers(style), five)
  BY <1>1, <1>2, MoreItems DEF Numbers
<1>5. /\ five \in Seq(Item) /\ Len(five) = Len(four) + Len(fifth)
      /\ \A k \in 1..Len(four) : five[k] = four[k]
      /\ \A k \in 1..Len(fifth) : five[Len(four) + k] = fifth[k]
  <2>1. four \in Seq(Item) /\ fifth \in Seq(Item)
    BY <1>3
  <2> QED
    BY <2>1, Joined
<1> HIDE DEF five
<1>6. /\ Len(five) = 5 /\ five[1] = four[1] /\ five[2] = four[2] /\ five[3] = four[3]
      /\ five[4] = four[4] /\ five[4 + 1] = fifth[1]
  BY <1>1, <1>3, <1>5
<1>7. /\ Reading[1] = 0 /\ Reading[2] = 64 /\ Reading[3] = 1 /\ Reading[4] = 0
      /\ Reading[5] = 5
  BY DEF Reading
<1>8. ASSUME NEW k \in 1..5 PROVE five[k] = NumberValue(style, Reading[k])
  <2>1. five[5] = NumberValue(style, 5)
    BY <1>3, <1>6
  <2>2. CASE k = 1
    BY <1>1, <1>6, <1>7, <2>2
  <2>3. CASE k = 2
    BY <1>1, <1>6, <1>7, <2>3
  <2>4. CASE k = 3
    BY <1>1, <1>6, <1>7, <2>4
  <2>5. CASE k = 4
    BY <1>1, <1>6, <1>7, <2>5
  <2>6. CASE k = 5
    BY <1>7, <2>1, <2>6
  <2> QED
    BY <2>2, <2>3, <2>4, <2>5, <2>6
<1> QED
  BY <1>4, <1>5, <1>6, <1>8

LEMMA ArrayMeans ==
    ASSUME NEW s, NEW vs, Items(s, vs)
    PROVE  Means("sendTelegram", ArrayResponse(s), C!SendTelegram(<<"array", vs>>))
<1> DEFINE v == <<"array", vs>>
           decoded == <<"value", v>>
<1>1. Yields(El("value", El("array", El("data", s))), v)
  BY ArrayYields
<1> HIDE DEF v
<1>2. Ends(ArrayResponse(s), decoded)
  BY <1>1, ResponseEnds DEF ArrayResponse
<1>3. decoded[1] = "value" /\ decoded[2] = v
  OBVIOUS
<1> HIDE DEF decoded
<1>4. C!Result("sendTelegram", decoded) = C!SendTelegram(v)
  BY <1>3 DEF C!Result
<1> QED
  BY <1>2, <1>4 DEF Means, v

LEMMA TelegramFrom ==
    ASSUME NEW vs
    PROVE  C!SendTelegram(<<"array", vs>>) =
             IF Len(vs) # 5 \/ \E k \in 1..Len(vs) : vs[k][1] # "int"
               THEN C!Error("response") ELSE <<"telegram", [k \in 1..5 |-> vs[k][2]]>>
<1> DEFINE v == <<"array", vs>>
<1>1. v[1] = "array" /\ v[2] = vs
  OBVIOUS
<1> HIDE DEF v
<1>2. C!SendTelegram(v) =
        IF Len(vs) # 5 \/ \E k \in 1..Len(vs) : vs[k][1] # "int"
          THEN C!Error("response") ELSE <<"telegram", [k \in 1..5 |-> vs[k][2]]>>
  BY <1>1 DEF C!SendTelegram
<1> QED
  BY <1>2 DEF v

LEMMA ArrayRefused ==
    ASSUME NEW s, NEW vs, Items(s, vs),
           Len(vs) # 5 \/ \E k \in 1..Len(vs) : vs[k][1] # "int",
           NEW result
    PROVE  TrueTo("sendTelegram", ArrayResponse(s), result)
<1>1. C!SendTelegram(<<"array", vs>>) = C!Error("response")
  BY TelegramFrom
<1>2. C!Error("response")[1] = "error"
  BY DEF C!Error
<1>3. Means("sendTelegram", ArrayResponse(s), C!Error("response"))
  BY <1>1, ArrayMeans
<1> QED
  BY <1>2, <1>3, MeansTrue

LEMMA NumbersMean ==
    /\ \A style \in {"i4", "int"} :
         Means("sendTelegram", ArrayResponse(Numbers(style)), <<"telegram", Reading>>)
    /\ TrueTo("sendTelegram", ArrayResponse(Numbers("string")), Refused)
    /\ TrueTo("sendTelegram", ArrayResponse(FourNumbers("i4")), Refused)
    /\ TrueTo("sendTelegram", ArrayResponse(Numbers("i4") \o Numbers("i4")), Refused)
<1>1. ASSUME NEW style \in {"i4", "int"}
      PROVE  Means("sendTelegram", ArrayResponse(Numbers(style)), <<"telegram", Reading>>)
  <2>1. PICK vs \in Seq(Item) : /\ Items(Numbers(style), vs) /\ Len(vs) = 5
                                /\ \A k \in 1..5 : vs[k] = NumberValue(style, Reading[k])
    BY FiveItems
  <2>2. \A k \in 1..5 : vs[k][1] = "int" /\ vs[k][2] = Reading[k]
    BY <2>1 DEF NumberValue
  <2>3. [k \in 1..5 |-> vs[k][2]] = Reading
    <3>1. Reading = [k \in 1..5 |-> Reading[k]]
      BY DEF Reading
    <3> HIDE DEF Reading
    <3> QED
      BY <2>2, <3>1
  <2>4. C!SendTelegram(<<"array", vs>>) = <<"telegram", Reading>>
    BY <2>1, <2>2, <2>3, TelegramFrom
  <2> QED
    BY <2>1, <2>4, ArrayMeans
<1>2. TrueTo("sendTelegram", ArrayResponse(Numbers("string")), Refused)
  <2>1. PICK vs \in Seq(Item) : /\ Items(Numbers("string"), vs) /\ Len(vs) = 5
                                /\ \A k \in 1..5 : vs[k] = NumberValue("string", Reading[k])
    BY FiveItems
  <2>2. vs[1][1] = "text" /\ 1 \in 1..Len(vs)
    BY <2>1 DEF NumberValue
  <2>3. \E k \in 1..Len(vs) : vs[k][1] # "int"
    BY <2>2
  <2> QED
    BY <2>1, <2>3, ArrayRefused
<1>3. TrueTo("sendTelegram", ArrayResponse(FourNumbers("i4")), Refused)
  <2>1. PICK vs \in Seq(Item) : Items(FourNumbers("i4"), vs) /\ Len(vs) = 4
    BY FourItems
  <2>2. Len(vs) # 5
    BY <2>1
  <2> QED
    BY <2>1, <2>2, ArrayRefused
<1>4. TrueTo("sendTelegram", ArrayResponse(Numbers("i4") \o Numbers("i4")), Refused)
  <2>1. PICK vs \in Seq(Item) : Items(Numbers("i4"), vs) /\ Len(vs) = 5
    BY FiveItems
  <2>2. Items(Numbers("i4") \o Numbers("i4"), vs \o vs)
    BY <2>1, MoreItems
  <2>3. Len(vs \o vs) # 5
    <3>1. Len(vs \o vs) = Len(vs) + Len(vs)
      BY Joined
    <3> QED
      BY <2>1, <3>1
  <2> QED
    BY <2>2, <2>3, ArrayRefused
<1> QED
  BY <1>1, <1>2, <1>3, <1>4

LEMMA NumberRead ==
    ASSUME NEW fields, NEW name \in DOMAIN fields, NEW style \in {"i4", "int", "string", "bare"},
           NEW k \in Int, fields[name] = NumberValue(style, k)
    PROVE  C!HasInt(fields, name) /\ C!IntIn(fields, name) = k
<1>1. CASE style \in {"i4", "int"}
  <2>1. fields[name][1] = "int" /\ fields[name][2] = k
    BY <1>1 DEF NumberValue
  <2> QED
    BY <2>1 DEF C!HasInt, C!IntIn
<1>2. CASE style \in {"string", "bare"}
  <2>1. fields[name][1] = "text" /\ fields[name][2] = <<<<"number", k>>>>
    BY <1>2 DEF NumberValue
  <2> QED
    BY <2>1, LeavesAre DEF C!HasInt, C!IntIn
<1> QED
  BY <1>1, <1>2

LEMMA KeysDiffer ==
    /\ Key("cur") = <<<<"word", "cur">>>> /\ Key("total") = <<<<"word", "total">>>>
    /\ Key("bin") = <<<<"word", "bin">>>>
    /\ Key("cur") # Key("total") /\ Key("cur") # Key("bin") /\ Key("total") # Key("bin")
<1>1. \A name : Key(name)[1][2] = name
  BY DEF Key
<1>2. Key("cur") # Key("total") /\ Key("cur") # Key("bin") /\ Key("total") # Key("bin")
  <2>1. Key("cur")[1][2] = "cur" /\ Key("total")[1][2] = "total" /\ Key("bin")[1][2] = "bin"
    BY <1>1
  <2> QED
    BY <2>1
<1> QED
  BY <1>2 DEF Key

LEMMA StructMeans ==
    ASSUME NEW s, NEW fields, Fills(s, <<>>, fields)
    PROVE  Means("readFile", Response(Struct(s)), C!ReadFile(<<"struct", fields>>))
<1> DEFINE v == <<"struct", fields>>
           decoded == <<"value", v>>
<1>1. Ends(Response(Struct(s)), decoded)
  BY StructYields, ResponseEnds
<1> HIDE DEF v
<1>2. decoded[1] = "value" /\ decoded[2] = v
  OBVIOUS
<1> HIDE DEF decoded
<1>3. C!Result("readFile", decoded) = C!ReadFile(v)
  BY <1>2 DEF C!Result
<1> QED
  BY <1>1, <1>3 DEF Means, v

LEMMA ChunkMeans ==
    ASSUME NEW c \in [cur : Int, total : Int, bin : Pieces], NEW style \in {"i4", "string"}
    PROVE  Means("readFile", ChunkResponse(style, c), <<"chunk", c>>)
<1> DEFINE one == C!Put(<<>>, Key("cur"), NumberValue(style, c.cur))
           two == C!Put(one, Key("total"), NumberValue(style, c.total))
           three == C!Put(two, Key("bin"), <<"bytes", c.bin>>)
           result(bin) == <<"chunk", [cur |-> c.cur, total |-> c.total, bin |-> bin]>>
<1>1. /\ c.cur \in Int /\ c.total \in Int /\ c.bin \in Pieces
      /\ c = [cur |-> c.cur, total |-> c.total, bin |-> c.bin]
      /\ style \in {"i4", "int", "string", "bare"}
  OBVIOUS
<1>2. /\ DOMAIN two = {Key("cur"), Key("total")}
      /\ two[Key("cur")] = NumberValue(style, c.cur)
      /\ two[Key("total")] = NumberValue(style, c.total)
  <2>1. DOMAIN one = {Key("cur")} /\ one[Key("cur")] = NumberValue(style, c.cur)
    <3>1. DOMAIN <<>> = {}
      OBVIOUS
    <3> QED
      BY <3>1 DEF C!Put
  <2> HIDE DEF one
  <2>2. DOMAIN two = DOMAIN one \cup {Key("total")}
        /\ two[Key("total")] = NumberValue(style, c.total)
        /\ \A key \in DOMAIN one : key # Key("total") => two[key] = one[key]
    BY DEF C!Put
  <2> HIDE DEF two
  <2> QED
    BY <2>1, <2>2, KeysDiffer
<1>3. /\ DOMAIN three = {Key("cur"), Key("total"), Key("bin")}
      /\ three[Key("cur")] = NumberValue(style, c.cur)
      /\ three[Key("total")] = NumberValue(style, c.total)
      /\ three[Key("bin")] = <<"bytes", c.bin>>
  <2> HIDE DEF two
  <2>1. DOMAIN three = DOMAIN two \cup {Key("bin")} /\ three[Key("bin")] = <<"bytes", c.bin>>
        /\ \A key \in DOMAIN two : key # Key("bin") => three[key] = two[key]
    BY DEF C!Put
  <2> HIDE DEF three
  <2> QED
    BY <1>2, <2>1, KeysDiffer
<1>4. Fills(ChunkMembers(style, c), <<>>, two)
  <2>1. Yields(Number(style, c.cur), NumberValue(style, c.cur))
        /\ Yields(Number(style, c.total), NumberValue(style, c.total))
    BY <1>1, NumberYields
  <2>2. Fills(Member("cur", Number(style, c.cur)), <<>>, one)
    BY <2>1, MemberFills DEF Names
  <2> HIDE DEF one
  <2>3. Fills(Member("total", Number(style, c.total)), one, two)
    BY <2>1, MemberFills DEF Names
  <2> HIDE DEF two
  <2> QED
    BY <2>2, <2>3, FillsOn DEF ChunkMembers
<1>5. ASSUME NEW fields,
             Key("cur") \in DOMAIN fields, Key("total") \in DOMAIN fields,
             fields[Key("cur")] = NumberValue(style, c.cur),
             fields[Key("total")] = NumberValue(style, c.total)
      PROVE  C!ReadFile(<<"struct", fields>>) =
               result(IF Key("bin") \in DOMAIN fields /\ fields[Key("bin")][1] = "bytes"
                        THEN fields[Key("bin")][2] ELSE Nothing)
  <2> DEFINE v == <<"struct", fields>>
  <2>1. v[1] = "struct" /\ v[2] = fields
    OBVIOUS
  <2>2. /\ C!HasInt(fields, Key("cur")) /\ C!IntIn(fields, Key("cur")) = c.cur
        /\ C!HasInt(fields, Key("total")) /\ C!IntIn(fields, Key("total")) = c.total
    BY <1>1, <1>5, NumberRead
  <2> HIDE DEF v
  <2>3. C!ReadFile(v) = result(IF Key("bin") \in DOMAIN fields /\ fields[Key("bin")][1] = "bytes"
                                 THEN fields[Key("bin")][2] ELSE Nothing)
    BY <2>1, <2>2, KeysDiffer DEF C!ReadFile
  <2> QED
    BY <2>3 DEF v
<1>6. CASE c.bin = Nothing
  <2>1. ChunkResponse(style, c) = Response(Struct(ChunkMembers(style, c)))
    <3>1. ChunkMembers(style, c) \in Seq(Token)
      BY <1>4 DEF Fills
    <3>2. ChunkMembers(style, c) \o <<>> = ChunkMembers(style, c)
      BY <3>1
    <3> QED
      BY <1>6, <3>2 DEF ChunkResponse
  <2> HIDE DEF two
  <2>2. Key("bin") \notin DOMAIN two
    BY <1>2, KeysDiffer
  <2>3. C!ReadFile(<<"struct", two>>) = result(Nothing)
    BY <1>2, <1>5, <2>2
  <2>4. result(Nothing) = <<"chunk", c>>
    BY <1>1, <1>6
  <2> QED
    BY <1>4, <2>1, <2>3, <2>4, StructMeans
<1>7. CASE c.bin # Nothing
  <2> DEFINE value == El("value", El("base64", Txt("base64", c.bin)))
  <2>1. ChunkResponse(style, c) =
          Response(Struct(ChunkMembers(style, c) \o Member("bin", value)))
    BY <1>7 DEF ChunkResponse
  <2>2. Yields(value, <<"bytes", c.bin>>)
    <3>1. C!Leaf("base64", <<<<"base64", c.bin>>>>) = <<"bytes", c.bin>>
      BY LeavesAre
    <3>2. <<"bytes", c.bin>> # C!Unanswered /\ c.bin \in Content
      BY <1>1 DEF C!Unanswered, Content
    <3>3. Yields(value, C!Leaf("base64", <<<<"base64", c.bin>>>>))
      BY <3>1, <3>2, LeafYields
    <3> QED
      BY <3>1, <3>3
  <2> HIDE DEF value, two
  <2>3. Fills(Member("bin", value), two, three)
    BY <2>2, MemberFills DEF Names
  <2> HIDE DEF three
  <2>4. Fills(ChunkMembers(style, c) \o Member("bin", value), <<>>, three)
    BY <1>4, <2>3, FillsOn
  <2>5. /\ Key("bin") \in DOMAIN three /\ three[Key("bin")][1] = "bytes"
        /\ three[Key("bin")][2] = c.bin
    BY <1>3
  <2>6. C!ReadFile(<<"struct", three>>) = result(c.bin)
    BY <1>3, <1>5, <2>5
  <2>7. result(c.bin) = <<"chunk", c>>
    BY <1>1
  <2> QED
    BY <2>1, <2>4, <2>6, <2>7, StructMeans
<1> QED
  BY <1>6, <1>7

LEMMA CurOnlyTrue ==
    ASSUME NEW cur \in Int, NEW result
    PROVE  TrueTo("readFile", Response(Struct(Member("cur", Number("i4", cur)))), result)
<1> DEFINE fields == C!Put(<<>>, Key("cur"), NumberValue("i4", cur))
<1>1. Fills(Member("cur", Number("i4", cur)), <<>>, fields)
  <2>1. Yields(Number("i4", cur), NumberValue("i4", cur))
    BY NumberYields
  <2> QED
    BY <2>1, MemberFills DEF Names
<1>2. Key("total") \notin DOMAIN fields
  <2>1. DOMAIN fields = {Key("cur")}
    <3>1. DOMAIN <<>> = {}
      OBVIOUS
    <3> QED
      BY <3>1 DEF C!Put
  <2> QED
    BY <2>1, KeysDiffer
<1> HIDE DEF fields
<1>3. C!ReadFile(<<"struct", fields>>)[1] = "error"
  <2> DEFINE v == <<"struct", fields>>
  <2>1. v[2] = fields
    OBVIOUS
  <2> HIDE DEF v
  <2>2. C!ReadFile(v) = C!Error("response")
    BY <1>2, <2>1, KeysDiffer DEF C!ReadFile, C!HasInt
  <2> QED
    BY <2>2 DEF C!Error, v
<1> QED
  BY <1>1, <1>3, StructMeans, MeansTrue

LEMMA OthersMean ==
    /\ \A m : Means(m, FaultResponse, <<"fault">>)
    /\ \A result : TrueTo("sendTelegram", EmptyResponse, result)
    /\ \A result : TrueTo("sendTelegram", Response(Number("bare", 5)), result)
    /\ \A style \in {"i4", "bare"} :
         Means("simInputEvent", Response(Number(style, 0)), <<"done">>)
<1>1. ASSUME NEW m PROVE Means(m, FaultResponse, <<"fault">>)
  <2>1. C!Result(m, <<"fault">>) = <<"fault">>
    BY DEF C!Result
  <2> QED
    BY <2>1, FaultEnds DEF Means
<1>2. ASSUME NEW result PROVE TrueTo("sendTelegram", EmptyResponse, result)
  <2>1. Means("sendTelegram", EmptyResponse, C!Result("sendTelegram", C!Error("no value")))
    BY EmptyEnds DEF Means
  <2> QED
    BY <2>1, MeansTrue, TruncatedIsError
<1>3. ASSUME NEW result PROVE TrueTo("sendTelegram", Response(Number("bare", 5)), result)
  <2> DEFINE v == NumberValue("bare", 5)
             decoded == <<"value", v>>
  <2>1. Ends(Response(Number("bare", 5)), decoded)
    BY NumberYields, ResponseEnds
  <2>2. v[1] = "text"
    BY DEF NumberValue
  <2> HIDE DEF v
  <2>3. decoded[1] = "value" /\ decoded[2] = v
    OBVIOUS
  <2> HIDE DEF decoded
  <2>4. C!Result("sendTelegram", decoded)[1] = "error"
    BY <2>2, <2>3 DEF C!Result, C!SendTelegram, C!Error
  <2>5. Means("sendTelegram", Response(Number("bare", 5)), C!Result("sendTelegram", decoded))
    BY <2>1 DEF Means
  <2> QED
    BY <2>4, <2>5, MeansTrue
<1>4. ASSUME NEW style \in {"i4", "bare"}
      PROVE  Means("simInputEvent", Response(Number(style, 0)), <<"done">>)
  <2> DEFINE v == NumberValue(style, 0)
             decoded == <<"value", v>>
  <2>1. Ends(Response(Number(style, 0)), decoded)
    <3>1. style \in {"i4", "int", "string", "bare"}
      OBVIOUS
    <3> QED
      BY <3>1, NumberYields, ResponseEnds
  <2> HIDE DEF v
  <2>2. decoded[1] = "value"
    OBVIOUS
  <2> HIDE DEF decoded
  <2>3. C!Result("simInputEvent", decoded) = <<"done">>
    BY <2>2 DEF C!Result
  <2> QED
    BY <2>1, <2>3 DEF Means
<1> QED
  BY <1>1, <1>2, <1>3, <1>4

(* The headers.                                                            *)
Headers == UnsoundHeaders \cup {StmHeader, StandardHeader}

(* A blank line ends a header, and no header goes on after one.            *)
Lined(w) ==
    /\ w \in Seq(Symbol) /\ Len(w) >= 1 /\ w[1] # C!Newline
    /\ \A k \in 2..Len(w) : w[k - 1] # C!Newline \/ w[k] # C!Newline
BlankIsLast(h) ==
    \A k \in 2..Len(h) : h[k - 1] = C!Newline /\ h[k] = C!Newline => k = Len(h)

LEMMA LinedOn ==
    ASSUME NEW v, NEW w, Lined(v), Lined(w)
    PROVE  Lined(v \o w)
<1> DEFINE all == v \o w
<1>1. v \in Seq(Symbol) /\ w \in Seq(Symbol)
  BY DEF Lined
<1>2. /\ all \in Seq(Symbol) /\ Len(all) = Len(v) + Len(w)
      /\ \A k \in 1..Len(v) : all[k] = v[k]
      /\ \A k \in 1..Len(w) : all[Len(v) + k] = w[k]
  BY <1>1, Joined
<1> HIDE DEF all
<1>3. Len(v) \in Nat /\ Len(w) \in Nat /\ Len(v) >= 1 /\ Len(w) >= 1 /\ v[1] # C!Newline
      /\ w[1] # C!Newline
  BY <1>1 DEF Lined
<1>4. all[1] # C!Newline
  BY <1>2, <1>3
<1>5. ASSUME NEW k \in 2..Len(all) PROVE all[k - 1] # C!Newline \/ all[k] # C!Newline
  <2>1. CASE k <= Len(v)
    <3>1. k - 1 \in 1..Len(v) /\ k \in 1..Len(v) /\ k \in 2..Len(v)
      BY <1>3, <2>1
    <3>2. all[k - 1] = v[k - 1] /\ all[k] = v[k]
      BY <1>2, <3>1
    <3> QED
      BY <3>1, <3>2 DEF Lined
  <2>2. CASE k = Len(v) + 1
    <3>1. all[Len(v) + 1] = w[1]
      BY <1>2, <1>3
    <3> QED
      BY <1>3, <2>2, <3>1
  <2>3. CASE k > Len(v) + 1
    <3>1. /\ k - Len(v) \in 2..Len(w) /\ k - Len(v) \in 1..Len(w)
          /\ (k - Len(v)) - 1 \in 1..Len(w)
          /\ Len(v) + (k - Len(v)) = k /\ Len(v) + ((k - Len(v)) - 1) = k - 1
      BY <1>2, <1>3, <2>3
    <3>2. all[Len(v) + (k - Len(v))] = w[k - Len(v)]
      BY <1>2, <3>1
    <3>3. all[Len(v) + ((k - Len(v)) - 1)] = w[(k - Len(v)) - 1]
      BY <1>2, <3>1
    <3>4. w[(k - Len(v)) - 1] # C!Newline \/ w[k - Len(v)] # C!Newline
      BY <3>1 DEF Lined
    <3> QED
      BY <3>1, <3>2, <3>3, <3>4
  <2> QED
    BY <1>2, <1>3, <2>1, <2>2, <2>3
<1>6. Len(all) >= 1
  BY <1>2, <1>3
<1> QED
  BY <1>2, <1>4, <1>5, <1>6 DEF Lined, all

LEMMA LinedEnds ==
    ASSUME NEW v, Lined(v)
    PROVE  BlankIsLast(v) /\ BlankIsLast(v \o C!Blank)
<1> DEFINE all == v \o C!Blank
<1>1. v \in Seq(Symbol) /\ C!Blank \in Seq(Symbol) /\ Len(C!Blank) = 1
  BY HeadSymbols DEF Lined
<1>2. v \in Seq(Symbol) /\ C!Blank \in Seq(Symbol)
  BY <1>1
<1>3. /\ Len(all) = Len(v) + Len(C!Blank)
      /\ \A k \in 1..Len(v) : all[k] = v[k]
  BY <1>2, Joined
<1> HIDE DEF all
<1>4. Len(v) \in Nat /\ Len(all) = Len(v) + 1
  BY <1>1, <1>3
<1>5. ASSUME NEW k \in 2..Len(all), all[k - 1] = C!Newline, all[k] = C!Newline
      PROVE  k = Len(all)
  <2> SUFFICES ASSUME k <= Len(v) PROVE FALSE
    BY <1>4
  <2>1. k - 1 \in 1..Len(v) /\ k \in 1..Len(v) /\ k \in 2..Len(v)
    BY <1>4
  <2>2. v[k - 1] = C!Newline /\ v[k] = C!Newline
    BY <1>3, <1>5, <2>1
  <2> QED
    BY <2>1, <2>2 DEF Lined
<1>6. BlankIsLast(all)
  BY <1>5 DEF BlankIsLast
<1>7. BlankIsLast(v)
  BY DEF BlankIsLast, Lined
<1> QED
  BY <1>6, <1>7 DEF all

LEMMA LinesLined ==
    /\ Lined(StatusLine) /\ Lined(DateLine) /\ Lined(FieldLine) /\ Lined(JunkLine)
    /\ Lined(LongLine) /\ Lined(LongHeader)
<1>1. ASSUME NEW symbol \in Symbol, symbol # C!Newline PROVE Lined(HeaderLine(<<symbol>>))
  <2> DEFINE line == <<symbol, C!Newline>>
  <2>1. HeaderLine(<<symbol>>) = line
    BY LinesMade
  <2>2. line \in Seq(Symbol) /\ Len(line) = 2 /\ line[1] = symbol
    BY HeadSymbols
  <2> HIDE DEF line
  <2>3. \A k \in 2..Len(line) : k - 1 = 1
    BY <2>2
  <2>4. Lined(line)
    BY <1>1, <2>2, <2>3 DEF Lined
  <2> QED
    BY <2>1, <2>4
<1>2. C!Junk # C!Newline
  BY DEF C!Junk, C!Newline
<1>3. Lined(StatusLine) /\ Lined(DateLine) /\ Lined(FieldLine) /\ Lined(JunkLine)
  BY <1>1, <1>2, HeadSymbols DEF StatusLine, DateLine, FieldLine, JunkLine
<1>4. Lined(LongLine)
  <2> DEFINE fields == [k \in 1..MaxHeaderLine |-> C!Field]
             line == fields \o C!Blank
  <2>1. fields \in Seq(Symbol) /\ C!Blank \in Seq(Symbol)
    <3>1. fields \in Seq(Symbol)
      BY HeadSymbols, HeaderAssumption
    <3>2. C!Blank \in Seq(Symbol)
      BY HeadSymbols
    <3> QED
      BY <3>1, <3>2
  <2>2. /\ line \in Seq(Symbol) /\ Len(line) = Len(fields) + Len(C!Blank)
        /\ \A k \in 1..Len(fields) : line[k] = fields[k]
    <3> HIDE DEF fields
    <3> QED
      BY <2>1, Joined
  <2>3. Len(fields) = MaxHeaderLine /\ \A k \in 1..MaxHeaderLine : fields[k] = C!Field
    BY HeaderAssumption
  <2>4. Len(C!Blank) = 1
    BY HeadSymbols
  <2> HIDE DEF fields, line
  <2>5. Len(line) = MaxHeaderLine + 1 /\ \A k \in 1..MaxHeaderLine : line[k] # C!Newline
    BY <2>2, <2>3, <2>4, HeadSymbols
  <2>6. \A k \in 2..Len(line) : k - 1 \in 1..MaxHeaderLine
    BY <2>5, HeaderAssumption
  <2>7. Lined(line)
    BY <2>2, <2>5, <2>6, HeaderAssumption DEF Lined
  <2> QED
    BY <2>7 DEF LongLine, HeaderLine, line, fields
<1>5. Lined(LongHeader)
  <2> DEFINE count == 2 * MaxHeaderBytes
             symbol(k) == IF k % 2 = 0 THEN C!Newline ELSE IF k = 1 THEN C!Status ELSE C!Field
  <2>1. count \in Nat /\ count >= 4 /\ LongHeader = [k \in 1..count |-> symbol(k)]
    BY HeaderAssumption DEF LongHeader
  <2>2. \A k \in 1..count : symbol(k) \in Symbol /\ (k % 2 # 0 => symbol(k) # C!Newline)
    BY HeadSymbols
  <2>3. \A k \in 2..count : (k - 1) % 2 # 0 \/ k % 2 # 0
    BY <2>1
  <2>4. 1 % 2 # 0
    OBVIOUS
  <2> HIDE DEF count, symbol
  <2>5. LongHeader \in Seq(Symbol) /\ Len(LongHeader) = count
        /\ \A k \in 1..count : LongHeader[k] = symbol(k)
    BY <2>1, <2>2
  <2>6. \A k \in 2..count : k \in 1..count /\ k - 1 \in 1..count
    BY <2>1
  <2>7. LongHeader[1] # C!Newline
    BY <2>1, <2>2, <2>4, <2>5
  <2>8. \A k \in 2..count : LongHeader[k - 1] # C!Newline \/ LongHeader[k] # C!Newline
    BY <2>2, <2>3, <2>5, <2>6
  <2> QED
    BY <2>1, <2>5, <2>7, <2>8 DEF Lined
<1> QED
  BY <1>3, <1>4, <1>5

LEMMA HeadersEnd ==
    \A h \in Headers : h \in Seq(Symbol) /\ Opens(h) /\ BlankIsLast(h)
<1>1. \A h \in UnsoundHeaders : BlankIsLast(h)
  BY LinesLined, LinedOn, LinedEnds DEF UnsoundHeaders
<1>2. BlankIsLast(StmHeader) /\ BlankIsLast(StandardHeader)
  BY LinesLined, LinedOn, LinedEnds DEF StmHeader, StandardHeader
<1> QED
  BY <1>1, <1>2, HeadersOpen DEF Headers

(* How long the bodies are.                                                *)
Short(s, k) == s \in Seq(Token) /\ Len(s) <= k

LEMMA ElementShort ==
    ASSUME NEW tag \in Tag, NEW content, NEW k \in Nat, Short(content, k)
    PROVE  Short(El(tag, content), k + 2)
<1> DEFINE begin == <<C!Start(tag)>> \o content
<1>1. /\ content \in Seq(Token) /\ <<C!Start(tag)>> \in Seq(Token)
      /\ <<C!End(tag)>> \in Seq(Token)
  BY DEF Short, C!Start, C!End, Token
<1>2. begin \in Seq(Token) /\ Len(begin) = Len(<<C!Start(tag)>>) + Len(content)
  BY <1>1, Joined
<1> HIDE DEF begin
<1>3. /\ begin \o <<C!End(tag)>> \in Seq(Token)
      /\ Len(begin \o <<C!End(tag)>>) = Len(begin) + Len(<<C!End(tag)>>)
  BY <1>1, <1>2, Joined
<1>4. Len(<<C!Start(tag)>>) = 1 /\ Len(<<C!End(tag)>>) = 1
  OBVIOUS
<1>5. Len(content) <= k /\ Len(content) \in Nat
  BY <1>1 DEF Short
<1> QED
  BY <1>2, <1>3, <1>4, <1>5 DEF Short, El, begin

LEMMA JoinedShort ==
    ASSUME NEW s, NEW t, NEW j \in Nat, NEW k \in Nat, Short(s, j), Short(t, k)
    PROVE  Short(s \o t, j + k)
<1>1. s \in Seq(Token) /\ t \in Seq(Token) /\ Len(s) <= j /\ Len(t) <= k
  BY DEF Short
<1>2. s \o t \in Seq(Token) /\ Len(s \o t) = Len(s) + Len(t)
  <2>1. s \in Seq(Token) /\ t \in Seq(Token)
    BY <1>1
  <2> QED
    BY <2>1, Joined
<1> QED
  BY <1>1, <1>2 DEF Short

LEMMA TextShort ==
    ASSUME NEW kind \in {"word", "number", "base64"}, NEW data \in Content
    PROVE  Short(Txt(kind, data), 1)
<1>1. Txt(kind, data) \in Seq(Token)
  BY ElementsMade
<1>2. Len(Txt(kind, data)) = 1
  BY DEF Txt
<1> QED
  BY <1>1, <1>2 DEF Short

LEMMA NumberShort ==
    ASSUME NEW style \in {"i4", "int", "string", "bare"}, NEW k \in Int
    PROVE  Short(Number(style, k), 5)
<1>1. Short(Txt("number", k), 1)
  BY TextShort DEF Content
<1>2. "value" \in Tag /\ (style # "bare" => style \in Tag)
  BY DEF Tag
<1>3. style # "bare" => Short(El(style, Txt("number", k)), 1 + 2)
  BY <1>1, <1>2, ElementShort
<1>4. style # "bare" => Short(Number(style, k), 3 + 2)
  <2> SUFFICES ASSUME style # "bare" PROVE Short(Number(style, k), 3 + 2)
    OBVIOUS
  <2>1. Short(El(style, Txt("number", k)), 3)
    BY <1>3
  <2>2. Short(El("value", El(style, Txt("number", k))), 3 + 2)
    BY <1>2, <2>1, ElementShort
  <2> QED
    BY <2>2 DEF Number
<1>5. style = "bare" => Short(Number(style, k), 1 + 2)
  BY <1>1, <1>2, ElementShort DEF Number
<1>6. Short(Number(style, k), 5) \/ Short(Number(style, k), 3)
  BY <1>4, <1>5
<1> HIDE DEF Number
<1> QED
  BY <1>6 DEF Short

LEMMA BodiesShort ==
    ASSUME NEW s, NEW k \in Nat, Short(s, k)
    PROVE  /\ \A name \in Names : Short(Member(name, s), k + 5)
           /\ Short(Struct(s), k + 4) /\ Short(Response(s), k + 6)
           /\ Short(ArrayResponse(s), k + 12)
<1>1. /\ "member" \in Tag /\ "name" \in Tag /\ "value" \in Tag /\ "struct" \in Tag
      /\ "param" \in Tag /\ "params" \in Tag /\ "methodResponse" \in Tag
      /\ "data" \in Tag /\ "array" \in Tag
  BY DEF Tag
<1>2. \A tag \in Tag : \A content : \A j \in Nat :
        Short(content, j) => Short(El(tag, content), j + 2)
  BY ElementShort
<1>3. ASSUME NEW name \in Names PROVE Short(Member(name, s), k + 5)
  <2>1. Short(Txt("word", name), 1)
    BY TextShort DEF Names, Content
  <2>2. Short(El("name", Txt("word", name)), 3)
    <3>1. Short(El("name", Txt("word", name)), 1 + 2)
      BY <1>1, <1>2, <2>1
    <3> QED
      BY <3>1
  <2>3. Short(El("name", Txt("word", name)) \o s, 3 + k)
    BY <2>2, JoinedShort
  <2>4. Short(El("member", El("name", Txt("word", name)) \o s), (3 + k) + 2)
    BY <1>1, <1>2, <2>3
  <2>5. (3 + k) + 2 = k + 5
    OBVIOUS
  <2> QED
    BY <2>4, <2>5 DEF Member
<1>4. ASSUME NEW value, NEW j \in Nat, Short(value, j) PROVE Short(Response(value), j + 6)
  <2>1. Short(El("param", value), j + 2)
    BY <1>1, <1>2, <1>4
  <2>2. Short(El("params", El("param", value)), (j + 2) + 2)
    BY <1>1, <1>2, <2>1
  <2>3. Short(Response(value), ((j + 2) + 2) + 2)
    BY <1>1, <1>2, <2>2 DEF Response
  <2>4. ((j + 2) + 2) + 2 = j + 6
    OBVIOUS
  <2> QED
    BY <2>3, <2>4
<1>5. Short(Struct(s), k + 4)
  <2>1. Short(El("struct", s), k + 2)
    BY <1>1, <1>2
  <2>2. Short(Struct(s), (k + 2) + 2)
    BY <1>1, <1>2, <2>1 DEF Struct
  <2>3. (k + 2) + 2 = k + 4
    OBVIOUS
  <2> QED
    BY <2>2, <2>3
<1>6. Short(ArrayResponse(s), k + 12)
  <2>1. Short(El("data", s), k + 2)
    BY <1>1, <1>2
  <2>2. Short(El("array", El("data", s)), (k + 2) + 2)
    BY <1>1, <1>2, <2>1
  <2>3. Short(El("value", El("array", El("data", s))), ((k + 2) + 2) + 2)
    BY <1>1, <1>2, <2>2
  <2>4. Short(ArrayResponse(s), (((k + 2) + 2) + 2) + 6)
    BY <1>4, <2>3 DEF ArrayResponse
  <2>5. (((k + 2) + 2) + 2) + 6 = k + 12
    OBVIOUS
  <2> QED
    BY <2>4, <2>5
<1> QED
  BY <1>3, <1>4, <1>5, <1>6

(* Speaks(m, saying): a response, whatever it has to say, that the call m  *)
(* does not take for anything else, and takes for what it says when it is  *)
(* sound.                                                                  *)
Speaks(m, saying) ==
    \E h \in Headers : \E body \in Seq(Token) :
        /\ saying.wire = h \o body
        /\ TrueTo(m, body, saying.result)
        /\ saying.sound /\ saying.result # Refused =>
             /\ h \in {StmHeader, StandardHeader} /\ Len(body) <= 40
             /\ Means(m, body, saying.result) /\ saying.result[1] # "error"

LEMMA SpeaksTrue ==
    ASSUME NEW m, NEW h \in Headers, NEW body \in Seq(Token), NEW sound, NEW result,
           TrueTo(m, body, result), sound = FALSE \/ result = Refused
    PROVE  Speaks(m, Says(h, body, sound, result))
<1> DEFINE saying == Says(h, body, sound, result)
<1>1. saying.wire = h \o body /\ saying.sound = sound /\ saying.result = result
  BY DEF Says
<1> HIDE DEF saying
<1>2. ~(saying.sound /\ saying.result # Refused)
  BY <1>1
<1> QED
  BY <1>1, <1>2 DEF Speaks, saying

LEMMA SpeaksWell ==
    ASSUME NEW m, NEW h \in {StmHeader, StandardHeader}, NEW body, NEW result,
           Short(body, 40), Means(m, body, result), result[1] # "error"
    PROVE  Speaks(m, Says(h, body, TRUE, result))
<1> DEFINE saying == Says(h, body, TRUE, result)
<1>1. saying.wire = h \o body /\ saying.result = result
  BY DEF Says
<1>2. body \in Seq(Token) /\ Len(body) <= 40 /\ h \in Headers
  BY DEF Short, Headers
<1>3. TrueTo(m, body, result)
  BY MeansTrue
<1> HIDE DEF saying
<1> QED
  BY <1>1, <1>2, <1>3 DEF Speaks, saying

(* A response that can be told from none, and from what came before it.    *)
LEMMA SpeaksOpen ==
    ASSUME NEW m, NEW saying, Speaks(m, saying)
    PROVE  saying.wire \in Seq(Symbol) /\ Opens(saying.wire)
<1>1. PICK h \in Headers, body \in Seq(Token) : saying.wire = h \o body
  BY DEF Speaks
<1>2. h \in Seq(Symbol) /\ Opens(h) /\ body \in Seq(Symbol)
  BY HeadersEnd DEF Symbol
<1> QED
  BY <1>1, <1>2, GoesOnOpen

LEMMA TelegramsSpeak ==
    \A saying \in TelegramSayings :
        Speaks("sendTelegram", saying) /\ saying.result[1] # "chunk"
<1>1. ASSUME NEW h \in {StmHeader, StandardHeader}
      PROVE  Speaks("sendTelegram", Says(h, ArrayResponse(Numbers("i4")), TRUE,
                                         <<"telegram", Reading>>))
  <2>1. \A k \in Int : Short(Number("i4", k), 5)
    BY NumberShort
  <2>2. /\ Short(Number("i4", 0), 5) /\ Short(Number("i4", 64), 5)
        /\ Short(Number("i4", 1), 5) /\ Short(Number("i4", 5), 5)
    BY <2>1
  <2> DEFINE two == Number("i4", 0) \o Number("i4", 64)
             three == two \o Number("i4", 1)
             four == three \o Number("i4", 0)
  <2>3. Short(two, 5 + 5)
    BY <2>2, JoinedShort
  <2>4. Short(two, 10)
    BY <2>3
  <2> HIDE DEF two
  <2>5. Short(three, 10 + 5)
    BY <2>2, <2>4, JoinedShort
  <2>6. Short(three, 15)
    BY <2>5
  <2> HIDE DEF three
  <2>7. Short(four, 15 + 5)
    BY <2>2, <2>6, JoinedShort
  <2>8. Short(four, 20)
    BY <2>7
  <2>9. four = FourNumbers("i4")
    BY DEF four, three, two, FourNumbers
  <2> HIDE DEF four
  <2>10. Short(Numbers("i4"), 20 + 5)
    BY <2>2, <2>8, <2>9, JoinedShort DEF Numbers
  <2>11. Short(Numbers("i4"), 25)
    BY <2>10
  <2>12. Short(ArrayResponse(Numbers("i4")), 25 + 12)
    BY <2>11, BodiesShort
  <2>13. Short(ArrayResponse(Numbers("i4")), 40)
    BY <2>12 DEF Short
  <2>14. <<"telegram", Reading>>[1] # "error"
    OBVIOUS
  <2> QED
    BY <2>13, <2>14, NumbersMean, SpeaksWell
<1>2. /\ ArrayResponse(Numbers("i4")) \in Seq(Token)
      /\ ArrayResponse(Numbers("int")) \in Seq(Token)
      /\ ArrayResponse(Numbers("string")) \in Seq(Token)
      /\ ArrayResponse(FourNumbers("i4")) \in Seq(Token)
      /\ ArrayResponse(Numbers("i4") \o Numbers("i4")) \in Seq(Token)
      /\ Response(Number("bare", 5)) \in Seq(Token)
      /\ EmptyResponse \in Seq(Token) /\ <<>> \in Seq(Token)
  <2>1. /\ Numbers("i4") \in Seq(Token) /\ Numbers("int") \in Seq(Token)
        /\ Numbers("string") \in Seq(Token) /\ FourNumbers("i4") \in Seq(Token)
    BY BodiesMade
  <2>2. Number("bare", 5) \in Seq(Token)
    BY NumbersMade
  <2>3. Numbers("i4") \o Numbers("i4") \in Seq(Token)
    BY <2>1, Joined
  <2>4. <<>> \in Seq(Token)
    OBVIOUS
  <2> QED
    BY <2>1, <2>2, <2>3, <2>4, BodiesMade
<1>3. ASSUME NEW h \in UnsoundHeaders
      PROVE  Speaks("sendTelegram", Says(h, ArrayResponse(Numbers("int")), FALSE,
                                         <<"telegram", Reading>>))
  <2>1. TrueTo("sendTelegram", ArrayResponse(Numbers("int")), <<"telegram", Reading>>)
    BY NumbersMean, MeansTrue
  <2>2. h \in Headers
    BY DEF Headers
  <2> QED
    BY <1>2, <2>1, <2>2, SpeaksTrue
<1>4. ASSUME NEW body \in {ArrayResponse(FourNumbers("i4")),
                           ArrayResponse(Numbers("i4") \o Numbers("i4")),
                           ArrayResponse(Numbers("string")),
                           Response(Number("bare", 5)), EmptyResponse, <<>>}
      PROVE  Speaks("sendTelegram", Says(StandardHeader, body, TRUE, Refused))
  <2>1. TrueTo("sendTelegram", body, Refused)
    BY NumbersMean, OthersMean, NothingTrue
  <2>2. body \in Seq(Token)
    BY <1>2
  <2>3. StandardHeader \in Headers
    BY DEF Headers
  <2> QED
    BY <2>1, <2>2, <2>3, SpeaksTrue
<1>5. \A h, body, sound : \A result \in {<<"telegram", Reading>>, Refused} :
        Says(h, body, sound, result).result[1] # "chunk"
  <2>1. <<"telegram", Reading>>[1] # "chunk" /\ Refused[1] # "chunk"
    BY DEF Refused
  <2>2. \A h, body, sound, result : Says(h, body, sound, result).result = result
    BY DEF Says
  <2> QED
    BY <2>1, <2>2
<1> QED
  <2> TAKE saying \in TelegramSayings
  <2>1. \/ \E h \in {StmHeader, StandardHeader} :
             saying = Says(h, ArrayResponse(Numbers("i4")), TRUE, <<"telegram", Reading>>)
        \/ \E h \in UnsoundHeaders :
             saying = Says(h, ArrayResponse(Numbers("int")), FALSE, <<"telegram", Reading>>)
        \/ \E body \in {ArrayResponse(FourNumbers("i4")),
                        ArrayResponse(Numbers("i4") \o Numbers("i4")),
                        ArrayResponse(Numbers("string")),
                        Response(Number("bare", 5)), EmptyResponse, <<>>} :
             saying = Says(StandardHeader, body, TRUE, Refused)
    BY DEF TelegramSayings
  <2>2. Speaks("sendTelegram", saying)
    BY <1>1, <1>3, <1>4, <2>1
  <2>3. saying.result[1] # "chunk"
    BY <1>5, <2>1
  <2> QED
    BY <2>2, <2>3

LEMMA FaultSpeaks ==
    \A m : Speaks(m, Says(StandardHeader, FaultResponse, TRUE, <<"fault">>))
<1> TAKE m
<1>1. Short(FaultResponse, 40)
  <2>1. Short(Number("i4", 4), 5)
    BY NumberShort
  <2>2. Short(Member("faultCode", Number("i4", 4)), 5 + 5)
    BY <2>1, BodiesShort DEF Names
  <2>3. Short(Member("faultCode", Number("i4", 4)), 10)
    BY <2>2
  <2>4. Short(Struct(Member("faultCode", Number("i4", 4))), 10 + 4)
    BY <2>3, BodiesShort
  <2>5. Short(Struct(Member("faultCode", Number("i4", 4))), 14)
    BY <2>4
  <2>6. "fault" \in Tag /\ "methodResponse" \in Tag
    BY DEF Tag
  <2>7. Short(El("fault", Struct(Member("faultCode", Number("i4", 4)))), 14 + 2)
    BY <2>5, <2>6, ElementShort
  <2>8. Short(El("fault", Struct(Member("faultCode", Number("i4", 4)))), 16)
    BY <2>7
  <2>9. Short(FaultResponse, 16 + 2)
    BY <2>6, <2>8, ElementShort DEF FaultResponse
  <2> QED
    BY <2>9 DEF Short
<1>2. <<"fault">>[1] # "error"
  OBVIOUS
<1> QED
  BY <1>1, <1>2, OthersMean, SpeaksWell

LEMMA InputsSpeak ==
    \A saying \in InputSayings :
        Speaks("simInputEvent", saying) /\ saying.result[1] # "chunk"
<1>1. ASSUME NEW style \in {"i4", "bare"}
      PROVE  Speaks("simInputEvent", Says(StmHeader, Response(Number(style, 0)), TRUE,
                                          <<"done">>))
  <2>1. Short(Number(style, 0), 5)
    BY NumberShort
  <2>2. Short(Response(Number(style, 0)), 5 + 6)
    BY <2>1, BodiesShort
  <2>3. Short(Response(Number(style, 0)), 40)
    BY <2>2 DEF Short
  <2>4. Means("simInputEvent", Response(Number(style, 0)), <<"done">>)
    BY OthersMean
  <2>5. <<"done">>[1] # "error"
    OBVIOUS
  <2> QED
    BY <2>3, <2>4, <2>5, SpeaksWell
<1>2. \A h, body, sound : \A result \in {<<"done">>, <<"fault">>} :
        Says(h, body, sound, result).result[1] # "chunk"
  <2>1. <<"done">>[1] # "chunk" /\ <<"fault">>[1] # "chunk"
    OBVIOUS
  <2>2. \A h, body, sound, result : Says(h, body, sound, result).result = result
    BY DEF Says
  <2> QED
    BY <2>1, <2>2
<1> QED
  <2> TAKE saying \in InputSayings
  <2>1. \/ \E style \in {"i4", "bare"} :
             saying = Says(StmHeader, Response(Number(style, 0)), TRUE, <<"done">>)
        \/ saying = Says(StandardHeader, FaultResponse, TRUE, <<"fault">>)
    BY DEF InputSayings
  <2>2. Speaks("simInputEvent", saying)
    BY <1>1, <2>1, FaultSpeaks
  <2>3. saying.result[1] # "chunk"
    BY <1>2, <2>1
  <2> QED
    BY <2>2, <2>3

LEMMA ChunksSpeak ==
    ASSUME NEW c \in [cur : Int, total : Int, bin : Pieces]
    PROVE  \A saying \in ChunkSayings(c) :
             /\ Speaks("readFile", saying)
             /\ saying.result[1] = "chunk" => saying.result = <<"chunk", c>>
<1>1. c.cur \in Int /\ c.total \in Int /\ c.bin \in Pieces
  OBVIOUS
<1>2. ASSUME NEW style \in {"i4", "string"}
      PROVE  Short(ChunkResponse(style, c), 40)
  <2> DEFINE payload == IF c.bin = Nothing THEN <<>>
                        ELSE Member("bin", El("value", El("base64", Txt("base64", c.bin))))
             content == ChunkMembers(style, c) \o payload
  <2>1. Short(Number(style, c.cur), 5) /\ Short(Number(style, c.total), 5)
    BY <1>1, NumberShort
  <2>2. "cur" \in Names /\ "total" \in Names /\ "bin" \in Names
    BY DEF Names
  <2>3. /\ Short(Member("cur", Number(style, c.cur)), 5 + 5)
        /\ Short(Member("total", Number(style, c.total)), 5 + 5)
    BY <2>1, <2>2, BodiesShort
  <2>4. /\ Short(Member("cur", Number(style, c.cur)), 10)
        /\ Short(Member("total", Number(style, c.total)), 10)
    BY <2>3
  <2>5. Short(ChunkMembers(style, c), 10 + 10)
    BY <2>4, JoinedShort DEF ChunkMembers
  <2>6. Short(payload, 10)
    <3>1. Short(Txt("base64", c.bin), 1)
      BY <1>1, TextShort DEF Content
    <3>2. "value" \in Tag /\ "base64" \in Tag
      BY DEF Tag
    <3>3. Short(El("base64", Txt("base64", c.bin)), 1 + 2)
      BY <3>1, <3>2, ElementShort
    <3>4. Short(El("base64", Txt("base64", c.bin)), 3)
      BY <3>3
    <3>5. Short(El("value", El("base64", Txt("base64", c.bin))), 3 + 2)
      BY <3>2, <3>4, ElementShort
    <3>6. Short(El("value", El("base64", Txt("base64", c.bin))), 5)
      BY <3>5
    <3>7. Short(Member("bin", El("value", El("base64", Txt("base64", c.bin)))), 5 + 5)
      BY <2>2, <3>6, BodiesShort
    <3>8. Short(Member("bin", El("value", El("base64", Txt("base64", c.bin)))), 10)
      BY <3>7
    <3>9. Short(<<>>, 10)
      BY DEF Short
    <3> QED
      BY <3>8, <3>9
  <2>7. ChunkResponse(style, c) = Response(Struct(content))
    BY DEF ChunkResponse
  <2>8. Short(ChunkMembers(style, c), 20)
    BY <2>5
  <2> HIDE DEF payload
  <2>9. Short(content, 20 + 10)
    BY <2>6, <2>8, JoinedShort
  <2>10. Short(content, 30)
    BY <2>9
  <2> HIDE DEF content
  <2>11. Short(Struct(content), 30 + 4)
    BY <2>10, BodiesShort
  <2>12. Short(Struct(content), 34)
    BY <2>11
  <2>13. Short(Response(Struct(content)), 34 + 6)
    BY <2>12, BodiesShort
  <2> QED
    BY <2>7, <2>13
<1>3. /\ Speaks("readFile", Says(StmHeader, ChunkResponse("i4", c), TRUE, <<"chunk", c>>))
      /\ Speaks("readFile", Says(StandardHeader, ChunkResponse("string", c), TRUE,
                                 <<"chunk", c>>))
  <2>1. <<"chunk", c>>[1] # "error"
    OBVIOUS
  <2> QED
    BY <1>2, <2>1, ChunkMeans, SpeaksWell
<1>4. Speaks("readFile", Says(StandardHeader,
               Response(Struct(Member("cur", Number("i4", c.cur)))), TRUE, Refused))
  <2>1. Number("i4", c.cur) \in Seq(Token)
    BY <1>1, NumbersMade
  <2>2. Response(Struct(Member("cur", Number("i4", c.cur)))) \in Seq(Token)
    BY <2>1, BodiesMade
  <2>3. TrueTo("readFile", Response(Struct(Member("cur", Number("i4", c.cur)))), Refused)
    BY <1>1, CurOnlyTrue
  <2>4. StandardHeader \in Headers
    BY DEF Headers
  <2> QED
    BY <2>2, <2>3, <2>4, SpeaksTrue
<1>5. \A h, body, sound : \A result \in {<<"chunk", c>>, <<"fault">>, Refused} :
        Says(h, body, sound, result).result[1] = "chunk" =>
            Says(h, body, sound, result).result = <<"chunk", c>>
  <2>1. <<"fault">>[1] # "chunk" /\ Refused[1] # "chunk"
    BY DEF Refused
  <2>2. \A h, body, sound, result : Says(h, body, sound, result).result = result
    BY DEF Says
  <2> QED
    BY <2>1, <2>2
<1> QED
  <2> TAKE saying \in ChunkSayings(c)
  <2>1. \/ saying = Says(StmHeader, ChunkResponse("i4", c), TRUE, <<"chunk", c>>)
        \/ saying = Says(StandardHeader, ChunkResponse("string", c), TRUE, <<"chunk", c>>)
        \/ saying = Says(StandardHeader, FaultResponse, TRUE, <<"fault">>)
        \/ saying = Says(StandardHeader, Response(Struct(Member("cur", Number("i4", c.cur)))),
                         TRUE, Refused)
    BY DEF ChunkSayings
  <2>2. Speaks("readFile", saying)
    BY <1>3, <1>4, <2>1, FaultSpeaks
  <2>3. saying.result[1] = "chunk" => saying.result = <<"chunk", c>>
    BY <1>5, <2>1
  <2> QED
    BY <2>2, <2>3

-----------------------------------------------------------------------------
(* The connection: what has been read of a response and made of it.        *)

Defect == wire[3] = C!BareDate /\ wire[4] = C!Newline
Skipped == IF Defect THEN 2 ELSE 0

ClientTyped ==
    /\ wire \in Seq(Symbol) /\ (wire # <<>> => Opens(wire))
    /\ arrived \in Nat /\ arrived <= Len(wire)
    /\ taken \in Nat /\ taken <= arrived
    /\ out \in Seq(Symbol)
    /\ rewrite \in {"status", "first", "headers", "serving", "broken"}
    /\ rewrite = "broken" => answer # C!Unanswered

(* What rewrite has let through is what it has read, without the bare date *)
(* line if that is the first after the status line.                        *)
Rewritten ==
    /\ rewrite = "status" => taken = 0 /\ out = <<>>
    /\ rewrite = "first" =>
         /\ taken = 2 /\ Len(out) = 2
         /\ \A k \in 1..2 : out[k] = wire[k]
    /\ rewrite \in {"headers", "serving"} =>
         /\ Len(out) >= 2 /\ taken > 2 /\ taken = Len(out) + Skipped
         /\ \A k \in 1..2 : out[k] = wire[k]
         /\ \A k \in 3..Len(out) : out[k] = wire[k + Skipped]
    /\ rewrite = "serving" => lastSanitized = Defect

ClientInv == ClientTyped /\ Rewritten

(* A line reaches to the first newline after what was read before.         *)
LEMMA LineIs ==
    ASSUME ClientTyped, C!LineEnds # {}
    PROVE  /\ C!LineEnd \in Nat /\ taken < C!LineEnd /\ C!LineEnd <= arrived
           /\ wire[C!LineEnd] = C!Newline
           /\ \A j \in (taken + 1)..arrived : j < C!LineEnd => wire[j] # C!Newline
           /\ C!Line \in Seq(Symbol) /\ Len(C!Line) = C!LineEnd - taken
           /\ \A k \in 1..Len(C!Line) : C!Line[k] = wire[taken + k]
<1>1. C!LineEnds \in SUBSET Nat
  BY DEF ClientTyped, C!LineEnds
<1>2. C!LineEnd \in C!LineEnds /\ \A j \in C!LineEnds : C!LineEnd <= j
  BY <1>1, LeastOf DEF C!LineEnd
<1>3. C!LineEnd \in (taken + 1)..arrived /\ wire[C!LineEnd] = C!Newline
  BY <1>2 DEF C!LineEnds
<1>4. \A j \in (taken + 1)..arrived : j < C!LineEnd => wire[j] # C!Newline
  BY <1>2, <1>3 DEF C!LineEnds, ClientTyped
<1>5. /\ C!Line \in Seq(Symbol) /\ Len(C!Line) = C!LineEnd - taken
      /\ \A k \in 1..Len(C!Line) : C!Line[k] = wire[taken + k]
  <2>1. taken + 1 \in 1..Len(wire) /\ C!LineEnd \in 1..Len(wire)
    BY <1>3 DEF ClientTyped
  <2> QED
    BY <1>3, <2>1 DEF C!Line, ClientTyped
<1> QED
  BY <1>3, <1>4, <1>5 DEF ClientTyped

(* A status line is the first two symbols.                                 *)
LEMMA StatusLineKeeps ==
    ASSUME ClientInv, C!ReadStatusLine
    PROVE  ClientInv'
<1>1. /\ taken = 0 /\ C!LineEnds # {} /\ wire # <<>> /\ Opens(wire)
  BY DEF C!ReadStatusLine, C!LineRead, C!LineEnds, ClientInv, ClientTyped, Rewritten
<1>2. C!LineEnd = 2
  <2>1. C!LineEnd \in Nat /\ 0 < C!LineEnd /\ C!LineEnd <= arrived
    BY <1>1, LineIs DEF ClientInv
  <2>2. C!LineEnd # 1
    BY <1>1, LineIs DEF ClientInv, Opens
  <2>3. ~(2 < C!LineEnd)
    <3> SUFFICES ASSUME 2 < C!LineEnd PROVE FALSE
      OBVIOUS
    <3>1. 2 \in (taken + 1)..arrived
      BY <1>1, <2>1 DEF ClientInv, ClientTyped
    <3>2. wire[2] # C!Newline
      BY <1>1, <3>1, LineIs DEF ClientInv
    <3> QED
      BY <1>1, <3>2 DEF Opens
  <2> QED
    BY <2>1, <2>2, <2>3
<1>3. /\ C!Line \in Seq(Symbol) /\ Len(C!Line) = 2
      /\ \A k \in 1..2 : C!Line[k] = wire[k]
  <2>1. /\ C!Line \in Seq(Symbol) /\ Len(C!Line) = C!LineEnd - taken
        /\ \A k \in 1..Len(C!Line) : C!Line[k] = wire[taken + k]
    BY <1>1, LineIs DEF ClientInv
  <2> QED
    BY <1>1, <1>2, <2>1
<1>4. 2 <= arrived
  BY <1>1, <1>2, LineIs DEF ClientInv
<1>5. /\ taken' = 2 /\ out' = C!Line /\ rewrite' = "first"
      /\ wire' = wire /\ arrived' = arrived /\ answer' = answer
  BY <1>2 DEF C!ReadStatusLine, C!lineVars
<1>6. ClientTyped'
  BY <1>3, <1>4, <1>5 DEF ClientInv, ClientTyped
<1>7. Rewritten'
  BY <1>3, <1>5 DEF Rewritten
<1> QED
  BY <1>6, <1>7 DEF ClientInv

(* The first header line is the bare date just when the response has the   *)
(* defect.                                                                 *)
LEMMA FirstHeaderLine ==
    ASSUME ClientInv, rewrite = "first", C!LineEnds # {}
    PROVE  /\ C!Line = <<C!BareDate, C!Newline>> <=> Defect
           /\ Defect => C!LineEnd = 4
           /\ C!Line = C!Blank => ~Defect
<1> DEFINE line == C!Line
           end == C!LineEnd
<1>1. /\ taken = 2 /\ Opens(wire) /\ Len(wire) \in Nat
      /\ arrived \in Nat /\ arrived <= Len(wire)
  BY DEF ClientInv, ClientTyped, Rewritten, C!LineEnds
<1>2. /\ end \in Nat /\ 2 < end /\ end <= arrived
      /\ wire[end] = C!Newline
      /\ \A j \in 3..arrived : j < end => wire[j] # C!Newline
      /\ line \in Seq(Symbol) /\ Len(line) = end - 2
      /\ \A k \in 1..Len(line) : line[k] = wire[2 + k]
  <2>1. /\ end \in Nat /\ taken < end /\ end <= arrived
        /\ wire[end] = C!Newline
        /\ \A j \in (taken + 1)..arrived : j < end => wire[j] # C!Newline
        /\ line \in Seq(Symbol) /\ Len(line) = end - taken
        /\ \A k \in 1..Len(line) : line[k] = wire[taken + k]
    BY LineIs DEF ClientInv
  <2> HIDE DEF line, end
  <2> QED
    BY <1>1, <2>1
<1> HIDE DEF line, end
<1>3. C!BareDate # C!Newline
  BY HeadSymbols
<1>4. ASSUME Defect PROVE end = 4 /\ line = <<C!BareDate, C!Newline>>
  <2>1. wire[3] = C!BareDate /\ wire[4] = C!Newline
    BY <1>4 DEF Defect
  <2>2. end # 3
    BY <1>2, <1>3, <2>1
  <2>3. ~(4 < end)
    BY <1>1, <1>2, <2>1
  <2>4. end = 4
    BY <1>2, <2>2, <2>3
  <2>5. Len(line) = 2 /\ line[1] = C!BareDate /\ line[2] = C!Newline
    <3>1. Len(line) = 2
      BY <1>2, <2>4
    <3>2. 1 \in 1..Len(line) /\ 2 \in 1..Len(line)
      BY <3>1
    <3>3. \A k \in 1..Len(line) : line[k] = wire[2 + k]
      BY <1>2
    <3>4. line[1] = wire[2 + 1] /\ line[2] = wire[2 + 2]
      BY <3>2, <3>3
    <3>5. line[1] = wire[3] /\ line[2] = wire[4]
      BY <3>4
    <3> QED
      BY <2>1, <3>1, <3>5
  <2>6. line = [k \in 1..2 |-> line[k]]
    <3>1. line \in Seq(Symbol)
      BY <1>2
    <3> QED
      BY <2>5, <3>1
  <2>7. line = <<line[1], line[2]>>
    BY <2>6
  <2> QED
    BY <2>4, <2>5, <2>7
<1>5. ASSUME line = <<C!BareDate, C!Newline>> PROVE Defect
  <2>1. Len(line) = 2 /\ line[1] = C!BareDate /\ line[2] = C!Newline
    BY <1>5
  <2>2. line[1] = wire[3] /\ line[2] = wire[4]
    BY <1>2, <2>1
  <2> QED
    BY <2>1, <2>2 DEF Defect
<1>6. line = C!Blank => line # <<C!BareDate, C!Newline>>
  BY HeadSymbols
<1> QED
  BY <1>4, <1>5, <1>6 DEF line, end

LEMMA HeaderLineKeeps ==
    ASSUME ClientInv, C!ReadHeaderLine
    PROVE  ClientInv'
<1> DEFINE line == C!Line
           end == C!LineEnd
<1>1. /\ rewrite \in {"first", "headers"} /\ C!LineEnds # {} /\ answer = C!Unanswered
      /\ taken' = C!LineEnd /\ wire' = wire /\ arrived' = arrived
  BY DEF C!ReadHeaderLine, C!LineRead, C!lineVars
<1>2. /\ end \in Nat /\ taken < end /\ end <= arrived
      /\ line \in Seq(Symbol) /\ Len(line) = end - taken
      /\ \A k \in 1..Len(line) : line[k] = wire[taken + k]
  BY <1>1, LineIs DEF ClientInv
<1>3. /\ wire \in Seq(Symbol) /\ (wire # <<>> => Opens(wire)) /\ arrived \in Nat
      /\ arrived <= Len(wire) /\ out \in Seq(Symbol) /\ taken \in Nat
  BY DEF ClientInv, ClientTyped
<1>4. CASE rewrite' = "broken"
  <2>1. C!Fail(FALSE) /\ UNCHANGED out
    BY <1>4 DEF C!ReadHeaderLine
  <2>2. answer' # C!Unanswered
    BY <2>1 DEF C!Fail, C!Error, C!Unanswered
  <2>3. ClientTyped'
    BY <1>1, <1>2, <1>3, <1>4, <2>1, <2>2 DEF ClientTyped
  <2> QED
    BY <1>4, <2>3 DEF ClientInv, Rewritten
<1>5. CASE rewrite' # "broken"
  <2>1. /\ out' = IF C!Removed(C!Line) THEN out ELSE out \o C!Line
        /\ IF C!Line = C!Blank THEN rewrite' = "serving" /\ C!Report
                 ELSE rewrite' = "headers" /\ UNCHANGED lastSanitized
    BY <1>5 DEF C!ReadHeaderLine, C!Fail
  <2>2. C!Removed(C!Line) <=> rewrite = "first" /\ Defect
    BY <1>1, FirstHeaderLine DEF C!Removed
  <2>3. rewrite = "first" /\ Defect => taken = 2 /\ end = 4
    BY <1>1, FirstHeaderLine DEF ClientInv, Rewritten
  <2>4. rewrite' \in {"headers", "serving"}
    BY <2>1
  <2>5. /\ Len(out) >= 2 /\ \A k \in 1..2 : out[k] = wire[k]
        /\ rewrite = "first" => taken = 2 /\ Len(out) = 2
        /\ rewrite = "headers" => /\ taken = Len(out) + Skipped
                                  /\ \A k \in 3..Len(out) : out[k] = wire[k + Skipped]
    BY <1>1 DEF ClientInv, Rewritten
  <2>6. /\ out' \in Seq(Symbol) /\ Len(out') >= 2 /\ end > 2 /\ end = Len(out') + Skipped
        /\ \A k \in 1..2 : out'[k] = wire[k]
        /\ \A k \in 3..Len(out') : out'[k] = wire[k + Skipped]
    <3> HIDE DEF line, end
    <3>1. CASE rewrite = "first" /\ Defect
      <4>1. out' = out /\ Skipped = 2 /\ end = 4 /\ Len(out) = 2
        BY <2>1, <2>2, <2>3, <2>5, <3>1 DEF Skipped
      <4> QED
        BY <1>3, <2>5, <4>1
    <3>2. CASE ~(rewrite = "first" /\ Defect)
      <4>1. out' = out \o line
        BY <2>1, <2>2, <3>2 DEF line
      <4>2. /\ out' \in Seq(Symbol) /\ Len(out') = Len(out) + Len(line)
            /\ \A k \in 1..Len(out) : out'[k] = out[k]
            /\ \A k \in 1..Len(line) : out'[Len(out) + k] = line[k]
        <5>1. /\ out \o line \in Seq(Symbol) /\ Len(out \o line) = Len(out) + Len(line)
              /\ \A k \in 1..Len(out) : (out \o line)[k] = out[k]
              /\ \A k \in 1..Len(line) : (out \o line)[Len(out) + k] = line[k]
          <6>1. out \in Seq(Symbol) /\ line \in Seq(Symbol)
            BY <1>2, <1>3
          <6> QED
            BY <6>1, Joined
        <5> QED
          BY <4>1, <5>1
      <4>3. /\ taken = Len(out) + Skipped /\ Skipped \in Nat
            /\ \A k \in 3..Len(out) : out[k] = wire[k + Skipped]
        <5>1. CASE rewrite = "headers"
          BY <2>5, <5>1 DEF Skipped
        <5>2. CASE rewrite = "first"
          <6>1. Skipped = 0
            BY <3>2, <5>2 DEF Skipped
          <6>2. taken = 2 /\ Len(out) = 2
            BY <2>5, <5>2
          <6> QED
            BY <6>1, <6>2
        <5> QED
          BY <1>1, <5>1, <5>2
      <4>4. Len(out) \in Nat /\ Len(line) \in Nat /\ Len(out') \in Nat
        BY <1>2, <1>3, <4>2
      <4>5. Len(out') >= 2 /\ end > 2 /\ end = Len(out') + Skipped
        BY <1>2, <1>3, <2>5, <4>2, <4>3, <4>4
      <4>6. ASSUME NEW k \in 1..2 PROVE out'[k] = wire[k]
        <5>1. k \in 1..Len(out) /\ out[k] = wire[k]
          BY <2>5, <4>4, <4>6
        <5>2. \A j \in 1..Len(out) : out'[j] = out[j]
          BY <4>2
        <5> QED
          BY <5>1, <5>2
      <4>7. ASSUME NEW k \in 3..Len(out') PROVE out'[k] = wire[k + Skipped]
        <5>1. CASE k <= Len(out)
          BY <4>2, <4>3, <4>4, <5>1
        <5>2. CASE k > Len(out)
          <6>1. k - Len(out) \in 1..Len(line) /\ Len(out) + (k - Len(out)) = k
                /\ taken + (k - Len(out)) = k + Skipped
            BY <4>2, <4>3, <4>4, <5>2
          <6>2. out'[Len(out) + (k - Len(out))] = line[k - Len(out)]
            BY <4>2, <6>1
          <6>3. line[k - Len(out)] = wire[taken + (k - Len(out))]
            BY <1>2, <6>1
          <6> QED
            BY <6>1, <6>2, <6>3
        <5> QED
          BY <4>4, <5>1, <5>2
      <4> QED
        BY <4>2, <4>5, <4>6, <4>7
    <3> QED
      BY <3>1, <3>2
  <2>7. rewrite' = "serving" => lastSanitized' = Defect
    <3> SUFFICES ASSUME rewrite' = "serving" PROVE lastSanitized' = Defect
      OBVIOUS
    <3>1. C!Line = C!Blank /\ lastSanitized' = (taken # Len(out))
      BY <2>1 DEF C!Report
    <3>2. rewrite = "first" => ~Defect
      BY <1>1, <3>1, FirstHeaderLine
    <3>3. (taken # Len(out)) <=> Defect
      <4>1. CASE rewrite = "first"
        <5>1. taken = 2 /\ Len(out) = 2
          BY <2>5, <4>1
        <5> QED
          BY <3>2, <4>1, <5>1
      <4>2. CASE rewrite = "headers"
        <5>1. taken = Len(out) + Skipped /\ Len(out) \in Nat
          BY <1>3, <2>5, <4>2
        <5>2. Skipped = 0 <=> ~Defect
          BY DEF Skipped
        <5>3. Skipped \in Nat
          BY DEF Skipped
        <5> HIDE DEF Skipped
        <5> QED
          BY <5>1, <5>2, <5>3
      <4> QED
        BY <1>1, <4>1, <4>2
    <3> QED
      BY <3>1, <3>3, Zenon
  <2>8. Defect' = Defect /\ Skipped' = Skipped
    BY <1>1 DEF Defect, Skipped
  <2>9. ClientTyped'
    BY <1>1, <1>2, <1>3, <2>4, <2>6 DEF ClientTyped
  <2>10. Rewritten'
    <3>1. taken' = end
      BY <1>1
    <3> HIDE DEF end
    <3> QED
      BY <1>1, <2>4, <2>6, <2>7, <2>8, <3>1 DEF Rewritten
  <2> QED
    BY <2>9, <2>10 DEF ClientInv
<1> QED
  BY <1>4, <1>5

(* A response arrives at a connection on which nothing has been read.      *)
LEMMA RespondKeeps ==
    ASSUME ClientInv, NEW w \in Seq(Symbol), Opens(w), C!Respond(w)
    PROVE  ClientInv'
<1>1. wire = <<>> /\ answer = C!Unanswered /\ wire' = w
      /\ UNCHANGED <<arrived, taken, rewrite, out, lastSanitized, answer>>
  BY DEF C!Respond
<1>2. arrived = 0 /\ taken = 0
  BY <1>1 DEF ClientInv, ClientTyped
<1>3. rewrite = "status" /\ out = <<>>
  BY <1>1, <1>2 DEF ClientInv, ClientTyped, Rewritten
<1>4. ClientTyped'
  BY <1>1, <1>2, <1>3 DEF ClientInv, ClientTyped
<1>5. Rewritten'
  BY <1>1, <1>2, <1>3 DEF Rewritten
<1> QED
  BY <1>4, <1>5 DEF ClientInv

(* What ends a call or a rewrite, and what reads on.                       *)
LEMMA ClosedKeeps == C!Closed => ClientInv'
<1> SUFFICES ASSUME C!Closed PROVE ClientInv'
  OBVIOUS
<1>1. wire' = <<>> /\ arrived' = 0 /\ taken' = 0 /\ out' = <<>> /\ rewrite' = "status"
  BY DEF C!Closed
<1> QED
  BY <1>1 DEF ClientInv, ClientTyped, Rewritten

LEMMA OtherClientStepsKeep ==
    ASSUME ClientInv,
           \/ \E m : C!Call(m)
           \/ C!Deliver \/ C!RewriteFails \/ C!ReadBody
    PROVE  ClientInv'
<1>1. CASE \E m : C!Call(m)
  BY <1>1 DEF C!Call, ClientInv, ClientTyped, Rewritten, Skipped, Defect
<1>2. CASE C!Deliver
  <2>1. PICK k \in 1..MaxSegment : arrived + k <= Len(wire) /\ arrived' = arrived + k
    BY <1>2 DEF C!Deliver
  <2>2. UNCHANGED <<wire, taken, rewrite, out, lastSanitized, answer>>
    BY <1>2 DEF C!Deliver
  <2>3. arrived' \in Nat /\ arrived' <= Len(wire) /\ taken <= arrived'
    BY <2>1 DEF ClientInv, ClientTyped
  <2>4. ClientTyped'
    BY <2>2, <2>3 DEF ClientInv, ClientTyped
  <2>5. Rewritten'
    BY <2>2 DEF ClientInv, Rewritten, Skipped, Defect
  <2> QED
    BY <2>4, <2>5 DEF ClientInv
<1>3. CASE C!RewriteFails
  <2>1. /\ rewrite' = "broken" /\ answer' # C!Unanswered
        /\ UNCHANGED <<wire, arrived, taken, out>>
    BY <1>3 DEF C!RewriteFails, C!Fail, C!lineVars, C!Error, C!Unanswered
  <2> QED
    BY <2>1 DEF ClientInv, ClientTyped, Rewritten
<1>4. CASE C!ReadBody
  <2>1. /\ rewrite = "serving"
        /\ UNCHANGED <<wire, arrived, taken, rewrite, out, lastSanitized>>
    BY <1>4 DEF C!ReadBody, C!lineVars
  <2> QED
    BY <2>1 DEF ClientInv, ClientTyped, Rewritten, Skipped, Defect
<1> QED
  BY <1>1, <1>2, <1>3, <1>4

-----------------------------------------------------------------------------
(* The answers: what a call returns of a response.                         *)

(* What has been read ends with a line, and it is the blank one that has   *)
(* ended the header.                                                       *)
AtLineEnd ==
    /\ rewrite \in {"first", "headers", "serving"} => wire[taken] = C!Newline
    /\ rewrite \in {"first", "headers"} => wire[taken - 1] # C!Newline
    /\ rewrite = "serving" => wire[taken - 1] = C!Newline

(* What is on the connection is a response to the call.                    *)
Spoken == wire # <<>> => wire = meant.wire /\ Speaks(method, meant)

AnswerInv == AtLineEnd /\ Spoken /\ AnswersAreTrue /\ GoodResponsesAreRead

LEMMA PartOf ==
    ASSUME NEW S, NEW s \in Seq(S), NEW from \in 0..Len(s), NEW last \in from..Len(s)
    PROVE  /\ SubSeq(s, from + 1, last) \in Seq(S)
           /\ Len(SubSeq(s, from + 1, last)) = last - from
           /\ \A k \in 1..(last - from) : SubSeq(s, from + 1, last)[k] = s[from + k]
<1>1. CASE from < last
  BY <1>1
<1>2. CASE last = from
  <2>1. SubSeq(s, from + 1, last) = <<>>
    BY <1>2
  <2> QED
    BY <1>2, <2>1
<1> QED
  BY <1>1, <1>2

(* No line ends within a body.                                             *)
LEMMA LinesInHeader ==
    ASSUME NEW h \in Headers, NEW body \in Seq(Token), NEW w, w = h \o body
    PROVE  /\ h \in Seq(Symbol) /\ body \in Seq(Symbol)
           /\ w \in Seq(Symbol) /\ Len(w) = Len(h) + Len(body)
           /\ \A k \in 1..Len(h) : w[k] = h[k]
           /\ \A k \in 1..Len(body) : w[Len(h) + k] = body[k]
           /\ \A k \in 1..Len(w) : w[k] = C!Newline => k <= Len(h)
<1>1. h \in Seq(Symbol) /\ body \in Seq(Symbol)
  BY HeadersEnd DEF Symbol
<1>2. /\ w \in Seq(Symbol) /\ Len(w) = Len(h) + Len(body)
      /\ \A k \in 1..Len(h) : w[k] = h[k]
      /\ \A k \in 1..Len(body) : w[Len(h) + k] = body[k]
  BY <1>1, Joined
<1>3. C!Newline \notin Token
  BY DEF C!Newline, Token
<1>4. ASSUME NEW k \in 1..Len(w), k > Len(h) PROVE w[k] # C!Newline
  <2>1. k - Len(h) \in 1..Len(body) /\ Len(h) + (k - Len(h)) = k
    BY <1>1, <1>2, <1>4
  <2>2. w[Len(h) + (k - Len(h))] = body[k - Len(h)]
    BY <1>2, <2>1
  <2>3. body[k - Len(h)] \in Token
    BY <2>1
  <2> QED
    BY <1>3, <2>1, <2>2, <2>3
<1>5. \A k \in 1..Len(w) : w[k] = C!Newline => k <= Len(h)
  BY <1>1, <1>4
<1> QED
  BY <1>1, <1>2, <1>5

(* What is read after a header is the beginning of its body.               *)
LEMMA BodyStarts ==
    ASSUME ClientInv, AtLineEnd, rewrite = "serving",
           NEW h \in Headers, NEW body \in Seq(Token), wire = h \o body,
           NEW end \in arrived..Len(wire)
    PROVE  /\ taken = Len(h) /\ Starts(C!Body(end), body)
           /\ end = Len(wire) => C!Body(end) = body
<1>1. /\ h \in Seq(Symbol) /\ body \in Seq(Symbol)
      /\ wire \in Seq(Symbol) /\ Len(wire) = Len(h) + Len(body)
      /\ \A k \in 1..Len(h) : wire[k] = h[k]
      /\ \A k \in 1..Len(body) : wire[Len(h) + k] = body[k]
      /\ \A k \in 1..Len(wire) : wire[k] = C!Newline => k <= Len(h)
  BY LinesInHeader
<1>2. /\ taken \in Nat /\ taken > 2 /\ taken <= arrived /\ arrived \in Nat
      /\ arrived <= Len(wire) /\ end \in Nat /\ arrived <= end /\ end <= Len(wire)
      /\ Len(h) \in Nat /\ Len(body) \in Nat
  BY <1>1 DEF ClientInv, ClientTyped, Rewritten
<1>3. taken = Len(h)
  <2>1. wire[taken] = C!Newline /\ wire[taken - 1] = C!Newline
    BY DEF AtLineEnd
  <2>2. taken \in 1..Len(wire)
    BY <1>1, <1>2
  <2>3. taken <= Len(h)
    BY <1>1, <2>1, <2>2
  <2>4. taken \in 2..Len(h) /\ taken \in 1..Len(h) /\ taken - 1 \in 1..Len(h)
    BY <1>2, <2>3
  <2>5. h[taken] = C!Newline /\ h[taken - 1] = C!Newline
    BY <1>1, <2>1, <2>4
  <2>6. BlankIsLast(h)
    BY HeadersEnd
  <2> QED
    BY <2>4, <2>5, <2>6 DEF BlankIsLast
<1> DEFINE held == SubSeq(wire, taken + 1, arrived)
           later == SubSeq(wire, arrived + 1, end)
           all == C!Body(end)
<1>4. /\ held \in Seq(Symbol) /\ Len(held) = arrived - taken
      /\ \A k \in 1..(arrived - taken) : held[k] = wire[taken + k]
  <2>1. taken \in 0..Len(wire) /\ arrived \in taken..Len(wire)
    BY <1>1, <1>2
  <2> QED
    BY <1>1, <2>1, PartOf
<1>5. /\ later \in Seq(Symbol) /\ Len(later) = end - arrived
      /\ \A k \in 1..(end - arrived) : later[k] = wire[arrived + k]
  <2>1. arrived \in 0..Len(wire) /\ end \in arrived..Len(wire)
    BY <1>1, <1>2
  <2> QED
    BY <1>1, <2>1, PartOf
<1>6. all = held \o later
  BY DEF C!Body
<1> HIDE DEF held, later, all
<1>7. /\ all \in Seq(Symbol) /\ Len(all) = Len(held) + Len(later)
      /\ \A k \in 1..Len(held) : all[k] = held[k]
      /\ \A k \in 1..Len(later) : all[Len(held) + k] = later[k]
  <2>1. held \in Seq(Symbol) /\ later \in Seq(Symbol)
    BY <1>4, <1>5
  <2> QED
    BY <1>6, <2>1, Joined
<1>8. Len(all) = end - taken /\ Len(all) <= Len(body)
  BY <1>1, <1>2, <1>3, <1>4, <1>5, <1>7
<1>9. ASSUME NEW k \in 1..Len(all) PROVE all[k] = body[k]
  <2>1. k \in 1..Len(body) /\ wire[Len(h) + k] = body[k]
    BY <1>1, <1>2, <1>8
  <2>2. CASE k <= Len(held)
    <3>1. k \in 1..Len(held) /\ k \in 1..(arrived - taken)
      BY <1>4, <1>7, <2>2
    <3>2. all[k] = held[k] /\ held[k] = wire[taken + k]
      BY <1>4, <1>7, <3>1
    <3> QED
      BY <1>3, <2>1, <3>2
  <2>3. CASE k > Len(held)
    <3>1. /\ k - Len(held) \in 1..Len(later) /\ Len(held) + (k - Len(held)) = k
          /\ arrived + (k - Len(held)) = taken + k
      BY <1>2, <1>4, <1>5, <1>7, <2>3
    <3>2. all[Len(held) + (k - Len(held))] = later[k - Len(held)]
      BY <1>7, <3>1
    <3>3. later[k - Len(held)] = wire[arrived + (k - Len(held))]
      BY <1>5, <3>1
    <3> QED
      BY <1>3, <2>1, <3>1, <3>2, <3>3
  <2> QED
    BY <1>2, <1>4, <2>2, <2>3
<1>10. Starts(all, body)
  <2>1. Len(all) \in Nat /\ all = [k \in 1..Len(all) |-> all[k]]
    BY <1>7
  <2>2. \A k \in 1..Len(all) : all[k] \in Token
    <3>1. \A k \in 1..Len(all) : k \in 1..Len(body)
      BY <1>2, <1>8, <2>1
    <3> QED
      BY <1>9, <3>1
  <2>3. all \in Seq(Token)
    BY <2>1, <2>2
  <2> QED
    BY <1>8, <1>9, <2>3 DEF Starts
<1>11. end = Len(wire) => all = body
  <2> SUFFICES ASSUME end = Len(wire) PROVE all = body
    OBVIOUS
  <2>1. Len(all) = Len(body)
    BY <1>1, <1>2, <1>3, <1>8
  <2>2. all \in Seq(Symbol) /\ body \in Seq(Symbol)
    BY <1>1, <1>7
  <2> QED
    BY <1>9, <2>1, <2>2
<1> QED
  BY <1>3, <1>10, <1>11 DEF all

(* The lines of a sound header are short, and there is one more to read    *)
(* until the blank one has been.                                           *)
LEMMA SoundHeaders ==
    \A h \in {StmHeader, StandardHeader} :
        /\ h \in Seq(Symbol) /\ Len(h) >= 5 /\ Len(h) <= 7
        /\ h[1] = C!Status /\ h[Len(h)] = C!Newline /\ h[Len(h) - 1] = C!Newline
        /\ \A k \in 1..Len(h) : h[k] # C!Junk /\ (h[k] = C!BareDate => k = 3 /\ h[4] = C!Newline)
        /\ \A k \in 1..Len(h) : h[k] = C!Newline \/ h[k + 1] = C!Newline
<1>1. ASSUME NEW s \in Seq(Symbol), NEW a \in Symbol
      PROVE  /\ s \o <<a, C!Newline>> \in Seq(Symbol)
             /\ Len(s \o <<a, C!Newline>>) = Len(s) + 2
             /\ \A k \in 1..Len(s) : (s \o <<a, C!Newline>>)[k] = s[k]
             /\ (s \o <<a, C!Newline>>)[Len(s) + 1] = a
             /\ (s \o <<a, C!Newline>>)[Len(s) + 2] = C!Newline
  <2> DEFINE line == <<a, C!Newline>>
  <2>1. line \in Seq(Symbol) /\ Len(line) = 2 /\ line[1] = a /\ line[2] = C!Newline
    BY HeadSymbols
  <2>2. line \in Seq(Symbol)
    BY <2>1
  <2> HIDE DEF line
  <2>3. /\ s \o line \in Seq(Symbol) /\ Len(s \o line) = Len(s) + Len(line)
        /\ \A k \in 1..Len(s) : (s \o line)[k] = s[k]
        /\ \A k \in 1..Len(line) : (s \o line)[Len(s) + k] = line[k]
    BY <2>2, Joined
  <2>4. (s \o line)[Len(s) + 1] = a /\ (s \o line)[Len(s) + 2] = C!Newline
    BY <2>1, <2>3
  <2> QED
    BY <2>1, <2>3, <2>4 DEF line
<1>2. ASSUME NEW s \in Seq(Symbol)
      PROVE  /\ s \o C!Blank \in Seq(Symbol) /\ Len(s \o C!Blank) = Len(s) + 1
             /\ \A k \in 1..Len(s) : (s \o C!Blank)[k] = s[k]
             /\ (s \o C!Blank)[Len(s) + 1] = C!Newline
  <2> DEFINE line == <<C!Newline>>
  <2>1. line \in Seq(Symbol) /\ Len(line) = 1 /\ line[1] = C!Newline /\ line = C!Blank
    BY HeadSymbols
  <2>2. line \in Seq(Symbol)
    BY <2>1
  <2> HIDE DEF line
  <2>3. /\ s \o line \in Seq(Symbol) /\ Len(s \o line) = Len(s) + Len(line)
        /\ \A k \in 1..Len(s) : (s \o line)[k] = s[k]
        /\ \A k \in 1..Len(line) : (s \o line)[Len(s) + k] = line[k]
    BY <2>2, Joined
  <2>4. (s \o line)[Len(s) + 1] = C!Newline
    BY <2>1, <2>3
  <2> QED
    BY <2>1, <2>3, <2>4
<1>3. /\ StatusLine = <<C!Status, C!Newline>> /\ DateLine = <<C!BareDate, C!Newline>>
      /\ FieldLine = <<C!Field, C!Newline>>
  BY HeadSymbols, LinesMade DEF StatusLine, DateLine, FieldLine
<1>4. /\ C!Status # C!Junk /\ C!BareDate # C!Junk /\ C!Field # C!Junk /\ C!Newline # C!Junk
      /\ C!Status # C!BareDate /\ C!Field # C!BareDate /\ C!Newline # C!BareDate
  BY DEF C!Status, C!BareDate, C!Field, C!Newline, C!Junk
<1>5. StatusLine \in Seq(Symbol) /\ Len(StatusLine) = 2 /\ StatusLine[1] = C!Status
      /\ StatusLine[2] = C!Newline
  BY <1>3, HeadSymbols
<1> DEFINE Good(h) ==
        /\ h \in Seq(Symbol) /\ Len(h) >= 5 /\ Len(h) <= 7
        /\ h[1] = C!Status /\ h[Len(h)] = C!Newline /\ h[Len(h) - 1] = C!Newline
        /\ \A k \in 1..Len(h) : h[k] # C!Junk /\ (h[k] = C!BareDate => k = 3 /\ h[4] = C!Newline)
        /\ \A k \in 1..Len(h) : h[k] = C!Newline \/ h[k + 1] = C!Newline
<1>6. Good(StmHeader)
  <2> DEFINE four == StatusLine \o <<C!BareDate, C!Newline>>
             six == four \o <<C!Field, C!Newline>>
             h == six \o C!Blank
  <2>1. h = StmHeader
    BY <1>3 DEF StmHeader
  <2>2. /\ four \in Seq(Symbol) /\ Len(four) = Len(StatusLine) + 2
        /\ \A k \in 1..Len(StatusLine) : four[k] = StatusLine[k]
        /\ four[Len(StatusLine) + 1] = C!BareDate /\ four[Len(StatusLine) + 2] = C!Newline
    BY <1>1, <1>5, HeadSymbols
  <2> HIDE DEF four
  <2>3. /\ four \in Seq(Symbol) /\ Len(four) = 4 /\ four[1] = C!Status /\ four[2] = C!Newline
        /\ four[3] = C!BareDate /\ four[4] = C!Newline
    BY <1>5, <2>2
  <2>4. /\ six \in Seq(Symbol) /\ Len(six) = Len(four) + 2
        /\ \A k \in 1..Len(four) : six[k] = four[k]
        /\ six[Len(four) + 1] = C!Field /\ six[Len(four) + 2] = C!Newline
    BY <1>1, <2>2, HeadSymbols
  <2> HIDE DEF six
  <2>5. /\ six \in Seq(Symbol) /\ Len(six) = 6 /\ six[1] = C!Status /\ six[2] = C!Newline
        /\ six[3] = C!BareDate /\ six[4] = C!Newline /\ six[5] = C!Field /\ six[6] = C!Newline
    BY <2>3, <2>4
  <2>6. /\ h \in Seq(Symbol) /\ Len(h) = Len(six) + 1
        /\ \A k \in 1..Len(six) : h[k] = six[k]
        /\ h[Len(six) + 1] = C!Newline
    BY <1>2, <2>4
  <2> HIDE DEF h
  <2>7. /\ h \in Seq(Symbol) /\ Len(h) = 7 /\ h[1] = C!Status /\ h[2] = C!Newline
        /\ h[3] = C!BareDate /\ h[4] = C!Newline /\ h[5] = C!Field /\ h[6] = C!Newline
        /\ h[7] = C!Newline
    BY <2>5, <2>6
  <2>8. Good(h)
    <3>1. \A k \in 1..Len(h) : k \in {1, 2, 3, 4, 5, 6, 7}
      BY <2>7
    <3>2. \A k \in 1..Len(h) : h[k] # C!Junk /\ (h[k] = C!BareDate => k = 3 /\ h[4] = C!Newline)
      BY <1>4, <2>7, <3>1
    <3>3. \A k \in 1..Len(h) : h[k] = C!Newline \/ h[k + 1] = C!Newline
      BY <2>7, <3>1
    <3> QED
      BY <2>7, <3>2, <3>3
  <2> QED
    BY <2>1, <2>8
<1>7. Good(StandardHeader)
  <2> DEFINE four == StatusLine \o <<C!Field, C!Newline>>
             h == four \o C!Blank
  <2>1. h = StandardHeader
    BY <1>3 DEF StandardHeader
  <2>2. /\ four \in Seq(Symbol) /\ Len(four) = Len(StatusLine) + 2
        /\ \A k \in 1..Len(StatusLine) : four[k] = StatusLine[k]
        /\ four[Len(StatusLine) + 1] = C!Field /\ four[Len(StatusLine) + 2] = C!Newline
    BY <1>1, <1>5, HeadSymbols
  <2> HIDE DEF four
  <2>3. /\ four \in Seq(Symbol) /\ Len(four) = 4 /\ four[1] = C!Status /\ four[2] = C!Newline
        /\ four[3] = C!Field /\ four[4] = C!Newline
    BY <1>5, <2>2
  <2>4. /\ h \in Seq(Symbol) /\ Len(h) = Len(four) + 1
        /\ \A k \in 1..Len(four) : h[k] = four[k]
        /\ h[Len(four) + 1] = C!Newline
    BY <1>2, <2>2
  <2> HIDE DEF h
  <2>5. /\ h \in Seq(Symbol) /\ Len(h) = 5 /\ h[1] = C!Status /\ h[2] = C!Newline
        /\ h[3] = C!Field /\ h[4] = C!Newline /\ h[5] = C!Newline
    BY <2>3, <2>4
  <2>6. Good(h)
    <3>1. \A k \in 1..Len(h) : k \in {1, 2, 3, 4, 5}
      BY <2>5
    <3>2. \A k \in 1..Len(h) : h[k] # C!Junk /\ (h[k] = C!BareDate => k = 3 /\ h[4] = C!Newline)
      BY <1>4, <2>5, <3>1
    <3>3. \A k \in 1..Len(h) : h[k] = C!Newline \/ h[k + 1] = C!Newline
      BY <2>5, <3>1
    <3> QED
      BY <2>5, <3>2, <3>3
  <2> QED
    BY <2>1, <2>6
<1> QED
  BY <1>6, <1>7

LEMMA AnswersBegin ==
    ASSUME wire = <<>>, answer = C!Unanswered, rewrite = "status"
    PROVE  AnswerInv
<1>1. C!Unanswered[1] = "none" /\ C!Unanswered # C!Error("response")
  BY DEF C!Unanswered, C!Error
<1> QED
  BY <1>1 DEF AnswerInv, AtLineEnd, Spoken, AnswersAreTrue, GoodResponsesAreRead

(* The next line of a sound header is within the header and short.         *)
LEMMA SoundLine ==
    ASSUME ClientInv, AtLineEnd, rewrite \in {"status", "first", "headers"},
           NEW h \in {StmHeader, StandardHeader}, NEW body \in Seq(Token), wire = h \o body
    PROVE  /\ C!LineEnds = {} => arrived < Len(wire)
           /\ C!LineEnds # {} => C!LineEnd <= Len(h) /\ Len(C!Line) <= 2
<1>1. h \in Headers
  BY DEF Headers
<1>2. /\ Len(h) \in Nat /\ Len(body) \in Nat /\ Len(wire) = Len(h) + Len(body)
      /\ \A k \in 1..Len(h) : wire[k] = h[k]
      /\ \A k \in 1..Len(wire) : wire[k] = C!Newline => k <= Len(h)
  <2>1. h \in Seq(Symbol) /\ body \in Seq(Symbol)
    BY <1>1, LinesInHeader
  <2>2. Len(wire) = Len(h) + Len(body)
    BY <1>1, LinesInHeader
  <2>3. /\ \A k \in 1..Len(h) : wire[k] = h[k]
        /\ \A k \in 1..Len(wire) : wire[k] = C!Newline => k <= Len(h)
    BY <1>1, LinesInHeader
  <2>4. Len(h) \in Nat /\ Len(body) \in Nat
    BY <2>1
  <2> QED
    BY <2>2, <2>3, <2>4
<1>3. /\ Len(h) >= 5 /\ h[Len(h)] = C!Newline /\ h[Len(h) - 1] = C!Newline
      /\ \A k \in 1..Len(h) : h[k] = C!Newline \/ h[k + 1] = C!Newline
  BY SoundHeaders
<1>4. taken \in Nat /\ arrived \in Nat /\ taken <= arrived /\ arrived <= Len(wire)
  BY DEF ClientInv, ClientTyped
<1>5. taken < Len(h)
  <2>1. CASE rewrite = "status"
    <3>1. taken = 0
      BY <2>1 DEF ClientInv, Rewritten
    <3> QED
      BY <1>2, <1>3, <3>1
  <2>2. CASE rewrite \in {"first", "headers"}
    <3>1. wire[taken] = C!Newline /\ wire[taken - 1] # C!Newline /\ taken >= 2
      BY <1>4, <2>2 DEF AtLineEnd, ClientInv, Rewritten
    <3>2. taken \in 1..Len(wire)
      BY <1>2, <1>4, <3>1
    <3>3. taken <= Len(h)
      BY <1>2, <3>1, <3>2
    <3>4. taken # Len(h)
      <4> SUFFICES ASSUME taken = Len(h) PROVE FALSE
        OBVIOUS
      <4>1. Len(h) - 1 \in 1..Len(h)
        BY <1>2, <1>3
      <4>2. wire[Len(h) - 1] = h[Len(h) - 1]
        BY <1>2, <4>1
      <4> QED
        BY <1>3, <3>1, <4>2
    <3> QED
      BY <1>2, <1>4, <3>3, <3>4
  <2> QED
    BY <2>1, <2>2
<1>6. PICK k \in (taken + 1)..Len(h) : wire[k] = C!Newline /\ k <= taken + 2
  <2>1. taken + 1 \in 1..Len(h) /\ taken + 1 \in (taken + 1)..Len(h)
    BY <1>2, <1>4, <1>5
  <2>2. CASE h[taken + 1] = C!Newline
    <3>1. wire[taken + 1] = C!Newline
      BY <1>2, <2>1, <2>2
    <3> QED
      BY <1>4, <2>1, <3>1
  <2>3. CASE h[taken + 1] # C!Newline
    <3>1. taken + 1 # Len(h)
      BY <1>3, <2>3
    <3>2. taken + 2 \in 1..Len(h) /\ taken + 2 \in (taken + 1)..Len(h)
      BY <1>2, <1>4, <1>5, <3>1
    <3>3. h[(taken + 1) + 1] = C!Newline
      BY <1>3, <2>1, <2>3
    <3>4. (taken + 1) + 1 = taken + 2
      BY <1>4
    <3>5. h[taken + 2] = C!Newline
      BY <3>3, <3>4
    <3>6. wire[taken + 2] = C!Newline
      BY <1>2, <3>2, <3>5
    <3> QED
      BY <1>4, <3>2, <3>6
  <2> QED
    BY <2>2, <2>3
<1>7. k \in Nat /\ taken + 1 <= k /\ k <= Len(h)
  BY <1>2, <1>4, <1>6
<1>8. C!LineEnds = {} => arrived < Len(wire)
  <2> SUFFICES ASSUME C!LineEnds = {}, ~(arrived < Len(wire)) PROVE FALSE
    OBVIOUS
  <2>1. k \in (taken + 1)..arrived
    BY <1>2, <1>4, <1>7
  <2>2. k \in C!LineEnds
    BY <1>6, <2>1 DEF C!LineEnds
  <2> QED
    BY <2>2
<1>9. ASSUME C!LineEnds # {} PROVE C!LineEnd <= Len(h) /\ Len(C!Line) <= 2
  <2>1. /\ C!LineEnd \in Nat /\ taken < C!LineEnd /\ C!LineEnd <= arrived
        /\ \A j \in (taken + 1)..arrived : j < C!LineEnd => wire[j] # C!Newline
        /\ Len(C!Line) = C!LineEnd - taken
    BY <1>9, LineIs DEF ClientInv
  <2>2. ~(k < C!LineEnd)
    <3> SUFFICES ASSUME k < C!LineEnd PROVE FALSE
      OBVIOUS
    <3>1. k \in (taken + 1)..arrived
      BY <1>4, <1>7, <2>1
    <3> QED
      BY <1>6, <2>1, <3>1
  <2> QED
    BY <1>2, <1>4, <1>6, <1>7, <2>1, <2>2
<1> QED
  BY <1>8, <1>9

(* What net/http gets of a sound header has no malformed line.             *)
LEMMA SoundAccepted ==
    ASSUME ClientInv, rewrite = "serving",
           NEW h \in {StmHeader, StandardHeader}, NEW body \in Seq(Token), wire = h \o body,
           taken = Len(h)
    PROVE  C!Accepted(out)
<1>1. h \in Headers
  BY DEF Headers
<1>2. \A k \in 1..Len(h) : wire[k] = h[k]
  BY <1>1, LinesInHeader
<1>3. /\ Len(h) >= 5 /\ Len(h) \in Nat /\ h[1] = C!Status
      /\ \A k \in 1..Len(h) : h[k] # C!Junk /\ (h[k] = C!BareDate => k = 3 /\ h[4] = C!Newline)
  BY SoundHeaders
<1>4. /\ Len(out) >= 2 /\ Len(out) \in Nat /\ taken = Len(out) + Skipped
      /\ \A k \in 1..2 : out[k] = wire[k]
      /\ \A k \in 3..Len(out) : out[k] = wire[k + Skipped]
  <2>1. out \in Seq(Symbol)
    BY DEF ClientInv, ClientTyped
  <2>2. Len(out) \in Nat
    BY <2>1
  <2> QED
    BY <2>2 DEF ClientInv, Rewritten
<1>5. Skipped \in {0, 2} /\ (Skipped = 2 <=> Defect)
  BY DEF Skipped
<1>6. 1 \in 1..2 /\ 1 \in 1..Len(h) /\ 4 \in 1..Len(h)
  BY <1>3
<1>7. out[1] = C!Status
  BY <1>2, <1>3, <1>4, <1>6
<1>8. ASSUME NEW k \in 1..Len(out) PROVE out[k] \notin {C!Junk, C!BareDate}
  <2>1. CASE k <= 2
    <3>1. k \in 1..2 /\ k \in 1..Len(h) /\ k # 3
      BY <1>3, <1>4, <2>1
    <3>2. out[k] = h[k]
      BY <1>2, <1>4, <3>1
    <3> QED
      BY <1>3, <3>1, <3>2
  <2>2. CASE k > 2
    <3>1. k \in 3..Len(out) /\ k + Skipped \in 1..Len(h)
      BY <1>3, <1>4, <1>5, <2>2
    <3>2. out[k] = h[k + Skipped]
      BY <1>2, <1>4, <3>1
    <3>3. h[k + Skipped] # C!Junk
      BY <1>3, <3>1
    <3>4. h[k + Skipped] # C!BareDate
      <4> SUFFICES ASSUME h[k + Skipped] = C!BareDate PROVE FALSE
        OBVIOUS
      <4>1. k + Skipped = 3 /\ h[4] = C!Newline
        BY <1>3, <3>1
      <4>2. Skipped = 0
        BY <1>4, <1>5, <2>2, <4>1
      <4>3. wire[3] = C!BareDate /\ wire[4] = C!Newline
        BY <1>2, <1>6, <3>1, <4>1
      <4> QED
        BY <1>5, <4>2, <4>3 DEF Defect
    <3> QED
      BY <3>2, <3>3, <3>4
  <2> QED
    BY <1>4, <2>1, <2>2
<1> QED
  BY <1>7, <1>8 DEF C!Accepted

(* The body that is read means what the STM meant, or it is an error.      *)
LEMMA ReadBodyIsTrue ==
    ASSUME ClientInv, AtLineEnd, Spoken, C!ReadBody, UNCHANGED meant
    PROVE  AnswersAreTrue' /\ GoodResponsesAreRead'
<1>1. rewrite = "serving" /\ answer = C!Unanswered
  BY DEF C!ReadBody
<1>2. PICK end \in arrived..Len(wire) :
        /\ cutShort' = (end < Len(wire))
        /\ \/ /\ C!Accepted(out) /\ Len(C!Body(end)) <= MaxResponse
              /\ answer' = C!Result(method, C!Decode(C!Body(end)))
           \/ /\ \/ ~C!Accepted(out)
                 \/ Len(C!Body(end)) > MaxResponse
                 \/ end < Len(wire)
              /\ answer' = C!Error("response")
  BY DEF C!ReadBody
<1>3. wire # <<>>
  BY <1>1 DEF ClientInv, ClientTyped, Rewritten
<1>4. wire = meant.wire /\ Speaks(method, meant)
  BY <1>3 DEF Spoken
<1>5. PICK h \in Headers, body \in Seq(Token) :
        /\ meant.wire = h \o body
        /\ TrueTo(method, body, meant.result)
        /\ meant.sound /\ meant.result # Refused =>
             /\ h \in {StmHeader, StandardHeader} /\ Len(body) <= 40
             /\ Means(method, body, meant.result) /\ meant.result[1] # "error"
  BY <1>4 DEF Speaks
<1>6. wire = h \o body
  BY <1>4, <1>5
<1>7. /\ taken = Len(h) /\ Starts(C!Body(end), body)
      /\ end = Len(wire) => C!Body(end) = body
  BY <1>1, <1>6, BodyStarts
<1>8. C!Error("response")[1] = "error"
  BY DEF C!Error
<1>9. AnswersAreTrue'
  <2>1. \/ C!Result(method, C!Decode(C!Body(end)))[1] = "error"
        \/ C!Result(method, C!Decode(C!Body(end))) = meant.result
    BY <1>5, <1>7 DEF TrueTo
  <2>2. answer'[1] = "error" \/ answer' = meant.result
    BY <1>2, <1>8, <2>1
  <2> QED
    BY <2>2 DEF AnswersAreTrue
<1>10. GoodResponsesAreRead'
  <2> SUFFICES ASSUME meant.sound, meant.result # Refused, ~(end < Len(wire)),
                      answer' = C!Error("response")
               PROVE  FALSE
    BY <1>2 DEF GoodResponsesAreRead
  <2>1. /\ h \in {StmHeader, StandardHeader} /\ Len(body) <= 40
        /\ Means(method, body, meant.result) /\ meant.result[1] # "error"
    BY <1>5
  <2>2. end = Len(wire)
    <3>1. Len(wire) \in Nat /\ arrived \in Nat
      BY DEF ClientInv, ClientTyped
    <3> QED
      BY <3>1
  <2>3. C!Body(end) = body
    BY <1>7, <2>2
  <2>4. C!Accepted(out)
    BY <1>1, <1>6, <1>7, <2>1, SoundAccepted
  <2>5. ~(Len(C!Body(end)) > MaxResponse)
    <3>1. Len(body) \in Nat
      OBVIOUS
    <3> QED
      BY <2>1, <2>3, <3>1, ResponseAssumption
  <2>6. answer' = C!Result(method, C!Decode(body))
    BY <1>2, <2>3, <2>4, <2>5
  <2>7. C!Result(method, C!Decode(body)) = meant.result
    <3>1. PICK decoded : Ends(body, decoded) /\ C!Result(method, decoded) = meant.result
      BY <2>1 DEF Means
    <3>2. C!Decode(body) = decoded
      BY <3>1, EndsDecoded
    <3> QED
      BY <3>1, <3>2
  <2> QED
    BY <1>8, <2>1, <2>6, <2>7
<1> QED
  BY <1>9, <1>10

(* Nothing is answered while the header is read, unless it is refused; a   *)
(* sound one is not, before the connection has ended.                      *)
LEMMA LineEndKept ==
    ASSUME ClientInv, AtLineEnd,
           C!Deliver \/ C!ReadStatusLine \/ C!ReadHeaderLine \/ C!RewriteFails \/ C!ReadBody
    PROVE  AtLineEnd'
<1>1. CASE C!Deliver \/ C!ReadBody
  <2>1. UNCHANGED <<rewrite, wire, taken>>
    BY <1>1 DEF C!Deliver, C!ReadBody, C!lineVars
  <2> QED
    BY <2>1 DEF AtLineEnd
<1>2. CASE C!RewriteFails
  <2>1. rewrite' = "broken"
    BY <1>2 DEF C!RewriteFails, C!Fail
  <2> QED
    BY <2>1 DEF AtLineEnd
<1>3. CASE C!ReadStatusLine
  <2>1. /\ rewrite' = "first" /\ wire' = wire /\ taken' = C!LineEnd /\ C!LineEnds # {}
        /\ taken = 0 /\ rewrite = "status"
    BY <1>3 DEF C!ReadStatusLine, C!LineRead, C!lineVars, ClientInv, Rewritten
  <2>2. wire[C!LineEnd] = C!Newline
    BY <2>1, LineIs DEF ClientInv
  <2>3. ClientInv' /\ wire # <<>>
    <3>1. wire # <<>>
      BY <2>1 DEF C!LineEnds, ClientInv, ClientTyped
    <3> QED
      BY <1>3, <3>1, StatusLineKeeps
  <2>4. taken' = 2
    BY <2>1, <2>3 DEF ClientInv, Rewritten
  <2>5. wire[1] # C!Newline
    BY <2>3 DEF ClientInv, ClientTyped, Opens
  <2> QED
    BY <2>1, <2>2, <2>4, <2>5 DEF AtLineEnd
<1>4. CASE C!ReadHeaderLine
  <2>1. /\ rewrite \in {"first", "headers"} /\ wire' = wire /\ taken' = C!LineEnd
        /\ C!LineEnds # {}
    BY <1>4 DEF C!ReadHeaderLine, C!LineRead, C!lineVars
  <2>2. \/ rewrite' = "broken"
        \/ C!Line = C!Blank /\ rewrite' = "serving"
        \/ C!Line # C!Blank /\ rewrite' = "headers"
    BY <1>4 DEF C!ReadHeaderLine, C!Fail
  <2>3. /\ C!LineEnd \in Nat /\ taken < C!LineEnd /\ C!LineEnd <= arrived
        /\ wire[C!LineEnd] = C!Newline
        /\ \A j \in (taken + 1)..arrived : j < C!LineEnd => wire[j] # C!Newline
        /\ C!Line \in Seq(Symbol) /\ Len(C!Line) = C!LineEnd - taken
        /\ \A k \in 1..Len(C!Line) : C!Line[k] = wire[taken + k]
    BY <2>1, LineIs DEF ClientInv
  <2>4. taken \in Nat /\ arrived \in Nat
    BY DEF ClientInv, ClientTyped
  <2>5. wire[taken] = C!Newline
    BY <2>1 DEF AtLineEnd
  <2>6. Len(C!Line) = 1 => C!LineEnd - 1 = taken
    <3>1. C!LineEnd \in Nat /\ Len(C!Line) = C!LineEnd - taken
      BY <2>3
    <3>2. \A end \in Nat : \A length : length = end - taken /\ length = 1 => end - 1 = taken
      BY <2>4
    <3> QED
      BY <3>1, <3>2
  <2>7. C!Line = C!Blank => wire[C!LineEnd - 1] = C!Newline
    <3> SUFFICES ASSUME C!Line = C!Blank PROVE wire[C!LineEnd - 1] = C!Newline
      OBVIOUS
    <3>1. Len(C!Blank) = 1
      BY HeadSymbols
    <3>2. Len(C!Line) = 1
      BY <3>1
    <3>3. C!LineEnd - 1 = taken
      BY <2>6, <3>2
    <3> QED
      BY <2>5, <3>3
  <2>8. C!Line # C!Blank => wire[C!LineEnd - 1] # C!Newline
    <3> SUFFICES ASSUME wire[C!LineEnd - 1] = C!Newline PROVE C!Line = C!Blank
      OBVIOUS
    <3>1. C!LineEnd = taken + 1
      <4> SUFFICES ASSUME C!LineEnd # taken + 1 PROVE FALSE
        OBVIOUS
      <4>1. C!LineEnd - 1 \in (taken + 1)..arrived /\ C!LineEnd - 1 < C!LineEnd
        BY <2>3, <2>4
      <4> QED
        BY <2>3, <4>1
    <3> DEFINE line == C!Line
    <3>2. line \in Seq(Symbol) /\ Len(line) = 1 /\ line[1] = wire[taken + 1]
      BY <2>3, <2>4, <3>1
    <3>3. line[1] = C!Newline
      BY <2>3, <3>1, <3>2
    <3>4. C!Blank = <<C!Newline>>
      BY HeadSymbols
    <3> HIDE DEF line
    <3>5. line = [k \in 1..1 |-> line[k]]
      BY <3>2
    <3>6. line = <<line[1]>>
      BY <3>5
    <3> QED
      BY <3>3, <3>4, <3>6 DEF line
  <2>9. wire'[taken'] = C!Newline /\ wire'[taken' - 1] = wire[C!LineEnd - 1]
    BY <2>1, <2>3
  <2> QED
    BY <2>2, <2>7, <2>8, <2>9 DEF AtLineEnd
<1> QED
  BY <1>1, <1>2, <1>3, <1>4

LEMMA HeaderIsNotRefused ==
    ASSUME ClientInv, AtLineEnd, Spoken, UNCHANGED meant,
           C!ReadHeaderLine \/ C!RewriteFails,
           rewrite' = "broken", ~cutShort'
    PROVE  ~meant.sound \/ meant.result = Refused
<1> SUFFICES ASSUME meant.sound, meant.result # Refused PROVE FALSE
  OBVIOUS
<1>1. wire # <<>> /\ rewrite \in {"status", "first", "headers"}
  <2>1. CASE C!ReadHeaderLine
    <3>1. rewrite \in {"first", "headers"}
      BY <2>1 DEF C!ReadHeaderLine
    <3>2. taken \in Nat /\ taken <= arrived /\ arrived \in Nat /\ arrived <= Len(wire)
      BY DEF ClientInv, ClientTyped
    <3>3. taken >= 2
      BY <3>1, <3>2 DEF ClientInv, Rewritten
    <3>4. wire # <<>>
      BY <3>2, <3>3
    <3> QED
      BY <3>1, <3>4
  <2>2. CASE C!RewriteFails
    BY <2>2 DEF C!RewriteFails, C!LineFails, C!Rewriting
  <2> QED
    BY <2>1, <2>2
<1>2. wire = meant.wire /\ Speaks(method, meant)
  BY <1>1 DEF Spoken
<1>3. PICK h \in Headers, body \in Seq(Token) :
        /\ meant.wire = h \o body
        /\ TrueTo(method, body, meant.result)
        /\ meant.sound /\ meant.result # Refused =>
             /\ h \in {StmHeader, StandardHeader} /\ Len(body) <= 40
             /\ Means(method, body, meant.result) /\ meant.result[1] # "error"
  BY <1>2 DEF Speaks
<1>4. h \in {StmHeader, StandardHeader} /\ wire = h \o body
  BY <1>2, <1>3
<1>5. /\ C!LineEnds = {} => arrived < Len(wire)
      /\ C!LineEnds # {} => C!LineEnd <= Len(h) /\ Len(C!Line) <= 2
  BY <1>1, <1>4, SoundLine
<1>6. Len(h) <= 7 /\ Len(h) \in Nat
  BY <1>4, SoundHeaders
<1>7. CASE C!ReadHeaderLine
  <2>1. C!LineEnds # {} /\ C!LineEnd > MaxHeaderBytes
    BY <1>7 DEF C!ReadHeaderLine, C!LineRead, C!Fail
  <2>2. C!LineEnd \in Nat
    BY <2>1, LineIs DEF ClientInv
  <2> QED
    BY <1>5, <1>6, <2>1, <2>2, ResponseAssumption, HeaderAssumption
<1>8. CASE C!RewriteFails
  <2>1. /\ C!LineEnds # {} => Len(C!Line) > MaxHeaderLine
        /\ cutShort' = (C!LineEnds = {} /\ arrived < Len(wire))
    BY <1>8 DEF C!RewriteFails, C!LineFails, C!Fail
  <2>2. C!LineEnds # {}
    BY <1>5, <2>1
  <2>3. Len(C!Line) \in Nat
    BY <2>2, LineIs DEF ClientInv
  <2> QED
    BY <1>5, <2>1, <2>2, <2>3, HeaderAssumption
<1> QED
  BY <1>7, <1>8

LEMMA ReadingKeepsAnswer ==
    ASSUME ClientInv, AnswerInv, UNCHANGED meant,
           C!Deliver \/ C!ReadStatusLine \/ C!ReadHeaderLine \/ C!RewriteFails \/ C!ReadBody
    PROVE  AnswerInv'
<1>1. AtLineEnd /\ Spoken /\ AnswersAreTrue /\ GoodResponsesAreRead
  BY DEF AnswerInv
<1>2. AtLineEnd'
  BY <1>1, LineEndKept
<1>3. Spoken'
  <2>1. UNCHANGED <<wire, method>>
    BY DEF C!Deliver, C!ReadStatusLine, C!ReadHeaderLine, C!RewriteFails, C!ReadBody,
           C!lineVars
  <2> QED
    BY <1>1, <2>1 DEF Spoken
<1>4. C!Error("response")[1] = "error"
  BY DEF C!Error
<1>5. AnswersAreTrue' /\ GoodResponsesAreRead'
  <2>1. CASE UNCHANGED <<answer, cutShort>>
    BY <1>1, <2>1 DEF AnswersAreTrue, GoodResponsesAreRead
  <2>2. CASE /\ C!ReadHeaderLine \/ C!RewriteFails
             /\ rewrite' = "broken" /\ answer' = C!Error("response")
    <3>1. AnswersAreTrue'
      BY <1>4, <2>2 DEF AnswersAreTrue
    <3>2. ~cutShort' => ~meant.sound \/ meant.result = Refused
      BY <1>1, <2>2, HeaderIsNotRefused
    <3>3. GoodResponsesAreRead'
      BY <3>2 DEF GoodResponsesAreRead
    <3> QED
      BY <3>1, <3>3
  <2>3. CASE C!ReadBody
    BY <1>1, <2>3, ReadBodyIsTrue
  <2>4. C!Deliver \/ C!ReadStatusLine => UNCHANGED <<answer, cutShort>>
    BY DEF C!Deliver, C!ReadStatusLine
  <2>5. C!ReadHeaderLine =>
          \/ UNCHANGED <<answer, cutShort>>
          \/ rewrite' = "broken" /\ answer' = C!Error("response")
    BY DEF C!ReadHeaderLine, C!Fail
  <2>6. C!RewriteFails => rewrite' = "broken" /\ answer' = C!Error("response")
    BY DEF C!RewriteFails, C!Fail
  <2> QED
    BY <2>1, <2>2, <2>3, <2>4, <2>5, <2>6
<1> QED
  BY <1>2, <1>3, <1>5 DEF AnswerInv

LEMMA RespondKeepsAnswer ==
    ASSUME ClientInv, AnswerInv, NEW saying, C!Respond(saying.wire), meant' = saying,
           Speaks(method, saying)
    PROVE  AnswerInv'
<1>1. wire = <<>> /\ answer = C!Unanswered /\ wire' = saying.wire
      /\ UNCHANGED <<method, arrived, taken, rewrite, answer>>
  BY DEF C!Respond
<1>2. rewrite = "status"
  BY <1>1 DEF ClientInv, ClientTyped, Rewritten
<1>3. AtLineEnd' /\ Spoken'
  BY <1>1, <1>2 DEF AtLineEnd, Spoken
<1>4. C!Unanswered[1] = "none" /\ C!Unanswered # C!Error("response")
  BY DEF C!Unanswered, C!Error
<1>5. AnswersAreTrue' /\ GoodResponsesAreRead'
  BY <1>1, <1>4 DEF AnswersAreTrue, GoodResponsesAreRead
<1> QED
  BY <1>3, <1>5 DEF AnswerInv

LEMMA OthersKeepAnswer ==
    /\ AnswerInv /\ UNCHANGED <<clientVars, meant>> => AnswerInv'
    /\ AnswerInv /\ (\E m : C!Call(m)) /\ UNCHANGED meant => AnswerInv'
    /\ C!Interrupt => AnswerInv'
    /\ C!Returned => AnswerInv'
<1>1. AnswerInv /\ UNCHANGED <<clientVars, meant>> => AnswerInv'
  BY DEF AnswerInv, AtLineEnd, Spoken, AnswersAreTrue, GoodResponsesAreRead, clientVars
<1>2. ASSUME AnswerInv, NEW m, C!Call(m), UNCHANGED meant PROVE AnswerInv'
  <2>1. wire' = <<>> /\ answer' = C!Unanswered /\ rewrite' = "status"
    BY <1>2 DEF C!Call, C!Idle
  <2>2. C!Unanswered[1] = "none" /\ C!Unanswered # C!Error("response")
    BY DEF C!Unanswered, C!Error
  <2> QED
    BY <2>1, <2>2 DEF AnswerInv, AtLineEnd, Spoken, AnswersAreTrue, GoodResponsesAreRead
<1>3. ASSUME C!Interrupt PROVE AnswerInv'
  <2>1. wire' = <<>> /\ answer' = C!Error("interrupted") /\ rewrite' = "status"
    BY <1>3 DEF C!Interrupt, C!Closed
  <2>2. C!Error("interrupted")[1] = "error" /\ C!Error("interrupted") # C!Error("response")
    BY DEF C!Error
  <2> QED
    BY <2>1, <2>2 DEF AnswerInv, AtLineEnd, Spoken, AnswersAreTrue, GoodResponsesAreRead
<1>4. ASSUME C!Returned PROVE AnswerInv'
  <2>1. wire' = <<>> /\ answer' = C!Unanswered /\ rewrite' = "status"
    BY <1>4 DEF C!Returned, C!Closed
  <2>2. C!Unanswered[1] = "none" /\ C!Unanswered # C!Error("response")
    BY DEF C!Unanswered, C!Error
  <2> QED
    BY <2>1, <2>2 DEF AnswerInv, AtLineEnd, Spoken, AnswersAreTrue, GoodResponsesAreRead
<1> QED
  BY <1>1, <1>2, <1>3, <1>4

-----------------------------------------------------------------------------
(* The calls of an operation, in the order the STM executes them.          *)

Calls == {[call |-> "readFile", index |-> k] : k \in Nat}
         \cup UNION {{plan[k] : k \in DOMAIN plan} : plan \in Plans}

OpTyped ==
    /\ op \in [kind : {"none", "chunk", "command"}, plan : Seq(Calls), done : Nat,
               status : {"running", "ok", "failed"}]
    /\ heard \in Seq(Calls)

(* The STM has heard the calls that are done, and the one in flight or not *)
(* yet: it has heard that one when it has answered.                        *)
HeardInOrder ==
    /\ Len(heard) <= Len(op.plan)
    /\ \A k \in 1..Len(heard) : heard[k] = op.plan[k]
    /\ Running =>
         /\ op.done < Len(op.plan)
         /\ Len(heard) \in {op.done, op.done + 1}
         /\ wire # <<>> \/ answer[1] \notin {"none", "error"} =>
              Len(heard) = op.done + 1
         /\ wire = <<>> /\ answer = C!Unanswered => Len(heard) = op.done
    /\ ~Running => method = "idle"
    /\ method = "idle" => wire = <<>> /\ answer = C!Unanswered
    /\ op.kind = "command" /\ op.status = "ok" => Len(heard) = Len(op.plan)

OpInv == OpTyped /\ HeardInOrder

LEMMA PlansAre == \A plan \in Plans : plan \in Seq(Calls)
<1>1. ASSUME NEW plan \in Plans, NEW call, plan = <<call>> PROVE plan \in Seq(Calls)
  <2>1. 1 \in DOMAIN plan /\ plan[1] = call
    BY <1>1
  <2>2. call \in Calls
    BY <2>1 DEF Calls
  <2> QED
    BY <1>1, <2>2
<1>2. ASSUME NEW plan \in Plans, NEW events \in Seq(Int), NEW ref,
             plan = [k \in 1..Len(events) |-> Cmd!SimInput(ref, events[k])]
      PROVE  plan \in Seq(Calls)
  <2>1. Len(events) \in Nat /\ DOMAIN plan = 1..Len(events)
    BY <1>2
  <2>2. \A k \in 1..Len(events) : plan[k] \in Calls
    BY <2>1 DEF Calls
  <2> QED
    BY <1>2, <2>1, <2>2
<1>3. ASSUME NEW plan \in Plans, plan = <<>> PROVE plan \in Seq(Calls)
  BY <1>3
<1>4. ASSUME NEW module PROVE \E call : Cmd!Poll(module) = <<call>>
  BY DEF Cmd!Poll
<1>5. ASSUME NEW device, NEW action
      PROVE  \/ \E call : Cmd!Plan(device, action) = <<call>>
             \/ Cmd!Plan(device, action) = <<>>
             \/ \E ref : \E events \in Seq(Int) :
                  Cmd!Plan(device, action) =
                    [k \in 1..Len(events) |-> Cmd!SimInput(ref, events[k])]
  <2>1. Cmd!EventsOf(action) \in Seq(Int)
    BY DEF Cmd!EventsOf, Cmd!ShortPressEvents, Cmd!LongPressEvents, Cmd!TipEvents,
           Cmd!Press, Cmd!LongPress, Cmd!Release, Cmd!DoublePress
  <2>2. CASE action \in {"on", "off", "toggle"}
    BY <2>2 DEF Cmd!Plan
  <2>3. CASE action \notin {"on", "off", "toggle"}
    BY <2>1, <2>3 DEF Cmd!Plan
  <2> QED
    BY <2>2, <2>3
<1> QED
  <2> TAKE plan \in Plans
  <2>1. \/ \E module : plan = Cmd!Poll(module)
        \/ \E device, action : plan = Cmd!Plan(device, action)
    BY DEF Plans
  <2>2. CASE \E module : plan = Cmd!Poll(module)
    BY <1>1, <1>4, <2>2
  <2>3. CASE \E device, action : plan = Cmd!Plan(device, action)
    <3>1. PICK device, action : plan = Cmd!Plan(device, action)
      BY <2>3
    <3>2. CASE \E call : plan = <<call>>
      BY <1>1, <3>2
    <3>3. CASE plan = <<>>
      BY <1>3, <3>3
    <3>4. CASE \E ref : \E events \in Seq(Int) :
                 plan = [k \in 1..Len(events) |-> Cmd!SimInput(ref, events[k])]
      BY <1>2, <3>4
    <3> QED
      BY <1>5, <3>1, <3>2, <3>3, <3>4
  <2> QED
    BY <2>1, <2>2, <2>3

LEMMA BeginKeeps ==
    ASSUME OpInv, NEW kind \in {"chunk", "command"}, NEW plan \in Seq(Calls),
           kind = "chunk" => plan # <<>>,
           ~Running, Begin(kind, plan), heard' = <<>>, UNCHANGED clientVars
    PROVE  OpInv'
<1>1. /\ method = "idle" /\ wire = <<>> /\ answer = C!Unanswered
      /\ UNCHANGED <<method, wire, answer>>
  BY DEF OpInv, HeardInOrder, clientVars
<1>2. op' = [kind |-> kind, plan |-> plan, done |-> 0,
             status |-> IF plan = <<>> THEN "failed" ELSE "running"]
  BY DEF Begin
<1>3. OpTyped'
  BY <1>2 DEF OpInv, OpTyped
<1>4. HeardInOrder'
  <2>1. Len(heard') = 0 /\ Len(plan) \in Nat /\ (plan # <<>> => Len(plan) > 0)
    OBVIOUS
  <2>2. /\ op'.plan = plan /\ op'.done = 0 /\ op'.kind = kind
        /\ op'.status = IF plan = <<>> THEN "failed" ELSE "running"
    BY <1>2
  <2>3. C!Unanswered[1] = "none"
    BY DEF C!Unanswered
  <2> QED
    BY <1>1, <2>1, <2>2, <2>3 DEF HeardInOrder, Running
<1> QED
  BY <1>3, <1>4 DEF OpInv

LEMMA CallKeepsOrder ==
    ASSUME OpInv, Running, NEW m, C!Call(m), UNCHANGED opVars
    PROVE  OpInv'
<1>1. UNCHANGED <<op, heard, wire, answer>>
  BY DEF C!Call, opVars
<1>2. method = "idle"
  BY DEF C!Call, C!Idle
<1> QED
  BY <1>1, <1>2 DEF OpInv, OpTyped, HeardInOrder, Running, C!Call

(* The STM hears the call when it answers.                                 *)
LEMMA AnswerKeepsOrder ==
    ASSUME OpInv, NEW saying, saying.wire # <<>>, Answer(saying)
    PROVE  OpInv'
<1>1. /\ method # "idle" /\ wire = <<>> /\ answer = C!Unanswered
      /\ wire' = saying.wire /\ UNCHANGED <<op, method, answer>>
      /\ heard' = Append(heard, CurrentCall)
  BY DEF Answer, C!Respond
<1>2. Running /\ op.done < Len(op.plan) /\ Len(heard) = op.done
  BY <1>1 DEF OpInv, HeardInOrder
<1>3. op.plan \in Seq(Calls) /\ op.done \in Nat /\ heard \in Seq(Calls)
  BY DEF OpInv, OpTyped
<1>4. op.done + 1 \in 1..Len(op.plan)
  BY <1>2, <1>3
<1>5. CurrentCall \in Calls
  BY <1>3, <1>4 DEF CurrentCall
<1>6. /\ heard' \in Seq(Calls) /\ Len(heard') = op.done + 1
      /\ heard'[op.done + 1] = op.plan[op.done + 1]
      /\ \A k \in 1..Len(heard) : heard'[k] = heard[k]
  BY <1>1, <1>2, <1>3, <1>5 DEF CurrentCall
<1>7. \A k \in 1..Len(heard') : heard'[k] = op.plan[k]
  <2>1. ASSUME NEW k \in 1..Len(heard') PROVE heard'[k] = op.plan[k]
    <3>1. k \in 1..Len(heard) \/ k = op.done + 1
      BY <1>2, <1>3, <1>6
    <3> QED
      BY <1>6, <3>1 DEF OpInv, HeardInOrder
  <2> QED
    BY <2>1
<1>8. OpTyped'
  BY <1>1, <1>6 DEF OpInv, OpTyped
<1>9. HeardInOrder'
  <2>1. Running' /\ op'.status = "running"
    BY <1>1, <1>2 DEF Running
  <2>2. Len(heard') <= Len(op.plan)
    BY <1>4, <1>6
  <2> QED
    BY <1>1, <1>2, <1>6, <1>7, <2>1, <2>2 DEF HeardInOrder
<1> QED
  BY <1>8, <1>9 DEF OpInv

(* What a connection delivers changes neither the call nor what was heard. *)
LEMMA ReadingKeepsOrder ==
    ASSUME ClientInv, OpInv,
           \/ C!Deliver \/ C!ReadStatusLine \/ C!ReadHeaderLine \/ C!RewriteFails
           \/ C!ReadBody,
           UNCHANGED opVars
    PROVE  OpInv'
<1>1. UNCHANGED <<op, heard, method, wire>>
  BY DEF opVars, C!Deliver, C!ReadStatusLine, C!ReadHeaderLine, C!RewriteFails, C!ReadBody,
         C!lineVars
<1>2. wire # <<>> \/ answer' = answer
  <2>1. CASE C!Deliver \/ C!ReadStatusLine
    BY <2>1 DEF C!Deliver, C!ReadStatusLine
  <2>2. CASE C!ReadHeaderLine
    BY <2>2 DEF C!ReadHeaderLine, C!LineRead, C!LineEnds, ClientInv, ClientTyped
  <2>3. CASE C!RewriteFails
    BY <2>3 DEF C!RewriteFails, C!LineFails
  <2>4. CASE C!ReadBody
    BY <2>4 DEF C!ReadBody, ClientInv, ClientTyped, Rewritten
  <2> QED
    BY <2>1, <2>2, <2>3, <2>4
<1>3. method # "idle" \/ answer' = answer
  BY <1>2 DEF OpInv, HeardInOrder
<1> QED
  BY <1>1, <1>2, <1>3 DEF OpInv, OpTyped, HeardInOrder, Running

LEMMA InterruptKeepsOrder ==
    ASSUME OpInv, C!Interrupt, UNCHANGED opVars
    PROVE  OpInv'
<1>1. /\ UNCHANGED <<op, heard, method>> /\ method # "idle"
      /\ wire' = <<>> /\ answer' = C!Error("interrupted")
  BY DEF opVars, C!Interrupt, C!Closed
<1>2. answer'[1] = "error" /\ answer' # C!Unanswered
  BY <1>1 DEF C!Error, C!Unanswered
<1> QED
  BY <1>1, <1>2 DEF OpInv, OpTyped, HeardInOrder, Running

(* A call is done.                                                         *)
LEMMA EndKeepsOrder ==
    ASSUME OpInv, Running, C!Returned, UNCHANGED heard,
           NEW status \in {"running", "ok", "failed"}, OpEnds(status),
           status # "failed" => answer[1] \notin {"none", "error"},
           status = "running" => op.done + 1 < Len(op.plan),
           op.kind = "command" /\ status = "ok" => op.done + 1 >= Len(op.plan)
    PROVE  OpInv'
<1>1. /\ method' = "idle" /\ wire' = <<>> /\ answer' = C!Unanswered
  BY DEF C!Returned, C!Closed
<1>2. /\ op \in [kind : {"none", "chunk", "command"}, plan : Seq(Calls), done : Nat,
                 status : {"running", "ok", "failed"}]
      /\ heard \in Seq(Calls) /\ op.plan \in Seq(Calls) /\ op.done \in Nat
  BY DEF OpInv, OpTyped
<1>3. /\ op'.kind = op.kind /\ op'.plan = op.plan /\ op'.done = op.done + 1
      /\ op'.status = status
      /\ op' \in [kind : {"none", "chunk", "command"}, plan : Seq(Calls), done : Nat,
                  status : {"running", "ok", "failed"}]
  <2>1. op' = [op EXCEPT !.done = @ + 1, !.status = status]
    BY DEF OpEnds
  <2>2. op.done + 1 \in Nat
    BY <1>2
  <2>3. /\ op'.kind = op.kind /\ op'.plan = op.plan /\ op'.done = op.done + 1
        /\ op'.status = status
    BY <1>2, <2>1
  <2>4. op' \in [kind : {"none", "chunk", "command"}, plan : Seq(Calls), done : Nat,
                  status : {"running", "ok", "failed"}]
    BY <1>2, <2>1, <2>2
  <2> QED
    BY <2>3, <2>4
<1>4. OpTyped'
  BY <1>2, <1>3 DEF OpTyped
<1>5. /\ Len(heard) <= Len(op.plan) /\ op.done < Len(op.plan)
      /\ \A k \in 1..Len(heard) : heard[k] = op.plan[k]
      /\ status # "failed" => Len(heard) = op.done + 1
  BY DEF OpInv, HeardInOrder
<1>6. Len(heard) \in Nat /\ Len(op.plan) \in Nat
  BY <1>2
<1>7. C!Unanswered[1] = "none"
  BY DEF C!Unanswered
<1>8. Running' => status = "running"
  BY <1>3 DEF Running
<1>9. op'.kind = "command" /\ op'.status = "ok" => Len(heard) = Len(op.plan)
  BY <1>2, <1>3, <1>5, <1>6
<1>10. HeardInOrder'
  BY <1>1, <1>2, <1>3, <1>5, <1>6, <1>7, <1>8, <1>9 DEF HeardInOrder
<1> QED
  BY <1>4, <1>10 DEF OpInv

-----------------------------------------------------------------------------
(* Together.                                                               *)

DownloadTyped == i \in Nat /\ project \in Projects

(* A response that says a chunk says the one that was asked for.           *)
Meaning == meant.result[1] = "chunk" => meant.result = <<"chunk", chunk>>

IInv == ClientInv /\ OpInv /\ DownloadTyped /\ Meaning /\ AnswerInv

LEMMA NotHeardMeans == NotHeard.result[1] # "chunk"
  BY DEF NotHeard, Says, Refused

LEMMA UnchangedKeeps ==
    /\ ClientInv /\ UNCHANGED clientVars => ClientInv'
    /\ OpInv /\ UNCHANGED <<clientVars, opVars>> => OpInv'
    /\ DownloadTyped /\ UNCHANGED <<i, project>> => DownloadTyped'
    /\ Meaning /\ UNCHANGED <<meant, chunk>> => Meaning'
<1>1. ClientInv /\ UNCHANGED clientVars => ClientInv'
  BY DEF ClientInv, ClientTyped, Rewritten, Skipped, Defect, clientVars
<1>2. OpInv /\ UNCHANGED <<clientVars, opVars>> => OpInv'
  BY DEF OpInv, OpTyped, HeardInOrder, Running, clientVars, opVars
<1>3. DownloadTyped /\ UNCHANGED <<i, project>> => DownloadTyped'
  BY DEF DownloadTyped
<1>4. Meaning /\ UNCHANGED <<meant, chunk>> => Meaning'
  BY DEF Meaning
<1> QED
  BY <1>1, <1>2, <1>3, <1>4

LEMMA AnswersTyped ==
    \A p \in Projects, k \in Nat :
        D!Answers(p, k) \subseteq [cur : Int, total : Int, bin : Pieces]
<1>1. DP!Pieces = Pieces
  BY DEF DP!Pieces, Pieces
<1>2. \A p \in Projects, k \in Nat : DP!Answers(p, k) = D!Answers(p, k)
  BY DEF DP!Answers, D!Answers
<1>3. \A p \in Projects, k \in Nat : \A c \in DP!Answers(p, k) :
        c \in [cur : Int, total : Int, bin : DP!Pieces]
  BY DP!AnswersTyped, ProjectsAssumption, LimitsAssumption, CentralDirectoryAssumption
     DEF DP!Pieces, Pieces
<1> QED
  BY <1>1, <1>2, <1>3

LEMMA InitHolds == Init => IInv
<1> SUFFICES ASSUME Init PROVE IInv
  OBVIOUS
<1>1. C!Idle /\ lastSanitized = FALSE /\ heard = <<>> /\ meant = NotHeard
      /\ op = [kind |-> "none", plan |-> <<>>, done |-> 0, status |-> "ok"]
  BY DEF Init
<1>2. ClientInv
  BY <1>1 DEF C!Idle, ClientInv, ClientTyped, Rewritten
<1>3. OpTyped
  BY <1>1 DEF OpTyped
<1>4. HeardInOrder
  BY <1>1 DEF HeardInOrder, Running, C!Idle
<1>5. DownloadTyped
  BY DEF Init, D!Init, DownloadTyped
<1>6. Meaning
  BY <1>1, NotHeardMeans DEF Meaning
<1>7. AnswerInv
  <2>1. wire = <<>> /\ answer = C!Unanswered /\ rewrite = "status"
    BY <1>1 DEF C!Idle
  <2> QED
    BY <2>1, AnswersBegin
<1> QED
  BY <1>2, <1>3, <1>4, <1>5, <1>6, <1>7 DEF IInv, OpInv

LEMMA DownloadStepsKeep ==
    ASSUME IInv, EditProject \/ AskChunk \/ ExtractAndParse \/ BuildProject \/ Stop
    PROVE  IInv'
<1>1. UNCHANGED <<clientVars, opVars, i, chunk>>
  BY DEF EditProject, AskChunk, ExtractAndParse, BuildProject, Stop, D!EditProject,
         D!AskChunk, vars, downloadVars
<1>2. DownloadTyped'
  <2>1. project' \in Projects
    BY DEF IInv, DownloadTyped, EditProject, AskChunk, ExtractAndParse, BuildProject, Stop,
           D!EditProject, D!AskChunk, vars, downloadVars
  <2> QED
    BY <1>1, <2>1 DEF IInv, DownloadTyped
<1>3. UNCHANGED <<meant, chunk>> /\ UNCHANGED <<clientVars, meant>>
  BY <1>1 DEF opVars
<1> QED
  BY <1>1, <1>2, <1>3, UnchangedKeeps, OthersKeepAnswer DEF IInv

LEMMA BeginningsKeep ==
    ASSUME IInv, ChunkBegins \/ \E plan \in Plans : OperationBegins(plan)
    PROVE  IInv'
<1>1. /\ UNCHANGED clientVars /\ UNCHANGED <<i, project>> /\ UNCHANGED <<meant, chunk>>
      /\ UNCHANGED <<clientVars, meant>>
  BY DEF ChunkBegins, OperationBegins, downloadVars
<1>2. OpInv'
  <2>1. CASE ChunkBegins
    <3> DEFINE plan == <<[call |-> "readFile", index |-> i]>>
    <3>1. plan \in Seq(Calls) /\ plan # <<>>
      <4>1. [call |-> "readFile", index |-> i] \in Calls
        BY DEF IInv, DownloadTyped, Calls
      <4> QED
        BY <4>1
    <3>2. ~Running /\ Begin("chunk", plan) /\ heard' = <<>>
      BY <2>1 DEF ChunkBegins
    <3> HIDE DEF plan
    <3> QED
      BY <1>1, <3>1, <3>2, BeginKeeps DEF IInv
  <2>2. CASE \E plan \in Plans : OperationBegins(plan)
    <3>1. PICK plan \in Plans : OperationBegins(plan)
      BY <2>2
    <3>2. plan \in Seq(Calls)
      BY PlansAre
    <3>3. ~Running /\ Begin("command", plan) /\ heard' = <<>>
      BY <3>1 DEF OperationBegins
    <3> QED
      BY <1>1, <3>2, <3>3, BeginKeeps DEF IInv
  <2> QED
    BY <2>1, <2>2
<1> QED
  BY <1>1, <1>2, UnchangedKeeps, OthersKeepAnswer DEF IInv

LEMMA AnswersKeep ==
    ASSUME IInv, STMAnswersChunk \/ STMAnswersTelegram \/ STMAnswersInput
    PROVE  IInv'
<1>1. ASSUME NEW saying, Speaks(method, saying), Answer(saying)
      PROVE  ClientInv' /\ OpInv' /\ AnswerInv' /\ meant' = saying
  <2>1. saying.wire \in Seq(Symbol) /\ Opens(saying.wire)
    BY <1>1, SpeaksOpen
  <2>2. saying.wire # <<>>
    BY <2>1 DEF Opens
  <2>3. C!Respond(saying.wire) /\ meant' = saying
    BY <1>1 DEF Answer
  <2>4. ClientInv'
    BY <2>1, <2>3, RespondKeeps DEF IInv
  <2>5. OpInv'
    BY <1>1, <2>2, AnswerKeepsOrder DEF IInv
  <2>6. AnswerInv'
    BY <1>1, <2>3, RespondKeepsAnswer DEF IInv
  <2> QED
    BY <2>3, <2>4, <2>5, <2>6
<1>2. CASE STMAnswersChunk
  <2>1. PICK saying \in ChunkSayings(chunk') : Answer(saying)
    BY <1>2 DEF STMAnswersChunk
  <2>2. /\ chunk' \in D!Answers(project, i) /\ UNCHANGED <<i, project>>
        /\ method = "readFile"
    BY <1>2 DEF STMAnswersChunk, D!AnswerChunk
  <2>3. chunk' \in [cur : Int, total : Int, bin : Pieces]
    BY <2>2, AnswersTyped DEF IInv, DownloadTyped
  <2>4. PICK c : c = chunk'
    OBVIOUS
  <2>5. /\ Speaks("readFile", saying)
        /\ saying.result[1] = "chunk" => saying.result = <<"chunk", c>>
    BY <2>1, <2>3, <2>4, ChunksSpeak
  <2>6. ClientInv' /\ OpInv' /\ AnswerInv' /\ meant' = saying
    BY <1>1, <2>1, <2>2, <2>5
  <2>7. Meaning'
    BY <2>4, <2>5, <2>6 DEF Meaning
  <2> QED
    BY <2>2, <2>6, <2>7, UnchangedKeeps DEF IInv
<1>3. CASE STMAnswersTelegram \/ STMAnswersInput
  <2>1. PICK saying : /\ Speaks(method, saying) /\ saying.result[1] # "chunk"
                      /\ Answer(saying)
    <3>1. CASE STMAnswersTelegram
      <4>1. PICK saying \in TelegramSayings : Answer(saying)
        BY <3>1 DEF STMAnswersTelegram
      <4>2. Speaks("sendTelegram", saying) /\ saying.result[1] # "chunk"
        BY TelegramsSpeak
      <4>3. method = "sendTelegram"
        BY <3>1 DEF STMAnswersTelegram
      <4> QED
        BY <4>1, <4>2, <4>3
    <3>2. CASE STMAnswersInput
      <4>1. PICK saying \in InputSayings : Answer(saying)
        BY <3>2 DEF STMAnswersInput
      <4>2. Speaks("simInputEvent", saying) /\ saying.result[1] # "chunk"
        BY InputsSpeak
      <4>3. method = "simInputEvent"
        BY <3>2 DEF STMAnswersInput
      <4> QED
        BY <4>1, <4>2, <4>3
    <3> QED
      BY <1>3, <3>1, <3>2
  <2>2. ClientInv' /\ OpInv' /\ AnswerInv' /\ meant' = saying
    BY <1>1, <2>1
  <2>3. Meaning'
    BY <2>1, <2>2 DEF Meaning
  <2>4. UNCHANGED <<i, project>>
    BY <1>3 DEF STMAnswersTelegram, STMAnswersInput, downloadVars
  <2> QED
    BY <2>2, <2>3, <2>4, UnchangedKeeps DEF IInv
<1> QED
  BY <1>2, <1>3

LEMMA ConnectionKeeps ==
    ASSUME IInv, CallSTM \/ ClientStep \/ Timeout
    PROVE  IInv'
<1>1. /\ UNCHANGED opVars /\ UNCHANGED <<i, project>> /\ UNCHANGED <<meant, chunk>>
      /\ UNCHANGED meant
  BY DEF CallSTM, ClientStep, Timeout, downloadVars, opVars
<1>2. CASE CallSTM
  <2>1. PICK m : C!Call(m)
    BY <1>2 DEF CallSTM
  <2>2. ClientInv'
    BY <2>1, OtherClientStepsKeep DEF IInv
  <2>3. OpInv'
    BY <1>1, <1>2, <2>1, CallKeepsOrder DEF IInv, CallSTM
  <2>4. AnswerInv'
    BY <1>1, <2>1, OthersKeepAnswer DEF IInv
  <2> QED
    BY <1>1, <2>2, <2>3, <2>4, UnchangedKeeps DEF IInv
<1>3. CASE ClientStep
  <2>1. \/ C!Deliver \/ C!ReadStatusLine \/ C!ReadHeaderLine \/ C!RewriteFails
        \/ C!ReadBody
    BY <1>3 DEF ClientStep
  <2>2. ClientInv'
    BY <2>1, StatusLineKeeps, HeaderLineKeeps, OtherClientStepsKeep DEF IInv
  <2>3. OpInv'
    BY <1>1, <2>1, ReadingKeepsOrder DEF IInv
  <2>4. AnswerInv'
    BY <1>1, <2>1, ReadingKeepsAnswer DEF IInv
  <2> QED
    BY <1>1, <2>2, <2>3, <2>4, UnchangedKeeps DEF IInv
<1>4. CASE Timeout
  <2>1. C!Interrupt
    BY <1>4 DEF Timeout
  <2>2. ClientInv'
    BY <2>1, ClosedKeeps DEF C!Interrupt
  <2>3. OpInv'
    BY <1>1, <2>1, InterruptKeepsOrder DEF IInv
  <2>4. AnswerInv'
    BY <2>1, OthersKeepAnswer
  <2> QED
    BY <1>1, <2>2, <2>3, <2>4, UnchangedKeeps DEF IInv
<1> QED
  BY <1>2, <1>3, <1>4

LEMMA EndsKeep ==
    ASSUME IInv, ChunkArrives \/ ChunkFails \/ CommandCallReturns
    PROVE  IInv'
<1>1. Running /\ C!Returned /\ UNCHANGED heard /\ meant' = NotHeard
  BY DEF ChunkArrives, ChunkFails, CommandCallReturns
<1>2. ClientInv'
  BY <1>1, ClosedKeeps DEF C!Returned
<1>3. Meaning'
  BY <1>1, NotHeardMeans DEF Meaning
<1>4. OpInv'
  <2>1. CASE ChunkArrives
    <3>1. op.kind = "chunk" /\ answer[1] = "chunk" /\ OpEnds("ok")
      BY <2>1 DEF ChunkArrives
    <3> QED
      BY <1>1, <3>1, EndKeepsOrder DEF IInv
  <2>2. CASE ChunkFails
    <3>1. OpEnds("failed")
      BY <2>2 DEF ChunkFails
    <3> QED
      BY <1>1, <3>1, EndKeepsOrder DEF IInv
  <2>3. CASE CommandCallReturns
    <3>1. PICK status \in {"running", "ok", "failed"} :
            status = IF ~Succeeded THEN "failed"
                     ELSE IF op.done + 1 < Len(op.plan) THEN "running" ELSE "ok"
      OBVIOUS
    <3>2. OpEnds(status)
      BY <2>3, <3>1 DEF CommandCallReturns
    <3>3. status # "failed" => answer[1] \notin {"none", "error"}
      BY <3>1 DEF Succeeded
    <3>4. /\ status = "running" => op.done + 1 < Len(op.plan)
          /\ op.kind = "command" /\ status = "ok" => op.done + 1 >= Len(op.plan)
      <4>1. op.done + 1 \in Int /\ Len(op.plan) \in Int
        BY DEF IInv, OpInv, OpTyped
      <4> QED
        BY <3>1, <4>1
    <3> QED
      BY <1>1, <3>2, <3>3, <3>4, EndKeepsOrder DEF IInv
  <2> QED
    BY <2>1, <2>2, <2>3
<1>5. AnswerInv'
  BY <1>1, OthersKeepAnswer
<1>6. DownloadTyped'
  <2>1. i' \in {i, i + 1} /\ project' = project
    BY DEF ChunkArrives, ChunkFails, CommandCallReturns, D!TakeChunk, D!RefuseChunk,
           D!ReadFails, downloadVars
  <2> QED
    BY <2>1 DEF IInv, DownloadTyped
<1> QED
  BY <1>2, <1>3, <1>4, <1>5, <1>6 DEF IInv

LEMMA StepKeeps == IInv /\ [Next]_vars => IInv'
<1> SUFFICES ASSUME IInv, [Next]_vars PROVE IInv'
  OBVIOUS
<1>1. CASE UNCHANGED vars
  <2>1. UNCHANGED clientVars /\ UNCHANGED <<clientVars, opVars>> /\ UNCHANGED <<i, project>>
        /\ UNCHANGED <<meant, chunk>> /\ UNCHANGED <<clientVars, meant>>
    BY <1>1 DEF vars, downloadVars, opVars
  <2> QED
    BY <2>1, UnchangedKeeps, OthersKeepAnswer DEF IInv
<1>2. CASE Next
  BY <1>2, DownloadStepsKeep, BeginningsKeep, AnswersKeep, ConnectionKeeps, EndsKeep
     DEF Next
<1> QED
  BY <1>1, <1>2

LEMMA Invariance == FairSpec => []IInv
  BY InitHolds, StepKeeps, PTL DEF FairSpec

(* A connection reads no further than the response, and the operation and  *)
(* its calls have their types (transport.go, scheduler.go).                *)
THEOREM TypeCorrect == FairSpec => [](ClientTyped /\ OpTyped)
<1>1. IInv => ClientTyped /\ OpTyped
  BY DEF IInv, ClientInv, OpInv
<1> QED
  BY <1>1, Invariance, PTL

(* What net/http gets is what the STM sent but for a bare date line that   *)
(* comes first, and the client reports just that (transport.go:38).        *)
THEOREM OnlyTheKnownDefect == FairSpec => []OnlyTheDefectIsRemoved
<1>1. ASSUME IInv PROVE OnlyTheDefectIsRemoved
  <2> DEFINE defect == SubSeq(wire, 3, 4) = DateLine
             rest == SubSeq(out, 3, Len(out))
  <2> SUFFICES ASSUME rewrite = "serving"
               PROVE  /\ lastSanitized = defect
                      /\ SubSeq(wire, 1, taken) =
                           IF defect THEN SubSeq(out, 1, 2) \o DateLine \o rest ELSE out
    BY DEF OnlyTheDefectIsRemoved
  <2>1. /\ wire \in Seq(Symbol) /\ Len(wire) >= 4 /\ Len(wire) \in Nat
        /\ taken \in Nat /\ taken > 2 /\ taken <= Len(wire)
        /\ out \in Seq(Symbol) /\ Len(out) >= 2 /\ Len(out) \in Nat
        /\ taken = Len(out) + Skipped
        /\ \A k \in 1..2 : out[k] = wire[k]
        /\ \A k \in 3..Len(out) : out[k] = wire[k + Skipped]
        /\ lastSanitized = Defect
    BY <1>1 DEF IInv, ClientInv, ClientTyped, Rewritten, Opens
  <2>2. DateLine = <<C!BareDate, C!Newline>> /\ DateLine \in Seq(Symbol) /\ Len(DateLine) = 2
    BY HeadSymbols, LinesMade DEF DateLine
  <2>3. defect <=> Defect
    <3>1. SubSeq(wire, 3, 4) = <<wire[3], wire[4]>>
      <4> DEFINE two == SubSeq(wire, 3, 4)
      <4>1. two \in Seq(Symbol) /\ Len(two) = 2 /\ two[1] = wire[3] /\ two[2] = wire[4]
        BY <2>1
      <4>2. two = [k \in 1..2 |-> two[k]]
        BY <4>1
      <4> HIDE DEF two
      <4>3. two = <<wire[3], wire[4]>>
        BY <4>1, <4>2
      <4> QED
        BY <4>3 DEF two
    <3> QED
      BY <2>2, <3>1 DEF Defect
  <2>4. lastSanitized = defect
    BY <2>1, <2>3, Zenon
  <2> DEFINE read == SubSeq(wire, 1, taken)
  <2>5. /\ read \in Seq(Symbol) /\ Len(read) = taken
        /\ \A k \in 1..taken : read[k] = wire[k]
    BY <2>1
  <2> HIDE DEF read
  <2>6. CASE ~Defect
    <3>1. Skipped = 0
      BY <2>6 DEF Skipped
    <3>2. taken = Len(out) /\ \A k \in 1..Len(out) : out[k] = wire[k]
      BY <2>1, <3>1
    <3>3. read = out
      BY <2>1, <2>5, <3>2
    <3> QED
      BY <2>3, <2>4, <2>6, <3>3 DEF read
  <2>7. CASE Defect
    <3>1. Skipped = 2
      BY <2>7 DEF Skipped
    <3> DEFINE front == SubSeq(out, 1, 2)
    <3>2. /\ front \in Seq(Symbol) /\ Len(front) = 2 /\ \A k \in 1..2 : front[k] = wire[k]
          /\ rest \in Seq(Symbol) /\ Len(rest) = Len(out) - 2
          /\ \A k \in 1..Len(rest) : rest[k] = out[k + 2]
      <4>1. out \in Seq(Symbol) /\ Len(out) >= 2 /\ Len(out) \in Nat
        BY <2>1
      <4>2. front \in Seq(Symbol) /\ Len(front) = 2 /\ \A k \in 1..2 : front[k] = out[k]
        BY <4>1
      <4>3. /\ rest \in Seq(Symbol) /\ Len(rest) = Len(out) - 2
            /\ \A k \in 1..Len(rest) : rest[k] = out[k + 2]
        <5>1. 3 \in 1..(Len(out) + 1) /\ Len(out) - 3 + 1 = Len(out) - 2
          BY <4>1
        <5>2. /\ rest \in Seq(Symbol) /\ Len(rest) = Len(out) - 3 + 1
              /\ \A k \in 1..(Len(out) - 3 + 1) : rest[k] = out[3 + k - 1]
          BY <4>1, <5>1, FromOn
        <5>3. \A k \in 1..(Len(out) - 2) : 3 + k - 1 = k + 2
          OBVIOUS
        <5> HIDE DEF rest
        <5> QED
          BY <5>1, <5>2, <5>3
      <4>4. \A k \in 1..2 : front[k] = wire[k]
        BY <2>1, <4>2
      <4> QED
        BY <4>2, <4>3, <4>4
    <3>3. \A k \in 1..2 : DateLine[k] = wire[k + 2]
      BY <2>2, <2>7 DEF Defect
    <3> HIDE DEF front, rest, defect
    <3> DEFINE begin == front \o DateLine
    <3>4. /\ begin \in Seq(Symbol) /\ Len(begin) = 4
          /\ \A k \in 1..4 : begin[k] = wire[k]
      <4>1. /\ begin \in Seq(Symbol) /\ Len(begin) = Len(front) + Len(DateLine)
            /\ \A k \in 1..Len(front) : begin[k] = front[k]
            /\ \A k \in 1..Len(DateLine) : begin[Len(front) + k] = DateLine[k]
        <5>1. front \in Seq(Symbol) /\ DateLine \in Seq(Symbol)
          BY <2>2, <3>2
        <5> QED
          BY <5>1, Joined
      <4>2. begin[1] = wire[1] /\ begin[2] = wire[2]
        BY <3>2, <4>1
      <4>3. begin[2 + 1] = wire[1 + 2] /\ begin[2 + 2] = wire[2 + 2]
        BY <2>2, <3>2, <3>3, <4>1
      <4> HIDE DEF begin
      <4> QED
        BY <2>2, <3>2, <4>1, <4>2, <4>3
    <3> DEFINE all == begin \o rest
    <3> HIDE DEF begin
    <3>5. /\ all \in Seq(Symbol) /\ Len(all) = Len(begin) + Len(rest)
          /\ \A k \in 1..Len(begin) : all[k] = begin[k]
          /\ \A k \in 1..Len(rest) : all[Len(begin) + k] = rest[k]
      <4>1. begin \in Seq(Symbol) /\ rest \in Seq(Symbol)
        BY <3>2, <3>4
      <4> QED
        BY <4>1, Joined
    <3> HIDE DEF all
    <3>6. Len(all) = taken
      BY <2>1, <3>1, <3>2, <3>4, <3>5
    <3>7. ASSUME NEW k \in 1..taken PROVE all[k] = wire[k]
      <4>1. CASE k <= 4
        BY <3>4, <3>5, <4>1
      <4>2. CASE k > 4
        <5>1. /\ k - 4 \in 1..Len(rest) /\ k - 2 \in 3..Len(out) /\ 4 + (k - 4) = k
              /\ (k - 4) + 2 = k - 2 /\ (k - 2) + Skipped = k
          BY <2>1, <3>1, <3>2, <4>2
        <5>2. all[4 + (k - 4)] = rest[k - 4]
          BY <3>4, <3>5, <5>1
        <5>3. rest[k - 4] = out[(k - 4) + 2]
          BY <3>2, <5>1
        <5>4. out[k - 2] = wire[(k - 2) + Skipped]
          BY <2>1, <5>1
        <5> QED
          BY <5>1, <5>2, <5>3, <5>4
      <4> QED
        BY <4>1, <4>2
    <3>8. read = all
      <4>1. all \in Seq(Symbol)
        BY <3>5
      <4> QED
        BY <2>5, <3>6, <3>7, <4>1
    <3>9. read = front \o DateLine \o rest
      BY <3>8 DEF all, begin
    <3> QED
      BY <2>3, <2>4, <2>7, <3>9 DEF read, front
  <2> QED
    BY <2>6, <2>7
<1> QED
  BY <1>1, Invariance, PTL

(* The STM executes the calls of a command in order, none of them twice    *)
(* and nothing in between, and all of them when the command is reported as *)
(* done (commands.go:139).                                                 *)
THEOREM CommandsRunInOrder == FairSpec => []PlansRunInOrder
<1>1. ASSUME IInv PROVE PlansRunInOrder
  <2>1. /\ heard \in Seq(Calls) /\ op.plan \in Seq(Calls)
        /\ Len(heard) \in Nat /\ Len(op.plan) \in Nat /\ Len(heard) <= Len(op.plan)
        /\ \A k \in 1..Len(heard) : heard[k] = op.plan[k]
    BY <1>1 DEF IInv, OpInv, OpTyped, HeardInOrder
  <2>2. C!IsPrefix(heard, op.plan)
    <3>1. /\ SubSeq(heard, 1, Len(heard)) \in Seq(Calls)
          /\ Len(SubSeq(heard, 1, Len(heard))) = Len(heard)
          /\ \A k \in 1..Len(heard) : SubSeq(heard, 1, Len(heard))[k] = heard[k]
      BY <2>1
    <3>2. /\ SubSeq(op.plan, 1, Len(heard)) \in Seq(Calls)
          /\ Len(SubSeq(op.plan, 1, Len(heard))) = Len(heard)
          /\ \A k \in 1..Len(heard) : SubSeq(op.plan, 1, Len(heard))[k] = op.plan[k]
      BY <2>1
    <3>3. SubSeq(heard, 1, Len(heard)) = SubSeq(op.plan, 1, Len(heard))
      BY <2>1, <3>1, <3>2
    <3> QED
      BY <2>1, <3>3 DEF C!IsPrefix
  <2>3. ASSUME op.kind = "command", op.status = "ok" PROVE heard = op.plan
    <3>1. Len(heard) = Len(op.plan)
      BY <1>1, <2>3 DEF IInv, OpInv, HeardInOrder
    <3> QED
      BY <2>1, <3>1
  <2> QED
    BY <2>2, <2>3 DEF PlansRunInOrder
<1> QED
  BY <1>1, Invariance, PTL

(* What a call returns without an error is what the STM meant, in whatever *)
(* pieces the response came and wherever the connection broke (client.go,  *)
(* transport.go, xmlrpc.go).                                               *)
THEOREM CallsReturnWhatWasMeant == FairSpec => []AnswersAreTrue
<1>1. IInv => AnswersAreTrue
  BY DEF IInv, AnswerInv
<1> QED
  BY <1>1, Invariance, PTL

(* A response with the one known defect, or with none, that came to its    *)
(* end is read: the fix works however TCP splits it (transport.go:43).     *)
THEOREM SoundResponsesAreRead == FairSpec => []GoodResponsesAreRead
<1>1. IInv => GoodResponsesAreRead
  BY DEF IInv, AnswerInv
<1> QED
  BY <1>1, Invariance, PTL

-----------------------------------------------------------------------------
(* The download.                                                           *)

(* A chunk that arrives is the one the STM sent.                           *)
LEMMA ArrivesAsSent ==
    ASSUME IInv, ChunkArrives
    PROVE  D!TakeChunk(chunk) \/ D!RefuseChunk(chunk)
<1>1. answer[1] = "chunk" /\ (D!TakeChunk(answer[2]) \/ D!RefuseChunk(answer[2]))
  BY DEF ChunkArrives
<1>2. answer = meant.result
  BY <1>1 DEF IInv, AnswerInv, AnswersAreTrue
<1>3. answer = <<"chunk", chunk>>
  BY <1>1, <1>2 DEF IInv, Meaning
<1>4. answer[2] = chunk
  BY <1>3
<1> QED
  BY <1>1, <1>4

LEMMA StepIsDownloadStep ==
    ASSUME IInv, [Next]_vars
    PROVE  [D!Next]_D!vars
<1>1. UNCHANGED downloadVars => UNCHANGED D!vars
  BY DEF downloadVars, D!vars
<1>2. CASE EditProject \/ AskChunk \/ STMAnswersChunk \/ ChunkFails
  BY <1>2 DEF EditProject, AskChunk, STMAnswersChunk, ChunkFails, D!Next
<1>3. CASE ChunkArrives
  BY <1>3, ArrivesAsSent DEF D!Next
<1>4. CASE \/ ChunkBegins \/ \E plan \in Plans : OperationBegins(plan)
           \/ CallSTM \/ STMAnswersTelegram \/ STMAnswersInput \/ ClientStep \/ Timeout
           \/ CommandCallReturns \/ ExtractAndParse \/ BuildProject \/ Stop
           \/ UNCHANGED vars
  <2>1. UNCHANGED downloadVars
    BY <1>4 DEF ChunkBegins, OperationBegins, CallSTM, STMAnswersTelegram, STMAnswersInput,
                ClientStep, Timeout, CommandCallReturns, ExtractAndParse, BuildProject,
                Stop, vars
  <2> QED
    BY <1>1, <2>1
<1> QED
  BY <1>2, <1>3, <1>4 DEF Next

(* Chunk by chunk over such a client, with other operations in between and *)
(* the project changing, the download is the one of Download.tla.          *)
THEOREM DownloadImplemented == FairSpec => ImplementsDownload
<1>1. Init => D!Init
  BY DEF Init
<1> QED
  BY <1>1, Invariance, StepIsDownloadStep, PTL DEF FairSpec, ImplementsDownload, D!Spec

(* It is the one the theorems about downloads are about.                   *)
LEMMA SameDownload ==
    /\ D!Init => DP!Init
    /\ [D!Next]_D!vars => [DP!Next]_DP!vars
    /\ DP!LoadedWasThere => LoadedWasThere
    /\ DP!PiecesInPlace => PiecesInPlace
<1>1. D!Init => DP!Init
  BY DEF D!Init, DP!Init, D!NoChunk, DP!NoChunk
<1>2. ASSUME NEW c PROVE (D!TakeChunk(c) => DP!TakeChunk(c)) /\ (D!RefuseChunk(c) => DP!RefuseChunk(c))
  BY DEF D!TakeChunk, DP!TakeChunk, D!RefuseChunk, DP!RefuseChunk, D!Accepts, DP!Accepts,
         D!NoChunk, DP!NoChunk
<1>3. D!EditProject \/ D!AskChunk \/ D!AnswerChunk \/ D!ReadFails =>
          DP!EditProject \/ DP!AskChunk \/ DP!AnswerChunk \/ DP!ReadFails
  BY DEF D!EditProject, DP!EditProject, D!AskChunk, DP!AskChunk, D!AnswerChunk,
         DP!AnswerChunk, D!Answers, DP!Answers, D!ReadFails, DP!ReadFails, D!NoChunk,
         DP!NoChunk
<1>4. D!vars = DP!vars /\ (UNCHANGED D!vars => UNCHANGED DP!vars)
  BY DEF D!vars, DP!vars
<1>5. [D!Next]_D!vars => [DP!Next]_DP!vars
  BY <1>2, <1>3, <1>4 DEF D!Next, DP!Next
<1>6. DP!LoadedWasThere => LoadedWasThere
  BY DEF DP!LoadedWasThere, LoadedWasThere, D!LoadedWasThere
<1>7. DP!PiecesInPlace => PiecesInPlace
  BY DEF DP!PiecesInPlace, PiecesInPlace, D!PiecesInPlace
<1> QED
  BY <1>1, <1>5, <1>6, <1>7

(* So what holds of every download holds of this one: the project that was *)
(* loaded was in the STM, whole, at some moment of it (main.go:86).        *)
THEOREM WhatWasLoadedWasThere == FairSpec => []LoadedWasThere
<1>1. DP!Spec => []DP!LoadedWasThere
  BY DP!NoMixedProject, ProjectsAssumption, LimitsAssumption, CentralDirectoryAssumption
     DEF DP!Pieces, Pieces
<1> QED
  BY <1>1, DownloadImplemented, SameDownload, PTL
     DEF ImplementsDownload, D!Spec, DP!Spec

(* And its pieces are in place: each was that chunk of a project the STM   *)
(* had while it was downloaded (download.go:56).                           *)
THEOREM EveryPieceInPlace == FairSpec => []PiecesInPlace
<1>1. DP!Spec => []DP!PiecesInPlace
  BY DP!WholeAndInOrder, ProjectsAssumption, LimitsAssumption, CentralDirectoryAssumption
     DEF DP!Pieces, Pieces
<1> QED
  BY <1>1, DownloadImplemented, SameDownload, PTL
     DEF ImplementsDownload, D!Spec, DP!Spec
=============================================================================
