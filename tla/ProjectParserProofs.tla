------------------------- MODULE ProjectParserProofs -------------------------
(***************************************************************************)
(* What buildProject makes of any channels and tools that the collectors   *)
(* return, in any order of the motor channels: which devices there are     *)
(* after each turn of each loop, what has been taken by then, and why a    *)
(* device may be refused.                                                  *)
(***************************************************************************)
EXTENDS ProjectLoad, WellFoundedInduction, FiniteSetTheorems, TLAPS

InputRefs == {"emd"} \X Int \X Int
OutputRefs == {"amd"} \X Int \X Int

(* A sequence, of whatever it holds.                                       *)
IsSeq(s) == s \in Seq({s[k] : k \in 1..Len(s)})

Collected ==
    /\ IsSeq(channels) /\ IsSeq(actions)
    /\ \A k \in 1..Len(channels) : channels[k].dip \in Int /\ channels[k].channel \in Int
    /\ \A k \in 1..Len(actions) : actions[k].ref \in {"emd"} \X Nat \X Nat

Loops == {"idle", "unreadable", "outputs", "motors", "pairs", "scenes", "buttons",
          "tools", "done", "failed"}

-----------------------------------------------------------------------------
(* Motor channels: each in the map of its direction, at the key made of    *)
(* its text.                                                               *)

Label(c) == P!Parts(c.text).label
MotorKey(c) == [P!Parts(c.text) EXCEPT !.label = P!BaseLabel(Label(c))]
IsMotor(c) == P!IsInputChannel(c) /\ P!KindOf(P!Parts(c.text).category) = "shutter"
Leads(j, key, input) == key = MotorKey(channels[j]) /\ input = P!Input(channels[j])
Motors(inputs, downwards) ==
    \A key \in DOMAIN inputs : \E j \in P!Channels :
        /\ IsMotor(channels[j]) /\ P!IsDown(Label(channels[j])) = downwards
        /\ Leads(j, key, inputs[key])

-----------------------------------------------------------------------------
(* The devices with an input that each loop makes, up to the given turn.   *)

Shutter(key) == P!Device("shutter", key, down[key], up[key])
Scene(c) == P!Device("scene", P!Parts(c.text), P!Input(c), NoInput)
Button(c) == P!Device("button", P!Parts(c.text), P!Input(c), NoInput)
ToolDevice(a) == P!Device("scene", a, a.ref, NoInput)

RefsOf(devices) == UNION {P!Refs(d) : d \in devices}
ShuttersOf(keys) == {Shutter(key) : key \in keys}
IsScene(c) == P!IsVirtual(c) /\ P!KindOf(P!Parts(c.text).category) # "shutter"
ScenesUpTo(m) == {Scene(channels[k]) : k \in {j \in P!Channels : j < m /\ IsScene(channels[j])}}
IsButton(j) ==
    /\ P!IsInputChannel(channels[j]) /\ P!Input(channels[j]) \notin P!Taken
    /\ \A i_ \in P!Channels : i_ < j /\ P!IsInputChannel(channels[i_])
         => P!Input(channels[i_]) # P!Input(channels[j])
ButtonsUpTo(m) == {Button(channels[k]) : k \in {j \in P!Channels : j < m /\ IsButton(j)}}
ChannelDevices == P!Pairs \cup P!Scenes \cup P!Buttons
ToolsUpTo(m) ==
    {ToolDevice(actions[k]) : k \in {j \in 1..Len(actions) :
                                 j < m /\ actions[j].ref \notin RefsOf(ChannelDevices)}}
AllDevices == ChannelDevices \cup ToolsUpTo(Len(actions) + 1)

(* Those that have been made.                                              *)
WithInput == {added[k] : k \in {j \in 1..Len(added) : added[j].ref[1] = "emd"}}

-----------------------------------------------------------------------------
(* The inductive invariant.                                                *)

Typed ==
    /\ loop \in Loops /\ n \in Nat /\ n >= 1 /\ IsSeq(added)
    /\ loop = "idle" => P!NothingParsed
    /\ loop = "pairs" => n = 1

(* No two devices have one identity, and what has an output needs no       *)
(* second address.                                                         *)
Distinct ==
    \A j, k \in 1..Len(added) : j # k => added[j].ref # added[k].ref
OnOutputs ==
    \A k \in 1..Len(added) :
        \/ added[k].ref[1] = "emd"
        \/ /\ added[k].ref[1] = "amd" /\ added[k].upRef = NoInput
           /\ \E j \in P!Channels : /\ loop = "outputs" => j < n
                                   /\ ~P!IsInputLike(channels[j])
                                   /\ added[k].ref = P!Output(channels[j])

MotorsKnown == Motors(down, TRUE) /\ Motors(up, FALSE)
Made ==
    /\ WithInput \subseteq AllDevices
    /\ loop \in {"idle", "unreadable", "outputs", "motors"} => WithInput = {}
    /\ loop = "outputs" => down = <<>> /\ up = <<>>
    /\ loop = "pairs" => /\ unpaired \subseteq DOMAIN down
                         /\ WithInput = ShuttersOf((DOMAIN down \cap DOMAIN up) \ unpaired)
    /\ loop = "scenes" => WithInput = P!Pairs \cup ScenesUpTo(n)
    /\ loop = "buttons" => WithInput = P!Pairs \cup P!Scenes \cup ButtonsUpTo(n)
    /\ loop \in {"tools", "done"} => WithInput = ChannelDevices \cup ToolsUpTo(n)
    /\ loop = "done" => n > Len(actions)
Taken ==
    /\ loop \in {"idle", "outputs", "motors", "pairs", "scenes", "buttons"} =>
         represented = RefsOf(WithInput)
    /\ loop \in {"tools", "done"} => represented = RefsOf(ChannelDevices)
    /\ loop = "buttons" => \A k \in P!Channels :
         k < n /\ P!IsInputChannel(channels[k]) => P!Input(channels[k]) \in represented
    /\ loop \in {"tools", "done"} => \A k \in P!Channels :
         P!IsInputChannel(channels[k]) => P!Input(channels[k]) \in represented

BuildInv ==
    /\ Collected /\ Typed /\ Distinct /\ OnOutputs /\ MotorsKnown /\ Made /\ Taken
    /\ RefusedOnlyForConflicts

-----------------------------------------------------------------------------
(* Sequences and steps over them.                                          *)

LEMMA SeqIsSeq ==
    ASSUME NEW S, NEW s \in Seq(S)
    PROVE  IsSeq(s)
<1> DEFINE range == {s[k] : k \in 1..Len(s)}
<1>1. Len(s) \in Nat /\ s = [k \in 1..Len(s) |-> s[k]]
  OBVIOUS
<1>2. \A k \in 1..Len(s) : s[k] \in range
  OBVIOUS
<1>3. s \in [1..Len(s) -> range]
  BY <1>1, <1>2
<1> HIDE DEF range
<1>4. s \in Seq(range)
  BY <1>1, <1>3
<1> QED
  BY <1>4 DEF IsSeq, range

LEMMA Appended ==
    ASSUME NEW s, IsSeq(s), NEW e
    PROVE  /\ IsSeq(Append(s, e)) /\ Len(s) \in Nat /\ Len(Append(s, e)) = Len(s) + 1
           /\ \A k \in 1..Len(s) : Append(s, e)[k] = s[k]
           /\ Append(s, e)[Len(s) + 1] = e
<1> DEFINE S == {s[k] : k \in 1..Len(s)} \cup {e}
<1>1. s \in Seq({s[k] : k \in 1..Len(s)})
  BY DEF IsSeq
<1>2. {s[k] : k \in 1..Len(s)} \subseteq S /\ e \in S
  OBVIOUS
<1>3. s \in Seq(S)
  <2> DEFINE range == {s[k] : k \in 1..Len(s)}
  <2>1. s \in Seq(range) /\ range \subseteq S
    BY <1>1, <1>2
  <2> HIDE DEF range, S
  <2> QED
    BY <2>1
<1> HIDE DEF S
<1>4. Append(s, e) \in Seq(S)
  BY <1>2, <1>3
<1>5. IsSeq(Append(s, e))
  BY <1>4, SeqIsSeq
<1> QED
  BY <1>2, <1>3, <1>5

LEMMA LeastOf ==
    ASSUME NEW T \in SUBSET Nat, T # {}
    PROVE  \E x \in T : \A y \in T : x <= y
<1> DEFINE Less == {p \in Nat \X Nat : p[1] < p[2]}
<1>1. IsWellFoundedOn(Less, Nat)
  BY NatLessThanWellFounded DEF OpToRel
<1> HIDE DEF Less
<1>2. PICK x \in T : \A y \in T : <<y, x>> \notin Less
  BY <1>1, WFMin
<1>3. \A y \in T : y < x => <<y, x>> \in Less
  BY DEF Less
<1>4. ASSUME NEW y \in T PROVE x <= y
  <2>1. x \in Nat /\ y \in Nat
    OBVIOUS
  <2>2. ~(y < x)
    BY <1>2, <1>3
  <2> QED
    BY <2>1, <2>2
<1> QED
  BY <1>4

(* What holds at first and is kept from each place to the next holds all   *)
(* along.                                                                  *)
LEMMA StaysIn ==
    ASSUME NEW S, NEW last \in Nat, NEW f, f[0] \in S,
           \A k \in 1..last : f[k - 1] \in S => f[k] \in S
    PROVE  \A k \in 0..last : f[k] \in S
<1> DEFINE Out == {k \in 0..last : f[k] \notin S}
<1> SUFFICES ASSUME Out # {} PROVE FALSE
  OBVIOUS
<1>1. PICK k \in Out : \A j \in Out : k <= j
  <2>1. Out \in SUBSET Nat
    OBVIOUS
  <2> HIDE DEF Out
  <2> QED
    BY <2>1, LeastOf
<1>2. k \in 1..last /\ k - 1 \in 0..last /\ ~(k <= k - 1)
  OBVIOUS
<1>3. k - 1 \notin Out
  <2> HIDE DEF Out
  <2> QED
    BY <1>1, <1>2
<1>4. f[k - 1] \in S
  BY <1>2, <1>3
<1> QED
  BY <1>2, <1>4

(* A step for each element of a file can be taken to its end.              *)
Steps(f, step, file, b) ==
    f[0] = b /\ \A k \in 1..Len(file) : f[k] = step[<<f[k - 1], file[k]>>]

LEMMA StepsExist ==
    ASSUME NEW S, NEW E, NEW step \in [S \X E -> S], NEW file \in Seq(E), NEW b \in S
    PROVE  \E f \in [0..Len(file) -> S] : Steps(f, step, file, b)
<1> DEFINE Upto(f, last) ==
             /\ f \in [0..last -> S] /\ f[0] = b
             /\ \A k \in 1..last : f[k] = step[<<f[k - 1], file[k]>>]
           Missing == {last \in 0..Len(file) : ~\E f : Upto(f, last)}
<1> SUFFICES ASSUME Missing # {} PROVE FALSE
  <2>1. Len(file) \in 0..Len(file)
    OBVIOUS
  <2> QED
    BY <2>1 DEF Steps
<1>1. PICK last \in Missing : \A other \in Missing : last <= other
  <2>1. Missing \in SUBSET Nat
    OBVIOUS
  <2> HIDE DEF Missing
  <2> QED
    BY <2>1, LeastOf
<1>2. last \in 0..Len(file) /\ ~\E f : Upto(f, last)
  OBVIOUS
<1>3. last # 0
  <2> SUFFICES ASSUME last = 0 PROVE FALSE
    OBVIOUS
  <2> DEFINE f == [k \in 0..0 |-> b]
  <2>1. Upto(f, 0)
    OBVIOUS
  <2> QED
    BY <1>2, <2>1
<1>4. last - 1 \in 0..Len(file) /\ last - 1 \notin Missing
  <2>1. last - 1 \in 0..Len(file) /\ ~(last <= last - 1)
    BY <1>2, <1>3
  <2> HIDE DEF Missing
  <2> QED
    BY <1>1, <2>1
<1>5. PICK g : Upto(g, last - 1)
  BY <1>4
<1> DEFINE e == step[<<g[last - 1], file[last]>>]
           f == [k \in 0..last |-> IF k = last THEN e ELSE g[k]]
<1>6. e \in S
  <2>1. g[last - 1] \in S /\ file[last] \in E
    BY <1>2, <1>3, <1>5
  <2> QED
    BY <2>1
<1>7. f \in [0..last -> S] /\ f[0] = b
  <2>1. \A k \in 0..last : k # last => k \in 0..(last - 1)
    BY <1>2
  <2> QED
    BY <1>2, <1>3, <1>5, <1>6, <2>1
<1>8. ASSUME NEW k \in 1..last PROVE f[k] = step[<<f[k - 1], file[k]>>]
  <2>1. k \in 0..last /\ k - 1 \in 0..last /\ k - 1 # last /\ f[k - 1] = g[k - 1]
    BY <1>2
  <2>2. CASE k = last
    BY <2>1, <2>2
  <2>3. CASE k # last
    <3>1. k \in 1..(last - 1) /\ f[k] = g[k]
      BY <1>2, <2>1, <2>3
    <3> QED
      BY <1>5, <2>1, <3>1
  <2> QED
    BY <2>2, <2>3
<1> HIDE DEF f
<1> QED
  BY <1>2, <1>7, <1>8

-----------------------------------------------------------------------------
(* What the collectors return.                                             *)

Name == STRING \cup {"none"}
Channel == [group : Name, module : Name, dip : Int, channelGroup : Name,
            channel : Int, text : P!Texts]
Hardware == [groups : Seq(Name), group : Name, module : Name, dip : Int,
             channelGroup : Name, found : Seq(Channel), failed : BOOLEAN]

LEMMA NamesAre == "none" \in Name /\ \A name \in STRING : name \in Name
  BY DEF Name

LEMMA FrontKeeps ==
    ASSUME NEW S, NEW s \in Seq(S), s # <<>>
    PROVE  P!Last(s) \in S /\ P!Front(s) \in Seq(S)
<1>1. Len(s) \in Nat /\ Len(s) >= 1
  OBVIOUS
<1> QED
  BY <1>1 DEF P!Last, P!Front

LEMMA GroupEndsKeeps == ASSUME NEW c \in Hardware PROVE P!GroupEnds(c) \in Hardware
<1>1. CASE c.groups = <<>>
  <2>1. P!GroupEnds(c) = [c EXCEPT !.group = "none"]
    BY <1>1 DEF P!GroupEnds
  <2> QED
    BY <2>1, NamesAre DEF Hardware
<1>2. CASE c.groups # <<>>
  <2>1. P!Last(c.groups) \in Name /\ P!Front(c.groups) \in Seq(Name)
    BY <1>2, FrontKeeps DEF Hardware
  <2>2. P!GroupEnds(c) = [c EXCEPT !.group = P!Last(c.groups), !.groups = P!Front(c.groups)]
    BY <1>2 DEF P!GroupEnds
  <2> QED
    BY <2>1, <2>2 DEF Hardware
<1> QED
  BY <1>1, <1>2

LEMMA VisibleKeeps ==
    ASSUME NEW c \in Hardware,
           NEW e \in [is : {"CHA"}, visu : BOOLEAN, adr : Int, text : P!Texts]
    PROVE  P!Visible(c, e) \in Hardware
<1> DEFINE channel == [group |-> c.group, module |-> c.module, dip |-> c.dip,
                       channelGroup |-> c.channelGroup, channel |-> e.adr,
                       text |-> e.text]
<1>1. channel \in Channel
  BY DEF Hardware, Channel
<1> HIDE DEF channel
<1>2. Append(c.found, channel) \in Seq(Channel)
  BY <1>1 DEF Hardware
<1>3. [c EXCEPT !.failed = TRUE] \in Hardware
  BY DEF Hardware
<1>4. [c EXCEPT !.found = Append(@, channel)] \in Hardware
  BY <1>2 DEF Hardware
<1> QED
  BY <1>3, <1>4 DEF P!Visible, channel

LEMMA PPFXKeeps ==
    ASSUME NEW c \in Hardware, NEW e \in P!PPFXElements
    PROVE  P!PPFXElement(c, e) \in Hardware
<1> SUFFICES ASSUME ~c.failed PROVE P!PPFXElement(c, e) \in Hardware
  BY DEF P!PPFXElement
<1>1. CASE e \in [is : {"MODS", "CHAS"}, grp : STRING]
  <2>1. CASE e.is = "MODS"
    <3>1. P!PPFXElement(c, e) = [c EXCEPT !.groups = Append(@, c.group), !.group = e.grp]
      BY <2>1 DEF P!PPFXElement
    <3>2. e.grp \in Name
      BY <1>1, NamesAre
    <3>3. Append(c.groups, c.group) \in Seq(Name)
      BY DEF Hardware
    <3> QED
      BY <3>1, <3>2, <3>3 DEF Hardware
  <2>2. CASE e.is = "CHAS"
    <3>1. P!PPFXElement(c, e) = [c EXCEPT !.channelGroup = e.grp]
      BY <2>2 DEF P!PPFXElement
    <3>2. e.grp \in Name
      BY <1>1, NamesAre
    <3> QED
      BY <3>1, <3>2 DEF Hardware
  <2> QED
    BY <1>1, <2>1, <2>2
<1>2. CASE e \in [is : {"/MODS", "/MOD", "/CHAS", "malformed"}]
  <2>1. CASE e.is = "/MODS"
    BY <2>1, GroupEndsKeeps DEF P!PPFXElement
  <2>2. CASE e.is = "/MOD"
    <3>1. P!PPFXElement(c, e) = [c EXCEPT !.module = "none", !.dip = -1]
      BY <2>2 DEF P!PPFXElement
    <3>2. -1 \in Int /\ "none" \in Name
      BY NamesAre
    <3> QED
      BY <3>1, <3>2 DEF Hardware
  <2>3. CASE e.is = "/CHAS"
    <3>1. P!PPFXElement(c, e) = [c EXCEPT !.channelGroup = "none"]
      BY <2>3 DEF P!PPFXElement
    <3> QED
      BY <3>1, NamesAre DEF Hardware
  <2>4. CASE e.is = "malformed"
    <3>1. P!PPFXElement(c, e) = [c EXCEPT !.failed = TRUE]
      BY <2>4 DEF P!PPFXElement
    <3> QED
      BY <3>1 DEF Hardware
  <2> QED
    BY <1>2, <2>1, <2>2, <2>3, <2>4
<1>3. CASE e \in [is : {"MOD"}, name : STRING, adr : Int]
  <2>1. e.is = "MOD" /\ e.name \in Name /\ e.adr \in Int
    BY <1>3, NamesAre
  <2>2. P!PPFXElement(c, e) = [c EXCEPT !.module = e.name, !.dip = e.adr]
    BY <2>1 DEF P!PPFXElement
  <2> QED
    BY <2>1, <2>2 DEF Hardware
<1>4. CASE e \in [is : {"CHA"}, visu : BOOLEAN, adr : Int, text : P!Texts]
  <2>1. e.is = "CHA"
    BY <1>4
  <2>2. P!PPFXElement(c, e) = P!Visible(c, e)
    BY <2>1 DEF P!PPFXElement
  <2> QED
    BY <1>4, <2>2, VisibleKeeps
<1> QED
  BY <1>1, <1>2, <1>3, <1>4 DEF P!PPFXElements

LEMMA HardwareCollected ==
    ASSUME NEW file \in Seq(P!PPFXElements)
    PROVE  P!CollectPPFX(file) \in Hardware
<1> DEFINE b == [groups |-> <<>>, group |-> "none", module |-> "none", dip |-> -1,
                 channelGroup |-> "none", found |-> <<>>,
                 failed |-> file = <<>> \/ Len(file) > MaxFile]
           step == [p \in Hardware \X P!PPFXElements |-> P!PPFXElement(p[1], p[2])]
           Collects(f) == f = [k \in 0..Len(file) |-> IF k = 0 THEN b
                                                   ELSE P!PPFXElement(f[k - 1], file[k])]
<1>1. b \in Hardware
  <2>1. (file = <<>> \/ Len(file) > MaxFile) \in BOOLEAN
    OBVIOUS
  <2> QED
    BY <2>1, NamesAre DEF Hardware
<1>2. step \in [Hardware \X P!PPFXElements -> Hardware]
  BY PPFXKeeps
<1>3. \A c \in Hardware, e \in P!PPFXElements : step[<<c, e>>] = P!PPFXElement(c, e)
  OBVIOUS
<1>4. P!CollectPPFX(file) = (CHOOSE f : Collects(f))[Len(file)]
  BY DEF P!CollectPPFX
<1> HIDE DEF b, step
<1>5. PICK f \in [0..Len(file) -> Hardware] : Steps(f, step, file, b)
  BY <1>1, <1>2, StepsExist
<1>6. ASSUME NEW k \in 0..Len(file)
      PROVE  f[k] = IF k = 0 THEN b ELSE P!PPFXElement(f[k - 1], file[k])
  <2> SUFFICES ASSUME k # 0 PROVE f[k] = P!PPFXElement(f[k - 1], file[k])
    BY <1>5 DEF Steps
  <2>1. k \in 1..Len(file) /\ k - 1 \in 0..Len(file)
    OBVIOUS
  <2>2. f[k - 1] \in Hardware /\ file[k] \in P!PPFXElements
    BY <2>1
  <2> QED
    BY <1>3, <1>5, <2>1, <2>2 DEF Steps
<1>7. Collects(f)
  BY <1>6
<1>8. ASSUME NEW g, Collects(g) PROVE g[Len(file)] \in Hardware
  <2>1. Len(file) \in Nat /\ Len(file) \in 0..Len(file) /\ 0 \in 0..Len(file)
    OBVIOUS
  <2>2. g[0] \in Hardware
    BY <1>1, <1>8, <2>1
  <2>3. ASSUME NEW k \in 1..Len(file), g[k - 1] \in Hardware PROVE g[k] \in Hardware
    <3>1. k \in 0..Len(file) /\ k # 0 /\ file[k] \in P!PPFXElements
      OBVIOUS
    <3>2. g[k] = P!PPFXElement(g[k - 1], file[k])
      BY <1>8, <3>1
    <3> QED
      BY <2>3, <3>1, <3>2, PPFXKeeps
  <2> QED
    BY <2>1, <2>2, <2>3, StaysIn
<1>9. Collects(CHOOSE g : Collects(g))
  BY <1>7
<1> QED
  BY <1>4, <1>8, <1>9

Letters == DOMAIN Code \cup {"Panic", "Presence", "Security", "Automation"}
Words == Seq(Letters)
ToolRefs == {"emd"} \X Nat \X Nat
Candidate == [index : Int, ref : ToolRefs, isPushButton : BOOLEAN]
Action == [sort : {0, 90}, floor : Words, category : Words, label : Words,
           ref : ToolRefs]
Tools == [locations : Seq(Words), pushed : Seq(BOOLEAN),
          tool : [is : {"TOOL"}, words : SUBSET STRING, bez : P!Texts,
                  name : P!Texts, enabled : BOOLEAN] \cup {P!NoElement},
          node : [is : {"NODE"}, isInput : BOOLEAN, index : Int,
                  isPushButton : BOOLEAN] \cup {P!NoElement},
          candidates : Seq(Candidate), actions : Seq(Action), failed : BOOLEAN]

LEMMA TextsAreWords == \A text \in P!Texts : text \in Words
<1> DEFINE known == DOMAIN Code
<1>1. known \subseteq Letters
  BY DEF Letters
<1> HIDE DEF known
<1>2. \A text \in Seq(known) : text \in Seq(Letters)
  BY <1>1
<1> QED
  BY <1>2 DEF P!Texts, Words, known

(* Of any candidates one is preferred to all the others.                   *)
LEMMA PreferredIsOne ==
    ASSUME NEW s \in Seq(Candidate), s # <<>>
    PROVE  P!Preferred(s) \in Candidate
<1> DEFINE Class(k) == IF s[k].isPushButton THEN 0 ELSE 1
           Above(k, j) == \/ Class(k) < Class(j)
                          \/ Class(k) = Class(j) /\ s[k].index < s[j].index
                          \/ Class(k) = Class(j) /\ s[k].index = s[j].index /\ k < j
           Best(k, last) == k \in 1..last /\ \A j \in 1..last : j # k => Above(k, j)
           Missing == {last \in 1..Len(s) : ~\E k \in 1..last : Best(k, last)}
<1>1. Len(s) \in Nat /\ Len(s) >= 1 /\ DOMAIN s = 1..Len(s)
  OBVIOUS
<1>2. \A k \in 1..Len(s) : s[k].index \in Int /\ Class(k) \in {0, 1}
  <2>1. \A k \in 1..Len(s) : s[k] \in Candidate
    OBVIOUS
  <2> QED
    BY <2>1 DEF Candidate
<1>3. ASSUME NEW j \in 1..Len(s), NEW k \in 1..Len(s), j # k PROVE Above(j, k) \/ Above(k, j)
  BY <1>2, <1>3
<1>4. ASSUME NEW j \in 1..Len(s), NEW k \in 1..Len(s), NEW m \in 1..Len(s),
             Above(j, k), Above(k, m)
      PROVE  Above(j, m)
  BY <1>2, <1>4
<1>5. P!Preferred(s) = s[CHOOSE x \in 1..Len(s) : \A j \in (1..Len(s)) \ {x} : Above(x, j)]
  BY <1>1 DEF P!Preferred
<1> HIDE DEF Above
<1>6. Missing = {}
  <2> SUFFICES ASSUME Missing # {} PROVE FALSE
    OBVIOUS
  <2>1. PICK last \in Missing : \A other \in Missing : last <= other
    <3>1. Missing \in SUBSET Nat
      OBVIOUS
    <3> HIDE DEF Missing
    <3> QED
      BY <3>1, LeastOf
  <2>2. last \in 1..Len(s) /\ ~\E k \in 1..last : Best(k, last)
    OBVIOUS
  <2>3. CASE last = 1
    <3>1. Best(1, 1)
      OBVIOUS
    <3> QED
      BY <2>2, <2>3, <3>1
  <2>4. CASE last # 1
    <3>1. last - 1 \in 1..Len(s) /\ last - 1 \notin Missing
      <4>1. last - 1 \in 1..Len(s) /\ ~(last <= last - 1)
        BY <2>2, <2>4
      <4> HIDE DEF Missing
      <4> QED
        BY <2>1, <4>1
    <3>2. PICK k \in 1..(last - 1) : Best(k, last - 1)
      BY <3>1
    <3>3. /\ k \in 1..Len(s) /\ k \in 1..last /\ k # last /\ last \in 1..last
          /\ \A j \in 1..last : j \in 1..Len(s) /\ (j # last => j \in 1..(last - 1))
      <4>1. last \in 1..Len(s) /\ last # 1 /\ k \in 1..(last - 1) /\ Len(s) \in Nat
        BY <1>1, <2>2, <2>4
      <4> HIDE DEF Missing, Best
      <4> QED
        BY <4>1
    <3>4. CASE Above(k, last)
      <4>1. Best(k, last)
        BY <3>2, <3>3, <3>4
      <4> QED
        BY <2>2, <3>3, <4>1
    <3>5. CASE Above(last, k)
      <4>1. ASSUME NEW j \in 1..last, j # last PROVE Above(last, j)
        <5>1. CASE j = k
          BY <3>5, <5>1
        <5>2. CASE j # k
          <6>1. Above(k, j)
            BY <3>2, <3>3, <4>1, <5>2
          <6> QED
            BY <1>4, <2>2, <3>3, <3>5, <6>1
        <5> QED
          BY <5>1, <5>2
      <4>2. Best(last, last)
        BY <3>3, <4>1
      <4> QED
        BY <2>2, <3>3, <4>2
    <3> QED
      BY <1>3, <2>2, <3>3, <3>4, <3>5
  <2> QED
    BY <2>3, <2>4
<1>7. PICK k \in 1..Len(s) : Best(k, Len(s))
  <2>1. Len(s) \in 1..Len(s)
    BY <1>1
  <2> HIDE DEF Best
  <2>2. ~(\E k \in 1..Len(s) : Best(k, Len(s))) => Len(s) \in Missing
    BY <2>1
  <2> HIDE DEF Missing
  <2> QED
    BY <1>6, <2>2
<1>8. \E x \in 1..Len(s) : \A j \in (1..Len(s)) \ {x} : Above(x, j)
  BY <1>7
<1>9. (CHOOSE x \in 1..Len(s) : \A j \in (1..Len(s)) \ {x} : Above(x, j)) \in 1..Len(s)
  BY <1>8
<1> QED
  BY <1>1, <1>5, <1>9

LEMMA PageStartsKeeps ==
    ASSUME NEW c \in Tools, NEW e \in [is : {"PAGE"}, name : P!Texts]
    PROVE  P!PageStarts(c, e) \in Tools
<1>1. e.name \in Words
  BY TextsAreWords
<1>2. Append(c.locations, e.name) \in Seq(Words)
  BY <1>1 DEF Tools
<1>3. Append(c.pushed, TRUE) \in Seq(BOOLEAN) /\ Append(c.pushed, FALSE) \in Seq(BOOLEAN)
  BY DEF Tools
<1>4. [c EXCEPT !.pushed = Append(@, FALSE)] \in Tools
  BY <1>3 DEF Tools
<1>5. [c EXCEPT !.failed = TRUE] \in Tools
  BY DEF Tools
<1>6. [c EXCEPT !.pushed = Append(@, TRUE), !.locations = Append(@, e.name)] \in Tools
  BY <1>2, <1>3 DEF Tools
<1> QED
  BY <1>4, <1>5, <1>6 DEF P!PageStarts

LEMMA PageEndsKeeps == ASSUME NEW c \in Tools PROVE P!PageEnds(c) \in Tools
<1> SUFFICES ASSUME c.pushed # <<>> PROVE P!PageEnds(c) \in Tools
  BY DEF P!PageEnds
<1>1. P!Front(c.pushed) \in Seq(BOOLEAN)
  BY FrontKeeps DEF Tools
<1>2. P!Front(c.locations) \in Seq(Words)
  <2>1. c.locations \in Seq(Words)
    BY DEF Tools
  <2>2. CASE c.locations = <<>>
    BY <2>1, <2>2 DEF P!Front
  <2> QED
    BY <2>1, <2>2, FrontKeeps
<1>3. P!PageEnds(c) = [c EXCEPT !.pushed = P!Front(@),
                       !.locations = IF P!Last(c.pushed) THEN P!Front(@) ELSE @]
  BY DEF P!PageEnds
<1>4. (IF P!Last(c.pushed) THEN P!Front(c.locations) ELSE c.locations) \in Seq(Words)
  BY <1>2 DEF Tools
<1> QED
  BY <1>1, <1>3, <1>4 DEF Tools

LEMMA VarStartsKeeps ==
    ASSUME NEW c \in Tools,
           NEW e \in [is : {"VAR"}, isInput : BOOLEAN, dip : Int, channel : Int]
    PROVE  P!VarStarts(c, e) \in Tools
<1> SUFFICES ASSUME P!Supported(c.tool), c.node # P!NoElement, c.node.isInput,
                    e.isInput, ~(e.dip < 0), ~(e.channel < 0),
                    ~(Len(c.candidates) >= MaxToolCandidates)
             PROVE  P!VarStarts(c, e) \in Tools
  <2>1. [c EXCEPT !.failed = TRUE] \in Tools
    BY DEF Tools
  <2> QED
    BY <2>1 DEF P!VarStarts
<1> DEFINE candidate == [index |-> c.node.index, ref |-> <<"emd", e.dip, e.channel>>,
                         isPushButton |-> c.node.isPushButton]
<1>1. c.node.index \in Int /\ c.node.isPushButton \in BOOLEAN
  BY DEF Tools
<1>2. <<"emd", e.dip, e.channel>> \in ToolRefs
  BY DEF ToolRefs
<1>3. candidate \in Candidate
  BY <1>1, <1>2 DEF Candidate
<1>4. P!VarStarts(c, e) = [c EXCEPT !.candidates = Append(@, candidate)]
  BY DEF P!VarStarts
<1> HIDE DEF candidate
<1>5. Append(c.candidates, candidate) \in Seq(Candidate)
  BY <1>3 DEF Tools
<1> QED
  BY <1>4, <1>5 DEF Tools

LEMMA ToolActionMade ==
    ASSUME NEW c \in Tools, c.tool # P!NoElement, c.candidates # <<>>
    PROVE  P!ToolAction(c) \in Action
<1>1. c.tool.bez \in Words /\ c.tool.name \in Words
  <2>1. c.tool.bez \in P!Texts /\ c.tool.name \in P!Texts
    BY DEF Tools
  <2> QED
    BY <2>1, TextsAreWords
<1>2. \A letter \in {"Panic", "Presence", "Security", "Automation"} : <<letter>> \in Words
  <2>1. \A letter \in {"Panic", "Presence", "Security", "Automation"} : letter \in Letters
    BY DEF Letters
  <2> QED
    BY <2>1 DEF Words
<1>3. P!ActionName(c.tool) \in Words
  <2> DEFINE raw == IF c.tool.bez # <<>> THEN c.tool.bez
                    ELSE IF c.tool.name # <<>> THEN c.tool.name
                    ELSE IF P!IsPanic(c.tool) THEN <<"Panic">> ELSE <<"Presence">>
  <2>1. raw \in Words
    BY <1>1, <1>2
  <2>2. P!ActionName(c.tool) \in {raw, Tail(raw)} /\ (P!ActionName(c.tool) = Tail(raw) => P!ActionName(c.tool) = raw \/ Len(raw) > 1)
    BY DEF P!ActionName
  <2> HIDE DEF raw
  <2>3. Len(raw) > 1 => Tail(raw) \in Words
    BY <2>1 DEF Words
  <2> QED
    BY <2>1, <2>2, <2>3
<1>4. P!Preferred(c.candidates).ref \in ToolRefs
  <2>1. P!Preferred(c.candidates) \in Candidate
    BY PreferredIsOne DEF Tools
  <2> QED
    BY <2>1 DEF Candidate
<1>5. c.locations # <<>> => P!Last(c.locations) \in Words
  BY FrontKeeps DEF Tools
<1> QED
  BY <1>2, <1>3, <1>4, <1>5 DEF P!ToolAction, Action

LEMMA ToolEndsKeeps == ASSUME NEW c \in Tools PROVE P!ToolEnds(c) \in Tools
<1> DEFINE next == [c EXCEPT !.tool = P!NoElement, !.candidates = <<>>]
<1>1. next \in Tools /\ next.actions = c.actions
  <2>1. <<>> \in Seq(Candidate)
    OBVIOUS
  <2> QED
    BY <2>1 DEF Tools
<1>2. [c EXCEPT !.failed = TRUE] \in Tools
  BY DEF Tools
<1>3. ASSUME P!Supported(c.tool), c.candidates # <<>>
      PROVE  [next EXCEPT !.actions = Append(@, P!ToolAction(c))] \in Tools
  <2>1. P!ToolAction(c) \in Action
    BY <1>3, ToolActionMade DEF P!Supported
  <2> HIDE DEF next
  <2>2. Append(next.actions, P!ToolAction(c)) \in Seq(Action)
    BY <1>1, <2>1 DEF Tools
  <2> QED
    BY <1>1, <2>2 DEF Tools
<1> QED
  BY <1>1, <1>2, <1>3 DEF P!ToolEnds

LEMMA TPFXKeeps ==
    ASSUME NEW c \in Tools, NEW e \in P!TPFXElements
    PROVE  P!TPFXElement(c, e) \in Tools
<1> SUFFICES ASSUME ~c.failed PROVE P!TPFXElement(c, e) \in Tools
  BY DEF P!TPFXElement
<1>1. CASE e \in [is : {"/PAGE", "/TOOL", "/NODE", "malformed"}]
  <2>1. CASE e.is = "/PAGE"
    BY <2>1, PageEndsKeeps DEF P!TPFXElement
  <2>2. CASE e.is = "/TOOL"
    BY <2>2, ToolEndsKeeps DEF P!TPFXElement
  <2>3. CASE e.is = "/NODE"
    <3>1. P!TPFXElement(c, e) = [c EXCEPT !.node = P!NoElement]
      BY <2>3 DEF P!TPFXElement
    <3> QED
      BY <3>1 DEF Tools
  <2>4. CASE e.is = "malformed"
    <3>1. P!TPFXElement(c, e) = [c EXCEPT !.failed = TRUE]
      BY <2>4 DEF P!TPFXElement
    <3> QED
      BY <3>1 DEF Tools
  <2> QED
    BY <1>1, <2>1, <2>2, <2>3, <2>4
<1>2. CASE e \in [is : {"PAGE"}, name : P!Texts]
  <2>1. P!TPFXElement(c, e) = P!PageStarts(c, e)
    BY <1>2 DEF P!TPFXElement
  <2> QED
    BY <1>2, <2>1, PageStartsKeeps
<1>3. CASE e \in [is : {"TOOL"}, words : SUBSET STRING, bez : P!Texts, name : P!Texts,
                  enabled : BOOLEAN]
  <2>1. P!TPFXElement(c, e) = [c EXCEPT !.tool = e, !.candidates = <<>>]
    BY <1>3 DEF P!TPFXElement
  <2>2. <<>> \in Seq(Candidate)
    OBVIOUS
  <2> QED
    BY <1>3, <2>1, <2>2 DEF Tools
<1>4. CASE e \in [is : {"NODE"}, isInput : BOOLEAN, index : Int, isPushButton : BOOLEAN]
  <2>1. P!TPFXElement(c, e) = [c EXCEPT !.node = e]
    BY <1>4 DEF P!TPFXElement
  <2> QED
    BY <1>4, <2>1 DEF Tools
<1>5. CASE e \in [is : {"VAR"}, isInput : BOOLEAN, dip : Int, channel : Int]
  <2>1. P!TPFXElement(c, e) = P!VarStarts(c, e)
    BY <1>5 DEF P!TPFXElement
  <2> QED
    BY <1>5, <2>1, VarStartsKeeps
<1> QED
  BY <1>1, <1>2, <1>3, <1>4, <1>5 DEF P!TPFXElements

LEMMA ToolsCollected ==
    ASSUME NEW file \in Seq(P!TPFXElements)
    PROVE  P!CollectTools(file) \in Tools
<1> DEFINE b == [locations |-> <<>>, pushed |-> <<>>, tool |-> P!NoElement,
                 node |-> P!NoElement, candidates |-> <<>>, actions |-> <<>>,
                 failed |-> file = <<>> \/ Len(file) > MaxFile]
           step == [p \in Tools \X P!TPFXElements |-> P!TPFXElement(p[1], p[2])]
           Collects(f) == f = [k \in 0..Len(file) |-> IF k = 0 THEN b
                                                   ELSE P!TPFXElement(f[k - 1], file[k])]
<1>1. b \in Tools
  <2>1. (file = <<>> \/ Len(file) > MaxFile) \in BOOLEAN
    OBVIOUS
  <2>2. <<>> \in Seq(Words) /\ <<>> \in Seq(BOOLEAN) /\ <<>> \in Seq(Candidate)
        /\ <<>> \in Seq(Action)
    OBVIOUS
  <2> QED
    BY <2>1, <2>2 DEF Tools
<1>2. step \in [Tools \X P!TPFXElements -> Tools]
  BY TPFXKeeps
<1>3. \A c \in Tools, e \in P!TPFXElements : step[<<c, e>>] = P!TPFXElement(c, e)
  OBVIOUS
<1>4. P!CollectTools(file) = (CHOOSE f : Collects(f))[Len(file)]
  BY DEF P!CollectTools
<1> HIDE DEF b, step
<1>5. PICK f \in [0..Len(file) -> Tools] : Steps(f, step, file, b)
  BY <1>1, <1>2, StepsExist
<1>6. ASSUME NEW k \in 0..Len(file)
      PROVE  f[k] = IF k = 0 THEN b ELSE P!TPFXElement(f[k - 1], file[k])
  <2> SUFFICES ASSUME k # 0 PROVE f[k] = P!TPFXElement(f[k - 1], file[k])
    BY <1>5 DEF Steps
  <2>1. k \in 1..Len(file) /\ k - 1 \in 0..Len(file)
    OBVIOUS
  <2>2. f[k - 1] \in Tools /\ file[k] \in P!TPFXElements
    BY <2>1
  <2> QED
    BY <1>3, <1>5, <2>1, <2>2 DEF Steps
<1>7. Collects(f)
  BY <1>6
<1>8. ASSUME NEW g, Collects(g) PROVE g[Len(file)] \in Tools
  <2>1. Len(file) \in Nat /\ Len(file) \in 0..Len(file) /\ 0 \in 0..Len(file)
    OBVIOUS
  <2>2. g[0] \in Tools
    BY <1>1, <1>8, <2>1
  <2>3. ASSUME NEW k \in 1..Len(file), g[k - 1] \in Tools PROVE g[k] \in Tools
    <3>1. k \in 0..Len(file) /\ k # 0 /\ file[k] \in P!TPFXElements
      OBVIOUS
    <3>2. g[k] = P!TPFXElement(g[k - 1], file[k])
      BY <1>8, <3>1
    <3> QED
      BY <2>3, <3>1, <3>2, TPFXKeeps
  <2> QED
    BY <2>1, <2>2, <2>3, StaysIn
<1>9. Collects(CHOOSE g : Collects(g))
  BY <1>7
<1> QED
  BY <1>4, <1>8, <1>9

(* So Parse leaves sequences of channels with numbers for addresses and of *)
(* actions with addresses (parser.go:43, tools.go:84).                     *)
LEMMA ParseReturns ==
    ASSUME NEW ppfx \in Seq(P!PPFXElements), NEW tpfx,
           \A file \in tpfx : file \in Seq(P!TPFXElements), P!Parse(ppfx, tpfx)
    PROVE  channels' \in Seq(Channel) /\ actions' \in Seq(Action)
<1>1. channels' = P!CollectPPFX(ppfx).found
  BY DEF P!Parse
<1>2. channels' \in Seq(Channel)
  BY <1>1, HardwareCollected DEF Hardware
<1>3. actions' \in Seq(Action)
  <2> DEFINE all == {P!CollectTools(file) : file \in tpfx}
  <2>1. \A t \in all : t.actions \in Seq(Action)
    BY ToolsCollected DEF Tools
  <2>2. actions' = IF all = {} THEN <<>> ELSE (CHOOSE t \in all : TRUE).actions
    BY DEF P!Parse
  <2> HIDE DEF all
  <2>3. all # {} => (CHOOSE t \in all : TRUE) \in all
    OBVIOUS
  <2> QED
    BY <2>1, <2>2, <2>3
<1> QED
  BY <1>2, <1>3

LEMMA ParseCollects ==
    ASSUME NEW ppfx \in Seq(P!PPFXElements), NEW tpfx,
           \A file \in tpfx : file \in Seq(P!TPFXElements), P!Parse(ppfx, tpfx)
    PROVE  Collected'
<1>1. channels' \in Seq(Channel) /\ actions' \in Seq(Action)
  BY ParseReturns
<1>2. IsSeq(channels') /\ \A k \in 1..Len(channels') :
        channels'[k].dip \in Int /\ channels'[k].channel \in Int
  <2>1. \A k \in 1..Len(channels') : channels'[k] \in Channel
    BY <1>1
  <2> QED
    BY <1>1, <2>1, SeqIsSeq DEF Channel
<1>3. IsSeq(actions') /\ \A k \in 1..Len(actions') : actions'[k].ref \in {"emd"} \X Nat \X Nat
  <2>1. \A k \in 1..Len(actions') : actions'[k] \in Action
    BY <1>1
  <2> QED
    BY <1>1, <2>1, SeqIsSeq DEF Action, ToolRefs
<1> QED
  BY <1>2, <1>3 DEF Collected, IsSeq

-----------------------------------------------------------------------------
(* The devices, and what has been made of them up to a turn.               *)

LEMMA ChannelsAre ==
    ASSUME Collected
    PROVE  /\ Len(channels) \in Nat /\ Len(actions) \in Nat
           /\ P!Channels \subseteq 1..Len(channels)
           /\ \A k \in P!Channels : P!HasParts(channels[k].text)
           /\ \A k \in 1..Len(channels) : P!HasParts(channels[k].text) => k \in P!Channels
  BY DEF Collected, IsSeq, P!Channels

LEMMA InputsAre ==
    ASSUME Collected, NEW k \in P!Channels
    PROVE  /\ P!Input(channels[k]) \in InputRefs /\ P!Input(channels[k]) # NoInput
           /\ P!Input(channels[k])[1] = "emd" /\ P!Output(channels[k])[1] = "amd"
           /\ P!Input(channels[k])[2] = channels[k].dip
           /\ P!Input(channels[k])[3] = channels[k].channel
           /\ P!Output(channels[k])[2] = channels[k].dip
           /\ P!Output(channels[k])[3] = channels[k].channel
<1>1. k \in 1..Len(channels)
  BY ChannelsAre
<1>2. channels[k].dip \in Int /\ channels[k].channel \in Int
  BY <1>1 DEF Collected
<1>3. P!Input(channels[k]) \in InputRefs
  BY <1>2 DEF P!Input, InputRefs
<1>4. \A ref \in InputRefs : ref # NoInput
  BY NoInputAssumption DEF InputRefs
<1> QED
  BY <1>3, <1>4 DEF P!Input, P!Output

LEMMA DevicesAre ==
    /\ \A kind, parts, ref, upRef :
         LET d == P!Device(kind, parts, ref, upRef) IN
         d.ref = ref /\ d.upRef = upRef /\ P!Refs(d) = {ref, upRef} \ {NoInput}
    /\ \A key : /\ Shutter(key).ref = down[key] /\ Shutter(key).upRef = up[key]
                /\ P!Refs(Shutter(key)) = {down[key], up[key]} \ {NoInput}
    /\ \A c : /\ Scene(c).ref = P!Input(c) /\ Scene(c).upRef = NoInput
              /\ P!Refs(Scene(c)) = {P!Input(c)} \ {NoInput}
    /\ \A c : /\ Button(c).ref = P!Input(c) /\ Button(c).upRef = NoInput
              /\ P!Refs(Button(c)) = {P!Input(c)} \ {NoInput}
    /\ \A a : /\ ToolDevice(a).ref = a.ref /\ ToolDevice(a).upRef = NoInput
              /\ P!Refs(ToolDevice(a)) = {a.ref} \ {NoInput}
<1>1. \A kind, parts, ref, upRef :
        LET d == P!Device(kind, parts, ref, upRef) IN d.ref = ref /\ d.upRef = upRef
  BY DEF P!Device
<1>2. \A d : P!Refs(d) = {d.ref, d.upRef} \ {NoInput}
  BY DEF P!Refs
<1> QED
  BY <1>1, <1>2 DEF Shutter, Scene, Button, ToolDevice

LEMMA SameDevices ==
    ASSUME UNCHANGED <<channels, actions, down, up>>
    PROVE  /\ P!Channels' = P!Channels /\ P!Pairs' = P!Pairs /\ P!Scenes' = P!Scenes
           /\ P!Buttons' = P!Buttons /\ ChannelDevices' = ChannelDevices
           /\ \A keys : ShuttersOf(keys)' = ShuttersOf(keys)
           /\ \A m : /\ ScenesUpTo(m)' = ScenesUpTo(m) /\ ButtonsUpTo(m)' = ButtonsUpTo(m)
                    /\ ToolsUpTo(m)' = ToolsUpTo(m)
           /\ AllDevices' = AllDevices
<1>1. P!Channels' = P!Channels
  BY DEF P!Channels
<1>2. P!Pairs' = P!Pairs
  BY DEF P!Pairs
<1>3. P!Scenes' = P!Scenes
  BY <1>1 DEF P!Scenes
<1>4. P!Taken' = P!Taken
  BY <1>2, <1>3 DEF P!Taken
<1>5. P!Buttons' = P!Buttons
  BY <1>1, <1>4 DEF P!Buttons
<1>6. ChannelDevices' = ChannelDevices
  BY <1>2, <1>3, <1>5 DEF ChannelDevices
<1>7. ASSUME NEW keys PROVE ShuttersOf(keys)' = ShuttersOf(keys)
  BY DEF ShuttersOf, Shutter
<1>8. ASSUME NEW m PROVE ScenesUpTo(m)' = ScenesUpTo(m)
  BY <1>1 DEF ScenesUpTo
<1>9. ASSUME NEW m PROVE ButtonsUpTo(m)' = ButtonsUpTo(m)
  <2>1. ASSUME NEW j PROVE IsButton(j)' = IsButton(j)
    BY <1>1, <1>4 DEF IsButton
  <2> QED
    BY <1>1, <2>1 DEF ButtonsUpTo
<1>10. ASSUME NEW m PROVE ToolsUpTo(m)' = ToolsUpTo(m)
  BY <1>6 DEF ToolsUpTo, RefsOf
<1>11. AllDevices' = AllDevices
  BY <1>6, <1>10 DEF AllDevices
<1> QED
  BY <1>1, <1>2, <1>3, <1>5, <1>6, <1>7, <1>8, <1>9, <1>10, <1>11

LEMMA NothingUpToOne ==
    ASSUME Collected
    PROVE  ScenesUpTo(1) = {} /\ ButtonsUpTo(1) = {} /\ ToolsUpTo(1) = {}
<1>1. \A j \in P!Channels : ~(j < 1)
  BY ChannelsAre
<1>2. \A j \in 1..Len(actions) : ~(j < 1)
  BY ChannelsAre
<1> QED
  BY <1>1, <1>2 DEF ScenesUpTo, ButtonsUpTo, ToolsUpTo

LEMMA AllUpToTheEnd ==
    ASSUME Collected, NEW m \in Nat, m > Len(channels)
    PROVE  ScenesUpTo(m) = P!Scenes /\ ButtonsUpTo(m) = P!Buttons
<1>1. \A j \in P!Channels : j < m
  BY ChannelsAre
<1>2. {j \in P!Channels : j < m /\ IsScene(channels[j])} =
        {j \in P!Channels : /\ P!IsVirtual(channels[j])
                           /\ P!KindOf(P!Parts(channels[j].text).category) # "shutter"}
  BY <1>1 DEF IsScene
<1>3. ScenesUpTo(m) = P!Scenes
  BY <1>2 DEF ScenesUpTo, P!Scenes, Scene
<1>4. {j \in P!Channels : j < m /\ IsButton(j)} =
        {j \in P!Channels : /\ P!IsInputChannel(channels[j])
                           /\ P!Input(channels[j]) \notin P!Taken
                           /\ \A i_ \in P!Channels : i_ < j /\ P!IsInputChannel(channels[i_])
                                => P!Input(channels[i_]) # P!Input(channels[j])}
  BY <1>1 DEF IsButton
<1>5. ButtonsUpTo(m) = P!Buttons
  BY <1>4 DEF ButtonsUpTo, P!Buttons, Button
<1> QED
  BY <1>3, <1>5

LEMMA OneTurnOn ==
    ASSUME Collected, NEW m \in Nat
    PROVE  /\ m \notin P!Channels => /\ ScenesUpTo(m + 1) = ScenesUpTo(m)
                                    /\ ButtonsUpTo(m + 1) = ButtonsUpTo(m)
           /\ m \in P!Channels =>
                /\ ScenesUpTo(m + 1) = ScenesUpTo(m) \cup
                      (IF IsScene(channels[m]) THEN {Scene(channels[m])} ELSE {})
                /\ ButtonsUpTo(m + 1) = ButtonsUpTo(m) \cup
                      (IF IsButton(m) THEN {Button(channels[m])} ELSE {})
<1>1. \A j \in P!Channels : j < m + 1 <=> j < m \/ j = m
  BY ChannelsAre
<1>2. ASSUME m \notin P!Channels PROVE \A j \in P!Channels : j < m + 1 <=> j < m
  BY <1>1, <1>2
<1>3. m \notin P!Channels => /\ ScenesUpTo(m + 1) = ScenesUpTo(m)
                             /\ ButtonsUpTo(m + 1) = ButtonsUpTo(m)
  BY <1>2 DEF ScenesUpTo, ButtonsUpTo
<1>4. ASSUME m \in P!Channels
      PROVE  ScenesUpTo(m + 1) = ScenesUpTo(m) \cup
               (IF IsScene(channels[m]) THEN {Scene(channels[m])} ELSE {})
  BY <1>1, <1>4 DEF ScenesUpTo
<1>5. ASSUME m \in P!Channels
      PROVE  ButtonsUpTo(m + 1) = ButtonsUpTo(m) \cup
               (IF IsButton(m) THEN {Button(channels[m])} ELSE {})
  BY <1>1, <1>5 DEF ButtonsUpTo
<1> QED
  BY <1>3, <1>4, <1>5

LEMMA OneToolOn ==
    ASSUME Collected, NEW m \in 1..Len(actions)
    PROVE  ToolsUpTo(m + 1) = ToolsUpTo(m) \cup
             (IF actions[m].ref \notin RefsOf(ChannelDevices) THEN {ToolDevice(actions[m])} ELSE {})
<1>1. \A j \in 1..Len(actions) : j < m + 1 <=> j < m \/ j = m
  BY ChannelsAre
<1> QED
  BY <1>1 DEF ToolsUpTo

LEMMA NoneAfterTheLastTool ==
    ASSUME Collected, NEW m \in Nat
    PROVE  /\ ToolsUpTo(m) \subseteq ToolsUpTo(Len(actions) + 1)
           /\ m > Len(actions) => ToolsUpTo(m) = ToolsUpTo(Len(actions) + 1)
<1>1. \A j \in 1..Len(actions) : j < Len(actions) + 1 /\ (m > Len(actions) => j < m)
  BY ChannelsAre
<1> QED
  BY <1>1 DEF ToolsUpTo

LEMMA KnownDevices ==
    ASSUME Collected, NEW m \in Nat
    PROVE  /\ P!Pairs \subseteq AllDevices /\ P!Scenes \subseteq AllDevices
           /\ ScenesUpTo(m) \subseteq P!Scenes /\ ButtonsUpTo(m) \subseteq P!Buttons
           /\ P!Buttons \subseteq AllDevices /\ ToolsUpTo(m) \subseteq AllDevices
           /\ ChannelDevices \subseteq AllDevices
<1>1. P!Pairs \subseteq AllDevices /\ P!Scenes \subseteq AllDevices
      /\ P!Buttons \subseteq AllDevices /\ ToolsUpTo(m) \subseteq AllDevices
      /\ ChannelDevices \subseteq AllDevices
  BY NoneAfterTheLastTool DEF AllDevices, ChannelDevices
<1> DEFINE last == Len(channels) + 1
<1>2. last \in Nat /\ last > Len(channels)
  BY ChannelsAre
<1>3. ScenesUpTo(last) = P!Scenes /\ ButtonsUpTo(last) = P!Buttons
  BY <1>2, AllUpToTheEnd
<1>4. \A j \in P!Channels : j < last
  BY ChannelsAre
<1> HIDE DEF last
<1>5. ScenesUpTo(m) \subseteq ScenesUpTo(last) /\ ButtonsUpTo(m) \subseteq ButtonsUpTo(last)
  BY <1>4 DEF ScenesUpTo, ButtonsUpTo
<1> QED
  BY <1>1, <1>3, <1>5

LEMMA PairsAreShutters == P!Pairs = ShuttersOf(DOMAIN down \cap DOMAIN up)
  BY DEF P!Pairs, ShuttersOf, Shutter

(* A motor channel is in the map of its direction and nowhere else.        *)
LEMMA MotorsAre ==
    ASSUME Collected, MotorsKnown
    PROVE  /\ \A key \in DOMAIN down : \E j \in P!Channels :
                /\ IsMotor(channels[j]) /\ P!IsDown(Label(channels[j]))
                /\ key = MotorKey(channels[j]) /\ down[key] = P!Input(channels[j])
                /\ down[key] \in InputRefs /\ down[key] # NoInput /\ down[key][1] = "emd"
                /\ down[key][2] = channels[j].dip /\ down[key][3] = channels[j].channel
           /\ \A key \in DOMAIN up : \E j \in P!Channels :
                /\ IsMotor(channels[j]) /\ ~P!IsDown(Label(channels[j]))
                /\ key = MotorKey(channels[j]) /\ up[key] = P!Input(channels[j])
                /\ up[key] \in InputRefs /\ up[key] # NoInput
<1>1. ASSUME NEW key \in DOMAIN down
      PROVE  \E j \in P!Channels :
                /\ IsMotor(channels[j]) /\ P!IsDown(Label(channels[j]))
                /\ key = MotorKey(channels[j]) /\ down[key] = P!Input(channels[j])
                /\ down[key] \in InputRefs /\ down[key] # NoInput /\ down[key][1] = "emd"
                /\ down[key][2] = channels[j].dip /\ down[key][3] = channels[j].channel
  <2>1. PICK j \in P!Channels : /\ IsMotor(channels[j]) /\ P!IsDown(Label(channels[j])) = TRUE
                                /\ Leads(j, key, down[key])
    BY DEF MotorsKnown, Motors
  <2> QED
    BY <2>1, InputsAre DEF Leads
<1>2. ASSUME NEW key \in DOMAIN up
      PROVE  \E j \in P!Channels :
                /\ IsMotor(channels[j]) /\ ~P!IsDown(Label(channels[j]))
                /\ key = MotorKey(channels[j]) /\ up[key] = P!Input(channels[j])
                /\ up[key] \in InputRefs /\ up[key] # NoInput
  <2>1. PICK j \in P!Channels : /\ IsMotor(channels[j]) /\ P!IsDown(Label(channels[j])) = FALSE
                                /\ Leads(j, key, up[key])
    BY DEF MotorsKnown, Motors
  <2> QED
    BY <2>1, InputsAre DEF Leads
<1> QED
  BY <1>1, <1>2

(* A device that has been added.                                           *)
LEMMA Grown ==
    ASSUME IsSeq(added), Distinct, NEW d, P!Addable(d.ref), added' = Append(added, d)
    PROVE  /\ IsSeq(added') /\ Distinct'
           /\ d.ref[1] = "emd" => WithInput' = WithInput \cup {d}
           /\ d.ref[1] # "emd" => WithInput' = WithInput
           /\ Len(added) \in Nat /\ Len(added') = Len(added) + 1
           /\ \A k \in 1..Len(added) : added'[k] = added[k]
           /\ added'[Len(added) + 1] = d
<1>1. /\ IsSeq(added') /\ Len(added) \in Nat /\ Len(added') = Len(added) + 1
      /\ \A k \in 1..Len(added) : added'[k] = added[k]
      /\ added'[Len(added) + 1] = d
  BY Appended
<1>2. \A k \in 1..Len(added') : k \in 1..Len(added) \/ k = Len(added) + 1
  BY <1>1
<1>3. \A k \in 1..Len(added) : k \in 1..Len(added') /\ added[k].ref # d.ref
  BY <1>1 DEF P!Addable, P!Identities
<1>4. Len(added) + 1 \in 1..Len(added')
  BY <1>1
<1>5. Distinct'
  <2> SUFFICES ASSUME NEW j \in 1..Len(added'), NEW k \in 1..Len(added'), j # k
               PROVE  added'[j].ref # added'[k].ref
    BY DEF Distinct
  <2>1. CASE j \in 1..Len(added) /\ k \in 1..Len(added)
    BY <1>1, <2>1 DEF Distinct
  <2>2. CASE j \in 1..Len(added) /\ k = Len(added) + 1
    BY <1>1, <1>3, <2>2
  <2>3. CASE k \in 1..Len(added) /\ j = Len(added) + 1
    BY <1>1, <1>3, <2>3
  <2> QED
    BY <1>2, <2>1, <2>2, <2>3
<1>6. ASSUME d.ref[1] = "emd" PROVE WithInput' = WithInput \cup {d}
  <2>1. ASSUME NEW x \in WithInput' PROVE x \in WithInput \cup {d}
    <3>1. PICK k \in 1..Len(added') : added'[k].ref[1] = "emd" /\ x = added'[k]
      BY <2>1 DEF WithInput
    <3> QED
      BY <1>1, <1>2, <3>1 DEF WithInput
  <2>2. ASSUME NEW x \in WithInput PROVE x \in WithInput'
    <3>1. PICK k \in 1..Len(added) : added[k].ref[1] = "emd" /\ x = added[k]
      BY <2>2 DEF WithInput
    <3>2. k \in 1..Len(added') /\ added'[k].ref[1] = "emd" /\ x = added'[k]
      BY <1>1, <1>3, <3>1
    <3> QED
      BY <3>2 DEF WithInput
  <2>3. d \in WithInput'
    BY <1>1, <1>4, <1>6 DEF WithInput
  <2> QED
    BY <2>1, <2>2, <2>3
<1>7. ASSUME d.ref[1] # "emd" PROVE WithInput' = WithInput
  <2>1. ASSUME NEW x \in WithInput' PROVE x \in WithInput
    <3>1. PICK k \in 1..Len(added') : added'[k].ref[1] = "emd" /\ x = added'[k]
      BY <2>1 DEF WithInput
    <3>2. k \in 1..Len(added)
      BY <1>1, <1>2, <1>7, <3>1
    <3> QED
      BY <1>1, <3>1, <3>2 DEF WithInput
  <2>2. ASSUME NEW x \in WithInput PROVE x \in WithInput'
    <3>1. PICK k \in 1..Len(added) : added[k].ref[1] = "emd" /\ x = added[k]
      BY <2>2 DEF WithInput
    <3>2. k \in 1..Len(added') /\ added'[k].ref[1] = "emd" /\ x = added'[k]
      BY <1>1, <1>3, <3>1
    <3> QED
      BY <3>2 DEF WithInput
  <2> QED
    BY <2>1, <2>2
<1> QED
  BY <1>1, <1>5, <1>6, <1>7

LEMMA RefsAre ==
    /\ RefsOf({}) = {}
    /\ \A A, d : RefsOf(A \cup {d}) = RefsOf(A) \cup P!Refs(d)
    /\ \A A, B : RefsOf(A \cup B) = RefsOf(A) \cup RefsOf(B)
    /\ \A A, d : d \in A /\ d.ref # NoInput => d.ref \in RefsOf(A)
  BY DEF RefsOf, P!Refs

-----------------------------------------------------------------------------
(* What a turn leaves alone.                                               *)

Conflict ==
    \/ \E k \in P!Channels : channels[k].dip < 0 \/ channels[k].channel < 0
    \/ \E j, k \in P!Channels : j # k /\ (P!SameInput(j, k) \/ P!SameOutput(j, k))
    \/ \E j, k \in 1..Len(actions) : j # k /\ actions[j].ref = actions[k].ref

LEMMA Unmoved ==
    ASSUME BuildInv, UNCHANGED <<channels, actions, added, down, up>>,
           n \in Nat, n' \in Nat, loop' = "outputs" => loop = "outputs" /\ n' >= n
    PROVE  /\ Collected' /\ IsSeq(added') /\ Distinct' /\ OnOutputs' /\ MotorsKnown'
           /\ WithInput' = WithInput /\ (WithInput \subseteq AllDevices)'
<1>1. Collected' /\ IsSeq(added') /\ Distinct'
  BY DEF BuildInv, Collected, IsSeq, Typed, Distinct
<1>2. P!Channels' = P!Channels /\ AllDevices' = AllDevices
  BY SameDevices
<1>3. OnOutputs'
  <2> SUFFICES ASSUME NEW k \in 1..Len(added), added[k].ref[1] # "emd"
               PROVE  /\ added[k].ref[1] = "amd" /\ added[k].upRef = NoInput
                      /\ \E j \in P!Channels : /\ loop' = "outputs" => j < n'
                                              /\ ~P!IsInputLike(channels[j])
                                              /\ added[k].ref = P!Output(channels[j])
    BY <1>2 DEF OnOutputs, P!IsInputLike, P!IsInputChannel, P!IsVirtual, P!Output
  <2>1. PICK j \in P!Channels : /\ loop = "outputs" => j < n
                               /\ ~P!IsInputLike(channels[j])
                               /\ added[k].ref = P!Output(channels[j])
    BY DEF BuildInv, OnOutputs
  <2>2. j \in Nat
    BY ChannelsAre DEF BuildInv
  <2>3. loop' = "outputs" => j < n'
    BY <2>1, <2>2
  <2> QED
    BY <2>1, <2>3 DEF BuildInv, OnOutputs
<1>4. MotorsKnown'
  BY <1>2 DEF BuildInv, MotorsKnown, Motors, Leads
<1>5. WithInput' = WithInput
  BY DEF WithInput
<1> QED
  BY <1>1, <1>2, <1>3, <1>4, <1>5 DEF BuildInv, Made

(* A device with an input has been added.                                  *)
LEMMA Joined ==
    ASSUME BuildInv, UNCHANGED <<channels, actions, down, up>>, loop' # "outputs",
           NEW d \in AllDevices, d.ref[1] = "emd", P!Addable(d.ref),
           added' = Append(added, d)
    PROVE  /\ Collected' /\ IsSeq(added') /\ Distinct' /\ OnOutputs' /\ MotorsKnown'
           /\ WithInput' = WithInput \cup {d} /\ (WithInput \subseteq AllDevices)'
           /\ RefsOf(WithInput') = RefsOf(WithInput) \cup P!Refs(d)
<1>1. Collected'
  BY DEF BuildInv, Collected, IsSeq
<1>2. P!Channels' = P!Channels /\ AllDevices' = AllDevices
  BY SameDevices
<1>3. /\ IsSeq(added') /\ Distinct' /\ WithInput' = WithInput \cup {d}
      /\ Len(added) \in Nat /\ Len(added') = Len(added) + 1
      /\ \A k \in 1..Len(added) : added'[k] = added[k]
      /\ added'[Len(added) + 1] = d
  BY Grown DEF BuildInv, Typed
<1>4. OnOutputs'
  <2> SUFFICES ASSUME NEW k \in 1..Len(added'), added'[k].ref[1] # "emd"
               PROVE  /\ added'[k].ref[1] = "amd" /\ added'[k].upRef = NoInput
                      /\ \E j \in P!Channels : /\ ~P!IsInputLike(channels[j])
                                              /\ added'[k].ref = P!Output(channels[j])
    BY <1>2 DEF OnOutputs, P!IsInputLike, P!IsInputChannel, P!IsVirtual, P!Output
  <2>1. k \in 1..Len(added) /\ added'[k] = added[k]
    BY <1>3
  <2> QED
    BY <2>1 DEF BuildInv, OnOutputs
<1>5. MotorsKnown'
  BY <1>2 DEF BuildInv, MotorsKnown, Motors, Leads
<1> QED
  BY <1>1, <1>2, <1>3, <1>4, <1>5, RefsAre DEF BuildInv, Made

LEMMA FailKeeps ==
    ASSUME BuildInv, loop' = "failed", UNCHANGED <<channels, actions, added, down, up>>,
           n' \in Nat, n' >= 1, Conflict
    PROVE  BuildInv'
<1>1. /\ Collected' /\ IsSeq(added') /\ Distinct' /\ OnOutputs' /\ MotorsKnown'
      /\ (WithInput \subseteq AllDevices)'
  BY Unmoved DEF BuildInv, Typed
<1>2. Typed'
  BY <1>1 DEF Typed, Loops
<1>3. Made' /\ Taken'
  BY <1>1 DEF Made, Taken
<1>4. RefusedOnlyForConflicts'
  <2>1. P!Channels' = P!Channels
    BY SameDevices
  <2>2. Conflict'
    BY <2>1 DEF Conflict, P!SameInput, P!SameOutput, P!IsInputLike, P!IsInputChannel,
                P!IsVirtual, P!Input, P!Output
  <2> QED
    BY <2>2 DEF Conflict, RefusedOnlyForConflicts, P!RefusedOnlyForConflicts
<1> QED
  BY <1>1, <1>2, <1>3, <1>4 DEF BuildInv

(* An input that cannot be added has no address, or a device already.      *)
LEMMA NotAdded ==
    ASSUME NEW ref \in InputRefs, ~P!Addable(ref)
    PROVE  ref[2] < 0 \/ ref[3] < 0 \/ \E d \in WithInput : d.ref = ref
<1>1. ref[1] = "emd" /\ ref[2] \in Int /\ ref[3] \in Int
  BY DEF InputRefs
<1>2. ASSUME ref \in P!Identities PROVE \E d \in WithInput : d.ref = ref
  <2>1. PICK k \in 1..Len(added) : added[k].ref = ref
    BY <1>2 DEF P!Identities
  <2>2. added[k] \in WithInput
    BY <1>1, <2>1 DEF WithInput
  <2> QED
    BY <2>1, <2>2
<1>3. ~(ref[2] >= 0) \/ ~(ref[3] >= 0) \/ ref \in P!Identities
  BY DEF P!Addable
<1>4. ref[2] < 0 \/ ref[3] < 0 \/ ref \in P!Identities
  BY <1>1, <1>3
<1> QED
  BY <1>2, <1>4

-----------------------------------------------------------------------------
(* The actions of buildProject.                                            *)

LEMMA NoConflictYet ==
    ASSUME loop' # "failed"
    PROVE  RefusedOnlyForConflicts'
  BY DEF RefusedOnlyForConflicts, P!RefusedOnlyForConflicts

LEMMA OutputAdded ==
    ASSUME BuildInv, loop = "outputs", n \in P!Channels, ~P!IsInputLike(channels[n]),
           NEW d, d.ref = P!Output(channels[n]), d.upRef = NoInput, n' = n + 1,
           P!Add(d), UNCHANGED <<channels, actions, down, up, represented>>
    PROVE  BuildInv'
<1>1. Collected /\ n \in Nat /\ n' \in Nat /\ n' >= 1 /\ IsSeq(added)
  BY DEF BuildInv, Typed
<1>2. /\ d.ref[1] = "amd" /\ d.ref[2] = channels[n].dip /\ d.ref[3] = channels[n].channel
      /\ channels[n].dip \in Int /\ channels[n].channel \in Int
  BY <1>1, InputsAre, ChannelsAre DEF Collected
<1>3. CASE P!Addable(d.ref)
  <2>1. added' = Append(added, d) /\ loop' = loop
    BY <1>3 DEF P!Add
  <2>2. /\ IsSeq(added') /\ Distinct' /\ WithInput' = WithInput
        /\ Len(added) \in Nat /\ Len(added') = Len(added) + 1
        /\ \A k \in 1..Len(added) : added'[k] = added[k]
        /\ added'[Len(added) + 1] = d
    BY <1>1, <1>2, <1>3, <2>1, Grown DEF BuildInv
  <2>3. Collected' /\ P!Channels' = P!Channels /\ AllDevices' = AllDevices
    BY <1>1, SameDevices DEF Collected, IsSeq
  <2>4. OnOutputs'
    <3> SUFFICES ASSUME NEW k \in 1..Len(added'), added'[k].ref[1] # "emd"
                 PROVE  /\ added'[k].ref[1] = "amd" /\ added'[k].upRef = NoInput
                        /\ \E j \in P!Channels : /\ j < n + 1
                                                /\ ~P!IsInputLike(channels[j])
                                                /\ added'[k].ref = P!Output(channels[j])
      BY <2>3 DEF OnOutputs, P!IsInputLike, P!IsInputChannel, P!IsVirtual, P!Output
    <3>1. CASE k \in 1..Len(added)
      <4>1. added[k].ref[1] # "emd" /\ added'[k] = added[k]
        BY <2>2, <3>1
      <4>2. PICK j \in P!Channels : /\ j < n /\ ~P!IsInputLike(channels[j])
                                    /\ added[k].ref = P!Output(channels[j])
        BY <3>1, <4>1 DEF BuildInv, OnOutputs
      <4>3. j < n + 1
        <5>1. j \in Nat
          BY <1>1, ChannelsAre
        <5> QED
          BY <1>1, <4>2, <5>1
      <4> QED
        BY <3>1, <4>1, <4>2, <4>3 DEF BuildInv, OnOutputs
    <3>2. CASE k = Len(added) + 1
      <4>1. n < n + 1
        BY <1>1
      <4> QED
        BY <1>2, <2>2, <3>2, <4>1
    <3> QED
      BY <2>2, <3>1, <3>2
  <2>5. MotorsKnown'
    BY <2>3 DEF BuildInv, MotorsKnown, Motors, Leads
  <2>6. WithInput = {} /\ down = <<>> /\ up = <<>> /\ represented = RefsOf(WithInput)
    BY DEF BuildInv, Made, Taken
  <2>7. Typed' /\ Made'
    BY <1>1, <2>1, <2>2, <2>6 DEF Typed, Made, Loops
  <2>8. Taken'
    BY <2>1, <2>2, <2>6, RefsAre DEF Taken, RefsOf
  <2>9. RefusedOnlyForConflicts'
    BY <2>1, NoConflictYet
  <2> QED
    BY <2>2, <2>3, <2>4, <2>5, <2>7, <2>8, <2>9 DEF BuildInv
<1>4. CASE ~P!Addable(d.ref)
  <2>1. loop' = "failed" /\ UNCHANGED added
    BY <1>4 DEF P!Add
  <2>2. Conflict
    <3>1. CASE d.ref \in P!Identities
      <4>1. PICK k \in 1..Len(added) : added[k].ref = d.ref
        BY <3>1 DEF P!Identities
      <4>2. PICK j \in P!Channels : /\ j < n /\ ~P!IsInputLike(channels[j])
                                    /\ added[k].ref = P!Output(channels[j])
        BY <1>2, <4>1 DEF BuildInv, OnOutputs
      <4>3. j # n /\ P!SameOutput(j, n)
        BY <1>1, <4>1, <4>2 DEF P!SameOutput
      <4> QED
        BY <4>3 DEF Conflict
    <3>2. CASE d.ref \notin P!Identities
      <4>1. ~(d.ref[2] >= 0) \/ ~(d.ref[3] >= 0)
        BY <1>4, <3>2 DEF P!Addable
      <4>2. channels[n].dip < 0 \/ channels[n].channel < 0
        BY <1>2, <4>1
      <4> QED
        BY <4>2 DEF Conflict
    <3> QED
      BY <3>1, <3>2
  <2> QED
    BY <1>1, <2>1, <2>2, FailKeeps
<1> QED
  BY <1>3, <1>4

LEMMA OutputTurnKeeps == ASSUME BuildInv, P!OutputTurn PROVE BuildInv'
<1> DEFINE c == channels[n]
           parts == P!Parts(c.text)
           isOutput == /\ c.group = "Ausgangsmodule" /\ c.channelGroup = "Ausgang"
                       /\ c.module = "AMD" /\ P!HasParts(c.text)
                       /\ P!KindOf(parts.category) # "shutter"
           d == P!Device(P!KindOf(parts.category), parts, P!Output(c), NoInput)
<1>1. /\ loop = "outputs" /\ n <= Len(channels) /\ n' = n + 1
      /\ UNCHANGED <<channels, actions, down, up, represented>>
      /\ IF isOutput THEN P!Add(d) ELSE UNCHANGED <<loop, added>>
  BY DEF P!OutputTurn, P!Turn
<1>2. Collected /\ n \in Nat /\ n >= 1 /\ n \in 1..Len(channels) /\ n' \in Nat /\ n' >= 1 /\ n' >= n
  BY <1>1, ChannelsAre DEF BuildInv, Typed
<1>3. CASE isOutput
  <2>1. n \in P!Channels /\ ~P!IsInputLike(c)
    BY <1>2, <1>3, ChannelsAre DEF P!IsInputLike, P!IsInputChannel, P!IsVirtual
  <2>2. d.ref = P!Output(c) /\ d.upRef = NoInput
    BY DevicesAre
  <2>3. P!Add(d)
    BY <1>1, <1>3
  <2> HIDE DEF d
  <2> QED
    BY <1>1, <2>1, <2>2, <2>3, OutputAdded
<1>4. CASE ~isOutput
  <2>1. loop' = "outputs" /\ UNCHANGED added
    BY <1>1, <1>4
  <2> HIDE DEF isOutput, d
  <2>2. /\ Collected' /\ IsSeq(added') /\ Distinct' /\ OnOutputs' /\ MotorsKnown'
        /\ WithInput' = WithInput /\ (WithInput \subseteq AllDevices)'
    BY <1>1, <1>2, <2>1, Unmoved
  <2>3. WithInput = {} /\ down = <<>> /\ up = <<>> /\ represented = RefsOf(WithInput)
    BY <1>1 DEF BuildInv, Made, Taken
  <2>4. Typed' /\ Made'
    BY <1>1, <1>2, <2>1, <2>2, <2>3 DEF Typed, Made, Loops
  <2>5. Taken'
    BY <1>1, <2>1, <2>2, <2>3, RefsAre DEF Taken, RefsOf
  <2>6. RefusedOnlyForConflicts'
    BY <2>1, NoConflictYet
  <2> QED
    BY <2>2, <2>4, <2>5, <2>6 DEF BuildInv
<1> QED
  BY <1>3, <1>4

LEMMA OutputsEndKeeps == ASSUME BuildInv, P!OutputsEnd PROVE BuildInv'
<1>1. /\ loop = "outputs" /\ loop' = "motors" /\ n' = 1
      /\ UNCHANGED <<channels, actions, added, down, up, represented>>
  BY DEF P!OutputsEnd, P!Ends
<1>2. /\ Collected' /\ IsSeq(added') /\ Distinct' /\ OnOutputs' /\ MotorsKnown'
      /\ WithInput' = WithInput /\ (WithInput \subseteq AllDevices)'
  BY <1>1, Unmoved DEF BuildInv, Typed
<1>3. WithInput = {} /\ represented = RefsOf(WithInput)
  BY <1>1 DEF BuildInv, Made, Taken
<1>4. Typed' /\ Made'
  BY <1>1, <1>2, <1>3 DEF Typed, Made, Loops
<1>5. Taken'
  BY <1>1, <1>2, <1>3, RefsAre DEF Taken, RefsOf
<1>6. RefusedOnlyForConflicts'
  BY <1>1, NoConflictYet
<1> QED
  BY <1>2, <1>4, <1>5, <1>6 DEF BuildInv

LEMMA PutKeeps ==
    ASSUME NEW inputs, NEW downwards, Motors(inputs, downwards), NEW k \in P!Channels,
           IsMotor(channels[k]), P!IsDown(Label(channels[k])) = downwards
    PROVE  Motors(P!Put(inputs, MotorKey(channels[k]), P!Input(channels[k])), downwards)
<1> DEFINE put == P!Put(inputs, MotorKey(channels[k]), P!Input(channels[k]))
<1> SUFFICES ASSUME NEW key \in DOMAIN put
             PROVE  \E j \in P!Channels :
                      /\ IsMotor(channels[j]) /\ P!IsDown(Label(channels[j])) = downwards
                      /\ Leads(j, key, put[key])
  BY DEF Motors
<1>1. CASE key = MotorKey(channels[k])
  <2>1. put[key] = P!Input(channels[k])
    BY <1>1 DEF P!Put
  <2> HIDE DEF put
  <2> QED
    BY <1>1, <2>1 DEF Leads
<1>2. CASE key # MotorKey(channels[k])
  <2>1. key \in DOMAIN inputs /\ put[key] = inputs[key]
    BY <1>2 DEF P!Put
  <2> HIDE DEF put
  <2> QED
    BY <2>1 DEF Motors
<1> QED
  BY <1>1, <1>2

LEMMA MotorTurnKeeps == ASSUME BuildInv, P!MotorTurn PROVE BuildInv'
<1> DEFINE c == channels[n]
           parts == P!Parts(c.text)
           isMotor == /\ P!IsInputChannel(c) /\ P!HasParts(c.text)
                      /\ P!KindOf(parts.category) = "shutter"
                      /\ P!HasDirection(parts.label) /\ Len(parts.label) > 1
           isDown == P!IsDown(parts.label)
<1>1. /\ loop = "motors" /\ n <= Len(channels) /\ n' = n + 1
      /\ UNCHANGED <<loop, channels, actions, added, represented>>
      /\ down' = IF isMotor /\ isDown THEN P!Put(down, MotorKey(c), P!Input(c)) ELSE down
      /\ up' = IF isMotor /\ ~isDown THEN P!Put(up, MotorKey(c), P!Input(c)) ELSE up
  BY DEF P!MotorTurn, P!Turn, MotorKey, Label
<1>2. Collected /\ n \in Nat /\ n >= 1 /\ n \in 1..Len(channels) /\ n' \in Nat /\ n' >= 1
  BY <1>1, ChannelsAre DEF BuildInv, Typed
<1>3. isMotor => n \in P!Channels /\ IsMotor(c)
  BY <1>2, ChannelsAre DEF IsMotor
<1>4. isDown \in BOOLEAN /\ isDown = P!IsDown(Label(c))
  BY DEF P!IsDown, Label
<1> HIDE DEF isMotor, isDown
<1>5. Motors(down', TRUE) /\ Motors(up', FALSE)
  <2>1. Motors(down, TRUE) /\ Motors(up, FALSE)
    BY DEF BuildInv, MotorsKnown
  <2>2. isMotor /\ isDown => Motors(P!Put(down, MotorKey(c), P!Input(c)), TRUE)
    BY <1>3, <1>4, <2>1, PutKeeps
  <2>3. isMotor /\ ~isDown => Motors(P!Put(up, MotorKey(c), P!Input(c)), FALSE)
    BY <1>3, <1>4, <2>1, PutKeeps
  <2> QED
    BY <1>1, <2>1, <2>2, <2>3
<1>6. P!Channels' = P!Channels
  BY <1>1 DEF P!Channels
<1>7. MotorsKnown'
  <2>1. (Motors(down, TRUE))'
    BY <1>1, <1>5, <1>6 DEF Motors, Leads
  <2>2. (Motors(up, FALSE))'
    BY <1>1, <1>5, <1>6 DEF Motors, Leads
  <2> QED
    BY <2>1, <2>2 DEF MotorsKnown
<1>8. Collected' /\ IsSeq(added') /\ Distinct'
  BY <1>1 DEF BuildInv, Collected, IsSeq, Typed, Distinct
<1>9. OnOutputs'
  BY <1>1, <1>6 DEF BuildInv, OnOutputs, P!IsInputLike, P!IsInputChannel, P!IsVirtual, P!Output
<1>10. WithInput' = {} /\ represented' = {}
  <2>1. WithInput' = WithInput
    BY <1>1 DEF WithInput
  <2>2. WithInput = {} /\ represented = RefsOf(WithInput)
    BY <1>1 DEF BuildInv, Made, Taken
  <2> QED
    BY <1>1, <2>1, <2>2, RefsAre
<1>11. Typed' /\ Made'
  BY <1>1, <1>2, <1>8, <1>10 DEF Typed, Made, Loops
<1>12. Taken'
  BY <1>1, <1>10, RefsAre DEF Taken, RefsOf
<1>13. RefusedOnlyForConflicts'
  BY <1>1, NoConflictYet
<1> QED
  BY <1>7, <1>8, <1>9, <1>11, <1>12, <1>13 DEF BuildInv

LEMMA MotorsEndKeeps == ASSUME BuildInv, P!MotorsEnd PROVE BuildInv'
<1>1. /\ loop = "motors" /\ loop' = "pairs" /\ n' = 1 /\ unpaired' = DOMAIN down
      /\ UNCHANGED <<channels, actions, added, down, up, represented>>
  BY DEF P!MotorsEnd, P!Ends
<1>2. /\ Collected' /\ IsSeq(added') /\ Distinct' /\ OnOutputs' /\ MotorsKnown'
      /\ WithInput' = WithInput /\ (WithInput \subseteq AllDevices)'
  BY <1>1, Unmoved DEF BuildInv, Typed
<1>3. WithInput = {} /\ represented = RefsOf(WithInput)
  BY <1>1 DEF BuildInv, Made, Taken
<1>4. Typed'
  BY <1>1, <1>2 DEF Typed, Loops
<1>5. Made'
  <2>1. (ShuttersOf((DOMAIN down \cap DOMAIN up) \ unpaired))' = {}
    BY <1>1 DEF ShuttersOf
  <2> QED
    BY <1>1, <1>2, <1>3, <2>1 DEF Made
<1>6. Taken'
  BY <1>1, <1>2, <1>3, RefsAre DEF Taken, RefsOf
<1>7. RefusedOnlyForConflicts'
  BY <1>1, NoConflictYet
<1> QED
  BY <1>2, <1>4, <1>5, <1>6, <1>7 DEF BuildInv

(* What a turn that makes a device, and one that makes none, have in       *)
(* common in the loops over inputs.                                        *)
InputLoops == {"pairs", "scenes", "buttons", "tools"}

LEMMA InputTaken ==
    ASSUME BuildInv, loop \in InputLoops, UNCHANGED <<channels, actions, down, up>>,
           n' \in Nat, n' >= 1, loop = "pairs" => n' = 1,
           NEW d \in AllDevices, d.ref \in InputRefs, P!Add(d),
           d.ref[2] < 0 \/ d.ref[3] < 0 \/ (\E e \in WithInput : e.ref = d.ref) => Conflict
    PROVE  \/ BuildInv' /\ loop' = "failed"
           \/ /\ loop' = loop /\ Collected' /\ Typed' /\ Distinct' /\ OnOutputs'
              /\ MotorsKnown' /\ RefusedOnlyForConflicts'
              /\ WithInput' = WithInput \cup {d} /\ (WithInput \subseteq AllDevices)'
              /\ RefsOf(WithInput') = RefsOf(WithInput) \cup P!Refs(d)
<1>1. d.ref[1] = "emd"
  BY DEF InputRefs
<1>2. CASE P!Addable(d.ref)
  <2>1. loop' = loop /\ added' = Append(added, d)
    BY <1>2 DEF P!Add
  <2>2. loop' # "outputs" /\ loop' # "failed"
    BY <2>1 DEF InputLoops
  <2>3. /\ Collected' /\ IsSeq(added') /\ Distinct' /\ OnOutputs' /\ MotorsKnown'
        /\ WithInput' = WithInput \cup {d} /\ (WithInput \subseteq AllDevices)'
        /\ RefsOf(WithInput') = RefsOf(WithInput) \cup P!Refs(d)
    BY <1>1, <1>2, <2>1, <2>2, Joined
  <2>4. Typed'
    BY <2>1, <2>3 DEF Typed, Loops, InputLoops
  <2> QED
    BY <2>1, <2>2, <2>3, <2>4, NoConflictYet
<1>3. CASE ~P!Addable(d.ref)
  <2>1. loop' = "failed" /\ UNCHANGED added
    BY <1>3 DEF P!Add
  <2>2. Conflict
    BY <1>3, NotAdded
  <2> QED
    BY <2>1, <2>2, FailKeeps
<1> QED
  BY <1>2, <1>3

LEMMA NoneTaken ==
    ASSUME BuildInv, loop \in InputLoops, loop' \in InputLoops \cup {"done"},
           UNCHANGED <<channels, actions, added, down, up>>,
           n' \in Nat, n' >= 1, loop' = "pairs" => n' = 1
    PROVE  /\ Collected' /\ Typed' /\ Distinct' /\ OnOutputs'
           /\ MotorsKnown' /\ RefusedOnlyForConflicts'
           /\ WithInput' = WithInput /\ (WithInput \subseteq AllDevices)'
<1>1. loop' # "outputs" /\ loop' # "failed" /\ loop' # "idle" /\ loop' \in Loops
  BY DEF InputLoops, Loops
<1>2. /\ Collected' /\ IsSeq(added') /\ Distinct' /\ OnOutputs' /\ MotorsKnown'
      /\ WithInput' = WithInput /\ (WithInput \subseteq AllDevices)'
  BY <1>1, Unmoved DEF BuildInv, Typed
<1>3. Typed'
  BY <1>1, <1>2 DEF Typed
<1> QED
  BY <1>1, <1>2, <1>3, NoConflictYet

LEMMA PairTurnKeeps == ASSUME BuildInv, P!PairTurn PROVE BuildInv'
<1>1. PICK key \in unpaired :
        /\ unpaired' = unpaired \ {key}
        /\ IF key \in DOMAIN up
             THEN /\ P!Add(Shutter(key))
                  /\ represented' = represented \cup {down[key], up[key]}
             ELSE UNCHANGED <<loop, added, represented>>
  BY DEF P!PairTurn, Shutter
<1>2. loop = "pairs" /\ UNCHANGED <<n, channels, actions, down, up>>
  BY DEF P!PairTurn
<1> DEFINE paired == (DOMAIN down \cap DOMAIN up) \ unpaired
<1>3. /\ Collected /\ MotorsKnown /\ n = 1
      /\ unpaired \subseteq DOMAIN down /\ WithInput = ShuttersOf(paired)
      /\ represented = RefsOf(WithInput)
  BY <1>2 DEF BuildInv, Typed, Made, Taken
<1>4. key \in DOMAIN down
  BY <1>1, <1>3
<1>5. loop \in InputLoops /\ n' = 1 /\ n' \in Nat /\ n' >= 1
  BY <1>2, <1>3 DEF InputLoops
<1>6. \A keys : ShuttersOf(keys)' = ShuttersOf(keys)
  BY <1>2, SameDevices
<1>7. CASE key \in DOMAIN up
  <2> DEFINE d == Shutter(key)
  <2>1. P!Add(d) /\ represented' = represented \cup {down[key], up[key]}
    BY <1>1, <1>7
  <2>2. /\ d.ref = down[key] /\ d.ref \in InputRefs
        /\ P!Refs(d) = {down[key], up[key]}
    BY <1>3, <1>4, <1>7, DevicesAre, MotorsAre
  <2>3. d \in AllDevices
    BY <1>3, <1>4, <1>7, KnownDevices, PairsAreShutters DEF ShuttersOf
  <2>4. PICK j \in P!Channels :
          /\ IsMotor(channels[j]) /\ key = MotorKey(channels[j])
          /\ down[key] = P!Input(channels[j])
          /\ down[key][2] = channels[j].dip /\ down[key][3] = channels[j].channel
    BY <1>3, <1>4, MotorsAre
  <2>5. ASSUME NEW e \in WithInput, e.ref = d.ref PROVE Conflict
    <3>1. PICK other \in paired : e = Shutter(other)
      BY <1>3 DEF ShuttersOf
    <3>2. other # key /\ other \in DOMAIN down /\ down[other] = down[key]
      BY <2>2, <2>5, <3>1, DevicesAre
    <3>3. PICK k \in P!Channels :
            /\ IsMotor(channels[k]) /\ other = MotorKey(channels[k])
            /\ down[other] = P!Input(channels[k])
      BY <1>3, <3>2, MotorsAre
    <3>4. j # k /\ P!SameInput(j, k)
      BY <2>4, <3>2, <3>3 DEF P!SameInput, IsMotor, P!IsInputLike
    <3> QED
      BY <3>4 DEF Conflict
  <2>6. d.ref[2] < 0 \/ d.ref[3] < 0 => Conflict
    BY <2>2, <2>4 DEF Conflict
  <2> HIDE DEF d
  <2>7. \/ BuildInv' /\ loop' = "failed"
        \/ /\ loop' = loop /\ Collected' /\ Typed' /\ Distinct' /\ OnOutputs'
           /\ MotorsKnown' /\ RefusedOnlyForConflicts'
           /\ WithInput' = WithInput \cup {d} /\ (WithInput \subseteq AllDevices)'
           /\ RefsOf(WithInput') = RefsOf(WithInput) \cup P!Refs(d)
    BY <1>2, <1>5, <2>1, <2>2, <2>3, <2>5, <2>6, InputTaken
  <2>8. SUFFICES ASSUME
           /\ loop' = loop /\ Collected' /\ Typed' /\ Distinct' /\ OnOutputs'
           /\ MotorsKnown' /\ RefusedOnlyForConflicts'
           /\ WithInput' = WithInput \cup {d} /\ (WithInput \subseteq AllDevices)'
           /\ RefsOf(WithInput') = RefsOf(WithInput) \cup P!Refs(d)
        PROVE Made' /\ Taken'
    BY <2>7 DEF BuildInv
  <2>9. ((DOMAIN down \cap DOMAIN up) \ unpaired)' = paired \cup {key}
    BY <1>1, <1>2, <1>4, <1>7
  <2>10. WithInput' = ShuttersOf(((DOMAIN down \cap DOMAIN up) \ unpaired)')
    BY <1>3, <2>8, <2>9 DEF d, ShuttersOf
  <2>11. Made'
    <3>1. (ShuttersOf((DOMAIN down \cap DOMAIN up) \ unpaired))' =
             ShuttersOf(((DOMAIN down \cap DOMAIN up) \ unpaired)')
      BY <1>2 DEF ShuttersOf, Shutter
    <3>2. loop' = "pairs" /\ (unpaired \subseteq DOMAIN down)'
      BY <1>1, <1>2, <1>3, <2>8
    <3> QED
      BY <2>8, <2>10, <3>1, <3>2 DEF Made
  <2>12. Taken'
    <3>1. represented' = RefsOf(WithInput')
      BY <1>3, <2>1, <2>2, <2>8
    <3> QED
      BY <1>2, <2>8, <3>1 DEF Taken, RefsOf, P!Refs
  <2> QED
    BY <2>11, <2>12
<1>8. CASE key \notin DOMAIN up
  <2>1. UNCHANGED <<loop, added, represented>>
    BY <1>1, <1>8
  <2>2. /\ Collected' /\ Typed' /\ Distinct' /\ OnOutputs'
        /\ MotorsKnown' /\ RefusedOnlyForConflicts'
        /\ WithInput' = WithInput /\ (WithInput \subseteq AllDevices)'
    BY <1>2, <1>5, <2>1, NoneTaken
  <2>3. ((DOMAIN down \cap DOMAIN up) \ unpaired)' = paired
    BY <1>1, <1>2, <1>8
  <2>4. Made'
    <3>1. (ShuttersOf((DOMAIN down \cap DOMAIN up) \ unpaired))' =
             ShuttersOf(((DOMAIN down \cap DOMAIN up) \ unpaired)')
      BY <1>2 DEF ShuttersOf, Shutter
    <3>2. loop' = "pairs" /\ (unpaired \subseteq DOMAIN down)'
      BY <1>1, <1>2, <1>3, <2>1
    <3> QED
      BY <1>3, <2>2, <2>3, <3>1, <3>2 DEF Made
  <2>5. Taken'
    BY <1>2, <1>3, <2>1, <2>2 DEF Taken, RefsOf, P!Refs
  <2> QED
    BY <2>2, <2>4, <2>5 DEF BuildInv
<1> QED
  BY <1>7, <1>8

LEMMA NextTurn ==
    ASSUME UNCHANGED <<channels, actions, down, up>>, n' = n + 1
    PROVE  /\ (ScenesUpTo(n))' = ScenesUpTo(n + 1) /\ (ButtonsUpTo(n))' = ButtonsUpTo(n + 1)
           /\ (ToolsUpTo(n))' = ToolsUpTo(n + 1)
<1>1. P!Channels' = P!Channels /\ ChannelDevices' = ChannelDevices /\ P!Taken' = P!Taken
  BY SameDevices DEF P!Taken
<1>2. (ScenesUpTo(n))' = ScenesUpTo(n + 1)
  BY <1>1 DEF ScenesUpTo
<1>3. (ButtonsUpTo(n))' = ButtonsUpTo(n + 1)
  <2>1. ASSUME NEW j PROVE IsButton(j)' = IsButton(j)
    BY <1>1 DEF IsButton
  <2> QED
    BY <1>1, <2>1 DEF ButtonsUpTo
<1>4. (ToolsUpTo(n))' = ToolsUpTo(n + 1)
  BY <1>1 DEF ToolsUpTo, RefsOf
<1> QED
  BY <1>2, <1>3, <1>4

LEMMA PairsEndKeeps == ASSUME BuildInv, P!PairsEnd PROVE BuildInv'
<1>1. /\ loop = "pairs" /\ unpaired = {} /\ loop' = "scenes"
      /\ UNCHANGED <<n, channels, actions, added, down, up, represented>>
  BY DEF P!PairsEnd
<1>2. /\ Collected /\ n' = 1 /\ WithInput = P!Pairs /\ represented = RefsOf(WithInput)
  BY <1>1, PairsAreShutters DEF BuildInv, Typed, Made, Taken
<1>3. /\ Collected' /\ Typed' /\ Distinct' /\ OnOutputs'
      /\ MotorsKnown' /\ RefusedOnlyForConflicts'
      /\ WithInput' = WithInput /\ (WithInput \subseteq AllDevices)'
  BY <1>1, <1>2, NoneTaken DEF InputLoops
<1>4. Made'
  <2>1. P!Pairs' = P!Pairs /\ (ScenesUpTo(1))' = {}
    BY <1>1, <1>2, SameDevices, NothingUpToOne
  <2> QED
    BY <1>1, <1>2, <1>3, <2>1 DEF Made
<1>5. Taken'
  BY <1>1, <1>2, <1>3 DEF Taken, RefsOf, P!Refs
<1> QED
  BY <1>3, <1>4, <1>5 DEF BuildInv

LEMMA SceneTurnKeeps == ASSUME BuildInv, P!SceneTurn PROVE BuildInv'
<1> DEFINE c == channels[n]
           isScene == /\ c.module = "EMD_VIR" /\ c.channelGroup = "Eingang"
                      /\ P!HasParts(c.text)
                      /\ P!KindOf(P!Parts(c.text).category) # "shutter"
           d == Scene(c)
<1>1. /\ loop = "scenes" /\ n <= Len(channels) /\ n' = n + 1
      /\ UNCHANGED <<channels, actions, down, up>>
      /\ IF isScene THEN P!Add(d) /\ represented' = represented \cup {P!Input(c)}
         ELSE UNCHANGED <<loop, added, represented>>
  BY DEF P!SceneTurn, P!Turn, Scene
<1>2. /\ Collected /\ MotorsKnown /\ n \in Nat /\ n \in 1..Len(channels)
      /\ n' \in Nat /\ n' >= 1 /\ loop \in InputLoops
      /\ WithInput = P!Pairs \cup ScenesUpTo(n) /\ represented = RefsOf(WithInput)
  BY <1>1, ChannelsAre DEF BuildInv, Typed, Made, Taken, InputLoops
<1>3. isScene <=> n \in P!Channels /\ IsScene(c)
  BY <1>2, ChannelsAre DEF IsScene, P!IsVirtual
<1>4. P!Pairs' = P!Pairs /\ (ScenesUpTo(n))' = ScenesUpTo(n + 1)
  BY <1>1, SameDevices, NextTurn
<1> HIDE DEF isScene
<1>5. CASE isScene
  <2>1. P!Add(d) /\ represented' = represented \cup {P!Input(c)}
    BY <1>1, <1>5
  <2>2. /\ n \in P!Channels /\ IsScene(c)
        /\ d.ref = P!Input(c) /\ d.ref \in InputRefs /\ P!Refs(d) = {P!Input(c)}
        /\ d.ref[2] = c.dip /\ d.ref[3] = c.channel
    BY <1>2, <1>3, <1>5, DevicesAre, InputsAre
  <2>3. ScenesUpTo(n + 1) = ScenesUpTo(n) \cup {d}
    BY <1>2, <2>2, OneTurnOn
  <2>4. d \in AllDevices
    BY <1>1, <1>2, <2>3, KnownDevices
  <2>5. ASSUME NEW e \in WithInput, e.ref = d.ref PROVE Conflict
    <3>1. CASE e \in P!Pairs
      <4>1. PICK key \in DOMAIN down : e = Shutter(key)
        BY <3>1, PairsAreShutters DEF ShuttersOf
      <4>2. PICK j \in P!Channels : /\ IsMotor(channels[j])
                                    /\ down[key] = P!Input(channels[j])
        BY <1>2, <4>1, MotorsAre
      <4>3. P!SameInput(j, n)
        BY <2>2, <2>5, <4>1, <4>2, DevicesAre DEF P!SameInput, IsMotor, IsScene, P!IsInputLike
      <4>4. j # n
        BY <2>2, <4>2 DEF IsMotor, IsScene
      <4> QED
        BY <2>2, <4>3, <4>4 DEF Conflict
    <3>2. CASE e \in ScenesUpTo(n)
      <4>1. PICK j \in P!Channels : j < n /\ IsScene(channels[j]) /\ e = Scene(channels[j])
        BY <3>2 DEF ScenesUpTo
      <4>2. j # n
        BY <1>2, <4>1
      <4>3. P!SameInput(j, n)
        BY <2>2, <2>5, <4>1, DevicesAre DEF P!SameInput, IsScene, P!IsInputLike
      <4> QED
        BY <2>2, <4>2, <4>3 DEF Conflict
    <3> QED
      BY <1>2, <3>1, <3>2
  <2>6. d.ref[2] < 0 \/ d.ref[3] < 0 => Conflict
    BY <2>2 DEF Conflict
  <2> HIDE DEF d
  <2>7. \/ BuildInv' /\ loop' = "failed"
        \/ /\ loop' = loop /\ Collected' /\ Typed' /\ Distinct' /\ OnOutputs'
           /\ MotorsKnown' /\ RefusedOnlyForConflicts'
           /\ WithInput' = WithInput \cup {d} /\ (WithInput \subseteq AllDevices)'
           /\ RefsOf(WithInput') = RefsOf(WithInput) \cup P!Refs(d)
    BY <1>1, <1>2, <2>1, <2>2, <2>4, <2>5, <2>6, InputTaken
  <2>8. SUFFICES ASSUME
           /\ loop' = loop /\ Collected' /\ Typed' /\ Distinct' /\ OnOutputs'
           /\ MotorsKnown' /\ RefusedOnlyForConflicts'
           /\ WithInput' = WithInput \cup {d} /\ (WithInput \subseteq AllDevices)'
           /\ RefsOf(WithInput') = RefsOf(WithInput) \cup P!Refs(d)
        PROVE Made' /\ Taken'
    BY <2>7 DEF BuildInv
  <2>9. Made'
    BY <1>1, <1>2, <1>4, <2>3, <2>8 DEF Made
  <2>10. Taken'
    <3>1. represented' = RefsOf(WithInput')
      BY <1>2, <2>1, <2>2, <2>8
    <3> QED
      BY <1>1, <2>8, <3>1 DEF Taken, RefsOf, P!Refs
  <2> QED
    BY <2>9, <2>10
<1>6. CASE ~isScene
  <2>1. UNCHANGED <<loop, added, represented>>
    BY <1>1, <1>6
  <2>2. /\ Collected' /\ Typed' /\ Distinct' /\ OnOutputs'
        /\ MotorsKnown' /\ RefusedOnlyForConflicts'
        /\ WithInput' = WithInput /\ (WithInput \subseteq AllDevices)'
    BY <1>1, <1>2, <2>1, NoneTaken DEF InputLoops
  <2>3. ScenesUpTo(n + 1) = ScenesUpTo(n)
    BY <1>2, <1>3, <1>6, OneTurnOn
  <2>4. Made'
    BY <1>1, <1>2, <1>4, <2>1, <2>2, <2>3 DEF Made
  <2>5. Taken'
    BY <1>1, <1>2, <2>1, <2>2 DEF Taken, RefsOf, P!Refs
  <2> QED
    BY <2>2, <2>4, <2>5 DEF BuildInv
<1> QED
  BY <1>5, <1>6

LEMMA ScenesEndKeeps == ASSUME BuildInv, P!ScenesEnd PROVE BuildInv'
<1>1. /\ loop = "scenes" /\ n > Len(channels) /\ loop' = "buttons" /\ n' = 1
      /\ UNCHANGED <<channels, actions, added, down, up, represented>>
  BY DEF P!ScenesEnd, P!Ends
<1>2. /\ Collected /\ n \in Nat /\ WithInput = P!Pairs \cup ScenesUpTo(n)
      /\ represented = RefsOf(WithInput)
  BY <1>1 DEF BuildInv, Typed, Made, Taken
<1>3. /\ Collected' /\ Typed' /\ Distinct' /\ OnOutputs'
      /\ MotorsKnown' /\ RefusedOnlyForConflicts'
      /\ WithInput' = WithInput /\ (WithInput \subseteq AllDevices)'
  BY <1>1, <1>2, NoneTaken DEF InputLoops
<1>4. ScenesUpTo(n) = P!Scenes
  BY <1>1, <1>2, AllUpToTheEnd
<1>5. Made'
  <2>1. P!Pairs' = P!Pairs /\ P!Scenes' = P!Scenes /\ (ButtonsUpTo(1))' = {}
    BY <1>1, <1>2, SameDevices, NothingUpToOne
  <2> QED
    BY <1>1, <1>2, <1>3, <1>4, <2>1 DEF Made
<1>6. Taken'
  <2>1. \A k \in P!Channels' : ~(k < 1)
    BY <1>1, <1>2, ChannelsAre, SameDevices
  <2> QED
    BY <1>1, <1>2, <1>3, <2>1 DEF Taken, RefsOf, P!Refs
<1> QED
  BY <1>3, <1>5, <1>6 DEF BuildInv

(* An input is free at its turn exactly when a button is to be made of it. *)
LEMMA FreeInputs ==
    ASSUME BuildInv, loop = "buttons", n \in P!Channels, P!IsInputChannel(channels[n])
    PROVE  P!Input(channels[n]) \notin represented <=> IsButton(n)
<1> DEFINE ref == P!Input(channels[n])
<1>1. /\ Collected /\ n \in Nat
      /\ WithInput = P!Pairs \cup P!Scenes \cup ButtonsUpTo(n)
      /\ represented = RefsOf(WithInput)
      /\ \A k \in P!Channels :
           k < n /\ P!IsInputChannel(channels[k]) => P!Input(channels[k]) \in represented
  BY DEF BuildInv, Typed, Made, Taken
<1>2. P!Taken = RefsOf(P!Pairs \cup P!Scenes)
  BY DEF P!Taken, RefsOf
<1>3. represented = P!Taken \cup RefsOf(ButtonsUpTo(n))
  BY <1>1, <1>2, RefsAre
<1>4. ASSUME ref \notin represented PROVE IsButton(n)
  BY <1>1, <1>3, <1>4 DEF IsButton
<1>5. ASSUME IsButton(n), ref \in represented PROVE FALSE
  <2>1. ref \in RefsOf(ButtonsUpTo(n))
    BY <1>3, <1>5 DEF IsButton
  <2>2. PICK j \in P!Channels : j < n /\ IsButton(j) /\ ref \in P!Refs(Button(channels[j]))
    BY <2>1 DEF RefsOf, ButtonsUpTo
  <2>3. ref = P!Input(channels[j]) /\ P!IsInputChannel(channels[j])
    BY <2>2, DevicesAre DEF IsButton
  <2> QED
    BY <1>5, <2>2, <2>3 DEF IsButton
<1> QED
  BY <1>4, <1>5

LEMMA ButtonTurnKeeps == ASSUME BuildInv, P!ButtonTurn PROVE BuildInv'
<1> DEFINE c == channels[n]
           isFree == P!IsInputChannel(c) /\ P!HasParts(c.text) /\ P!Input(c) \notin represented
           d == Button(c)
           exposed == \A k \in P!Channels : k < n + 1 /\ P!IsInputChannel(channels[k])
                        => P!Input(channels[k]) \in represented'
<1>1. /\ loop = "buttons" /\ n <= Len(channels) /\ n' = n + 1
      /\ UNCHANGED <<channels, actions, down, up>>
      /\ IF isFree THEN P!Add(d) /\ represented' = represented \cup {P!Input(c)}
         ELSE UNCHANGED <<loop, added, represented>>
  BY DEF P!ButtonTurn, P!Turn, Button
<1>2. /\ Collected /\ n \in Nat /\ n \in 1..Len(channels)
      /\ n' \in Nat /\ n' >= 1 /\ loop \in InputLoops
      /\ WithInput = P!Pairs \cup P!Scenes \cup ButtonsUpTo(n)
      /\ represented = RefsOf(WithInput)
      /\ \A k \in P!Channels :
           k < n /\ P!IsInputChannel(channels[k]) => P!Input(channels[k]) \in represented
  BY <1>1, ChannelsAre DEF BuildInv, Typed, Made, Taken, InputLoops
<1>3. isFree <=> n \in P!Channels /\ IsButton(n)
  <2>1. P!HasParts(c.text) <=> n \in P!Channels
    BY <1>2, ChannelsAre
  <2> QED
    BY <1>1, <2>1, FreeInputs DEF IsButton
<1>4. /\ P!Pairs' = P!Pairs /\ P!Scenes' = P!Scenes /\ P!Channels' = P!Channels
      /\ (ButtonsUpTo(n))' = ButtonsUpTo(n + 1)
  BY <1>1, SameDevices, NextTurn
<1>5. represented \subseteq represented' /\ (isFree => P!Input(c) \in represented')
  BY <1>1
<1>6. exposed
  <2> SUFFICES ASSUME NEW k \in P!Channels, k < n + 1, P!IsInputChannel(channels[k])
               PROVE  P!Input(channels[k]) \in represented'
    OBVIOUS
  <2>1. k < n \/ k = n
    BY <1>2, ChannelsAre
  <2>2. CASE k < n
    BY <1>2, <1>5, <2>2
  <2>3. CASE k = n
    <3>1. P!HasParts(c.text)
      BY <1>2, <2>3, ChannelsAre
    <3> QED
      BY <1>5, <2>3, <3>1
  <2> QED
    BY <2>1, <2>2, <2>3
<1>7. (\A k \in P!Channels : k < n /\ P!IsInputChannel(channels[k])
         => P!Input(channels[k]) \in represented)'
  BY <1>1, <1>4, <1>6
<1> HIDE DEF isFree, exposed
<1>8. CASE isFree
  <2>1. P!Add(d) /\ represented' = represented \cup {P!Input(c)}
    BY <1>1, <1>8
  <2>2. /\ n \in P!Channels /\ IsButton(n) /\ P!Input(c) \notin represented
        /\ d.ref = P!Input(c) /\ d.ref \in InputRefs /\ P!Refs(d) = {P!Input(c)}
        /\ d.ref[2] = c.dip /\ d.ref[3] = c.channel /\ d.ref # NoInput
    BY <1>2, <1>3, <1>8, DevicesAre, InputsAre DEF isFree
  <2>3. ButtonsUpTo(n + 1) = ButtonsUpTo(n) \cup {d}
    BY <1>2, <2>2, OneTurnOn
  <2>4. d \in AllDevices
    BY <1>1, <1>2, <2>3, KnownDevices
  <2>5. ASSUME NEW e \in WithInput, e.ref = d.ref PROVE Conflict
    BY <1>2, <2>2, <2>5, RefsAre
  <2>6. d.ref[2] < 0 \/ d.ref[3] < 0 => Conflict
    BY <2>2 DEF Conflict
  <2> HIDE DEF d
  <2>7. \/ BuildInv' /\ loop' = "failed"
        \/ /\ loop' = loop /\ Collected' /\ Typed' /\ Distinct' /\ OnOutputs'
           /\ MotorsKnown' /\ RefusedOnlyForConflicts'
           /\ WithInput' = WithInput \cup {d} /\ (WithInput \subseteq AllDevices)'
           /\ RefsOf(WithInput') = RefsOf(WithInput) \cup P!Refs(d)
    BY <1>1, <1>2, <2>1, <2>2, <2>4, <2>5, <2>6, InputTaken
  <2>8. SUFFICES ASSUME
           /\ loop' = loop /\ Collected' /\ Typed' /\ Distinct' /\ OnOutputs'
           /\ MotorsKnown' /\ RefusedOnlyForConflicts'
           /\ WithInput' = WithInput \cup {d} /\ (WithInput \subseteq AllDevices)'
           /\ RefsOf(WithInput') = RefsOf(WithInput) \cup P!Refs(d)
        PROVE Made' /\ Taken'
    BY <2>7 DEF BuildInv
  <2>9. Made'
    BY <1>1, <1>2, <1>4, <2>3, <2>8 DEF Made
  <2>10. Taken'
    <3>1. represented' = RefsOf(WithInput')
      BY <1>2, <2>1, <2>2, <2>8
    <3>2. (RefsOf(WithInput))' = RefsOf(WithInput')
      BY DEF RefsOf, P!Refs
    <3> QED
      BY <1>1, <1>7, <2>8, <3>1, <3>2 DEF Taken
  <2> QED
    BY <2>9, <2>10
<1>9. CASE ~isFree
  <2>1. UNCHANGED <<loop, added, represented>>
    BY <1>1, <1>9
  <2>2. /\ Collected' /\ Typed' /\ Distinct' /\ OnOutputs'
        /\ MotorsKnown' /\ RefusedOnlyForConflicts'
        /\ WithInput' = WithInput /\ (WithInput \subseteq AllDevices)'
    BY <1>1, <1>2, <2>1, NoneTaken DEF InputLoops
  <2>3. ButtonsUpTo(n + 1) = ButtonsUpTo(n)
    BY <1>2, <1>3, <1>9, OneTurnOn
  <2>4. Made'
    BY <1>1, <1>2, <1>4, <2>1, <2>2, <2>3 DEF Made
  <2>5. Taken'
    <3>1. (RefsOf(WithInput))' = RefsOf(WithInput')
      BY DEF RefsOf, P!Refs
    <3> QED
      BY <1>1, <1>2, <1>7, <2>1, <2>2, <3>1 DEF Taken
  <2> QED
    BY <2>2, <2>4, <2>5 DEF BuildInv
<1> QED
  BY <1>8, <1>9

LEMMA ButtonsEndKeeps == ASSUME BuildInv, P!ButtonsEnd PROVE BuildInv'
<1>1. /\ loop = "buttons" /\ n > Len(channels) /\ loop' = "tools" /\ n' = 1
      /\ UNCHANGED <<channels, actions, added, down, up, represented>>
  BY DEF P!ButtonsEnd, P!Ends
<1>2. /\ Collected /\ n \in Nat /\ WithInput = P!Pairs \cup P!Scenes \cup ButtonsUpTo(n)
      /\ represented = RefsOf(WithInput)
      /\ \A k \in P!Channels :
           k < n /\ P!IsInputChannel(channels[k]) => P!Input(channels[k]) \in represented
  BY <1>1 DEF BuildInv, Typed, Made, Taken
<1>3. /\ Collected' /\ Typed' /\ Distinct' /\ OnOutputs'
      /\ MotorsKnown' /\ RefusedOnlyForConflicts'
      /\ WithInput' = WithInput /\ (WithInput \subseteq AllDevices)'
  BY <1>1, <1>2, NoneTaken DEF InputLoops
<1>4. WithInput = ChannelDevices
  BY <1>1, <1>2, AllUpToTheEnd DEF ChannelDevices
<1>5. /\ ChannelDevices' = ChannelDevices /\ (ToolsUpTo(1))' = {}
      /\ P!Channels' = P!Channels
  BY <1>1, <1>2, SameDevices, NothingUpToOne
<1>6. Made'
  BY <1>1, <1>3, <1>4, <1>5 DEF Made
<1>7. Taken'
  <2>1. \A k \in P!Channels : k < n
    BY <1>1, <1>2, ChannelsAre
  <2>2. (\A k \in P!Channels : P!IsInputChannel(channels[k])
           => P!Input(channels[k]) \in represented)'
    BY <1>1, <1>2, <1>5, <2>1
  <2>3. (RefsOf(ChannelDevices))' = RefsOf(ChannelDevices)
    BY <1>5 DEF RefsOf, P!Refs
  <2> QED
    BY <1>1, <1>2, <1>4, <2>2, <2>3 DEF Taken
<1> QED
  BY <1>3, <1>6, <1>7 DEF BuildInv

LEMMA ToolTurnKeeps == ASSUME BuildInv, P!ToolTurn PROVE BuildInv'
<1> DEFINE a == actions[n]
           d == ToolDevice(a)
<1>1. /\ loop = "tools" /\ n <= Len(actions) /\ n' = n + 1
      /\ UNCHANGED <<channels, actions, down, up, represented>>
      /\ IF a.ref \in represented THEN UNCHANGED <<loop, added>> ELSE P!Add(d)
  BY DEF P!ToolTurn, ToolDevice
<1>2. /\ Collected /\ n \in Nat /\ n \in 1..Len(actions)
      /\ n' \in Nat /\ n' >= 1 /\ loop \in InputLoops
      /\ WithInput = ChannelDevices \cup ToolsUpTo(n)
      /\ represented = RefsOf(ChannelDevices)
      /\ \A k \in P!Channels :
           P!IsInputChannel(channels[k]) => P!Input(channels[k]) \in represented
  BY <1>1, ChannelsAre DEF BuildInv, Typed, Made, Taken, InputLoops
<1>3. /\ ChannelDevices' = ChannelDevices /\ P!Channels' = P!Channels
      /\ (ToolsUpTo(n))' = ToolsUpTo(n + 1)
  BY <1>1, SameDevices, NextTurn
<1>4. ASSUME loop' = loop PROVE Taken'
  <2>1. (\A k \in P!Channels : P!IsInputChannel(channels[k])
           => P!Input(channels[k]) \in represented)'
    BY <1>1, <1>2, <1>3
  <2>2. (RefsOf(ChannelDevices))' = RefsOf(ChannelDevices)
    BY <1>3 DEF RefsOf, P!Refs
  <2> QED
    BY <1>1, <1>2, <1>4, <2>1, <2>2 DEF Taken
<1>5. CASE a.ref \in represented
  <2>1. UNCHANGED <<loop, added, represented>>
    BY <1>1, <1>5
  <2>2. /\ Collected' /\ Typed' /\ Distinct' /\ OnOutputs'
        /\ MotorsKnown' /\ RefusedOnlyForConflicts'
        /\ WithInput' = WithInput /\ (WithInput \subseteq AllDevices)'
    BY <1>1, <1>2, <2>1, NoneTaken DEF InputLoops
  <2>3. ToolsUpTo(n + 1) = ToolsUpTo(n)
    BY <1>2, <1>5, OneToolOn
  <2>4. Made'
    BY <1>1, <1>2, <1>3, <2>1, <2>2, <2>3 DEF Made
  <2> QED
    BY <1>4, <2>1, <2>2, <2>4 DEF BuildInv
<1>6. CASE a.ref \notin represented
  <2>1. P!Add(d)
    BY <1>1, <1>6
  <2>2. /\ a.ref \in {"emd"} \X Nat \X Nat /\ d.ref = a.ref
        /\ d.ref \in InputRefs /\ d.ref # NoInput /\ d.ref[2] >= 0 /\ d.ref[3] >= 0
    <3>1. a.ref \in {"emd"} \X Nat \X Nat
      BY <1>2 DEF Collected
    <3>2. \A ref \in {"emd"} \X Nat \X Nat :
            ref \in InputRefs /\ ref[2] \in Nat /\ ref[3] \in Nat
      BY DEF InputRefs
    <3>3. \A ref \in InputRefs : ref # NoInput
      BY NoInputAssumption DEF InputRefs
    <3> QED
      BY <3>1, <3>2, <3>3, DevicesAre
  <2>3. ToolsUpTo(n + 1) = ToolsUpTo(n) \cup {d}
    BY <1>2, <1>6, OneToolOn
  <2>4. d \in AllDevices
    BY <1>1, <1>2, <2>3, KnownDevices
  <2>5. ASSUME NEW e \in WithInput, e.ref = d.ref PROVE Conflict
    <3>1. e \notin ChannelDevices
      BY <1>2, <1>6, <2>2, <2>5, RefsAre
    <3>2. PICK j \in 1..Len(actions) : j < n /\ e = ToolDevice(actions[j])
      BY <1>2, <3>1 DEF ToolsUpTo
    <3>3. j # n /\ actions[j].ref = actions[n].ref
      BY <1>2, <2>2, <2>5, <3>2, DevicesAre
    <3> QED
      BY <1>2, <3>3 DEF Conflict
  <2>6. ~(d.ref[2] < 0 \/ d.ref[3] < 0)
    <3>1. d.ref[2] \in Int /\ d.ref[3] \in Int
      BY <2>2 DEF InputRefs
    <3> QED
      BY <2>2, <3>1
  <2> HIDE DEF d
  <2>7. \/ BuildInv' /\ loop' = "failed"
        \/ /\ loop' = loop /\ Collected' /\ Typed' /\ Distinct' /\ OnOutputs'
           /\ MotorsKnown' /\ RefusedOnlyForConflicts'
           /\ WithInput' = WithInput \cup {d} /\ (WithInput \subseteq AllDevices)'
           /\ RefsOf(WithInput') = RefsOf(WithInput) \cup P!Refs(d)
    BY <1>1, <1>2, <2>1, <2>2, <2>4, <2>5, <2>6, InputTaken
  <2>8. SUFFICES ASSUME
           /\ loop' = loop /\ Collected' /\ Typed' /\ Distinct' /\ OnOutputs'
           /\ MotorsKnown' /\ RefusedOnlyForConflicts'
           /\ WithInput' = WithInput \cup {d} /\ (WithInput \subseteq AllDevices)'
           /\ RefsOf(WithInput') = RefsOf(WithInput) \cup P!Refs(d)
        PROVE Made' /\ Taken'
    BY <2>7 DEF BuildInv
  <2>9. Made'
    BY <1>1, <1>2, <1>3, <2>3, <2>8 DEF Made
  <2> QED
    BY <1>4, <2>8, <2>9
<1> QED
  BY <1>5, <1>6

LEMMA ToolsEndKeeps == ASSUME BuildInv, P!ToolsEnd PROVE BuildInv'
<1>1. /\ loop = "tools" /\ n > Len(actions) /\ loop' = "done"
      /\ UNCHANGED <<n, channels, actions, added, down, up, represented>>
  BY DEF P!ToolsEnd
<1>2. /\ Collected /\ n \in Nat /\ n >= 1 /\ WithInput = ChannelDevices \cup ToolsUpTo(n)
      /\ represented = RefsOf(ChannelDevices)
      /\ \A k \in P!Channels :
           P!IsInputChannel(channels[k]) => P!Input(channels[k]) \in represented
  BY <1>1 DEF BuildInv, Typed, Made, Taken
<1>3. /\ Collected' /\ Typed' /\ Distinct' /\ OnOutputs'
      /\ MotorsKnown' /\ RefusedOnlyForConflicts'
      /\ WithInput' = WithInput /\ (WithInput \subseteq AllDevices)'
  BY <1>1, <1>2, NoneTaken DEF InputLoops
<1>4. /\ ChannelDevices' = ChannelDevices /\ P!Channels' = P!Channels
  BY <1>1, SameDevices
<1>5. (ToolsUpTo(n))' = ToolsUpTo(n)
  BY <1>1, <1>4 DEF ToolsUpTo, RefsOf
<1>6. Made'
  BY <1>1, <1>2, <1>3, <1>4, <1>5 DEF Made
<1>7. Taken'
  <2>1. (\A k \in P!Channels : P!IsInputChannel(channels[k])
           => P!Input(channels[k]) \in represented)'
    BY <1>1, <1>2, <1>4
  <2>2. (RefsOf(ChannelDevices))' = RefsOf(ChannelDevices)
    BY <1>4 DEF RefsOf, P!Refs
  <2> QED
    BY <1>1, <1>2, <2>1, <2>2 DEF Taken
<1> QED
  BY <1>3, <1>6, <1>7 DEF BuildInv

-----------------------------------------------------------------------------
(* Every state.                                                            *)

LEMMA StartsEmpty ==
    ASSUME P!NothingParsed
    PROVE  BuildInv
<1>1. /\ loop = "idle" /\ n = 1 /\ channels = <<>> /\ actions = <<>> /\ added = <<>>
      /\ down = <<>> /\ up = <<>> /\ represented = {}
  BY DEF P!NothingParsed
<1>2. IsSeq(<<>>) /\ Len(<<>>) = 0 /\ 1..0 = {}
  <2>1. <<>> \in Seq({}) /\ Len(<<>>) = 0 /\ 1..0 = {}
    OBVIOUS
  <2>2. IsSeq(<<>>)
    BY <2>1, SeqIsSeq
  <2> QED
    BY <2>1, <2>2
<1>3. Collected /\ IsSeq(added)
  BY <1>1, <1>2 DEF Collected
<1>4. Typed
  BY <1>1, <1>3 DEF Typed, Loops
<1>5. Distinct /\ OnOutputs /\ WithInput = {}
  BY <1>1, <1>2 DEF Distinct, OnOutputs, WithInput
<1>6. MotorsKnown
  <2>1. DOMAIN down = {} /\ DOMAIN up = {}
    BY <1>1
  <2> QED
    BY <2>1 DEF MotorsKnown, Motors
<1>7. Made
  BY <1>1, <1>5 DEF Made
<1>8. Taken
  BY <1>1, <1>5, RefsAre DEF Taken
<1>9. RefusedOnlyForConflicts
  BY <1>1 DEF RefusedOnlyForConflicts, P!RefusedOnlyForConflicts
<1> QED
  BY <1>3, <1>4, <1>5, <1>6, <1>7, <1>8, <1>9 DEF BuildInv

LEMMA BuildStutters ==
    ASSUME BuildInv, UNCHANGED parserVars
    PROVE  BuildInv'
<1>1. UNCHANGED <<loop, n, channels, actions, added, down, up, unpaired, represented, floors>>
  BY DEF parserVars
<1>2. n \in Nat /\ n' \in Nat /\ n' >= n
  BY <1>1 DEF BuildInv, Typed
<1>3. /\ Collected' /\ IsSeq(added') /\ Distinct' /\ OnOutputs' /\ MotorsKnown'
      /\ WithInput' = WithInput /\ (WithInput \subseteq AllDevices)'
  BY <1>1, <1>2, Unmoved
<1>4. /\ P!Channels' = P!Channels /\ P!Pairs' = P!Pairs /\ P!Scenes' = P!Scenes
      /\ ChannelDevices' = ChannelDevices
  BY <1>1, SameDevices
<1>5. Typed'
  BY <1>1, <1>3 DEF BuildInv, Typed, P!NothingParsed
<1>6. Made'
  <2>1. (ShuttersOf((DOMAIN down \cap DOMAIN up) \ unpaired))' =
           ShuttersOf((DOMAIN down \cap DOMAIN up) \ unpaired)
    BY <1>1 DEF ShuttersOf, Shutter
  <2>2. (ScenesUpTo(n))' = ScenesUpTo(n)
    BY <1>1, <1>4 DEF ScenesUpTo
  <2>3. (ButtonsUpTo(n))' = ButtonsUpTo(n)
    <3>1. P!Taken' = P!Taken
      BY <1>4 DEF P!Taken
    <3>2. ASSUME NEW j PROVE IsButton(j)' = IsButton(j)
      BY <1>1, <1>4, <3>1 DEF IsButton
    <3> QED
      BY <1>1, <1>4, <3>2 DEF ButtonsUpTo
  <2>4. (ToolsUpTo(n))' = ToolsUpTo(n)
    BY <1>1, <1>4 DEF ToolsUpTo, RefsOf
  <2> QED
    BY <1>1, <1>3, <1>4, <2>1, <2>2, <2>3, <2>4 DEF BuildInv, Made
<1>7. Taken'
  <2>1. (RefsOf(WithInput))' = RefsOf(WithInput) /\ (RefsOf(ChannelDevices))' = RefsOf(ChannelDevices)
    BY <1>3, <1>4 DEF RefsOf, P!Refs
  <2> QED
    BY <1>1, <1>4, <2>1 DEF BuildInv, Taken
<1>8. RefusedOnlyForConflicts'
  <2>1. Conflict' = Conflict
    BY <1>1, <1>4 DEF Conflict, P!SameInput, P!SameOutput, P!IsInputLike, P!IsInputChannel,
                      P!IsVirtual, P!Input, P!Output
  <2> QED
    BY <1>1, <2>1 DEF BuildInv, Conflict, RefusedOnlyForConflicts, P!RefusedOnlyForConflicts
<1> QED
  BY <1>3, <1>5, <1>6, <1>7, <1>8 DEF BuildInv

LEMMA BuildKeeps == ASSUME BuildInv, P!Build PROVE BuildInv'
  BY OutputTurnKeeps, OutputsEndKeeps, MotorTurnKeeps, MotorsEndKeeps, PairTurnKeeps,
     PairsEndKeeps, SceneTurnKeeps, ScenesEndKeeps, ButtonTurnKeeps, ButtonsEndKeeps,
     ToolTurnKeeps, ToolsEndKeeps DEF P!Build

(* Parse, or a project that could not be read.                             *)
LEMMA ReadKeeps ==
    ASSUME loop = "idle", BuildInv, Collected', loop' \in {"unreadable", "outputs"},
           UNCHANGED <<n, added, down, up, unpaired, represented>>
    PROVE  BuildInv'
<1>1. n = 1 /\ added = <<>> /\ down = <<>> /\ up = <<>> /\ represented = {}
  BY DEF BuildInv, Typed, P!NothingParsed
<1>2. IsSeq(added') /\ Len(added') = 0 /\ 1..0 = {}
  BY <1>1 DEF BuildInv, Typed, IsSeq
<1>3. Typed'
  BY <1>1, <1>2 DEF Typed, Loops
<1>4. Distinct' /\ OnOutputs' /\ WithInput' = {}
  BY <1>2 DEF Distinct, OnOutputs, WithInput
<1>5. MotorsKnown'
  <2>1. DOMAIN down' = {} /\ DOMAIN up' = {}
    BY <1>1
  <2> QED
    BY <2>1 DEF MotorsKnown, Motors
<1>6. Made'
  BY <1>1, <1>4 DEF Made
<1>7. Taken'
  BY <1>1, <1>4 DEF Taken, RefsOf
<1>8. RefusedOnlyForConflicts'
  BY NoConflictYet
<1> QED
  BY <1>3, <1>4, <1>5, <1>6, <1>7, <1>8 DEF BuildInv

LEMMA ExtractAndParseKeeps == ASSUME BuildInv, ExtractAndParse PROVE BuildInv'
<1>1. loop = "idle"
  BY DEF ExtractAndParse
<1>2. ASSUME loop' = "unreadable",
             UNCHANGED <<n, channels, actions, added, down, up, unpaired, represented, floors>>
      PROVE  BuildInv'
  <2>1. Collected'
    BY <1>2 DEF BuildInv, Collected, IsSeq
  <2> QED
    BY <1>1, <1>2, <2>1, ReadKeeps
<1>3. ASSUME NEW p \in Projects, NEW files \in FilesOf[p], NEW archive,
             P!Parse(files.ppfx, IF \E e \in D!Extract(archive, MaxZIPEntries, MaxEntryBytes) :
                                      e.name = "project.tpfx"
                                   THEN {files.tpfx} ELSE {})
      PROVE  BuildInv'
  <2> DEFINE tpfx == IF \E e \in D!Extract(archive, MaxZIPEntries, MaxEntryBytes) :
                           e.name = "project.tpfx"
                       THEN {files.tpfx} ELSE {}
  <2>1. files.ppfx \in Seq(P!PPFXElements)
        /\ \A file \in tpfx : file \in Seq(P!TPFXElements)
    BY FilesAssumption
  <2>2. P!Parse(files.ppfx, tpfx)
    BY <1>3
  <2> HIDE DEF tpfx
  <2>3. Collected'
    BY <2>1, <2>2, ParseCollects
  <2>4. /\ loop' \in {"unreadable", "outputs"}
        /\ UNCHANGED <<n, added, down, up, unpaired, represented>>
    BY <2>2 DEF P!Parse
  <2> QED
    BY <1>1, <2>3, <2>4, ReadKeeps
<1>4. \/ /\ loop' = "unreadable"
         /\ UNCHANGED <<n, channels, actions, added, down, up, unpaired, represented, floors>>
      \/ \E p \in Opened : \E archive \in ArchivesOf[p] : \E files \in FilesOf[p] :
           P!Parse(files.ppfx, IF \E e \in D!Extract(archive, MaxZIPEntries, MaxEntryBytes) :
                                    e.name = "project.tpfx"
                                 THEN {files.tpfx} ELSE {})
  BY DEF ExtractAndParse
<1>5. \A p \in Opened : p \in Projects
  BY DEF Opened
<1> QED
  BY <1>2, <1>3, <1>4, <1>5

LEMMA Invariance == FairSpec => []BuildInv
<1>1. Init => BuildInv
  BY StartsEmpty DEF Init
<1>2. BuildInv /\ [Next]_vars => BuildInv'
  <2> SUFFICES ASSUME BuildInv, [Next]_vars PROVE BuildInv'
    OBVIOUS
  <2>1. CASE BuildProject
    BY <2>1, BuildKeeps DEF BuildProject
  <2>2. CASE ExtractAndParse
    BY <2>2, ExtractAndParseKeeps
  <2>3. CASE Next /\ ~BuildProject /\ ~ExtractAndParse
    <3>1. UNCHANGED parserVars
      BY <2>3 DEF Next, EditProject, AskChunk, ChunkBegins, OperationBegins, CallSTM,
         STMAnswersChunk, STMAnswersTelegram, STMAnswersInput, Answer, ClientStep,
         Timeout, ChunkArrives, ChunkFails, CommandCallReturns, Stop, vars
    <3> QED
      BY <3>1, BuildStutters
  <2>4. CASE UNCHANGED vars
    BY <2>4, BuildStutters DEF vars
  <2> QED
    BY <2>1, <2>2, <2>3, <2>4
<1> QED
  BY <1>1, <1>2, PTL DEF FairSpec

(* A project is refused for a channel without an address, an address that  *)
(* is there twice, or two tools of the same input, and for nothing else:   *)
(* however the loops meet a channel, none of them takes what another took  *)
(* (parser.go:172, 344).                                                   *)
THEOREM OnlyConflictsAreRefused == FairSpec => []RefusedOnlyForConflicts
<1>1. BuildInv => RefusedOnlyForConflicts
  BY DEF BuildInv
<1> QED
  BY <1>1, Invariance, PTL

-----------------------------------------------------------------------------
(* Numbers in texts.                                                       *)

AllDigits(text) == text # <<>> /\ \A k \in 1..Len(text) : P!IsDigit(text[k])

LEMMA LettersAre ==
    /\ Letters = DOMAIN Code /\ Words = P!Texts
    /\ \A letter \in Letters : Code[letter] \in Int /\ P!Digit(letter) \in Int
    /\ \A letter \in Letters : P!IsDigit(letter) => P!Digit(letter) \in Nat
<1>1. Letters = DOMAIN Code
  BY CodeAssumption DEF Letters
<1>2. \A letter \in Letters : Code[letter] \in Int
  BY <1>1, CodeAssumption
<1> QED
  BY <1>1, <1>2 DEF Words, P!Texts, P!Digit, P!IsDigit

LEMMA SubTexts ==
    ASSUME NEW text \in Words, NEW j \in Nat, j >= 1, NEW k \in Int, k <= Len(text)
    PROVE  /\ SubSeq(text, j, k) \in Words /\ Len(text) \in Nat
           /\ Len(SubSeq(text, j, k)) = IF j <= k THEN k - j + 1 ELSE 0
           /\ \A m \in 1..(k - j + 1) : SubSeq(text, j, k)[m] = text[j + m - 1]
  BY DEF Words

(* What parseIntOr makes of digits is a number, of anything else it is the *)
(* fallback (parser.go:561).                                               *)
LEMMA NumberRead ==
    ASSUME NEW text \in Words, AllDigits(text)
    PROVE  P!IntOr(text, 0) \in Nat
<1> DEFINE digits == {letter \in Letters : P!IsDigit(letter)}
           step == [p \in Nat \X digits |-> 10 * p[1] + P!Digit(p[2])]
           Reads(f) == f = [k \in 0..Len(text) |->
                              IF k = 0 THEN 0 ELSE 10 * f[k - 1] + P!Digit(text[k])]
<1>1. text \in Seq(digits) /\ Len(text) \in Nat
  <2>1. \A k \in 1..Len(text) : text[k] \in digits
    BY DEF AllDigits, Words
  <2> HIDE DEF digits
  <2> QED
    BY <2>1 DEF Words
<1>2. \A v \in Nat, letter \in digits : 10 * v + P!Digit(letter) \in Nat
  BY LettersAre
<1>3. P!IntOr(text, 0) = (CHOOSE f : Reads(f))[Len(text)]
  BY DEF P!IntOr, AllDigits
<1> HIDE DEF digits
<1>4. /\ step \in [Nat \X digits -> Nat]
      /\ \A v \in Nat, letter \in digits : step[<<v, letter>>] = 10 * v + P!Digit(letter)
  BY <1>2
<1> HIDE DEF step
<1>5. PICK f \in [0..Len(text) -> Nat] : Steps(f, step, text, 0)
  BY <1>1, <1>4, StepsExist
<1>6. Reads(f)
  <2>1. ASSUME NEW k \in 1..Len(text) PROVE f[k] = 10 * f[k - 1] + P!Digit(text[k])
    <3>1. k \in 0..Len(text) /\ k - 1 \in 0..Len(text) /\ text[k] \in digits
      BY <1>1
    <3>2. f[k - 1] \in Nat
      BY <1>5, <3>1
    <3> QED
      BY <1>4, <1>5, <3>1, <3>2 DEF Steps
  <2>2. \A k \in 0..Len(text) :
           f[k] = IF k = 0 THEN 0 ELSE 10 * f[k - 1] + P!Digit(text[k])
    BY <1>1, <1>5, <2>1 DEF Steps
  <2> QED
    BY <1>5, <2>2
<1>7. ASSUME NEW g, Reads(g) PROVE g[Len(text)] \in Nat
  <2>1. g[0] = 0 /\ \A k \in 1..Len(text) : g[k] = 10 * g[k - 1] + P!Digit(text[k])
    BY <1>1, <1>7
  <2>2. \A k \in 1..Len(text) : g[k - 1] \in Nat => g[k] \in Nat
    <3>1. \A k \in 1..Len(text) : text[k] \in digits
      BY <1>1
    <3> QED
      BY <1>2, <2>1, <3>1
  <2>3. \A k \in 0..Len(text) : g[k] \in Nat
    <3> DEFINE S == Nat
    <3>1. g[0] \in S /\ Len(text) \in Nat
          /\ \A k \in 1..Len(text) : g[k - 1] \in S => g[k] \in S
      BY <1>1, <2>1, <2>2
    <3> HIDE DEF S
    <3>2. \A k \in 0..Len(text) : g[k] \in S
      BY <3>1, StaysIn
    <3> QED
      BY <3>2 DEF S
  <2> QED
    BY <1>1, <2>3
<1> QED
  BY <1>3, <1>6, <1>7

LEMMA NumbersAre ==
    ASSUME NEW text \in Words, NEW fallback \in Int
    PROVE  /\ P!IntOr(text, fallback) = IF AllDigits(text) THEN P!IntOr(text, 0) ELSE fallback
           /\ P!IntOr(text, 0) \in Nat /\ P!IntOr(text, fallback) \in Int
<1>1. P!IntOr(text, fallback) = IF AllDigits(text) THEN P!IntOr(text, 0) ELSE fallback
  BY DEF P!IntOr, AllDigits
<1>2. ~AllDigits(text) => P!IntOr(text, 0) = 0
  BY DEF P!IntOr, AllDigits
<1> QED
  BY <1>1, <1>2, NumberRead

-----------------------------------------------------------------------------
(* The run of digits at a place ends where the next letter is none.        *)

EndsRun(text, k, e) ==
    /\ e \in k..(Len(text) + 1)
    /\ \A j \in k..(e - 1) : P!IsDigit(text[j])
    /\ e = Len(text) + 1 \/ ~P!IsDigit(text[e])

LEMMA RunEnds ==
    ASSUME NEW text \in Words, NEW k \in 1..(Len(text) + 1)
    PROVE  /\ EndsRun(text, k, P!RunEnd(text, k))
           /\ \A e : EndsRun(text, k, e) => e = P!RunEnd(text, k)
           /\ k <= Len(text) /\ P!IsDigit(text[k]) => P!RunEnd(text, k) > k
           /\ P!RunEnd(text, k) \in Nat /\ P!RunValue(text, k) \in Nat
<1> DEFINE ends == {j \in k..Len(text) + 1 : j = Len(text) + 1 \/ ~P!IsDigit(text[j])}
           First(e) == e \in ends /\ \A j \in ends : e <= j
<1>1. Len(text) \in Nat /\ Len(text) + 1 \in ends /\ ends \in SUBSET Nat
  BY DEF Words
<1>2. P!RunEnd(text, k) = CHOOSE e \in ends : \A j \in ends : e <= j
  BY DEF P!RunEnd, P!Least
<1>3. \E e : First(e)
  <2> HIDE DEF ends
  <2> QED
    BY <1>1, LeastOf
<1>4. First(P!RunEnd(text, k))
  <2> HIDE DEF ends
  <2> QED
    BY <1>2, <1>3
<1>5. EndsRun(text, k, P!RunEnd(text, k))
  <2>1. \A j \in k..(P!RunEnd(text, k) - 1) : j \notin ends
    BY <1>1, <1>4
  <2> QED
    BY <1>1, <1>4, <2>1 DEF EndsRun
<1>6. ASSUME NEW e, EndsRun(text, k, e) PROVE e = P!RunEnd(text, k)
  <2>1. e \in Nat /\ P!RunEnd(text, k) \in Nat
    BY <1>1, <1>5, <1>6 DEF EndsRun
  <2>2. ~(e < P!RunEnd(text, k)) /\ ~(P!RunEnd(text, k) < e)
    BY <1>1, <1>5, <1>6 DEF EndsRun
  <2> QED
    BY <2>1, <2>2
<1>7. P!RunEnd(text, k) \in Nat /\ P!RunEnd(text, k) - 1 <= Len(text)
  BY <1>1, <1>5 DEF EndsRun
<1>8. P!RunValue(text, k) \in Nat
  <2>1. SubSeq(text, k, P!RunEnd(text, k) - 1) \in Words
    BY <1>1, <1>7, SubTexts
  <2> QED
    BY <2>1, NumbersAre DEF P!RunValue
<1> QED
  BY <1>1, <1>5, <1>6, <1>7, <1>8 DEF EndsRun

-----------------------------------------------------------------------------
(* A walk from any place that stops or goes on to a later one comes to an  *)
(* answer.                                                                 *)
Walks(f, from, last, Stops, Yes, next) ==
    /\ f \in [from..last -> BOOLEAN]
    /\ \A p \in from..last : f[p] = (IF p \in Stops THEN p \in Yes ELSE f[next[p]])

LEMMA WalkExists ==
    ASSUME NEW last \in Nat, last >= 1, NEW Stops, NEW Yes, NEW next,
           \A p \in 1..last : p \notin Stops => next[p] \in (p + 1)..last
    PROVE  \E f : Walks(f, 1, last, Stops, Yes, next)
<1> DEFINE Missing == {k \in 0..(last - 1) : ~\E f : Walks(f, last - k, last, Stops, Yes, next)}
<1> SUFFICES ASSUME Missing # {} PROVE FALSE
  <2>1. last - 1 \in 0..(last - 1) /\ last - (last - 1) = 1
    OBVIOUS
  <2> QED
    BY <2>1
<1>1. PICK k \in Missing : \A j \in Missing : k <= j
  <2>1. Missing \in SUBSET Nat
    OBVIOUS
  <2> HIDE DEF Missing
  <2> QED
    BY <2>1, LeastOf
<1>2. k \in 0..(last - 1) /\ ~\E f : Walks(f, last - k, last, Stops, Yes, next)
  OBVIOUS
<1> DEFINE from == last - k
<1>3. from \in 1..last /\ from \in Int
  BY <1>2
<1>4. PICK g : from = last \/ Walks(g, from + 1, last, Stops, Yes, next)
  <2> SUFFICES ASSUME k # 0 PROVE \E g : Walks(g, from + 1, last, Stops, Yes, next)
    BY <1>2
  <2>1. k - 1 \in 0..(last - 1) /\ ~(k <= k - 1) /\ last - (k - 1) = from + 1
    BY <1>2
  <2>2. k - 1 \notin Missing
    <3> HIDE DEF Missing, from
    <3> QED
      BY <1>1, <2>1
  <2>3. \E g : Walks(g, last - (k - 1), last, Stops, Yes, next)
    BY <2>1, <2>2
  <2> HIDE DEF from, Missing
  <2> QED
    BY <2>1, <2>3
<1> HIDE DEF from, Missing
<1> DEFINE here == IF from \in Stops THEN from \in Yes ELSE g[next[from]]
           f == [p \in from..last |-> IF p = from THEN here ELSE g[p]]
<1>5. \A p \in from..last : p # from => p \in (from + 1)..last /\ from # last
  BY <1>3
<1>6. here \in BOOLEAN
  <2>1. CASE from \in Stops
    <3>1. here = (from \in Yes)
      BY <2>1
    <3>2. (from \in Yes) \in BOOLEAN
      OBVIOUS
    <3> HIDE DEF here
    <3> QED
      BY <3>1, <3>2
  <2>2. CASE from \notin Stops
    <3>1. next[from] \in (from + 1)..last
      BY <1>3, <2>2
    <3>2. from # last
      BY <1>3, <3>1
    <3>3. g[next[from]] \in BOOLEAN
      BY <1>4, <3>1, <3>2 DEF Walks
    <3>4. here = g[next[from]]
      BY <2>2
    <3> HIDE DEF here
    <3> QED
      BY <3>3, <3>4
  <2> QED
    BY <2>1, <2>2
<1>7. f \in [from..last -> BOOLEAN]
  BY <1>4, <1>5, <1>6 DEF Walks
<1>8. ASSUME NEW p \in from..last
      PROVE  f[p] = (IF p \in Stops THEN p \in Yes ELSE f[next[p]])
  <2>1. p \in 1..last
    BY <1>3
  <2>2. CASE p \in Stops
    <3>1. CASE p = from
      BY <2>2, <3>1
    <3>2. CASE p # from
      <4>1. f[p] = g[p] /\ p \in (from + 1)..last /\ from # last
        BY <1>5, <3>2
      <4> QED
        BY <1>4, <2>2, <4>1 DEF Walks
    <3> QED
      BY <3>1, <3>2
  <2>3. CASE p \notin Stops
    <3>1. next[p] \in (p + 1)..last
      BY <2>1, <2>3
    <3>2. next[p] \in from..last /\ next[p] # from
      BY <1>3, <3>1
    <3>3. f[next[p]] = g[next[p]]
      BY <3>2
    <3>4. CASE p = from
      <4> HIDE DEF f
      <4>1. f[p] = here
        BY <3>4 DEF f
      <4> QED
        BY <2>3, <3>3, <3>4, <4>1
    <3>5. CASE p # from
      <4>1. f[p] = g[p] /\ p \in (from + 1)..last /\ from # last
        BY <1>5, <3>5
      <4> HIDE DEF f
      <4> QED
        BY <1>4, <2>3, <3>3, <4>1 DEF Walks
    <3> QED
      BY <3>4, <3>5
  <2> QED
    BY <2>2, <2>3
<1> HIDE DEF f
<1>9. Walks(f, from, last, Stops, Yes, next)
  BY <1>7, <1>8 DEF Walks
<1> QED
  BY <1>2, <1>9 DEF from

-----------------------------------------------------------------------------
(* naturalLess compares what two texts have at a place: their end, a run   *)
(* of digits as a whole, another letter before or after the digits.        *)

Class(text, p) ==
    IF p > Len(text) THEN 0 ELSE IF P!IsDigit(text[p]) THEN 2
    ELSE IF Code[text[p]] < 48 THEN 1 ELSE 3
Worth(text, p) ==
    IF p > Len(text) THEN 0 ELSE IF P!IsDigit(text[p]) THEN P!RunValue(text, p)
    ELSE Code[text[p]]
Extent(text, p) ==
    IF p <= Len(text) /\ P!IsDigit(text[p]) THEN P!RunEnd(text, p) ELSE 0
NextPlace(text, p) == IF P!IsDigit(text[p]) THEN P!RunEnd(text, p) ELSE p + 1

Sooner(l, r, p) ==
    \/ Class(l, p) < Class(r, p)
    \/ Class(l, p) = Class(r, p) /\ Worth(l, p) < Worth(r, p)
    \/ Class(l, p) = Class(r, p) /\ Worth(l, p) = Worth(r, p) /\ Extent(l, p) < Extent(r, p)
Alike(l, r, p) ==
    /\ p <= Len(l) /\ Class(l, p) = Class(r, p) /\ Worth(l, p) = Worth(r, p)
    /\ Extent(l, p) = Extent(r, p)

Placed(text, p) ==
    /\ Class(text, p) \in 0..3 /\ Worth(text, p) \in Int /\ Extent(text, p) \in Int
    /\ Len(text) \in Nat
    /\ Class(text, p) = 0 <=> p > Len(text)
    /\ Class(text, p) = 0 => Worth(text, p) = 0 /\ Extent(text, p) = 0
    /\ p <= Len(text) => /\ text[p] \in Letters /\ Code[text[p]] \in Int
                         /\ NextPlace(text, p) \in (p + 1)..(Len(text) + 1)
    /\ Class(text, p) = 1 => /\ Worth(text, p) = Code[text[p]] /\ Extent(text, p) = 0
                             /\ ~P!IsDigit(text[p]) /\ Code[text[p]] < 48
                             /\ NextPlace(text, p) = p + 1
    /\ Class(text, p) = 2 => /\ Worth(text, p) = P!RunValue(text, p)
                             /\ Extent(text, p) = P!RunEnd(text, p)
                             /\ P!IsDigit(text[p]) /\ Code[text[p]] >= 48
                             /\ Code[text[p]] <= 57
                             /\ NextPlace(text, p) = P!RunEnd(text, p)
    /\ Class(text, p) = 3 => /\ Worth(text, p) = Code[text[p]] /\ Extent(text, p) = 0
                             /\ ~P!IsDigit(text[p]) /\ Code[text[p]] > 57
                             /\ NextPlace(text, p) = p + 1

LEMMA PlacesAre ==
    ASSUME NEW text \in Words, NEW p \in Nat, p >= 1
    PROVE  Placed(text, p)
<1>1. Len(text) \in Nat /\ (p <= Len(text) => text[p] \in Letters)
  BY DEF Words
<1>2. p <= Len(text) => Code[text[p]] \in Int
  BY <1>1, LettersAre
<1>3. CASE p > Len(text)
  BY <1>1, <1>3 DEF Placed, Class, Worth, Extent
<1>4. CASE p <= Len(text) /\ P!IsDigit(text[p])
  <2>1. p \in 1..(Len(text) + 1)
    BY <1>1, <1>4
  <2>2. /\ P!RunEnd(text, p) > p /\ P!RunEnd(text, p) \in Nat /\ P!RunValue(text, p) \in Nat
        /\ P!RunEnd(text, p) <= Len(text) + 1
    BY <1>1, <1>4, <2>1, RunEnds DEF EndsRun
  <2>3. Code[text[p]] \in 48..57
    BY <1>4 DEF P!IsDigit
  <2> QED
    BY <1>1, <1>2, <1>4, <2>2, <2>3 DEF Placed, Class, Worth, Extent, NextPlace
<1>5. CASE p <= Len(text) /\ ~P!IsDigit(text[p])
  <2>1. Code[text[p]] \notin 48..57
    BY <1>5 DEF P!IsDigit
  <2> QED
    BY <1>1, <1>2, <1>5, <2>1 DEF Placed, Class, Worth, Extent, NextPlace
<1> QED
  BY <1>3, <1>4, <1>5

(* The loop of naturalLess from a place on.                                *)
Turns(l, r, p, less) ==
    IF p > Len(l) \/ p > Len(r) THEN Len(l) < Len(r)
    ELSE IF P!IsDigit(l[p]) /\ P!IsDigit(r[p])
      THEN IF P!RunValue(l, p) # P!RunValue(r, p)
             THEN P!RunValue(l, p) < P!RunValue(r, p)
           ELSE IF P!RunEnd(l, p) # P!RunEnd(r, p)
             THEN P!RunEnd(l, p) < P!RunEnd(r, p)
           ELSE less[P!RunEnd(l, p)]
    ELSE IF Code[l[p]] # Code[r[p]] THEN Code[l[p]] < Code[r[p]]
    ELSE less[p + 1]
Below(l, r) == CHOOSE less : less = [p \in 1..(Len(l) + 1) |-> Turns(l, r, p, less)]

LEMMA OneTurn ==
    ASSUME NEW l \in Words, NEW r \in Words, NEW p \in 1..(Len(l) + 1), NEW less
    PROVE  /\ Alike(l, r, p) => Turns(l, r, p, less) = less[NextPlace(l, p)]
           /\ ~Alike(l, r, p) => Turns(l, r, p, less) = Sooner(l, r, p)
<1>1. Len(l) \in Nat /\ Len(r) \in Nat /\ p \in Nat /\ p >= 1 /\ p <= Len(l) + 1
  BY DEF Words
<1>2. Placed(l, p) /\ Placed(r, p)
  BY <1>1, PlacesAre
<1>3. Sooner(l, r, p) \in BOOLEAN
  BY DEF Sooner
<1>4. CASE Class(l, p) = 0 \/ Class(r, p) = 0
  <2>1. ~Alike(l, r, p) /\ Turns(l, r, p, less) = (Len(l) < Len(r))
    BY <1>1, <1>2, <1>4 DEF Placed, Alike, Turns
  <2>2. Sooner(l, r, p) <=> Len(l) < Len(r)
    BY <1>1, <1>2, <1>4 DEF Placed, Sooner
  <2> QED
    BY <1>3, <2>1, <2>2
<1>5. CASE Class(l, p) = 2 /\ Class(r, p) = 2
  <2>1. /\ ~(p > Len(l) \/ p > Len(r)) /\ P!IsDigit(l[p]) /\ P!IsDigit(r[p])
        /\ Worth(l, p) = P!RunValue(l, p) /\ Worth(r, p) = P!RunValue(r, p)
        /\ Extent(l, p) = P!RunEnd(l, p) /\ Extent(r, p) = P!RunEnd(r, p)
        /\ NextPlace(l, p) = P!RunEnd(l, p)
        /\ Worth(l, p) \in Int /\ Worth(r, p) \in Int /\ Extent(l, p) \in Int /\ Extent(r, p) \in Int
    BY <1>1, <1>2, <1>5 DEF Placed
  <2>2. Turns(l, r, p, less) = IF Worth(l, p) # Worth(r, p) THEN Worth(l, p) < Worth(r, p)
                               ELSE IF Extent(l, p) # Extent(r, p)
                                 THEN Extent(l, p) < Extent(r, p)
                               ELSE less[NextPlace(l, p)]
    BY <2>1 DEF Turns
  <2>3. /\ Alike(l, r, p) <=> Worth(l, p) = Worth(r, p) /\ Extent(l, p) = Extent(r, p)
        /\ Sooner(l, r, p) <=> \/ Worth(l, p) < Worth(r, p)
                               \/ Worth(l, p) = Worth(r, p) /\ Extent(l, p) < Extent(r, p)
    BY <1>1, <1>2, <1>5, <2>1 DEF Placed, Alike, Sooner
  <2>4. CASE Worth(l, p) # Worth(r, p)
    BY <1>3, <2>1, <2>2, <2>3, <2>4
  <2>5. CASE Worth(l, p) = Worth(r, p) /\ Extent(l, p) # Extent(r, p)
    BY <1>3, <2>1, <2>2, <2>3, <2>5
  <2>6. CASE Worth(l, p) = Worth(r, p) /\ Extent(l, p) = Extent(r, p)
    BY <2>2, <2>3, <2>6
  <2> QED
    BY <2>4, <2>5, <2>6
<1>6. CASE Class(l, p) # 0 /\ Class(r, p) # 0 /\ (Class(l, p) # 2 \/ Class(r, p) # 2)
  <2>1. /\ ~(p > Len(l) \/ p > Len(r)) /\ ~(P!IsDigit(l[p]) /\ P!IsDigit(r[p]))
        /\ Code[l[p]] \in Int /\ Code[r[p]] \in Int
    BY <1>1, <1>2, <1>6 DEF Placed
  <2>2. Turns(l, r, p, less) = IF Code[l[p]] # Code[r[p]] THEN Code[l[p]] < Code[r[p]]
                               ELSE less[p + 1]
    BY <2>1 DEF Turns
  <2>3. /\ Alike(l, r, p) <=> Code[l[p]] = Code[r[p]]
        /\ Sooner(l, r, p) <=> Code[l[p]] < Code[r[p]]
        /\ Alike(l, r, p) => NextPlace(l, p) = p + 1
    <3>1. /\ p <= Len(l) /\ Class(l, p) \in {1, 2, 3}
          /\ Class(l, p) = 1 => /\ Worth(l, p) = Code[l[p]] /\ Extent(l, p) = 0
                                 /\ Code[l[p]] < 48
          /\ Class(l, p) = 2 => Code[l[p]] >= 48 /\ Code[l[p]] <= 57
          /\ Class(l, p) = 3 => /\ Worth(l, p) = Code[l[p]] /\ Extent(l, p) = 0
                                 /\ Code[l[p]] > 57
      BY <1>1, <1>2, <1>6, <2>1 DEF Placed
    <3>2. /\ p <= Len(r) /\ Class(r, p) \in {1, 2, 3}
          /\ Class(r, p) = 1 => /\ Worth(r, p) = Code[r[p]] /\ Extent(r, p) = 0
                                 /\ Code[r[p]] < 48
          /\ Class(r, p) = 2 => Code[r[p]] >= 48 /\ Code[r[p]] <= 57
          /\ Class(r, p) = 3 => /\ Worth(r, p) = Code[r[p]] /\ Extent(r, p) = 0
                                 /\ Code[r[p]] > 57
      BY <1>1, <1>2, <1>6, <2>1 DEF Placed
    <3>3. Class(l, p) \in {1, 3} => NextPlace(l, p) = p + 1
      BY <1>2 DEF Placed
    <3>4. CASE Class(l, p) = Class(r, p)
      BY <1>6, <2>1, <3>1, <3>2, <3>3, <3>4 DEF Alike, Sooner
    <3>5. CASE Class(l, p) # Class(r, p)
      <4>1. ~Alike(l, r, p) /\ (Sooner(l, r, p) <=> Class(l, p) < Class(r, p))
        BY <3>1, <3>2, <3>5 DEF Alike, Sooner
      <4>2. /\ Class(l, p) < Class(r, p) => Code[l[p]] < Code[r[p]]
            /\ Class(l, p) > Class(r, p) => Code[l[p]] > Code[r[p]]
        BY <2>1, <3>1, <3>2
      <4> QED
        BY <2>1, <3>1, <3>2, <3>5, <4>1, <4>2
    <3> QED
      BY <3>4, <3>5
  <2>4. CASE Code[l[p]] # Code[r[p]]
    BY <1>3, <2>1, <2>2, <2>3, <2>4
  <2>5. CASE Code[l[p]] = Code[r[p]]
    BY <2>2, <2>3, <2>5
  <2> QED
    BY <2>4, <2>5
<1> QED
  BY <1>4, <1>5, <1>6

(* It decides at the first place where the texts are not alike.            *)
LEMMA BelowIs ==
    ASSUME NEW l \in Words, NEW r \in Words
    PROVE  /\ P!NaturalLess(l, r) = Below(l, r)[1]
           /\ \A p \in 1..(Len(l) + 1) :
                /\ Alike(l, r, p) => /\ Below(l, r)[p] = Below(l, r)[NextPlace(l, p)]
                                     /\ NextPlace(l, p) \in (p + 1)..(Len(l) + 1)
                /\ ~Alike(l, r, p) => Below(l, r)[p] = Sooner(l, r, p)
<1> DEFINE last == Len(l) + 1
           Stops == {p \in 1..last : ~Alike(l, r, p)}
           Yes == {p \in 1..last : Sooner(l, r, p)}
           next == [p \in 1..last |-> NextPlace(l, p)]
           Reads(f) == f = [p \in 1..last |-> Turns(l, r, p, f)]
<1>1. P!NaturalLess(l, r) = Below(l, r)[1]
  BY DEF P!NaturalLess, Below, Turns
<1>2. last \in Nat /\ last >= 1 /\ Len(l) \in Nat
  BY DEF Words
<1>3. \A p \in 1..last : Alike(l, r, p) => NextPlace(l, p) \in (p + 1)..last
  <2> SUFFICES ASSUME NEW p \in 1..last, Alike(l, r, p)
               PROVE  NextPlace(l, p) \in (p + 1)..last
    OBVIOUS
  <2>1. p \in Nat /\ p >= 1 /\ p <= Len(l)
    BY <1>2 DEF Alike
  <2> QED
    BY <2>1, PlacesAre DEF Placed
<1>4. \A p \in 1..last : p \notin Stops => next[p] \in (p + 1)..last
  BY <1>3
<1>5. PICK f : Walks(f, 1, last, Stops, Yes, next)
  <2> HIDE DEF last, Stops, Yes, next
  <2> QED
    BY <1>2, <1>4, WalkExists
<1>6. Reads(f)
  <2>1. ASSUME NEW p \in 1..last PROVE f[p] = Turns(l, r, p, f)
    <3>1. CASE Alike(l, r, p)
      <4>1. f[p] = f[NextPlace(l, p)]
        BY <1>5, <3>1 DEF Walks
      <4> QED
        BY <3>1, <4>1, OneTurn
    <3>2. CASE ~Alike(l, r, p)
      <4>1. f[p] = (p \in Yes)
        <5>1. p \in Stops
          BY <3>2
        <5> HIDE DEF Stops, Yes
        <5> QED
          BY <1>5, <5>1 DEF Walks
      <4>2. (p \in Yes) <=> Sooner(l, r, p)
        OBVIOUS
      <4>3. Sooner(l, r, p) \in BOOLEAN /\ (p \in Yes) \in BOOLEAN
        BY DEF Sooner
      <4>4. Turns(l, r, p, f) = Sooner(l, r, p)
        BY <3>2, OneTurn
      <4> HIDE DEF Yes
      <4> QED
        BY <4>1, <4>2, <4>3, <4>4
    <3> QED
      BY <3>1, <3>2
  <2>2. f \in [1..last -> BOOLEAN]
    BY <1>5 DEF Walks
  <2> QED
    BY <2>1, <2>2
<1>7. Reads(Below(l, r))
  <2>1. Below(l, r) = CHOOSE g : Reads(g)
    BY DEF Below
  <2> HIDE DEF Reads
  <2> QED
    BY <1>6, <2>1
<1>8. \A p \in 1..last : Below(l, r)[p] = Turns(l, r, p, Below(l, r))
  BY <1>7
<1>9. ASSUME NEW p \in 1..last
      PROVE  /\ Alike(l, r, p) => Below(l, r)[p] = Below(l, r)[NextPlace(l, p)]
             /\ ~Alike(l, r, p) => Below(l, r)[p] = Sooner(l, r, p)
  <2>1. Below(l, r)[p] = Turns(l, r, p, Below(l, r))
    BY <1>8
  <2> QED
    BY <2>1, OneTurn
<1> QED
  BY <1>1, <1>3, <1>9

LEMMA GreatestOf ==
    ASSUME NEW last \in Nat, NEW T \in SUBSET (0..last), T # {}
    PROVE  \E x \in T : \A y \in T : y <= x
<1> DEFINE mirror == {last - x : x \in T}
<1>1. mirror \in SUBSET Nat /\ mirror # {}
  <2>1. \A x \in T : last - x \in Nat
    OBVIOUS
  <2>2. PICK x \in T : TRUE
    OBVIOUS
  <2>3. last - x \in mirror
    OBVIOUS
  <2> QED
    BY <2>1, <2>3
<1>2. \A x \in T : x \in Int /\ last - x \in mirror
  OBVIOUS
<1>3. \A m \in mirror : m \in Nat /\ \E x \in T : m = last - x
  OBVIOUS
<1> HIDE DEF mirror
<1>4. PICK m \in mirror : \A j \in mirror : m <= j
  BY <1>1, LeastOf
<1>5. PICK x \in T : m = last - x
  BY <1>3
<1>6. ASSUME NEW y \in T PROVE y <= x
  <2>1. m <= last - y /\ y \in Int /\ x \in Int
    BY <1>2, <1>4
  <2> QED
    BY <1>5, <2>1
<1> QED
  BY <1>6

LEMMA Comparable ==
    ASSUME NEW l \in Words, NEW r \in Words, NEW p \in 1..(Len(l) + 1)
    PROVE  /\ p \in Nat /\ p >= 1 /\ Len(l) \in Nat
           /\ Class(l, p) \in Int /\ Worth(l, p) \in Int /\ Extent(l, p) \in Int
           /\ Alike(l, r, p) => /\ NextPlace(l, p) = NextPlace(r, p)
                                /\ NextPlace(l, p) \in (p + 1)..(Len(l) + 1)
                                /\ NextPlace(l, p) \in (p + 1)..(Len(r) + 1)
                                /\ Alike(r, l, p)
<1>1. p \in Nat /\ p >= 1 /\ Len(l) \in Nat
  BY DEF Words
<1>2. Placed(l, p) /\ Placed(r, p)
  BY <1>1, PlacesAre
<1>3. Class(l, p) \in Int /\ Worth(l, p) \in Int /\ Extent(l, p) \in Int
  BY <1>2 DEF Placed
<1>4. ASSUME Alike(l, r, p)
      PROVE  /\ NextPlace(l, p) = NextPlace(r, p)
             /\ NextPlace(l, p) \in (p + 1)..(Len(l) + 1)
             /\ NextPlace(l, p) \in (p + 1)..(Len(r) + 1)
             /\ Alike(r, l, p)
  <2>1. p <= Len(l) /\ Class(l, p) = Class(r, p) /\ Extent(l, p) = Extent(r, p)
        /\ Worth(l, p) = Worth(r, p)
    BY <1>4 DEF Alike
  <2>2. Class(l, p) # 0 /\ p <= Len(r) /\ Class(l, p) \in 0..3
    BY <1>1, <1>2, <2>1 DEF Placed
  <2>3. NextPlace(l, p) = NextPlace(r, p)
    <3>1. CASE Class(l, p) = 2
      BY <1>2, <2>1, <3>1 DEF Placed
    <3>2. CASE Class(l, p) \in {1, 3}
      BY <1>2, <2>1, <3>2 DEF Placed
    <3> QED
      BY <2>2, <3>1, <3>2
  <2>4. /\ NextPlace(l, p) \in (p + 1)..(Len(l) + 1)
        /\ NextPlace(r, p) \in (p + 1)..(Len(r) + 1)
    BY <1>2, <2>1, <2>2 DEF Placed
  <2> QED
    BY <2>1, <2>2, <2>3, <2>4 DEF Alike
<1> QED
  BY <1>1, <1>3, <1>4

(* Of two texts not each is before the other.                              *)
LEMMA NeverBoth ==
    ASSUME NEW l \in Words, NEW r \in Words, P!NaturalLess(l, r)
    PROVE  ~P!NaturalLess(r, l)
<1> SUFFICES ASSUME P!NaturalLess(r, l) PROVE FALSE
  OBVIOUS
<1> DEFINE Both == {p \in 1..(Len(l) + 1) :
                      p <= Len(r) + 1 /\ Below(l, r)[p] /\ Below(r, l)[p]}
<1>1. Len(l) \in Nat /\ Len(r) \in Nat
  BY DEF Words
<1>2. 1 \in Both
  BY <1>1, BelowIs
<1>3. PICK p \in Both : \A q \in Both : q <= p
  <2>1. Both \in SUBSET (0..(Len(l) + 1)) /\ Both # {} /\ Len(l) + 1 \in Nat
    BY <1>1, <1>2
  <2> HIDE DEF Both
  <2> QED
    BY <2>1, GreatestOf
<1>4. /\ p \in 1..(Len(l) + 1) /\ p \in 1..(Len(r) + 1)
      /\ Below(l, r)[p] /\ Below(r, l)[p]
  BY <1>1
<1>5. CASE Alike(l, r, p)
  <2> DEFINE q == NextPlace(l, p)
  <2>1. /\ Alike(r, l, p) /\ q = NextPlace(r, p) /\ q \in (p + 1)..(Len(l) + 1)
        /\ q \in (p + 1)..(Len(r) + 1)
    BY <1>4, <1>5, Comparable
  <2>2. Below(l, r)[q] /\ Below(r, l)[q]
    BY <1>4, <1>5, <2>1, BelowIs
  <2>3. q \in 1..(Len(l) + 1) /\ q <= Len(r) + 1 /\ ~(q <= p)
    BY <1>1, <1>4, <2>1
  <2>4. q \in Both
    BY <2>2, <2>3
  <2> HIDE DEF Both, q
  <2> QED
    BY <1>3, <2>3, <2>4
<1>6. CASE ~Alike(l, r, p)
  <2>1. ~Alike(r, l, p)
    BY <1>4, <1>6, Comparable
  <2>2. Sooner(l, r, p) /\ Sooner(r, l, p)
    BY <1>4, <1>6, <2>1, BelowIs
  <2>3. /\ Class(l, p) \in Int /\ Worth(l, p) \in Int /\ Extent(l, p) \in Int
        /\ Class(r, p) \in Int /\ Worth(r, p) \in Int /\ Extent(r, p) \in Int
    BY <1>4, Comparable
  <2> QED
    BY <2>2, <2>3 DEF Sooner
<1> QED
  BY <1>5, <1>6

(* Of two texts that are in order, any third is after the first or before  *)
(* the second: as a sort requires of what it is given.                     *)
LEMMA BetweenOrBeside ==
    ASSUME NEW a \in Words, NEW b \in Words, NEW c \in Words, P!NaturalLess(a, c)
    PROVE  P!NaturalLess(a, b) \/ P!NaturalLess(b, c)
<1> SUFFICES ASSUME ~P!NaturalLess(a, b), ~P!NaturalLess(b, c) PROVE FALSE
  OBVIOUS
<1> DEFINE Wrong == {p \in 1..(Len(a) + 1) :
                       /\ p <= Len(b) + 1 /\ p <= Len(c) + 1
                       /\ Below(a, c)[p] /\ ~Below(a, b)[p] /\ ~Below(b, c)[p]}
<1>1. Len(a) \in Nat /\ Len(b) \in Nat /\ Len(c) \in Nat
  BY DEF Words
<1>2. 1 \in Wrong
  BY <1>1, BelowIs
<1>3. PICK p \in Wrong : \A q \in Wrong : q <= p
  <2>1. Wrong \in SUBSET (0..(Len(a) + 1)) /\ Wrong # {} /\ Len(a) + 1 \in Nat
    BY <1>1, <1>2
  <2> HIDE DEF Wrong
  <2> QED
    BY <2>1, GreatestOf
<1>4. /\ p \in 1..(Len(a) + 1) /\ p \in 1..(Len(b) + 1) /\ p \in 1..(Len(c) + 1)
      /\ Below(a, c)[p] /\ ~Below(a, b)[p] /\ ~Below(b, c)[p]
  BY <1>1
<1>5. /\ Class(a, p) \in Int /\ Worth(a, p) \in Int /\ Extent(a, p) \in Int
      /\ Class(b, p) \in Int /\ Worth(b, p) \in Int /\ Extent(b, p) \in Int
      /\ Class(c, p) \in Int /\ Worth(c, p) \in Int /\ Extent(c, p) \in Int
  BY <1>4, Comparable
<1>6. /\ ~Alike(a, b, p) => ~Sooner(a, b, p)
      /\ ~Alike(b, c, p) => ~Sooner(b, c, p)
      /\ ~Alike(a, c, p) => Sooner(a, c, p)
  BY <1>4, BelowIs
<1>7. CASE Alike(a, b, p) /\ Alike(b, c, p)
  <2> DEFINE q == NextPlace(a, p)
  <2>1. Alike(a, c, p)
    BY <1>7 DEF Alike
  <2>2. /\ q = NextPlace(b, p) /\ q \in (p + 1)..(Len(a) + 1)
        /\ q \in (p + 1)..(Len(b) + 1) /\ q \in (p + 1)..(Len(c) + 1)
    BY <1>4, <1>7, <2>1, Comparable
  <2>3. Below(a, c)[q] /\ ~Below(a, b)[q] /\ ~Below(b, c)[q]
    BY <1>4, <1>7, <2>1, <2>2, BelowIs
  <2>4. q \in 1..(Len(a) + 1) /\ q <= Len(b) + 1 /\ q <= Len(c) + 1 /\ ~(q <= p)
    BY <1>1, <1>4, <2>2
  <2>5. q \in Wrong
    BY <2>3, <2>4
  <2> HIDE DEF Wrong, q
  <2> QED
    BY <1>3, <2>4, <2>5
<1>8. CASE ~(Alike(a, b, p) /\ Alike(b, c, p))
  <2>1. /\ p > Len(a) <=> Class(a, p) = 0
        /\ p > Len(b) <=> Class(b, p) = 0
        /\ Class(a, p) = 0 => Worth(a, p) = 0 /\ Extent(a, p) = 0
        /\ Class(b, p) = 0 => Worth(b, p) = 0 /\ Extent(b, p) = 0
        /\ Class(c, p) = 0 => Worth(c, p) = 0 /\ Extent(c, p) = 0
    <3>1. Placed(a, p) /\ Placed(b, p) /\ Placed(c, p)
      BY <1>1, <1>4, PlacesAre
    <3> QED
      BY <3>1 DEF Placed
  <2> QED
    BY <1>1, <1>4, <1>5, <1>6, <1>8, <2>1 DEF Alike, Sooner
<1> QED
  BY <1>7, <1>8

(* A name ends with its number, if it has one.                             *)
EndsStem(name, k) ==
    /\ k \in 1..(Len(name) + 1)
    /\ \A j \in k..Len(name) : P!IsDigit(name[j])
    /\ k > 1 => ~P!IsDigit(name[k - 1])

LEMMA StemIs ==
    ASSUME NEW name \in Words
    PROVE  LET k == Len(P!Stem(name)) + 1 IN
           /\ EndsStem(name, k) /\ P!Stem(name) = SubSeq(name, 1, k - 1)
           /\ \A j \in 1..(k - 1) : P!Stem(name)[j] = name[j]
<1> DEFINE Ends == {k \in 1..(Len(name) + 1) : \A j \in k..Len(name) : P!IsDigit(name[j])}
           k == CHOOSE k \in 1..(Len(name) + 1) :
                  /\ \A j \in k..Len(name) : P!IsDigit(name[j])
                  /\ k > 1 => ~P!IsDigit(name[k - 1])
<1>1. Len(name) \in Nat
  BY DEF Words
<1>2. \E e : EndsStem(name, e)
  <2>1. Len(name) + 1 \in Ends /\ Ends \in SUBSET Nat
    BY <1>1
  <2>2. PICK e \in Ends : \A d \in Ends : e <= d
    <3> HIDE DEF Ends
    <3> QED
      BY <2>1, LeastOf
  <2>3. e \in 1..(Len(name) + 1) /\ \A j \in e..Len(name) : P!IsDigit(name[j])
    OBVIOUS
  <2>4. ASSUME e > 1, P!IsDigit(name[e - 1]) PROVE FALSE
    <3>1. \A j \in (e - 1)..Len(name) : j = e - 1 \/ j \in e..Len(name)
      BY <1>1, <2>3
    <3>2. e - 1 \in Ends /\ ~(e <= e - 1)
      BY <1>1, <2>3, <2>4, <3>1
    <3> HIDE DEF Ends
    <3> QED
      BY <2>2, <3>2
  <2> QED
    BY <2>3, <2>4 DEF EndsStem
<1>3. P!Stem(name) = SubSeq(name, 1, k - 1)
  BY DEF P!Stem, P!Before
<1>4. EndsStem(name, k)
  <2>1. \E e \in 1..(Len(name) + 1) : /\ \A j \in e..Len(name) : P!IsDigit(name[j])
                                      /\ e > 1 => ~P!IsDigit(name[e - 1])
    BY <1>2 DEF EndsStem
  <2> QED
    BY <2>1 DEF EndsStem
<1> HIDE DEF k
<1>5. k \in Nat /\ k >= 1 /\ k - 1 <= Len(name)
  BY <1>1, <1>4 DEF EndsStem
<1>6. Len(P!Stem(name)) = k - 1 /\ \A j \in 1..(k - 1) : P!Stem(name)[j] = name[j]
  BY <1>1, <1>3, <1>5, SubTexts
<1>7. Len(P!Stem(name)) + 1 = k
  BY <1>5, <1>6
<1> QED
  BY <1>3, <1>4, <1>6, <1>7

LEMMA NumberOfIs ==
    ASSUME NEW name \in Words
    PROVE  LET k == Len(P!Stem(name)) + 1 IN
           /\ P!NumberOf(name) \in Int
           /\ k > Len(name) => P!NumberOf(name) = -1
           /\ k <= Len(name) => /\ P!IsDigit(name[k]) /\ P!NumberOf(name) \in Nat
                                /\ P!RunValue(name, k) = P!NumberOf(name)
<1> DEFINE k == Len(P!Stem(name)) + 1
           digits == SubSeq(name, k, Len(name))
<1>1. EndsStem(name, k) /\ Len(name) \in Nat
  BY StemIs DEF Words
<1>2. Len(P!Stem(name)) = k - 1 /\ k \in Nat /\ k >= 1 /\ k <= Len(name) + 1
  <2>1. P!Stem(name) = SubSeq(name, 1, k - 1) /\ k \in 1..(Len(name) + 1)
    BY StemIs DEF EndsStem
  <2>2. k \in Nat /\ k - 1 <= Len(name)
    BY <1>1, <2>1
  <2> HIDE DEF k
  <2>3. Len(SubSeq(name, 1, k - 1)) = k - 1
    BY <1>1, <2>1, <2>2, SubTexts
  <2> QED
    BY <1>1, <2>1, <2>2, <2>3
<1>3. P!NumberOf(name) = P!IntOr(digits, -1)
  <2>1. P!NumberOf(name) = P!IntOr(SubSeq(name, Len(P!Stem(name)) + 1, Len(name)), -1)
    BY DEF P!NumberOf, P!After
  <2> QED
    BY <2>1
<1> HIDE DEF k
<1>4. /\ digits \in Words /\ Len(digits) = IF k <= Len(name) THEN Len(name) - k + 1 ELSE 0
      /\ \A m \in 1..(Len(name) - k + 1) : digits[m] = name[k + m - 1]
  BY <1>1, <1>2, SubTexts
<1>5. CASE k > Len(name)
  <2>1. digits = <<>>
    BY <1>4, <1>5 DEF Words
  <2>2. ~AllDigits(digits)
    BY <2>1 DEF AllDigits
  <2>3. P!NumberOf(name) = -1
    BY <1>3, <1>4, <2>2, NumbersAre
  <2> QED
    BY <1>1, <1>2, <1>5, <2>3 DEF k
<1>6. CASE k <= Len(name)
  <2>1. EndsRun(name, k, Len(name) + 1) /\ P!IsDigit(name[k])
    BY <1>1, <1>2, <1>6 DEF EndsStem, EndsRun
  <2>2. P!RunEnd(name, k) = Len(name) + 1
    BY <1>1, <1>2, <2>1, RunEnds
  <2>3. P!RunValue(name, k) = P!IntOr(digits, 0)
    <3>1. Len(name) + 1 - 1 = Len(name)
      BY <1>1
    <3> QED
      BY <2>2, <3>1 DEF P!RunValue
  <2>4. AllDigits(digits)
    <3>1. Len(digits) = Len(name) - k + 1 /\ digits # <<>>
      <4> HIDE DEF digits
      <4> QED
        BY <1>1, <1>2, <1>4, <1>6
    <3>2. ASSUME NEW m \in 1..Len(digits) PROVE P!IsDigit(digits[m])
      <4>1. digits[m] = name[k + m - 1] /\ k + m - 1 \in k..Len(name)
        BY <1>1, <1>2, <1>4, <3>1
      <4> QED
        BY <1>1, <4>1 DEF EndsStem
    <3> QED
      BY <3>1, <3>2 DEF AllDigits
  <2>5. P!NumberOf(name) = P!RunValue(name, k) /\ P!NumberOf(name) \in Nat
    BY <1>3, <1>4, <2>3, <2>4, NumbersAre
  <2> QED
    BY <1>1, <1>2, <1>6, <2>1, <2>5 DEF k
<1> QED
  BY <1>1, <1>2, <1>5, <1>6

(* What is numbered goes by number: "Light 2" before "Light 10".           *)
LEMMA NumberedInOrder ==
    ASSUME NEW x \in Words, NEW y \in Words, P!Stem(x) = P!Stem(y),
           P!NumberOf(y) < P!NumberOf(x)
    PROVE  P!NaturalLess(y, x)
<1> DEFINE k == Len(P!Stem(y)) + 1
<1>1. /\ EndsStem(x, k) /\ EndsStem(y, k) /\ Len(x) \in Nat /\ Len(y) \in Nat
      /\ \A j \in 1..(k - 1) : x[j] = y[j]
  <2>1. EndsStem(y, k) /\ \A j \in 1..(k - 1) : P!Stem(y)[j] = y[j]
    BY StemIs
  <2>2. EndsStem(x, k) /\ \A j \in 1..(k - 1) : P!Stem(x)[j] = x[j]
    <3>1. k = Len(P!Stem(x)) + 1
      OBVIOUS
    <3> HIDE DEF k
    <3> QED
      BY <3>1, StemIs
  <2> HIDE DEF k
  <2> QED
    BY <2>1, <2>2 DEF Words
<1>2. k \in 1..(Len(x) + 1) /\ k \in 1..(Len(y) + 1) /\ k \in Nat /\ k >= 1
  BY <1>1 DEF EndsStem
<1>3. Below(y, x)[k]
  <2>1. /\ P!NumberOf(x) \in Int /\ P!NumberOf(y) \in Int
        /\ k > Len(x) => P!NumberOf(x) = -1
        /\ k > Len(y) => P!NumberOf(y) = -1
        /\ k <= Len(x) => /\ P!IsDigit(x[k]) /\ P!NumberOf(x) \in Nat
                          /\ P!RunValue(x, k) = P!NumberOf(x)
        /\ k <= Len(y) => /\ P!IsDigit(y[k]) /\ P!NumberOf(y) \in Nat
                          /\ P!RunValue(y, k) = P!NumberOf(y)
    BY NumberOfIs
  <2> HIDE DEF k
  <2>2. k <= Len(x)
    BY <1>1, <1>2, <2>1
  <2>3. Class(x, k) = 2 /\ Worth(x, k) = P!NumberOf(x)
    BY <1>1, <1>2, <2>1, <2>2 DEF Class, Worth
  <2>4. CASE k > Len(y)
    <3>1. Class(y, k) = 0
      BY <1>1, <1>2, <2>4 DEF Class
    <3>2. ~Alike(y, x, k) /\ Sooner(y, x, k)
      BY <2>3, <3>1 DEF Alike, Sooner
    <3> QED
      BY <1>2, <3>2, BelowIs
  <2>5. CASE k <= Len(y)
    <3>1. Class(y, k) = 2 /\ Worth(y, k) = P!NumberOf(y)
      BY <1>1, <1>2, <2>1, <2>5 DEF Class, Worth
    <3>2. ~Alike(y, x, k) /\ Sooner(y, x, k)
      BY <2>1, <2>3, <3>1 DEF Alike, Sooner
    <3> QED
      BY <1>2, <3>2, BelowIs
  <2> QED
    BY <1>1, <1>2, <2>4, <2>5
<1> HIDE DEF k
<1>4. ASSUME NEW p \in 1..(k - 1)
      PROVE  Alike(y, x, p) /\ NextPlace(y, p) \in (p + 1)..k
  <2>1. /\ p \in Nat /\ p >= 1 /\ p <= Len(x) /\ p <= Len(y) /\ x[p] = y[p] /\ k > 1
        /\ p \in 1..(Len(x) + 1) /\ p \in 1..(Len(y) + 1)
    BY <1>1, <1>2
  <2>2. CASE P!IsDigit(y[p])
    <3> DEFINE e == P!RunEnd(y, p)
    <3>1. EndsRun(y, p, e) /\ e > p /\ e \in Nat
      BY <2>1, <2>2, RunEnds
    <3>2. ~P!IsDigit(y[k - 1])
      BY <1>1, <2>1 DEF EndsStem
    <3> HIDE DEF e
    <3>3. e <= k - 1
      <4> SUFFICES ASSUME ~(e <= k - 1) PROVE FALSE
        OBVIOUS
      <4>1. k - 1 \in p..(e - 1)
        BY <1>2, <3>1
      <4> QED
        BY <3>1, <3>2, <4>1 DEF EndsRun
    <3>4. EndsRun(x, p, e)
      <4>1. e \in p..(Len(x) + 1)
        BY <1>1, <1>2, <3>1, <3>3
      <4>2. \A j \in p..(e - 1) : P!IsDigit(x[j])
        <5>1. \A j \in p..(e - 1) : j \in 1..(k - 1) /\ P!IsDigit(y[j])
          BY <1>2, <2>1, <3>1, <3>3 DEF EndsRun
        <5> QED
          BY <1>1, <5>1
      <4>3. ~P!IsDigit(x[e])
        <5>1. e \in 1..(k - 1) /\ e # Len(y) + 1
          BY <1>1, <1>2, <2>1, <3>1, <3>3
        <5>2. x[e] = y[e] /\ ~P!IsDigit(y[e])
          BY <1>1, <3>1, <5>1 DEF EndsRun
        <5> QED
          BY <5>2
      <4> QED
        BY <4>1, <4>2, <4>3 DEF EndsRun
    <3>5. P!RunEnd(x, p) = e /\ P!RunEnd(y, p) = e
      BY <2>1, <3>4, RunEnds DEF e
    <3>6. SubSeq(x, p, e - 1) = SubSeq(y, p, e - 1)
      <4> DEFINE l == SubSeq(x, p, e - 1)
                 r == SubSeq(y, p, e - 1)
      <4>1. /\ l \in Words /\ r \in Words /\ Len(l) = (e - 1) - p + 1 /\ Len(r) = (e - 1) - p + 1
            /\ \A m \in 1..((e - 1) - p + 1) : l[m] = x[p + m - 1] /\ r[m] = y[p + m - 1]
        <5>1. e - 1 <= Len(x) /\ e - 1 <= Len(y) /\ e - 1 \in Int /\ p <= e - 1
          BY <1>1, <1>2, <3>1, <3>3
        <5> QED
          BY <2>1, <5>1, SubTexts
      <4>2. \A m \in 1..((e - 1) - p + 1) : p + m - 1 \in 1..(k - 1)
        BY <1>2, <2>1, <3>1, <3>3
      <4>3. \A m \in 1..((e - 1) - p + 1) : l[m] = r[m]
        BY <1>1, <4>1, <4>2
      <4> HIDE DEF l, r
      <4>4. l = r
        BY <4>1, <4>3 DEF Words
      <4> QED
        BY <4>4 DEF l, r
    <3>7. P!RunValue(x, p) = P!RunValue(y, p)
      BY <3>5, <3>6 DEF P!RunValue
    <3> QED
      BY <1>1, <1>2, <2>1, <2>2, <3>1, <3>3, <3>5, <3>7
      DEF Alike, Class, Worth, Extent, NextPlace
  <2>3. CASE ~P!IsDigit(y[p])
    BY <1>1, <1>2, <2>1, <2>3 DEF Alike, Class, Worth, Extent, NextPlace
  <2> QED
    BY <2>2, <2>3
<1>5. Below(y, x)[1]
  <2> DEFINE Wrong == {p \in 1..k : ~Below(y, x)[p]}
  <2> SUFFICES ASSUME 1 \in Wrong PROVE FALSE
    BY <1>2
  <2>1. PICK p \in Wrong : \A q \in Wrong : q <= p
    <3>1. Wrong \in SUBSET (0..k) /\ Wrong # {}
      BY <1>2
    <3> HIDE DEF Wrong
    <3> QED
      BY <1>2, <3>1, GreatestOf
  <2>2. p \in 1..k /\ ~Below(y, x)[p] /\ p # k /\ p \in 1..(k - 1) /\ p \in 1..(Len(y) + 1)
    BY <1>1, <1>2, <1>3
  <2> DEFINE q == NextPlace(y, p)
  <2>3. q \in (p + 1)..k /\ Below(y, x)[p] = Below(y, x)[q]
    BY <1>4, <2>2, BelowIs
  <2>4. q \in 1..k /\ ~(q <= p) /\ ~Below(y, x)[q]
    BY <1>2, <2>2, <2>3
  <2>5. q \in Wrong
    BY <2>4
  <2> HIDE DEF Wrong, q
  <2> QED
    BY <2>1, <2>4, <2>5
<1> QED
  BY <1>5, BelowIs

-----------------------------------------------------------------------------
(* The insertion sort.                                                     *)

SortsBy(before, S) ==
    /\ \A x, y \in S : <<x, y>> \in before => <<y, x>> \notin before
    /\ \A x, y, z \in S : <<x, z>> \in before => <<x, y>> \in before \/ <<y, z>> \in before
NoneAfter(t, before) == \A j, k \in 1..Len(t) : j < k => <<t[k], t[j]>> \notin before
Once(t) == \A j, k \in 1..Len(t) : j < k => t[j] # t[k]

LEMMA InsertedAt ==
    ASSUME NEW S, NEW t \in Seq(S), NEW x \in S, NEW before
    PROVE  \E place \in 0..Len(t) :
             LET new == P!Inserted(t, x, before) IN
             /\ new \in Seq(S) /\ Len(new) = Len(t) + 1
             /\ \A k \in 1..place : new[k] = t[k]
             /\ new[place + 1] = x
             /\ \A k \in (place + 1)..Len(t) : new[k + 1] = t[k]
             /\ place > 0 => <<x, t[place]>> \notin before
             /\ \A k \in (place + 1)..Len(t) : <<x, t[k]>> \in before
<1> DEFINE fits == {k \in 0..Len(t) : k = 0 \/ <<x, t[k]>> \notin before}
           place == CHOOSE k \in fits : \A j \in fits : j <= k
           left == SubSeq(t, 1, place)
           right == SubSeq(t, place + 1, Len(t))
           new == left \o <<x>> \o right
<1>1. Len(t) \in Nat
  OBVIOUS
<1>2. place \in fits /\ \A j \in fits : j <= place
  <2>1. fits \in SUBSET (0..Len(t)) /\ 0 \in fits
    BY <1>1
  <2> HIDE DEF fits
  <2>2. \E k \in fits : \A j \in fits : j <= k
    BY <1>1, <2>1, GreatestOf
  <2> QED
    BY <2>2
<1>3. /\ place \in 0..Len(t)
      /\ place > 0 => <<x, t[place]>> \notin before
      /\ \A k \in (place + 1)..Len(t) : <<x, t[k]>> \in before
  <2>1. place \in 0..Len(t) /\ (place = 0 \/ <<x, t[place]>> \notin before)
    BY <1>2
  <2>2. \A k \in (place + 1)..Len(t) : k \in 0..Len(t) /\ ~(k <= place) /\ k # 0
    BY <1>1, <2>1
  <2>3. \A k \in (place + 1)..Len(t) : <<x, t[k]>> \in before
    BY <1>2, <2>2
  <2> HIDE DEF place, fits
  <2> QED
    BY <2>1, <2>3
<1>4. P!Inserted(t, x, before) = new
  BY DEF P!Inserted
<1> HIDE DEF place, fits
<1>5. /\ left \in Seq(S) /\ Len(left) = place /\ \A k \in 1..place : left[k] = t[k]
      /\ right \in Seq(S) /\ Len(right) = Len(t) - place
      /\ \A k \in 1..(Len(t) - place) : right[k] = t[place + k]
  BY <1>1, <1>3
<1> HIDE DEF left, right
<1>6. /\ left \o <<x>> \in Seq(S) /\ Len(left \o <<x>>) = place + 1
      /\ \A k \in 1..place : (left \o <<x>>)[k] = t[k]
      /\ (left \o <<x>>)[place + 1] = x
  BY <1>1, <1>3, <1>5
<1> DEFINE most == left \o <<x>>
<1> HIDE DEF most
<1>7. /\ most \o right \in Seq(S) /\ Len(most \o right) = Len(t) + 1
      /\ \A k \in 1..(place + 1) : (most \o right)[k] = most[k]
      /\ \A k \in 1..(Len(t) - place) : (most \o right)[place + 1 + k] = t[place + k]
  BY <1>1, <1>3, <1>5, <1>6 DEF most
<1>8. \A k \in (place + 1)..Len(t) : (most \o right)[k + 1] = t[k]
  <2> SUFFICES ASSUME NEW k \in (place + 1)..Len(t) PROVE (most \o right)[k + 1] = t[k]
    OBVIOUS
  <2>1. k - place \in 1..(Len(t) - place) /\ place + 1 + (k - place) = k + 1
        /\ place + (k - place) = k
    BY <1>1, <1>3
  <2> QED
    BY <1>7, <2>1
<1>9. /\ \A k \in 1..place : (most \o right)[k] = t[k]
      /\ (most \o right)[place + 1] = x
  BY <1>1, <1>3, <1>6, <1>7 DEF most
<1>10. P!Inserted(t, x, before) = most \o right
  BY <1>4 DEF most
<1> QED
  BY <1>3, <1>7, <1>8, <1>9, <1>10

(* What is inserted is there, and so is what was.                          *)
LEMMA InsertedKeeps ==
    ASSUME NEW S, NEW t \in Seq(S), NEW x \in S, NEW before
    PROVE  LET new == P!Inserted(t, x, before) IN
           /\ new \in Seq(S) /\ P!Elements(new) = P!Elements(t) \cup {x}
           /\ Once(t) /\ x \notin P!Elements(t) => Once(new)
           /\ SortsBy(before, S) /\ NoneAfter(t, before) => NoneAfter(new, before)
<1> DEFINE new == P!Inserted(t, x, before)
<1>1. Len(t) \in Nat /\ \A k \in 1..Len(t) : t[k] \in S
  OBVIOUS
<1>2. PICK place \in 0..Len(t) :
        /\ new \in Seq(S) /\ Len(new) = Len(t) + 1
        /\ \A k \in 1..place : new[k] = t[k]
        /\ new[place + 1] = x
        /\ \A k \in (place + 1)..Len(t) : new[k + 1] = t[k]
        /\ place > 0 => <<x, t[place]>> \notin before
        /\ \A k \in (place + 1)..Len(t) : <<x, t[k]>> \in before
  BY InsertedAt
<1> HIDE DEF new
<1>3. x \in P!Elements(new)
  BY <1>1, <1>2 DEF P!Elements
<1>4. ASSUME NEW k \in 1..Len(t) PROVE t[k] \in P!Elements(new)
  <2>1. CASE k <= place
    <3>1. k \in 1..Len(new) /\ new[k] = t[k]
      BY <1>1, <1>2, <2>1
    <3> QED
      BY <3>1 DEF P!Elements
  <2>2. CASE k > place
    <3>1. k + 1 \in 1..Len(new) /\ new[k + 1] = t[k]
      BY <1>1, <1>2, <2>2
    <3> QED
      BY <3>1 DEF P!Elements
  <2> QED
    BY <1>1, <2>1, <2>2
<1>5. ASSUME SortsBy(before, S), NoneAfter(t, before),
             NEW j \in 1..Len(new), NEW k \in 1..Len(new), j < k
      PROVE  <<new[k], new[j]>> \notin before
  <2>1. CASE k <= place
    <3>1. k \in 1..place /\ j \in 1..place /\ j \in 1..Len(t) /\ k \in 1..Len(t)
      BY <1>1, <1>2, <1>5, <2>1
    <3>2. new[k] = t[k] /\ new[j] = t[j]
      BY <1>2, <3>1
    <3> QED
      BY <1>5, <3>1, <3>2 DEF NoneAfter
  <2>2. CASE k = place + 1
    <3>1. new[k] = x /\ new[j] = t[j] /\ j \in 1..Len(t) /\ place \in 1..Len(t) /\ j <= place
          /\ place > 0
      BY <1>1, <1>2, <1>5, <2>2
    <3>2. <<x, t[place]>> \notin before
      BY <1>2, <3>1
    <3>3. j # place => <<t[place], t[j]>> \notin before
      BY <1>5, <3>1 DEF NoneAfter
    <3>4. t[j] \in S /\ t[place] \in S
      BY <1>1, <3>1
    <3> QED
      BY <1>5, <3>1, <3>2, <3>3, <3>4 DEF SortsBy
  <2>3. CASE k > place + 1
    <3>1. k - 1 \in (place + 1)..Len(t) /\ k - 1 \in 1..Len(t) /\ (k - 1) + 1 = k
      BY <1>1, <1>2, <2>3
    <3>2. new[k] = t[k - 1] /\ t[k - 1] \in S /\ <<x, t[k - 1]>> \in before
      BY <1>1, <1>2, <3>1
    <3>3. CASE j <= place
      <4>1. new[j] = t[j] /\ j \in 1..Len(t) /\ j < k - 1
        BY <1>1, <1>2, <2>3, <3>3
      <4> QED
        BY <1>5, <3>1, <3>2, <4>1 DEF NoneAfter
    <3>4. CASE j = place + 1
      <4>1. new[j] = x
        BY <1>2, <3>4
      <4> QED
        BY <1>5, <3>2, <4>1 DEF SortsBy
    <3>5. CASE j > place + 1
      <4>1. j - 1 \in (place + 1)..Len(t) /\ j - 1 \in 1..Len(t) /\ j - 1 < k - 1
            /\ (j - 1) + 1 = j
        BY <1>1, <1>2, <1>5, <3>1, <3>5
      <4>2. new[j] = t[j - 1]
        BY <1>2, <4>1
      <4> QED
        BY <1>5, <3>1, <3>2, <4>1, <4>2 DEF NoneAfter
    <3> QED
      BY <1>1, <1>2, <3>3, <3>4, <3>5
  <2> QED
    BY <1>1, <1>2, <2>1, <2>2, <2>3
<1>6. ASSUME NEW k \in 1..Len(new)
      PROVE  \/ k = place + 1 /\ new[k] = x
             \/ k <= place /\ k \in 1..Len(t) /\ new[k] = t[k]
             \/ k > place + 1 /\ k - 1 \in 1..Len(t) /\ new[k] = t[k - 1]
  <2>1. CASE k = place + 1
    BY <1>2, <2>1
  <2>2. CASE k <= place
    BY <1>1, <1>2, <2>2
  <2>3. CASE k > place + 1
    <3>1. k - 1 \in (place + 1)..Len(t) /\ (k - 1) + 1 = k
      BY <1>1, <1>2, <2>3
    <3>2. new[k] = t[k - 1]
      BY <1>2, <3>1
    <3> QED
      BY <1>1, <1>2, <2>3, <3>1, <3>2
  <2> QED
    BY <1>1, <1>2, <2>1, <2>2, <2>3
<1>7. P!Elements(new) = P!Elements(t) \cup {x}
  <2>1. \A k \in 1..Len(new) : new[k] \in P!Elements(t) \cup {x}
    BY <1>6 DEF P!Elements
  <2> QED
    BY <1>3, <1>4, <2>1 DEF P!Elements
<1>8. ASSUME Once(t), x \notin P!Elements(t),
             NEW j \in 1..Len(new), NEW k \in 1..Len(new), j < k
      PROVE  new[j] # new[k]
  <2>1. \A m \in 1..Len(t) : t[m] # x
    BY <1>8 DEF P!Elements
  <2>2. \A l, m \in 1..Len(t) : l # m => t[l] # t[m]
    <3> SUFFICES ASSUME NEW l \in 1..Len(t), NEW m \in 1..Len(t), l # m
                 PROVE  t[l] # t[m]
      OBVIOUS
    <3>1. l < m \/ m < l
      OBVIOUS
    <3> QED
      BY <1>8, <3>1 DEF Once
  <2>3. CASE k = place + 1
    <3>1. j \in 1..Len(t) /\ new[j] = t[j] /\ new[k] = x
      BY <1>6, <1>8, <2>3
    <3> QED
      BY <2>1, <3>1
  <2>4. CASE k <= place
    <3>1. j \in 1..Len(t) /\ new[j] = t[j] /\ k \in 1..Len(t) /\ new[k] = t[k]
      BY <1>6, <1>8, <2>4
    <3> QED
      BY <1>8, <2>2, <3>1
  <2>5. CASE k > place + 1
    <3>1. k - 1 \in 1..Len(t) /\ new[k] = t[k - 1]
      BY <1>6, <2>5
    <3>2. CASE j = place + 1
      BY <1>6, <2>1, <3>1, <3>2
    <3>3. CASE j <= place
      <4>1. j \in 1..Len(t) /\ new[j] = t[j] /\ j # k - 1
        BY <1>6, <2>5, <3>3
      <4> QED
        BY <2>2, <3>1, <4>1
    <3>4. CASE j > place + 1
      <4>1. j - 1 \in 1..Len(t) /\ new[j] = t[j - 1] /\ j - 1 # k - 1
        BY <1>6, <1>8, <3>4
      <4> QED
        BY <2>2, <3>1, <4>1
    <3> QED
      BY <1>2, <3>2, <3>3, <3>4
  <2> QED
    BY <1>2, <2>3, <2>4, <2>5
<1> QED
  BY <1>2, <1>5, <1>7, <1>8 DEF NoneAfter, Once, new

LEMMA SortedIs ==
    ASSUME NEW S, NEW s \in Seq(S), NEW before
    PROVE  LET t == P!Sorted(s, before) IN
           /\ t \in Seq(S) /\ P!Elements(t) = P!Elements(s)
           /\ Once(s) => Once(t)
           /\ SortsBy(before, S) => NoneAfter(t, before)
<1> DEFINE step == [p \in Seq(S) \X S |-> P!Inserted(p[1], p[2], before)]
           Sorts(f) == f = [k \in 0..Len(s) |-> IF k = 0 THEN <<>>
                                                ELSE P!Inserted(f[k - 1], s[k], before)]
<1>1. Len(s) \in Nat /\ \A k \in 1..Len(s) : s[k] \in S
  OBVIOUS
<1>2. \A t \in Seq(S), x \in S : P!Inserted(t, x, before) \in Seq(S)
  BY InsertedKeeps
<1>3. P!Sorted(s, before) = (CHOOSE f : Sorts(f))[Len(s)]
  BY DEF P!Sorted
<1>4. /\ step \in [Seq(S) \X S -> Seq(S)]
      /\ \A t \in Seq(S), x \in S : step[<<t, x>>] = P!Inserted(t, x, before)
  BY <1>2
<1> HIDE DEF step
<1>5. PICK f \in [0..Len(s) -> Seq(S)] : Steps(f, step, s, <<>>)
  <2>1. <<>> \in Seq(S)
    OBVIOUS
  <2> QED
    BY <1>4, <2>1, StepsExist
<1>6. Sorts(f)
  <2>1. ASSUME NEW k \in 1..Len(s) PROVE f[k] = P!Inserted(f[k - 1], s[k], before)
    <3>1. k \in 0..Len(s) /\ k - 1 \in 0..Len(s) /\ s[k] \in S
      BY <1>1
    <3>2. f[k - 1] \in Seq(S)
      BY <1>5, <3>1
    <3> QED
      BY <1>4, <1>5, <3>1, <3>2 DEF Steps
  <2>2. \A k \in 0..Len(s) :
           f[k] = IF k = 0 THEN <<>> ELSE P!Inserted(f[k - 1], s[k], before)
    BY <1>1, <1>5, <2>1 DEF Steps
  <2> QED
    BY <1>5, <2>2
<1> DEFINE g == CHOOSE h : Sorts(h)
<1>7. Sorts(g)
  <2> HIDE DEF Sorts
  <2> QED
    BY <1>6
<1> HIDE DEF g
<1>8. g[0] = <<>> /\ \A k \in 1..Len(s) : g[k] = P!Inserted(g[k - 1], s[k], before)
  BY <1>1, <1>7
<1> HIDE DEF Sorts
<1>9. \A k \in 0..Len(s) : g[k] \in Seq(S)
  <2> DEFINE T == Seq(S)
  <2>1. g[0] \in T /\ \A k \in 1..Len(s) : g[k - 1] \in T => g[k] \in T
    <3>1. <<>> \in T /\ \A t \in T, x \in S : P!Inserted(t, x, before) \in T
      BY <1>2
    <3> HIDE DEF T
    <3> QED
      BY <1>1, <1>8, <3>1
  <2> HIDE DEF T
  <2>2. \A k \in 0..Len(s) : g[k] \in T
    BY <1>1, <2>1, StaysIn
  <2> QED
    BY <2>2 DEF T
<1> DEFINE upto == [k \in 0..Len(s) |-> {s[j] : j \in 1..k}]
<1>10. \A k \in 1..Len(s) : upto[k] = upto[k - 1] \cup {s[k]} /\ k - 1 \in 0..Len(s)
  <2> SUFFICES ASSUME NEW k \in 1..Len(s) PROVE upto[k] = upto[k - 1] \cup {s[k]}
    BY <1>1
  <2>1. 1..k = (1..(k - 1)) \cup {k} /\ k \in 0..Len(s) /\ k - 1 \in 0..Len(s)
    BY <1>1
  <2>2. upto[k] = {s[j] : j \in 1..k} /\ upto[k - 1] = {s[j] : j \in 1..(k - 1)}
    BY <2>1
  <2> HIDE DEF upto
  <2> QED
    BY <2>1, <2>2
<1>11. upto[0] = {} /\ upto[Len(s)] = P!Elements(s)
  BY <1>1 DEF P!Elements
<1>12. ASSUME Once(s), NEW k \in 1..Len(s) PROVE s[k] \notin upto[k - 1]
  <2>1. k - 1 \in 0..Len(s) /\ \A j \in 1..(k - 1) : j \in 1..Len(s) /\ j < k
    BY <1>1
  <2>2. \A j \in 1..(k - 1) : s[j] # s[k]
    BY <1>12, <2>1 DEF Once
  <2> QED
    BY <2>1, <2>2
<1> HIDE DEF upto
<1>13. \A k \in 0..Len(s) : P!Elements(g[k]) = upto[k]
  <2> DEFINE T == {k \in 0..Len(s) : P!Elements(g[k]) = upto[k]}
             same == [k \in 0..Len(s) |-> k]
  <2>1. same[0] \in T
    BY <1>1, <1>8, <1>11 DEF P!Elements
  <2>2. ASSUME NEW k \in 1..Len(s), same[k - 1] \in T PROVE same[k] \in T
    <3>1. /\ g[k - 1] \in Seq(S) /\ g[k] = P!Inserted(g[k - 1], s[k], before)
          /\ s[k] \in S /\ k \in 0..Len(s) /\ k - 1 \in 0..Len(s)
      BY <1>1, <1>8, <1>9, <1>10
    <3>2. P!Elements(g[k - 1]) = upto[k - 1]
      BY <2>2, <3>1
    <3>3. P!Elements(g[k]) = P!Elements(g[k - 1]) \cup {s[k]}
      BY <3>1, InsertedKeeps
    <3>4. P!Elements(g[k]) = upto[k]
      BY <1>10, <3>2, <3>3
    <3> QED
      BY <3>1, <3>4
  <2>3. \A k \in 0..Len(s) : same[k] \in T
    <3> HIDE DEF same, T
    <3> QED
      BY <1>1, <2>1, <2>2, StaysIn
  <2> QED
    BY <2>3
<1>14. ASSUME Once(s) PROVE Once(g[Len(s)])
  <2> DEFINE T == {t \in Seq(S) : Once(t)}
  <2>1. g[0] \in T
    BY <1>8 DEF Once
  <2>2. ASSUME NEW k \in 1..Len(s), g[k - 1] \in T PROVE g[k] \in T
    <3>1. g[k - 1] \in Seq(S) /\ Once(g[k - 1]) /\ s[k] \in S /\ k - 1 \in 0..Len(s)
          /\ g[k] = P!Inserted(g[k - 1], s[k], before)
      BY <1>1, <1>8, <1>10, <2>2
    <3>2. s[k] \notin P!Elements(g[k - 1])
      BY <1>12, <1>13, <1>14, <3>1
    <3> QED
      BY <3>1, <3>2, InsertedKeeps
  <2> HIDE DEF T
  <2>3. \A k \in 0..Len(s) : g[k] \in T
    BY <1>1, <2>1, <2>2, StaysIn
  <2> QED
    BY <1>1, <2>3 DEF T
<1>15. ASSUME SortsBy(before, S) PROVE NoneAfter(g[Len(s)], before)
  <2> DEFINE T == {t \in Seq(S) : NoneAfter(t, before)}
  <2>1. g[0] \in T
    BY <1>8 DEF NoneAfter
  <2>2. ASSUME NEW k \in 1..Len(s), g[k - 1] \in T PROVE g[k] \in T
    <3>1. g[k - 1] \in Seq(S) /\ NoneAfter(g[k - 1], before) /\ s[k] \in S
          /\ g[k] = P!Inserted(g[k - 1], s[k], before)
      BY <1>1, <1>8, <2>2
    <3> QED
      BY <1>15, <3>1, InsertedKeeps
  <2> HIDE DEF T
  <2>3. \A k \in 0..Len(s) : g[k] \in T
    BY <1>1, <2>1, <2>2, StaysIn
  <2> QED
    BY <1>1, <2>3 DEF T
<1> QED
  BY <1>1, <1>3, <1>9, <1>15, <1>11, <1>13, <1>14 DEF g

-----------------------------------------------------------------------------
(* The orders the parser sorts by.                                         *)

Kinds == {"light", "dimmer", "shutter", "outlet", "scene", "button"}
IsDevice(d) ==
    /\ d.kind \in Kinds /\ d.sort \in Int
    /\ d.floor \in Words /\ d.category \in Words /\ d.name \in Words
IsFloor(f) == f.sort \in Int /\ f.name \in Words

LEMMA RanksAre ==
    /\ \A kind \in Kinds : P!KindRank[kind] \in Nat
    /\ \A j, k \in Kinds : P!KindRank[j] = P!KindRank[k] => j = k
  BY DEF Kinds, P!KindRank

(* naturalLess is what sort.SliceStable asks of it: of two names not each  *)
(* is before the other, and what is between two that are in order is after *)
(* the first or before the second, whatever runs of digits, letters before *)
(* or after them and ends of names meet (parser.go:486).                   *)
THEOREM NamesSort == SortsBy({p \in Words \X Words : P!NaturalLess(p[1], p[2])}, Words)
  BY NeverBoth, BetweenOrBeside DEF SortsBy

(* Floors go by their index, then by their name.                           *)
LEMMA FloorsSort ==
    ASSUME NEW S, \A f \in S : IsFloor(f)
    PROVE  SortsBy(P!FloorsBefore(S), S)
<1>1. \A f, g \in S : <<f, g>> \in P!FloorsBefore(S) <=> P!FloorLess(f, g)
  BY DEF P!FloorsBefore
<1>2. ASSUME NEW f \in S, NEW g \in S, P!FloorLess(f, g) PROVE ~P!FloorLess(g, f)
  BY <1>2, NeverBoth DEF P!FloorLess, IsFloor
<1>3. ASSUME NEW f \in S, NEW g \in S, NEW h \in S, P!FloorLess(f, h)
      PROVE  P!FloorLess(f, g) \/ P!FloorLess(g, h)
  BY <1>3, BetweenOrBeside DEF P!FloorLess, IsFloor
<1> QED
  BY <1>1, <1>2, <1>3 DEF SortsBy

(* Devices go by their kind, then by their category, then by their name.   *)
LEMMA DevicesSort ==
    ASSUME NEW S, \A d \in S : IsDevice(d), \A x, y \in S : ~P!CaseOnly(x, y)
    PROVE  SortsBy(P!DevicesBefore(S), S)
<1> DEFINE Rank(d) == P!KindRank[d.kind]
<1>1. \A x, y \in S : <<x, y>> \in P!DevicesBefore(S) <=> P!DeviceLess(x, y)
  BY DEF P!DevicesBefore
<1>2. \A d \in S : Rank(d) \in Nat /\ d.category \in Words /\ d.name \in Words
  BY RanksAre DEF IsDevice
<1>3. \A x, y \in S : x.category # y.category =>
        P!NaturalLess(x.category, y.category) \/ P!NaturalLess(y.category, x.category)
  BY DEF P!CaseOnly
<1>4. \A x, y \in S : P!DeviceLess(x, y) <=>
        \/ Rank(x) < Rank(y)
        \/ /\ Rank(x) = Rank(y) /\ x.category # y.category
           /\ P!NaturalLess(x.category, y.category)
        \/ /\ Rank(x) = Rank(y) /\ x.category = y.category
           /\ P!NaturalLess(x.name, y.name)
  <2> SUFFICES ASSUME NEW x \in S, NEW y \in S
               PROVE  P!DeviceLess(x, y) <=>
                        \/ Rank(x) < Rank(y)
                        \/ /\ Rank(x) = Rank(y) /\ x.category # y.category
                           /\ P!NaturalLess(x.category, y.category)
                        \/ /\ Rank(x) = Rank(y) /\ x.category = y.category
                           /\ P!NaturalLess(x.name, y.name)
    OBVIOUS
  <2>1. CASE Rank(x) # Rank(y)
    BY <1>2, <2>1 DEF P!DeviceLess
  <2>2. CASE Rank(x) = Rank(y) /\ x.category # y.category
    BY <1>2, <2>2 DEF P!DeviceLess
  <2>3. CASE Rank(x) = Rank(y) /\ x.category = y.category
    BY <1>2, <2>3 DEF P!DeviceLess
  <2> QED
    BY <2>1, <2>2, <2>3
<1> HIDE DEF Rank
<1>5. ASSUME NEW x \in S, NEW y \in S, P!DeviceLess(x, y) PROVE ~P!DeviceLess(y, x)
  <2>1. CASE Rank(x) # Rank(y)
    BY <1>2, <1>4, <1>5, <2>1
  <2>2. CASE Rank(x) = Rank(y) /\ x.category # y.category
    BY <1>2, <1>4, <1>5, <2>2, NeverBoth
  <2>3. CASE Rank(x) = Rank(y) /\ x.category = y.category
    BY <1>2, <1>4, <1>5, <2>3, NeverBoth
  <2> QED
    BY <2>1, <2>2, <2>3
<1>6. ASSUME NEW x \in S, NEW y \in S, NEW z \in S,
             ~P!DeviceLess(x, y), ~P!DeviceLess(y, z)
      PROVE  ~P!DeviceLess(x, z)
  <2>1. Rank(z) <= Rank(y) /\ Rank(y) <= Rank(x) /\ Rank(x) \in Nat /\ Rank(y) \in Nat
        /\ Rank(z) \in Nat
    BY <1>2, <1>4, <1>6
  <2>2. CASE Rank(z) # Rank(x)
    BY <1>4, <2>1, <2>2
  <2>3. CASE Rank(z) = Rank(x)
    <3>1. Rank(x) = Rank(y) /\ Rank(y) = Rank(z)
      BY <2>1, <2>3
    <3>2. CASE x.category = y.category /\ y.category = z.category
      <4>1. ~P!NaturalLess(x.name, y.name) /\ ~P!NaturalLess(y.name, z.name)
        BY <1>4, <1>6, <3>1, <3>2
      <4>2. ~P!NaturalLess(x.name, z.name)
        BY <1>2, <4>1, BetweenOrBeside
      <4> QED
        BY <1>4, <2>1, <3>1, <3>2, <4>2
    <3>3. CASE x.category = y.category /\ y.category # z.category
      BY <1>4, <1>6, <2>1, <3>1, <3>3
    <3>4. CASE x.category # y.category /\ y.category = z.category
      BY <1>4, <1>6, <2>1, <3>1, <3>4
    <3>5. CASE x.category # y.category /\ y.category # z.category
      <4>1. ~P!NaturalLess(x.category, y.category) /\ ~P!NaturalLess(y.category, z.category)
        BY <1>4, <1>6, <3>1, <3>5
      <4>2. ~P!NaturalLess(x.category, z.category)
        BY <1>2, <4>1, BetweenOrBeside
      <4>3. P!NaturalLess(y.category, x.category)
        BY <1>3, <3>5, <4>1
      <4>4. x.category # z.category
        BY <4>1, <4>3
      <4> QED
        BY <1>4, <2>1, <3>1, <4>2, <4>4
    <3> QED
      BY <3>2, <3>3, <3>4, <3>5
  <2> QED
    BY <2>2, <2>3
<1> QED
  BY <1>1, <1>5, <1>6 DEF SortsBy

(* Which is as a page shows them.                                          *)
LEMMA SortedDevices ==
    ASSUME NEW x, NEW y, IsDevice(x), IsDevice(y), ~P!DeviceLess(y, x)
    PROVE  P!InOrder(x, y)
<1>1. P!KindRank[x.kind] \in Nat /\ P!KindRank[y.kind] \in Nat
  BY RanksAre DEF IsDevice
<1>2. P!KindRank[x.kind] <= P!KindRank[y.kind]
  BY <1>1 DEF P!DeviceLess
<1>3. ASSUME x.kind = y.kind, x.category = y.category, P!Stem(x.name) = P!Stem(y.name)
      PROVE  P!NumberOf(x.name) <= P!NumberOf(y.name)
  <2>1. x.name \in Words /\ y.name \in Words
    BY DEF IsDevice
  <2>2. P!NumberOf(x.name) \in Int /\ P!NumberOf(y.name) \in Int
    BY <2>1, NumberOfIs
  <2>3. ~P!NaturalLess(y.name, x.name)
    BY <1>3 DEF P!DeviceLess
  <2>4. ~(P!NumberOf(y.name) < P!NumberOf(x.name))
    BY <1>3, <2>1, <2>3, NumberedInOrder
  <2> QED
    BY <2>2, <2>4
<1> QED
  BY <1>2, <1>3 DEF P!InOrder

-----------------------------------------------------------------------------
(* The floors of typed devices.                                            *)

DevicesTyped == \A k \in 1..Len(added) : IsDevice(added[k])

LEMMA AppendKeeps ==
    ASSUME NEW S, NEW t \in Seq(S), NEW x \in S
    PROVE  /\ P!Elements(Append(t, x)) = P!Elements(t) \cup {x}
           /\ Once(t) /\ x \notin P!Elements(t) => Once(Append(t, x))
<1> DEFINE new == Append(t, x)
<1>1. /\ Len(t) \in Nat /\ Len(new) = Len(t) + 1 /\ new[Len(t) + 1] = x
      /\ \A k \in 1..Len(t) : k \in 1..Len(new) /\ new[k] = t[k]
      /\ \A k \in 1..Len(new) : k \in 1..Len(t) \/ k = Len(t) + 1
      /\ Len(t) + 1 \in 1..Len(new)
  OBVIOUS
<1> HIDE DEF new
<1>2. P!Elements(new) = P!Elements(t) \cup {x}
  <2>1. \A k \in 1..Len(new) : new[k] \in P!Elements(t) \cup {x}
    BY <1>1 DEF P!Elements
  <2>2. x \in P!Elements(new) /\ \A k \in 1..Len(t) : t[k] \in P!Elements(new)
    BY <1>1 DEF P!Elements
  <2> QED
    BY <2>1, <2>2 DEF P!Elements
<1>3. ASSUME Once(t), x \notin P!Elements(t),
             NEW j \in 1..Len(new), NEW k \in 1..Len(new), j < k
      PROVE  new[j] # new[k]
  <2>1. j \in 1..Len(t)
    BY <1>1, <1>3
  <2>2. CASE k \in 1..Len(t)
    BY <1>1, <1>3, <2>1, <2>2 DEF Once
  <2>3. CASE k = Len(t) + 1
    BY <1>1, <1>3, <2>1, <2>3 DEF P!Elements
  <2> QED
    BY <1>1, <2>2, <2>3
<1> QED
  BY <1>2, <1>3 DEF Once, new

LEMMA DevicesOfIs ==
    ASSUME IsSeq(added), NEW name
    PROVE  /\ P!DevicesOf(name) \in Seq(P!Elements(added))
           /\ P!Elements(P!DevicesOf(name)) = {d \in P!Elements(added) : d.floor = name}
           /\ Once(added) => Once(P!DevicesOf(name))
<1> DEFINE S == P!Elements(added)
           Longer(those, d) == IF d.floor = name THEN Append(those, d) ELSE those
           step == [p \in Seq(S) \X S |-> Longer(p[1], p[2])]
           Collects(f) == f = [k \in 0..Len(added) |->
                                 IF k = 0 THEN <<>>
                                 ELSE IF added[k].floor = name THEN Append(f[k - 1], added[k])
                                 ELSE f[k - 1]]
<1>1. added \in Seq(S) /\ Len(added) \in Nat /\ \A k \in 1..Len(added) : added[k] \in S
  <2>1. added \in Seq(S)
    BY DEF IsSeq, P!Elements
  <2>2. \A k \in 1..Len(added) : added[k] \in S
    BY DEF P!Elements
  <2> HIDE DEF S
  <2> QED
    BY <2>1, <2>2
<1>2. P!DevicesOf(name) = (CHOOSE f : Collects(f))[Len(added)]
  BY DEF P!DevicesOf
<1> HIDE DEF S
<1>3. \A those \in Seq(S), d \in S : Longer(those, d) \in Seq(S)
  OBVIOUS
<1>4. /\ step \in [Seq(S) \X S -> Seq(S)]
      /\ \A those \in Seq(S), d \in S : step[<<those, d>>] = Longer(those, d)
  BY <1>3
<1> HIDE DEF step
<1>5. PICK f \in [0..Len(added) -> Seq(S)] : Steps(f, step, added, <<>>)
  <2>1. <<>> \in Seq(S)
    OBVIOUS
  <2> QED
    BY <1>1, <1>4, <2>1, StepsExist
<1>6. Collects(f)
  <2>1. ASSUME NEW k \in 1..Len(added) PROVE f[k] = Longer(f[k - 1], added[k])
    <3>1. k \in 0..Len(added) /\ k - 1 \in 0..Len(added) /\ added[k] \in S
      BY <1>1
    <3>2. f[k - 1] \in Seq(S)
      BY <1>5, <3>1
    <3> HIDE DEF Longer
    <3> QED
      BY <1>4, <1>5, <3>1, <3>2 DEF Steps
  <2>2. \A k \in 0..Len(added) : f[k] = IF k = 0 THEN <<>> ELSE Longer(f[k - 1], added[k])
    <3> HIDE DEF Longer
    <3> QED
      BY <1>1, <1>5, <2>1 DEF Steps
  <2> QED
    BY <1>5, <2>2
<1> DEFINE g == CHOOSE h : Collects(h)
<1>7. Collects(g)
  <2> HIDE DEF Collects
  <2> QED
    BY <1>6
<1> HIDE DEF g
<1>8. g[0] = <<>> /\ \A k \in 1..Len(added) : g[k] = Longer(g[k - 1], added[k])
  <2>1. \A k \in 0..Len(added) :
          g[k] = IF k = 0 THEN <<>>
                 ELSE IF added[k].floor = name THEN Append(g[k - 1], added[k]) ELSE g[k - 1]
    <3> SUFFICES ASSUME NEW k \in 0..Len(added)
                 PROVE  g[k] = IF k = 0 THEN <<>>
                               ELSE IF added[k].floor = name THEN Append(g[k - 1], added[k])
                               ELSE g[k - 1]
      OBVIOUS
    <3> QED
      BY <1>7, Zenon
  <2>2. 0 \in 0..Len(added) /\ \A k \in 1..Len(added) : k \in 0..Len(added) /\ k # 0
    BY <1>1
  <2> QED
    BY <2>1, <2>2
<1> HIDE DEF Collects
<1> DEFINE upto == [k \in 0..Len(added) |->
                      {d \in {added[j] : j \in 1..k} : d.floor = name}]
<1> HIDE DEF upto
<1>9. \A k \in 0..Len(added) : g[k] \in Seq(S)
  <2> DEFINE T == Seq(S)
  <2>1. g[0] \in T /\ \A k \in 1..Len(added) : g[k - 1] \in T => g[k] \in T
    <3>1. <<>> \in T /\ \A t \in T, d \in S : Longer(t, d) \in T
      BY <1>3
    <3> HIDE DEF T, Longer
    <3> QED
      BY <1>1, <1>8, <3>1
  <2> HIDE DEF T
  <2>2. \A k \in 0..Len(added) : g[k] \in T
    BY <1>1, <2>1, StaysIn
  <2> QED
    BY <2>2 DEF T
<1> USE DEF upto
<1>10. upto[0] = {} /\ upto[Len(added)] = {d \in S : d.floor = name}
  BY <1>1 DEF S, P!Elements
<1>11. ASSUME NEW k \in 1..Len(added)
       PROVE  /\ k \in 0..Len(added) /\ k - 1 \in 0..Len(added)
              /\ upto[k] = IF added[k].floor = name THEN upto[k - 1] \cup {added[k]}
                           ELSE upto[k - 1]
              /\ Once(added) => added[k] \notin upto[k - 1]
  <2>1. /\ k \in 0..Len(added) /\ k - 1 \in 0..Len(added)
        /\ 1..k = (1..(k - 1)) \cup {k}
        /\ \A j \in 1..(k - 1) : j \in 1..Len(added) /\ j < k
    BY <1>1
  <2>2. /\ upto[k] = {d \in {added[j] : j \in 1..k} : d.floor = name}
        /\ upto[k - 1] = {d \in {added[j] : j \in 1..(k - 1)} : d.floor = name}
    BY <2>1
  <2> HIDE DEF upto
  <2>3. upto[k] = IF added[k].floor = name THEN upto[k - 1] \cup {added[k]}
                  ELSE upto[k - 1]
    BY <2>1, <2>2
  <2>4. Once(added) => added[k] \notin upto[k - 1]
    BY <2>1, <2>2 DEF Once
  <2> QED
    BY <2>1, <2>3, <2>4
<1> HIDE DEF upto
<1>12. \A k \in 0..Len(added) : P!Elements(g[k]) = upto[k]
  <2> DEFINE T == {k \in 0..Len(added) : P!Elements(g[k]) = upto[k]}
             same == [k \in 0..Len(added) |-> k]
  <2>1. same[0] \in T
    BY <1>1, <1>8, <1>10 DEF P!Elements
  <2>2. ASSUME NEW k \in 1..Len(added), same[k - 1] \in T PROVE same[k] \in T
    <3>1. /\ g[k - 1] \in Seq(S) /\ g[k] = Longer(g[k - 1], added[k])
          /\ added[k] \in S /\ k \in 0..Len(added) /\ k - 1 \in 0..Len(added)
      BY <1>1, <1>8, <1>9, <1>11
    <3>2. P!Elements(g[k - 1]) = upto[k - 1]
      BY <2>2, <3>1
    <3>3. P!Elements(Append(g[k - 1], added[k])) = upto[k - 1] \cup {added[k]}
      BY <3>1, <3>2, AppendKeeps
    <3>4. P!Elements(g[k]) = upto[k]
      <4>1. CASE added[k].floor = name
        BY <1>11, <3>1, <3>3, <4>1
      <4>2. CASE added[k].floor # name
        BY <1>11, <3>1, <3>2, <4>2
      <4> QED
        BY <4>1, <4>2
    <3> QED
      BY <3>1, <3>4
  <2>3. \A k \in 0..Len(added) : same[k] \in T
    <3> HIDE DEF same, T
    <3> QED
      BY <1>1, <2>1, <2>2, StaysIn
  <2> QED
    BY <2>3
<1>13. ASSUME Once(added) PROVE Once(g[Len(added)])
  <2> DEFINE T == {t \in Seq(S) : Once(t)}
  <2>1. g[0] \in T
    BY <1>8 DEF Once
  <2>2. ASSUME NEW k \in 1..Len(added), g[k - 1] \in T PROVE g[k] \in T
    <3>1. /\ g[k - 1] \in Seq(S) /\ Once(g[k - 1]) /\ added[k] \in S
          /\ g[k] = Longer(g[k - 1], added[k])
      BY <1>1, <1>8, <2>2
    <3>2. added[k] \notin P!Elements(g[k - 1])
      BY <1>11, <1>12, <1>13
    <3>3. Append(g[k - 1], added[k]) \in Seq(S)
      BY <3>1
    <3> QED
      BY <3>1, <3>2, <3>3, AppendKeeps
  <2> HIDE DEF T
  <2>3. \A k \in 0..Len(added) : g[k] \in T
    BY <1>1, <2>1, <2>2, StaysIn
  <2> QED
    BY <1>1, <2>3 DEF T
<1>14. P!Elements(g[Len(added)]) = {d \in S : d.floor = name}
  BY <1>1, <1>10, <1>12
<1> QED
  BY <1>1, <1>2, <1>9, <1>13, <1>14 DEF g, S

(* A floor has the index of one of its devices, and these are in order.    *)
WellOrdered(f) ==
    /\ \E k \in 1..Len(f.devices) : f.devices[k].sort = f.sort
    /\ (\A j, k \in 1..Len(f.devices) : ~P!CaseOnly(f.devices[j], f.devices[k])) =>
         \A j, k \in 1..Len(f.devices) : j < k => P!InOrder(f.devices[j], f.devices[k])

(* It has all the devices of its name, each once.                          *)
Whole(f) ==
    /\ P!Elements(f.devices) = {d \in P!Elements(added) : d.floor = f.name}
    /\ Once(f.devices)

LEMMA FloorIs ==
    ASSUME IsSeq(added), DevicesTyped, Once(added), NEW m \in 1..Len(added)
    PROVE  LET f == P!Floor(added[m].floor) IN
           f.name = added[m].floor /\ IsFloor(f) /\ WellOrdered(f) /\ Whole(f)
<1> DEFINE name == added[m].floor
           devices == P!DevicesOf(name)
           S == P!Elements(devices)
           before == P!DevicesBefore(S)
           sorted == P!Sorted(devices, before)
           f == P!Floor(name)
<1>1. /\ devices \in Seq(P!Elements(added)) /\ devices # <<>> /\ Once(devices)
      /\ S = {d \in P!Elements(added) : d.floor = name}
  <2>1. /\ devices \in Seq(P!Elements(added)) /\ Once(devices)
        /\ S = {d \in P!Elements(added) : d.floor = name}
    BY DevicesOfIs
  <2>2. added[m] \in S
    BY <2>1 DEF P!Elements
  <2>3. devices # <<>>
    <3>1. P!Elements(<<>>) = {}
      BY DEF P!Elements
    <3> HIDE DEF devices
    <3> QED
      BY <2>2, <3>1
  <2> QED
    BY <2>1, <2>3
<1>2. f = [name |-> name, sort |-> P!Last(devices).sort, devices |-> sorted]
  BY DEF P!Floor
<1>3. \A d \in P!Elements(added) : IsDevice(d)
  BY DEF DevicesTyped, P!Elements
<1>4. name \in Words
  BY DEF DevicesTyped, IsDevice
<1>5. /\ Len(devices) \in Nat /\ Len(devices) >= 1 /\ devices \in Seq(S)
      /\ \A k \in 1..Len(devices) : devices[k] \in S
      /\ \A d \in S : IsDevice(d)
  <2> DEFINE all == P!Elements(added)
  <2>1. devices \in Seq(all) /\ devices # <<>> /\ \A d \in all : IsDevice(d)
    BY <1>1, <1>3
  <2> HIDE DEF all, devices
  <2>2. Len(devices) \in Nat /\ Len(devices) >= 1 /\ \A k \in 1..Len(devices) : devices[k] \in all
    BY <2>1
  <2>3. \A k \in 1..Len(devices) : devices[k] \in S
    BY DEF P!Elements
  <2>4. IsSeq(devices)
    BY <2>1, SeqIsSeq
  <2>5. devices \in Seq(S)
    BY <2>4 DEF IsSeq, P!Elements
  <2>6. \A d \in S : IsDevice(d)
    BY <2>1, <2>2 DEF P!Elements
  <2> QED
    BY <2>2, <2>3, <2>5, <2>6
<1>6. P!Last(devices) = devices[Len(devices)]
  BY DEF P!Last
<1> HIDE DEF name, devices, S, before
<1>7. /\ sorted \in Seq(S) /\ P!Elements(sorted) = S /\ Once(sorted)
      /\ SortsBy(before, S) => NoneAfter(sorted, before)
  <2>1. /\ sorted \in Seq(S) /\ P!Elements(sorted) = P!Elements(devices)
        /\ Once(devices) => Once(sorted)
        /\ SortsBy(before, S) => NoneAfter(sorted, before)
    BY <1>5, SortedIs
  <2> QED
    BY <1>1, <2>1 DEF S
<1> HIDE DEF sorted, f
<1>8. P!Last(devices) \in S /\ P!Last(devices) \in P!Elements(sorted)
  BY <1>5, <1>6, <1>7
<1>9. f.name = name /\ f.sort = P!Last(devices).sort /\ f.devices = sorted
  BY <1>2
<1>10. IsFloor(f)
  BY <1>4, <1>5, <1>8, <1>9 DEF IsFloor, IsDevice
<1>11. \E k \in 1..Len(sorted) : sorted[k].sort = f.sort
  BY <1>8, <1>9 DEF P!Elements
<1>12. ASSUME \A j, k \in 1..Len(sorted) : ~P!CaseOnly(sorted[j], sorted[k]),
              NEW j \in 1..Len(sorted), NEW k \in 1..Len(sorted), j < k
       PROVE  P!InOrder(sorted[j], sorted[k])
  <2>1. \A x \in S : \E i_ \in 1..Len(sorted) : x = sorted[i_]
    BY <1>7 DEF P!Elements
  <2>2. \A x, y \in S : ~P!CaseOnly(x, y)
    BY <1>12, <2>1
  <2>3. NoneAfter(sorted, before)
    BY <1>5, <1>7, <2>2, DevicesSort DEF before
  <2>4. <<sorted[k], sorted[j]>> \notin before /\ sorted[j] \in S /\ sorted[k] \in S
    BY <1>7, <1>12, <2>3 DEF NoneAfter
  <2>5. ~P!DeviceLess(sorted[k], sorted[j])
    BY <2>4 DEF before, P!DevicesBefore
  <2> QED
    BY <1>5, <2>4, <2>5, SortedDevices
<1>13. WellOrdered(f)
  BY <1>9, <1>11, <1>12 DEF WellOrdered
<1>14. Whole(f)
  BY <1>1, <1>7, <1>9 DEF Whole
<1> QED
  BY <1>9, <1>10, <1>13, <1>14 DEF f, name

Floored ==
    /\ \A j, k \in 1..Len(floors) : j < k => floors[j].sort <= floors[k].sort
    /\ \A j, k \in 1..Len(floors) : j < k => floors[j].name # floors[k].name
    /\ \A k \in 1..Len(floors) : WellOrdered(floors[k]) /\ Whole(floors[k])
    /\ \A d \in P!Elements(added) : \E k \in 1..Len(floors) : floors[k].name = d.floor

LEMMA FloorsMade ==
    ASSUME IsSeq(added), DevicesTyped, Once(added), P!ToolsEnd
    PROVE  Floored'
<1> DEFINE names == {added[k].floor : k \in 1..Len(added)}
<1>1. PICK order \in P!SetToSeqs(names) :
        LET unsorted == [k \in 1..Len(order) |-> P!Floor(order[k])] IN
        floors' = P!Sorted(unsorted, P!FloorsBefore(P!Elements(unsorted)))
  BY DEF P!ToolsEnd
<1> DEFINE unsorted == [k \in 1..Len(order) |-> P!Floor(order[k])]
           S == P!Elements(unsorted)
           before == P!FloorsBefore(S)
<1>2. Len(added) \in Nat
  BY DEF IsSeq
<1>3. IsFiniteSet(names) /\ Cardinality(names) \in Nat
  <2> DEFINE listed == [k \in 1..Len(added) |-> added[k].floor]
  <2>1. listed \in Seq(names) /\ Len(listed) = Len(added)
    BY <1>2
  <2>2. \A name \in names : \E k \in 1..Len(listed) : listed[k] = name
    BY <1>2, <2>1
  <2> HIDE DEF names, listed
  <2>3. IsFiniteSet(names)
    BY <2>1, <2>2 DEF IsFiniteSet
  <2> QED
    BY <2>3, FS_CardinalityType
<1>4. /\ order \in [1..Cardinality(names) -> names]
      /\ \A j, k \in 1..Cardinality(names) : j # k => order[j] # order[k]
  BY DEF P!SetToSeqs, P!Cardinality, Cardinality
<1>5. ASSUME NEW name \in names
      PROVE  /\ P!Floor(name).name = name /\ IsFloor(P!Floor(name))
             /\ WellOrdered(P!Floor(name)) /\ Whole(P!Floor(name))
  <2>1. PICK k \in 1..Len(added) : name = added[k].floor
    OBVIOUS
  <2> QED
    BY <2>1, FloorIs
<1> HIDE DEF names
<1>6. /\ order \in Seq(names) /\ Len(order) = Cardinality(names)
      /\ Len(order) \in Nat /\ \A k \in 1..Len(order) : order[k] \in names
      /\ Len(unsorted) = Len(order)
      /\ \A k \in 1..Len(order) : unsorted[k] = P!Floor(order[k])
  BY <1>3, <1>4
<1>7. \A name \in names : \E k \in 1..Len(order) : order[k] = name
  <2> DEFINE places == 1..Cardinality(names)
  <2>1. IsInjective(order) /\ order \in [places -> names]
    BY <1>4 DEF IsInjective
  <2>2. Cardinality(places) = Cardinality(names)
    BY <1>3, FS_Interval
  <2> HIDE DEF places
  <2>3. order \in Surjection(places, names)
    BY <1>3, <2>1, <2>2, FS_Injection DEF Injection
  <2> QED
    BY <1>6, <2>3 DEF Surjection, places
<1>8. S = {P!Floor(name) : name \in names}
  <2> HIDE DEF unsorted
  <2>1. S = {P!Floor(order[k]) : k \in 1..Len(order)}
    BY <1>6 DEF P!Elements
  <2> QED
    BY <1>6, <1>7, <2>1
<1>9. unsorted \in Seq(S) /\ Once(unsorted)
  <2>1. \A k \in 1..Len(order) : unsorted[k] \in S
    <3> HIDE DEF unsorted
    <3> QED
      BY <1>6 DEF P!Elements
  <2>2. ASSUME NEW j \in 1..Len(order), NEW k \in 1..Len(order), j < k
        PROVE  P!Floor(order[j]) # P!Floor(order[k])
    BY <1>4, <1>5, <1>6, <2>2
  <2> HIDE DEF S
  <2> QED
    BY <1>6, <2>1, <2>2 DEF Once
<1>10. floors' = P!Sorted(unsorted, before)
  BY <1>1
<1>11. P!Elements(unsorted) = S
  OBVIOUS
<1> HIDE DEF unsorted, S
<1>12. \A f \in S : IsFloor(f) /\ WellOrdered(f) /\ Whole(f)
  BY <1>5, <1>8
<1>13. SortsBy(before, S)
  BY <1>12, FloorsSort
<1> HIDE DEF before
<1>14. /\ floors' \in Seq(S) /\ NoneAfter(floors', before)
       /\ P!Elements(floors') = S /\ Once(floors')
  BY <1>9, <1>10, <1>11, <1>13, SortedIs
<1>15. \A k \in 1..Len(floors') : floors'[k] \in S
  BY <1>14
<1>16. added' = added
  BY DEF P!ToolsEnd
<1>17. \A k \in 1..Len(floors') : WellOrdered(floors'[k]) /\ Whole(floors'[k])
  BY <1>12, <1>15
<1>18. ASSUME NEW j \in 1..Len(floors'), NEW k \in 1..Len(floors'), j < k
       PROVE  /\ floors'[j].sort <= floors'[k].sort
              /\ floors'[j].name # floors'[k].name
  <2>1. floors'[j] \in S /\ floors'[k] \in S /\ <<floors'[k], floors'[j]>> \notin before
    BY <1>14, <1>15, <1>18 DEF NoneAfter
  <2>2. ~P!FloorLess(floors'[k], floors'[j])
    BY <2>1 DEF before, P!FloorsBefore
  <2>3. floors'[k].sort \in Int /\ floors'[j].sort \in Int
    BY <1>12, <2>1 DEF IsFloor
  <2>4. floors'[j] # floors'[k]
    BY <1>14, <1>18 DEF Once
  <2>5. floors'[j].name # floors'[k].name
    BY <1>5, <1>8, <2>1, <2>4
  <2> QED
    BY <2>2, <2>3, <2>5 DEF P!FloorLess
<1>19. ASSUME NEW d \in P!Elements(added)
       PROVE  \E k \in 1..Len(floors') : floors'[k].name = d.floor
  <2>1. d.floor \in names
    BY DEF names, P!Elements
  <2>2. P!Floor(d.floor) \in P!Elements(floors')
    BY <1>8, <1>14, <2>1
  <2> QED
    BY <1>5, <2>1, <2>2 DEF P!Elements
<1> QED
  BY <1>16, <1>17, <1>18, <1>19 DEF Floored, WellOrdered, Whole, P!Elements

-----------------------------------------------------------------------------
(* What the devices of a project are made of.                              *)

ReadKnown ==
    /\ \A k \in 1..Len(channels) : channels[k].text \in Words
    /\ \A k \in 1..Len(actions) : actions[k] \in Action
FloorsInv == ReadKnown /\ DevicesTyped /\ (loop = "done" => Floored)

IsParts(parts) ==
    /\ parts.sort \in Int
    /\ parts.floor \in Words /\ parts.category \in Words /\ parts.label \in Words

LEMMA PartsAre ==
    ASSUME NEW text \in Words, P!HasParts(text)
    PROVE  IsParts(P!Parts(text))
<1> DEFINE colons == P!IndicesOf(text, ":", 1)
           arrows == P!IndicesOf(text, ">", P!Colon(text) + 1)
           prefix == P!Before(text, P!Colon(text))
           dots == P!IndicesOf(prefix, ".", 1)
<1>1. \A T \in SUBSET Nat : T # {} => P!Least(T) \in T
  <2> SUFFICES ASSUME NEW T \in SUBSET Nat, T # {} PROVE P!Least(T) \in T
    OBVIOUS
  <2>1. \E x \in T : \A y \in T : x <= y
    BY LeastOf
  <2> QED
    BY <2>1 DEF P!Least
<1>2. Len(text) \in Nat
  BY DEF Words
<1>3. P!Colon(text) \in 1..Len(text)
  <2>1. colons \in SUBSET Nat /\ colons \subseteq 1..Len(text) /\ colons # {}
    BY <1>2 DEF P!IndicesOf, P!HasParts
  <2>2. P!Colon(text) = P!Least(colons)
    BY DEF P!Colon
  <2> HIDE DEF colons
  <2> QED
    BY <1>1, <2>1, <2>2
<1>4. P!Arrow(text) \in 1..Len(text)
  <2>1. arrows \subseteq 1..Len(text) /\ arrows # {}
    BY <1>2, <1>3 DEF P!IndicesOf, P!HasParts
  <2>2. P!Arrow(text) = P!Least(arrows)
    BY DEF P!Arrow
  <2> HIDE DEF arrows
  <2>3. arrows \in SUBSET Nat
    BY <1>2, <2>1
  <2> QED
    BY <1>1, <2>1, <2>2, <2>3
<1>5. prefix \in Words /\ Len(prefix) \in Nat
  <2>1. prefix \in Words
    BY <1>2, <1>3, SubTexts DEF P!Before
  <2> HIDE DEF prefix
  <2> QED
    BY <2>1 DEF Words
<1>6. P!SortOf(prefix) \in Int /\ P!FloorOf(prefix) \in Words
  <2> HIDE DEF prefix
  <2>1. CASE dots = {}
    <3>1. <<>> \in Words
      BY DEF Words
    <3> QED
      BY <1>5, <2>1, <3>1, NumbersAre DEF P!SortOf, P!FloorOf
  <2>2. CASE dots # {}
    <3>1. dots \in SUBSET Nat /\ dots \subseteq 1..Len(prefix)
      BY <1>5 DEF P!IndicesOf
    <3>2. P!Least(dots) \in 1..Len(prefix)
      <4> HIDE DEF dots
      <4> QED
        BY <1>1, <2>2, <3>1
    <3>3. P!Before(prefix, P!Least(dots)) \in Words /\ P!After(prefix, P!Least(dots)) \in Words
      <4> DEFINE dot == P!Least(dots)
      <4>1. dot \in 1..Len(prefix)
        BY <3>2
      <4> HIDE DEF dot, dots
      <4> HIDE DEF prefix
      <4>2. /\ dot - 1 \in Int /\ dot - 1 <= Len(prefix)
            /\ dot + 1 \in Nat /\ dot + 1 >= 1
        BY <1>5, <4>1
      <4>3. SubSeq(prefix, 1, dot - 1) \in Words
        <5>1. \A k \in Int : k <= Len(prefix) => SubSeq(prefix, 1, k) \in Words
          BY <1>5, SubTexts
        <5> QED
          BY <4>2, <5>1
      <4>4. SubSeq(prefix, dot + 1, Len(prefix)) \in Words
        <5>1. \A j \in Nat : j >= 1 => SubSeq(prefix, j, Len(prefix)) \in Words
          BY <1>5, SubTexts
        <5> QED
          BY <4>2, <5>1
      <4> QED
        BY <4>3, <4>4 DEF P!Before, P!After, dot
    <3>4. P!IntOr(P!Before(prefix, P!Least(dots)), 99) \in Int
      <4> HIDE DEF dots
      <4> QED
        BY <3>3, NumbersAre
    <3> QED
      BY <2>2, <3>3, <3>4 DEF P!SortOf, P!FloorOf
  <2> QED
    BY <2>1, <2>2
<1>7. SubSeq(text, P!Colon(text) + 1, P!Arrow(text) - 1) \in Words
  BY <1>2, <1>3, <1>4, SubTexts
<1>8. P!After(text, P!Arrow(text)) \in Words
  BY <1>2, <1>4, SubTexts DEF P!After
<1> QED
  BY <1>6, <1>7, <1>8 DEF IsParts, P!Parts

LEMMA DeviceMade ==
    ASSUME NEW kind \in Kinds, NEW parts, IsParts(parts), NEW ref, NEW upRef
    PROVE  IsDevice(P!Device(kind, parts, ref, upRef))
  BY DEF IsDevice, IsParts, P!Device

LEMMA ChannelDeviceMade ==
    ASSUME ReadKnown, NEW k \in P!Channels, NEW kind \in Kinds, NEW ref, NEW upRef
    PROVE  IsDevice(P!Device(kind, P!Parts(channels[k].text), ref, upRef))
<1>1. channels[k].text \in Words /\ P!HasParts(channels[k].text)
  BY DEF ReadKnown, P!Channels
<1>2. IsParts(P!Parts(channels[k].text))
  BY <1>1, PartsAre
<1> QED
  BY <1>2, DeviceMade

LEMMA AddKeepsTyped ==
    ASSUME IsSeq(added), DevicesTyped, NEW d, IsDevice(d), P!Add(d)
    PROVE  DevicesTyped'
<1>1. CASE added' = Append(added, d)
  <2>1. \A k \in 1..Len(added') : k \in 1..Len(added) \/ k = Len(added) + 1
    BY <1>1, Appended
  <2>2. ASSUME NEW k \in 1..Len(added') PROVE IsDevice(added'[k])
    <3>1. CASE k \in 1..Len(added)
      BY <1>1, <3>1, Appended DEF DevicesTyped
    <3>2. CASE k = Len(added) + 1
      BY <1>1, <3>2, Appended
    <3> QED
      BY <2>1, <3>1, <3>2
  <2> QED
    BY <2>2 DEF DevicesTyped, IsDevice
<1>2. CASE UNCHANGED added
  BY <1>2 DEF DevicesTyped, IsDevice
<1> QED
  BY <1>1, <1>2 DEF P!Add

LEMMA FloorsUnmoved ==
    ASSUME FloorsInv, UNCHANGED <<channels, actions, added, floors>>,
           loop' = "done" => loop = "done"
    PROVE  FloorsInv'
<1>1. ReadKnown' /\ DevicesTyped'
  BY DEF FloorsInv, ReadKnown, DevicesTyped, IsDevice
<1>2. loop' = "done" => Floored'
  BY DEF FloorsInv, Floored, WellOrdered, Whole
<1> QED
  BY <1>1, <1>2 DEF FloorsInv

(* A turn adds what is typed, or nothing.                                  *)
LEMMA TurnKeepsTyped ==
    ASSUME FloorsInv, IsSeq(added), UNCHANGED <<channels, actions>>, loop' # "done",
           UNCHANGED added \/ \E d : IsDevice(d) /\ P!Add(d)
    PROVE  FloorsInv'
<1>1. ReadKnown'
  BY DEF FloorsInv, ReadKnown
<1>2. DevicesTyped'
  <2>1. CASE UNCHANGED added
    BY <2>1 DEF FloorsInv, DevicesTyped, IsDevice
  <2>2. CASE \E d : IsDevice(d) /\ P!Add(d)
    BY <2>2, AddKeepsTyped DEF FloorsInv
  <2> QED
    BY <2>1, <2>2
<1> QED
  BY <1>1, <1>2 DEF FloorsInv

LEMMA TurnsKeepTyped ==
    ASSUME BuildInv, FloorsInv,
           P!OutputTurn \/ P!SceneTurn \/ P!ButtonTurn
    PROVE  FloorsInv'
<1>1. Collected /\ ReadKnown /\ IsSeq(added)
  BY DEF BuildInv, Typed, FloorsInv
<1>2. UNCHANGED <<channels, actions>> /\ n \in 1..Len(channels) /\ loop # "done"
  BY <1>1 DEF P!OutputTurn, P!SceneTurn, P!ButtonTurn, P!Turn, BuildInv, Typed, Collected, IsSeq
<1>3. P!HasParts(channels[n].text) => n \in P!Channels
  BY <1>1, <1>2, ChannelsAre
<1>4. P!KindOf(P!Parts(channels[n].text).category) \in Kinds /\ "scene" \in Kinds /\ "button" \in Kinds
  BY DEF P!KindOf, Kinds
<1>5. loop' # "done"
  BY <1>2 DEF P!OutputTurn, P!SceneTurn, P!ButtonTurn, P!Add
<1>6. UNCHANGED added \/ \E d : IsDevice(d) /\ P!Add(d)
  <2>1. \/ UNCHANGED added
        \/ \E kind \in Kinds : \E ref :
             /\ P!HasParts(channels[n].text)
             /\ P!Add(P!Device(kind, P!Parts(channels[n].text), ref, NoInput))
    <3>1. CASE P!OutputTurn
      BY <1>4, <3>1 DEF P!OutputTurn
    <3>2. CASE P!SceneTurn
      BY <1>4, <3>2 DEF P!SceneTurn
    <3>3. CASE P!ButtonTurn
      BY <1>4, <3>3 DEF P!ButtonTurn
    <3> QED
      BY <3>1, <3>2, <3>3
  <2> QED
    BY <1>1, <1>3, <2>1, ChannelDeviceMade
<1> QED
  BY <1>1, <1>2, <1>5, <1>6, TurnKeepsTyped

LEMMA PairTurnKeepsTyped == ASSUME BuildInv, FloorsInv, P!PairTurn PROVE FloorsInv'
<1>1. ReadKnown /\ IsSeq(added) /\ MotorsKnown
  BY DEF BuildInv, Typed, FloorsInv
<1>2. UNCHANGED <<channels, actions>> /\ loop' # "done"
  BY DEF P!PairTurn, P!Add
<1>3. ASSUME NEW key \in DOMAIN up PROVE IsParts(key)
  <2>1. PICK j \in P!Channels : key = MotorKey(channels[j])
    BY <1>1 DEF MotorsKnown, Motors, Leads
  <2> DEFINE parts == P!Parts(channels[j].text)
  <2>2. channels[j].text \in Words /\ P!HasParts(channels[j].text)
    BY <1>1 DEF ReadKnown, P!Channels
  <2>3. IsParts(parts)
    BY <2>2, PartsAre
  <2>4. key = [parts EXCEPT !.label = P!BaseLabel(parts.label)]
    BY <2>1 DEF MotorKey, Label
  <2>5. parts = [sort |-> parts.sort, floor |-> parts.floor, category |-> parts.category,
                 label |-> parts.label]
    BY DEF P!Parts
  <2> HIDE DEF parts
  <2>6. P!BaseLabel(parts.label) \in Words
    <3>1. parts.label \in Words /\ Len(parts.label) \in Nat
      BY <2>3 DEF IsParts, Words
    <3>2. Len(parts.label) - 1 \in Int /\ Len(parts.label) - 1 <= Len(parts.label)
      BY <3>1
    <3>3. SubSeq(parts.label, 1, Len(parts.label) - 1) \in Words
      BY <3>1, <3>2, SubTexts
    <3> QED
      BY <3>3 DEF P!BaseLabel
  <2>7. key.sort = parts.sort /\ key.floor = parts.floor /\ key.category = parts.category
        /\ key.label = P!BaseLabel(parts.label)
    BY <2>4, <2>5
  <2> QED
    BY <2>3, <2>6, <2>7 DEF IsParts
<1>4. UNCHANGED added \/ \E d : IsDevice(d) /\ P!Add(d)
  <2>1. \/ UNCHANGED added
        \/ \E key \in DOMAIN up : P!Add(P!Device("shutter", key, down[key], up[key]))
    BY DEF P!PairTurn
  <2>2. \A key \in DOMAIN up : IsDevice(P!Device("shutter", key, down[key], up[key]))
    BY <1>3, DeviceMade DEF Kinds
  <2> QED
    BY <2>1, <2>2
<1> QED
  BY <1>1, <1>2, <1>4, TurnKeepsTyped

LEMMA ToolTurnKeepsTyped == ASSUME BuildInv, FloorsInv, P!ToolTurn PROVE FloorsInv'
<1>1. ReadKnown /\ IsSeq(added) /\ Len(actions) \in Nat /\ n \in Nat /\ n >= 1
  BY DEF BuildInv, Typed, FloorsInv, Collected, IsSeq
<1>2. UNCHANGED <<channels, actions>> /\ loop' # "done" /\ n \in 1..Len(actions)
  BY <1>1 DEF P!ToolTurn, P!Add
<1>3. actions[n] \in Action
  BY <1>1, <1>2 DEF ReadKnown
<1>4. IsParts(actions[n]) /\ "scene" \in Kinds
  BY <1>3 DEF IsParts, Action, Kinds
<1>5. IsDevice(P!Device("scene", actions[n], actions[n].ref, NoInput))
  BY <1>4, DeviceMade
<1>6. UNCHANGED added \/ \E d : IsDevice(d) /\ P!Add(d)
  BY <1>5 DEF P!ToolTurn
<1> QED
  BY <1>1, <1>2, <1>6, TurnKeepsTyped

LEMMA ToolsEndOrders == ASSUME BuildInv, FloorsInv, P!ToolsEnd PROVE FloorsInv'
<1>1. IsSeq(added) /\ DevicesTyped /\ Once(added)
  BY DEF BuildInv, Typed, FloorsInv, Distinct, Once
<1>2. Floored'
  BY <1>1, FloorsMade
<1>3. UNCHANGED <<channels, actions, added>>
  BY DEF P!ToolsEnd
<1> QED
  BY <1>2, <1>3 DEF FloorsInv, ReadKnown, DevicesTyped, IsDevice

LEMMA BuildKeepsFloors == ASSUME BuildInv, FloorsInv, P!Build PROVE FloorsInv'
<1>1. CASE P!OutputTurn \/ P!SceneTurn \/ P!ButtonTurn
  BY <1>1, TurnsKeepTyped
<1>2. CASE P!MotorTurn
  BY <1>2, FloorsUnmoved DEF P!MotorTurn
<1>3. CASE P!OutputsEnd \/ P!MotorsEnd \/ P!PairsEnd \/ P!ScenesEnd \/ P!ButtonsEnd
  <2>1. UNCHANGED <<channels, actions, added, floors>> /\ loop' # "done"
    BY <1>3 DEF P!OutputsEnd, P!MotorsEnd, P!PairsEnd, P!ScenesEnd, P!ButtonsEnd, P!Ends
  <2> QED
    BY <2>1, FloorsUnmoved
<1> QED
  BY <1>1, <1>2, <1>3, PairTurnKeepsTyped, ToolTurnKeepsTyped, ToolsEndOrders DEF P!Build

(* What the collectors return are texts of known letters.                  *)
LEMMA ParseReads ==
    ASSUME NEW ppfx \in Seq(P!PPFXElements), NEW tpfx,
           \A file \in tpfx : file \in Seq(P!TPFXElements), P!Parse(ppfx, tpfx)
    PROVE  ReadKnown'
<1>1. channels' \in Seq(Channel) /\ actions' \in Seq(Action)
  BY ParseReturns
<1>2. \A k \in 1..Len(channels') : channels'[k].text \in Words
  <2>1. \A k \in 1..Len(channels') : channels'[k] \in Channel
    BY <1>1
  <2> QED
    BY <2>1, TextsAreWords DEF Channel
<1> QED
  BY <1>1, <1>2 DEF ReadKnown

LEMMA ExtractKeepsFloors == ASSUME BuildInv, FloorsInv, ExtractAndParse PROVE FloorsInv'
<1>1. loop = "idle" /\ added = <<>>
  BY DEF ExtractAndParse, BuildInv, Typed, P!NothingParsed
<1>2. DevicesTyped /\ ReadKnown
  BY DEF FloorsInv
<1>3. ASSUME NEW p \in Projects, NEW files \in FilesOf[p], NEW archive,
             P!Parse(files.ppfx, IF \E e \in D!Extract(archive, MaxZIPEntries, MaxEntryBytes) :
                                      e.name = "project.tpfx"
                                   THEN {files.tpfx} ELSE {})
      PROVE  FloorsInv'
  <2> DEFINE tpfx == IF \E e \in D!Extract(archive, MaxZIPEntries, MaxEntryBytes) :
                           e.name = "project.tpfx"
                       THEN {files.tpfx} ELSE {}
  <2>1. files.ppfx \in Seq(P!PPFXElements)
        /\ \A file \in tpfx : file \in Seq(P!TPFXElements)
    BY FilesAssumption
  <2>2. P!Parse(files.ppfx, tpfx)
    BY <1>3
  <2> HIDE DEF tpfx
  <2>3. ReadKnown'
    BY <2>1, <2>2, ParseReads
  <2>4. loop' # "done" /\ UNCHANGED added
    BY <2>2 DEF P!Parse
  <2> QED
    BY <1>2, <2>3, <2>4 DEF FloorsInv, DevicesTyped, IsDevice
<1>4. ASSUME loop' = "unreadable", UNCHANGED <<channels, actions, added, floors>>
      PROVE  FloorsInv'
  BY <1>4, FloorsUnmoved
<1>5. \/ loop' = "unreadable" /\ UNCHANGED <<channels, actions, added, floors>>
      \/ \E p \in Opened : \E archive \in ArchivesOf[p] : \E files \in FilesOf[p] :
           P!Parse(files.ppfx, IF \E e \in D!Extract(archive, MaxZIPEntries, MaxEntryBytes) :
                                    e.name = "project.tpfx"
                                 THEN {files.tpfx} ELSE {})
  BY DEF ExtractAndParse
<1>6. \A p \in Opened : p \in Projects
  BY DEF Opened
<1> QED
  BY <1>3, <1>4, <1>5, <1>6

LEMMA FloorsInvariance == FairSpec => []FloorsInv
<1>1. Init => FloorsInv
  <2>1. Init => /\ channels = <<>> /\ actions = <<>> /\ added = <<>> /\ loop # "done"
    BY DEF Init, P!NothingParsed
  <2>2. Len(<<>>) = 0 /\ 1..0 = {}
    OBVIOUS
  <2> QED
    BY <2>1, <2>2 DEF FloorsInv, ReadKnown, DevicesTyped
<1>2. BuildInv /\ FloorsInv /\ [Next]_vars => FloorsInv'
  <2> SUFFICES ASSUME BuildInv, FloorsInv, [Next]_vars PROVE FloorsInv'
    OBVIOUS
  <2>1. CASE BuildProject
    BY <2>1, BuildKeepsFloors DEF BuildProject
  <2>2. CASE ExtractAndParse
    BY <2>2, ExtractKeepsFloors
  <2>3. CASE Next /\ ~BuildProject /\ ~ExtractAndParse
    <3>1. UNCHANGED parserVars
      BY <2>3 DEF Next, EditProject, AskChunk, ChunkBegins, OperationBegins, CallSTM,
         STMAnswersChunk, STMAnswersTelegram, STMAnswersInput, Answer, ClientStep,
         Timeout, ChunkArrives, ChunkFails, CommandCallReturns, Stop, vars
    <3> QED
      BY <3>1, FloorsUnmoved DEF parserVars
  <2>4. CASE UNCHANGED vars
    BY <2>4, FloorsUnmoved DEF vars, parserVars
  <2> QED
    BY <2>1, <2>2, <2>3, <2>4
<1> QED
  BY <1>1, <1>2, Invariance, PTL DEF FairSpec

(* No device gets lost on its way to the floors, and none is shown twice.  *)
LEMMA ShownAre == ASSUME FloorsInv, loop = "done" PROVE P!Shown = P!Elements(added)
<1>1. Floored
  BY DEF FloorsInv
<1>2. ASSUME NEW d \in P!Shown PROVE d \in P!Elements(added)
  BY <1>1 DEF P!Shown, Floored, Whole
<1>3. ASSUME NEW d \in P!Elements(added) PROVE d \in P!Shown
  <2>1. PICK k \in 1..Len(floors) : floors[k].name = d.floor
    BY <1>1 DEF Floored
  <2>2. d \in P!Elements(floors[k].devices)
    BY <1>1, <2>1 DEF Floored, Whole
  <2> QED
    BY <2>2 DEF P!Shown
<1> QED
  BY <1>2, <1>3

-----------------------------------------------------------------------------
(* The floors of an accepted project.                                      *)

(* Every visible input of an accepted project, and every input of a tool,  *)
(* has a device on one of the floors that presses it (parser.go:317,       *)
(* "every remaining visible EMD input is deliberately exposed").           *)
THEOREM NoInputIsLost == FairSpec => []EveryInputOperable
<1>1. ASSUME BuildInv, loop = "done"
      PROVE  LET operable == UNION {P!Refs(d) : d \in P!Elements(added)} IN
             /\ \A k \in P!Channels :
                  P!IsInputChannel(channels[k]) => P!Input(channels[k]) \in operable
             /\ \A k \in 1..Len(actions) : actions[k].ref \in operable
  <2> DEFINE operable == UNION {P!Refs(d) : d \in P!Elements(added)}
  <2>1. /\ Collected /\ n \in Nat /\ n > Len(actions)
        /\ WithInput = ChannelDevices \cup ToolsUpTo(n)
        /\ represented = RefsOf(ChannelDevices)
        /\ \A k \in P!Channels :
             P!IsInputChannel(channels[k]) => P!Input(channels[k]) \in represented
    BY <1>1 DEF BuildInv, Typed, Made, Taken
  <2>2. RefsOf(WithInput) \subseteq operable
    BY DEF RefsOf, WithInput, P!Elements
  <2>3. RefsOf(WithInput) = represented \cup RefsOf(ToolsUpTo(n))
    BY <2>1, RefsAre
  <2> HIDE DEF operable
  <2>4. ASSUME NEW k \in 1..Len(actions) PROVE actions[k].ref \in operable
    <3>1. CASE actions[k].ref \in RefsOf(ChannelDevices)
      BY <2>1, <2>2, <2>3, <3>1
    <3>2. CASE actions[k].ref \notin RefsOf(ChannelDevices)
      <4>1. k < n
        BY <2>1, ChannelsAre
      <4>2. ToolDevice(actions[k]) \in ToolsUpTo(n)
        BY <3>2, <4>1 DEF ToolsUpTo
      <4>3. actions[k].ref # NoInput
        BY <2>1, NoInputAssumption DEF Collected
      <4>4. actions[k].ref \in RefsOf(ToolsUpTo(n))
        BY <4>2, <4>3, DevicesAre, RefsAre
      <4> QED
        BY <2>2, <2>3, <4>4
    <3> QED
      BY <3>1, <3>2
  <2>5. \A k \in P!Channels :
          P!IsInputChannel(channels[k]) => P!Input(channels[k]) \in operable
    BY <2>1, <2>2, <2>3
  <2> QED
    BY <2>4, <2>5 DEF operable
<1>2. BuildInv /\ FloorsInv => EveryInputOperable
  BY <1>1, ShownAre DEF EveryInputOperable, P!EveryInputOperable
<1> QED
  BY <1>2, Invariance, FloorsInvariance, PTL

(* The devices on the floors are the same whatever the order in which Go   *)
(* walks the map of the motor channels (parser.go:274).                    *)
THEOREM MapOrderIsIrrelevant == FairSpec => []OrderIrrelevant
<1>1. ASSUME BuildInv, loop = "done"
      PROVE  WithInput = P!Pairs \cup P!Scenes \cup P!Buttons \cup
               {P!Device("scene", actions[k], actions[k].ref, NoInput) :
                  k \in {j \in 1..Len(actions) :
                           \A d \in P!Pairs \cup P!Scenes \cup P!Buttons :
                             actions[j].ref \notin P!Refs(d)}}
  <2>1. /\ Collected /\ n \in Nat /\ n > Len(actions)
        /\ WithInput = ChannelDevices \cup ToolsUpTo(n)
    BY <1>1 DEF BuildInv, Typed, Made
  <2>2. \A j \in 1..Len(actions) : j < n
    BY <2>1, ChannelsAre
  <2>3. \A ref : ref \notin RefsOf(ChannelDevices) <=>
                   \A d \in P!Pairs \cup P!Scenes \cup P!Buttons : ref \notin P!Refs(d)
    BY DEF RefsOf, ChannelDevices
  <2>4. {j \in 1..Len(actions) : j < n /\ actions[j].ref \notin RefsOf(ChannelDevices)} =
          {j \in 1..Len(actions) : \A d \in P!Pairs \cup P!Scenes \cup P!Buttons :
                                     actions[j].ref \notin P!Refs(d)}
    BY <2>2, <2>3
  <2>5. ToolsUpTo(n) = {P!Device("scene", actions[k], actions[k].ref, NoInput) :
                          k \in {j \in 1..Len(actions) :
                                   \A d \in P!Pairs \cup P!Scenes \cup P!Buttons :
                                     actions[j].ref \notin P!Refs(d)}}
    BY <2>4 DEF ToolsUpTo, ToolDevice
  <2> QED
    BY <2>1, <2>5 DEF ChannelDevices
<1>2. WithInput = {d \in P!Elements(added) : d.ref[1] = "emd"}
  BY DEF WithInput, P!Elements
<1>3. BuildInv /\ FloorsInv => OrderIrrelevant
  BY <1>1, <1>2, ShownAre DEF OrderIrrelevant, P!OrderIrrelevant
<1> QED
  BY <1>3, Invariance, FloorsInvariance, PTL

LEMMA PairRefs ==
    ASSUME Collected, MotorsKnown, NEW d \in P!Pairs, NEW ref \in P!Refs(d)
    PROVE  \E k \in P!Channels : /\ IsMotor(channels[k]) /\ ref = P!Input(channels[k])
                                 /\ d = Shutter(MotorKey(channels[k]))
<1>1. PICK key \in DOMAIN down \cap DOMAIN up : d = Shutter(key)
  BY PairsAreShutters DEF ShuttersOf
<1>2. ref = down[key] \/ ref = up[key]
  BY <1>1, DevicesAre
<1>3. CASE ref = down[key]
  BY <1>1, <1>3, MotorsAre
<1>4. CASE ref = up[key]
  BY <1>1, <1>4, MotorsAre
<1> QED
  BY <1>2, <1>3, <1>4

LEMMA SceneRefs ==
    ASSUME NEW d \in P!Scenes, NEW ref \in P!Refs(d)
    PROVE  \E k \in P!Channels : /\ IsScene(channels[k]) /\ ref = P!Input(channels[k])
                                 /\ ref = d.ref
<1>1. PICK k \in P!Channels : IsScene(channels[k]) /\ d = Scene(channels[k])
  BY DEF P!Scenes, IsScene, Scene
<1> QED
  BY <1>1, DevicesAre

LEMMA ButtonRefs ==
    ASSUME NEW d \in P!Buttons, NEW ref \in P!Refs(d)
    PROVE  /\ ref = d.ref /\ ref \notin RefsOf(P!Pairs \cup P!Scenes)
           /\ \E k \in P!Channels : ref = P!Input(channels[k])
<1>1. PICK k \in P!Channels : P!Input(channels[k]) \notin P!Taken /\ d = Button(channels[k])
  BY DEF P!Buttons, Button
<1> QED
  BY <1>1, DevicesAre DEF P!Taken, RefsOf

LEMMA ToolRefsOf ==
    ASSUME NEW m, NEW d \in ToolsUpTo(m), NEW ref \in P!Refs(d)
    PROVE  /\ ref = d.ref /\ ref \notin RefsOf(ChannelDevices)
           /\ \E k \in 1..Len(actions) : ref = actions[k].ref
<1>1. PICK k \in 1..Len(actions) : /\ actions[k].ref \notin RefsOf(ChannelDevices)
                                   /\ d = ToolDevice(actions[k])
  BY DEF ToolsUpTo
<1> QED
  BY <1>1, DevicesAre

LEMMA InputsApart ==
    ASSUME Collected, MotorsKnown,
           \A j, k \in P!Channels : j # k => ~P!SameInput(j, k),
           NEW d \in AllDevices, NEW e \in AllDevices, d.ref # e.ref,
           NEW ref \in P!Refs(d), ref \in P!Refs(e)
    PROVE  FALSE
<1> DEFINE tools == ToolsUpTo(Len(actions) + 1)
<1>1. \A x \in tools, r \in P!Refs(d) \cap P!Refs(e) :
         r \in P!Refs(x) => r = x.ref /\ r \notin RefsOf(ChannelDevices)
  BY ToolRefsOf
<1>2. \A x \in P!Buttons, r \in P!Refs(d) \cap P!Refs(e) :
         r \in P!Refs(x) => r = x.ref /\ r \notin RefsOf(P!Pairs \cup P!Scenes)
  BY ButtonRefs
<1>3. \A A : (d \in A \/ e \in A) => ref \in RefsOf(A)
  BY DEF RefsOf
<1>4. d \in tools => e \in tools
  BY <1>1, <1>3 DEF AllDevices
<1>5. e \in tools => d \in tools
  BY <1>1, <1>3 DEF AllDevices
<1>6. d \notin tools /\ e \notin tools
  BY <1>1, <1>4, <1>5
<1>7. d \in ChannelDevices /\ e \in ChannelDevices
  BY <1>6 DEF AllDevices
<1>8. d \notin P!Buttons /\ e \notin P!Buttons
  BY <1>2, <1>3, <1>7 DEF ChannelDevices
<1>9. d \in P!Pairs \cup P!Scenes /\ e \in P!Pairs \cup P!Scenes
  BY <1>7, <1>8 DEF ChannelDevices
<1>10. ASSUME NEW j \in P!Channels, NEW k \in P!Channels,
              IsMotor(channels[j]) \/ IsScene(channels[j]),
              IsMotor(channels[k]) \/ IsScene(channels[k]),
              P!Input(channels[j]) = P!Input(channels[k])
       PROVE  j = k
  BY <1>10 DEF P!SameInput, P!IsInputLike, IsMotor, IsScene
<1>11. \A k \in P!Channels : ~(IsMotor(channels[k]) /\ IsScene(channels[k]))
  BY DEF IsMotor, IsScene
<1>12. CASE d \in P!Scenes /\ e \in P!Scenes
  BY <1>12, SceneRefs
<1>13. CASE d \in P!Pairs /\ e \in P!Scenes
  BY <1>10, <1>11, <1>13, PairRefs, SceneRefs
<1>14. CASE d \in P!Scenes /\ e \in P!Pairs
  BY <1>10, <1>11, <1>14, PairRefs, SceneRefs
<1>15. CASE d \in P!Pairs /\ e \in P!Pairs
  <2>1. PICK j \in P!Channels : /\ IsMotor(channels[j]) /\ ref = P!Input(channels[j])
                                /\ d = Shutter(MotorKey(channels[j]))
    BY <1>15, PairRefs
  <2>2. PICK k \in P!Channels : /\ IsMotor(channels[k]) /\ ref = P!Input(channels[k])
                                /\ e = Shutter(MotorKey(channels[k]))
    BY <1>15, PairRefs
  <2>3. j = k
    BY <1>10, <2>1, <2>2
  <2> QED
    BY <2>1, <2>2, <2>3
<1> QED
  BY <1>9, <1>12, <1>13, <1>14, <1>15

LEMMA InputsOnly ==
    ASSUME Collected, MotorsKnown, NEW d \in AllDevices, NEW ref \in P!Refs(d)
    PROVE  ref[1] = "emd"
<1>1. CASE d \in P!Pairs
  BY <1>1, PairRefs, InputsAre
<1>2. CASE d \in P!Scenes
  BY <1>2, SceneRefs, InputsAre
<1>3. CASE d \in P!Buttons
  BY <1>3, ButtonRefs, InputsAre
<1>4. CASE d \in ToolsUpTo(Len(actions) + 1)
  <2>1. PICK k \in 1..Len(actions) : ref = actions[k].ref
    BY <1>4, ToolRefsOf
  <2> QED
    BY <2>1 DEF Collected
<1> QED
  BY <1>1, <1>2, <1>3, <1>4 DEF AllDevices, ChannelDevices

(* In a project that names no input twice, no two devices would press the  *)
(* same input, in whatever order shutters were paired: the four loops that *)
(* turn inputs into devices tell one another what they have taken          *)
(* (representedInputs, parser.go:243).                                     *)
THEOREM NoInputIsShared == FairSpec => []NoSharedInput
<1>1. ASSUME BuildInv, \A j, k \in P!Channels : j # k => ~P!SameInput(j, k),
             NEW j \in 1..Len(added), NEW k \in 1..Len(added), j # k,
             NEW ref \in P!Refs(added[j]), ref \in P!Refs(added[k])
      PROVE  FALSE
  <2>1. Collected /\ MotorsKnown /\ WithInput \subseteq AllDevices
    BY <1>1 DEF BuildInv, Made
  <2>2. added[j].ref # added[k].ref
    BY <1>1 DEF BuildInv, Distinct
  <2>3. \A m \in 1..Len(added) : \A r \in P!Refs(added[m]) :
          \/ added[m] \in WithInput /\ r[1] = "emd"
          \/ r = added[m].ref /\ r[1] = "amd"
    <3> SUFFICES ASSUME NEW m \in 1..Len(added), NEW r \in P!Refs(added[m])
                 PROVE  \/ added[m] \in WithInput /\ r[1] = "emd"
                        \/ r = added[m].ref /\ r[1] = "amd"
      OBVIOUS
    <3>1. CASE added[m].ref[1] = "emd"
      <4>1. added[m] \in WithInput
        BY <3>1 DEF WithInput
      <4> QED
        BY <2>1, <4>1, InputsOnly
    <3>2. CASE added[m].ref[1] # "emd"
      <4>1. added[m].ref[1] = "amd" /\ added[m].upRef = NoInput
        BY <1>1, <3>2 DEF BuildInv, OnOutputs
      <4>2. r = added[m].ref
        BY <4>1 DEF P!Refs
      <4> QED
        BY <4>1, <4>2
    <3> QED
      BY <3>1, <3>2
  <2>4. CASE added[j] \in WithInput /\ added[k] \in WithInput
    BY <1>1, <2>1, <2>2, <2>4, InputsApart
  <2>5. CASE ref = added[j].ref /\ ref[1] = "amd"
    BY <1>1, <2>2, <2>3, <2>5
  <2>6. CASE ref = added[k].ref /\ ref[1] = "amd"
    BY <1>1, <2>2, <2>3, <2>6
  <2> QED
    BY <1>1, <2>3, <2>4, <2>5, <2>6
<1>2. BuildInv => NoSharedInput
  BY <1>1 DEF NoSharedInput, P!NoSharedInput
<1> QED
  BY <1>2, Invariance, PTL

(* A page shows the floors by their index, which is that of one of their   *)
(* devices, in a floor the kinds in their order and what is numbered by    *)
(* number, whatever the project and in whatever order Go walked its maps   *)
(* (parser.go:366, 383, 483).                                              *)
THEOREM FloorsAreInOrder == FairSpec => []FloorsInOrder
<1>1. ASSUME FloorsInv, loop = "done"
      PROVE  /\ \A j, k \in 1..Len(floors) : j < k => floors[j].sort <= floors[k].sort
             /\ \A k \in 1..Len(floors) : WellOrdered(floors[k])
  BY <1>1 DEF FloorsInv, Floored
<1>2. FloorsInv => FloorsInOrder
  BY <1>1 DEF FloorsInOrder, P!FloorsInOrder, WellOrdered
<1> QED
  BY <1>2, FloorsInvariance, PTL

(* A device that was added is on the floor of its name, there once, and on *)
(* no other: no device gets lost in the map of the floor builders, and     *)
(* none is shown twice, however its iteration and the sorts go             *)
(* (parser.go:183, 366).                                                   *)
EachDeviceOnce ==
    loop = "done" =>
        /\ \A j, k \in 1..Len(floors) : j < k => floors[j].name # floors[k].name
        /\ \A k \in 1..Len(floors) :
             /\ Once(floors[k].devices)
             /\ \A d \in P!Elements(floors[k].devices) : d.floor = floors[k].name
        /\ P!Shown = P!Elements(added)

(* Every device of an accepted project is shown on its floor and nowhere   *)
(* else.                                                                   *)
THEOREM DevicesAreShownOnce == FairSpec => []EachDeviceOnce
<1>1. FloorsInv => EachDeviceOnce
  BY ShownAre DEF FloorsInv, Floored, Whole, EachDeviceOnce
<1> QED
  BY <1>1, FloorsInvariance, PTL
=============================================================================
