---------------------------- MODULE ProjectParser ----------------------------
(***************************************************************************)
(* From the two files of the installation project to floors and devices    *)
(* (project/parser.go, project/tools.go): one action per turn of the loops *)
(* of buildProject, so that the map of motor channels can be walked in any *)
(* order.                                                                  *)
(*                                                                         *)
(* A file is the sequence of its XML elements' starts and ends.  A text is *)
(* a sequence of letters: digits, delimiters and whole words.  White space *)
(* is what separates two words.                                            *)
(*                                                                         *)
(* An operator under a comment that begins with BUG is part of no          *)
(* specification: it is the definition after it with a mistake in it.      *)
(***************************************************************************)
EXTENDS Integers, Sequences, FiniteSets, SequencesExt

CONSTANTS
    Code,             \* of the letters texts are made of, in lower case;
                      \* those of digits are 48..57
    ShutterWords, OutletWords, DownWords, UpWords,   \* keywords.go
    PanicWords, PresenceWords,
    NoInput,
    MaxVisibleChannels, MaxChannelText, MaxToolActions, MaxToolCandidates,
    MaxLocationDepth, MaxFile   \* limits

VARIABLES
    loop,          \* the loop of buildProject
    n,             \* its index
    channels,      \* what collectPPFX has returned
    actions,       \* what collectToolActions has returned
    added,         \* the devices so far, with the floor and sort index of each
    down, up,      \* the motor channels of a key
    unpaired,      \* the keys the loop over downChannels has to visit yet
    represented,   \* representedInputs
    floors         \* the floors of the project

parserVars == <<loop, n, channels, actions, added, down, up, unpaired,
                represented, floors>>

-----------------------------------------------------------------------------
(* Texts.                                                                  *)

IsDigit(letter) == Code[letter] \in 48..57
Digit(letter) == Code[letter] - 48

(* parseIntOr                                                              *)
IntOr(text, fallback) ==
    LET value[k \in 0..Len(text)] ==
          IF k = 0 THEN 0 ELSE 10 * value[k - 1] + Digit(text[k])
    IN  IF text # <<>> /\ \A k \in 1..Len(text) : IsDigit(text[k])
          THEN value[Len(text)] ELSE fallback

IndicesOf(text, letter, from) == {k \in from..Len(text) : text[k] = letter}
Least(S) == CHOOSE k \in S : \A j \in S : k <= j
Before(text, k) == SubSeq(text, 1, k - 1)
After(text, k) == SubSeq(text, k + 1, Len(text))

(* parseChannelParts: "1.EG: Licht > Kueche".                              *)
Colon(text) == Least(IndicesOf(text, ":", 1))
Arrow(text) == Least(IndicesOf(text, ">", Colon(text) + 1))
FloorOf(prefix) ==
    IF IndicesOf(prefix, ".", 1) = {} THEN <<>>
    ELSE After(prefix, Least(IndicesOf(prefix, ".", 1)))
SortOf(prefix) ==
    IF IndicesOf(prefix, ".", 1) = {} THEN IntOr(prefix, 99)
    ELSE IntOr(Before(prefix, Least(IndicesOf(prefix, ".", 1))), 99)

Parts(text) ==
    [sort     |-> SortOf(Before(text, Colon(text))),
     floor    |-> FloorOf(Before(text, Colon(text))),
     category |-> SubSeq(text, Colon(text) + 1, Arrow(text) - 1),
     label    |-> After(text, Arrow(text))]

HasParts(text) ==
    /\ IndicesOf(text, ":", 1) # {}
    /\ IndicesOf(text, ">", Colon(text) + 1) # {}
    /\ Parts(text).category # <<>> /\ Parts(text).label # <<>>
    /\ Parts(text).floor # <<>>

Mentions(text, words) == \E k \in 1..Len(text) : text[k] \in words

(* classifyOutput                                                          *)
KindOf(category) ==
    IF Mentions(category, ShutterWords) THEN "shutter"
    ELSE IF Mentions(category, OutletWords) THEN "outlet"
    ELSE "light"

(* motorDirection and stripMotorDirectionSuffix: the last word of a label. *)
HasDirection(label) == label[Len(label)] \in DownWords \cup UpWords
IsDown(label) == label[Len(label)] \in DownWords
BaseLabel(label) == SubSeq(label, 1, Len(label) - 1)

(* naturalLess.  l and r are read in parallel; where both have a run of    *)
(* digits the runs are compared as numbers, then by their length.          *)
RunEnd(text, k) ==
    Least({j \in k..Len(text) + 1 : j = Len(text) + 1 \/ ~IsDigit(text[j])})
RunValue(text, k) == IntOr(SubSeq(text, k, RunEnd(text, k) - 1), 0)

(* BUG: digits are compared like any other letter.                         *)
LetterLess(l, r) ==
    LET less[p \in 1..(Len(l) + 1)] ==
          IF p > Len(l) \/ p > Len(r) THEN Len(l) < Len(r)
          ELSE IF Code[l[p]] # Code[r[p]] THEN Code[l[p]] < Code[r[p]]
          ELSE less[p + 1]
    IN  less[1]

NaturalLess(l, r) ==
    LET less[p \in 1..(Len(l) + 1)] ==
          IF p > Len(l) \/ p > Len(r) THEN Len(l) < Len(r)
          ELSE IF IsDigit(l[p]) /\ IsDigit(r[p])
            THEN IF RunValue(l, p) # RunValue(r, p)
                   THEN RunValue(l, p) < RunValue(r, p)
                 ELSE IF RunEnd(l, p) # RunEnd(r, p)
                   THEN RunEnd(l, p) < RunEnd(r, p)
                 ELSE less[RunEnd(l, p)]
          ELSE IF Code[l[p]] # Code[r[p]] THEN Code[l[p]] < Code[r[p]]
          ELSE less[p + 1]
    IN  less[1]

-----------------------------------------------------------------------------
(* The elements of a file, with what is read of their attributes: a number *)
(* that is none is -1 (parseIntOr).                                        *)

Texts == Seq(DOMAIN Code)
PPFXElements ==
    [is : {"/MODS", "/MOD", "/CHAS", "malformed"}]
    \cup [is : {"MODS", "CHAS"}, grp : STRING]
    \cup [is : {"MOD"}, name : STRING, adr : Int]
    \cup [is : {"CHA"}, visu : BOOLEAN, adr : Int, text : Texts]
TPFXElements ==
    [is : {"/PAGE", "/TOOL", "/NODE", "malformed"}]
    \cup [is : {"PAGE"}, name : Texts]
    \cup [is : {"TOOL"}, words : SUBSET STRING, bez : Texts, name : Texts,
          enabled : BOOLEAN]
    \cup [is : {"NODE"}, isInput : BOOLEAN, index : Int, isPushButton : BOOLEAN]
    \cup [is : {"VAR"}, isInput : BOOLEAN, dip : Int, channel : Int]

(* collectPPFX: the visible channels, each with the module it is in.       *)

GroupEnds(c) ==
    IF c.groups = <<>> THEN [c EXCEPT !.group = "none"]
    ELSE [c EXCEPT !.group = Last(c.groups), !.groups = Front(c.groups)]

Visible(c, e) ==
    IF ~e.visu THEN c
    ELSE IF Len(e.text) > MaxChannelText THEN [c EXCEPT !.failed = TRUE]
    ELSE IF e.text = <<>> THEN c
    ELSE IF Len(c.found) >= MaxVisibleChannels THEN [c EXCEPT !.failed = TRUE]
    ELSE [c EXCEPT !.found = Append(@,
            [group |-> c.group, module |-> c.module, dip |-> c.dip,
             channelGroup |-> c.channelGroup, channel |-> e.adr,
             text |-> e.text])]

PPFXElement(c, e) ==
    IF c.failed THEN c
    ELSE CASE e.is = "MODS"  -> [c EXCEPT !.groups = Append(@, c.group), !.group = e.grp]
           [] e.is = "/MODS" -> GroupEnds(c)
           [] e.is = "MOD"   -> [c EXCEPT !.module = e.name, !.dip = e.adr]
           [] e.is = "/MOD"  -> [c EXCEPT !.module = "none", !.dip = -1]
           [] e.is = "CHAS"  -> [c EXCEPT !.channelGroup = e.grp]
           [] e.is = "/CHAS" -> [c EXCEPT !.channelGroup = "none"]
           [] e.is = "CHA"   -> Visible(c, e)
           [] e.is = "malformed" -> [c EXCEPT !.failed = TRUE]

CollectPPFX(file) ==
    LET collected[k \in 0..Len(file)] ==
          IF k = 0
            THEN [groups |-> <<>>, group |-> "none", module |-> "none", dip |-> -1,
                  channelGroup |-> "none", found |-> <<>>,
                  failed |-> file = <<>> \/ Len(file) > MaxFile]
            ELSE PPFXElement(collected[k - 1], file[k])
    IN  collected[Len(file)]

-----------------------------------------------------------------------------
(* collectToolActions: the enabled panic and presence tools that name an   *)
(* input.  A tool has the words of its attributes and two names.           *)

NoElement == [is |-> "none"]

Supported(tool) ==
    tool # NoElement /\ tool.enabled /\ tool.words \cap (PanicWords \cup PresenceWords) # {}
IsPanic(tool) == tool.words \cap PanicWords # {}

(* preferredToolCandidate: push buttons first, then the lowest index, then *)
(* the first of them.                                                      *)
Preferred(candidates) ==
    LET Rank(k) == <<IF candidates[k].isPushButton THEN 0 ELSE 1,
                     candidates[k].index, k>>
        Above(r, s) == \/ r[1] < s[1]
                       \/ r[1] = s[1] /\ r[2] < s[2]
                       \/ r[1] = s[1] /\ r[2] = s[2] /\ r[3] < s[3]
        best == CHOOSE k \in DOMAIN candidates :
                  \A j \in DOMAIN candidates \ {k} : Above(Rank(k), Rank(j))
    IN  candidates[best]

(* firstNonEmpty and cleanActionName                                       *)
ActionName(tool) ==
    LET raw == IF tool.bez # <<>> THEN tool.bez
               ELSE IF tool.name # <<>> THEN tool.name
               ELSE IF IsPanic(tool) THEN <<"Panic">> ELSE <<"Presence">>
    IN  IF ~IsPanic(tool) /\ Len(raw) > 1 /\ raw[1] \in PresenceWords
          THEN Tail(raw) ELSE raw

ToolAction(c) ==
    [sort     |-> IF IsPanic(c.tool) THEN 0 ELSE 90,
     floor    |-> IF c.locations # <<>> THEN Last(c.locations)
                  ELSE IF IsPanic(c.tool) THEN <<"Security">> ELSE <<"Automation">>,
     category |-> IF IsPanic(c.tool) THEN <<"Security">> ELSE <<"Presence">>,
     label    |-> ActionName(c.tool),
     ref      |-> Preferred(c.candidates).ref]

PageStarts(c, e) ==
    IF e.name = <<>> THEN [c EXCEPT !.pushed = Append(@, FALSE)]
    ELSE IF Len(c.locations) >= MaxLocationDepth THEN [c EXCEPT !.failed = TRUE]
    ELSE [c EXCEPT !.pushed = Append(@, TRUE), !.locations = Append(@, e.name)]

PageEnds(c) ==
    IF c.pushed = <<>> THEN c
    ELSE [c EXCEPT !.pushed = Front(@),
                   !.locations = IF Last(c.pushed) THEN Front(@) ELSE @]

VarStarts(c, e) ==
    IF ~Supported(c.tool) \/ c.node = NoElement \/ ~c.node.isInput
         \/ ~e.isInput \/ e.dip < 0 \/ e.channel < 0 THEN c
    ELSE IF Len(c.candidates) >= MaxToolCandidates THEN [c EXCEPT !.failed = TRUE]
    ELSE [c EXCEPT !.candidates = Append(@,
            [index |-> c.node.index, ref |-> <<"emd", e.dip, e.channel>>,
             isPushButton |-> c.node.isPushButton])]

ToolEnds(c) ==
    LET next == [c EXCEPT !.tool = NoElement, !.candidates = <<>>] IN
    IF ~Supported(c.tool) \/ c.candidates = <<>> THEN next
    ELSE IF Len(c.actions) >= MaxToolActions THEN [c EXCEPT !.failed = TRUE]
    ELSE [next EXCEPT !.actions = Append(@, ToolAction(c))]

TPFXElement(c, e) ==
    IF c.failed THEN c
    ELSE CASE e.is = "PAGE"  -> PageStarts(c, e)
           [] e.is = "/PAGE" -> PageEnds(c)
           [] e.is = "TOOL"  -> [c EXCEPT !.tool = e, !.candidates = <<>>]
           [] e.is = "/TOOL" -> ToolEnds(c)
           [] e.is = "NODE"  -> [c EXCEPT !.node = e]
           [] e.is = "/NODE" -> [c EXCEPT !.node = NoElement]
           [] e.is = "VAR"   -> VarStarts(c, e)
           [] e.is = "malformed" -> [c EXCEPT !.failed = TRUE]

CollectTools(file) ==
    LET collected[k \in 0..Len(file)] ==
          IF k = 0
            THEN [locations |-> <<>>, pushed |-> <<>>, tool |-> NoElement,
                  node |-> NoElement, candidates |-> <<>>, actions |-> <<>>,
                  failed |-> file = <<>> \/ Len(file) > MaxFile]
            ELSE TPFXElement(collected[k - 1], file[k])
    IN  collected[Len(file)]

-----------------------------------------------------------------------------
(* buildProject.                                                           *)

Input(channel) == <<"emd", channel.dip, channel.channel>>
Output(channel) == <<"amd", channel.dip, channel.channel>>
Device(kind, parts, ref, upRef) ==
    [kind |-> kind, floor |-> parts.floor, sort |-> parts.sort,
     category |-> parts.category, name |-> parts.label, ref |-> ref,
     upRef |-> upRef]

(* projectBuilder.add; the identity of a device is made from its ref.      *)
Identities == {added[k].ref : k \in 1..Len(added)}

(* BUG: the identity leaves out the class of the module.                   *)
AddableInAnyClass(ref) ==
    /\ ref[2] >= 0 /\ ref[3] >= 0
    /\ \A identity \in Identities : <<identity[2], identity[3]>> # <<ref[2], ref[3]>>

Addable(ref) == ref[2] >= 0 /\ ref[3] >= 0 /\ ref \notin Identities

Add(device) ==
    IF Addable(device.ref)
      THEN added' = Append(added, device) /\ UNCHANGED loop
      ELSE loop' = "failed" /\ UNCHANGED added

IsInputChannel(c) == c.group = "Eingangsmodule" /\ c.channelGroup = "Eingang"

(* One turn of a loop over the channels, and its end.                      *)
Turn(name) == loop = name /\ n <= Len(channels) /\ n' = n + 1
Ends(name, next) == loop = name /\ n > Len(channels) /\ loop' = next /\ n' = 1

Put(inputs, key, input) ==
    [k \in DOMAIN inputs \cup {key} |-> IF k = key THEN input ELSE inputs[k]]

OutputTurn ==
    /\ Turn("outputs")
    /\ LET c == channels[n] IN
       IF /\ c.group = "Ausgangsmodule" /\ c.channelGroup = "Ausgang"
          /\ c.module = "AMD" /\ HasParts(c.text)
          /\ KindOf(Parts(c.text).category) # "shutter"
         THEN Add(Device(KindOf(Parts(c.text).category), Parts(c.text),
                         Output(c), NoInput))
         ELSE UNCHANGED <<loop, added>>
    /\ UNCHANGED <<channels, actions, down, up, unpaired, represented, floors>>

OutputsEnd ==
    /\ Ends("outputs", "motors")
    /\ UNCHANGED <<channels, actions, added, down, up, unpaired, represented,
                   floors>>

MotorTurn ==
    /\ Turn("motors")
    /\ LET c == channels[n]
           parts == Parts(c.text)
           key == [parts EXCEPT !.label = BaseLabel(parts.label)]
           isMotor == /\ IsInputChannel(c) /\ HasParts(c.text)
                      /\ KindOf(parts.category) = "shutter"
                      /\ HasDirection(parts.label) /\ Len(parts.label) > 1
       IN  /\ down' = IF isMotor /\ IsDown(parts.label)
                         THEN Put(down, key, Input(c)) ELSE down
           /\ up' = IF isMotor /\ ~IsDown(parts.label)
                       THEN Put(up, key, Input(c)) ELSE up
    /\ UNCHANGED <<loop, channels, actions, added, unpaired, represented, floors>>

MotorsEnd ==
    /\ Ends("motors", "pairs")
    /\ unpaired' = DOMAIN down
    /\ UNCHANGED <<channels, actions, added, down, up, represented, floors>>

(* BUG: the input that raises a shutter stays available to the later loops. *)
PairTurnForgetsUp ==
    /\ loop = "pairs"
    /\ \E key \in unpaired :
         /\ unpaired' = unpaired \ {key}
         /\ IF key \in DOMAIN up
              THEN /\ Add(Device("shutter", key, down[key], up[key]))
                   /\ represented' = represented \cup {down[key]}
              ELSE UNCHANGED <<loop, added, represented>>
    /\ UNCHANGED <<n, channels, actions, down, up, floors>>

(* BUG: an input without its opposite is taken all the same.               *)
PairTurnTakesUnpaired ==
    /\ loop = "pairs"
    /\ \E key \in unpaired :
         /\ unpaired' = unpaired \ {key}
         /\ IF key \in DOMAIN up
              THEN /\ Add(Device("shutter", key, down[key], up[key]))
                   /\ represented' = represented \cup {down[key], up[key]}
              ELSE /\ represented' = represented \cup {down[key]}
                   /\ UNCHANGED <<loop, added>>
    /\ UNCHANGED <<n, channels, actions, down, up, floors>>

(* BUG: a pair that shares an input with an earlier one is left out.       *)
PairTurnSkipsTaken ==
    /\ loop = "pairs"
    /\ \E key \in unpaired :
         /\ unpaired' = unpaired \ {key}
         /\ IF key \in DOMAIN up /\ up[key] \notin represented
              THEN /\ Add(Device("shutter", key, down[key], up[key]))
                   /\ represented' = represented \cup {down[key], up[key]}
              ELSE UNCHANGED <<loop, added, represented>>
    /\ UNCHANGED <<n, channels, actions, down, up, floors>>

(* The loop over downChannels: Go takes the keys of a map in any order.    *)
PairTurn ==
    /\ loop = "pairs"
    /\ \E key \in unpaired :
         /\ unpaired' = unpaired \ {key}
         /\ IF key \in DOMAIN up
              THEN /\ Add(Device("shutter", key, down[key], up[key]))
                   /\ represented' = represented \cup {down[key], up[key]}
              ELSE UNCHANGED <<loop, added, represented>>
    /\ UNCHANGED <<n, channels, actions, down, up, floors>>

PairsEnd ==
    /\ loop = "pairs" /\ unpaired = {}
    /\ loop' = "scenes"
    /\ UNCHANGED <<n, channels, actions, added, down, up, unpaired, represented,
                   floors>>

SceneTurn ==
    /\ Turn("scenes")
    /\ LET c == channels[n] IN
       IF /\ c.module = "EMD_VIR" /\ c.channelGroup = "Eingang"
          /\ HasParts(c.text) /\ KindOf(Parts(c.text).category) # "shutter"
         THEN /\ Add(Device("scene", Parts(c.text), Input(c), NoInput))
              /\ represented' = represented \cup {Input(c)}
         ELSE UNCHANGED <<loop, added, represented>>
    /\ UNCHANGED <<channels, actions, down, up, unpaired, floors>>

ScenesEnd ==
    /\ Ends("scenes", "buttons")
    /\ UNCHANGED <<channels, actions, added, down, up, unpaired, represented,
                   floors>>

ButtonTurn ==
    /\ Turn("buttons")
    /\ LET c == channels[n] IN
       IF /\ IsInputChannel(c) /\ HasParts(c.text)
          /\ Input(c) \notin represented
         THEN /\ Add(Device("button", Parts(c.text), Input(c), NoInput))
              /\ represented' = represented \cup {Input(c)}
         ELSE UNCHANGED <<loop, added, represented>>
    /\ UNCHANGED <<channels, actions, down, up, unpaired, floors>>

ButtonsEnd ==
    /\ Ends("buttons", "tools")
    /\ UNCHANGED <<channels, actions, added, down, up, unpaired, represented,
                   floors>>

(* The input of a tool is not marked as represented.                       *)
ToolTurn ==
    /\ loop = "tools" /\ n <= Len(actions) /\ n' = n + 1
    /\ LET a == actions[n] IN
       IF a.ref \in represented THEN UNCHANGED <<loop, added>>
       ELSE Add(Device("scene", a, a.ref, NoInput))
    /\ UNCHANGED <<channels, actions, down, up, unpaired, represented, floors>>

-----------------------------------------------------------------------------
(* The floors, and the devices of each, in order.                          *)

KindRank == [light |-> 0, dimmer |-> 1, shutter |-> 2, outlet |-> 3,
             scene |-> 4, button |-> 5]

(* Two categories that differ in case alone are neither before nor after   *)
(* one another, and the names are not compared then.                       *)
DeviceLess(x, y) ==
    IF KindRank[x.kind] # KindRank[y.kind] THEN KindRank[x.kind] < KindRank[y.kind]
    ELSE IF x.category # y.category THEN NaturalLess(x.category, y.category)
    ELSE NaturalLess(x.name, y.name)

FloorLess(f, g) ==
    IF f.sort # g.sort THEN f.sort < g.sort ELSE NaturalLess(f.name, g.name)

(* sort.SliceStable for a slice of up to twenty elements: insertion.       *)
(* before holds the pairs whose first element belongs before the second.   *)
Inserted(t, x, before) ==
    LET fits == {k \in 0..Len(t) : k = 0 \/ <<x, t[k]>> \notin before}
        place == CHOOSE k \in fits : \A j \in fits : j <= k
    IN  SubSeq(t, 1, place) \o <<x>> \o SubSeq(t, place + 1, Len(t))

Sorted(s, before) ==
    LET sorted[k \in 0..Len(s)] ==
          IF k = 0 THEN <<>> ELSE Inserted(sorted[k - 1], s[k], before)
    IN  sorted[Len(s)]

Elements(s) == {s[k] : k \in 1..Len(s)}
DevicesBefore(S) == {p \in S \X S : DeviceLess(p[1], p[2])}
FloorsBefore(S) == {p \in S \X S : FloorLess(p[1], p[2])}

(* floorBuilder: the devices of a floor as they were added.                *)
DevicesOf(name) ==
    LET those[k \in 0..Len(added)] ==
          IF k = 0 THEN <<>>
          ELSE IF added[k].floor = name THEN Append(those[k - 1], added[k])
          ELSE those[k - 1]
    IN  those[Len(added)]

Floor(name) ==
    LET devices == DevicesOf(name) IN
    [name |-> name, sort |-> Last(devices).sort,
     devices |-> Sorted(devices, DevicesBefore(Elements(devices)))]

(* The floors come out of a map as well: in any order before the sort.     *)
ToolsEnd ==
    /\ loop = "tools" /\ n > Len(actions)
    /\ LET names == {added[k].floor : k \in 1..Len(added)} IN
       \E order \in SetToSeqs(names) :
         LET unsorted == [k \in 1..Len(order) |-> Floor(order[k])] IN
         floors' = Sorted(unsorted, FloorsBefore(Elements(unsorted)))
    /\ loop' = "done"
    /\ UNCHANGED <<n, channels, actions, added, down, up, unpaired, represented>>

Build == OutputTurn \/ OutputsEnd \/ MotorTurn \/ MotorsEnd \/ PairTurn \/ PairsEnd
         \/ SceneTurn \/ ScenesEnd \/ ButtonTurn \/ ButtonsEnd \/ ToolTurn \/ ToolsEnd

(* Parse: both files are read before anything is built.                    *)
NothingParsed ==
    /\ loop = "idle" /\ n = 1 /\ channels = <<>> /\ actions = <<>>
    /\ added = <<>> /\ down = <<>> /\ up = <<>> /\ unpaired = {}
    /\ represented = {} /\ floors = <<>>

(* tpfx is {} when the archive has no project.tpfx.                        *)
Parse(ppfx, tpfx) ==
    LET hardware == CollectPPFX(ppfx)
        tools == {CollectTools(file) : file \in tpfx}
    IN  /\ loop = "idle"
        /\ loop' = IF hardware.failed \/ \E t \in tools : t.failed
                     THEN "unreadable" ELSE "outputs"
        /\ channels' = hardware.found
        /\ actions' = IF tools = {} THEN <<>> ELSE (CHOOSE t \in tools : TRUE).actions
        /\ UNCHANGED <<n, added, down, up, unpaired, represented, floors>>

-----------------------------------------------------------------------------
(* Properties.                                                             *)

IsVirtual(c) == c.module = "EMD_VIR" /\ c.channelGroup = "Eingang"
IsInputLike(c) == IsInputChannel(c) \/ IsVirtual(c)
Refs(device) == {device.ref, device.upRef} \ {NoInput}
Channels == {k \in 1..Len(channels) : HasParts(channels[k].text)}
SameInput(j, k) ==
    /\ IsInputLike(channels[j]) /\ IsInputLike(channels[k])
    /\ Input(channels[j]) = Input(channels[k])
SameOutput(j, k) ==
    /\ ~IsInputLike(channels[j]) /\ ~IsInputLike(channels[k])
    /\ Output(channels[j]) = Output(channels[k])

(* In a project that names no input twice, no two devices would press the  *)
(* same input: the four loops that turn inputs into shutters, scenes,      *)
(* buttons and actions tell one another what they have taken               *)
(* (representedInputs, parser.go:243).                                     *)
NoSharedInput ==
    (\A j, k \in Channels : j # k => ~SameInput(j, k)) =>
        \A j, k \in 1..Len(added) :
            j # k => Refs(added[j]) \cap Refs(added[k]) = {}

(* The devices of a page.                                                  *)
Shown == UNION {Elements(floors[k].devices) : k \in 1..Len(floors)}

(* Every visible input of a project that was accepted can be operated from *)
(* one of its floors: it is not lost between the loops (parser.go:317,     *)
(* "every remaining visible EMD input is deliberately exposed"), nor is    *)
(* the input of a tool.  That it has an address is not said: add checks    *)
(* the input that lowers a shutter and not the one that raises it          *)
(* (parser.go:172).                                                        *)
EveryInputOperable ==
    loop = "done" =>
        LET operable == UNION {Refs(d) : d \in Shown} IN
        /\ \A k \in Channels :
             IsInputChannel(channels[k]) => Input(channels[k]) \in operable
        /\ \A k \in 1..Len(actions) : actions[k].ref \in operable

(* What the devices on the floors are, whatever the order in which Go      *)
(* walks the motor channels (parser.go:274).                               *)
Pairs == {Device("shutter", key, down[key], up[key]) :
            key \in DOMAIN down \cap DOMAIN up}
Scenes == {Device("scene", Parts(channels[k].text), Input(channels[k]), NoInput) :
             k \in {j \in Channels : /\ IsVirtual(channels[j])
                        /\ KindOf(Parts(channels[j].text).category) # "shutter"}}
Taken == UNION {Refs(d) : d \in Pairs \cup Scenes}
Buttons == {Device("button", Parts(channels[k].text), Input(channels[k]), NoInput) :
              k \in {j \in Channels : /\ IsInputChannel(channels[j])
                         /\ Input(channels[j]) \notin Taken
                         /\ \A i \in Channels : i < j /\ IsInputChannel(channels[i])
                              => Input(channels[i]) # Input(channels[j])}}
OrderIrrelevant ==
    loop = "done" =>
        {d \in Shown : d.ref[1] = "emd"} =
          Pairs \cup Scenes \cup Buttons \cup
            {Device("scene", actions[k], actions[k].ref, NoInput) :
               k \in {j \in 1..Len(actions) : \A d \in Pairs \cup Scenes \cup Buttons :
                                             actions[j].ref \notin Refs(d)}}

(* A project is refused for a channel without an address, an address that  *)
(* is there twice, or two tools of the same input (parser.go:344: their    *)
(* second action is not skipped, it is a duplicate), and for nothing else. *)
RefusedOnlyForConflicts ==
    loop = "failed" =>
        \/ \E k \in Channels : channels[k].dip < 0 \/ channels[k].channel < 0
        \/ \E j, k \in Channels : j # k /\ (SameInput(j, k) \/ SameOutput(j, k))
        \/ \E j, k \in 1..Len(actions) : j # k /\ actions[j].ref = actions[k].ref

(* The order a page shows: floors by their index, which is that of one of  *)
(* their devices, in a floor the kinds in their order, and what is         *)
(* numbered by number ("Light 2" before "Light 10", parser.go:483).        *)
(* Categories that differ in case alone are excepted: parser.go:371 leaves *)
(* their devices where they are.                                           *)
Stem(name) == Before(name, CHOOSE k \in 1..(Len(name) + 1) :
                /\ \A j \in k..Len(name) : IsDigit(name[j])
                /\ k > 1 => ~IsDigit(name[k - 1]))
NumberOf(name) == IntOr(After(name, Len(Stem(name))), -1)
CaseOnly(x, y) == /\ x.category # y.category
                  /\ ~NaturalLess(x.category, y.category)
                  /\ ~NaturalLess(y.category, x.category)
InOrder(x, y) ==
    /\ KindRank[x.kind] <= KindRank[y.kind]
    /\ x.kind = y.kind /\ x.category = y.category /\ Stem(x.name) = Stem(y.name)
         => NumberOf(x.name) <= NumberOf(y.name)
FloorsInOrder ==
    loop = "done" =>
        /\ \A j, k \in 1..Len(floors) : j < k => floors[j].sort <= floors[k].sort
        /\ \A f \in {floors[k] : k \in 1..Len(floors)} :
             /\ \E k \in 1..Len(f.devices) : f.devices[k].sort = f.sort
             /\ (\A j, k \in 1..Len(f.devices) : ~CaseOnly(f.devices[j], f.devices[k]))
                  => \A j, k \in 1..Len(f.devices) :
                       j < k => InOrder(f.devices[j], f.devices[k])
=============================================================================
