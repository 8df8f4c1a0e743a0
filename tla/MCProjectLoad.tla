---------------------------- MODULE MCProjectLoad ----------------------------
(* An STM that may hold one of three projects: "house" and "annex" begin    *)
(* with the same piece, "estate" begins like "house" and is too large.      *)
(* "house" comes with files of the kind an electrician makes, "annex" with  *)
(* files at the limits, refused ones, and archives of every kind.           *)
EXTENDS ProjectLoad

MCProjects == {"house", "annex", "estate"}
MCPiecesOf ==
    [house |-> <<"p", "h">>, annex |-> <<"p", "a">>, estate |-> <<"p", "h", "e">>]
MCBytes == [piece \in {"p", "h", "a", "e", "-"} |->
              CASE piece = "-" -> 0 [] piece = "e" -> 2 [] OTHER -> 1]

MCDigits == {"0", "1", "2"}
MCLetters == MCDigits \cup {".", ":", ">", "EG", "OG", "Licht", "licht", "Dose",
                            "Rollo", "Nord", "Sued", "zu", "auf", "Away",
                            "Automation", "Panic", "Presence", "Security"}
MCCode == [letter \in MCLetters |->
             CASE letter = "." -> 46  [] letter = "0" -> 48 [] letter = "1" -> 49
               [] letter = "2" -> 50  [] letter = ":" -> 58 [] letter = ">" -> 62
               [] letter = "Away" -> 97 [] letter = "auf" -> 98
               [] letter = "Dose" -> 100 [] letter = "EG" -> 101
               [] letter \in {"Licht", "licht"} -> 108
               [] letter = "Nord" -> 110 [] letter = "OG" -> 111
               [] letter = "Rollo" -> 114 [] letter = "Sued" -> 115
               [] letter = "zu" -> 122
               [] letter = "Automation" -> 99 [] letter = "Panic" -> 112
               [] letter = "Presence" -> 113 [] letter = "Security" -> 116]

(* project.ppfx *)
Group(grp, content) == <<[is |-> "MODS", grp |-> grp]>> \o content
                         \o <<[is |-> "/MODS"]>>
Mod(name, adr, chas, channels_) ==
    <<[is |-> "MOD", name |-> name, adr |-> adr], [is |-> "CHAS", grp |-> chas]>>
      \o channels_ \o <<[is |-> "/CHAS"], [is |-> "/MOD"]>>
Cha(adr, text) == <<[is |-> "CHA", visu |-> TRUE, adr |-> adr, text |-> text]>>
Hidden == <<[is |-> "CHA", visu |-> FALSE, adr |-> 7, text |-> <<"Nord">>]>>
Inputs(dip, channels_) ==
    Group("Eingangsmodule", Mod("EMD", dip, "Eingang", channels_))
Outputs(dip, channels_) ==
    Group("Ausgangsmodule", Mod("AMD", dip, "Ausgang", channels_))
Virtual(dip, channels_) ==
    Group("Virtuell", Mod("EMD_VIR", dip, "Eingang", channels_))

EG == <<"1", ".", "EG", ":">>
OG == <<"2", ".", "OG", ":">>

House ==
    Outputs(0, Cha(0, EG \o <<"Licht", ">", "Nord", "1", "0">>)
            \o Cha(1, EG \o <<"Licht", ">", "Nord", "2">>)
            \o Cha(2, OG \o <<"Dose", ">", "Sued">>)
            \o Cha(3, OG \o <<"Rollo", ">", "Sued", "zu">>) \o Hidden)
    \o Inputs(0, Cha(0, EG \o <<"Rollo", ">", "Nord", "zu">>)
              \o Cha(1, EG \o <<"Rollo", ">", "Nord", "auf">>)
              \o Cha(2, <<"2", ".", "EG", ":", "Rollo", ">", "Sued", "zu">>)
              \o Cha(3, <<"2", ".", "EG", ":", "Rollo", ">", "Sued", "auf">>)
              \o Cha(4, OG \o <<"Rollo", ">", "Nord", "zu">>)
              \o Cha(5, OG \o <<"Licht", ">", "Sued">>) \o Cha(6, <<"Nord">>))
    \o Virtual(1, Cha(0, OG \o <<"Licht", ">", "zu">>))

(* Groups in groups, a module that is both, categories that differ in case. *)
Nested ==
    Group("Eingangsmodule",
        Virtual(3, Cha(1, EG \o <<"licht", ">", "Nord", "1">>))
        \o Mod("EMD_VIR", 2, "Eingang",
               Cha(0, EG \o <<"Licht", ">", "Nord", "2">>)
               \o Cha(1, EG \o <<"Rollo", ">", "Nord", "zu">>))
        \o Mod("EMD", 4, "Eingang", Cha(0, EG \o <<"Licht", ">", "auf">>)))
    \o <<[is |-> "/MODS"]>>

(* Two shutters with one input to raise them.                               *)
Shared ==
    Inputs(0, Cha(0, EG \o <<"Rollo", ">", "Nord", "zu">>)
              \o Cha(1, EG \o <<"Rollo", ">", "Nord", "auf">>)
              \o Cha(2, EG \o <<"Rollo", ">", "Sued", "zu">>)
              \o Cha(1, EG \o <<"Rollo", ">", "Sued", "auf">>))

Twice == Outputs(0, Cha(0, EG \o <<"Licht", ">", "Nord">>)
                    \o Cha(0, EG \o <<"Licht", ">", "Sued">>))
NoAddress == Inputs(0, Cha(-1, EG \o <<"Licht", ">", "Nord">>))
NoUpAddress == Inputs(0, Cha(2, EG \o <<"Rollo", ">", "Sued", "zu">>)
                         \o Cha(-1, EG \o <<"Rollo", ">", "Sued", "auf">>))
Malformed == Inputs(0, <<>>) \o <<[is |-> "malformed"]>>
LongText == Inputs(0, Cha(0, [k \in 1..(MaxChannelText + 1) |-> "Nord"]))
ManyChannels ==
    Inputs(0, P!FlattenSeq([k \in 1..(MaxVisibleChannels + 1) |->
                Cha(k, EG \o <<"Licht", ">", "Nord", "1">>)]))

(* project.tpfx *)
Page(name, content) == <<[is |-> "PAGE", name |-> name]>> \o content
                         \o <<[is |-> "/PAGE"]>>
Tool(words, bez, name, enabled, content) ==
    <<[is |-> "TOOL", words |-> words, bez |-> bez, name |-> name,
       enabled |-> enabled]>> \o content \o <<[is |-> "/TOOL"]>>
Node(isInput, index, isPushButton, content) ==
    <<[is |-> "NODE", isInput |-> isInput, index |-> index,
       isPushButton |-> isPushButton]>> \o content \o <<[is |-> "/NODE"]>>
Var(dip, ch) == <<[is |-> "VAR", isInput |-> TRUE, dip |-> dip, channel |-> ch]>>

Panic(content) == Tool({"panic"}, <<>>, <<>>, TRUE, content)
Presence(content) ==
    Tool({"presence"}, <<"Away", "Nord">>, <<"Sued">>, TRUE, content)

Tools ==
    Page(<<"OG">>, Page(<<>>,
        Panic(Node(TRUE, 2, FALSE, Var(0, 8)) \o Node(TRUE, 3, TRUE, Var(0, 9)))))
    \o Presence(Node(TRUE, 1, FALSE, Var(0, 5) \o Var(-1, 2))
                \o Node(FALSE, 0, TRUE, Var(0, 1)))
    \o Tool({"presence"}, <<>>, <<>>, FALSE, Node(TRUE, 1, FALSE, Var(0, 7)))
    \o Tool({}, <<"EG">>, <<>>, TRUE, Node(TRUE, 1, FALSE, Var(0, 7)))
    \o Var(0, 6) \o <<[is |-> "/PAGE"]>>
Twins == Panic(Node(TRUE, 1, TRUE, Var(6, 0)))
         \o Presence(Node(TRUE, 1, FALSE, Var(6, 0)) \o Node(TRUE, 1, FALSE, Var(6, 1)))
ManyTools == Panic(Node(TRUE, 1, TRUE, Var(6, 0)))
             \o Presence(Node(TRUE, 1, TRUE, Var(6, 1)))
             \o Panic(Node(TRUE, 1, TRUE, Var(6, 2)))
ManyCandidates == Panic(Node(TRUE, 1, TRUE, Var(6, 0) \o Var(6, 1) \o Var(6, 2)))
DeepPages == Page(<<"EG">>, Page(<<"OG">>, Page(<<"EG">>, <<>>)))

Files(ppfx, tpfx) == [ppfx |-> ppfx, tpfx |-> tpfx]
MCFilesOf ==
    [house |-> {Files(House, Tools), Files(Nested, Twins), Files(Shared, Tools)},
     annex |-> {Files(ppfx, Tools) : ppfx \in {Twice, NoAddress, NoUpAddress, Malformed,
                                               LongText, ManyChannels, <<>>}}
               \cup {Files(Inputs(0, <<>>), tpfx) : tpfx \in
                       {ManyTools, ManyCandidates, DeepPages, <<>>,
                        Twins \o <<[is |-> "malformed"]>>}},
     estate |-> {}]

Entry(name, declared, actual, sound) ==
    [name |-> name, declared |-> declared, actual |-> actual, sound |-> sound]
PPFX == Entry("project.ppfx", 1, 1, TRUE)
TPFX == Entry("project.tpfx", 1, 1, TRUE)
Other == Entry("icon.png", 2, 2, TRUE)
MCArchivesOf ==
    [house |-> {<<PPFX, Other, TPFX>>},
     annex |-> {<<TPFX, PPFX>>, <<PPFX>>, <<TPFX>>, <<PPFX, TPFX, PPFX>>,
                <<PPFX, Other, Other, TPFX>>, <<Entry("project.ppfx", 2, 1, TRUE)>>,
                <<Entry("project.ppfx", 1, 2, TRUE)>>,
                <<PPFX, Entry("project.tpfx", 1, 1, FALSE)>>},
     estate |-> {}]

(* The input that raises the second shutter has no address: the parser     *)
(* checks only that of the one that lowers it.                              *)
MCDevices ==
    {[kind |-> "light", ref |-> <<"amd", 0, 1>>, upRef |-> NoInput,
      jalousie |-> FALSE],
     [kind |-> "shutter", ref |-> <<"emd", 0, 0>>, upRef |-> <<"emd", 0, 1>>,
      jalousie |-> TRUE],
     [kind |-> "shutter", ref |-> <<"emd", 0, 2>>, upRef |-> <<"emd", 0, -1>>,
      jalousie |-> FALSE]}
=============================================================================
