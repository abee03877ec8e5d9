------------------------------ MODULE MCTrainer ------------------------------
(* Two guns, small addresses; tables written in the ways the parser knows.  *)
EXTENDS Trainer

Open(name, attrs)  == <<[t |-> "open", name |-> name, attrs |-> attrs]>>
Empty(name, attrs) == <<[t |-> "empty", name |-> name, attrs |-> attrs]>>
Shut(name)         == <<[t |-> "close", name |-> name]>>
Of(t)              == <<[t |-> t]>>
Text(text)         == <<[t |-> "text", text |-> text]>>
El(name, inside)   == Open(name, <<>>) \o inside \o Shut(name)
Leaf(name, text)   == El(name, Text(text))
Table(entries)     == El("CheatTable", El("CheatEntries", entries))
Called(name, inside) ==
    Open("CheatEntry", << <<"Description", name>> >>) \o inside \o Shut("CheatEntry")

Four == Leaf("VariableType", "4 Bytes")

\* As Cheat Engine writes it: quoted names, which match nothing, and hexadecimal
\* numbers without 0x, of which decimal digits at the start are taken.
Shipped ==
    Of("decl") \o Of("comment") \o Table(Of("space") \o El("CheatEntry",
        Leaf("Description", "'Health'") \o Four \o Leaf("Address", "ac_client.exe+1E")
          \o El("Offsets", Leaf("Offset", "EC"))) \o Of("space"))

\* Names that match, in attributes; the offsets agree with the layout.
Plain ==
    Table(Called("Health", Four \o Leaf("Address", "ac_client.exe+1")
              \o El("Offsets", Leaf("Offset", "2"))
              \o El("Hotkeys", El("Hotkey", El("Keys", Leaf("Key", "17") \o Leaf("Key", "72")))))
          \o Called("Riffle Ammo", Four \o Leaf("Address", "1")
              \o El("Offsets", Leaf("Offset", "8")))
          \o Called("Weapon Ammo", Four \o Leaf("Address", "2"))
          \o El("CheatEntry", Leaf("ID", "4") \o El("AutoAssembler", <<>>) \o Four))

\* A macOS table, known by its section; a colour hides the module of the second.
Mac ==
    Table(Called("Health", Four \o Empty("Color", << <<"x", "&lt;">> >>)
              \o Leaf("Address", "assaultcube+1"))
          \o Called("ZCord", Leaf("VariableType", "Float") \o Leaf("Color", "17")
              \o Leaf("Address", "0x65"))
          \o Leaf("Group", "a") \o El("CheatEntry", Leaf("Description", "no type")))

\* The health is looked for in the wrong place, the height nowhere.
Astray ==
    Table(El("CheatEntry", Leaf("Description", "Health")
              \o El("Variable", Leaf("Type", "int") \o Leaf("Address", "2")
                  \o El("Offsets", Text("2")))
              \o El("Inject", <<>>))
          \o Called("ZCord", Four \o Leaf("Address", "1") \o El("Offsets", Leaf("Offset", "17")
                                                                 \o Leaf("Offset", "72"))))

\* The ammunition is that of the weapon in hand.
Chained ==
    Table(Called("Weapon Ammo", Four \o Leaf("Address", "1")
              \o El("Offsets", Leaf("Offset", "17") \o Leaf("Offset", "4")
                                \o Leaf("Offset", "0"))))

Broken ==
    {Open("CheatTable", <<>>) \o Open("CheatEntries", <<>>) \o Shut("CheatTable")
       \o Shut("CheatEntries"),
     Of("comment") \o Table(<<>>),
     Open("CheatTable", <<>>) \o Leaf("Title", "a") \o Text("a") \o Shut("CheatTable"),
     Open("CheatTable", << <<"a", "&nbsp;">> >>) \o Shut("CheatTable"),
     Open("CheatTable", <<>>) \o Of("comment") \o Of("bad"),
     Leaf("Table", "a"), Empty("CheatTable", <<>>) \o Of("comment") \o Of("bad")}

Chains == {Chained}

Tables == {Shipped, Plain, Mac, Astray, Chained} \cup Broken

Number == ("0" :> 0) @@ ("1" :> 1) @@ ("1E" :> 1) @@ ("2" :> 2) @@ ("4" :> 4) @@ ("8" :> 8)
            @@ ("17" :> 17) @@ ("72" :> 72) @@ ("0x65" :> 101)
Module == ("ac_client.exe+1E" :> <<"ac_client.exe", "1E">>)
            @@ ("ac_client.exe+1" :> <<"ac_client.exe", "1">>)
            @@ ("assaultcube+1" :> <<"assaultcube", "1">>)
Piece  == ("17,72" :> <<"17", "72">>)
Small  == ("4 Bytes" :> "4 bytes") @@ ("Float" :> "float")
Entity == ("&lt;" :> "<")

Where(base, player) ==
    [base |-> base, pointer |-> 1, player |-> player, health |-> 2, armor |-> 3, gun |-> 4,
     reserve |-> 5, clip |-> 7, z |-> 9]
Weapon == [hand |-> 17, weapon |-> 60, slot |-> 4, clip |-> 70]
Platforms == [win |-> Where(10, 20), mac |-> Where(100, 120)]

Absent == [cells |-> <<>>, base |-> 0, alive |-> FALSE]
NoGame == {Absent}

Running ==
    {[cells |-> PlayerCells(<<>>, Where(10, 30)), base |-> 0, alive |-> TRUE],
     [cells |-> PlayerCells(<<>>, Where(110, 30)), base |-> 110, alive |-> TRUE],
     Absent}
=============================================================================
