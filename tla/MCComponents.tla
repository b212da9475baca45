----------------------------- MODULE MCComponents -----------------------------
(***************************************************************************)
(* Small boot drives for Components.  Component a can be put on the boot   *)
(* drive or on another disc, b is inside a by default, so that its place   *)
(* depends on the one of a, c is not movable, s is in !System, which is an *)
(* alias, and for n the table has no place.                                *)
(***************************************************************************)
EXTENDS Components

a == <<"Apps", "A">>
b == <<"Apps", "A", "B">>
c == <<"Utilities", "C">>
s == <<"!System", "S">>
n == <<"Nowhere", "N">>

Comps == {a, b, c, s, n}
Movables == {a, b, s}

Names == STRING
HardDisc == <<"HD", "$">>
Aliases == "!Boot" :> "Boot" @@ "!System" :> "System"
Boot(rest) == <<BootRelative>> \o rest
DefaultTable == <<"Apps">> :> Boot(<<"Apps">>) @@ <<"Utilities">> :> Boot(<<"Utilities">>)
                  @@ <<"System">> :> <<"HD", "$", "!System">> @@ <<"RiscPkg">> :> Boot(<<"Info", "@">>)
Loaded == <<"ToBeLoaded">> :> Boot(<<"Loaded">>) @@ <<"ToBeTasks">> :> Boot(<<"Tasks">>)

\* A table that the user has edited: one line is overruled by another.
Tables == {WithDefaults(<<>>),
           WithDefaults(ReadPaths(<< <<<<"!Boot">>, Boot(<<"Old">>)>>, <<a, <<"Net", "A">>>>,
                                     <<a, Boot(<<"Mine">>)>> >>))}

Sections == LookAt :> "RISCOS BootBoot" @@ Run :> "RISCOS BootRun" @@ AddToApps :> "RISCOS BootApps"
Befores == LookAt :> <<"Acorn BootBoot", "RISCOS !Boot">>
             @@ Run :> <<"Acorn BootRun", "RISCOS BootBoot", "RISCOS !Boot">>
             @@ AddToApps :> <<"Acorn BootApps", "RISCOS !Boot">>
Commands == LookAt :> "Filer_Boot" @@ Run :> "Filer_Boot" @@ AddToApps :> "AddApp"
Seconds  == LookAt :> NoCommand @@ Run :> "Filer_Run" @@ AddToApps :> NoCommand

User(x) == [text |-> x]
Foreign == Entry(<<"Net", "Z">>, "Filer_Boot")
Auto    == <<Start("RISCOS !Boot"), User("x"), End>>
Acorn   == <<Start("Acorn BootBoot"), Foreign, End>>
Both    == <<Start("RISCOS BootBoot"), User("y"), Entry(<<"Net", "A">>, "Filer_Boot"), End,
             Start("RISCOS BootRun"), Entry(<<"Net", "Z">>, "Filer_Boot"),
             Entry(<<"Net", "Z">>, "Filer_Run"), Blank, End, User("z")>>
Text(lines, ended) == [lines |-> lines, ended |-> ended]

Desktops == {Text(Auto \o Acorn \o <<User("z")>>, TRUE), Text(Auto, FALSE), Text(Both, FALSE),
             Text(<<User("x"), Start("RISCOS BootBoot"), Foreign>>, TRUE),
             Text(<<Start("RISCOS BootBoot"), Foreign>> \o Acorn, TRUE)}
PreDesktops == {Text(<<User("p"), Start("RISCOS BootApps"), End, User("q")>>, TRUE),
                Text(<<Start("RISCOS !Boot"), Start("Acorn BootApps")>>, TRUE), NoFile}

\* The variables and the sprites of a package name its component.
File(name, type, text) == [name |-> name, type |-> type, text |-> text]
Sysvars == [x \in Comps |->
  CASE x = a -> {File("A$Dir", "text", <<[ref |-> a]>>), File("A$Time", "obey", <<>>)}
    [] x = c -> {File("C$B", "data", <<[chr |-> "|"], [ref |-> b], [ref |-> c]>>)}
    [] OTHER -> {}]
Sprites == [x \in Comps |-> IF x = a THEN {[name |-> "!a", text |-> <<[ref |-> a]>>]} ELSE {}]

Pick(name, flags, path) == [name |-> name, flags |-> flags, path |-> path]
PickA == Pick(a, {LookAt, Run}, HardDisc \o <<"Games">>)
PickN == Pick(a, {AddToApps}, <<"Net", "A">>)
PickB == Pick(b, {LookAt}, HardDisc \o <<"Apps", "A", "B">>)
PickC == Pick(c, {Run, AddToApps}, <<>>)
PickS == Pick(s, {}, <<"Net", "S">>)
PickO == Pick(n, {}, <<"Net", "N">>)
Picks == {PickA, PickN, PickB, PickC, PickS, PickO}

Requests == {<<{a}, {}, {PickA}>>, <<{a}, {}, {PickN}>>, <<{a, b}, {}, {PickA, PickB}>>,
             <<{c}, {a}, {PickC}>>, <<{}, {a}, {}>>, <<{c}, {}, {}>>, <<{}, {a, c}, {}>>,
             <<{n}, {}, {PickO}>>, <<{n}, {}, {}>>, <<{}, {}, {PickA}>>}
Alias == {<<{s}, {}, {PickS}>>, <<{a}, {}, {PickA}>>}
===============================================================================
