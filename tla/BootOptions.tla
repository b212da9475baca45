------------------------------ MODULE BootOptions ------------------------------
(***************************************************************************)
(* The sections of the boot option files that list applications            *)
(* (boot_options_file.cc).  A text is a sequence of lines, with whether    *)
(* the last one is ended; a line is the start of a section, the end of     *)
(* one, an entry (IfThere <app> Then <command> <app>), blank, or anything  *)
(* else.                                                                   *)
(***************************************************************************)
EXTENDS PathTable

CONSTANTS
  LookAt, Run, AddToApps,       \* the three lists
  Section,    \* [list -> the section it is in]
  After,      \* [list -> the sections it may be inserted after, the best first]
  Command,    \* [list -> the command of its entries]
  Command2,   \* [list -> the command of the second entry, or NoCommand]
  NoCommand

Start(s)      == [start |-> s]
End           == [end |-> TRUE]
Entry(app, c) == [app |-> app, command |-> c]
Blank         == [blank |-> TRUE]
Glued         == [glued |-> TRUE]    \* a header and the line written after it
IsStart(l) == DOMAIN l = {"start"}
IsEntry(l) == DOMAIN l = {"app", "command"}

-------------------------------------------------------------------------------
(* Parsing.                                                                *)

\* The first of a set of line numbers, or 0.
FirstOf(lines) == IF lines = {} THEN 0 ELSE Min(lines)

FindSection(text, s) == FirstOf({i \in DOMAIN text.lines : text.lines[i] = Start(s)})

\* The end of the section that begins at line i; 0 if another one begins before it.
FindSectionEnd(text, i) ==
  LET after == {j \in i + 1..Len(text.lines) : text.lines[j] = End \/ IsStart(text.lines[j])}
      j     == FirstOf(after)
  IN  IF j # 0 /\ text.lines[j] = End THEN j ELSE 0

\* find_insert_section().
FindInsertSection(text, list) ==
  LET found == {k \in DOMAIN After[list] : FindSection(text, After[list][k]) # 0}
  IN  IF found = {} THEN 0 ELSE FindSection(text, After[list][Min(found)])

\* parse_section(): entries are known by their application, other lines are kept, and
\* entries with the second command are passed over.  At the end of the text there is
\* one more, empty line.
ParseSection(text, list) ==
  LET s     == FindSection(text, Section[list])
      stop  == FirstOf({j \in s + 1..Len(text.lines) :
                          text.lines[j] = End \/ IsStart(text.lines[j])})
      body  == IF stop # 0 THEN SubSeq(text.lines, s + 1, stop - 1)
               ELSE SubSeq(text.lines, s + 1, Len(text.lines))
                      \o (IF text.ended THEN <<Blank>> ELSE <<>>)
      kept  == SelectSeq(body, LAMBDA l : ~(IsEntry(l) /\ l.command = Command2[list]))
      known(l) == IsEntry(l) /\ l.command = Command[list]
  IN  IF s = 0 THEN [section |-> 0, end |-> 0, apps |-> <<>>]
      ELSE [section |-> s,
            end     |-> FindSectionEnd(text, s),
            apps    |-> [k \in DOMAIN kept |->
                           IF known(kept[k]) THEN [name |-> kept[k].app] ELSE [line |-> kept[k]]]]

-------------------------------------------------------------------------------
(* Editing.                                                                *)

\* The boot drive is a root directory: a name that begins with its name is on it.
NameInSection(app) ==
  IF IsPrefix(BootDrive, app)
  THEN <<"Boot:^">> \o SubSeq(app, Len(BootDrive) + 1, Len(app)) ELSE app

Name(app) == [name |-> NameInSection(app)]
HasApp(apps, app) == Name(app) \in ToSet(apps)

Without(apps, remove) ==
  LET gone == {FirstOf({k \in DOMAIN apps : apps[k] = Name(app)}) : app \in remove}
      kept == SelectSeq([k \in DOMAIN apps |-> k], LAMBDA k : k \notin gone)
  IN  [k \in DOMAIN kept |-> apps[kept[k]]]

With_Again(apps, add) == apps \o SetToSeq({Name(app) : app \in add})

\* add() only adds what is not there; the order of the applications is arbitrary here.
With(apps, add) == apps \o SetToSeq({Name(app) : app \in add} \ ToSet(apps))

-------------------------------------------------------------------------------
(* Writing.                                                                *)

AppLines(list, a) ==
  IF DOMAIN a = {"line"} THEN <<a.line>>
  ELSE <<Entry(a.name, Command[list])>>
         \o (IF Command2[list] = NoCommand THEN <<>> ELSE <<Entry(a.name, Command2[list])>>)

WrittenText_NoRest(text, list, p, apps) ==
  LET entries == FlattenSeq([k \in DOMAIN apps |-> AppLines(list, apps[k])])
  IN  [lines |-> SubSeq(text.lines, 1, p.section) \o entries \o <<End>>, ended |-> TRUE]

\* commit(), for the text that was read and how it was parsed.  A section that is not
\* there comes after the one it may be inserted after, or at the end.  When the section
\* has no end, what comes after it is not written.
WrittenText(text, list, p, apps) ==
  LET entries == FlattenSeq([k \in DOMAIN apps |-> AppLines(list, apps[k])])
      last    == Len(text.lines)
      insert  == FindInsertSection(text, list)
      e       == IF insert = 0 THEN 0 ELSE FindSectionEnd(text, insert)
      at      == IF e = 0 THEN last ELSE e
      blank   == IF at < last \/ text.ended THEN <<Blank>> ELSE <<>>
      new     == blank \o <<Start(Section[list])>> \o entries \o <<End>>
      ends    == IF p.end = 0 THEN <<End>> ELSE SubSeq(text.lines, p.end, last)
      inside  == entries \o ends
  IN  CASE p.section = 0 ->
             [lines |-> (IF e # 0 /\ e = last THEN <<Blank>> ELSE <<>>)
                          \o SubSeq(text.lines, 1, at) \o new \o SubSeq(text.lines, at + 1, last),
              ended |-> IF at < last THEN text.ended ELSE TRUE]
        [] p.section = last /\ last > 0 /\ ~text.ended ->
             [lines |-> SubSeq(text.lines, 1, last - 1) \o <<Glued>> \o Tail(inside),
              ended |-> TRUE]
        [] OTHER ->
             [lines |-> SubSeq(text.lines, 1, p.section) \o inside,
              ended |-> IF p.end = 0 THEN TRUE ELSE text.ended]
===============================================================================
