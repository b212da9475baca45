--------------------------- MODULE Components_proofs ---------------------------
(***************************************************************************)
(* For every table of paths, every set of choices and any failures and     *)
(* crashes: a commit that has packages to process removes the choices only *)
(* when they are in the table on the disc, and the variables and sprites   *)
(* follow the packages and the places.                                     *)
(***************************************************************************)
EXTENDS Components, FiniteSetTheorems, SequenceTheorems, TLAPS

ChoiceFile == Seq(Component) \cup {NoFile}
Applied == {"packages", "update_sysvars", "update_sprites", "options",
            "boot", "run", "add", "clear"} \cup Lists

\* The choices of the handler that runs are those of the file, but for how their places
\* are written.
Follows(new, old) ==
  /\ DOMAIN new = DOMAIN old
  /\ \A i \in DOMAIN old :
       /\ new[i].name = old[i].name
       /\ new[i].path = <<>> <=> old[i].path = <<>>
       /\ Canonicalise(new[i].path) = Canonicalise(old[i].path)

FilesInv == choices \in ChoiceFile /\ backup \in ChoiceFile
PathsInv == paths = pathsFile \/ (state = "alter" /\ modified)
LoopInv  == state = "alter" =>
              /\ update \in Seq(Component) /\ at \in Nat \ {0}
              /\ Follows(update, ReadChoices)
PassInv  == state = "alter" /\ ~changed =>
              \A i \in DOMAIN update : i < at => InPlace(paths, update[i])
DoneInv  == state \in Applied /\ Processing =>
              \A i \in DOMAIN ReadChoices : InPlace(pathsFile, ReadChoices[i])

IInv == FilesInv /\ PathsInv /\ LoopInv /\ PassInv /\ DoneInv

-------------------------------------------------------------------------------
(* Physical paths. *)

Path == Seq(Leaf)

\* A canonical path does not begin at the boot directory, and is empty only if the
\* path it stands for is.
LEMMA CanonicalPath ==
  ASSUME NEW path \in Path
  PROVE  /\ Canonicalise(path) \in Path
         /\ Canonicalise(path) = <<>> <=> path = <<>>
         /\ path # <<>> => Canonicalise(path)[1] # BootRelative
<1>1. CASE path # <<>> /\ path[1] = BootRelative
  <2>1. Canonicalise(path) = BootDrive \o Tail(path)
    BY <1>1 DEF Canonicalise
  <2>2. Tail(path) \in Path
    BY <1>1 DEF Path
  <2>3. BootDrive \in Seq(Leaf) /\ Len(BootDrive) > 0 /\ BootDrive[1] # BootRelative
    BY PathTableAssumption
  <2> QED BY <1>1, <2>1, <2>2, <2>3 DEF Path
<1>2. CASE ~(path # <<>> /\ path[1] = BootRelative)
  BY <1>2 DEF Canonicalise
<1> QED BY <1>1, <1>2

\* Writing a canonical path relative to the boot drive keeps what it stands for.
LEMMA RoundTrip ==
  ASSUME NEW path \in Path, path # <<>> => path[1] # BootRelative
  PROVE  /\ BootDriveRelative(path) \in Path
         /\ BootDriveRelative(path) = <<>> <=> path = <<>>
         /\ Canonicalise(BootDriveRelative(path)) = path
<1> DEFINE n == Len(BootDrive)
           rest == SubSeq(path, n + 1, Len(path))
<1>1. CASE IsStrictPrefix(BootDrive, path)
  <2>1. BootDriveRelative(path) = <<BootRelative>> \o rest
    BY <1>1 DEF BootDriveRelative
  <2>2. BootDrive \in Seq(Leaf) /\ n \in Nat /\ n > 0
    BY PathTableAssumption
  <2>3. n <= Len(path) /\ SubSeq(BootDrive, 1, n) = SubSeq(path, 1, n)
    BY <1>1 DEF IsStrictPrefix, IsPrefix
  <2>4. rest \in Path
    BY <2>2, <2>3 DEF Path
  <2>5. <<BootRelative>> \in Seq(Leaf)
    BY PathTableAssumption
  <2>6. /\ <<BootRelative>> \o rest \in Path
        /\ (<<BootRelative>> \o rest)[1] = BootRelative
        /\ <<BootRelative>> \o rest # <<>>
        /\ Tail(<<BootRelative>> \o rest) = rest
    BY <2>4, <2>5 DEF Path
  <2>7. Canonicalise(<<BootRelative>> \o rest) = BootDrive \o rest
    BY <2>6 DEF Canonicalise
  <2>8. BootDrive \o rest = path
    <3> DEFINE whole == BootDrive \o rest
    <3>1. whole \in Seq(Leaf) /\ Len(whole) = Len(path)
      BY <2>2, <2>3, <2>4 DEF Path
    <3>2. ASSUME NEW i \in 1..Len(path)
          PROVE  whole[i] = path[i]
      <4>1. CASE i <= n
        <5>1. whole[i] = BootDrive[i]
          BY <2>2, <2>4, <4>1 DEF Path
        <5>2. SubSeq(BootDrive, 1, n)[i] = BootDrive[i] /\ SubSeq(path, 1, n)[i] = path[i]
          BY <2>2, <2>3, <4>1 DEF Path
        <5> QED BY <5>1, <5>2, <2>3
      <4>2. CASE i > n
        BY <2>2, <2>3, <2>4, <4>2 DEF Path
      <4> QED BY <4>1, <4>2, <2>2
    <3>3. path \in Seq(Leaf)
      BY DEF Path
    <3>4. whole = path
      <4> HIDE DEF whole
      <4>1. \A i \in 1..Len(whole) : whole[i] = path[i]
        BY <3>1, <3>2
      <4> QED BY <3>1, <3>3, <4>1, SeqEqual
    <3> QED BY <3>4
  <2>9. path # <<>>
    BY <2>2, <2>3
  <2> HIDE DEF rest, n
  <2>10. Canonicalise(BootDriveRelative(path)) = path
    BY <2>1, <2>7, <2>8
  <2>11. BootDriveRelative(path) \in Path /\ BootDriveRelative(path) # <<>>
    BY <2>1, <2>6
  <2> QED BY <2>9, <2>10, <2>11
<1>2. CASE ~IsStrictPrefix(BootDrive, path)
  <2>1. BootDriveRelative(path) = path
    BY <1>2 DEF BootDriveRelative
  <2>2. Canonicalise(path) = path
    BY DEF Canonicalise
  <2> QED BY <2>1, <2>2
<1> QED BY <1>1, <1>2

-------------------------------------------------------------------------------
(* The file of choices. *)

\* An order of a finite set is a sequence of its members.
LEMMA OrderType ==
  ASSUME NEW S, IsFiniteSet(S), NEW order \in SetToSeqs(S)
  PROVE  order \in Seq(S)
<1>1. Cardinality(S) \in Nat
  BY FS_CardinalityType
<1>2. order \in [1..Cardinality(S) -> S]
  BY DEF SetToSeqs
<1> QED BY <1>1, <1>2

\* Noting what has been chosen leaves a sequence of choices.
LEMMA InsertedType ==
  ASSUME NEW table \in Seq(Component), NEW new, new \subseteq Component, IsFiniteSet(new)
  PROVE  Inserted(table, new) \subseteq Seq(Component)
<1> DEFINE named(x)  == {k \in new : k.name = x}
           others    == {k \in new : ~\E i \in DOMAIN table : table[i].name = k.name}
           renewed   == [i \in DOMAIN table |->
                           IF named(table[i].name) = {} THEN table[i]
                           ELSE CHOOSE k \in new : k.name = table[i].name]
<1>1. renewed \in Seq(Component)
  <2>1. ASSUME NEW i \in DOMAIN table
        PROVE  renewed[i] \in Component
    <3>1. CASE named(table[i].name) = {}
      BY <3>1
    <3>2. CASE named(table[i].name) # {}
      <4>1. \E k \in new : k.name = table[i].name
        BY <3>2
      <4>2. (CHOOSE k \in new : k.name = table[i].name) \in new
        BY <4>1
      <4> QED BY <3>2, <4>2
    <3> QED BY <3>1, <3>2
  <2>2. DOMAIN renewed = 1..Len(table) /\ Len(table) \in Nat
    OBVIOUS
  <2> HIDE DEF renewed
  <2>3. renewed \in [1..Len(table) -> Component]
    BY <2>1, <2>2 DEF renewed
  <2> QED BY <2>2, <2>3
<1>2. ASSUME NEW order \in SetToSeqs(others)
      PROVE  order \in Seq(Component)
  <2>1. IsFiniteSet(others) /\ others \subseteq Component
    BY FS_Subset
  <2> HIDE DEF others
  <2>2. order \in Seq(others)
    BY <2>1, OrderType
  <2> QED BY <2>1, <2>2
<1>3. Inserted(table, new) = {renewed \o order : order \in SetToSeqs(others)}
  BY DEF Inserted
<1> HIDE DEF renewed, others
<1>4. \A order \in SetToSeqs(others) : renewed \o order \in Seq(Component)
  BY <1>1, <1>2
<1> QED BY <1>3, <1>4

-------------------------------------------------------------------------------
(* The invariant. *)

LEMMA ReadType ==
  ASSUME FilesInv
  PROVE  ReadChoices \in Seq(Component)
BY DEF FilesInv, ChoiceFile, ReadChoices

\* The names of the lists are not those of the other states.
LEMMA StateNames ==
  /\ "alter" \notin Lists /\ "alter" \notin Applied
  /\ "paths" \notin Applied
  /\ "none" \notin Applied /\ "done" \notin Applied /\ "fail" \notin Applied
BY ComponentsAssumption DEF Step, Applied

LEMMA ApplyInit == Init => IInv
<1> SUFFICES ASSUME Init PROVE IInv
  OBVIOUS
<1>1. choices = NoFile /\ backup = NoFile /\ paths = pathsFile /\ state = "none"
  BY DEF Init
<1> QED BY <1>1, StateNames DEF IInv, FilesInv, PathsInv, LoopInv, PassInv, DoneInv, ChoiceFile

\* The files of choices are sequences of choices whatever the step does.
LEMMA CommitChoicesType ==
  ASSUME FilesInv, NEW table \in Seq(Component), CommitChoices(table)
  PROVE  /\ FilesInv'
         /\ choices # NoFile /\ choices' = NoFile => backup' = choices
BY ComponentsAssumption DEF FilesInv, ChoiceFile, CommitChoices

\* A step that is not one of a pass, and leaves the table and the choices alone.
LEMMA QuietStep ==
  ASSUME IInv, UNCHANGED <<pathsFile, paths, choices, backup>>, state # "alter", state' # "alter",
         state' \in Applied /\ Processing' => state \in Applied /\ Processing
  PROVE  IInv'
BY DEF IInv, FilesInv, PathsInv, LoopInv, PassInv, DoneInv, ChoiceFile, ReadChoices, InPlace

LEMMA BeginStep ==
  ASSUME IInv, Begin
  PROVE  IInv' /\ (choices # NoFile /\ choices' = NoFile => backup' = choices)
<1>1. FilesInv' /\ (choices # NoFile /\ choices' = NoFile => backup' = choices)
  <2>1. PICK p \in Plans : IF p[3] = {} THEN UNCHANGED <<choices, backup, faults>>
                           ELSE \E table \in Inserted(ReadChoices, p[3]) : CommitChoices(table)
    BY DEF Begin
  <2>2. CASE p[3] = {}
    BY <2>1, <2>2 DEF IInv, FilesInv, ChoiceFile
  <2>3. CASE p[3] # {}
    <3>1. p[3] \subseteq Component /\ IsFiniteSet(p[3])
      BY ComponentsAssumption
    <3>2. Inserted(ReadChoices, p[3]) \subseteq Seq(Component)
      BY <3>1, ReadType, InsertedType DEF IInv
    <3> QED BY <2>1, <2>3, <3>2, CommitChoicesType DEF IInv
  <2> QED BY <2>2, <2>3
<1>2. state' = "paths" /\ state # "alter" /\ UNCHANGED <<pathsFile, paths>>
  BY DEF Begin
<1> QED BY <1>1, <1>2, StateNames DEF IInv, PathsInv, LoopInv, PassInv, DoneInv

LEMMA SkipStep ==
  ASSUME IInv, SkipPaths
  PROVE  IInv' /\ choices' = choices
<1>1. /\ UNCHANGED <<pathsFile, paths, choices, backup, plan>>
      /\ ~Processing /\ state = "paths" /\ state' = "packages"
  BY DEF SkipPaths, discVars
<1>2. ~Processing'
  BY <1>1 DEF Processing
<1> QED BY <1>1, <1>2, QuietStep

LEMMA StartStep ==
  ASSUME IInv, StartPaths
  PROVE  IInv'
<1>1. UNCHANGED <<pathsFile, paths, choices, backup>> /\ state = "paths" /\ state' = "alter"
  BY DEF StartPaths, discVars
<1>2. update' = ReadChoices /\ ReadChoices' = ReadChoices /\ at' = 1
  BY <1>1 DEF StartPaths, ReadChoices
<1>3. ReadChoices \in Seq(Component)
  BY ReadType DEF IInv
<1>4. Follows(ReadChoices, ReadChoices)
  BY DEF Follows
<1> QED
  BY <1>1, <1>2, <1>3, <1>4, StateNames
     DEF IInv, FilesInv, PathsInv, LoopInv, PassInv, DoneInv, ChoiceFile

\* A component whose place is the chosen one is passed over, and any other one changes
\* the table, so that there will be another pass.
LEMMA AlterStep ==
  ASSUME IInv, AlterPath
  PROVE  IInv'
<1>1. /\ UNCHANGED <<pathsFile, choices, backup>> /\ ReadChoices' = ReadChoices
      /\ state = "alter" /\ at \in DOMAIN update
  BY DEF AlterPath, PathsFail, discVars, ReadChoices
<1> DEFINE c   == update[at]
           new == Canonicalise(c.path)
<1>2. update \in Seq(Component) /\ at \in Nat \ {0} /\ c \in Component /\ c.path \in Path
  <2>1. update \in Seq(Component) /\ at \in Nat \ {0}
    BY <1>1 DEF IInv, LoopInv
  <2>2. c \in Component
    BY <1>1, <2>1
  <2> QED BY <2>1, <2>2 DEF Component, Path
<1>3. CASE c.path # <<>> /\ Place(paths, c.name) = NoPath
  <2>1. state' = "fail" /\ paths' = pathsFile
    BY <1>3 DEF AlterPath, PathsFail, RollbackPaths
  <2> QED BY <1>1, <2>1, StateNames
             DEF IInv, FilesInv, PathsInv, LoopInv, PassInv, DoneInv, ChoiceFile
<1>4. CASE ~(c.path # <<>> /\ Place(paths, c.name) = NoPath) /\ c.path # <<>>
             /\ Place(paths, c.name) # new
  <2>1. /\ update' = [update EXCEPT ![at].path = BootDriveRelative(new)]
        /\ changed' = TRUE /\ modified' = TRUE /\ at' = at + 1 /\ state' = state
    BY <1>4 DEF AlterPath
  <2>2. /\ BootDriveRelative(new) \in Path
        /\ BootDriveRelative(new) = <<>> <=> c.path = <<>>
        /\ Canonicalise(BootDriveRelative(new)) = new
    BY <1>2, CanonicalPath, RoundTrip
  <2>3. update' \in Seq(Component)
    <3>1. [c EXCEPT !.path = BootDriveRelative(new)] \in Component
      BY <1>2, <2>2 DEF Component, Path
    <3>2. update' = [update EXCEPT ![at] = [c EXCEPT !.path = BootDriveRelative(new)]]
      BY <2>1
    <3> QED BY <1>1, <1>2, <3>1, <3>2
  <2>4. Follows(update', ReadChoices)
    <3>1. Follows(update, ReadChoices)
      BY <1>1 DEF IInv, LoopInv
    <3>2. DOMAIN update' = DOMAIN update
      BY <2>1
    <3>3. ASSUME NEW i \in DOMAIN ReadChoices
          PROVE  /\ update'[i].name = update[i].name
                 /\ update'[i].path = <<>> <=> update[i].path = <<>>
                 /\ Canonicalise(update'[i].path) = Canonicalise(update[i].path)
      <4>1. CASE i = at
        <5>1. update'[i].name = c.name /\ update'[i].path = BootDriveRelative(new)
          BY <1>1, <1>2, <2>1, <4>1 DEF Component
        <5> QED BY <4>1, <5>1, <2>2
      <4>2. CASE i # at
        BY <1>2, <2>1, <4>2
      <4> QED BY <4>1, <4>2
    <3> QED BY <3>1, <3>2, <3>3 DEF Follows
  <2> QED
    BY <1>1, <1>2, <2>1, <2>3, <2>4, StateNames
       DEF IInv, FilesInv, PathsInv, LoopInv, PassInv, DoneInv, ChoiceFile
<1>5. CASE ~(c.path # <<>> /\ Place(paths, c.name) # new)
             /\ ~(c.path # <<>> /\ Place(paths, c.name) = NoPath)
  <2>1. UNCHANGED <<paths, update, changed, modified, state>> /\ at' = at + 1
    BY <1>5 DEF AlterPath
  <2>2. InPlace(paths, c)
    BY <1>5 DEF InPlace
  <2>3. PassInv'
    <3>1. SUFFICES ASSUME ~changed, NEW i \in DOMAIN update, i < at + 1
                   PROVE  InPlace(paths, update[i])
      BY <2>1 DEF PassInv, InPlace
    <3>2. i \in Nat
      BY <1>2
    <3>3. i < at \/ i = at
      BY <1>2, <3>1, <3>2
    <3> QED BY <1>1, <2>2, <3>1, <3>3 DEF IInv, PassInv
  <2> QED BY <1>1, <1>2, <2>1, <2>3, StateNames
             DEF IInv, FilesInv, PathsInv, LoopInv, DoneInv, ChoiceFile
<1> QED BY <1>3, <1>4, <1>5

LEMMA NextPassStep ==
  ASSUME IInv, NextPass
  PROVE  IInv'
<1>1. /\ UNCHANGED <<pathsFile, paths, choices, backup, state, update, modified>>
      /\ ReadChoices' = ReadChoices /\ state = "alter" /\ at' = 1
  BY DEF NextPass, discVars, ReadChoices
<1>2. \A i \in DOMAIN update : ~(i < 1)
  BY <1>1 DEF IInv, LoopInv
<1> QED BY <1>1, <1>2, StateNames
           DEF IInv, FilesInv, PathsInv, LoopInv, PassInv, DoneInv, ChoiceFile

\* A pass that has changed nothing has found every choice in its place.
LEMMA PassesDoneStep ==
  ASSUME IInv, PathsDone
  PROVE  IInv'
<1>1. /\ UNCHANGED <<choices, backup>> /\ ReadChoices' = ReadChoices
      /\ state = "alter" /\ at \notin DOMAIN update /\ ~changed
  BY DEF PathsDone, PathsFail, discVars, ReadChoices
<1>2. CASE state' = "fail"
  <2>1. paths' = pathsFile /\ pathsFile' = pathsFile
    BY <1>1, <1>2 DEF PathsDone, PathsFail, RollbackPaths, discVars
  <2> QED BY <1>1, <1>2, <2>1, StateNames
             DEF IInv, FilesInv, PathsInv, LoopInv, PassInv, DoneInv, ChoiceFile
<1>3. CASE state' # "fail"
  <2>1. state' = "packages" /\ paths' = paths /\ pathsFile' = paths
    BY <1>1, <1>3 DEF PathsDone, PathsFail, CommitPaths, IInv, PathsInv
  <2>2. ASSUME NEW i \in DOMAIN ReadChoices
        PROVE  InPlace(paths, ReadChoices[i])
    <3>1. update \in Seq(Component) /\ at \in Nat \ {0} /\ Follows(update, ReadChoices)
      BY <1>1 DEF IInv, LoopInv
    <3>2. i \in DOMAIN update /\ i < at
      BY <1>1, <3>1 DEF Follows
    <3>3. InPlace(paths, update[i])
      BY <1>1, <3>2 DEF IInv, PassInv
    <3> QED BY <3>1, <3>3 DEF InPlace, Follows
  <2> QED BY <1>1, <2>1, <2>2, StateNames
             DEF IInv, FilesInv, PathsInv, LoopInv, PassInv, DoneInv, ChoiceFile, InPlace
<1> QED BY <1>2, <1>3

\* The rest of a commit keeps the table and the choices until it is done.
LEMMA RestStep ==
  ASSUME IInv, Packages \/ PackagesFail \/ SysvarsUpdated \/ SpritesUpdated \/ BuildOptions
               \/ EditOptions \/ BootFiles \/ RunFiles \/ AddFiles
  PROVE  IInv' /\ choices' = choices
<1>1. UNCHANGED <<pathsFile, paths, choices, backup>> /\ Processing' = Processing
  BY DEF Processing, Packages, PackagesFail, SysvarsUpdated, SpritesUpdated, BuildOptions, EditOptions,
         BootFiles, RunFiles, AddFiles, Launch, discVars
<1>2. state \in Applied
  BY DEF Packages, PackagesFail, SysvarsUpdated, SpritesUpdated, BuildOptions, EditOptions,
         BootFiles, RunFiles, AddFiles, Launch, Applied
<1>3. state' # "alter"
  <2>1. CASE EditOptions
    BY <1>2, <2>1, StateNames DEF EditOptions, OptionsFail, NextList, Lists, Applied
  <2>2. CASE BuildOptions
    BY <2>2, StateNames DEF BuildOptions, Lists
  <2>3. CASE Packages \/ PackagesFail \/ SysvarsUpdated \/ SpritesUpdated
    BY <2>3 DEF Packages, PackagesFail, SysvarsUpdated, SpritesUpdated
  <2>4. CASE BootFiles \/ RunFiles \/ AddFiles
    BY <2>4 DEF BootFiles, RunFiles, AddFiles, Launch
  <2> QED BY <2>1, <2>2, <2>3, <2>4
<1>4. state # "alter"
  BY <1>2, StateNames
<1> QED BY <1>1, <1>2, <1>3, <1>4, QuietStep

LEMMA DoneStep ==
  ASSUME IInv, UpdateDone
  PROVE  IInv' /\ (Processing => \A i \in DOMAIN ReadChoices : InPlace(pathsFile, ReadChoices[i]))
<1>1. UNCHANGED <<pathsFile, paths, backup>> /\ state = "clear" /\ state' = "done"
      /\ (choices' = NoFile \/ choices' = choices)
  BY DEF UpdateDone
<1>2. state \in Applied
  BY <1>1 DEF Applied
<1> QED BY <1>1, <1>2, StateNames
           DEF IInv, FilesInv, PathsInv, LoopInv, PassInv, DoneInv, ChoiceFile

LEMMA CrashStep ==
  ASSUME IInv, Crash
  PROVE  IInv' /\ choices' = choices
<1>1. UNCHANGED <<pathsFile, choices, backup>> /\ paths' = pathsFile /\ state' = "none"
  BY DEF Crash, discVars
<1> QED BY <1>1, StateNames
           DEF IInv, FilesInv, PathsInv, LoopInv, PassInv, DoneInv, ChoiceFile

\* Every step keeps the invariant, and none but the end of a commit removes the choices.
LEMMA ApplyNext ==
  ASSUME IInv, [Next]_vars
  PROVE  /\ IInv'
         /\ Processing /\ choices # NoFile /\ choices' = NoFile /\ backup' # choices =>
              \A i \in DOMAIN choices : InPlace(pathsFile, choices[i])
<1>1. CASE Begin
  BY <1>1, BeginStep
<1>2. CASE StartPaths
  BY <1>2, StartStep DEF StartPaths, discVars
<1>3. CASE AlterPath
  BY <1>3, AlterStep DEF AlterPath, PathsFail, discVars
<1>4. CASE NextPass
  BY <1>4, NextPassStep DEF NextPass, discVars
<1>5. CASE PathsDone
  BY <1>5, PassesDoneStep DEF PathsDone, PathsFail, discVars
<1>6. CASE SkipPaths
  BY <1>6, SkipStep
<1>7. CASE \/ Packages \/ PackagesFail \/ SysvarsUpdated \/ SpritesUpdated \/ BuildOptions
           \/ EditOptions \/ BootFiles \/ RunFiles \/ AddFiles
  BY <1>7, RestStep
<1>8. CASE UpdateDone
  BY <1>8, DoneStep DEF ReadChoices
<1>9. CASE Crash
  BY <1>9, CrashStep
<1>10. CASE UNCHANGED vars
  <2>1. UNCHANGED <<pathsFile, paths, choices, backup, state, plan, update, at, changed, modified>>
    BY <1>10 DEF vars, discVars, loopVars
  <2> QED BY <2>1 DEF IInv, FilesInv, PathsInv, LoopInv, PassInv, DoneInv, ChoiceFile, ReadChoices,
                      InPlace, Follows, Processing
<1> QED BY <1>1, <1>2, <1>3, <1>4, <1>5, <1>6, <1>7, <1>8, <1>9, <1>10 DEF Next, Passes

\* ChoicesApplied (commit.cc:84-187, :626-642, component_update.cc): for every table, plan and
\* set of choices, and any failures and crashes, a commit that has packages to process
\* does not remove the choices before each of them is in the table on the disc.
THEOREM ChoicesAreApplied == ComponentsSpec => ChoicesApplied
<1>1. Init => IInv
  BY ApplyInit
<1>2. IInv /\ [Next]_vars =>
        IInv' /\ (Processing /\ choices # NoFile /\ choices' = NoFile /\ backup' # choices =>
                    \A i \in DOMAIN choices : InPlace(pathsFile, choices[i]))
  BY ApplyNext
<1> QED BY <1>1, <1>2, PTL DEF ComponentsSpec, ChoicesApplied

-------------------------------------------------------------------------------
(* The variables and the sprites. *)

WithSprites == {"options", "boot", "run", "add", "clear", "done"} \cup Lists
WithVars    == {"update_sprites"} \cup WithSprites

\* What the two handlers have written is what the table and the packages say, as long
\* as the commit goes on.
VarsInv ==
  state \in WithVars =>
    \E failing \in SUBSET {f \in PackageSysvars : Dynamic(f)} :
      SysvarsFile(paths, PackageSysvars, failing) \in setvars
SpritesInv ==
  state \in WithSprites =>
    \A i \in DOMAIN sprites : \A sp \in sprites[i] : \E o \in objects : sp[2] = <<[path |-> o]>>

DerivedInv == IInv /\ VarsInv /\ SpritesInv

LEMMA DerivedNames ==
  /\ WithVars \ {"done"} \subseteq Applied \cup {"update_sprites"}
  /\ \A s \in {"none", "paths", "alter", "packages", "update_sysvars", "fail"} : s \notin WithVars
  /\ "update_sprites" \notin WithSprites
BY ComponentsAssumption DEF Step, Applied, WithVars, WithSprites

LEMMA DerivedNext == DerivedInv /\ [Next]_vars => DerivedInv'
<1> SUFFICES ASSUME DerivedInv, [Next]_vars
             PROVE  VarsInv' /\ SpritesInv'
  BY ApplyNext DEF DerivedInv
<1>1. CASE /\ state' \in WithVars => state \in WithVars
           /\ state' \in WithSprites => state \in WithSprites
           /\ UNCHANGED <<paths, setvars, sprites, objects, installed>>
  BY <1>1 DEF DerivedInv, VarsInv, SpritesInv, PackageSysvars
<1>2. CASE state' \notin WithVars
  BY <1>2 DEF VarsInv, SpritesInv, WithVars
<1>3. CASE Begin \/ SkipPaths \/ StartPaths \/ PackagesFail \/ Crash \/ Passes \/ Packages
  <2>1. state' \in {"none", "paths", "alter", "packages", "update_sysvars", "fail"}
    BY <1>3
       DEF Begin, SkipPaths, StartPaths, PackagesFail, Crash, Passes, AlterPath, NextPass, PathsDone,
           PathsFail, Packages
  <2> QED
    BY <1>2, <2>1, DerivedNames
<1>4. CASE SysvarsUpdated
  <2>1. CASE state' = "update_sprites"
    <3>1. PICK failing \in SUBSET {f \in PackageSysvars : Dynamic(f)} :
            setvars' = {SysvarsFile(paths, PackageSysvars, failing)}
      BY <1>4, <2>1 DEF SysvarsUpdated
    <3>2. UNCHANGED <<paths, installed>>
      BY <1>4 DEF SysvarsUpdated
    <3>3. VarsInv'
      BY <3>1, <3>2 DEF VarsInv, PackageSysvars
    <3> QED
      BY <2>1, <3>3, DerivedNames DEF SpritesInv
  <2>2. CASE state' # "update_sprites"
    <3>1. state' = "update_sysvars"
      BY <1>4, <2>2 DEF SysvarsUpdated
    <3> QED
      BY <1>2, <3>1, DerivedNames
  <2> QED
    BY <2>1, <2>2
<1>5. CASE SpritesUpdated
  <2>1. /\ state = "update_sprites" /\ state' = "options"
        /\ UNCHANGED <<paths, setvars, objects, installed>>
        /\ sprites' = SpritePool(paths, PackageSprites,
                                 {<<<<[path |-> o]>>, x>> : o \in objects, x \in SpriteSuffixes})
    BY <1>5 DEF SpritesUpdated
  <2>2. VarsInv'
    BY <2>1 DEF DerivedInv, VarsInv, PackageSysvars, WithVars
  <2>3. \A i \in DOMAIN sprites' : \A sp \in sprites'[i] :
          \E o \in objects : sp[2] = <<[path |-> o]>>
    <3> DEFINE there == {<<<<[path |-> o]>>, x>> : o \in objects, x \in SpriteSuffixes}
    <3> SUFFICES ASSUME NEW i \in DOMAIN sprites', NEW sp \in sprites'[i]
                 PROVE  \E o \in objects : sp[2] = <<[path |-> o]>>
      OBVIOUS
    <3>1. sp \in SpriteFile(i, paths, PackageSprites, there)
      BY <2>1 DEF SpritePool
    <3>2. PICK f, suffix : /\ sp = <<f.name, Resolved(paths, f.text), suffix>>
                           /\ <<Resolved(paths, f.text), suffix>> \in there
      <4> HIDE DEF there
      <4> QED
        BY <3>1, Zenon DEF SpriteFile
    <3>3. PICK o \in objects : Resolved(paths, f.text) = <<[path |-> o]>>
      BY <3>2
    <3> QED
      BY <3>2, <3>3
  <2> QED
    BY <2>1, <2>2, <2>3 DEF SpritesInv
<1>6. CASE BuildOptions \/ EditOptions \/ BootFiles \/ RunFiles \/ AddFiles \/ UpdateDone
  <2>1. UNCHANGED <<paths, setvars, sprites, objects, installed>>
    BY <1>6
       DEF BuildOptions, EditOptions, BootFiles, RunFiles, AddFiles, Launch, UpdateDone,
           discVars, derived
  <2>2. state \in WithSprites
    BY <1>6
       DEF BuildOptions, EditOptions, BootFiles, RunFiles, AddFiles, Launch, UpdateDone,
           WithSprites
  <2> QED
    BY <1>1, <2>1, <2>2 DEF WithVars
<1>7. CASE UNCHANGED vars
  <2>1. UNCHANGED <<state, paths, setvars, sprites, objects, installed>>
    BY <1>7 DEF vars, discVars, derived
  <2> QED
    BY <1>1, <2>1
<1> QED
  BY <1>3, <1>4, <1>5, <1>6, <1>7 DEF Next

\* The value of a variable that is not computed by a program.
LEMMA StaticValue ==
  ASSUME NEW table, NEW failing, failing \subseteq {f \in PackageSysvars : Dynamic(f)},
         installed \subseteq Comp, NEW f \in PackageSysvars, Static(f)
  PROVE  SysvarsFile(table, PackageSysvars, failing).values[f.name] = Resolved(table, f.text)
<1> DEFINE static == {g \in PackageSysvars : Static(g)}
           ran    == {g \in PackageSysvars \ failing : Dynamic(g)}
           chosen == CHOOSE g \in static : g.name = f.name
<1>1. \A g \in PackageSysvars : g.name = f.name => g = f
  BY SysvarFilesAssumption DEF PackageSysvars
<1>2. ~Dynamic(f)
  BY DEF Static, Dynamic
<1>3. ~\E g \in ran : g.name = f.name
  BY <1>1, <1>2
<1>4. chosen = f
  BY <1>1
<1>5. f.name \in {g.name : g \in static \cup ran}
  OBVIOUS
<1> HIDE DEF chosen
<1>6. SysvarValues(table, PackageSysvars, failing)[f.name] = Resolved(table, chosen.text)
  BY <1>3, <1>5 DEF SysvarValues, chosen
<1> QED
  BY <1>4, <1>6 DEF SysvarsFile

\* The components that are installed are components.
InstalledInv == installed \subseteq Comp /\ plan[1] \subseteq Comp

\* The variables of text files and the sprites follow the table (VariablesFollow): between the handlers
\* that make them and the end of the commit nothing moves or replaces what they name.
THEOREM VariablesAreRight == ComponentsSpec => []VariablesFollow
<1>1. Init => DerivedInv /\ InstalledInv
  <2> SUFFICES ASSUME Init
               PROVE  DerivedInv /\ InstalledInv
    OBVIOUS
  <2>1. state = "none" /\ installed = {} /\ plan[1] = {}
    BY DEF Init
  <2> QED
    BY <2>1, ApplyInit, DerivedNames DEF DerivedInv, VarsInv, SpritesInv, InstalledInv, WithVars
<1>2. InstalledInv /\ [Next]_vars => InstalledInv'
  <2> SUFFICES ASSUME InstalledInv, [Next]_vars
               PROVE  InstalledInv'
    OBVIOUS
  <2>1. CASE Begin
    BY <2>1, ComponentsAssumption DEF Begin, InstalledInv
  <2>2. CASE Packages
    BY <2>2 DEF Packages, InstalledInv
  <2>3. CASE Crash
    BY <2>3 DEF Crash, discVars, InstalledInv
  <2>4. CASE UNCHANGED <<installed, plan>>
    BY <2>4 DEF InstalledInv
  <2>5. CASE SkipPaths \/ StartPaths \/ Passes \/ PackagesFail
    BY <2>4, <2>5
       DEF SkipPaths, StartPaths, Passes, AlterPath, NextPass, PathsDone, PathsFail, PackagesFail,
           discVars
  <2>6. CASE SysvarsUpdated \/ SpritesUpdated \/ BuildOptions \/ EditOptions \/ BootFiles
             \/ RunFiles \/ AddFiles \/ UpdateDone
    <3>1. CASE SysvarsUpdated \/ SpritesUpdated \/ BuildOptions
      BY <2>4, <3>1 DEF SysvarsUpdated, SpritesUpdated, BuildOptions, discVars
    <3>2. CASE EditOptions
      BY <2>4, <3>2 DEF EditOptions
    <3>3. CASE BootFiles \/ RunFiles \/ AddFiles \/ UpdateDone
      BY <2>4, <3>3 DEF BootFiles, RunFiles, AddFiles, Launch, UpdateDone, discVars
    <3> QED
      BY <2>6, <3>1, <3>2, <3>3
  <2>7. CASE UNCHANGED vars
    BY <2>4, <2>7 DEF vars, discVars
  <2> QED
    BY <2>1, <2>2, <2>3, <2>5, <2>6, <2>7 DEF Next
<1>3. DerivedInv /\ InstalledInv => VariablesFollow
  <2> SUFFICES ASSUME DerivedInv, InstalledInv, state = "done"
               PROVE  VariablesFollow
    BY DEF VariablesFollow
  <2>1. paths = pathsFile
    BY DEF DerivedInv, IInv, PathsInv
  <2>2. PICK failing \in SUBSET {f \in PackageSysvars : Dynamic(f)} :
          SysvarsFile(paths, PackageSysvars, failing) \in setvars
    BY DEF DerivedInv, VarsInv, WithVars, WithSprites
  <2> DEFINE set == SysvarsFile(paths, PackageSysvars, failing)
  <2>3. set.apps = Place(paths, <<"Apps">>)
    BY DEF SysvarsFile, Place
  <2>4. \A f \in PackageSysvars : f.type = "text" => set.values[f.name] = Resolved(pathsFile, f.text)
    <3> SUFFICES ASSUME NEW f \in PackageSysvars, f.type = "text"
                 PROVE  set.values[f.name] = Resolved(pathsFile, f.text)
      OBVIOUS
    <3>1. Static(f)
      BY DEF Static
    <3>2. failing \subseteq {g \in PackageSysvars : Dynamic(g)}
      OBVIOUS
    <3> QED
      BY <2>1, <3>1, <3>2, StaticValue DEF InstalledInv
  <2>5. DOMAIN set.values \subseteq {f.name : f \in PackageSysvars}
    BY DEF SysvarsFile, SysvarValues
  <2>6. \A i \in DOMAIN sprites : \A sp \in sprites[i] : \E o \in objects : sp[2] = <<[path |-> o]>>
    BY DEF DerivedInv, SpritesInv, WithSprites
  <2> HIDE DEF set
  <2> QED
    BY <2>2, <2>3, <2>4, <2>5, <2>6 DEF VariablesFollow, set
<1> QED
  BY <1>1, <1>2, <1>3, DerivedNext, PTL DEF ComponentsSpec
===============================================================================
