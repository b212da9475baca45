------------------------------- MODULE Components -------------------------------
(***************************************************************************)
(* What a commit does for the components of packages (commit.cc, with      *)
(* component_update.cc): the places that were chosen for them become paths *)
(* in the table, before the packages are unpacked, and afterwards they are *)
(* added to the lists of applications that are booted, run and shown.      *)
(* Between these the variables and sprites of packages are brought up to   *)
(* date with the table.                                                    *)
(* The front end chooses, in a file that the commit removes when it is     *)
(* done.  Unpacking is one step here; Unpack says what it is made of.      *)
(*                                                                         *)
(* A component has a logical path of its own, and stands for the package   *)
(* that brings it.                                                         *)
(***************************************************************************)
EXTENDS BootOptions, Variables

CONSTANTS
  Comp,         \* logical paths of components
  Movable,      \* those with the flag Movable in the control record
  Choice,       \* [name, flags, path]: what may be chosen; the path <<>> is the default one
  Plans,        \* <<components to install, components to remove, set of choices>>
  InitialPaths, \* tables
  Desktop,      \* texts of the file with the lists LookAt and Run
  PreDesktop,   \* texts of the file with the list AddToApps
  NoFile,
  SysvarFiles,  \* [Comp -> its files in SysVars: [name, type, text]]
  SpriteFiles,  \* [Comp -> its files in Sprites: [name, text]]
  SpriteSuffixes,     \* the suffixes with which an application on the disc has its sprites
  Faults,       \* what may go wrong
  MaxFaults,    \* bound: how often
  MaxSessions   \* bound: commits

Lists == {LookAt, Run, AddToApps}

\* The states of a commit that are not the name of a list.
Step == {"none", "paths", "alter", "packages", "update_sysvars", "update_sprites", "options",
         "boot", "run", "add", "clear", "done", "fail"}

Component == [name : Comp, flags : SUBSET Lists, path : Seq(Leaf)]

ASSUME ComponentsAssumption ==
  /\ Movable \subseteq Comp /\ Cardinality(Lists) = 3 /\ Lists \cap Step = {}
  /\ Choice \subseteq Component /\ NoFile \notin Seq(Component)
  /\ \A p \in Plans : /\ p[1] \cup p[2] \subseteq Comp
                     /\ p[3] \subseteq Choice /\ IsFiniteSet(p[3])
  /\ MaxFaults \in Nat /\ MaxSessions \in Nat

\* The file of a variable has the name of the variable, so that there is one, and unpacking
\* refuses a package with a file that another package has.
ASSUME SysvarFilesAssumption ==
  \A b, c \in Comp : \A f \in SysvarFiles[b], g \in SysvarFiles[c] : f.name = g.name => f = g

VARIABLES
  pathsFile,   \* the table on the disc; TableFile says how it is kept
  paths,       \* the table in memory
  choices,     \* the file of choices: a sequence of them, or NoFile
  backup,      \* its backup
  bootFile,    \* ["Desktop", "PreDesktop" -> a text or NoFile]
  setvars,     \* the file that sets the variables: the set of its one text, or of none
  sprites,     \* the three sprite files
  objects,     \* where there is a component on the disc
  installed,   \* components of the installed packages
  state,       \* commit::_state, with the steps of a handler that edits several files
  plan,        \* <<components to install, components to remove>>
  update,      \* the component_update of the handler that runs
  at,          \* the next component of its loop
  changed,     \* paths_updated
  modified,    \* paths_modified
  toRemove,    \* _components_to_remove
  files,       \* [list -> _files_to_boot, _files_to_run or _files_to_add_to_apps]
  warned,      \* whether there has been a warning
  faults, sessions

derived   == <<setvars, sprites>>
discVars  == <<pathsFile, choices, backup, bootFile, derived, objects, installed>>
loopVars  == <<update, at, changed, modified>>
optVars   == <<toRemove, files, warned>>
counters  == <<faults, sessions>>
vars == <<discVars, paths, state, plan, loopVars, optVars, counters>>

Fault(f) == f \in Faults /\ faults < MaxFaults /\ faults' = faults + 1

Place(table, c) == Lookup(table, c, "")

-------------------------------------------------------------------------------
(* The file of choices.                                                    *)

\* rollback(): without the file, its backup is read.
ReadChoices == IF choices # NoFile THEN choices ELSE IF backup # NoFile THEN backup ELSE <<>>

\* insert(), for one choice or none for each name, in any order: what is chosen for a
\* component again replaces what was there, and what is new comes last.
Inserted(table, new) ==
  LET named(x)  == {c \in new : c.name = x}
      others    == {c \in new : ~\E i \in DOMAIN table : table[i].name = c.name}
      renewed   == [i \in DOMAIN table |-> IF named(table[i].name) = {} THEN table[i]
                                           ELSE CHOOSE c \in new : c.name = table[i].name]
  IN  {renewed \o order : order \in SetToSeqs(others)}

\* component_update::commit(), which may be cut off before the backup has been made,
\* between the two moves, or before the backup has been deleted.
CommitChoices(table) ==
  \/ choices' = table /\ backup' = NoFile /\ UNCHANGED faults
  \/ Fault("choices") /\ UNCHANGED <<choices, backup>>
  \/ choices # NoFile /\ Fault("choices") /\ choices' = NoFile /\ backup' = choices
  \/ /\ Fault("choices")
     /\ choices' = table
     /\ backup' = IF choices # NoFile THEN choices ELSE backup

\* The front end notes what the user chooses, and commits.
Begin ==
  /\ state \in {"none", "done", "fail"} /\ sessions < MaxSessions
  /\ sessions' = sessions + 1
  /\ \E p \in Plans :
       /\ p[1] \cap installed = {} /\ p[2] \subseteq installed
       /\ plan' = <<p[1], p[2]>>
       /\ IF p[3] = {} THEN UNCHANGED <<choices, backup, faults>>
          ELSE \E table \in Inserted(ReadChoices, p[3]) : CommitChoices(table)
  /\ state' = "paths"
  /\ toRemove' = {} /\ files' = [l \in Lists |-> {}] /\ warned' = FALSE
  /\ UNCHANGED <<pathsFile, bootFile, derived, objects, installed, paths, loopVars>>

-------------------------------------------------------------------------------
(* state_paths: one step for each component of each pass.                  *)

\* _packages_to_process has a package.  Without one all that state_paths does is left
\* out, the choices too.
Processing == plan[1] \cup plan[2] # {}

SkipPaths ==
  /\ state = "paths" /\ ~Processing /\ state' = "packages"
  /\ UNCHANGED <<discVars, paths, plan, loopVars, optVars, counters>>

\* The places of the movable components that go, and the choices.
StartPaths ==
  /\ state = "paths" /\ Processing /\ state' = "alter"
  /\ LET gone == {Place(paths, c) : c \in plan[2] \cap Movable}
     IN  toRemove' = gone \ {NoPath} /\ warned' = (NoPath \in gone)
  /\ update' = ReadChoices /\ at' = 1 /\ changed' = FALSE /\ modified' = FALSE
  /\ UNCHANGED <<discVars, paths, plan, files, counters>>

\* path_table::commit() and rollback(), which TableFile says how they are done.
CommitPaths   == pathsFile' = paths
RollbackPaths == paths' = pathsFile

PathsFail ==
  /\ state' = "fail" /\ RollbackPaths
  /\ UNCHANGED <<discVars, plan, loopVars, optVars>>

AlterPath_AsGiven ==
  /\ state = "alter" /\ at \in DOMAIN update
  /\ LET c   == update[at]
         new == BootDriveRelative(Canonicalise(c.path))
     IN  IF c.path # <<>> /\ Place(paths, c.name) # new
         THEN /\ paths' = Altered(paths, c.name, new)
              /\ changed' = TRUE /\ modified' = TRUE
         ELSE UNCHANGED <<paths, changed, modified>>
  /\ at' = at + 1
  /\ UNCHANGED <<discVars, update, state, plan, optVars, counters>>

AlterPath ==
  /\ state = "alter" /\ at \in DOMAIN update
  /\ LET c   == update[at]
         new == Canonicalise(c.path)
     IN  IF c.path # <<>> /\ Place(paths, c.name) = NoPath
         THEN PathsFail /\ UNCHANGED faults
         ELSE /\ IF c.path # <<>> /\ Place(paths, c.name) # new
                 THEN /\ paths' = Altered(paths, c.name, BootDriveRelative(new))
                      /\ update' = [update EXCEPT ![at].path = BootDriveRelative(new)]
                      /\ changed' = TRUE /\ modified' = TRUE
                 ELSE UNCHANGED <<paths, update, changed, modified>>
              /\ at' = at + 1
              /\ UNCHANGED <<discVars, state, plan, optVars, faults>>
  /\ UNCHANGED sessions

NextPass ==
  /\ state = "alter" /\ at \notin DOMAIN update /\ changed
  /\ at' = 1 /\ changed' = FALSE
  /\ UNCHANGED <<discVars, paths, state, plan, update, modified, optVars, counters>>

PathsDone_NoCommit ==
  /\ state = "alter" /\ at \notin DOMAIN update /\ ~changed
  /\ state' = "packages"
  /\ UNCHANGED <<discVars, paths, plan, loopVars, optVars, counters>>

PathsDone ==
  /\ state = "alter" /\ at \notin DOMAIN update /\ ~changed
  /\ \/ /\ state' = "packages"
        /\ IF modified THEN CommitPaths ELSE UNCHANGED pathsFile
        /\ UNCHANGED <<choices, backup, bootFile, derived, objects, installed, paths, plan,
                       loopVars, optVars, faults>>
     \/ modified /\ Fault("paths") /\ PathsFail
  /\ UNCHANGED sessions

-------------------------------------------------------------------------------
(* The packages.                                                           *)

PackagesFail ==
  /\ state = "packages" /\ Fault("packages")
  /\ state' = "fail"
  /\ UNCHANGED <<discVars, paths, plan, loopVars, optVars, sessions>>

\* The files of a package that is installed are where the table says, and those of
\* one that is removed are gone from there.
Packages ==
  /\ state = "packages"
  /\ LET into == {Place(paths, c) : c \in plan[1]}
     IN  IF NoPath \in into THEN state' = "fail" /\ UNCHANGED <<objects, installed>>
         ELSE /\ state' = "update_sysvars"
              /\ objects' = (objects \ {Place(paths, c) : c \in plan[2]}) \cup into
              /\ installed' = (installed \ plan[2]) \cup plan[1]
  /\ UNCHANGED <<pathsFile, choices, backup, bootFile, derived, paths, plan, loopVars, optVars,
                 counters>>

-------------------------------------------------------------------------------
(* state_update_sysvars and state_update_sprites.  An exception in them    *)
(* leaves poll(), and the next one finds the same state: a text with a     *)
(* reference that has no place keeps the commit here for ever.             *)

PackageSysvars == UNION {SysvarFiles[c] : c \in installed}
PackageSprites == UNION {SpriteFiles[c] : c \in installed}

SysvarsUpdated_Added ==
  /\ state = "update_sysvars" /\ ~Unresolved(paths, {f \in PackageSysvars : Static(f)})
  /\ state' = "update_sprites"
  /\ LET new == SysvarsFile(paths, PackageSysvars, {})
     IN  setvars' = IF setvars = {} THEN {new}
                    ELSE {[new EXCEPT !.values = @ @@ old.values] : old \in setvars}
  /\ UNCHANGED <<pathsFile, choices, backup, bootFile, sprites, objects, installed, paths, plan,
                 loopVars, optVars, counters>>

SysvarsUpdated ==
  /\ state = "update_sysvars" /\ ~Unresolved(paths, {f \in PackageSysvars : Static(f)})
  /\ \/ /\ state' = "update_sprites"
        /\ \E failing \in SUBSET {f \in PackageSysvars : Dynamic(f)} :
             setvars' = {SysvarsFile(paths, PackageSysvars, failing)}
        /\ UNCHANGED faults
     \/ Fault("sysvars") /\ setvars' = {} /\ UNCHANGED state
  /\ UNCHANGED <<pathsFile, choices, backup, bootFile, sprites, objects, installed, paths, plan,
                 loopVars, optVars, sessions>>

SpritesUpdated ==
  /\ state = "update_sprites" /\ ~Unresolved(paths, PackageSprites)
  /\ state' = "options"
  /\ sprites' = SpritePool(paths, PackageSprites,
                           {<<<<[path |-> o]>>, x>> : o \in objects, x \in SpriteSuffixes})
  /\ UNCHANGED <<pathsFile, choices, backup, bootFile, setvars, objects, installed, paths, plan,
                 loopVars, optVars, counters>>

-------------------------------------------------------------------------------
(* state_update_boot_options: one step for each file that is committed.    *)

FileOf(list) == IF list = AddToApps THEN "PreDesktop" ELSE "Desktop"
NextList(list) == CASE list = LookAt -> Run [] list = Run -> AddToApps
                    [] list = AddToApps -> "boot"

\* The choices are read again.  Places of components that are not there are passed over.  When the table has no
\* place for one, the components after it are passed over, and all the files.
BuildOptions ==
  /\ state = "options"
  /\ LET new   == ReadChoices
         bad   == {i \in DOMAIN new : Place(paths, new[i].name) = NoPath}
         upTo  == IF bad = {} THEN DOMAIN new ELSE 1..Min(bad) - 1
         there == {i \in upTo : Place(paths, new[i].name) \in objects}
     IN  /\ toRemove' = toRemove \ {Place(paths, new[i].name) : i \in there}
         /\ files' = [l \in Lists |->
                        {Place(paths, new[i].name) : i \in {j \in there : l \in new[j].flags}}]
         /\ warned' = (warned \/ there # DOMAIN new)
         /\ state' = IF bad = {} THEN LookAt ELSE "boot"
         /\ update' = new
  /\ UNCHANGED <<discVars, paths, plan, at, changed, modified, counters>>

\* An exception while a list is edited passes the other lists over.
OptionsFail == state' = "boot" /\ warned' = TRUE

\* One list: its file is read, edited and committed.  The commit may fail before it has
\* moved the file out of the way, or after.
EditOptions ==
  /\ state \in Lists
  /\ LET list == state
         file == FileOf(list)
         text == bootFile[file]
     IN  IF files[list] = {} /\ toRemove = {}
         THEN state' = NextList(list) /\ UNCHANGED <<bootFile, files, warned, faults>>
         ELSE IF text = NoFile
         THEN OptionsFail /\ UNCHANGED <<bootFile, files, faults>>
         ELSE \E parsed \in {ParseSection(text, list)} :
              \E apps \in {With(Without(parsed.apps, toRemove), files[list])} :
                /\ files' = IF list # Run THEN files
                            ELSE [files EXCEPT ![LookAt] = @ \cup files[Run]]
                /\ \/ /\ state' = NextList(list)
                      /\ bootFile' =
                           IF apps = parsed.apps THEN bootFile
                           ELSE [bootFile EXCEPT ![file] = WrittenText(text, list, parsed, apps)]
                      /\ UNCHANGED <<warned, faults>>
                   \/ /\ apps # parsed.apps /\ Fault("options") /\ OptionsFail
                      /\ bootFile' \in {bootFile, [bootFile EXCEPT ![file] = NoFile]}
  /\ UNCHANGED <<pathsFile, choices, backup, derived, objects, installed, paths, plan, loopVars,
                 toRemove, sessions>>

-------------------------------------------------------------------------------
(* The applications are booted, run and added, one in each poll; then the  *)
(* file of choices goes.                                                   *)

Launch(from, list, to) ==
  /\ state = from
  /\ \/ \E f \in files[list] :
          /\ files' = [files EXCEPT ![list] = @ \ {f}]
          /\ UNCHANGED state
     \/ files[list] = {} /\ state' = to /\ UNCHANGED files
  /\ UNCHANGED <<discVars, paths, plan, loopVars, toRemove, warned, counters>>

BootFiles == Launch("boot", LookAt, "run")
RunFiles  == Launch("run", Run, "add")
AddFiles  == Launch("add", AddToApps, "clear")

\* Of the failures there is a warning when the file cannot be looked for, and none when
\* it cannot be deleted.
UpdateDone ==
  /\ state = "clear" /\ state' = "done"
  /\ \/ choices' = NoFile /\ UNCHANGED <<warned, faults>>
     \/ choices # NoFile /\ Fault("done") /\ warned' \in {warned, TRUE} /\ UNCHANGED choices
  /\ UNCHANGED <<pathsFile, backup, bootFile, derived, objects, installed, paths, plan, loopVars,
                 toRemove, files, sessions>>

Crash ==
  /\ state \notin {"none", "done", "fail"} /\ Fault("crash")
  /\ state' = "none" /\ paths' = pathsFile
  /\ plan' = <<{}, {}>> /\ toRemove' = {} /\ files' = [l \in Lists |-> {}]
  /\ UNCHANGED <<discVars, loopVars, warned, sessions>>

-------------------------------------------------------------------------------
Init ==
  /\ pathsFile \in InitialPaths /\ paths = pathsFile
  /\ choices = NoFile /\ backup = NoFile
  /\ \E d \in Desktop, e \in PreDesktop : bootFile = [Desktop |-> d, PreDesktop |-> e]
  /\ setvars = {} /\ sprites = [i \in DOMAIN SuffixList |-> {}]
  /\ objects = {} /\ installed = {}
  /\ state = "none" /\ plan = <<{}, {}>>
  /\ update = <<>> /\ at = 1 /\ changed = FALSE /\ modified = FALSE
  /\ toRemove = {} /\ files = [l \in Lists |-> {}] /\ warned = FALSE
  /\ faults = 0 /\ sessions = 0

Passes == AlterPath \/ NextPass \/ PathsDone

Next == \/ Begin \/ SkipPaths \/ StartPaths \/ Passes \/ Packages \/ PackagesFail
        \/ SysvarsUpdated \/ SpritesUpdated \/ BuildOptions \/ EditOptions \/ BootFiles
        \/ RunFiles \/ AddFiles \/ UpdateDone \/ Crash

\* The passes are loops of one poll, which has no way out but their end.
ComponentsSpec == Init /\ [][Next]_vars /\ WF_vars(Passes)

-------------------------------------------------------------------------------
Apps(list) == ParseSection(bootFile[FileOf(list)], list).apps

\* When a commit is done and has not warned, the lists say what was chosen: each
\* component that was chosen for a list is in it, at its place, and a movable component
\* that has been removed is in none.
OptionsFollow ==
  state = "done" /\ ~warned =>
    /\ \A i \in DOMAIN update : \A l \in update[i].flags :
         HasApp(Apps(l), Place(paths, update[i].name))
    /\ \A c \in plan[2] \cap Movable, l \in Lists :
         /\ ~\E i \in DOMAIN update : update[i].name = c
         /\ bootFile[FileOf(l)] # NoFile
         => ~HasApp(Apps(l), Place(paths, c))

\* The lines of a text that are not this program's: neither blank nor the entries,
\* header and end of one of its sections.
InSection(text, i, list) ==
  \E h \in 1..i - 1 : /\ text.lines[h] = Start(Section[list])
                      /\ \A j \in h + 1..i - 1 : text.lines[j] # End /\ ~IsStart(text.lines[j])

Own(text, i) ==
  LET line == text.lines[i]
  IN  \/ line = Blank
      \/ \E l \in Lists :
           \/ line = Start(Section[l])
           \/ /\ InSection(text, i, l)
              /\ line = End \/ (IsEntry(line) /\ line.command \in {Command[l], Command2[l]})

Others(text) ==
  LET kept == SelectSeq([i \in DOMAIN text.lines |-> i], LAMBDA i : ~Own(text, i))
  IN  [k \in DOMAIN kept |-> text.lines[kept[k]]]

\* Whether another section begins where one of this program's should have ended.
CutShort(text) ==
  \E l \in Lists : LET s == FindSection(text, Section[l])
                  IN  /\ s # 0 /\ FindSectionEnd(text, s) = 0
                      /\ \E i \in s + 1..Len(text.lines) : IsStart(text.lines[i])

\* Whatever a commit does to a boot option file, the lines of the user and of other
\* programs stay in it, in their order (boot_options_file.cc:229, 435), unless a section
\* is cut short: what comes after it is then lost.
OthersKept ==
  [][\A f \in DOMAIN bootFile :
       bootFile'[f] \notin {bootFile[f], NoFile} /\ ~CutShort(bootFile[f]) =>
         Others(bootFile'[f]) = Others(bootFile[f])]_vars

\* The place that was chosen for c is the one in a table of paths.
InPlace(table, c) == c.path # <<>> => Place(table, c.name) = Canonicalise(c.path)

\* A commit that has packages to process does not remove the choices, other than to
\* their backup, before every place that was chosen is in the table on the disc, whatever
\* crashes and failures came between.
ChoicesApplied ==
  [][Processing /\ choices # NoFile /\ choices' = NoFile /\ backup' # choices =>
       \A i \in DOMAIN choices : InPlace(pathsFile, choices[i])]_vars

\* When a commit is done, the file that sets the variables has for every text file of
\* the installed packages its text, with the components it names where they are now, and
\* none for the files that have gone; and the sprites are those of applications that are
\* on the disc (commit.cc:445-467).  (The variables that are set already are left.)
VariablesFollow ==
  state = "done" =>
    /\ \E set \in setvars :
         /\ set.apps = Place(paths, <<"Apps">>)
         /\ \A f \in PackageSysvars :
              f.type = "text" => set.values[f.name] = Resolved(pathsFile, f.text)
         /\ DOMAIN set.values \subseteq {f.name : f \in PackageSysvars}
    /\ \A i \in DOMAIN sprites : \A sp \in sprites[i] :
         \E o \in objects : sp[2] = <<[path |-> o]>>

\* A commit that is done without a warning leaves no choices to be applied again
\* (component_update.h:116, commit.cc:628-641).
ChoicesGone == state = "done" /\ ~warned => ReadChoices = <<>>

\* The passes of state_paths come to an end: a change of a path may alter the default
\* place of another component, but not for ever (commit.cc:135-136).
PassesEnd == state = "alter" ~> state # "alter"
===============================================================================
