# LibPkg in TLA+

LibPkg is the RISC OS package manager library: a front end asks it to install,
upgrade and remove packages, and it downloads archives, unpacks them, moves
files into place, runs the packages' triggers and keeps a database of what is
installed.  Everything runs in one thread: an operation is an object with a
`poll()` that the front end calls again and again, each call doing one small
step.  What is hard is not concurrency but that *every* step may fail and the
machine may stop between any two of them, with the disc half changed.

Paths below are relative to `!LibPkg/libpkg/`.

## The system

| Part | State | Operations | What makes it correct |
|---|---|---|---|
| `status`, `status_table` | state, flags, version and environment of every package; `Status`, `Status++`, `Status--` on disc | insert, clear, `commit`, `rollback` | a commit is all or nothing, whatever fails and whenever the machine stops |
| `unpack` | `_state`, about twenty sets of packages, files and directories; files at their destinations, in `~RiscPkg++` and `~RiscPkg--`; the manifests | `poll`, one of 19 working states at a time | nothing is lost before the point of no return; the status table never claims what is not on the disc; it ends, with the selected or with the previous packages |
| `commit` | `_state`, packages to process, download, unpack, configure, purge; files to boot | `poll` | packages reach the selected state or fail as a whole; nothing is unpacked from an unverified archive; paths, variables and boot files follow |
| `triggers`, `trigger` | queues of triggers to run and to unwind; one running trigger | `next_...`, `trigger_finished`, `trigger_start_failed` | each trigger that has run is unwound once, in the right order |
| `pkgbase` | the tables; selected, current and previous statuses | the start of a program, `fix_dependencies`, `remove_auto`, `verify_cached_file` | resolving ends; what is selected in the end has its dependencies; an old database is upgraded |
| `download`, `update`, `source_table` | transfers, lists of the sources, `Available` | `poll`, callbacks | after an update the catalogue is that of all sources, the first one first, and of what is installed |
| `binary_control_table`, `env_packages_table`, `env_checker`, `table` | control records; the best record of each package for this machine; shared checks; numbers of modules | `update`, `rebuild`, overrides, watchers | the best records follow the tables and the checks they are computed from |
| `path_table`, `component`, `component_update` | logical to physical paths; the file of choices | `alter`, `operator()`, `commit`, `rollback`, `done` | a chosen place gets into the table before the choice goes; the passes over the choices end |
| `boot_options_file` | the sections of `Desktop` and `PreDesktop` | `add`, `remove`, `commit` | what is chosen is listed, what has gone is not, and the lines of others stay |
| `sysvars`, `sprite_file`, `sprite_pool` | the file that sets the variables, three sprite files | `update_sysvars`, `update_sprite_pool` | they agree with what is installed and where |
| `version`, `dependency`, `control` | none | compare, match, parse | versions are totally ordered, in the order of the policy |
| `zipfile`, `md5`, `log`, `uri`, `os`, `auto_dir` | none of interest | formats and wrappers | |

`commit` makes and polls one `unpack`, which reads the selected and previous
statuses from `pkgbase`, changes the current ones, and makes the `triggers`,
which `commit` takes over when the unpacking has ended.  The front end runs a
trigger as a task and calls the trigger back.  `commit` itself carries out the
choices of `component_update` in the `path_table` before it unpacks, and edits
the boot option files, the variables and the sprites after it.  An `update` writes
`Available` and has `binary_control_table` read it again; that table and the
`env_checker` notify `env_packages_table`, which is computed from both.

## The modules

| Module | What it is |
|---|---|
| `DurableValue` | abstract: a value that is edited in memory and committed as a whole |
| `TableFile` | `status_table` with its three files, one file operation a step |
| `TableFile_proofs` | its theorems |
| `PkgStatus` | the statuses, and what a change from one to another requires |
| `Unpack` | the unpack thread over the files, the manifests and the status table |
| `Unpack_proofs` | its theorems: the types; the status file while the disc is changed; nothing is lost |
| `UnpackOutcome_proofs` | its theorems: how a session leaves the statuses and the files |
| `Triggers` | the queues of triggers, what is to be unwound, and the trigger at work: operations only |
| `Commit` | a whole operation: downloads, `Unpack` with its triggers in single steps, configuring, purging, the last triggers |
| `Commit_proofs` | its theorems: no archive is opened before it is verified, and triggers are run in order |
| `CommitOutcome_proofs` | its theorems: how an operation leaves the packages, their files and the copies of triggers; which triggers it has run, and what they found |
| `Dependencies` | `fix_dependencies` and `remove_auto` of `pkgbase` over the selected statuses, one decision a step |
| `Dependencies_proofs` | its theorems: types, flags and the seed set; the dependencies are met; what is left alone and what `remove_auto` leaves |
| `Versions` | parsing, validating, writing and comparing versions: operators only, and the order that the policy asks for |
| `Environments` | the environment checker: checks, environments, module numbers, overrides: operations only |
| `ControlTable` | keys of records, reading the table, the best records: operations only |
| `Update` | a running program and its catalogue: the start, the update thread, installing, overrides, stops |
| `Update_proofs` | its theorems: versions are ordered; what is cached is never stale; which records the catalogue has; identifiers are unique; what is installed stays known |
| `PathTable` | lookup, references, defaults and changes of the table of paths: operators only |
| `BootOptions` | finding, parsing, editing and writing the sections of a boot option file: operators only |
| `Variables` | what variables are set to and which sprites are copied: operators only |
| `Components` | the other half of `commit`: the choices, the passes over them, the packages in one step, variables, sprites and boot options |
| `Components_proofs` | its theorems: the choices are applied before they go; the variables and sprites follow |
| `MCUnpack`, `MCModules`, `MCCommit`, `MCDependencies`, `MCUpdate`, `MCComponents` | the instances that TLC checks |

`Commit` and `Components` are the two halves of `commit.cc`.  They meet at the
states between `paths` and `purge`: each has the half of the other as a step that
may fail.  `Update` and `Commit` meet in the same way at `Install` and `Uninstall`,
which change the status and the control file of a package at once.

### TableFile

`dst`, `tmp` and `bak` are `<file>`, `<file>++` and `<file>--`; `mem` is
`_data`.  `Commit`, `Write`, `Unlink`, `Backup`, `Activate` and `Cleanup` are
the file operations of `status_table::commit()` in order, each of which may
report an error where the code looks for one.  `Restart` may happen at any
step: what is in memory is read again by `Stored`, which is `rollback()`.
`Init` is any disc, not only one that a commit left.

### Unpack

One action is one branch of `unpack::_poll()`: one file, one directory, one
package or the move to the next state.  An exception ends the poll and the
handler in `unpack::poll()` runs in the same poll: `Throw` (status table rolled
back, state to unwind to) and `ThrowPre` (the same in the first two states).
`Begin` is the constructors of `commit` and `unpack` (`Select` and `NewUnpack`), `Finish` the end of the
object, `Crash` a stop of the machine between two polls.

The actions have the names of the states: `PreUnpack...`, `PreRemove...`,
`CopyPostRemove`, `RunPreRemoveTriggers`, `RemoveFilesReplacedByDirs`,
`Unpack...`, `RunPreInstallTriggers`, `Replace...`, `Remove...`,
`PostRemove...`, `CreateEmptyDir...`, `PostUnpack...`, `Unwind...`; `...Done` is
the branch that goes to the next state.  A variable has the name of its member
without the underscore.

What is abstracted, and why it may be:

* A file is named by its destination.  `dst`, `tmp` and `bak` say what is at
  that name, in `~RiscPkg++` and in `~RiscPkg--`: a version of a package's
  file, or a file of unknown origin.
* An operation that reports its failure fails alone: two kinds of failure do not meet in
  one poll.  `force_delete()` and `soft_delete()` report nothing
  (`filesystem.cc:40-71`), so a delete that fails is a step that goes on as if it had not
  and leaves the file, the directory, the manifest, the backup or the copy of a script where it was
  (fault `delete`).  Of the deletes of one poll any number may fail.  What is left is in the way of
  later moves that may not overwrite it.
* The machine stops between polls only.  Within a poll the code does at most a
  few file operations in a row; a stop after some of them leaves the disc as an
  exception at the same place does, and a stop after that exception is in the
  model, because what the handler itself changes is only in memory (and in the
  temporary files of existing modules).
* A commit of the status table is one step: `TableFile` shows that it is.
* `version` stands for the pair of version and environment, which the code
  compares together.
* A manifest file that does not exist and an empty one are the same, as they
  are to `read_manifest`.
* The triggers of a state are one verdict; `Commit` has them one by one.
* The sets are processed in any order.  The code takes the first in string
  order, which is one of them.
* A path is a file or an (empty) directory for good, so the two states that
  move files out of the way of directories have nothing to do.
* Parent directories, progress counters, messages and logs are left out.

`faults` bounds how many operations fail, `failed` records which kinds have.
The kinds are named at `FaultKind`; a run lists those it allows.  `orig` and
`committed` are history variables: the files when the session began, and
whether it has passed the point of no return.

### Triggers and Commit

`Triggers` has the members of `triggers` as sets of packages: `preInstall` is
`_pre_install`, and so on; `hasInstallUnwind` and `hasRemoveUnwind` are the
packages whose `trigger_info` has the flag.  Its operations are the functions
of `triggers.cc` and are called from the actions of `Commit`.  A package's
scripts are files of `Unpack`, so that `Found` can look for a script where
`trigger::trigger_path()` does: at its destination, in `~RiscPkg++`, or among
the copies in `PRTriggers` (`saved`).  `ran` records every trigger that is run
with the version of the script that was found, 0 for none.

`Commit` extends `Unpack`.  Its actions are the polls of the two objects and
what comes from outside:

* `CommitPoll`: the states of `commit::poll()`.  `UnpackBegin` makes the unpack
  object by `NewUnpack`; `UnpackEnded` takes over the triggers; `UnpackFailed`
  drops them.
* `UnpackPoll`: the polls of `unpack`.  `FilePoll` lists those of `Unpack` that
  have nothing to do with triggers.  Where `Unpack` has the verdict on a state
  (`RunPreInstallTriggers`), `Commit` has a step for each trigger
  (`PreInstallTrigger`) and uses one side of the verdict when the last has
  succeeded or one has failed.
* `DownloadEnds`: a transfer brings the archive, brings something else, or
  fails.  `cached` is the set of packages whose archive `verify_cached_file()`
  would accept; any set may be in the cache at first.
* `TriggerCallback`: `trigger_finished()` or `trigger_start_failed()`.  A script
  that is not there cannot be started.
* `CommitCrash`: both objects and the queues are lost; the files, the cache and
  the copies stay.

What is abstracted, besides what `Unpack` abstracts: the packages of an
operation are all packages; changing component paths is a step that succeeds or
fails (`Components` has the passes); system variables, sprites and boot files are steps that change nothing
modelled here (their errors are warnings, or end the poll, which is repeated;
`Components` has them); environment variables of triggers; a front end that runs
no triggers.

### Dependencies

Before an operation the front end edits the selected statuses and calls
`fix_dependencies(seed)` and `remove_auto()`, which make the selection consistent.
Both are loops over the selected status table that set flags in it while they
read it, so `Dependencies` has one step for each decision:

| Code (`pkgbase.cc`) | Actions |
|---|---|
| the flags cleared, the seed set protected (210-240) | `FixDependencies(seed)` |
| `while (_changed)` (241-245) | `Round` |
| the tests of one package (247-305) | `Visit`, `TryBest`, `Reject`, `Check` |
| the dependencies of a record, applied one by one (405-428) | `ApplyNext`; the list is finished in `CurrentApplied`, `BestApplied`, `NeededApplied` |
| the flags applied (308-346) | `ApplyFlags` |
| `remove_auto` (348-396) | `RemoveAuto`, `Sweep`, `Scan`, `Drop` |

`Resolve` and `ResolveAny` are the two functions `resolve`; `Fixable` is
`fix_dependencies(ctrl, allow_new, false)`; `EnsureInstalled` and `EnsureRemoved` are
`ensure_installed` and `ensure_removed`.  `mustInstall`, `mustRemove` and
`mustUpgrade` are the packages with each internal flag, and `best` is the table
that `env_packages_table::rebuild()` leaves.

What is abstracted: a package is its position in the table; a version is a number;
a dependency list is parsed already; a package without an entry reads as one with
the default status, so the table has an entry for every package; nobody else
changes the tables in the meantime, since both functions return before anything
else runs in their thread.  `before` is a history variable, the selection when
the operation began.

### Versions, Environments, ControlTable and Update

`Versions` takes a string to be a sequence of ASCII codes, since what the
comparison does depends on each of them.  `Cmp` is `compare()` with its three parts.
`cmp_verstr` walks two strings together, a run of other characters and a run of digits in
turn, and returns the first difference; `CmpVerstr` says that in one formula: `Segments` are
the runs of a string, `CmpPair` compares the runs that are the `n`th of each (`Nth`, with
empty ones after the last), and the result is that of the first pair that differs.
`Older` is written from the policy that
`version.h` names, as an order of lists of numbers, and shares nothing with `Cmp`
but where the runs of digits are.  `Environments` is the object `env_checker`, a record that its
operations take and return: `checks` and `moduleChecks` hold what was detected
and what counts, `environments` the cached verdict on each set of checks,
`moduleIds` and `nextId` the numbers.  `CheckId` is the part of a key that a check is written as:
a letter, or a letter and a number.  `Priority` adds the weights of the
checks that count, as the size of a disjoint union.  `ControlTable` has what `binary_control_table` and
`env_packages_table` compute from it.

| Code | Actions of `Update` |
|---|---|
| `pkgbase::pkgbase()`, `update_status_table()` (`pkgbase.cc` 52-76, 543-583) | `Start` |
| the first `env_packages()` | `EnvPackages` |
| `override_environment`, `clear_environment_overrides` | `OverrideEnvironment`, `ClearEnvironmentOverrides` |
| `state_srclist`, `poll_download` | `ReadSources`, `NextDownload`, `Downloaded`, `DownloadFailed`, `DownloadsDone` |
| `message_callback` | `TransferEnds` |
| `build_source_list`, `build_local_list` (`state_build_...`) | `BuildSource`, `SourcesBuilt`, `BuildLocal` |
| an operation that has ended | `Install`, `Uninstall` |
| the end of the program, or of the machine | `Stop` |

`Stop` may leave the machine with other hardware and other modules, as a disc that is
put in another machine does, and of a file that is open a beginning.  What is
abstracted: a control record is its package, version, names of environments and
modules, priority, and origin; module numbers are given in any order within one
operation; the estimate of progress; the user's editing of the list of sources
while the program runs.

The assumptions name what may be met.  A source serves sequences of records
(`Record`) of its own (`RecordsAssumption`); the file of module numbers gives different modules
different numbers (`IsNumbering`), which is how it was written.  `InstalledAssumption` is
about the disc on which the first program starts: the statuses are those of the packages' own
control files.  The statuses of a database of version 1 have no environment (read as `u`,
`status.cc:232`), and there the catalogue must not have a record of the same version for
another environment; if it had one, the upgrade of the database might choose it.

### PathTable, BootOptions, Variables and Components

A path is a sequence of leaf names, so that prefixes are prefixes; a table is a
function, since a later line for a source overrules an earlier one; a text of a boot
option file is a sequence of lines, of which the starts and ends of sections and
the entries are told apart, and whether the last line is ended matters, as it does to the code.

| Code | Actions of `Components` |
|---|---|
| the front end's `component_update`, then `commit::commit` | `Begin` (`Inserted`, `CommitChoices`) |
| `state_paths` (`commit.cc` 84-187) | `SkipPaths` without packages to process (line 86), or `StartPaths`, `AlterPath`, `NextPass`, `PathsDone` |
| all from `pre_download` to `purge` | `Packages`, `PackagesFail` |
| `state_update_sysvars`, `state_update_sprites` | `SysvarsUpdated`, `SpritesUpdated` |
| `state_update_boot_options` | `BuildOptions`, then `EditOptions` for each list |
| `state_boot_files`, `state_run_files`, `state_add_files_to_apps` | `BootFiles`, `RunFiles`, `AddFiles`, `UpdateDone` |

The loop of `state_paths` is inside one poll; it has a step for each component so
that TLC can say that it ends.  `path_table::commit()` has the text of
`status_table::commit()`, so `TableFile` says how it is kept and `CommitPaths` is one
step; `component_update::commit()` has no such protocol and may be cut off between its
moves (`CommitChoices`).  New choices are added in any order (`Inserted`), as the front end
may give them, since the passes go by it.  `done()` deletes the file by `force_delete`, so it may stay
without a warning.  A plan may have no packages (`Processing`): then `state_paths` does nothing,
and the rest of the commit is carried out all the same.  The file that sets the variables is a set with its one text in
it, or empty before there is one, and a file of a variable has the variable's name, so no two of
different packages meet (`SysvarFilesAssumption`: unpacking refuses such a package).  What is abstracted: a component stands for the package that
brings it; `toRemove` and `files` are places, not leaf names of system calls; starting
an application has no effect that is modelled.

## The runs

| Run | What it asks | Instance | States |
|---|---|---|---|
| `table_file` | is a commit all or nothing, and do the three files implement one durable value? | two tables and the empty one; any number of commits, errors and restarts | 534 |
| `unpack` | `FilesRecoverable`, `InstalledIntact`, `NoOrphans`, `HalfUnpackedOnDisk`, `FilesBackedOut`, `StatusBackedOut`, `DoneAsSelected`, `SessionEnds` | one session, two packages in two versions, every combination of current and selected statuses that can be met, a file that moves from one package to the other, stray files in the way, any two failures, deletes that go unnoticed too, or crashes | 218,000 |
| `unpack_again` | `InstalledIntact`, `ModuleServes` and `RemovalSucceeds` over several sessions | three sessions over an ordinary package and one with just a module, which is absent, older, same or newer on the machine; both packages absent at first, or the ordinary one installed; a version that cannot be processed selected beside version 2 of the module; two failures, unnoticed deletes too, or crashes in all | 2,660,000 |
| `commit` | `VerifiedArchives`, `TriggerOrder`, `TriggersFindScripts`, `TriggersUnwound`, `PostTriggersRun`, `CopiesRemoved`, `CommitDone`, `CommitEnds` | two operations over two packages with triggers of all kinds, an upgrade, an installation, a removal and a purge, any cache; two failures (of transfers, triggers and deletes too) or crashes in the first operation, or one by the end of the second | 710,000 |
| `dependencies` | `DependenciesMet`, `SeedKept`, `MetIsLeftAlone`, `NeededIsKept`, `AutoIsNeeded`, `FlagsOnlyRise`, `Returns` | four catalogues of four packages in two versions (alternatives and conflicting demands; a cycle; three environments; a version for another environment), every seed set, every selection of five kinds of status per package (three for one, four for another), `remove_auto` after or without `fix_dependencies` | 558,000 |
| `update` | `BestIsBest`, `InstalledAreKnown`, `SourcesWin`, `IdsIdentify` | two updates, two starts and two changes over six databases (fresh, of version 1 and used, each with and without a catalogue, with the user's sources), two machines, two sources in conflict and one with every pair of eight versions, a list with an invalid version | 641,000 |
| `components` | `OptionsFollow`, `VariablesFollow`, `OthersKept`, `ChoicesApplied`, `PassesEnd` | three commits over three components that can be chosen, moved, installed and removed, one of them inside another, and one without a place; commits with choices and no packages, and two new choices in either order; two tables, five texts of `Desktop` and three of `PreDesktop`; one failure or crash | 933,000 |
| `unpack_no_return`, `unpack_replace_fails`, `unpack_stale_manifest`, `components_alias`, `components_backup` | the five divergences below | as above with some kinds of failure | |

Bounds.  Two packages are enough for a file to change hands and for a session
to fail for one package with the other half done; two versions give upgrade,
downgrade and reinstallation.  Two failures let the unwinding fail as well, and
let a crash hit an unwinding.  Three sessions let what two failed sessions left
be cleared up by the third.  Four packages let a dependency be met through a chain
that an alternative, an upgrade and a removal disturb in different rounds, and
two versions are what the relations can tell apart in one package.  Two updates let the
second find what the first has left half done, and two starts let a stop come between;
eight version strings have an end of segment, a tilde, a letter, a digit and an epoch on
either side of each other.  Three commits let a component be placed, moved and removed,
and let the second meet the choices that a failed first has left.  `MaxFaults` of
`Unpack` and `Commit` is a bound for each session, so that a first session may have two
failures without all pairs in all later ones.

Fairness.  `Spec` has `WF_vars(Poll)` and nothing else: the front end goes on
polling an operation until it has ended (`commit.h`, `thread.h`).  `Begin`,
`Crash` and failures are never assumed to happen.  `CommitSpec` asks the same of
both kinds of poll, and that a transfer and a trigger come to an end: transfers
have a timeout, and `trigger.h` asks the front end to call back when the script
has finished executing.  The status table can be written in the end, because
failures are bounded; the code itself would poll for ever.

`DependenciesSpec` has `WF_vars(Step)`: the loops of `fix_dependencies` and
`remove_auto` run in the thread of their caller, and nothing else runs until they
return.  That a caller calls them is not assumed.  Without bounds on the number
of rounds, `Returns` says that the rounds come to an end, as the comment at
`pkgbase.cc:238` claims.

`ComponentsSpec` has `WF_vars(Passes)`: the passes are a loop inside one call of `poll()`,
which has no way out but their end.  Nothing is assumed of the other steps.
`UpdateSpec` has no fairness, since only safety is asked of it.

Deadlock is not checked in the runs other than `table_file`: when all sessions are
over, or `remove_auto` has returned, nothing is left to do.

## What is proved

The theorems hold for every value of the constants that satisfies the `ASSUME`s
of the module: any packages, files, directories, versions and contents, any
number of sessions and of failures of every kind, crashes included.  The
assumptions are that paths are files or directories, that a control file
belongs to one package and is in no archive's list (`unpack.cc` leaves
`RiscPkg.Control` out when it reads an archive), and that sessions start from
and ask for statuses a consistent table has.

| Theorem | What it says |
|---|---|
| `TableFile_proofs!TypeCorrect` | no partly written file is ever at the table's name or its backup's |
| `TableFile_proofs!CommitCorrect` | a commit that returns has stored the whole table, one that throws has changed nothing |
| `TableFile_proofs!Refinement` | the three files implement `DurableValue` |
| `Unpack_proofs!TypeCorrect` | every variable keeps its type |
| `Unpack_proofs!HalfUnpacked` | `HalfUnpackedOnDisk`: while the disc is being changed, what is changed is half-unpacked in the status file |
| `Unpack_proofs!Recoverable` | `FilesRecoverable`: before the point of no return every file is at its destination or in its backup |
| `UnpackOutcome_proofs!BackedOut` | `StatusBackedOut`: a session that fails before the point of no return leaves the statuses as they were |
| `UnpackOutcome_proofs!LeftAsSelected` | `DoneAsSelected`: a session that ends well leaves the packages as selected, with the manifests of what is installed, and without those of what is not unless one could not be deleted |
| `UnpackOutcome_proofs!ModulesServe` | `ModuleServes`: a package that a module on the machine serves as is there in a version that will do |
| `UnpackOutcome_proofs!InstalledAreIntact` | `InstalledIntact`: what the status file says is installed has its files in place, in its version, at every moment |
| `UnpackOutcome_proofs!FilesAreBackedOut` | `FilesBackedOut`: when the unwinding reaches the statuses, every file that was there is as it was, but at most one that could not be replaced, which is in its backup; and no file is there that was not, unless one could not be deleted |
| `Commit_proofs!Verified` | `VerifiedArchives`: no archive is opened that has not been verified since it was last written |
| `Commit_proofs!Ordered` | `TriggerOrder`: no trigger is run twice in an operation, and each kind is run in its turn |
| `CommitOutcome_proofs!Done` | `CommitDone`: an operation that ends well leaves every package as selected, on the disc |
| `CommitOutcome_proofs!CopiesGo` | `CopiesRemoved`: the copies of triggers are gone when the first operation has ended well or is backed out, unless one could not be deleted |
| `CommitOutcome_proofs!SessionsHold` | the three properties of statuses above hold of the sessions of `Commit` too |
| `CommitOutcome_proofs!OperationsKeepIntact` | `InstalledIntact` holds of operations too |
| `CommitOutcome_proofs!FailureIsUnwound` | `TriggersUnwound`: when an operation is backed out of, exactly what its triggers did is unwound, and by scripts that are found unless a file could not be moved into place |
| `CommitOutcome_proofs!PostTriggersAreRun` | `PostTriggersRun`: an operation that ends well has run the post triggers of what it has removed and installed |
| `CommitOutcome_proofs!ScriptsAreFound` | `TriggersFindScripts`: every trigger that is run finds its script, in the version that it is run for |
| `Dependencies_proofs!TypeCorrect` | every variable of a resolution keeps its type |
| `Dependencies_proofs!FlagsRise` | `FlagsOnlyRise`: no step of a resolution takes back a flag |
| `Dependencies_proofs!SeedIsKept` | `SeedKept`: the seed set is never overridden |
| `Dependencies_proofs!DependenciesAreMet` | `DependenciesMet`: when `fix_dependencies` returns true, every selected package has its dependencies met |
| `Dependencies_proofs!MetStays` | `MetIsLeftAlone`: a selection whose dependencies are met is left as it is |
| `Dependencies_proofs!NeededStays` | `NeededIsKept`: `remove_auto` leaves such a selection with its dependencies met, and takes only automatic packages |
| `Dependencies_proofs!AutoStaysNeeded` | `AutoIsNeeded`: an automatic package that it leaves is named by a dependency of what stays |
| `Components_proofs!ChoicesAreApplied` | `ChoicesApplied`: no commit that has packages to process removes the choices before each of them is in the table of paths on the disc |
| `Components_proofs!RoundTrip` | a place that is written relative to the boot drive and canonicalised again is the same place |
| `Components_proofs!VariablesAreRight` | `VariablesFollow`: at the end of a commit the variables of text files and the sprites are those of the installed packages, where they are now, in the file that sets them |
| `Update_proofs!VersionsOrdered` | the comparison of versions is a total preorder, for strings of any length |
| `Update_proofs!CachesAreFresh` | the cached answer for each environment and the table of best records are what a new look would give |
| `Update_proofs!FirstSourceWins` | `SourcesWin`: the catalogue has the records of all sources, of equal ones the first source's |
| `Update_proofs!NoBetterRecord` | no usable record would replace the one in the table of best records |
| `Update_proofs!IdsAreUnique` | `IdsIdentify`: no two environments that the checker knows have the same identifier |
| `Update_proofs!InstalledStayKnown` | `InstalledAreKnown`: after an update, what is installed has its record in the catalogue |

The theorems of `Dependencies` hold for any number of packages and versions, any
catalogue, any selection and any seed set; the assumptions are that identifiers
of environments are positive numbers (they stand for the order of the keys) and
that the tables to start from have the right types.

The theorem of `Components` holds for any table, any finite sets of choices, any leaf
names and any failures and crashes; the assumptions are that the boot drive's path is
not empty and does not begin with `<Boot$Dir>.^` itself, and that the names of the lists
are not those of other states.

That of the variables also needs that no two of the files that set them have one name.

The theorems of `Commit` have the assumptions of `Unpack`, and those about files and triggers
the hypotheses of `InstalledAreIntact`, which are explained below.  The three about triggers need two more:

* `ModulesHaveNoTriggers`: a package that brings just a module has no triggers.  The code lets it
  have some, as files below `RiscPkg` (`already_installed`, `unpack.cc:1682`); when a module found on
  the machine is then replaced, a pre-remove trigger is queued for a package that was never
  unpacked, and its script is not there.
* `SameScripts`: all versions of a package have the same triggers.  It is asked only of sessions
  after the first.  When an upgrade is backed out of, the merged manifest stays (divergence 3), so a
  script that only the new version had would be queued at a later removal and not found.

`MCCommit` asserts `Consistent` and `ModulesHaveNoTriggers`, so TLC evaluates them.  Those of `Update` hold for any
machines, records, lists and overrides under the assumptions named in
"Versions, Environments, ControlTable and Update" above.  `IdsAreUnique` has a hypothesis of its
own, `NoCollision`: two unknown names are not cut to the same number.  The number is 32 bits
wide, so it cannot hold of all names, and does of those of up to four characters.

None of the invariants is inductive by itself.

* *Types* (`TypeInv`).  What is extracted has the version selected for its
  package, and that is a version only if the package is selected to be
  unpacked; so `SelectedInv` is added: what is in the unpack sets is selected in
  a version that exists.  The constructor's test `unpack_req` gives it.
* *Half-unpacked* (`HalfInv`).  The commit at the end of `pre_remove` writes what
  is in memory, so `HalfUnpackedInMemory` is added for the two states before it.
  After it no poll adds a package to the sets, and the file is written again only
  in the two steps that end a session.
* *Recoverable* (`RecoverInv`).  A backup is overwritten without being looked at,
  and may be left from an earlier session.  What saves the file is that a file is
  moved away at most once in a session: `InPlace` says that a file that no set
  lists as dealt with is where it was at first, and that no file is listed both
  as dealt with and as still to do.  `BackedUp` says that what may be unwound is
  in its backup, which the unwinding needs.  Control files are dealt with before
  all others and for packages, not files, so `ControlsApart` keeps them out of
  the sets of files and of the manifests the sets are made from.

* *Seed* (`SeedInv`).  No state changes until the flags are applied (`StatesKept`),
  and a package of the seed set has the flag that protects it (`SeedFlagged`):
  `ApplyFlags` does nothing to a package with both flags.
* *Dependencies met* (`MetInv`).  What a visit establishes for its package rests on
  flags that later visits change, so nothing can be said of a round that has
  changed something.  `InRound` says of a round that has not: the packages before
  `at` are `Secure` (what they were resolved to is flagged and stays) and `Stays`
  (the selected version need not go), and the package at `at` is as far as `pc`
  says.  A call of `ensure_installed` that changes nothing finds its flags set
  (`NothingToDo`), so the last round proves all packages, and `LastRound` carries
  that over to what `ApplyFlags` selects.  `UpgradesInstall` is needed because only
  packages with must-install are upgraded, and `KeptKnown` because the record of
  what stays must be in the table.

* *Choices applied* (`IInv` of `Components_proofs`).  The loop of `state_paths` compares
  places as it has written them with places as they are looked up, so `Follows` says
  that a choice that has been rewritten stands for the same place, and `RoundTrip` that
  rewriting does that.  `PassInv` says of a pass that has changed nothing that all
  choices before `at` are in their places, and a pass that ends unchanged has them all
  (a choice that is out of place changes the table and so the flag).  `PathsInv` says
  that the table in memory is the one on the disc but in a loop that has changed it,
  which is what lets the commit be left out when nothing was changed.  `DoneInv` carries it
  to the end of the commit, as no other handler touches the table or the choices.  All of
  this is of a commit that has packages to process (see the divergences for one without).

* *Verified archives* (`VerifiedInv` of `Commit_proofs`).  The sets of `commit` are emptied
  one into another, so `Sorted` says that up to the unpacking every package is in one of
  three, and that what is ready has its archive if its change of status needs one; when
  the unpacking begins the other two are empty.  The sets of `unpack` are made from the
  same statuses, and `Narrows` says of its polls, one lemma for all, that none adds a
  package to them or goes back to a state in which archives are opened.  No transfer runs
  meanwhile that could write to the cache (`OneUnpack`).

* *Trigger order* (`OrderInv` of `Commit_proofs`).  `May` says which kinds of trigger may
  have run in each state of `commit` and `unpack`.  It never shrinks, as neither goes back
  (`Narrows` again, and the states of `commit` one by one), and a kind is run only where no
  later kind is in it (`RunKeepsOrder`).  `Fresh` says that what is queued has not been
  run: the queues are filled before anything has run, those for the unwinding while only
  pre triggers have.
* *Caches* (`CacheInv` of `Update_proofs`).  The answer of an environment stays right when
  checks are added, because it has all its own already (`Cached`), and is computed anew
  when they change.  The table of best records looks only at environments that the checker
  knows (`KnowsAll`), so a checker that learns more does not make it stale (`RebuildSame`);
  each of the other changes makes it anew.

* *Statuses of a session* (`StatusInv` of `UnpackOutcome_proofs`).  The statuses say nothing
  by themselves of what has still to be done to them; the sets do.  `Backed` says of a package
  that is in no set any more, or not yet, that it is as before, and `AsSelected` that it
  is as selected: the first is what the unwinding establishes package by package, the second
  what the way forward does.  `SetsEmptied` says which sets are empty in which states, as each
  is emptied into the next, and `Saved` where the table in memory and the file agree.  Most
  polls touch none of this; `Quiet` says what those have in common, one lemma for
  all (`QuietPolls`), so that each part needs one step for them and one for each other poll.
* *Files of a session* (`FilesInv`).  To `RecoverInv` it adds what the unwinding rests on: a file
  that was replaced is in its backup, and one that was unpacked and not replaced was not there
  (`ReplacedInv`); of those that are not to be restored any more at most one is lost, and then
  by a failure of `replace` (`RestoredInv`).  A second could not be: that failure ends the state.
  Any number may be there that were not, once a delete has failed.
* *Files of what is installed* (`IntactInv`).  A session may move away or overwrite a file only
  of a package that it has in hand, so the invariant tells what is touched (`Touched`) from what
  manifests claim for the other packages (`Claimed`), and says that the two are apart.  On the way
  forward that is what the conflict check gives (`CheckedInv`): a file that is to be unpacked and
  is on the disc belongs to a package that is to be removed.  `PlacedInv` says that what has been
  moved into place has the owner and version of the package being unpacked, and `EndedInv` carries
  that to the final commit; `OrigInv` says that the packages that were there had their files when the session
  began, which is what the unwinding goes back to.
  The theorem has the hypothesis `Consistent`, which says of the instances what the code takes for
  granted: no file of two packages that are installed at first or unpacked together in the first session (the
  conflict check looks only at the disc), and modules that are in every version of their
  package and in no other.  It holds of the first session, and of every session if no two packages
  have a file in common (`Apart`); `unpack_stale_manifest` shows that it cannot hold of
  all.  `MCUnpack` and `MCModules` assert the hypotheses they meet, so TLC evaluates them.
* *Ends of an operation* (`CommitInv`, `CopiesInv` of `CommitOutcome_proofs`).  A poll of `unpack`
  within `Commit` is a poll of `Unpack` or a trigger that is not found, which fails the
  session without a fault (`UnpackPolls`), so `SessionInv` carries over.  `Finishing` says
  what is left of a package while `commit` configures and purges: one that is not in the sets
  of either is as selected.  `CopiesInv` says that a copy that is there is noted, and in which
  states none are.
* *Files of an operation* (`OperationInv`, `SafeInv`).  A step of `commit` outside the sessions
  leaves the disc alone (`Framed`), and configuring and purging change only the state of what is
  unpacked (`UnpackedOnDisk`), so what `UnpackOutcome_proofs` says of one poll carries over;
  `KeptWhole` keeps the files of what is installed as long as nothing is left out of place.
* *Triggers that have been run* (`QueuesInv`).  For a settled package `Queued` says of each of the six
  kinds that it is queued or has been run exactly when the package has been seen to (`Come`, `Gone`) and the
  script is among its old files or in its archive; and of each kind of unwinding, that it is queued or has been
  run exactly when what it undoes has been.  The removals are taken from the manifest, which is
  merged and may list too much, so `ListedInv` says that it lists the right scripts.  When the session
  has ended the queues are empty (`UnwindInv`, `EmptyInv`), and what is left is the property.
* *What triggers find* (`ScriptsInv`).  Scripts are looked for in three places.  Those of the old
  version are in the destination before anything is replaced and again when the unwinding has
  restored it (`OldInPlace`); those of the new version lie beside their destinations from the end of
  `unpack` (`TmpThere`) until the pre-install triggers have been unwound (`TmpInv`), for which no
  session may come back from `replace` without a fault (`NoWayBack`), and that is so because nothing is in the
  way there that may not be overwritten (`FreeInv`); those of what has been removed are among the copies, one for
  each script (`CopiedInv`, `CopiedOnce`), from `copy_post_remove` until they are cleaned up.
  That a backed-out operation is unwound (`TriggersUnwound`) follows: `AskedIfFailed` gives the
  triggers that were asked to unwind, and each of them has found its script, in a version that exists.
* *Left alone* (`AloneInv`).  In a selection whose dependencies are met, must-install is only
  ever set for what is installed and must-remove for what is not, so no resolution looks
  further than what is there (`MetResolve`) and the flags, applied, change nothing.
* *What `remove_auto` leaves* (`SweptInv`, `AutoInv`).  `Swept` says of a sweep that what the
  packages before `at` depend on is flagged, so that dropping what is not flagged leaves the
  dependencies met; `AutoFlagged` that what is flagged is named by a record that is selected.
  The first holds only if the dependencies were met to begin with, the second always.
* *Variables and sprites* (`DerivedInv`).  `VarsInv` and `SpritesInv` say from the handler that
  makes a file on that it is right; what remains is that no later handler moves, installs or
  removes anything, and that the table they were made from is the one on the disc (`PathsInv`).
* *Order of versions.*  That `Cmp` is an order needs no induction over the strings, because
  `CmpVerstr` is the first result that is not 0 of a sequence of results (`IsFirst`): if the
  results at each place go together (`Chains`), so do the first ones.  What is
  needed of the natural numbers is that a set of places has a first one.
* *Best records* (`BestByCmp`).  `Replaces` is then a strict order, and a finite set that is
  not empty has an element that none replaces.
* *Catalogue* (`FirstsInv`).  While the file is written, every key of the sources that are done
  has been written, with the record that comes first; sources are built in order, so one
  that is yet to come can only repeat a key.  A key is what the checker makes of a record, so
  the checker has to know the environments of all that has been listed (`KnowsAll`), and modules
  have to keep their numbers while it learns more (`Typed`, `Keeps`).
* *Identifiers.*  With different numbers for different modules (`Typed`) and no collision,
  `CheckId` is one to one, and so are sets of it.
* *What is installed stays known* (`ValidInv`, `NumbersInv`, `StatusInv`, `OldInv`, `KnownInv`).
  `build_local_list` adds the control files of what is installed, so the question is whether
  a status goes on naming its control file.  A status is a string when it is stored, so
  a version that is written and parsed must compare equal to itself (`ParseWritten`: parsing
  splits at the first colon and the last hyphen, and only a valid version is put together
  again from its parts); environments are named by numbers of modules, so a program must start
  with the numbers that the last one used (`NumbersInv`); and the upgrade of a database of
  version 1 must look up the package's own record (`OldInv`).

What stays with TLC:

* Liveness (`SessionEnds`, `RemovalSucceeds`, `CommitEnds`, `Returns`, `PassesEnd`).
* `BestIsBest`, which compares with `Older`: the policy's lists of numbers are made by
  recursion over strings, and to relate them to `Cmp` is an induction over data.
  `NoBetterRecord` is the part that the proof system can reach: with `cmp_version` for the order.
* `OptionsFollow` and `OthersKept`: parsing a text into sections and writing it
  again are folds over its lines, an induction over data as well.
* `NoOrphans`.  It does not hold of every number of sessions and
  failures; the run has the bounds with which it does.

The inductive invariants were checked with TLC on the instances of the runs (but for `IsSeq` of `Commit_proofs`, which quantifies over all sets).

## Known divergences

Each is a run in which TLC finds the property violated.

1. `unpack_no_return`.  A directory that cannot be made in `create_empty_dirs`
   sends the session to `unwind_create_empty_dirs` and on through all the
   unwinding states, although the source calls the end of `remove` the point of
   no return and the backups are gone: new files are deleted, and the old ones
   cannot be restored.
2. `unpack_replace_fails`.  A file whose old copy has been moved to its backup
   and whose new copy cannot be moved into place is in no working set; the
   unwinding does not restore it, and the package is marked as before.
   `FilesBackedOut` shows that no other file is lost, and that the backup of this one is there.
3. `unpack_stale_manifest`.  The merged manifest of an upgrade is not taken back
   when the upgrade is, so a later removal takes files that the package never had.
4. `components_alias`.  A component named below `!System` or `!Boot` gets its place
   stored under that name, and `operator()` looks the name up without the `!`: the place
   never becomes the chosen one, and the loop of `state_paths` does not end.
5. `components_backup`.  `done()` removes the file of choices and not its backup, which an
   interrupted write may have left and which `rollback()` reads when the file is not
   there: choices that were carried out are carried out again.

Others were seen while modelling and have no run.  Unpacking and triggers:

* Packages that were to use a module found on the machine stay half-unpacked when
  the session fails (`unpack.cc:839`).
* A delete that fails is not reported (`filesystem.cc:40-71`).  A new file that cannot be deleted
  outlives the unwinding (`unpack.cc:1661`) while its package is marked as before; the manifest, the control
  file or the backups of a removed package can stay, and so can a copied script, which is then noted no
  more; a backup that stays is in the way of the next one where that may not be overwritten.
  `FilesBackedOut`, `NoOrphans`, `DoneAsSelected` and `CopiesRemoved` say what they still promise then.
* `remove_file` takes any failure to move a file to its backup to mean that there is no file
  (`unpack.cc:1584`): the file stays though the package becomes removed.
* A pre-install trigger is unwound by the post-remove script of the same
  archive, looked for in `~RiscPkg++` (`trigger.cc:87`).  When a file cannot be moved into place
  after that script has been, the unwinding has deleted the script by then, so the trigger finds
  nothing, is taken to have been run, and what the pre-install script did stays, although
  `unpack.h:109-110` says that it is unwound.  `TriggersUnwound` still says then which triggers are
  asked to unwind, and no longer that they find their scripts.
* The queues of triggers are in memory.  A package that was unpacked when the
  machine stopped is configured by the next operation, and its post-install
  trigger is never run; `PostTriggersRun` is therefore stated for packages that
  were settled when the operation began.
* Copies of scripts that are left by a crash, or by a failure in the unwinding,
  stay until the same script is copied again.
* An interrupted upgrade that is retried: the current version is already the
  new one, so nothing is to be removed, and files that only the old version had
  stay without being in a manifest once the upgrade is complete.
* A file that could be extracted in part is noted nowhere (`unpack.cc:421`), so
  the temporary file stays; and when the archive's control file has replaced the
  old one and the manifest then fails, the old control file stays in its backup.
* `already_installed` looks at the status that `pre_unpack_select_package` has
  just changed, so the test for an installed package never holds, and the
  manifest of an older version is overwritten by the new version's.
* A module may be taken over from a package that the same session removes.
* In any state of the unwinding an exception goes to `fail` at once; what has
  not been unwound stays as it is, and the statuses stay half-unpacked.
* Conflicts are looked for on the disc only (`unpack.cc:912`): two packages of one session
  that bring the same file are not noticed.
* `prepare_manifest` never looks at its stream (`unpack.cc:1387`), and the counters of
  progress are unsigned and decremented while unwinding for files they were not
  incremented for (`unpack.cc:1652`).

Dependencies:

* Packages that were installed automatically and need one another keep one
  another in `remove_auto`, although `status.h:73-75` says that such a package
  should be removed if the dependency it was installed for ceases to exist;
  `AutoIsNeeded` accepts any installed package that names it.
* `remove_auto` changes environments: where a dependency is not met and the best record of its
  package would meet it, `apply_dependencies` lets `ensure_installed` give the package that record's
  environment (`pkgbase.cc:519`) and leaves the version, so the status names a
  record that is perhaps not there.  The instance `Moves` has one; `AutoIsNeeded` asks for a record of
  the selected version, and of the environment only if the dependencies were met before.
* `ensure_installed` sets the environment ("Ensure we get the package for the
  correct environment", `pkgbase.cc:519`) only when one of the flags is new, and
  compares versions only.  A package whose installed version has gone from the
  table and is offered for another environment keeps a key that names nothing, so
  `DependenciesMet` is stated for selections that the table knows (`Known`).
* `fix_dependencies` tests the dependencies of every package above `removed`,
  `remove_auto` only of those that are `installed`.  What a package half way needs may
  be removed, so `NeededIsKept` is stated for selections without such packages.
* The test at `pkgbase.cc:291-304` also tests the old version of a package that is
  flagged for upgrade, so a package may be flagged for removal, and a selection
  refused, on account of a version that is about to go.
* A resolution that fails has changed environments, and statuses outside the
  contradiction, by the time it returns false.

Update and environments:

* A crash while `Available` is being written may leave it cut inside a record.  The next
  program's `binary_control_table::update()` then throws out of the constructor of
  `pkgbase` (`update.cc:134`, `binary_control_table.cc:67`), so it does not start.  The model
  cuts between records.
* A failed update has emptied `Available`, and keeps the catalogue in memory only until
  the program ends.  Errors in writing the lists and `Available` are not looked at, so a
  full disc gives a short list that is taken to be complete.
* Checks that are made after `override_environment()` keep what was detected
  (`env_checker.cc:373-379`), so an override does not hold for modules first met later.
* `write_module_map` (`env_checker.cc:451-460`) truncates in place: a crash loses the
  numbers, and the next program gives them to other modules although the status file
  has them in its keys.
* Titles of modules of one letter are dropped (`env_checker.cc:220`); the number of an
  unknown environment overflows for names of five characters and more.
* A failing commit of the status table in `update_status_table()` is swallowed and the
  database marked as version 2 all the same, so it is never upgraded
  (`pkgbase.cc:52-62`, `543-583`).

Paths, boot options and variables:

* A commit that has no packages to process leaves out all of `state_paths`
  (`commit.cc:86`), the passes over the choices too, and then calls `done()` as any other
  (628-631): the choices are gone and were never carried out.  The run has such commits;
  `ChoicesApplied` is stated for those with packages.
* A data file in `SysVars` is read as text: the `switch` of `sysvars.cc`
  goes on from `filetype_Data` to `filetype_Text`, although the comment at 139-140 says that
  the content is used literally.  The instance has such a file; `VariablesFollow` says
  nothing of its value.
* Variables of files that have gone stay set until the machine starts again
  (`sysvars.cc:86-89`); `VariablesFollow` is about the file that sets them.
* An entry of the table with an empty destination ends the search though the prefix has
  been shortened (`path_table.cc:86-98`): what follows is taken from the wrong place, or
  the string library throws.  `path_table.h:49-52` says that such entries have no effect.
  `Lookup` does what the code does; the tables of the instances have no such entry.
* `commit.cc:129-130` says that path changes will not be committed until later; line 164
  commits them before anything is downloaded, so a session that fails leaves them.
* A choice for a component without a place makes the commit fail in `state_paths`; as the
  choices stay, every later commit fails as well.
* A section of a boot option file that another one cuts short, without its `|End`, loses
  everything after it when it is written (`boot_options_file.cc:194`, 238-239); `OthersKept`
  leaves such texts out (`CutShort`) and an instance has one.  A header in the last line of
  a file that does not end in a newline is glued to the next line (221-222), a lone entry
  with the second command is dropped and a lone first one gets a second (432, 234), and a
  section inserted at the end gives the file a blank first line (203).
* A crash or a failure between the two moves of a boot option file's commit
  (`boot_options_file.cc:253-256`) leaves the file missing, and nothing reads the backup; `OthersKept`
  leaves a missing file out.  That the options could not be written is a warning, and
  `done()` removes the choices all the same.
* A reference to an unknown path in a variable's or sprite's file throws out of
  `commit::poll()` in a state that does not advance, so every later poll throws again
  (`commit.cc:445-467`, `sprite_pool.cc:91`).

## Not modelled

Text and file formats (`control`, `zipfile`, `md5`, `sprite_file`, `module_info`, `uri`, the
parsers of dependencies and components), logs, and wrappers of operating-system calls have no
state of their own and nothing that can come in the wrong order; `Unpack` takes an archive
to be readable or not.  The thread class is not used by the library.  Of the modelled parts
these are left out: files that become directories and back, and the parent directories of
files (`auto_dir`), for which `Unpack` would need a disc with a hierarchy; the estimates of
progress; registering and deregistering watchers, which live as long as the program;
`replace()` and `dump_apps()` of `boot_options_file` and `commit()` of
`binary_control_table`, which are not called; the handle that all transfers share.

## Plan

Done, in this order: the table and its files; the unpack thread; triggers and the
whole operation; the dependency resolution; the update with environments and versions;
paths, choices, boot options, variables and sprites.  What is left:

1. `Operation`: an abstract operation that takes the packages to their selected
   statuses or leaves them, and `Commit` shown to implement it where no divergence is
   met.
2. `UnpackDirs`: files that become directories and back, parent directories (`auto_dir`).
