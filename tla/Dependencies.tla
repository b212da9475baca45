----------------------------- MODULE Dependencies -----------------------------
(***************************************************************************)
(* The dependency resolution of pkgbase.cc: fix_dependencies, which alters *)
(* the selected statuses until every dependency is met without overriding  *)
(* the packages of a seed set, and remove_auto, which deselects packages   *)
(* that were installed automatically and that no package needs any more.   *)
(*                                                                         *)
(* Both go through the selected status table in the order of the package   *)
(* names and set the flags must-remove, must-install and must-upgrade of   *)
(* its entries, which the tests of the same pass read.  One action is one  *)
(* decision about one package, or one dependency of a list applied, so     *)
(* that every read sees the flags as they are at that point of the pass.   *)
(*                                                                         *)
(* A package is its position in the table.  The table holds an entry for   *)
(* every package: one that is missing reads as the default status, which   *)
(* a visit leaves alone, and a caller selects a package before it puts it  *)
(* in the seed set.                                                        *)
(***************************************************************************)
EXTENDS PkgStatus, Sequences, Functions

CONSTANTS
  NumPackages,
  Env,          \* identifiers of package environments, in the order of the keys
  Available,    \* those the machine satisfies
  Priority,     \* install_priority of each
  Catalogues,   \* contents of the binary control table to start from
  Selections    \* contents of the selected status table to start from

Package == 1..NumPackages

ASSUME NumPackagesAssumption == NumPackages \in Nat \ {0}
ASSUME EnvAssumption ==
  Env \subseteq Nat \ {0} /\ Available \subseteq Env /\ Priority \in [Env -> Int]

Relation   == {"al", "eq", "lt", "ge", "le", "gt"}
Dependency == [pkg : Package, relation : Relation, version : Version]
DependencyList == Seq(Seq(Dependency))

\* binary_control_table::key_type.  The version and the environment of an
\* entry that never had one are 0, and NoKey is a null control record.
Key   == [pkg : Package, version : Version, env : Env]
NoKey == [pkg |-> 0, version |-> 0, env |-> 0]
KeyRead == [pkg : Package, version : Version \cup {0}, env : Env \cup {0}]

Selected == [state : PkgState, version : Version \cup {0}, env : Env \cup {0},
             auto : BOOLEAN]

ControlTable(c) == DOMAIN c \subseteq Key /\ c \in [DOMAIN c -> DependencyList]

ASSUME InputsAssumption ==
  /\ \A c \in Catalogues : ControlTable(c)
  /\ Selections \subseteq [Package -> Selected]

VARIABLES
  control,      \* _control: the depends field of each record
  best,         \* _env_packages: the best record of each package, or NoKey
  sel,          \* _selstat, without the internal flags
  mustRemove, mustInstall, mustUpgrade,   \* the packages with each flag
  changed,      \* _changed
  seed,         \* the seed set of fix_dependencies
  success,      \* what fix_dependencies returned
  pc,           \* where the operation is
  at,           \* i: the package being visited
  candidate,    \* ctrl: the record whose dependencies are being applied
  next,         \* i: the dependency of it to apply next
  fixed,        \* success of fix_dependencies(ctrl, allow_new, true)
  before        \* ghost: sel when the operation began

flags  == <<mustRemove, mustInstall, mustUpgrade>>
apply  == <<candidate, next, fixed>>
inputs == <<control, best, seed, before>>
vars == <<inputs, sel, flags, changed, success, pc, at, apply>>

Idle == {"idle", "fixed", "done"}

\* env_packages_table::rebuild: the latest version that the machine can run,
\* in the environment of the highest priority, the first of them in the table.
Candidates(p) == {k \in DOMAIN control : k.pkg = p /\ k.env \in Available}
Better(k, l) ==
  \/ k.version > l.version
  \/ k.version = l.version /\ Priority[k.env] > Priority[l.env]
  \/ k.version = l.version /\ Priority[k.env] = Priority[l.env] /\ k.env <= l.env
IsBest(p, k) ==
  IF Candidates(p) = {} THEN k = NoKey
  ELSE k \in Candidates(p) /\ \A l \in Candidates(p) : Better(k, l)

\* The record a selected status names, and the dependencies of a record: one
\* that is not in the table is a default record, without a name or dependencies.
KeyOf(s, p) == [pkg |-> p, version |-> s[p].version, env |-> s[p].env]
Current(p) == KeyOf(sel, p)
Depends(k) == IF k \in DOMAIN control THEN control[k] ELSE <<>>

\* dependency::matches.  Versions are numbers here, in the order of version.cc.
Compares(v, d) ==
  CASE d.relation = "al" -> TRUE
    [] d.relation = "eq" -> v = d.version
    [] d.relation = "lt" -> v < d.version
    [] d.relation = "ge" -> v >= d.version
    [] d.relation = "le" -> v <= d.version
    [] d.relation = "gt" -> v > d.version
Matches(k, d) == k \in DOMAIN control /\ k.pkg = d.pkg /\ Compares(k.version, d)

Resolve(d, allowNew) ==
  IF d.pkg \in mustRemove THEN NoKey
  ELSE IF /\ sel[d.pkg].state >= installed
          /\ d.pkg \notin mustUpgrade
          /\ Matches(Current(d.pkg), d)
    THEN Current(d.pkg)
  ELSE IF (allowNew \/ d.pkg \in mustUpgrade) /\ Matches(best[d.pkg], d)
    THEN best[d.pkg]
  ELSE NoKey

\* resolve for a list of alternatives: the first that an existing package
\* satisfies, and only then the first that a new one does.
FirstOf(alts, allowNew) ==
  LET good == {i \in DOMAIN alts : Resolve(alts[i], allowNew) # NoKey} IN
  IF good = {} THEN NoKey
  ELSE Resolve(alts[CHOOSE i \in good : \A j \in good : i <= j], allowNew)
\* Mutant: new packages are not left to a second look.
ResolveAnyEager(alts, allowNew) == FirstOf(alts, allowNew)

ResolveAny(alts, allowNew) ==
  IF allowNew /\ FirstOf(alts, FALSE) = NoKey THEN FirstOf(alts, TRUE)
  ELSE FirstOf(alts, FALSE)

\* fix_dependencies(ctrl, allow_new, false), which only tests.
Fixable(k, allowNew) ==
  \A alts \in Range(Depends(k)) : ResolveAny(alts, allowNew) # NoKey

-------------------------------------------------------------------------------
DependenciesInit ==
  /\ control \in Catalogues
  /\ best \in {b \in [Package -> DOMAIN control \cup {NoKey}] :
                \A p \in Package : IsBest(p, b[p])}
  /\ sel \in Selections
  /\ before = sel
  /\ mustRemove = {} /\ mustInstall = {} /\ mustUpgrade = {}
  /\ changed = FALSE
  /\ seed = {}
  /\ success = FALSE
  /\ pc = "idle"
  /\ at = 1
  /\ candidate = NoKey /\ next = 1 /\ fixed = TRUE

\* Mutant: the tables have changed even when the flags were set already.
EnsureInstalledAgain(k) ==
  LET p == k.pkg
      up == p \notin mustUpgrade /\ (sel[p].state < installed \/ sel[p].version # k.version)
  IN /\ mustInstall' = mustInstall \cup {p}
     /\ mustUpgrade' = IF up THEN mustUpgrade \cup {p} ELSE mustUpgrade
     /\ sel' = [sel EXCEPT ![p].env = k.env]
     /\ changed' = TRUE
     /\ UNCHANGED mustRemove

\* The must-install flag is set, and the must-upgrade flag when the version
\* selected is another one.  The environment changes at once, but the state
\* and the version only when the flags are applied.
EnsureInstalled(k) ==
  LET p   == k.pkg
      new == p \notin mustInstall
      up  == /\ p \notin mustUpgrade
             /\ sel[p].state < installed \/ sel[p].version # k.version
  IN /\ mustInstall' = mustInstall \cup {p}
     /\ mustUpgrade' = IF up THEN mustUpgrade \cup {p} ELSE mustUpgrade
     /\ sel' = IF new \/ up THEN [sel EXCEPT ![p].env = k.env] ELSE sel
     /\ changed' = (changed \/ new \/ up)
     /\ UNCHANGED mustRemove

\* Mutant: the packages visited before are not visited again.
EnsureRemovedSilent(p) ==
  /\ mustRemove' = mustRemove \cup {p}
  /\ UNCHANGED <<sel, mustInstall, mustUpgrade, changed>>

\* Mutant: the new flag replaces the old one.
EnsureRemovedInstead(p) ==
  /\ mustRemove' = mustRemove \cup {p}
  /\ mustInstall' = mustInstall \ {p}
  /\ changed' = (changed \/ p \notin mustRemove)
  /\ UNCHANGED <<sel, mustUpgrade>>

EnsureRemoved(p) ==
  /\ mustRemove' = mustRemove \cup {p}
  /\ changed' = (changed \/ p \notin mustRemove)
  /\ UNCHANGED <<sel, mustInstall, mustUpgrade>>

\* Mutant: the iterator is left past the end of the table.
NextPackagePast(loop, after) ==
  /\ at' = at + 1
  /\ pc' = IF at < NumPackages THEN loop ELSE after

\* The end of the body of a loop over the table: the next package, or what
\* follows the loop.
NextPackage(loop, after) ==
  /\ at' = IF at < NumPackages THEN at + 1 ELSE at
  /\ pc' = IF at < NumPackages THEN loop ELSE after

BeginApply(k, step) ==
  /\ candidate' = k /\ next' = 1 /\ fixed' = TRUE
  /\ pc' = step

\* Mutant: only the packages of the seed set that are selected are protected.
FixDependenciesSelected(s) ==
  /\ pc = "idle"
  /\ seed' = s
  /\ before' = sel
  /\ mustInstall' = {p \in s : sel[p].state > removed}
  /\ mustRemove' = {} /\ mustUpgrade' = {}
  /\ changed' = TRUE
  /\ pc' = "round"
  /\ UNCHANGED <<control, best, sel, success, at, apply>>

\* fix_dependencies(seed): clear the flags, and protect the packages of the seed.
FixDependencies(s) ==
  /\ pc = "idle"
  /\ seed' = s
  /\ before' = sel
  /\ mustInstall' = {p \in s : sel[p].state > removed}
  /\ mustRemove' = {p \in s : sel[p].state <= removed}
  /\ mustUpgrade' = {}
  /\ changed' = TRUE
  /\ pc' = "round"
  /\ UNCHANGED <<control, best, sel, success, at, apply>>

\* while (_changed): another pass over the packages.
Round ==
  /\ pc = "round" /\ changed
  /\ changed' = FALSE
  /\ at' = 1
  /\ pc' = "visit"
  /\ UNCHANGED <<inputs, sel, flags, success, apply>>

Wanted(p) == p \in mustInstall \ mustRemove

Visit ==
  /\ pc = "visit"
  /\ IF Wanted(at) /\ at \notin mustUpgrade /\ sel[at].state >= installed
                   /\ Fixable(Current(at), TRUE)
     THEN BeginApply(Current(at), "apply_current")
     ELSE /\ pc' = IF Wanted(at) THEN "best" ELSE "check"
          /\ UNCHANGED apply
  /\ UNCHANGED <<inputs, sel, flags, changed, success, at>>

TryBest ==
  /\ pc = "best"
  /\ IF best[at] # NoKey /\ Fixable(best[at], TRUE)
     THEN BeginApply(best[at], "apply_best")
     ELSE pc' = "reject" /\ UNCHANGED apply
  /\ UNCHANGED <<inputs, sel, flags, changed, success, at>>

\* One dependency of fix_dependencies(ctrl, true, true): resolved once more,
\* with the flags that the dependencies before it have set.
ApplyNext ==
  /\ pc \in {"apply_current", "apply_best", "apply_needed"}
  /\ next <= Len(Depends(candidate))
  /\ \E k \in {ResolveAny(Depends(candidate)[next], TRUE)} :
       IF k # NoKey THEN EnsureInstalled(k) /\ UNCHANGED fixed
       ELSE fixed' = FALSE /\ UNCHANGED <<sel, flags, changed>>
  /\ next' = next + 1
  /\ UNCHANGED <<inputs, success, pc, at, candidate>>

AllApplied == next > Len(Depends(candidate))

CurrentApplied ==
  /\ pc = "apply_current" /\ AllApplied
  /\ pc' = IF fixed THEN "check" ELSE "best"
  /\ UNCHANGED <<inputs, sel, flags, changed, success, at, apply>>

BestApplied ==
  /\ pc = "apply_best" /\ AllApplied
  /\ IF fixed
     THEN EnsureInstalled(candidate) /\ pc' = "check"
     ELSE pc' = "reject" /\ UNCHANGED <<sel, flags, changed>>
  /\ UNCHANGED <<inputs, success, at, apply>>

\* No candidate will do: the package has both flags, and the operation fails.
Reject ==
  /\ pc = "reject"
  /\ EnsureRemoved(at)
  /\ pc' = "check"
  /\ UNCHANGED <<inputs, success, at, apply>>

\* The second test of a visit: can the selected version stay?
Check ==
  /\ pc = "check"
  /\ IF sel[at].state > removed /\ at \notin mustRemove /\ ~Fixable(Current(at), FALSE)
     THEN EnsureRemoved(at)
     ELSE UNCHANGED <<sel, flags, changed>>
  /\ NextPackage("visit", "round")
  /\ UNCHANGED <<inputs, success, apply>>

\* What the flags make of a selected status.
Applied(p) ==
  LET s == sel[p] IN
  IF Wanted(p) /\ (p \in mustUpgrade \/ s.state < installed)
    THEN [state |-> installed, version |-> best[p].version, env |-> best[p].env,
          auto |-> s.auto \/ s.state <= removed]
  ELSE IF p \in mustRemove \ mustInstall
    THEN [s EXCEPT !.auto = FALSE, !.state = IF @ > removed THEN removed ELSE @]
  ELSE s

ApplyFlags ==
  /\ pc = "round" /\ ~changed
  /\ sel' = [p \in Package |-> Applied(p)]
  /\ success' = (mustInstall \cap mustRemove = {})
  /\ pc' = "fixed"
  /\ UNCHANGED <<inputs, flags, changed, at, apply>>

-------------------------------------------------------------------------------
RemoveAuto ==
  /\ pc \in {"idle", "fixed"}
  /\ seed' = {}
  /\ before' = sel
  /\ pc' = "sweep"
  /\ UNCHANGED <<control, best, sel, flags, changed, success, at, apply>>

Sweep ==
  /\ pc = "sweep"
  /\ mustRemove' = {} /\ mustInstall' = {} /\ mustUpgrade' = {}
  /\ at' = 1
  /\ pc' = "scan"
  /\ UNCHANGED <<inputs, sel, changed, success, apply>>

\* What an installed package needs is flagged, without a test before it.
Scan ==
  /\ pc = "scan"
  /\ IF sel[at].state >= installed
     THEN BeginApply(Current(at), "apply_needed") /\ UNCHANGED at
     ELSE NextPackage("scan", "drop") /\ UNCHANGED apply
  /\ UNCHANGED <<inputs, sel, flags, changed, success>>

NeededApplied ==
  /\ pc = "apply_needed" /\ AllApplied
  /\ NextPackage("scan", "drop")
  /\ UNCHANGED <<inputs, sel, flags, changed, success, apply>>

\* Mutant: a package the user asked for counts as redundant too.
RedundantManual(p) == sel[p].state >= installed /\ p \notin mustInstall

Redundant(p) == sel[p].auto /\ p \notin mustInstall

\* Mutant: one sweep has to do.
DropOnce ==
  /\ pc = "drop"
  /\ sel' = [p \in Package |->
              IF Redundant(p) THEN [sel[p] EXCEPT !.state = removed, !.auto = FALSE]
              ELSE sel[p]]
  /\ pc' = "done"
  /\ UNCHANGED <<inputs, flags, changed, success, at, apply>>

Drop ==
  /\ pc = "drop"
  /\ sel' = [p \in Package |->
              IF Redundant(p) THEN [sel[p] EXCEPT !.state = removed, !.auto = FALSE]
              ELSE sel[p]]
  /\ pc' = IF \E p \in Package : Redundant(p) THEN "sweep" ELSE "done"
  /\ UNCHANGED <<inputs, flags, changed, success, at, apply>>

Step ==
  \/ Round \/ Visit \/ TryBest \/ ApplyNext \/ CurrentApplied \/ BestApplied
  \/ Reject \/ Check \/ ApplyFlags
  \/ Sweep \/ Scan \/ NeededApplied \/ Drop

DependenciesNext ==
  \/ \E s \in SUBSET Package : FixDependencies(s)
  \/ RemoveAuto
  \/ Step

\* Each operation is a loop that runs in the thread of its caller: it goes on
\* until it returns.  Nothing obliges a caller to begin one.
DependenciesSpec == DependenciesInit /\ [][DependenciesNext]_vars /\ WF_vars(Step)

-------------------------------------------------------------------------------
DependenciesTypeOK ==
  /\ ControlTable(control)
  /\ best \in [Package -> Key \cup {NoKey}]
  /\ sel \in [Package -> Selected] /\ before \in [Package -> Selected]
  /\ mustRemove \subseteq Package /\ mustInstall \subseteq Package
  /\ mustUpgrade \subseteq Package /\ seed \subseteq Package
  /\ changed \in BOOLEAN /\ success \in BOOLEAN /\ fixed \in BOOLEAN
  /\ pc \in Idle \cup {"round", "visit", "best", "reject", "check", "apply_current",
                       "apply_best", "apply_needed", "sweep", "scan", "drop"}
  /\ at \in Package
  /\ candidate \in KeyRead \cup {NoKey}
  /\ next \in Nat \ {0}

\* A selection s meets the dependency d, and all those of its packages.
Meets(s, d) == s[d.pkg].state >= installed /\ Matches(KeyOf(s, d.pkg), d)
Satisfied(s) ==
  \A p \in Package : s[p].state > removed =>
    \A alts \in Range(Depends(KeyOf(s, p))) : \E d \in Range(alts) : Meets(s, d)

\* The table has a record of what a selection installs.  update.cc keeps the
\* records of installed packages, but a version may go from the sources after
\* it was selected.
Known(s) ==
  \A p \in Package : s[p].state >= installed => KeyOf(s, p) \in DOMAIN control

\* When fix_dependencies returns true, every package that is selected has its
\* dependencies met by the versions that are selected: nothing that a late
\* round upgraded or removed was missed by a package visited before it.
DependenciesMet == pc = "fixed" /\ success /\ Known(before) => Satisfied(sel)

\* A package of the seed set never goes from selected to removed or back,
\* whether or not the dependencies can be fixed (pkgbase.h:201-203).
SeedKept ==
  \A p \in seed : (sel[p].state > removed) <=> (before[p].state > removed)

\* A selection in which every package is installed or not.  The states between
\* them are also legal: fix_dependencies counts them as selected when it tests
\* what a package depends on, and remove_auto does not.
Whole(s) == \A p \in Package : s[p].state \in {not_present, removed, installed}

\* A selection whose dependencies are met is left as it was, and the result
\* is true: the resolution takes what is there before anything new.
MetIsLeftAlone ==
  pc = "fixed" /\ Satisfied(before) /\ Whole(before) =>
    /\ success
    /\ \A p \in Package : [sel[p] EXCEPT !.auto = FALSE] = [before[p] EXCEPT !.auto = FALSE]

\* remove_auto takes away nothing but packages installed automatically, and
\* none that another package was relying on.
NeededIsKept ==
  pc = "done" /\ Satisfied(before) /\ Whole(before) =>
    /\ Satisfied(sel)
    /\ \A p \in Package : sel[p] # before[p] => before[p].auto /\ sel[p].state = removed

\* An automatically installed package that remove_auto leaves is named by a
\* dependency of some installed package, however long the chain of packages
\* that became redundant one after the other.  (Where a dependency is not met
\* and the best record of its package would meet it, remove_auto gives that
\* package the environment of that record and leaves the version: the record
\* that names the package is then one of the version selected, and perhaps not
\* of the environment.)
AutoIsNeeded ==
  pc = "done" =>
    \A p \in Package : sel[p].auto =>
      \E k \in DOMAIN control :
        /\ sel[k.pkg].state >= installed /\ sel[k.pkg].version = k.version
        /\ Satisfied(before) /\ Whole(before) => k = Current(k.pkg)
        /\ \E alts \in Range(control[k]) : \E d \in Range(alts) : d.pkg = p

\* "The flags can only change in one direction" (pkgbase.cc:240): no step of a
\* resolution takes back a flag that an earlier one set and that others have
\* acted upon.
FlagsOnlyRise ==
  [][pc \notin {"idle", "fixed", "sweep"} =>
       /\ mustRemove \subseteq mustRemove'
       /\ mustInstall \subseteq mustInstall'
       /\ mustUpgrade \subseteq mustUpgrade']_vars

\* Each operation returns: the rounds of fix_dependencies and the sweeps of
\* remove_auto come to an end.
Returns == pc \notin Idle ~> pc \in Idle
===============================================================================
