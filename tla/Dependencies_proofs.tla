-------------------------- MODULE Dependencies_proofs --------------------------
(***************************************************************************)
(* For every number of packages, every catalogue and every seed set: the   *)
(* types of Dependencies; that a resolution never takes back a flag, never *)
(* overrides a package of the seed set, meets the dependencies of the      *)
(* packages it leaves selected when it returns true, and leaves a          *)
(* selection whose dependencies are met as it is; and that remove_auto     *)
(* takes just what nothing that stays depends on.                          *)
(***************************************************************************)
EXTENDS Dependencies, WellFoundedInduction, TLAPS

\* The least element of a set of numbers, which FirstOf chooses.
LEMMA LeastExists ==
  ASSUME NEW T, T \subseteq Nat, T # {}
  PROVE  \E i \in T : \A j \in T : i <= j
<1>1. PICK x \in T : \A y \in T : <<y, x>> \notin OpToRel(<, Nat)
  BY NatLessThanWellFounded, WFMin, Zenon
<1>2. OpToRel(<, Nat) = {ss \in Nat \X Nat : ss[1] < ss[2]}
  BY Zenon DEF OpToRel
<1>3. ASSUME NEW y \in T
      PROVE  x <= y
  <2>1. <<y, x>> \notin {ss \in Nat \X Nat : ss[1] < ss[2]}
    BY <1>1, <1>2
  <2> QED BY <2>1
<1> QED BY <1>3

-------------------------------------------------------------------------------
(* What the tables hand out. *)

\* The record whose dependencies are applied for the best candidate exists.
BestCandidate == pc = "apply_best" => candidate \in Key

TypeInv == DependenciesTypeOK /\ BestCandidate

LEMMA DependsType ==
  ASSUME DependenciesTypeOK, NEW k
  PROVE  Depends(k) \in DependencyList
<1>1. control \in [DOMAIN control -> DependencyList]
  BY DEF DependenciesTypeOK, ControlTable
<1>2. CASE k \in DOMAIN control
  <2>1. control[k] \in DependencyList
    BY <1>1, <1>2, Zenon
  <2> QED BY <1>2, <2>1 DEF Depends
<1>3. CASE k \notin DOMAIN control
  BY <1>3 DEF Depends, DependencyList
<1> QED BY <1>2, <1>3

LEMMA ResolveType ==
  ASSUME DependenciesTypeOK, NEW d \in Dependency, NEW a \in BOOLEAN
  PROVE  Resolve(d, a) \in Key \cup {NoKey}
BY DEF Resolve, Matches, DependenciesTypeOK, ControlTable

LEMMA FirstOfType ==
  ASSUME DependenciesTypeOK, NEW alts \in Seq(Dependency), NEW a \in BOOLEAN
  PROVE  FirstOf(alts, a) \in Key \cup {NoKey}
<1> DEFINE good == {i \in DOMAIN alts : Resolve(alts[i], a) # NoKey}
           first == CHOOSE i \in good : \A j \in good : i <= j
<1>1. CASE good = {}
  BY <1>1 DEF FirstOf
<1>2. CASE good # {}
  <2>1. \E i \in good : \A j \in good : i <= j
    <3>1. good \subseteq Nat
      OBVIOUS
    <3> HIDE DEF good
    <3> QED BY <1>2, <3>1, LeastExists
  <2>2. first \in DOMAIN alts
    BY <2>1
  <2>3. FirstOf(alts, a) = Resolve(alts[first], a)
    BY <1>2 DEF FirstOf
  <2>4. alts[first] \in Dependency
    BY <2>2
  <2> HIDE DEF first
  <2> QED BY <2>3, <2>4, ResolveType
<1> QED BY <1>1, <1>2

LEMMA ResolveAnyType ==
  ASSUME DependenciesTypeOK, NEW alts \in Seq(Dependency), NEW a \in BOOLEAN
  PROVE  ResolveAny(alts, a) \in Key \cup {NoKey}
BY FirstOfType DEF ResolveAny

LEMMA CurrentType ==
  ASSUME DependenciesTypeOK, NEW p \in Package
  PROVE  Current(p) \in KeyRead
BY DEF DependenciesTypeOK, Current, KeyOf, KeyRead, Selected

\* NoKey is no key.
LEMMA NoKeyIsNone == NoKey \notin Key
BY NumPackagesAssumption DEF NoKey, Key, Package

-------------------------------------------------------------------------------
(* The type invariant. *)

LEMMA FirstPackage == 1 \in Package
BY NumPackagesAssumption DEF Package

LEMMA TypeInit == DependenciesInit => TypeInv
<1> SUFFICES ASSUME DependenciesInit
             PROVE  TypeInv
  OBVIOUS
<1>1. ControlTable(control) /\ sel \in [Package -> Selected]
  BY InputsAssumption DEF DependenciesInit
<1>2. best \in [Package -> Key \cup {NoKey}]
  <2>1. best \in [Package -> DOMAIN control \cup {NoKey}]
    BY DEF DependenciesInit
  <2> QED BY <1>1, <2>1 DEF ControlTable
<1>3. pc = "idle" /\ candidate = NoKey /\ next = 1 /\ at = 1
  BY DEF DependenciesInit
<1>4. before \in [Package -> Selected]
  BY <1>1, Zenon DEF DependenciesInit
<1>5. /\ mustRemove = {} /\ mustInstall = {} /\ mustUpgrade = {} /\ seed = {}
      /\ changed = FALSE /\ success = FALSE /\ fixed = TRUE
  BY DEF DependenciesInit
<1>6. /\ changed \in BOOLEAN /\ success \in BOOLEAN /\ fixed \in BOOLEAN
      /\ mustRemove \subseteq Package /\ mustInstall \subseteq Package
      /\ mustUpgrade \subseteq Package /\ seed \subseteq Package
  BY <1>5
<1>7. pc \in Idle /\ candidate \in KeyRead \cup {NoKey} /\ next \in Nat \ {0} /\ at \in Package
  BY <1>3, FirstPackage DEF Idle
<1>8. BestCandidate
  BY <1>3 DEF BestCandidate
<1> QED
  BY <1>1, <1>2, <1>4, <1>6, <1>7, <1>8 DEF TypeInv, DependenciesTypeOK

LEMMA EnsureInstalledType ==
  ASSUME DependenciesTypeOK, NEW k \in Key, EnsureInstalled(k)
  PROVE  /\ sel' \in [Package -> Selected]
         /\ mustRemove' \subseteq Package /\ mustInstall' \subseteq Package
         /\ mustUpgrade' \subseteq Package
         /\ changed' \in BOOLEAN
<1>1. k.pkg \in Package /\ k.env \in Env
  BY DEF Key
<1>2. [sel EXCEPT ![k.pkg].env = k.env] \in [Package -> Selected]
  BY <1>1 DEF DependenciesTypeOK, Selected
<1> QED
  BY <1>1, <1>2 DEF EnsureInstalled, DependenciesTypeOK

LEMMA EnsureRemovedType ==
  ASSUME DependenciesTypeOK, NEW p \in Package, EnsureRemoved(p)
  PROVE  /\ sel' \in [Package -> Selected]
         /\ mustRemove' \subseteq Package /\ mustInstall' \subseteq Package
         /\ mustUpgrade' \subseteq Package
         /\ changed' \in BOOLEAN
BY DEF EnsureRemoved, DependenciesTypeOK

LEMMA RemovedIsState == removed \in PkgState
BY DEF removed, PkgState

LEMMA AppliedType ==
  ASSUME DependenciesTypeOK, NEW p \in Package
  PROVE  Applied(p) \in Selected
<1>1. sel[p] \in Selected /\ best[p] \in Key \cup {NoKey}
  BY DEF DependenciesTypeOK
<1>2. best[p].version \in Version \cup {0} /\ best[p].env \in Env \cup {0}
  BY <1>1 DEF Key, NoKey
<1>3. CASE Wanted(p) /\ (p \in mustUpgrade \/ sel[p].state < installed)
  BY <1>1, <1>2, <1>3 DEF Applied, Selected, PkgState, installed
<1>4. CASE ~(Wanted(p) /\ (p \in mustUpgrade \/ sel[p].state < installed))
  <2>1. [sel[p] EXCEPT !.auto = FALSE, !.state = removed] \in Selected
    BY <1>1, RemovedIsState DEF Selected
  <2>2. [sel[p] EXCEPT !.auto = FALSE, !.state = sel[p].state] \in Selected
    BY <1>1 DEF Selected
  <2> QED BY <1>1, <1>4, <2>1, <2>2 DEF Applied
<1> QED BY <1>3, <1>4

LEMMA NextPackageType ==
  ASSUME NEW loop, NEW after, at \in Package, NextPackage(loop, after)
  PROVE  at' \in Package /\ pc' \in {loop, after}
BY NumPackagesAssumption DEF NextPackage, Package

\* The record that satisfies the next dependency to apply.
LEMMA NextType ==
  ASSUME DependenciesTypeOK, next <= Len(Depends(candidate))
  PROVE  ResolveAny(Depends(candidate)[next], TRUE) \in Key \cup {NoKey}
<1>1. Depends(candidate) \in Seq(Seq(Dependency))
  BY DependsType DEF DependencyList
<1>2. next \in Nat \ {0}
  BY DEF DependenciesTypeOK
<1>3. Depends(candidate)[next] \in Seq(Dependency)
  BY <1>1, <1>2
<1> QED BY <1>3, ResolveAnyType

LEMMA TypeNext == TypeInv /\ [DependenciesNext]_vars => TypeInv'
<1> SUFFICES ASSUME TypeInv, [DependenciesNext]_vars
             PROVE  TypeInv'
  OBVIOUS
<1> USE DEF TypeInv, BestCandidate, inputs, flags, apply
<1>1. ASSUME NEW s \in SUBSET Package, FixDependencies(s)
      PROVE  TypeInv'
  BY <1>1 DEF FixDependencies, DependenciesTypeOK
<1>2. CASE RemoveAuto
  BY <1>2 DEF RemoveAuto, DependenciesTypeOK
<1>3. CASE Round
  BY <1>3, FirstPackage DEF Round, DependenciesTypeOK
<1>4. CASE Visit
  <2>1. Current(at) \in KeyRead
    BY CurrentType DEF DependenciesTypeOK
  <2>2. \/ BeginApply(Current(at), "apply_current")
        \/ pc' \in {"best", "check"} /\ UNCHANGED apply
    BY <1>4 DEF Visit
  <2>3. UNCHANGED <<inputs, sel, flags, changed, success, at>>
    BY <1>4 DEF Visit
  <2>4. CASE BeginApply(Current(at), "apply_current")
    BY <2>1, <2>3, <2>4 DEF BeginApply, DependenciesTypeOK
  <2>5. CASE pc' \in {"best", "check"} /\ UNCHANGED apply
    BY <2>3, <2>5 DEF DependenciesTypeOK
  <2> QED BY <2>2, <2>4, <2>5
<1>5. CASE TryBest
  <2>1. best[at] \in Key \cup {NoKey}
    BY DEF DependenciesTypeOK
  <2>2. Key \subseteq KeyRead
    BY DEF Key, KeyRead
  <2>3. \/ best[at] # NoKey /\ BeginApply(best[at], "apply_best")
        \/ pc' = "reject" /\ UNCHANGED apply
    BY <1>5 DEF TryBest
  <2>4. UNCHANGED <<inputs, sel, flags, changed, success, at>>
    BY <1>5 DEF TryBest
  <2>5. CASE best[at] # NoKey /\ BeginApply(best[at], "apply_best")
    BY <2>1, <2>2, <2>4, <2>5 DEF BeginApply, DependenciesTypeOK
  <2>6. CASE pc' = "reject" /\ UNCHANGED apply
    BY <2>4, <2>6 DEF DependenciesTypeOK
  <2> QED BY <2>3, <2>5, <2>6
<1>6. CASE ApplyNext
  <2> DEFINE k == ResolveAny(Depends(candidate)[next], TRUE)
  <2>1. k \in Key \cup {NoKey}
    BY <1>6, NextType DEF ApplyNext
  <2>2. CASE k # NoKey
    <3>1. EnsureInstalled(k) /\ UNCHANGED fixed
      BY <1>6, <2>2 DEF ApplyNext
    <3>2. next' \in Nat \ {0} /\ UNCHANGED <<inputs, success, pc, at, candidate>>
      BY <1>6 DEF ApplyNext, DependenciesTypeOK
    <3> HIDE DEF k
    <3> QED BY <2>1, <2>2, <3>1, <3>2, EnsureInstalledType DEF DependenciesTypeOK
  <2>3. CASE k = NoKey
    <3>1. fixed' = FALSE /\ UNCHANGED <<sel, flags, changed>>
      BY <1>6, <2>3 DEF ApplyNext
    <3>2. next' \in Nat \ {0} /\ UNCHANGED <<inputs, success, pc, at, candidate>>
      BY <1>6 DEF ApplyNext, DependenciesTypeOK
    <3> QED BY <3>1, <3>2 DEF DependenciesTypeOK
  <2> QED BY <2>2, <2>3
<1>7. CASE CurrentApplied
  BY <1>7 DEF CurrentApplied, DependenciesTypeOK
<1>8. CASE BestApplied
  <2>1. CASE fixed
    BY <1>8, <2>1, EnsureInstalledType DEF BestApplied, DependenciesTypeOK
  <2>2. CASE ~fixed
    BY <1>8, <2>2 DEF BestApplied, DependenciesTypeOK
  <2> QED BY <2>1, <2>2
<1>9. CASE Reject
  BY <1>9, EnsureRemovedType DEF Reject, DependenciesTypeOK
<1>10. CASE Check
  <2>1. \/ EnsureRemoved(at)
        \/ UNCHANGED <<sel, flags, changed>>
    BY <1>10 DEF Check
  <2>2. NextPackage("visit", "round") /\ UNCHANGED <<inputs, success, apply>>
    BY <1>10 DEF Check
  <2>3. at' \in Package /\ pc' \in {"visit", "round"}
    BY <2>2, NextPackageType DEF DependenciesTypeOK
  <2>4. CASE EnsureRemoved(at)
    BY <2>2, <2>3, <2>4, EnsureRemovedType DEF DependenciesTypeOK
  <2>5. CASE UNCHANGED <<sel, flags, changed>>
    BY <2>2, <2>3, <2>5 DEF DependenciesTypeOK
  <2> QED BY <2>1, <2>4, <2>5
<1>11. CASE ApplyFlags
  BY <1>11, AppliedType DEF ApplyFlags, DependenciesTypeOK, Idle
<1>12. CASE Sweep
  BY <1>12, FirstPackage DEF Sweep, DependenciesTypeOK
<1>13. CASE Scan
  <2>1. Current(at) \in KeyRead
    BY CurrentType DEF DependenciesTypeOK
  <2>2. \/ BeginApply(Current(at), "apply_needed") /\ UNCHANGED at
        \/ NextPackage("scan", "drop") /\ UNCHANGED apply
    BY <1>13 DEF Scan
  <2>3. UNCHANGED <<inputs, sel, flags, changed, success>>
    BY <1>13 DEF Scan
  <2>4. CASE BeginApply(Current(at), "apply_needed") /\ UNCHANGED at
    BY <2>1, <2>3, <2>4 DEF BeginApply, DependenciesTypeOK
  <2>5. CASE NextPackage("scan", "drop") /\ UNCHANGED apply
    <3>1. at' \in Package /\ pc' \in {"scan", "drop"}
      BY <2>5, NextPackageType DEF DependenciesTypeOK
    <3> QED BY <2>3, <2>5, <3>1 DEF DependenciesTypeOK
  <2> QED BY <2>2, <2>4, <2>5
<1>14. CASE NeededApplied
  <2>1. at' \in Package /\ pc' \in {"scan", "drop"}
    BY <1>14, NextPackageType DEF NeededApplied, DependenciesTypeOK
  <2> QED BY <1>14, <2>1 DEF NeededApplied, DependenciesTypeOK
<1>15. CASE Drop
  <2>1. ASSUME NEW p \in Package
        PROVE  [sel[p] EXCEPT !.state = removed, !.auto = FALSE] \in Selected
    BY RemovedIsState DEF DependenciesTypeOK, Selected
  <2>2. sel' \in [Package -> Selected]
    BY <1>15, <2>1 DEF Drop, DependenciesTypeOK
  <2> QED BY <1>15, <2>2 DEF Drop, DependenciesTypeOK, Idle
<1>16. CASE UNCHANGED vars
  BY <1>16 DEF vars, DependenciesTypeOK
<1> QED
  BY <1>1, <1>2, <1>3, <1>4, <1>5, <1>6, <1>7, <1>8, <1>9, <1>10, <1>11, <1>12,
     <1>13, <1>14, <1>15, <1>16 DEF DependenciesNext, Step

\* Every variable of a resolution keeps its type, for every catalogue and
\* every selection to start from.
THEOREM TypeCorrect == DependenciesSpec => []DependenciesTypeOK
<1>1. TypeInv => DependenciesTypeOK
  BY DEF TypeInv
<1> QED BY <1>1, TypeInit, TypeNext, PTL DEF DependenciesSpec

-------------------------------------------------------------------------------
(* The flags. *)

\* A resolution only ever adds to the flags, so a round that changes one is
\* never undone by a later round.
THEOREM FlagsRise == DependenciesSpec => FlagsOnlyRise
<1>1. ASSUME [DependenciesNext]_vars
      PROVE  [pc \notin {"idle", "fixed", "sweep"} =>
                /\ mustRemove \subseteq mustRemove'
                /\ mustInstall \subseteq mustInstall'
                /\ mustUpgrade \subseteq mustUpgrade']_vars
  <2> SUFFICES ASSUME DependenciesNext, pc \notin {"idle", "fixed", "sweep"}
               PROVE  /\ mustRemove \subseteq mustRemove'
                      /\ mustInstall \subseteq mustInstall'
                      /\ mustUpgrade \subseteq mustUpgrade'
    BY <1>1
  <2>1. CASE Round \/ Visit \/ TryBest \/ CurrentApplied \/ ApplyFlags \/ Scan
             \/ NeededApplied \/ Drop
    BY <2>1 DEF Round, Visit, TryBest, CurrentApplied, ApplyFlags, Scan, NeededApplied,
                Drop, flags
  <2>2. CASE ApplyNext
    BY <2>2 DEF ApplyNext, EnsureInstalled, flags
  <2>3. CASE BestApplied
    BY <2>3 DEF BestApplied, EnsureInstalled, flags
  <2>4. CASE Reject
    BY <2>4 DEF Reject, EnsureRemoved
  <2>5. CASE Check
    BY <2>5 DEF Check, EnsureRemoved, flags
  <2> QED
    BY <2>1, <2>2, <2>3, <2>4, <2>5
       DEF DependenciesNext, Step, FixDependencies, RemoveAuto, Sweep
<1> QED BY <1>1, PTL DEF DependenciesSpec, FlagsOnlyRise

-------------------------------------------------------------------------------
(* The seed set. *)

Resolving == {"round", "visit", "best", "reject", "check", "apply_current", "apply_best"}

\* Until the flags are applied no state is changed, and each package of the
\* seed set has the flag that protects it.
StatesKept ==
  pc \in Resolving => \A p \in Package : sel[p].state = before[p].state
SeedFlagged ==
  pc \in Resolving =>
    \A p \in seed : p \in IF sel[p].state > removed THEN mustInstall ELSE mustRemove

NoSeed == pc \notin Resolving \cup {"fixed"} => seed = {}

SeedInv == TypeInv /\ StatesKept /\ SeedFlagged /\ NoSeed /\ SeedKept

LEMMA SeedInit == DependenciesInit => SeedInv
BY TypeInit DEF DependenciesInit, SeedInv, StatesKept, SeedFlagged, NoSeed, SeedKept, Resolving

\* EnsureInstalled and EnsureRemoved keep every state and add to the flags.
LEMMA EnsureKeepsStates ==
  ASSUME DependenciesTypeOK,
         \/ \E k \in Key : EnsureInstalled(k)
         \/ \E p \in Package : EnsureRemoved(p)
         \/ UNCHANGED <<sel, flags, changed>>
  PROVE  /\ \A p \in Package : sel'[p].state = sel[p].state
         /\ mustInstall \subseteq mustInstall' /\ mustRemove \subseteq mustRemove'
<1>1. ASSUME NEW k \in Key, EnsureInstalled(k)
      PROVE  /\ \A p \in Package : sel'[p].state = sel[p].state
             /\ mustInstall \subseteq mustInstall' /\ mustRemove \subseteq mustRemove'
  <2>1. sel' = sel \/ sel' = [sel EXCEPT ![k.pkg].env = k.env]
    BY <1>1 DEF EnsureInstalled
  <2>2. \A p \in Package : sel'[p].state = sel[p].state
    BY <2>1 DEF DependenciesTypeOK, Selected
  <2> QED BY <1>1, <2>2 DEF EnsureInstalled
<1> QED BY <1>1 DEF EnsureRemoved, flags

\* A step that keeps the states, and the flags set, keeps the protection.
LEMMA SeedStep ==
  ASSUME SeedInv, UNCHANGED inputs,
         \A p \in Package : sel'[p].state = sel[p].state,
         mustInstall \subseteq mustInstall', mustRemove \subseteq mustRemove',
         pc \in Resolving, pc' \in Resolving
  PROVE  StatesKept' /\ SeedFlagged' /\ NoSeed' /\ SeedKept'
<1>1. seed' = seed /\ before' = before /\ seed \subseteq Package
  BY DEF inputs, SeedInv, TypeInv, DependenciesTypeOK
<1>2. StatesKept'
  BY <1>1 DEF SeedInv, StatesKept
<1>3. SeedFlagged'
  BY <1>1 DEF SeedInv, SeedFlagged
<1>4. NoSeed'
  BY DEF NoSeed
<1>5. SeedKept'
  BY <1>1 DEF SeedInv, SeedKept
<1> QED BY <1>2, <1>3, <1>4, <1>5

LEMMA SeedNext == SeedInv /\ [DependenciesNext]_vars => SeedInv'
<1> SUFFICES ASSUME SeedInv, [DependenciesNext]_vars
             PROVE  StatesKept' /\ SeedFlagged' /\ NoSeed' /\ SeedKept'
  BY TypeNext DEF SeedInv
<1> DEFINE Goal == StatesKept' /\ SeedFlagged' /\ NoSeed' /\ SeedKept'
<1>0. DependenciesTypeOK
  BY DEF SeedInv, TypeInv
<1>1. ASSUME NEW s \in SUBSET Package, FixDependencies(s)
      PROVE  Goal
  <2>1. sel' = sel /\ before' = sel /\ seed' = s /\ pc' = "round"
    BY <1>1 DEF FixDependencies
  <2>2. /\ mustInstall' = {p \in s : sel[p].state > removed}
        /\ mustRemove' = {p \in s : sel[p].state <= removed}
    BY <1>1 DEF FixDependencies
  <2>3. \A p \in s : sel[p].state \in Int
    BY <1>0 DEF DependenciesTypeOK, Selected, PkgState
  <2> QED
    BY <2>1, <2>2, <2>3 DEF StatesKept, SeedFlagged, NoSeed, SeedKept, Resolving, removed
<1>2. CASE RemoveAuto
  BY <1>2 DEF RemoveAuto, StatesKept, SeedFlagged, NoSeed, SeedKept, Resolving
<1>3. CASE Round \/ Visit \/ TryBest \/ CurrentApplied
  <2>1. /\ UNCHANGED <<inputs, sel, flags>>
        /\ pc \in Resolving /\ pc' \in Resolving
    BY <1>3 DEF Round, Visit, TryBest, CurrentApplied, BeginApply, Resolving
  <2> QED BY <2>1, SeedStep DEF flags
<1>4. CASE ApplyNext
  <2> DEFINE k == ResolveAny(Depends(candidate)[next], TRUE)
  <2>1. k \in Key \cup {NoKey}
    BY <1>0, <1>4, NextType DEF ApplyNext
  <2>2. (\E l \in Key : EnsureInstalled(l)) \/ UNCHANGED <<sel, flags, changed>>
    <3>1. (k # NoKey /\ EnsureInstalled(k)) \/ UNCHANGED <<sel, flags, changed>>
      BY <1>4 DEF ApplyNext
    <3> HIDE DEF k
    <3> QED BY <2>1, <3>1
  <2>3. pc' = pc /\ UNCHANGED inputs
    BY <1>4 DEF ApplyNext
  <2>4. /\ \A p \in Package : sel'[p].state = sel[p].state
        /\ mustInstall \subseteq mustInstall' /\ mustRemove \subseteq mustRemove'
    BY <1>0, <2>2, EnsureKeepsStates
  <2>5. CASE pc \in Resolving
    BY <2>3, <2>4, <2>5, SeedStep
  <2>6. CASE pc = "apply_needed"
    BY <2>3, <2>6 DEF SeedInv, StatesKept, SeedFlagged, NoSeed, SeedKept, Resolving, inputs
  <2> QED BY <1>4, <2>5, <2>6 DEF ApplyNext, Resolving
<1>5. CASE BestApplied
  <2>1. candidate \in Key
    BY <1>5 DEF BestApplied, SeedInv, TypeInv, BestCandidate
  <2>2. (\E l \in Key : EnsureInstalled(l)) \/ UNCHANGED <<sel, flags, changed>>
    BY <1>5, <2>1 DEF BestApplied
  <2>3. UNCHANGED inputs /\ pc \in Resolving /\ pc' \in Resolving
    BY <1>5 DEF BestApplied, Resolving
  <2> QED BY <1>0, <2>2, <2>3, EnsureKeepsStates, SeedStep
<1>6. CASE Reject
  <2>1. UNCHANGED inputs /\ pc \in Resolving /\ pc' \in Resolving
    BY <1>6 DEF Reject, Resolving
  <2>2. \E p \in Package : EnsureRemoved(p)
    BY <1>0, <1>6 DEF Reject, DependenciesTypeOK
  <2> QED BY <1>0, <2>1, <2>2, EnsureKeepsStates, SeedStep
<1>7. CASE Check
  <2>1. UNCHANGED inputs /\ pc \in Resolving /\ pc' \in Resolving
    BY <1>7 DEF Check, NextPackage, Resolving
  <2>2. (\E p \in Package : EnsureRemoved(p)) \/ UNCHANGED <<sel, flags, changed>>
    BY <1>0, <1>7 DEF Check, DependenciesTypeOK
  <2> QED BY <1>0, <2>1, <2>2, EnsureKeepsStates, SeedStep
<1>8. CASE ApplyFlags
  <2>1. seed' = seed /\ before' = before /\ seed \subseteq Package
    BY <1>0, <1>8 DEF ApplyFlags, inputs, DependenciesTypeOK
  <2>2. ASSUME NEW p \in seed
        PROVE  (Applied(p).state > removed) <=> (sel[p].state > removed)
    <3>1. p \in IF sel[p].state > removed THEN mustInstall ELSE mustRemove
      BY <1>8 DEF ApplyFlags, SeedInv, SeedFlagged, Resolving
    <3>2. sel[p] \in Selected /\ sel[p].state \in Int
      BY <1>0, <2>1 DEF DependenciesTypeOK, Selected, PkgState
    <3> QED BY <3>1, <3>2 DEF Applied, Wanted, Selected, installed, removed
  <2>3. \A p \in seed : (sel'[p].state > removed) <=> (before[p].state > removed)
    BY <1>8, <2>1, <2>2 DEF ApplyFlags, SeedInv, SeedKept
  <2> QED
    BY <1>8, <2>1, <2>3 DEF ApplyFlags, StatesKept, SeedFlagged, NoSeed, SeedKept, Resolving
<1>9. CASE Sweep \/ Scan \/ NeededApplied \/ Drop
  <2>1. UNCHANGED inputs /\ pc \notin Resolving \cup {"fixed"} /\ pc' \notin Resolving
    BY <1>9 DEF Sweep, Scan, NeededApplied, Drop, BeginApply, NextPackage, Resolving
  <2> QED BY <2>1 DEF SeedInv, StatesKept, SeedFlagged, NoSeed, SeedKept, inputs
<1>10. CASE UNCHANGED vars
  BY <1>10 DEF vars, inputs, flags, SeedInv, StatesKept, SeedFlagged, NoSeed, SeedKept
<1> QED
  BY <1>1, <1>2, <1>3, <1>4, <1>5, <1>6, <1>7, <1>8, <1>9, <1>10
     DEF DependenciesNext, Step

\* For every seed set: no package of it is selected or removed by the
\* resolution, whether or not the dependencies can be fixed.
THEOREM SeedIsKept == DependenciesSpec => []SeedKept
<1>1. SeedInv => SeedKept
  BY DEF SeedInv
<1> QED BY <1>1, SeedInit, SeedNext, PTL DEF DependenciesSpec

-------------------------------------------------------------------------------
(* When fix_dependencies returns true, the dependencies of the packages it *)
(* leaves selected are met.                                                *)

\* The best record of a package is one of the table.
BestKnown ==
  \A p \in Package : best[p] # NoKey => best[p] \in DOMAIN control /\ best[p].pkg = p

\* EnsureInstalled(k) has nothing left to do.
Flagged(k) ==
  /\ k.pkg \in mustInstall
  /\ k.pkg \in mustUpgrade \/ (sel[k.pkg].state >= installed /\ sel[k.pkg].version = k.version)

Supplied(alts) ==
  ResolveAny(alts, TRUE) # NoKey /\ Flagged(ResolveAny(alts, TRUE))

Settled(k) == \A i \in DOMAIN Depends(k) : Supplied(Depends(k)[i])

Keeps(p) == p \notin mustUpgrade /\ sel[p].state >= installed

\* What the two tests of a visit establish, when they change nothing.
Secure(p) ==
  Wanted(p) => \/ Keeps(p) /\ Settled(Current(p))
               \/ best[p] # NoKey /\ Settled(best[p]) /\ Flagged(best[p])
Stays(p) ==
  sel[p].state > removed /\ p \notin mustRemove => Fixable(Current(p), FALSE)

\* The dependencies of the candidate that have been applied.
SuppliedSoFar == fixed => \A i \in 1..next-1 : Supplied(Depends(candidate)[i])

UpgradesInstall == mustUpgrade \subseteq mustInstall

\* A version that will stay selected has a record, if all had one to begin with.
KeptKnown ==
  Known(before) => \A p \in Package : Keeps(p) => Current(p) \in DOMAIN control

\* Where a round is that has not changed anything yet.
InRound ==
  /\ pc \in Resolving \ {"round"} => \A p \in 1..at-1 : Secure(p) /\ Stays(p)
  /\ pc \in {"best", "reject"} => Wanted(at)
  /\ pc = "check" => Secure(at)
  /\ pc = "apply_current" => Wanted(at) /\ Keeps(at) /\ candidate = Current(at) /\ SuppliedSoFar
  /\ pc = "apply_best" => Wanted(at) /\ best[at] # NoKey /\ candidate = best[at] /\ SuppliedSoFar
  /\ pc = "round" => \A p \in Package : Secure(p) /\ Stays(p)

CandidateKnown == pc = "apply_best" => candidate \in DOMAIN control

MetInv ==
  /\ TypeInv /\ BestKnown /\ CandidateKnown
  /\ pc \in Resolving => UpgradesInstall /\ KeptKnown
  /\ pc \in Resolving /\ ~changed => InRound
  /\ DependenciesMet

-------------------------------------------------------------------------------
(* What depends on the tables and the flags only. *)

Frozen == UNCHANGED <<control, best, sel, flags>>

LEMMA FrozenResolve ==
  ASSUME Frozen, NEW d, NEW a
  PROVE  Resolve(d, a)' = Resolve(d, a)
BY DEF Frozen, flags, Resolve, Matches, Current, KeyOf

LEMMA FrozenFirstOf ==
  ASSUME Frozen, NEW alts, NEW a
  PROVE  FirstOf(alts, a)' = FirstOf(alts, a)
BY DEF FirstOf, Frozen, flags, Resolve, Matches, Current, KeyOf

LEMMA FrozenSupplied ==
  ASSUME Frozen, NEW alts
  PROVE  Supplied(alts)' <=> Supplied(alts)
BY FrozenFirstOf DEF ResolveAny, Supplied, Flagged, Frozen, flags

LEMMA FrozenRecords ==
  ASSUME Frozen, NEW p
  PROVE  /\ Depends(Current(p))' = Depends(Current(p))
         /\ Depends(best[p])' = Depends(best[p])
         /\ Depends(p)' = Depends(p)
BY DEF Frozen, Depends, Current, KeyOf

LEMMA FrozenSecure ==
  ASSUME Frozen, NEW p
  PROVE  Secure(p)' <=> Secure(p)
<1>1. Settled(Current(p))' <=> Settled(Current(p))
  <2>1. \A i : Supplied(Depends(Current(p))[i])' <=> Supplied(Depends(Current(p))[i])
    BY FrozenRecords, FrozenSupplied
  <2> QED BY <2>1, FrozenRecords DEF Settled
<1>2. Settled(best[p])' <=> Settled(best[p])
  <2>1. \A i : Supplied(Depends(best[p])[i])' <=> Supplied(Depends(best[p])[i])
    BY FrozenRecords, FrozenSupplied
  <2> QED BY <2>1, FrozenRecords DEF Settled
<1>3. /\ Wanted(p)' <=> Wanted(p)
      /\ Keeps(p)' <=> Keeps(p)
      /\ Flagged(best[p])' <=> Flagged(best[p])
      /\ best'[p] = best[p]
  BY DEF Frozen, flags, Wanted, Keeps, Flagged
<1> QED BY <1>1, <1>2, <1>3 DEF Secure

LEMMA FrozenStays ==
  ASSUME Frozen, NEW p
  PROVE  Stays(p)' <=> Stays(p)
<1>1. \A alts : (ResolveAny(alts, FALSE) # NoKey)' <=> (ResolveAny(alts, FALSE) # NoKey)
  BY FrozenFirstOf DEF ResolveAny
<1>2. Fixable(Current(p), FALSE)' <=> Fixable(Current(p), FALSE)
  BY <1>1, FrozenRecords DEF Fixable
<1> QED BY <1>2 DEF Frozen, flags, Stays

\* The steps that change nothing but where the operation is.
LEMMA FrozenInRound ==
  ASSUME Frozen, UNCHANGED at, NEW p
  PROVE  /\ Keeps(at)' <=> Keeps(at)
         /\ Current(at)' = Current(at)
         /\ Wanted(at)' <=> Wanted(at)
         /\ best'[at'] = best[at]
         /\ Secure(at)' <=> Secure(at)
<1>1. /\ Keeps(at)' <=> Keeps(at)
      /\ Current(at)' = Current(at)
      /\ Wanted(at)' <=> Wanted(at)
      /\ best'[at'] = best[at]
  BY DEF Frozen, flags, Wanted, Keeps, Current, KeyOf
<1>2. Secure(at)' <=> Secure(at)
  BY FrozenSecure
<1> QED BY <1>1, <1>2

-------------------------------------------------------------------------------
(* What a dependency is resolved to. *)

\* A dependency is resolved to the version of its package that stays or, when
\* the package may change, to the best one.
LEMMA ResolveAnyFrom ==
  ASSUME DependenciesTypeOK, NEW alts \in Seq(Dependency), NEW a \in BOOLEAN,
         ResolveAny(alts, a) # NoKey
  PROVE  \E d \in Range(alts) :
           /\ d \in Dependency
           /\ d.pkg \notin mustRemove
           /\ Matches(ResolveAny(alts, a), d)
           /\ \/ Keeps(d.pkg) /\ ResolveAny(alts, a) = Current(d.pkg)
              \/ (a \/ d.pkg \in mustUpgrade) /\ ResolveAny(alts, a) = best[d.pkg]
<1>1. PICK b \in BOOLEAN : (b => a) /\ ResolveAny(alts, a) = FirstOf(alts, b)
  BY DEF ResolveAny
<1> DEFINE good == {i \in DOMAIN alts : Resolve(alts[i], b) # NoKey}
           first == CHOOSE i \in good : \A j \in good : i <= j
<1>2. good # {} /\ FirstOf(alts, b) = Resolve(alts[first], b)
  BY <1>1 DEF FirstOf
<1>3. first \in good
  <2>1. good \subseteq Nat
    OBVIOUS
  <2> HIDE DEF good
  <2> QED BY <1>2, <2>1, LeastExists
<1>4. alts[first] \in Range(alts) /\ alts[first] \in Dependency
  <2>1. first \in DOMAIN alts
    BY <1>3
  <2> HIDE DEF first
  <2> QED BY <2>1 DEF Range
<1>5. ResolveAny(alts, a) = Resolve(alts[first], b)
  BY <1>1, <1>2
<1> HIDE DEF first, good
<1>6. ASSUME NEW d \in Dependency, Resolve(d, b) # NoKey
      PROVE  /\ d.pkg \notin mustRemove
             /\ Matches(Resolve(d, b), d)
             /\ \/ Keeps(d.pkg) /\ Resolve(d, b) = Current(d.pkg)
                \/ (b \/ d.pkg \in mustUpgrade) /\ Resolve(d, b) = best[d.pkg]
  BY <1>6 DEF Resolve, Keeps
<1> QED BY <1>1, <1>4, <1>5, <1>6

LEMMA ResolveAnyKnown ==
  ASSUME DependenciesTypeOK, NEW alts \in Seq(Dependency), NEW a \in BOOLEAN,
         ResolveAny(alts, a) # NoKey
  PROVE  ResolveAny(alts, a) \in DOMAIN control
BY ResolveAnyFrom DEF Matches

\* A call that changes nothing finds the flags as it would have set them.
LEMMA NothingToDo ==
  ASSUME DependenciesTypeOK, NEW k \in Key, EnsureInstalled(k), ~changed'
  PROVE  ~changed /\ UNCHANGED <<sel, flags>> /\ Flagged(k)
<1> DEFINE new == k.pkg \notin mustInstall
           up  == /\ k.pkg \notin mustUpgrade
                  /\ sel[k.pkg].state < installed \/ sel[k.pkg].version # k.version
<1>1. changed' = (changed \/ new \/ up)
  BY DEF EnsureInstalled
<1>2. ~changed /\ ~new /\ ~up
  BY <1>1
<1>3. UNCHANGED <<sel, flags>>
  BY <1>2 DEF EnsureInstalled, flags
<1>4. sel[k.pkg].state \in Int
  BY DEF DependenciesTypeOK, Selected, PkgState, Key
<1>5. Flagged(k)
  BY <1>2, <1>4 DEF Flagged, installed
<1> QED BY <1>2, <1>3, <1>5

LEMMA EnsureKeepsKnown ==
  ASSUME DependenciesTypeOK, UpgradesInstall, KeptKnown, UNCHANGED <<control, before>>,
         \/ \E k \in DOMAIN control : EnsureInstalled(k)
         \/ \E p \in Package : EnsureRemoved(p)
         \/ UNCHANGED <<sel, flags>>
  PROVE  UpgradesInstall' /\ KeptKnown'
<1>1. ASSUME NEW k \in DOMAIN control, EnsureInstalled(k)
      PROVE  UpgradesInstall' /\ KeptKnown'
  <2>1. k \in Key
    BY DEF DependenciesTypeOK, ControlTable
  <2>2. UpgradesInstall'
    BY <1>1 DEF EnsureInstalled, UpgradesInstall
  <2>3. ASSUME NEW p \in Package, Known(before), Keeps(p)'
        PROVE  Current(p)' \in DOMAIN control
    <3>1. CASE sel'[p] = sel[p]
      <4>1. Keeps(p)
        BY <1>1, <2>3, <3>1 DEF EnsureInstalled, Keeps
      <4>2. Current(p)' = Current(p)
        BY <3>1 DEF Current, KeyOf
      <4> QED BY <2>3, <4>1, <4>2 DEF KeptKnown
    <3>2. CASE sel'[p] # sel[p]
      <4>1. p = k.pkg /\ sel' = [sel EXCEPT ![p].env = k.env]
        BY <1>1, <3>2 DEF EnsureInstalled, DependenciesTypeOK
      <4>2. sel[p].state >= installed /\ sel[p].version = k.version
        BY <1>1, <2>3, <4>1 DEF EnsureInstalled, Keeps, DependenciesTypeOK, Selected, PkgState, installed
      <4>3. sel'[p].version = k.version /\ sel'[p].env = k.env
        BY <4>1, <4>2 DEF DependenciesTypeOK, Selected
      <4>4. Current(p)' = k
        BY <2>1, <4>1, <4>3 DEF Current, KeyOf, Key
      <4> QED BY <4>4
    <3> QED BY <3>1, <3>2
  <2> QED BY <2>2, <2>3 DEF KeptKnown, Known, KeyOf
<1>2. ASSUME NEW p \in Package, EnsureRemoved(p)
      PROVE  UpgradesInstall' /\ KeptKnown'
  BY <1>2 DEF EnsureRemoved, UpgradesInstall, KeptKnown, Known, Keeps, Current, KeyOf
<1>3. CASE UNCHANGED <<sel, flags>>
  BY <1>3 DEF flags, UpgradesInstall, KeptKnown, Known, Keeps, Current, KeyOf
<1> QED BY <1>1, <1>2, <1>3

-------------------------------------------------------------------------------
(* What the flags make of the selection. *)

LEMMA AppliedKeeps ==
  ASSUME NEW p, p \notin mustRemove, Keeps(p), sel[p].state \in Int
  PROVE  Applied(p) = sel[p]
BY DEF Applied, Keeps, Wanted, installed

LEMMA AppliedBest ==
  ASSUME DependenciesTypeOK, BestKnown, NEW p \in Package, best[p] # NoKey,
         Wanted(p), p \in mustUpgrade \/ sel[p].state < installed,
         NEW s, s = [q \in Package |-> Applied(q)]
  PROVE  s[p].state = installed /\ KeyOf(s, p) = best[p]
<1>1. s[p] = [state |-> installed, version |-> best[p].version, env |-> best[p].env,
              auto |-> sel[p].auto \/ sel[p].state <= removed]
  BY DEF Applied
<1>2. best[p] \in Key /\ best[p].pkg = p
  BY DEF DependenciesTypeOK, BestKnown
<1> QED BY <1>1, <1>2 DEF KeyOf, Key

\* When no package has both flags, what the last round resolved is selected.
LEMMA AppliedMeets ==
  ASSUME DependenciesTypeOK, BestKnown, KeptKnown, Known(before),
         NEW d \in Dependency, d.pkg \notin mustRemove, NEW k, Matches(k, d),
         \/ Keeps(d.pkg) /\ k = Current(d.pkg)
         \/ Wanted(d.pkg) /\ k = best[d.pkg] /\ Flagged(k),
         NEW s, s = [q \in Package |-> Applied(q)]
  PROVE  Meets(s, d)
<1> DEFINE p == d.pkg
<1>1. p \in Package /\ sel[p].state \in Int /\ installed \in Int
  BY DEF Dependency, DependenciesTypeOK, Selected, PkgState, installed
<1>2. k # NoKey /\ k \in DOMAIN control /\ k.pkg = p
  BY NoKeyIsNone DEF Matches, DependenciesTypeOK, ControlTable
<1>3. CASE Keeps(p)
  <2>1. s[p] = sel[p]
    BY <1>1, <1>3, AppliedKeeps
  <2>2. KeyOf(s, p) = Current(p)
    BY <2>1 DEF KeyOf, Current
  <2>3. Current(p) \in DOMAIN control
    BY <1>1, <1>3 DEF KeptKnown
  <2>4. Current(p).version = k.version
    BY <1>2, <1>3 DEF Flagged, Keeps, Current, KeyOf
  <2>5. Current(p).pkg = p
    BY DEF Current, KeyOf
  <2>6. Matches(Current(p), d)
    BY <2>3, <2>4, <2>5 DEF Matches, Compares
  <2> QED BY <1>3, <2>1, <2>2, <2>6 DEF Meets, Keeps
<1>4. CASE ~Keeps(p)
  <2>1. p \in mustUpgrade \/ sel[p].state < installed
    BY <1>1, <1>4 DEF Keeps
  <2>2. Wanted(p) /\ k = best[p]
    BY <1>4
  <2>3. s[p].state = installed /\ KeyOf(s, p) = best[p]
    BY <1>1, <1>2, <2>1, <2>2, AppliedBest
  <2> QED BY <1>1, <2>2, <2>3 DEF Meets
<1> QED BY <1>3, <1>4

LEMMA LastRound ==
  ASSUME DependenciesTypeOK, BestKnown, KeptKnown, UpgradesInstall, Known(before),
         \A p \in Package : Secure(p) /\ Stays(p),
         mustInstall \cap mustRemove = {},
         NEW s, s = [q \in Package |-> Applied(q)]
  PROVE  Satisfied(s)
<1> SUFFICES ASSUME NEW p \in Package, s[p].state > removed,
                    NEW alts \in Range(Depends(KeyOf(s, p)))
             PROVE  \E d \in Range(alts) : Meets(s, d)
  BY DEF Satisfied
<1>1. sel[p].state \in Int /\ s[p] = Applied(p) /\ Depends(KeyOf(s, p)) \in Seq(Seq(Dependency))
  <2>1. sel[p].state \in Int
    BY DEF DependenciesTypeOK, Selected, PkgState
  <2>2. s[p] = Applied(p)
    OBVIOUS
  <2>3. Depends(KeyOf(s, p)) \in Seq(Seq(Dependency))
    BY DependsType DEF DependencyList
  <2> QED
    BY <2>1, <2>2, <2>3
<1>2. alts \in Seq(Dependency)
  BY <1>1 DEF Range
<1>3. p \notin mustRemove
  <2>1. ASSUME p \in mustRemove
        PROVE  FALSE
    <3>1. p \in mustRemove \ mustInstall /\ ~Wanted(p)
      BY <2>1 DEF Wanted
    <3>2. sel[p] \in Selected
      BY DEF DependenciesTypeOK
    <3>3. Applied(p).state = IF sel[p].state > removed THEN removed ELSE sel[p].state
      BY <3>1, <3>2 DEF Applied, Selected
    <3> QED BY <1>1, <3>3 DEF removed
  <2> QED BY <2>1
<1>4. CASE Wanted(p) /\ (p \in mustUpgrade \/ sel[p].state < installed)
  <2>1. best[p] # NoKey /\ Settled(best[p])
    BY <1>1, <1>4 DEF Secure, Keeps, installed
  <2>2. KeyOf(s, p) = best[p]
    BY <1>4, <2>1, AppliedBest
  <2>3. Supplied(alts)
    BY <2>1, <2>2 DEF Settled, Range
  <2> DEFINE k == ResolveAny(alts, TRUE)
  <2>4. k # NoKey /\ Flagged(k)
    BY <2>3 DEF Supplied
  <2>5. PICK d \in Range(alts) :
          /\ d \in Dependency /\ d.pkg \notin mustRemove /\ Matches(k, d)
          /\ \/ Keeps(d.pkg) /\ k = Current(d.pkg)
             \/ k = best[d.pkg]
    BY <1>2, <2>4, ResolveAnyFrom
  <2>6. Wanted(d.pkg)
    BY <2>4, <2>5 DEF Flagged, Matches, Wanted
  <2> HIDE DEF k
  <2> QED BY <2>4, <2>5, <2>6, AppliedMeets
<1>5. CASE ~(Wanted(p) /\ (p \in mustUpgrade \/ sel[p].state < installed))
  <2>1. s[p] = sel[p] /\ KeyOf(s, p) = Current(p)
    BY <1>1, <1>3, <1>5 DEF Applied, KeyOf, Current
  <2>2. Fixable(Current(p), FALSE)
    BY <1>3, <2>1 DEF Stays
  <2> DEFINE k == ResolveAny(alts, FALSE)
  <2>3. k # NoKey
    BY <2>1, <2>2 DEF Fixable
  <2>4. PICK d \in Range(alts) :
          /\ d \in Dependency /\ d.pkg \notin mustRemove /\ Matches(k, d)
          /\ \/ Keeps(d.pkg) /\ k = Current(d.pkg)
             \/ d.pkg \in mustUpgrade /\ k = best[d.pkg]
    BY <1>2, <2>3, ResolveAnyFrom
  <2>5. d.pkg \in mustUpgrade => Wanted(d.pkg)
    BY <2>4 DEF UpgradesInstall, Wanted
  <2>6. d.pkg \in mustUpgrade => Flagged(k)
    BY <2>4 DEF Flagged, UpgradesInstall, Matches
  <2> HIDE DEF k
  <2> QED BY <2>4, <2>5, <2>6, AppliedMeets
<1> QED BY <1>4, <1>5

-------------------------------------------------------------------------------
(* The tables, and the records that stay known. *)

LEMMA MetInit == DependenciesInit => MetInv
<1> SUFFICES ASSUME DependenciesInit
             PROVE  MetInv
  OBVIOUS
<1>1. pc = "idle" /\ TypeInv
  BY TypeInit DEF DependenciesInit
<1>2. BestKnown
  BY DEF DependenciesInit, BestKnown, IsBest, Candidates
<1> QED BY <1>1, <1>2 DEF MetInv, CandidateKnown, DependenciesMet, Resolving

LEMMA TablesKept ==
  ASSUME [DependenciesNext]_vars
  PROVE  UNCHANGED <<control, best>>
BY DEF DependenciesNext, Step, FixDependencies, RemoveAuto, Round, Visit, TryBest, ApplyNext,
       CurrentApplied, BestApplied, Reject, Check, ApplyFlags, Sweep, Scan, NeededApplied,
       Drop, vars, inputs

LEMMA CandidateNext ==
  ASSUME MetInv, [DependenciesNext]_vars
  PROVE  CandidateKnown'
<1> SUFFICES ASSUME pc' = "apply_best"
             PROVE  candidate' \in DOMAIN control
  BY TablesKept DEF CandidateKnown
<1>1. CASE TryBest
  BY <1>1 DEF TryBest, BeginApply, MetInv, BestKnown, TypeInv, DependenciesTypeOK
<1>2. CASE ApplyNext \/ UNCHANGED vars
  BY <1>2 DEF ApplyNext, vars, apply, MetInv, CandidateKnown
<1> QED
  BY <1>1, <1>2 DEF DependenciesNext, Step, FixDependencies, RemoveAuto, Round, Visit,
     BeginApply, CurrentApplied, BestApplied, Reject, Check, NextPackage, ApplyFlags, Sweep,
     Scan, NeededApplied, Drop

\* The record to which the next dependency is resolved is in the table.
LEMMA NextKnown ==
  ASSUME DependenciesTypeOK, next <= Len(Depends(candidate)),
         ResolveAny(Depends(candidate)[next], TRUE) # NoKey
  PROVE  ResolveAny(Depends(candidate)[next], TRUE) \in DOMAIN control
<1>1. Depends(candidate) \in Seq(Seq(Dependency)) /\ next \in Nat \ {0}
  BY DependsType DEF DependencyList, DependenciesTypeOK
<1>2. Depends(candidate)[next] \in Seq(Dependency)
  BY <1>1
<1> QED BY <1>2, ResolveAnyKnown

LEMMA KnownNext ==
  ASSUME MetInv, [DependenciesNext]_vars, pc' \in Resolving
  PROVE  UpgradesInstall' /\ KeptKnown'
<1> DEFINE Kept == \/ \E k \in DOMAIN control : EnsureInstalled(k)
                   \/ \E p \in Package : EnsureRemoved(p)
                   \/ UNCHANGED <<sel, flags>>
<1>0. DependenciesTypeOK /\ at \in Package
  BY DEF MetInv, TypeInv, DependenciesTypeOK
<1>1. ASSUME NEW s \in SUBSET Package, FixDependencies(s)
      PROVE  UpgradesInstall' /\ KeptKnown'
  BY <1>1 DEF FixDependencies, UpgradesInstall, KeptKnown, Keeps, Known, Current, KeyOf
<1>2. CASE Step \/ UNCHANGED vars
  <2>1. UNCHANGED <<control, before>> /\ pc \in Resolving
    BY <1>2 DEF Step, Round, Visit, TryBest, ApplyNext, CurrentApplied, BestApplied, Reject,
       Check, ApplyFlags, Sweep, Scan, NeededApplied, Drop, vars, inputs, Resolving,
       BeginApply, NextPackage
  <2>2. Kept
    <3>1. CASE Round \/ Visit \/ TryBest \/ CurrentApplied \/ UNCHANGED vars
      BY <3>1 DEF Round, Visit, TryBest, CurrentApplied, vars
    <3>2. CASE ApplyNext
      BY <1>0, <3>2, NextKnown DEF ApplyNext
    <3>3. CASE BestApplied
      BY <3>3 DEF BestApplied, MetInv, CandidateKnown
    <3>4. CASE Reject \/ Check
      BY <1>0, <3>4 DEF Reject, Check
    <3>5. CASE ApplyFlags \/ Sweep \/ Scan \/ NeededApplied \/ Drop
      BY <2>1, <3>5 DEF ApplyFlags, Sweep, Scan, NeededApplied, Drop, Resolving
    <3> QED BY <1>2, <3>1, <3>2, <3>3, <3>4, <3>5 DEF Step
  <2> HIDE DEF Kept
  <2>3. UpgradesInstall /\ KeptKnown
    BY <2>1 DEF MetInv
  <2> QED BY <1>0, <2>1, <2>2, <2>3, EnsureKeepsKnown DEF Kept
<1>3. CASE RemoveAuto
  BY <1>3 DEF RemoveAuto, Resolving
<1> QED BY <1>1, <1>2, <1>3 DEF DependenciesNext

-------------------------------------------------------------------------------
(* A round that changes nothing. *)

Earlier == \A p \in 1..at-1 : Secure(p) /\ Stays(p)

LEMMA FrozenEarlier ==
  ASSUME Frozen, UNCHANGED at, Earlier
  PROVE  Earlier'
<1>1. \A p : (Secure(p)' <=> Secure(p)) /\ (Stays(p)' <=> Stays(p))
  BY FrozenSecure, FrozenStays
<1> QED BY <1>1 DEF Earlier

LEMMA FrozenSuppliedSoFar ==
  ASSUME Frozen, UNCHANGED <<candidate, next>>, fixed' => fixed, SuppliedSoFar
  PROVE  SuppliedSoFar'
<1>1. \A i : Supplied(Depends(candidate)[i])' <=> Supplied(Depends(candidate)[i])
  BY FrozenRecords, FrozenSupplied
<1> QED BY <1>1 DEF SuppliedSoFar

LEMMA ApplyInRound ==
  ASSUME MetInv, ApplyNext, pc \in Resolving, ~changed'
  PROVE  InRound'
<1> DEFINE k == ResolveAny(Depends(candidate)[next], TRUE)
<1>1. DependenciesTypeOK /\ k \in Key \cup {NoKey} /\ next \in Nat \ {0}
  BY NextType DEF MetInv, TypeInv, DependenciesTypeOK, ApplyNext
<1>2. UNCHANGED <<control, best, pc, at, candidate>> /\ next' = next + 1
  BY DEF ApplyNext, inputs
<1>3. \/ k # NoKey /\ EnsureInstalled(k) /\ UNCHANGED fixed
      \/ k = NoKey /\ ~fixed' /\ UNCHANGED <<sel, flags, changed>>
  BY DEF ApplyNext
<1>4. ~changed /\ Frozen /\ (fixed' => fixed /\ k # NoKey /\ Flagged(k))
  <2> HIDE DEF k
  <2> QED BY <1>1, <1>2, <1>3, NothingToDo DEF Frozen
<1>5. InRound
  BY <1>4 DEF MetInv
<1>6. SuppliedSoFar => SuppliedSoFar'
  <2> SUFFICES ASSUME SuppliedSoFar, fixed', NEW i \in 1..next'-1
               PROVE  Supplied(Depends(candidate)[i])'
    BY <1>2, FrozenRecords, <1>4 DEF SuppliedSoFar
  <2>1. CASE i = next
    <3>1. Supplied(Depends(candidate)[i])
      BY <1>4, <2>1 DEF Supplied
    <3> QED BY <3>1, <1>2, <1>4, FrozenRecords, FrozenSupplied
  <2>2. CASE i # next
    <3>1. Supplied(Depends(candidate)[i])
      BY <1>1, <1>2, <1>4, <2>2 DEF SuppliedSoFar
    <3> QED BY <3>1, <1>2, <1>4, FrozenRecords, FrozenSupplied
  <2> QED BY <2>1, <2>2
<1>7. Earlier /\ Earlier'
  BY <1>2, <1>4, <1>5, FrozenEarlier DEF InRound, Earlier, ApplyNext
<1>8. /\ Keeps(at)' <=> Keeps(at)
      /\ Current(at)' = Current(at)
      /\ Wanted(at)' <=> Wanted(at)
      /\ best'[at'] = best[at]
  BY <1>2, <1>4, FrozenInRound
<1>9. pc \in {"apply_current", "apply_best"}
  BY DEF ApplyNext, Resolving
<1> QED BY <1>2, <1>5, <1>6, <1>7, <1>8, <1>9 DEF InRound, Earlier

LEMMA BestInRound ==
  ASSUME MetInv, BestApplied, ~changed'
  PROVE  InRound'
<1>1. DependenciesTypeOK /\ candidate \in Key
  BY DEF MetInv, TypeInv, BestCandidate, BestApplied
<1>2. UNCHANGED <<control, best, at, candidate>> /\ pc = "apply_best" /\ AllApplied
  BY DEF BestApplied, inputs, apply
<1>3. ~changed /\ Frozen /\ (fixed => Flagged(candidate))
  BY <1>1, <1>2, NothingToDo DEF BestApplied, Frozen
<1>4. Earlier /\ Wanted(at) /\ best[at] # NoKey /\ candidate = best[at] /\ SuppliedSoFar
  BY <1>2, <1>3 DEF MetInv, InRound, Earlier, Resolving
<1>5. CASE fixed
  <2>1. Settled(best[at])
    <3>1. next \in Nat /\ Depends(candidate) \in Seq(Seq(Dependency))
      BY <1>1, DependsType DEF DependenciesTypeOK, DependencyList
    <3> QED BY <1>2, <1>4, <1>5, <3>1 DEF Settled, SuppliedSoFar, AllApplied
  <2>2. Secure(at)
    BY <1>3, <1>4, <1>5, <2>1 DEF Secure
  <2>3. Secure(at)' /\ Earlier' /\ pc' = "check"
    BY <1>2, <1>3, <1>4, <1>5, <2>2, FrozenInRound, FrozenEarlier DEF BestApplied
  <2> QED BY <2>3 DEF InRound, Earlier
<1>6. CASE ~fixed
  <2>1. Wanted(at)' /\ Earlier' /\ pc' = "reject"
    BY <1>2, <1>3, <1>4, <1>6, FrozenInRound, FrozenEarlier DEF BestApplied
  <2> QED BY <2>1 DEF InRound, Earlier
<1> QED BY <1>5, <1>6

LEMMA CurrentInRound ==
  ASSUME MetInv, CurrentApplied, ~changed'
  PROVE  InRound'
<1>1. Frozen /\ UNCHANGED at /\ ~changed /\ pc = "apply_current" /\ AllApplied
  BY DEF CurrentApplied, inputs, Frozen
<1>2. Earlier /\ Wanted(at) /\ Keeps(at) /\ candidate = Current(at) /\ SuppliedSoFar
  BY <1>1 DEF MetInv, InRound, Earlier, Resolving
<1>3. Earlier' /\ (Wanted(at)' <=> Wanted(at)) /\ (Secure(at)' <=> Secure(at))
  BY <1>1, <1>2, FrozenInRound, FrozenEarlier
<1>4. CASE fixed
  <2>1. Settled(Current(at))
    <3>1. next \in Nat /\ Depends(candidate) \in Seq(Seq(Dependency))
      BY DependsType DEF MetInv, TypeInv, DependenciesTypeOK, DependencyList
    <3> QED BY <1>1, <1>2, <1>4, <3>1 DEF Settled, SuppliedSoFar, AllApplied
  <2>2. Secure(at) /\ pc' = "check"
    BY <1>2, <1>4, <2>1 DEF Secure, CurrentApplied
  <2> QED BY <1>3, <2>2 DEF InRound, Earlier
<1>5. CASE ~fixed
  <2>1. pc' = "best"
    BY <1>5 DEF CurrentApplied
  <2> QED BY <1>2, <1>3, <2>1 DEF InRound, Earlier
<1> QED BY <1>4, <1>5

LEMMA CheckInRound ==
  ASSUME MetInv, Check, ~changed'
  PROVE  InRound'
<1>1. UNCHANGED <<control, best>> /\ at \in Package /\ pc = "check"
  BY DEF Check, inputs, MetInv, TypeInv, DependenciesTypeOK
<1>2. Frozen /\ ~changed /\ Stays(at)
  BY <1>1 DEF Check, EnsureRemoved, Frozen, Stays
<1>3. Earlier /\ Secure(at)
  BY <1>1, <1>2 DEF MetInv, InRound, Earlier, Resolving
<1>4. \A p : (Secure(p)' <=> Secure(p)) /\ (Stays(p)' <=> Stays(p))
  BY <1>2, FrozenSecure, FrozenStays
<1>5. \A p \in 1..at : Secure(p)' /\ Stays(p)'
  BY <1>1, <1>2, <1>3, <1>4 DEF Earlier, Package
<1>6. CASE at < NumPackages
  <2>1. at' = at + 1 /\ pc' = "visit"
    BY <1>6 DEF Check, NextPackage
  <2>2. 1..at'-1 = 1..at
    BY <1>1, <2>1 DEF Package
  <2> QED BY <1>5, <2>1, <2>2 DEF InRound
<1>7. CASE ~(at < NumPackages)
  <2>1. at = NumPackages /\ pc' = "round"
    BY <1>1, <1>7, NumPackagesAssumption DEF Check, NextPackage, Package
  <2> QED BY <1>5, <2>1 DEF InRound, Package
<1> QED BY <1>6, <1>7

LEMMA VisitInRound ==
  ASSUME MetInv, Visit \/ TryBest, ~changed'
  PROVE  InRound'
<1>1. Frozen /\ UNCHANGED at /\ ~changed /\ pc \in {"visit", "best"}
  <2>1. UNCHANGED <<inputs, sel, flags, changed, at>> /\ pc \in {"visit", "best"}
    BY DEF Visit, TryBest
  <2> QED BY <2>1 DEF inputs, Frozen
<1>2. Earlier /\ (pc = "best" => Wanted(at))
  BY <1>1 DEF MetInv, InRound, Earlier, Resolving
<1>3. /\ Earlier'
      /\ Wanted(at)' <=> Wanted(at)
      /\ Keeps(at)' <=> Keeps(at)
      /\ Current(at)' = Current(at)
      /\ best'[at'] = best[at]
      /\ Secure(at)' <=> Secure(at)
  BY <1>1, <1>2, FrozenInRound, FrozenEarlier
<1>4. CASE Visit
  <2>1. \/ /\ Wanted(at) /\ Keeps(at) /\ candidate' = Current(at) /\ next' = 1
           /\ pc' = "apply_current"
        \/ Wanted(at) /\ pc' = "best"
        \/ ~Wanted(at) /\ pc' = "check"
    BY <1>4 DEF Visit, BeginApply, Keeps
  <2>2. next' = 1 => SuppliedSoFar'
    BY DEF SuppliedSoFar
  <2>3. ~Wanted(at) => Secure(at)
    BY DEF Secure
  <2> QED BY <1>3, <2>1, <2>2, <2>3 DEF InRound, Earlier
<1>5. CASE TryBest
  <2>1. /\ Wanted(at)
        /\ \/ /\ best[at] # NoKey /\ candidate' = best[at] /\ next' = 1
              /\ pc' = "apply_best"
           \/ pc' = "reject"
    BY <1>2, <1>5 DEF TryBest, BeginApply
  <2>2. next' = 1 => SuppliedSoFar'
    BY DEF SuppliedSoFar
  <2> QED BY <1>3, <2>1, <2>2 DEF InRound, Earlier
<1> QED BY <1>4, <1>5

LEMMA InRoundNext ==
  ASSUME MetInv, [DependenciesNext]_vars, pc' \in Resolving, ~changed'
  PROVE  InRound'
<1>1. CASE Round
  <2>1. pc' = "visit" /\ at' = 1
    BY <1>1 DEF Round
  <2> QED BY <2>1 DEF InRound
<1>2. CASE Visit \/ TryBest
  BY <1>2, VisitInRound
<1>3. CASE ApplyNext
  BY <1>3, ApplyInRound DEF ApplyNext
<1>4. CASE CurrentApplied
  BY <1>4, CurrentInRound
<1>5. CASE BestApplied
  BY <1>5, BestInRound
<1>6. CASE Reject
  \* The package has must-install and not must-remove, which is set now.
  <2>1. ~changed /\ at \in mustRemove /\ pc = "reject"
    BY <1>6 DEF Reject, EnsureRemoved
  <2>2. Wanted(at)
    BY <2>1 DEF MetInv, InRound, Resolving
  <2> QED BY <2>1, <2>2 DEF Wanted
<1>7. CASE Check
  BY <1>7, CheckInRound
<1>8. CASE UNCHANGED vars
  <2>1. Frozen /\ UNCHANGED <<at, pc, candidate, next, fixed, changed>>
    BY <1>8 DEF vars, inputs, flags, apply, Frozen
  <2>2. InRound
    BY <2>1 DEF MetInv
  <2>3. \A p : (Secure(p)' <=> Secure(p)) /\ (Stays(p)' <=> Stays(p))
    BY <2>1, FrozenSecure, FrozenStays
  <2>4. SuppliedSoFar => SuppliedSoFar'
    BY <2>1, FrozenSuppliedSoFar
  <2>5. /\ Keeps(at)' <=> Keeps(at)
        /\ Current(at)' = Current(at)
        /\ Wanted(at)' <=> Wanted(at)
        /\ best'[at'] = best[at]
    BY <2>1, FrozenInRound
  <2> QED BY <2>1, <2>2, <2>3, <2>4, <2>5 DEF InRound
<1>9. ASSUME NEW s \in SUBSET Package, FixDependencies(s)
      PROVE  FALSE
  BY <1>9 DEF FixDependencies
<1>10. CASE RemoveAuto \/ ApplyFlags \/ Sweep \/ Scan \/ NeededApplied \/ Drop
  BY <1>10 DEF RemoveAuto, ApplyFlags, Sweep, Scan, NeededApplied, Drop, BeginApply,
     NextPackage, Resolving
<1> QED
  BY <1>1, <1>2, <1>3, <1>4, <1>5, <1>6, <1>7, <1>8, <1>9, <1>10
     DEF DependenciesNext, Step

-------------------------------------------------------------------------------
(* The result. *)

LEMMA MetNext ==
  ASSUME MetInv, [DependenciesNext]_vars
  PROVE  DependenciesMet'
<1> SUFFICES ASSUME pc' = "fixed", success', Known(before)'
             PROVE  Satisfied(sel)'
  BY DEF DependenciesMet
<1>1. control' = control
  BY TablesKept
<1>2. \A s : Satisfied(s)' <=> Satisfied(s')
  BY <1>1 DEF Satisfied, Meets, Matches, KeyOf, Depends, Compares
<1>3. CASE ApplyFlags
  <2>1. /\ sel' = [p \in Package |-> Applied(p)]
        /\ mustInstall \cap mustRemove = {}
        /\ pc = "round" /\ ~changed
        /\ before' = before
    BY <1>3 DEF ApplyFlags, inputs
  <2>2. Known(before)
    BY <1>1, <2>1 DEF Known, KeyOf
  <2>3. /\ DependenciesTypeOK /\ BestKnown /\ KeptKnown /\ UpgradesInstall
        /\ \A p \in Package : Secure(p) /\ Stays(p)
    BY <2>1 DEF MetInv, TypeInv, InRound, Resolving
  <2>4. Satisfied(sel')
    BY <2>1, <2>2, <2>3, LastRound
  <2> QED BY <1>1, <2>4 DEF Satisfied, Meets, Matches, KeyOf, Depends, Compares
<1>4. CASE UNCHANGED vars
  BY <1>4 DEF vars, inputs, MetInv, DependenciesMet, Known, Satisfied, Meets, Matches, KeyOf,
     Depends, Compares
<1> QED
  BY <1>3, <1>4 DEF DependenciesNext, Step, FixDependencies, RemoveAuto, Round, Visit,
     TryBest, BeginApply, ApplyNext, CurrentApplied, BestApplied, Reject, Check, NextPackage,
     Sweep, Scan, NeededApplied, Drop

LEMMA MetInvNext == MetInv /\ [DependenciesNext]_vars => MetInv'
<1> SUFFICES ASSUME MetInv, [DependenciesNext]_vars
             PROVE  MetInv'
  OBVIOUS
<1>1. TypeInv'
  BY TypeNext DEF MetInv
<1>2. BestKnown'
  BY TablesKept DEF MetInv, BestKnown
<1> QED BY <1>1, <1>2, CandidateNext, KnownNext, InRoundNext, MetNext DEF MetInv

\* When fix_dependencies returns true and the table has a record of what was
\* installed before, the dependencies of every selected package are met,
\* however the rounds and the alternatives interact.
THEOREM DependenciesAreMet == DependenciesSpec => []DependenciesMet
<1>1. MetInv => DependenciesMet
  BY DEF MetInv
<1> QED BY <1>1, MetInit, MetInvNext, PTL DEF DependenciesSpec
-------------------------------------------------------------------------------
(* A selection whose dependencies are met. *)

\* A dependency that is met is resolved to a package that is there.
LEMMA MetResolve ==
  ASSUME DependenciesTypeOK, mustUpgrade = {}, \A p \in mustRemove : sel[p].state < installed,
         NEW alts \in Seq(Dependency), NEW a \in BOOLEAN,
         \E d \in Range(alts) : Meets(sel, d)
  PROVE  \E d \in Range(alts) :
           d \in Dependency /\ Meets(sel, d) /\ ResolveAny(alts, a) = Current(d.pkg)
<1>1. PICK i \in DOMAIN alts : Meets(sel, alts[i])
  BY DEF Range
<1>2. Resolve(alts[i], FALSE) # NoKey
  <2>1. alts[i] \in Dependency
    OBVIOUS
  <2>2. Current(alts[i].pkg) \in DOMAIN control /\ sel[alts[i].pkg].state \in Int
    BY <1>1, <2>1
       DEF Meets, Matches, Current, Dependency, DependenciesTypeOK, Selected, PkgState
  <2>3. Resolve(alts[i], FALSE) = Current(alts[i].pkg)
    BY <1>1, <2>2 DEF Meets, Resolve, Current, installed
  <2> QED
    BY <2>2, <2>3, NoKeyIsNone DEF DependenciesTypeOK, ControlTable
<1>3. FirstOf(alts, FALSE) # NoKey
  <2> DEFINE good == {j \in DOMAIN alts : Resolve(alts[j], FALSE) # NoKey}
             first == CHOOSE j \in good : \A l \in good : j <= l
  <2>1. good # {}
    BY <1>2
  <2>2. \E j \in good : \A l \in good : j <= l
    <3>1. good \subseteq Nat
      <4>1. DOMAIN alts \subseteq Nat
        OBVIOUS
      <4> HIDE DEF first
      <4> QED BY <4>1
    <3> HIDE DEF good, first
    <3> QED BY <2>1, <3>1, LeastExists
  <2>3. first \in good
    BY <2>2
  <2>4. FirstOf(alts, FALSE) = Resolve(alts[first], FALSE)
    BY <2>1 DEF FirstOf
  <2> HIDE DEF first
  <2> QED
    BY <2>3, <2>4
<1>4. ResolveAny(alts, a) = ResolveAny(alts, FALSE) /\ ResolveAny(alts, FALSE) # NoKey
  BY <1>3 DEF ResolveAny
<1>5. PICK d \in Range(alts) :
        /\ d \in Dependency /\ Matches(ResolveAny(alts, FALSE), d)
        /\ Keeps(d.pkg) /\ ResolveAny(alts, FALSE) = Current(d.pkg)
  BY <1>4, ResolveAnyFrom
<1>6. Meets(sel, d)
  BY <1>5 DEF Meets, Keeps, Current
<1> QED
  BY <1>4, <1>5, <1>6

\* To ensure that it is installed changes nothing but its flag.
LEMMA EnsureCurrent ==
  ASSUME DependenciesTypeOK, NEW p \in Package, sel[p].state >= installed,
         EnsureInstalled(Current(p))
  PROVE  /\ UNCHANGED <<sel, mustUpgrade, mustRemove>>
         /\ mustInstall' = mustInstall \cup {p}
<1>1. sel[p] \in Selected
  BY DEF DependenciesTypeOK
<1>2. Current(p).pkg = p /\ Current(p).version = sel[p].version /\ Current(p).env = sel[p].env
  BY DEF Current, KeyOf
<1>3. ~(sel[p].state < installed)
  BY <1>1 DEF Selected, PkgState, installed
<1>4. [sel EXCEPT ![p].env = sel[p].env] = sel
  BY <1>1 DEF DependenciesTypeOK, Selected
<1> QED
  BY <1>2, <1>3, <1>4 DEF EnsureInstalled

\* The dependencies of a package of a selection that is as it should be.
LEMMA MetDepends ==
  ASSUME DependenciesTypeOK, Satisfied(sel), NEW p \in Package, sel[p].state >= installed,
         NEW i \in DOMAIN Depends(Current(p))
  PROVE  /\ Depends(Current(p))[i] \in Seq(Dependency)
         /\ \E d \in Range(Depends(Current(p))[i]) : Meets(sel, d)
<1>1. Depends(Current(p)) \in Seq(Seq(Dependency))
  BY DependsType DEF DependencyList
<1>2. sel[p].state > removed
  BY DEF DependenciesTypeOK, Selected, PkgState, installed, removed
<1>3. Depends(Current(p))[i] \in Range(Depends(Current(p)))
  BY DEF Range
<1> QED
  BY <1>1, <1>2, <1>3 DEF Satisfied, Current

\* A resolution of such a selection changes nothing, and sets the flags of what is
\* there and of what is not as they are.
MetBefore == Satisfied(before) /\ Whole(before)

LeftAlone ==
  pc \in Resolving /\ MetBefore =>
    /\ sel = before /\ mustUpgrade = {}
    /\ \A p \in mustInstall : sel[p].state = installed
    /\ \A p \in mustRemove : sel[p].state <= removed
    /\ pc \notin {"best", "apply_best", "reject"}
    /\ pc = "apply_current" => candidate = Current(at) /\ sel[at].state = installed /\ fixed

AloneInv == TypeInv /\ LeftAlone /\ MetIsLeftAlone

\* What applying its flags leaves of a selected status.
LEMMA AppliedAlone ==
  ASSUME DependenciesTypeOK, NEW p \in Package, mustUpgrade = {},
         p \in mustInstall => sel[p].state = installed,
         p \in mustRemove => sel[p].state <= removed
  PROVE  [Applied(p) EXCEPT !.auto = FALSE] = [sel[p] EXCEPT !.auto = FALSE]
<1>1. sel[p] \in Selected /\ installed > removed /\ sel[p].state \in Int
  BY DEF DependenciesTypeOK, Selected, PkgState, installed, removed
<1>2. CASE p \in mustRemove \ mustInstall
  <2>1. ~Wanted(p) /\ ~(sel[p].state > removed)
    <3>1. sel[p].state <= removed
      BY <1>2
    <3>2. ~(sel[p].state > removed)
      BY <1>1, <3>1 DEF removed
    <3> QED
      BY <1>2, <3>2 DEF Wanted
  <2>2. Applied(p) = [sel[p] EXCEPT !.auto = FALSE, !.state = IF @ > removed THEN removed ELSE @]
    BY <1>2, <2>1 DEF Applied
  <2>3. Applied(p) = [sel[p] EXCEPT !.auto = FALSE, !.state = sel[p].state]
    BY <1>1, <2>1, <2>2 DEF Selected
  <2> QED
    BY <1>1, <2>3 DEF Selected
<1>3. CASE p \notin mustRemove \ mustInstall
  <2>1. Wanted(p) => ~(sel[p].state < installed)
    BY DEF Wanted, installed
  <2>2. Applied(p) = sel[p]
    BY <1>3, <2>1 DEF Applied
  <2> QED
    BY <2>2
<1> QED
  BY <1>2, <1>3

LEMMA AloneNext == AloneInv /\ [DependenciesNext]_vars => AloneInv'
<1> SUFFICES ASSUME AloneInv, [DependenciesNext]_vars, MetBefore'
             PROVE  LeftAlone' /\ MetIsLeftAlone'
  BY TypeNext DEF AloneInv, LeftAlone, MetIsLeftAlone, MetBefore
<1> DEFINE Goal == LeftAlone' /\ MetIsLeftAlone'
<1>1. DependenciesTypeOK
  BY DEF AloneInv, TypeInv
<1>2. UNCHANGED control
  BY DEF DependenciesNext, Step, vars, inputs, FixDependencies, RemoveAuto, Round, Visit, TryBest,
         ApplyNext, CurrentApplied, BestApplied, Reject, Check, ApplyFlags, Sweep, Scan,
         NeededApplied, Drop
<1>3. before' = before => (MetBefore' <=> MetBefore)
  BY <1>2 DEF MetBefore, Satisfied, Whole, Meets, Matches, KeyOf, Depends
<1> USE DEF AloneInv
<1>4. ASSUME NEW s \in SUBSET Package, FixDependencies(s)
      PROVE  Goal
  <2>1. /\ sel' = sel /\ before' = sel /\ pc' = "round" /\ mustUpgrade' = {}
        /\ mustInstall' = {p \in s : sel[p].state > removed}
        /\ mustRemove' = {p \in s : sel[p].state <= removed}
    BY <1>4 DEF FixDependencies
  <2>2. \A p \in s : sel[p].state > removed => sel[p].state = installed
    BY <2>1 DEF MetBefore, Whole, installed, removed, not_present
  <2> QED
    BY <2>1, <2>2 DEF LeftAlone, MetIsLeftAlone
<1>5. CASE pc \notin Resolving /\ ~\E s \in SUBSET Package : FixDependencies(s)
  <2>1. pc' \notin Resolving
    BY <1>5
       DEF DependenciesNext, Step, vars, RemoveAuto, Round, Visit, TryBest, ApplyNext,
           CurrentApplied, BestApplied, Reject, Check, ApplyFlags, Sweep, Scan, NeededApplied,
           Drop, NextPackage, BeginApply, Resolving
  <2>2. pc' = "fixed" => UNCHANGED vars
    BY <1>5
       DEF DependenciesNext, Step, RemoveAuto, Round, Visit, TryBest, ApplyNext,
           CurrentApplied, BestApplied, Reject, Check, ApplyFlags, Sweep, Scan, NeededApplied,
           Drop, NextPackage, BeginApply, Resolving
  <2>3. MetIsLeftAlone'
    BY <2>2 DEF MetIsLeftAlone, vars, inputs, Satisfied, Whole, Meets, Matches, KeyOf, Depends
  <2> QED
    BY <2>1, <2>3 DEF LeftAlone
<1>6. CASE pc \in Resolving
  <2>1. ~RemoveAuto /\ ~Sweep /\ ~Scan /\ ~NeededApplied /\ ~Drop
    BY <1>6 DEF RemoveAuto, Sweep, Scan, NeededApplied, Drop, Resolving
  <2>2. \A s \in SUBSET Package : ~FixDependencies(s)
    BY <1>6 DEF FixDependencies, Resolving
  <2>3. UNCHANGED before
    BY <2>1, <2>2
       DEF DependenciesNext, Step, vars, inputs, Round, Visit, TryBest, ApplyNext,
           CurrentApplied, BestApplied, Reject, Check, ApplyFlags
  <2>4. /\ sel = before /\ mustUpgrade = {}
        /\ \A p \in mustInstall : sel[p].state = installed
        /\ \A p \in mustRemove : sel[p].state <= removed
        /\ pc \notin {"best", "apply_best", "reject"}
        /\ pc = "apply_current" => candidate = Current(at) /\ sel[at].state = installed /\ fixed
    BY <1>3, <1>6, <2>3 DEF LeftAlone
  <2>5. Satisfied(sel) /\ Whole(sel)
    BY <1>3, <2>3, <2>4 DEF MetBefore
  <2>6. /\ at \in Package /\ next \in Nat \ {0} /\ mustInstall \subseteq Package
        /\ \A p \in Package : sel[p].state \in Int
        /\ \A p \in mustRemove : sel[p].state < installed
    BY <1>1, <2>4 DEF DependenciesTypeOK, Selected, PkgState, installed, removed
  \* Every dependency of a selected package can be resolved.
  <2>7. ASSUME NEW p \in Package, NEW a \in BOOLEAN, sel[p].state = installed
        PROVE  Fixable(Current(p), a)
    <3>1. \A i \in DOMAIN Depends(Current(p)) : ResolveAny(Depends(Current(p))[i], a) # NoKey
      <4> SUFFICES ASSUME NEW i \in DOMAIN Depends(Current(p))
                   PROVE  ResolveAny(Depends(Current(p))[i], a) # NoKey
        OBVIOUS
      <4>1. PICK d \in Dependency : ResolveAny(Depends(Current(p))[i], a) = Current(d.pkg)
        BY <1>1, <2>4, <2>5, <2>6, <2>7, MetDepends, MetResolve DEF installed
      <4>2. d.pkg # 0
        BY DEF Dependency, Package
      <4> QED
        BY <4>1, <4>2 DEF Current, KeyOf, NoKey
    <3> QED
      BY <3>1 DEF Fixable, Range
  <2>8. CASE Round
    BY <2>3, <2>4, <2>8 DEF Round, LeftAlone, MetIsLeftAlone, flags, Resolving
  <2>9. CASE Visit
    <3>0. Wanted(at) => sel[at].state = installed /\ Fixable(Current(at), TRUE)
      BY <2>4, <2>6, <2>7 DEF Wanted
    <3>1. Wanted(at) => BeginApply(Current(at), "apply_current")
      BY <2>4, <2>6, <2>9, <3>0 DEF Visit, installed
    <3>2. ~Wanted(at) => pc' = "check"
      BY <2>9 DEF Visit
    <3>3. UNCHANGED <<sel, flags, at>>
      BY <2>9 DEF Visit
    <3>4. Wanted(at) => sel[at].state = installed
      BY <2>4 DEF Wanted
    <3> QED
      BY <2>3, <2>4, <3>1, <3>2, <3>3, <3>4
         DEF BeginApply, LeftAlone, MetIsLeftAlone, flags, Resolving, Current, KeyOf
  <2>10. CASE ApplyNext
    <3> DEFINE alts == Depends(candidate)[next]
    <3>1. pc = "apply_current" /\ next \in DOMAIN Depends(Current(at))
      <4>1. pc = "apply_current" /\ next <= Len(Depends(Current(at)))
        BY <1>6, <2>4, <2>10 DEF ApplyNext, Resolving
      <4>2. Depends(Current(at)) \in Seq(Seq(Dependency))
        BY <1>1, DependsType DEF DependencyList
      <4> QED
        BY <2>6, <4>1, <4>2
    <3>2. PICK d \in Dependency : Meets(sel, d) /\ ResolveAny(alts, TRUE) = Current(d.pkg)
      <4>1. alts = Depends(Current(at))[next] /\ sel[at].state >= installed
        BY <2>4, <3>1 DEF installed
      <4>2. alts \in Seq(Dependency) /\ \E d \in Range(alts) : Meets(sel, d)
        BY <1>1, <2>5, <2>6, <3>1, <4>1, MetDepends
      <4> HIDE DEF alts
      <4> QED
        BY <1>1, <2>4, <2>6, <4>2, MetResolve
    <3>3. Current(d.pkg) # NoKey /\ d.pkg \in Package
      BY DEF Dependency, Package, Current, KeyOf, NoKey
    <3>4. EnsureInstalled(Current(d.pkg)) /\ UNCHANGED fixed
      BY <2>10, <3>2, <3>3 DEF ApplyNext
    <3>5. /\ UNCHANGED <<sel, mustUpgrade, mustRemove, fixed>>
          /\ mustInstall' = mustInstall \cup {d.pkg}
      BY <1>1, <3>2, <3>3, <3>4, EnsureCurrent DEF Meets
    <3>6. sel[d.pkg].state = installed
      BY <2>5, <3>2, <3>3 DEF Meets, Whole, installed, removed, not_present
    <3>7. UNCHANGED <<pc, at, candidate>>
      BY <2>10 DEF ApplyNext
    <3> QED
      BY <2>3, <2>4, <3>1, <3>5, <3>6, <3>7
         DEF LeftAlone, MetIsLeftAlone, Resolving, Current, KeyOf
  <2>11. CASE CurrentApplied
    BY <2>3, <2>4, <2>11
       DEF CurrentApplied, LeftAlone, MetIsLeftAlone, flags, apply, Resolving
  <2>12. CASE Check
    <3>1. sel[at].state > removed => sel[at].state = installed
      BY <2>5, <2>6 DEF Whole, installed, removed, not_present
    <3>2. UNCHANGED <<sel, flags>> /\ pc' \in {"visit", "round"}
      BY <2>6, <2>7, <2>12, <3>1 DEF Check, NextPackage
    <3> QED
      BY <2>3, <2>4, <3>2 DEF LeftAlone, MetIsLeftAlone, flags, Resolving
  <2>13. CASE ApplyFlags
    <3>1. sel' = [p \in Package |-> Applied(p)] /\ pc' = "fixed"
          /\ success' = (mustInstall \cap mustRemove = {})
      BY <2>13 DEF ApplyFlags
    <3>2. mustInstall \cap mustRemove = {}
      BY <2>4 DEF installed, removed
    <3>3. \A p \in Package : [Applied(p) EXCEPT !.auto = FALSE] = [sel[p] EXCEPT !.auto = FALSE]
      BY <1>1, <2>4, AppliedAlone
    <3> QED
      BY <2>3, <2>4, <3>1, <3>2, <3>3 DEF LeftAlone, MetIsLeftAlone, Resolving
  <2>14. CASE UNCHANGED vars
    BY <1>6, <2>3, <2>4, <2>14
       DEF vars, inputs, flags, apply, LeftAlone, MetIsLeftAlone, Resolving, Current, KeyOf
  <2> QED
    BY <2>1, <2>2, <2>4, <2>8, <2>9, <2>10, <2>11, <2>12, <2>13, <2>14
       DEF DependenciesNext, Step, TryBest, BestApplied, Reject
<1> QED
  BY <1>4, <1>5, <1>6 DEF Resolving

\* A selection whose dependencies are met is left as it was, and the result is true
\* (MetIsLeftAlone): whatever better versions and other ways to meet them there are,
\* no pass of fix_dependencies finds anything to do but to flag what is there.
THEOREM MetStays == DependenciesSpec => []MetIsLeftAlone
<1>1. DependenciesInit => AloneInv
  BY TypeInit DEF DependenciesInit, AloneInv, LeftAlone, MetIsLeftAlone, Resolving
<1>2. AloneInv => MetIsLeftAlone
  BY DEF AloneInv
<1> QED
  BY <1>1, <1>2, AloneNext, PTL DEF DependenciesSpec


-------------------------------------------------------------------------------
(* What remove_auto leaves. *)

Sweeping == {"sweep", "scan", "apply_needed", "drop", "done"}
Needed(alts) == \E d \in Range(alts) : Meets(sel, d) /\ d.pkg \in mustInstall

\* A sweep over a selection whose dependencies are met: they are still met by
\* what it has dropped nothing of but packages installed automatically, and what
\* the packages it has scanned depend on is flagged.
Swept ==
  pc \in Sweeping /\ MetBefore =>
    /\ Satisfied(sel) /\ Whole(sel)
    /\ \A p \in Package : sel[p] = before[p] \/ (before[p].auto /\ sel[p].state = removed)
    /\ pc \in {"scan", "apply_needed", "drop"} =>
         /\ mustUpgrade = {} /\ mustRemove = {}
         /\ \A p \in Package : (p < at \/ pc = "drop") /\ sel[p].state >= installed =>
              \A alts \in Range(Depends(Current(p))) : Needed(alts)
    /\ pc = "apply_needed" =>
         /\ candidate = Current(at) /\ sel[at].state >= installed
         /\ \A i \in 1..(next - 1) : Needed(Depends(candidate)[i])

SweptInv == TypeInv /\ Swept

LEMMA SweptNext == SweptInv /\ [DependenciesNext]_vars => SweptInv'
<1> SUFFICES ASSUME SweptInv, [DependenciesNext]_vars, pc' \in Sweeping, MetBefore'
             PROVE  Swept'
  BY TypeNext DEF SweptInv, Swept
<1>1. DependenciesTypeOK
  BY DEF SweptInv, TypeInv
<1>2. UNCHANGED control
  BY DEF DependenciesNext, Step, vars, inputs, FixDependencies, RemoveAuto, Round, Visit, TryBest,
         ApplyNext, CurrentApplied, BestApplied, Reject, Check, ApplyFlags, Sweep, Scan,
         NeededApplied, Drop
<1>3. before' = before => MetBefore
  BY <1>2 DEF MetBefore, Satisfied, Whole, Meets, Matches, KeyOf, Depends
<1>4. sel' = sel => /\ Satisfied(sel)' <=> Satisfied(sel)
                    /\ Whole(sel)' <=> Whole(sel)
                    /\ \A p \in Package : Current(p)' = Current(p)
  BY <1>2 DEF Satisfied, Whole, Meets, Matches, KeyOf, Depends, Current
<1>5. \A k : Depends(k)' = Depends(k)
  BY <1>2 DEF Depends
<1>6. sel' = sel /\ mustInstall \subseteq mustInstall' => \A alts : Needed(alts) => Needed(alts)'
  BY <1>2 DEF Needed, Meets, Matches, KeyOf
<1>7. CASE RemoveAuto
  BY <1>4, <1>7 DEF RemoveAuto, MetBefore, Swept, Sweeping, Satisfied, Whole
<1>8. ASSUME ~RemoveAuto
      PROVE  pc \in Sweeping /\ UNCHANGED before /\ MetBefore
  <2>1. pc \in Sweeping /\ UNCHANGED before
    BY <1>8
       DEF DependenciesNext, Step, vars, inputs, FixDependencies, Round, Visit, TryBest,
           ApplyNext, CurrentApplied, BestApplied, Reject, Check, ApplyFlags, Sweep, Scan,
           NeededApplied, Drop, NextPackage, BeginApply, Sweeping
  <2> QED
    BY <1>3, <2>1
<1>9. ASSUME pc \in Sweeping, UNCHANGED before, MetBefore
      PROVE  Swept'
  <2>1. /\ Satisfied(sel) /\ Whole(sel)
        /\ \A p \in Package : sel[p] = before[p] \/ (before[p].auto /\ sel[p].state = removed)
        /\ pc \in {"scan", "apply_needed", "drop"} =>
             /\ mustUpgrade = {} /\ mustRemove = {}
             /\ \A p \in Package : (p < at \/ pc = "drop") /\ sel[p].state >= installed =>
                  \A alts \in Range(Depends(Current(p))) : Needed(alts)
        /\ pc = "apply_needed" =>
             /\ candidate = Current(at) /\ sel[at].state >= installed
             /\ \A i \in 1..(next - 1) : Needed(Depends(candidate)[i])
    BY <1>9 DEF SweptInv, Swept
  <2>2. /\ at \in Package /\ next \in Nat \ {0} /\ mustInstall \subseteq Package
        /\ \A p \in Package : sel[p].state \in Int
    BY <1>1 DEF DependenciesTypeOK, Selected, PkgState
  <2>3. CASE Sweep
    <3>1. /\ UNCHANGED sel /\ pc' = "scan" /\ at' = 1 /\ mustUpgrade' = {} /\ mustRemove' = {}
      BY <2>3 DEF Sweep
    <3>2. \A p \in Package : ~(p < at')
      BY <3>1 DEF Package
    <3> QED
      BY <1>4, <1>9, <2>1, <3>1, <3>2 DEF Swept
  <2>4. CASE Scan
    <3>0. UNCHANGED <<sel, flags>> /\ pc = "scan"
      BY <2>4 DEF Scan
    <3>1. CASE sel[at].state >= installed
      <4>1. pc' = "apply_needed" /\ candidate' = Current(at) /\ next' = 1 /\ at' = at
        BY <2>4, <3>1 DEF Scan, BeginApply
      <4>2. \A i \in 1..(next' - 1) : FALSE
        BY <4>1
      <4>3. \A p \in Package : (p < at' \/ pc' = "drop") /\ sel'[p].state >= installed =>
              \A alts \in Range(Depends(Current(p)))' : Needed(alts)'
        BY <1>4, <1>5, <1>6, <2>1, <3>0, <4>1 DEF flags
      <4>4. /\ Satisfied(sel)' /\ Whole(sel)' /\ mustUpgrade' = {} /\ mustRemove' = {}
            /\ candidate' = Current(at)' /\ sel'[at'].state >= installed
        BY <1>4, <2>1, <2>2, <3>0, <3>1, <4>1 DEF flags
      <4> QED
        BY <1>9, <2>1, <3>0, <4>1, <4>2, <4>3, <4>4 DEF Swept
    <3>2. CASE ~(sel[at].state >= installed)
      <4>1. pc' \in {"scan", "drop"}
            /\ (\A p \in Package : (p < at' \/ pc' = "drop") => p <= at)
        BY <2>2, <2>4, <3>2, NumPackagesAssumption DEF Scan, NextPackage, Package
      <4>2. \A p \in Package : p <= at => p < at \/ p = at
        BY <2>2 DEF Package
      <4> QED
        BY <1>4, <1>5, <1>6, <1>9, <2>1, <3>0, <3>2, <4>1, <4>2 DEF Swept, flags
    <3> QED
      BY <3>1, <3>2
  <2>5. CASE NeededApplied
    <3>0. UNCHANGED <<sel, flags>> /\ pc = "apply_needed" /\ AllApplied
      BY <2>5 DEF NeededApplied
    <3>1. \A alts \in Range(Depends(Current(at))) : Needed(alts)
      <4>1. Depends(Current(at)) \in Seq(Seq(Dependency))
        BY <1>1, <2>2, DependsType DEF DependencyList
      <4>2. ASSUME NEW i \in DOMAIN Depends(Current(at))
            PROVE  i \in 1..(next - 1)
        <5>1. next > Len(Depends(Current(at)))
          BY <2>1, <3>0 DEF AllApplied
        <5>2. i \in 1..Len(Depends(Current(at))) /\ Len(Depends(Current(at))) \in Nat
          BY <4>1
        <5> QED
          BY <2>2, <5>1, <5>2
      <4> QED
        BY <2>1, <3>0, <4>2 DEF Range
    <3>2. pc' \in {"scan", "drop"}
          /\ (\A p \in Package : (p < at' \/ pc' = "drop") => p <= at)
      BY <2>2, <2>5, NumPackagesAssumption DEF NeededApplied, NextPackage, Package
    <3>3. \A p \in Package : p <= at => p < at \/ p = at
      BY <2>2 DEF Package
    <3> QED
      BY <1>4, <1>5, <1>6, <1>9, <2>1, <3>0, <3>1, <3>2, <3>3 DEF Swept, flags
  <2>6. CASE ApplyNext
    <3> DEFINE alts == Depends(candidate)[next]
    <3>1. pc = "apply_needed" /\ next \in DOMAIN Depends(Current(at)) /\ candidate = Current(at)
      <4>1. pc = "apply_needed" /\ next <= Len(Depends(Current(at)))
        BY <1>9, <2>1, <2>6 DEF ApplyNext, Sweeping
      <4>2. Depends(Current(at)) \in Seq(Seq(Dependency))
        BY <1>1, DependsType DEF DependencyList
      <4> QED
        BY <2>1, <2>2, <4>1, <4>2
    <3>2. PICK d \in Range(alts) :
            d \in Dependency /\ Meets(sel, d) /\ ResolveAny(alts, TRUE) = Current(d.pkg)
      <4>1. alts = Depends(Current(at))[next] /\ sel[at].state >= installed
        BY <2>1, <3>1
      <4>2. alts \in Seq(Dependency) /\ \E d \in Range(alts) : Meets(sel, d)
        BY <1>1, <2>1, <2>2, <3>1, <4>1, MetDepends
      <4>3. mustUpgrade = {} /\ \A p \in mustRemove : sel[p].state < installed
        BY <2>1, <3>1
      <4> HIDE DEF alts
      <4> QED
        BY <1>1, <4>2, <4>3, MetResolve
    <3>3. Current(d.pkg) # NoKey /\ d.pkg \in Package
      BY <3>2 DEF Dependency, Package, Current, KeyOf, NoKey
    <3>4. EnsureInstalled(Current(d.pkg))
      BY <2>6, <3>2, <3>3 DEF ApplyNext
    <3>5. /\ UNCHANGED <<sel, mustUpgrade, mustRemove>>
          /\ mustInstall' = mustInstall \cup {d.pkg}
      BY <1>1, <3>2, <3>3, <3>4, EnsureCurrent DEF Meets
    <3>6. UNCHANGED <<pc, at, candidate>> /\ next' = next + 1
      BY <2>6 DEF ApplyNext
    <3>7. \E e \in Range(alts) : Meets(sel, e)' /\ e.pkg \in mustInstall'
      <4>1. Meets(sel, d)'
        BY <1>2, <3>2, <3>5 DEF Meets, Matches, KeyOf
      <4> QED
        BY <3>2, <3>5, <4>1
    <3>8. ASSUME NEW i \in 1..(next' - 1)
          PROVE  Needed(Depends(candidate)[i])'
      <4>1. i \in 1..(next - 1) \/ i = next
        BY <2>2, <3>6
      <4>2. Depends(candidate)'[i] = Depends(candidate)[i]
        BY <1>5, <3>6
      <4>3. CASE i = next
        <5>1. \E e \in Range(Depends(candidate)'[i]) : Meets(sel, e)' /\ e.pkg \in mustInstall'
          BY <3>7, <4>2, <4>3
        <5> QED
          BY <5>1 DEF Needed
      <4>4. CASE i \in 1..(next - 1)
        <5>1. Needed(Depends(candidate)[i])
          BY <2>1, <3>1, <4>4
        <5>2. mustInstall \subseteq mustInstall'
          BY <3>5
        <5>3. PICK e \in Range(Depends(candidate)[i]) : Meets(sel, e) /\ e.pkg \in mustInstall
          BY <5>1 DEF Needed
        <5>4. Meets(sel, e)' /\ e.pkg \in mustInstall'
          BY <1>2, <3>5, <5>2, <5>3 DEF Meets, Matches, KeyOf
        <5> QED
          BY <4>2, <5>3, <5>4 DEF Needed
      <4> QED
        BY <4>1, <4>3, <4>4
    <3>9. \A p \in Package : (p < at' \/ pc' = "drop") /\ sel'[p].state >= installed =>
              \A l \in Range(Depends(Current(p)))' : Needed(l)'
      BY <1>4, <1>5, <1>6, <2>1, <3>1, <3>5, <3>6
    <3>10. /\ Satisfied(sel)' /\ Whole(sel)' /\ mustUpgrade' = {} /\ mustRemove' = {}
           /\ candidate' = Current(at)' /\ sel'[at'].state >= installed
           /\ \A p \in Package : sel'[p] = before'[p] \/ (before'[p].auto /\ sel'[p].state = removed)
      BY <1>4, <1>9, <2>1, <2>2, <3>1, <3>5, <3>6
    <3> HIDE DEF alts
    <3> QED
      BY <3>8, <3>9, <3>10 DEF Swept
  <2>7. CASE Drop
    <3>1. /\ pc = "drop" /\ pc' \in {"sweep", "done"}
          /\ sel' = [p \in Package |->
                      IF Redundant(p) THEN [sel[p] EXCEPT !.state = removed, !.auto = FALSE]
                      ELSE sel[p]]
      BY <2>7 DEF Drop
    <3>2. \A p \in Package : Redundant(p) => sel[p].auto /\ p \notin mustInstall
      BY DEF Redundant
    <3>3. \A p \in Package : Redundant(p) => sel'[p].state = removed
      BY <1>1, <3>1 DEF DependenciesTypeOK, Selected
    <3>4. Whole(sel)'
      BY <2>1, <3>1, <3>3 DEF Whole
    <3>5. ASSUME NEW p \in Package
          PROVE  sel'[p] = before[p] \/ (before[p].auto /\ sel'[p].state = removed)
      BY <2>1, <3>1, <3>2, <3>3
    <3>6. Satisfied(sel)'
      <4> SUFFICES ASSUME NEW p \in Package, sel'[p].state > removed,
                          NEW l \in Range(Depends(KeyOf(sel', p)))
                   PROVE  \E d \in Range(l) : Meets(sel, d)'
        BY <1>5 DEF Satisfied
      <4>1. ~Redundant(p) /\ sel'[p] = sel[p]
        <5>1. ~(removed > removed)
          BY DEF removed
        <5> QED
          BY <3>1, <3>3, <5>1
      <4>2. sel[p].state >= installed
        BY <2>1, <4>1 DEF Whole, removed, not_present, installed
      <4>3. KeyOf(sel', p) = Current(p)
        BY <4>1 DEF KeyOf, Current
      <4>4. PICK d \in Range(l) : Meets(sel, d) /\ d.pkg \in mustInstall
        BY <2>1, <3>1, <4>2, <4>3 DEF Needed
      <4>5. d.pkg \in Package /\ ~Redundant(d.pkg)
        BY <2>2, <4>4 DEF Redundant
      <4>6. sel'[d.pkg] = sel[d.pkg]
        BY <3>1, <4>5
      <4> QED
        BY <1>2, <4>4, <4>6 DEF Meets, Matches, KeyOf
    <3> QED
      BY <1>9, <3>1, <3>4, <3>5, <3>6 DEF Swept
  <2>8. CASE UNCHANGED vars
    <3>1. UNCHANGED <<sel, before, pc, at, candidate, next, mustInstall, mustUpgrade, mustRemove>>
      BY <2>8 DEF vars, inputs, flags, apply
    <3>2. /\ Satisfied(sel)' <=> Satisfied(sel)
          /\ Whole(sel)' <=> Whole(sel)
          /\ \A p \in Package : Current(p)' = Current(p)
          /\ \A alts : Needed(alts) => Needed(alts)'
      BY <1>4, <1>6, <3>1
    <3> QED
      BY <1>5, <2>1, <2>2, <3>1, <3>2 DEF Swept
  <2>9. ~RemoveAuto \/ pc \notin Sweeping
    BY DEF RemoveAuto, Sweeping
  <2> QED
    BY <1>9, <2>3, <2>4, <2>5, <2>6, <2>7, <2>8, <2>9
       DEF DependenciesNext, Step, Sweeping, FixDependencies, Round, Visit, TryBest,
           CurrentApplied, BestApplied, Reject, Check, ApplyFlags
<1> QED
  BY <1>7, <1>8, <1>9

\* What remove_auto leaves of a selection whose dependencies are met still meets
\* them, and it took away nothing but packages installed automatically
\* (NeededIsKept), however many sweeps it made.
THEOREM NeededStays == DependenciesSpec => []NeededIsKept
<1>1. DependenciesInit => SweptInv
  BY TypeInit DEF DependenciesInit, SweptInv, Swept, Sweeping
<1>2. SweptInv => NeededIsKept
  BY DEF SweptInv, Swept, Sweeping, NeededIsKept, MetBefore
<1> QED
  BY <1>1, <1>2, SweptNext, PTL DEF DependenciesSpec

-------------------------------------------------------------------------------
(* What remove_auto has flagged. *)

\* A record of the version of a package that is selected; that package's own,
\* when the dependencies were met.
Selects(k) ==
  /\ k.pkg \in Package
  /\ sel[k.pkg].state >= installed /\ sel[k.pkg].version = k.version
  /\ MetBefore => k = Current(k.pkg)

Names(k, p) == \E alts \in Range(Depends(k)) : \E d \in Range(alts) : d.pkg = p

\* What is flagged is named by a record that is selected.
AutoFlagged ==
  /\ pc \in {"scan", "apply_needed", "drop"} =>
       \A p \in mustInstall : \E k \in DOMAIN control : Selects(k) /\ Names(k, p)
  /\ pc = "apply_needed" => Selects(candidate)

AutoInv == SweptInv /\ AutoFlagged /\ AutoIsNeeded

\* What is resolved is of a package that the dependencies name.
LEMMA ResolvesNamed ==
  ASSUME DependenciesTypeOK, NEW k, NEW i \in DOMAIN Depends(k),
         ResolveAny(Depends(k)[i], TRUE) # NoKey
  PROVE  k \in DOMAIN control /\ Names(k, ResolveAny(Depends(k)[i], TRUE).pkg)
<1>1. k \in DOMAIN control
  BY DEF Depends
<1>2. Depends(k) \in Seq(Seq(Dependency))
  BY DependsType DEF DependencyList
<1>3. Depends(k)[i] \in Seq(Dependency) /\ Depends(k)[i] \in Range(Depends(k))
  BY <1>2 DEF Range
<1>4. PICK d \in Range(Depends(k)[i]) : Matches(ResolveAny(Depends(k)[i], TRUE), d)
  BY <1>3, ResolveAnyFrom
<1>5. ResolveAny(Depends(k)[i], TRUE).pkg = d.pkg
  BY <1>4 DEF Matches
<1> QED
  BY <1>1, <1>3, <1>5 DEF Names

LEMMA AutoNext == AutoInv /\ [DependenciesNext]_vars => AutoInv'
<1> SUFFICES ASSUME AutoInv, [DependenciesNext]_vars
             PROVE  AutoFlagged' /\ AutoIsNeeded'
  BY SweptNext DEF AutoInv
<1>1. DependenciesTypeOK
  BY DEF AutoInv, SweptInv, TypeInv
<1>2. UNCHANGED control
  BY DEF DependenciesNext, Step, vars, inputs, FixDependencies, RemoveAuto, Round, Visit, TryBest,
         ApplyNext, CurrentApplied, BestApplied, Reject, Check, ApplyFlags, Sweep, Scan,
         NeededApplied, Drop
<1>3. before' = before => (MetBefore' <=> MetBefore)
  BY <1>2 DEF MetBefore, Satisfied, Whole, Meets, Matches, KeyOf, Depends
<1>4. \A k, p : Names(k, p)' = Names(k, p)
  BY <1>2 DEF Names, Depends
<1>5. sel' = sel /\ before' = before => \A k : Selects(k) => Selects(k)'
  BY <1>3 DEF Selects, Current, KeyOf
<1>6. at \in Package /\ next \in Nat \ {0}
  BY <1>1 DEF DependenciesTypeOK
<1> USE DEF AutoInv
<1>7. CASE ~(pc \in {"sweep", "scan", "apply_needed", "drop"})
  <2>1. pc' \notin {"scan", "apply_needed", "drop"}
    BY <1>7
       DEF DependenciesNext, Step, vars, inputs, FixDependencies, RemoveAuto, Round, Visit,
           TryBest, ApplyNext, CurrentApplied, BestApplied, Reject, Check, ApplyFlags, Sweep,
           Scan, NeededApplied, Drop, NextPackage, BeginApply
  <2>2. pc' = "done" => UNCHANGED <<control, sel, before, pc>>
    BY <1>7
       DEF DependenciesNext, Step, vars, inputs, FixDependencies, RemoveAuto, Round, Visit,
           TryBest, ApplyNext, CurrentApplied, BestApplied, Reject, Check, ApplyFlags, Sweep,
           Scan, NeededApplied, Drop, NextPackage, BeginApply
  <2>3. AutoIsNeeded'
    BY <2>2 DEF AutoIsNeeded, Satisfied, Whole, Meets, Matches, KeyOf, Depends, Current
  <2> QED
    BY <2>1, <2>3 DEF AutoFlagged
<1>8. CASE Sweep
  BY <1>8 DEF Sweep, AutoFlagged, AutoIsNeeded
<1>9. CASE Scan
  <2>1. UNCHANGED <<sel, before, mustInstall>> /\ pc = "scan"
    BY <1>9 DEF Scan, flags, inputs
  <2>2. \A p \in mustInstall' : \E k \in DOMAIN control : Selects(k)' /\ Names(k, p)'
    BY <1>4, <1>5, <2>1 DEF AutoFlagged
  <2>3. pc' \in {"scan", "drop", "apply_needed"}
        /\ (pc' = "apply_needed" => candidate' = Current(at) /\ sel[at].state >= installed)
    BY <1>9 DEF Scan, BeginApply, NextPackage
  <2>4. pc' = "apply_needed" => Selects(candidate)'
    BY <1>6, <2>1, <2>3 DEF Selects, Current, KeyOf
  <2> QED
    BY <1>2, <2>2, <2>3, <2>4 DEF AutoFlagged, AutoIsNeeded
<1>10. CASE NeededApplied
  <2>1. UNCHANGED <<sel, before, mustInstall>> /\ pc = "apply_needed" /\ pc' \in {"scan", "drop"}
    BY <1>10 DEF NeededApplied, flags, inputs, NextPackage
  <2>2. \A p \in mustInstall' : \E k \in DOMAIN control : Selects(k)' /\ Names(k, p)'
    BY <1>4, <1>5, <2>1 DEF AutoFlagged
  <2> QED
    BY <1>2, <2>1, <2>2 DEF AutoFlagged, AutoIsNeeded
<1>11. CASE ApplyNext /\ pc = "apply_needed"
  <2> DEFINE alts == Depends(candidate)[next]
             found == ResolveAny(alts, TRUE)
  <2>1. UNCHANGED <<before, pc, candidate>>
    BY <1>11 DEF ApplyNext, inputs
  <2>2. Selects(candidate)
    BY <1>11 DEF AutoFlagged
  <2>3. next \in DOMAIN Depends(candidate)
    <3>1. Depends(candidate) \in Seq(Seq(Dependency))
      BY <1>1, DependsType DEF DependencyList
    <3> QED
      BY <1>6, <1>11, <3>1 DEF ApplyNext
  <2>4. /\ \A p \in Package : sel'[p].state = sel[p].state /\ sel'[p].version = sel[p].version
        /\ MetBefore => sel' = sel
    <3>1. CASE found = NoKey
      BY <1>11, <3>1 DEF ApplyNext
    <3>2. CASE found # NoKey
      <4>1. EnsureInstalled(found)
        BY <1>11, <3>2 DEF ApplyNext
      <4>2. \A p \in Package : sel'[p].state = sel[p].state /\ sel'[p].version = sel[p].version
        <5>1. sel' = sel \/ sel' = [sel EXCEPT ![found.pkg].env = found.env]
          BY <4>1 DEF EnsureInstalled
        <5>2. sel \in [Package -> Selected]
          BY <1>1 DEF DependenciesTypeOK
        <5> HIDE DEF found
        <5> QED
          BY <5>1, <5>2 DEF Selected
      <4>3. ASSUME MetBefore
            PROVE  sel' = sel
        <5>1. /\ Satisfied(sel) /\ mustUpgrade = {} /\ mustRemove = {}
              /\ candidate = Current(at) /\ sel[at].state >= installed
          BY <1>11, <4>3 DEF SweptInv, Swept, Sweeping
        <5>2. alts \in Seq(Dependency) /\ \E d \in Range(alts) : Meets(sel, d)
          BY <1>1, <1>6, <2>3, <5>1, MetDepends
        <5>3. PICK d \in Range(alts) :
                d \in Dependency /\ Meets(sel, d) /\ found = Current(d.pkg)
          <6> HIDE DEF alts
          <6> QED
            BY <1>1, <5>1, <5>2, MetResolve
        <5>4. d.pkg \in Package /\ sel[d.pkg].state >= installed
          BY <5>3 DEF Meets, Dependency
        <5> QED
          BY <1>1, <4>1, <5>3, <5>4, EnsureCurrent
      <4> QED
        BY <4>2, <4>3
    <3> QED
      BY <3>1, <3>2
  <2>5. \A k : Selects(k) => Selects(k)'
    BY <1>3, <2>1, <2>4 DEF Selects, Current, KeyOf
  <2>6. \A p \in mustInstall' : p \in mustInstall \/ (candidate \in DOMAIN control /\ Names(candidate, p))
    <3>1. CASE found = NoKey
      BY <1>11, <3>1 DEF ApplyNext, flags
    <3>2. CASE found # NoKey
      <4>1. mustInstall' = mustInstall \cup {found.pkg}
        BY <1>11, <3>2 DEF ApplyNext, EnsureInstalled
      <4>2. candidate \in DOMAIN control /\ Names(candidate, found.pkg)
        BY <1>1, <2>3, <3>2, ResolvesNamed
      <4> HIDE DEF found
      <4> QED
        BY <4>1, <4>2
    <3> QED
      BY <3>1, <3>2
  <2>7. \A p \in mustInstall' : \E k \in DOMAIN control : Selects(k)' /\ Names(k, p)'
    <3>1. \A p \in mustInstall : \E k \in DOMAIN control : Selects(k) /\ Names(k, p)
      BY <1>11 DEF AutoFlagged
    <3> HIDE DEF alts, found
    <3> QED
      BY <1>4, <2>2, <2>5, <2>6, <3>1
  <2> QED
    BY <1>2, <1>11, <2>1, <2>2, <2>5, <2>7 DEF AutoFlagged, AutoIsNeeded
<1>12. CASE Drop
  <2>1. /\ pc = "drop" /\ pc' \in {"sweep", "done"} /\ UNCHANGED before
        /\ pc' = "done" => \A p \in Package : ~Redundant(p)
        /\ sel' = [p \in Package |->
                    IF Redundant(p) THEN [sel[p] EXCEPT !.state = removed, !.auto = FALSE]
                    ELSE sel[p]]
    BY <1>12 DEF Drop, inputs
  <2>2. AutoFlagged'
    BY <2>1 DEF AutoFlagged
  <2>3. ASSUME pc' = "done"
        PROVE  AutoIsNeeded'
    <3>1. sel' = sel
      BY <1>1, <2>1, <2>3 DEF DependenciesTypeOK
    <3>2. \A p \in Package : sel[p].auto => p \in mustInstall
      BY <2>1, <2>3 DEF Redundant
    <3>3. ASSUME NEW p \in Package, sel[p].auto
          PROVE  \E k \in DOMAIN control : Selects(k)' /\ Names(k, p)
      BY <1>5, <2>1, <3>1, <3>2, <3>3 DEF AutoFlagged
    <3>4. \A k \in DOMAIN control : Depends(k) = control[k]
      BY DEF Depends
    <3>5. ASSUME NEW p \in Package, sel'[p].auto
          PROVE  \E k \in DOMAIN control :
                   /\ sel'[k.pkg].state >= installed /\ sel'[k.pkg].version = k.version
                   /\ MetBefore' => k = Current(k.pkg)'
                   /\ \E alts \in Range(control[k]) : \E d \in Range(alts) : d.pkg = p
      <4>1. PICK k \in DOMAIN control : Selects(k)' /\ Names(k, p)
        BY <3>1, <3>3, <3>5
      <4>2. \E alts \in Range(control[k]) : \E d \in Range(alts) : d.pkg = p
        BY <3>4, <4>1 DEF Names
      <4> QED
        BY <4>1, <4>2 DEF Selects
    <3> QED
      BY <1>2, <3>5 DEF AutoIsNeeded, MetBefore
  <2> QED
    BY <2>1, <2>2, <2>3 DEF AutoIsNeeded
<1>13. CASE UNCHANGED vars
  <2>1. UNCHANGED <<control, sel, before, pc, candidate, mustInstall>>
    BY <1>13 DEF vars, inputs, flags, apply
  <2>2. AutoFlagged'
    BY <1>4, <1>5, <2>1 DEF AutoFlagged
  <2>3. (Satisfied(before) /\ Whole(before))' <=> (Satisfied(before) /\ Whole(before))
    BY <1>3, <2>1 DEF MetBefore
  <2>4. \A p : Current(p)' = Current(p)
    BY <2>1 DEF Current, KeyOf
  <2>5. AutoIsNeeded'
    BY <2>1, <2>3, <2>4 DEF AutoIsNeeded
  <2> QED
    BY <2>2, <2>5
<1> QED
  BY <1>7, <1>8, <1>9, <1>10, <1>11, <1>12, <1>13
     DEF DependenciesNext, Step, FixDependencies, RemoveAuto, Round, Visit,
         TryBest, ApplyNext, CurrentApplied, BestApplied, Reject, Check, ApplyFlags

\* An automatically installed package that remove_auto leaves is named by a
\* dependency of an installed one (AutoIsNeeded): the last sweep flagged it, and
\* nothing that sweep read has been dropped since.
THEOREM AutoStaysNeeded == DependenciesSpec => []AutoIsNeeded
<1>1. DependenciesInit => AutoInv
  BY TypeInit
     DEF DependenciesInit, AutoInv, SweptInv, Swept, Sweeping, AutoFlagged, AutoIsNeeded
<1>2. AutoInv => AutoIsNeeded
  BY DEF AutoInv
<1> QED
  BY <1>1, <1>2, AutoNext, PTL DEF DependenciesSpec
===============================================================================
