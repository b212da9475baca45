----------------------------- MODULE Update_proofs -----------------------------
(***************************************************************************)
(* For every machine, every list that a source may serve, any overrides    *)
(* and any stops: what the environment checker and the table of best       *)
(* records have cached is what they would find if they looked again; the   *)
(* catalogue has, of the records that are the same, the first source's;    *)
(* no record is better than a best one; numbers of modules stay apart; and *)
(* what is installed has a record in the catalogue, across every start.    *)
(***************************************************************************)
EXTENDS Update, FiniteSetTheorems, SequenceTheorems, WellFoundedInduction, TLAPS

IsChecker(ck) ==
  ck \in [checks : {ck.checks}, moduleChecks : {ck.moduleChecks},
          environments : {ck.environments}, moduleIds : {ck.moduleIds}, nextId : {ck.nextId}]

\* An environment has its checks in the checker, and its cached answer is theirs.
Cached(ck, e) ==
  /\ e.names \subseteq DOMAIN ck.checks /\ e.modules \subseteq DOMAIN ck.moduleChecks
  /\ ck.environments[e] = Usable(ck, e)

Good(ck) == IsChecker(ck) /\ \A e \in DOMAIN ck.environments : Cached(ck, e)

\* Checker ck has at least what old has, and answers the same.
Extends(ck, old) ==
  \A e \in DOMAIN old.environments :
    e \in DOMAIN ck.environments /\ ck.environments[e] = old.environments[e]

KnowsAll(ck, records) == \A r \in records : EnvOf(r) \in DOMAIN ck.environments

-------------------------------------------------------------------------------
(* The operations of the checker. *)

LEMMA NewIsGood ==
  ASSUME NEW mc, NEW file
  PROVE  Good(NewChecker(mc, file))
<1> DEFINE ck == NewChecker(mc, file)
<1>1. IsChecker(ck)
  BY DEF IsChecker, NewChecker
<1>2. /\ ck.environments = [e \in {UnsetEnv} |-> TRUE] /\ "unset" \in DOMAIN ck.checks
      /\ ck.checks["unset"] = Both(Detected(mc, "unset"))
  BY DEF NewChecker, Known
<1>3. Detected(mc, "unset") = TRUE
  BY DEF Detected
<1> HIDE DEF ck
<1>4. DOMAIN ck.environments = {UnsetEnv} /\ ck.environments[UnsetEnv] = TRUE
  BY <1>2
<1>5. UnsetEnv.names = {"unset"} /\ UnsetEnv.modules = {}
  BY DEF UnsetEnv
<1>6. Cached(ck, UnsetEnv)
  BY <1>2, <1>3, <1>4, <1>5 DEF Cached, Usable, Both
<1>7. Good(ck)
  BY <1>1, <1>4, <1>6 DEF Good
<1> QED BY <1>7 DEF ck

\* Numbers are given out, and that is all.
LEMMA NumberedKeeps ==
  ASSUME NEW ck, IsChecker(ck), NEW titles
  PROVE  /\ IsChecker(Numbered(ck, titles))
         /\ Numbered(ck, titles).environments = ck.environments
         /\ Numbered(ck, titles).checks = ck.checks
         /\ Numbered(ck, titles).moduleChecks = ck.moduleChecks
<1>1. \E ids, n : Numbered(ck, titles) = [ck EXCEPT !.moduleIds = ids, !.nextId = n]
  BY Zenon DEF Numbered
<1>2. PICK ids, n : Numbered(ck, titles) = [ck EXCEPT !.moduleIds = ids, !.nextId = n]
  BY <1>1
<1> QED BY <1>2 DEF IsChecker

\* Checks are added, and none is changed.
LEMMA AddChecks ==
  ASSUME NEW ck, IsChecker(ck), NEW mc, NEW envs
  PROVE  LET new == WithChecks(ck, mc, envs)
         IN  /\ IsChecker(new) /\ new.environments = ck.environments
             /\ \A c \in DOMAIN ck.checks : c \in DOMAIN new.checks /\ new.checks[c] = ck.checks[c]
             /\ \A t \in DOMAIN ck.moduleChecks :
                  t \in DOMAIN new.moduleChecks /\ new.moduleChecks[t] = ck.moduleChecks[t]
             /\ \A e \in envs :
                  e.names \subseteq DOMAIN new.checks /\ e.modules \subseteq DOMAIN new.moduleChecks
<1> DEFINE names  == UNION {e.names : e \in envs}
           titles == UNION {e.modules : e \in envs}
           num    == Numbered(ck, titles \ DOMAIN ck.moduleChecks)
           new    == WithChecks(ck, mc, envs)
           checks == Added(ck.checks, [c \in names |-> Both(FALSE)])
           mods   == Added(ck.moduleChecks, [t \in titles |-> Both(t \in mc.loaded)])
<1>1. /\ IsChecker(num) /\ num.environments = ck.environments
      /\ num.checks = ck.checks /\ num.moduleChecks = ck.moduleChecks
  BY NumberedKeeps
<1>2. new = [num EXCEPT !.checks = Added(@, [c \in names |-> Both(FALSE)]),
                        !.moduleChecks = Added(@, [t \in titles |-> Both(t \in mc.loaded)])]
  BY DEF WithChecks
<1> HIDE DEF num, new, names, titles
<1>3. /\ IsChecker(new) /\ new.environments = ck.environments
      /\ new.checks = checks /\ new.moduleChecks = mods
  BY <1>1, <1>2 DEF IsChecker
<1>4. /\ DOMAIN checks = DOMAIN ck.checks \cup names
      /\ \A c \in DOMAIN ck.checks : checks[c] = ck.checks[c]
  BY DEF Added
<1>5. /\ DOMAIN mods = DOMAIN ck.moduleChecks \cup titles
      /\ \A t \in DOMAIN ck.moduleChecks : mods[t] = ck.moduleChecks[t]
  BY DEF Added
<1>6. \A e \in envs : e.names \subseteq names /\ e.modules \subseteq titles
  BY DEF names, titles
<1> HIDE DEF checks, mods
<1> QED BY <1>3, <1>4, <1>5, <1>6 DEF new

\* What can be used does not depend on checks that others have added.
LEMMA WithEnvsIsGood ==
  ASSUME NEW ck, Good(ck), NEW mc, NEW envs
  PROVE  LET new == WithEnvs(ck, mc, envs)
         IN  /\ Good(new) /\ Extends(new, ck)
             /\ \A e \in envs : e \in DOMAIN new.environments
<1> DEFINE fresh == envs \ DOMAIN ck.environments
           seen  == WithChecks(ck, mc, fresh)
           new   == WithEnvs(ck, mc, envs)
           table == Added(ck.environments, [e \in fresh |-> Usable(seen, e)])
<1>1. IsChecker(ck)
  BY DEF Good
<1>2. /\ IsChecker(seen) /\ seen.environments = ck.environments
      /\ \A c \in DOMAIN ck.checks : c \in DOMAIN seen.checks /\ seen.checks[c] = ck.checks[c]
      /\ \A t \in DOMAIN ck.moduleChecks :
           t \in DOMAIN seen.moduleChecks /\ seen.moduleChecks[t] = ck.moduleChecks[t]
      /\ \A e \in fresh :
           e.names \subseteq DOMAIN seen.checks /\ e.modules \subseteq DOMAIN seen.moduleChecks
  BY <1>1, AddChecks
<1>3. new = [seen EXCEPT !.environments = Added(@, [e \in fresh |-> Usable(seen, e)])]
  BY DEF WithEnvs
<1> HIDE DEF seen, new
<1>4. /\ IsChecker(new) /\ new.environments = table
      /\ new.checks = seen.checks /\ new.moduleChecks = seen.moduleChecks
  BY <1>2, <1>3 DEF IsChecker
<1>5. /\ DOMAIN table = DOMAIN ck.environments \cup fresh
      /\ \A e \in DOMAIN ck.environments : table[e] = ck.environments[e]
      /\ \A e \in fresh : table[e] = Usable(seen, e)
  BY DEF Added
<1>6. ASSUME NEW e \in DOMAIN ck.environments
      PROVE  Cached(new, e)
  <2>1. Cached(ck, e)
    BY DEF Good
  <2>2. Usable(new, e) = Usable(ck, e)
    BY <1>2, <1>4, <2>1 DEF Cached, Usable
  <2> QED BY <1>2, <1>4, <1>5, <2>1, <2>2 DEF Cached
<1>7. ASSUME NEW e \in fresh
      PROVE  Cached(new, e)
  <2>1. Usable(new, e) = Usable(seen, e)
    BY <1>4 DEF Usable
  <2> QED BY <1>2, <1>4, <1>5, <2>1 DEF Cached
<1>8. Good(new) /\ Extends(new, ck) /\ \A e \in envs : e \in DOMAIN new.environments
  <2> HIDE DEF table
  <2>1. \A e \in DOMAIN new.environments : e \in DOMAIN ck.environments \/ e \in fresh
    BY <1>4, <1>5
  <2>2. Good(new)
    BY <1>4, <1>6, <1>7, <2>1 DEF Good
  <2> QED BY <1>4, <1>5, <2>2 DEF Extends
<1> QED BY <1>8 DEF new

LEMMA ResetIsGood ==
  ASSUME NEW ck, IsChecker(ck),
         \A e \in DOMAIN ck.environments :
           e.names \subseteq DOMAIN ck.checks /\ e.modules \subseteq DOMAIN ck.moduleChecks
  PROVE  /\ Good(ResetAvailable(ck))
         /\ DOMAIN ResetAvailable(ck).environments = DOMAIN ck.environments
         /\ \A e \in DOMAIN ck.environments : ResetAvailable(ck).environments[e] = Usable(ck, e)
<1> DEFINE new == ResetAvailable(ck)
<1>1. /\ IsChecker(new) /\ new.checks = ck.checks /\ new.moduleChecks = ck.moduleChecks
      /\ new.environments = [e \in DOMAIN ck.environments |-> Usable(ck, e)]
  BY DEF ResetAvailable, IsChecker
<1> HIDE DEF new
<1>2. /\ DOMAIN new.environments = DOMAIN ck.environments
      /\ \A e \in DOMAIN ck.environments : new.environments[e] = Usable(ck, e)
  BY <1>1
<1>3. \A e : Usable(new, e) = Usable(ck, e)
  BY <1>1 DEF Usable
<1>4. Good(new)
  BY <1>1, <1>2, <1>3 DEF Good, Cached
<1> QED BY <1>2, <1>4 DEF new

\* Overrides leave the environments that there are, and their answers are the new ones.
LEMMA OverrideIsGood ==
  ASSUME NEW ck, Good(ck), NEW new,
         new = Cleared(ck) \/ \E names, mods : new = Overridden(ck, names, mods)
  PROVE  /\ Good(new) /\ DOMAIN new.environments = DOMAIN ck.environments
         /\ new.checks = ck.checks /\ new.moduleChecks = ck.moduleChecks => Extends(new, ck)
<1>1. IsChecker(ck)
  BY DEF Good
<1>2. PICK checks, mods : /\ DOMAIN checks = DOMAIN ck.checks
                          /\ DOMAIN mods = DOMAIN ck.moduleChecks
                          /\ new = ResetAvailable([ck EXCEPT !.checks = checks,
                                                             !.moduleChecks = mods])
  <2>1. CASE new = Cleared(ck)
    <3> DEFINE c == [x \in DOMAIN ck.checks |-> Both(ck.checks[x].detected)]
               m == [x \in DOMAIN ck.moduleChecks |-> Both(ck.moduleChecks[x].detected)]
    <3>1. new = ResetAvailable([ck EXCEPT !.checks = c, !.moduleChecks = m])
      BY <2>1 DEF Cleared
    <3> QED BY <3>1
  <2>2. ASSUME NEW names, NEW mods, new = Overridden(ck, names, mods)
        PROVE  \E checks, ms : /\ DOMAIN checks = DOMAIN ck.checks
                               /\ DOMAIN ms = DOMAIN ck.moduleChecks
                               /\ new = ResetAvailable([ck EXCEPT !.checks = checks,
                                                                  !.moduleChecks = ms])
    <3> DEFINE c == [x \in DOMAIN ck.checks |->
                       [ck.checks[x] EXCEPT !.available = x \in names]]
               m == [x \in DOMAIN ck.moduleChecks |->
                       [ck.moduleChecks[x] EXCEPT !.available = x \in mods]]
    <3>1. new = ResetAvailable([ck EXCEPT !.checks = c, !.moduleChecks = m])
      BY <2>2 DEF Overridden
    <3>2. DOMAIN c = DOMAIN ck.checks /\ DOMAIN m = DOMAIN ck.moduleChecks
      OBVIOUS
    <3> HIDE DEF c, m
    <3> QED BY <3>1, <3>2
  <2> QED BY <2>1, <2>2
<1> DEFINE mid == [ck EXCEPT !.checks = checks, !.moduleChecks = mods]
<1>3. /\ IsChecker(mid) /\ mid.environments = ck.environments
      /\ mid.checks = checks /\ mid.moduleChecks = mods
  BY <1>1 DEF IsChecker
<1>4. new = ResetAvailable(mid)
  BY <1>2
<1> HIDE DEF mid
<1>5. \A e \in DOMAIN mid.environments :
        e.names \subseteq DOMAIN mid.checks /\ e.modules \subseteq DOMAIN mid.moduleChecks
  BY <1>2, <1>3 DEF Good, Cached
<1>6. /\ Good(new) /\ DOMAIN new.environments = DOMAIN ck.environments
      /\ \A e \in DOMAIN ck.environments : new.environments[e] = Usable(mid, e)
  BY <1>3, <1>4, <1>5, ResetIsGood
<1>7. ASSUME new.checks = ck.checks, new.moduleChecks = ck.moduleChecks
      PROVE  Extends(new, ck)
  <2>1. \A e \in DOMAIN ck.environments : new.environments[e] = Usable(new, e)
    BY <1>6 DEF Good, Cached
  <2>2. \A e \in DOMAIN ck.environments : ck.environments[e] = Usable(ck, e)
    BY DEF Good, Cached
  <2>3. \A e : Usable(new, e) = Usable(ck, e)
    BY <1>7 DEF Usable
  <2> QED BY <1>6, <2>1, <2>2, <2>3 DEF Extends
<1> QED BY <1>6, <1>7

-------------------------------------------------------------------------------
(* The tables. *)

LEMMA SeenIsGood ==
  ASSUME NEW ck, Good(ck), NEW mc, NEW records
  PROVE  LET new == Seen(ck, mc, records)
         IN  Good(new) /\ Extends(new, ck) /\ KnowsAll(new, records)
<1> DEFINE envs == {EnvOf(r) : r \in records}
           new  == WithEnvs(ck, mc, envs)
<1>1. /\ Good(new) /\ Extends(new, ck)
      /\ \A e \in envs : e \in DOMAIN new.environments
  BY WithEnvsIsGood
<1> HIDE DEF new
<1>2. KnowsAll(new, records)
  BY <1>1 DEF KnowsAll
<1> QED BY <1>1, <1>2 DEF new, Seen

\* All that is read is known.
LEMMA ReadTableIsGood ==
  ASSUME NEW ck, Good(ck), NEW mc, NEW file
  PROVE  LET table == ReadTable(ck, mc, file)
         IN  /\ Good(table.checker) /\ Extends(table.checker, ck)
             /\ KnowsAll(table.checker, table.control)
<1> DEFINE seen == Seen(ck, mc, Range(file))
           ctrl == {file[i] : i \in FirstsOf(seen, {}, file)}
<1>1. Good(seen) /\ Extends(seen, ck) /\ KnowsAll(seen, Range(file))
  BY SeenIsGood
<1>2. ReadTable(ck, mc, file) = [checker |-> seen, control |-> ctrl]
  BY DEF ReadTable
<1> HIDE DEF seen
<1>3. ctrl \subseteq Range(file)
  BY DEF FirstsOf, Range
<1> HIDE DEF ctrl
<1>4. KnowsAll(seen, ctrl)
  BY <1>1, <1>3 DEF KnowsAll
<1> QED BY <1>1, <1>2, <1>4

\* A checker that answers the same for all that was known gives the same best records.
LEMMA RebuildSame ==
  ASSUME NEW ck, NEW old, NEW ctrl, KnowsAll(old, ctrl), Extends(ck, old)
  PROVE  Rebuild(ck, ctrl) = Rebuild(old, ctrl) /\ KnowsAll(ck, ctrl)
<1> DEFINE usable(c, p) == {r \in ctrl : r.pkg = p /\ c.environments[EnvOf(r)]}
           first(S) == IF S = {} THEN NoRecord ELSE CHOOSE r \in S : \A s \in S : ~Replaces(s, r)
<1>1. \A r \in ctrl : ck.environments[EnvOf(r)] = old.environments[EnvOf(r)]
  BY DEF KnowsAll, Extends
<1>2. \A p : usable(ck, p) = usable(old, p)
  BY <1>1
<1>3. Rebuild(ck, ctrl) = Rebuild(old, ctrl)
  <2>1. /\ Rebuild(ck, ctrl) = [p \in Package |-> first(usable(ck, p))]
        /\ Rebuild(old, ctrl) = [p \in Package |-> first(usable(old, p))]
    BY DEF Rebuild
  <2> HIDE DEF first, usable
  <2> QED BY <1>2, <2>1
<1> QED BY <1>3 DEF KnowsAll, Extends

-------------------------------------------------------------------------------
(* The program. *)

\* The checker is there when the program runs, and so does all that uses it.
Live == Running \/ best # NoObject \/ state # "none"

CacheInv ==
  /\ Live => Good(checker) /\ KnowsAll(checker, control)
  /\ best # NoObject => best = Rebuild(checker, control)

LEMMA CacheInit == Init => CacheInv
BY DEF Init, CacheInv, Live, Running

\* A step that leaves both alone.
LEMMA CacheKept ==
  ASSUME CacheInv, UNCHANGED <<checker, control, best>>, Live' => Live
  PROVE  CacheInv'
BY DEF CacheInv

LEMMA StartStep ==
  ASSUME Start
  PROVE  CacheInv'
<1> DEFINE first == NewChecker(machine, idFile)
           table == ReadTable(first, machine, available)
           read  == MapEntries(StatusOf, statFile)
           lost  == Misfiled(table.checker, table.control, read)
           seen  == Seen(table.checker, machine, {info[p] : p \in lost})
           up    == IF dbVersion < 2 THEN UpgradeStatus(table.checker, table.control, read)
                    ELSE [checker |-> table.checker, status |-> read]
<1>1. checker' = up.checker /\ control' = table.control /\ best' = NoObject
  BY DEF Start
<1>2. Good(first)
  BY NewIsGood
<1> HIDE DEF first
<1>3. Good(table.checker) /\ KnowsAll(table.checker, table.control)
  BY <1>2, ReadTableIsGood
<1> HIDE DEF table
<1>4. Good(seen) /\ Extends(seen, table.checker)
  BY <1>3, SeenIsGood
<1>5. up.checker = seen \/ up.checker = table.checker
  BY DEF UpgradeStatus
<1> HIDE DEF seen, up
<1>6. Good(up.checker) /\ KnowsAll(up.checker, table.control)
  BY <1>3, <1>4, <1>5, RebuildSame
<1> QED BY <1>1, <1>6 DEF CacheInv

LEMMA OverrideStep ==
  ASSUME CacheInv, ClearEnvironmentOverrides \/ OverrideEnvironment
  PROVE  CacheInv'
<1>1. PICK new : /\ CheckerChanges(new)
                 /\ new = Cleared(checker) \/ \E names, mods : new = Overridden(checker, names, mods)
  BY DEF ClearEnvironmentOverrides, OverrideEnvironment
<1>2. Live /\ UNCHANGED <<control, state>>
  BY DEF ClearEnvironmentOverrides, OverrideEnvironment, CheckerChanges, Live
<1>3. Good(checker) /\ KnowsAll(checker, control)
  BY <1>2 DEF CacheInv
<1>4. /\ Good(new) /\ DOMAIN new.environments = DOMAIN checker.environments
      /\ new.checks = checker.checks /\ new.moduleChecks = checker.moduleChecks
           => Extends(new, checker)
  BY <1>1, <1>3, OverrideIsGood
<1>5. KnowsAll(new, control)
  BY <1>3, <1>4 DEF KnowsAll
<1>6. /\ checker' = new
      /\ best' = IF new.checks = checker.checks /\ new.moduleChecks = checker.moduleChecks
                 THEN best ELSE Notified(new, control)
  BY <1>1 DEF CheckerChanges
<1>7. best' # NoObject => best' = Rebuild(checker', control')
  <2>1. CASE new.checks = checker.checks /\ new.moduleChecks = checker.moduleChecks
    BY <1>2, <1>3, <1>4, <1>6, <2>1, RebuildSame DEF CacheInv
  <2>2. CASE ~(new.checks = checker.checks /\ new.moduleChecks = checker.moduleChecks)
    BY <1>2, <1>6, <2>2 DEF Notified
  <2> QED BY <2>1, <2>2
<1> QED BY <1>2, <1>4, <1>5, <1>6, <1>7 DEF CacheInv

LEMMA BuiltIsGood ==
  ASSUME Good(checker), NEW records
  PROVE  Good(Built(records).checker) /\ Extends(Built(records).checker, checker)
<1> DEFINE seen == Seen(checker, machine, Range(records))
<1>1. Good(seen) /\ Extends(seen, checker)
  BY SeenIsGood
<1>2. Built(records).checker = seen
  BY DEF Built
<1> QED BY <1>1, <1>2

\* The list of a source: the checker learns more, and the tables stay.
LEMMA SourceStep ==
  ASSUME CacheInv, BuildSource
  PROVE  CacheInv'
<1>1. Live /\ UNCHANGED <<control, best>> /\ \E records : checker' = Built(records).checker
  BY DEF BuildSource, CheckerBecomes, tableVars, Live
<1>2. Good(checker) /\ KnowsAll(checker, control)
  BY <1>1 DEF CacheInv
<1>3. Good(checker') /\ Extends(checker', checker)
  BY <1>1, <1>2, BuiltIsGood
<1> QED BY <1>1, <1>2, <1>3, RebuildSame DEF CacheInv

\* The table is read again, and the best records are looked for in it.
LEMMA LocalStep ==
  ASSUME CacheInv, BuildLocal
  PROVE  CacheInv'
<1> DEFINE local == {p \in Package : curstat[p] # NoObject /\ info[p] # NoObject}
           records == SetToSeq({info[p] : p \in local})
           file == Built(records).out
           table == ReadTable(Built(records).checker, machine, file)
<1>1. /\ checker' = table.checker /\ control' = table.control
      /\ best' = Notified(table.checker, table.control)
  BY DEF BuildLocal, CheckerBecomes
<1> HIDE DEF records, file
<1>2. Good(checker)
  BY DEF BuildLocal, CacheInv, Live
<1>3. Good(Built(records).checker)
  BY <1>2, BuiltIsGood
<1>4. Good(checker') /\ KnowsAll(checker', control')
  BY <1>1, <1>3, ReadTableIsGood
<1>5. best' # NoObject => best' = Rebuild(checker', control')
  BY <1>1 DEF Notified
<1> QED BY <1>4, <1>5 DEF CacheInv

LEMMA CacheNext == CacheInv /\ [Next]_vars => CacheInv'
<1> SUFFICES ASSUME CacheInv, [Next]_vars
             PROVE  CacheInv'
  OBVIOUS
<1>1. CASE Start
  BY <1>1, StartStep
<1>2. CASE Stop
  BY <1>2 DEF Stop, CacheInv, Live, Running
<1>3. CASE EnvPackages
  <2>1. Live /\ UNCHANGED <<checker, control>> /\ best' = Rebuild(checker, control)
    BY <1>3 DEF EnvPackages, Live
  <2> QED BY <2>1 DEF CacheInv
<1>4. CASE ClearEnvironmentOverrides \/ OverrideEnvironment
  BY <1>4, OverrideStep
<1>5. CASE \E p \in Package : Install(p) \/ Uninstall(p)
  <2>1. UNCHANGED <<checker, control, best, state>>
    BY <1>5 DEF Install, Uninstall, StatusBecomes, tableVars
  <2> QED BY <2>1, CacheKept DEF Live, Running
<1>6. CASE Begin
  <2>1. UNCHANGED <<checker, control, best>> /\ Live
    BY <1>6 DEF Begin, tableVars, Live
  <2> QED BY <2>1, CacheKept
<1>7. CASE TransferEnds
  <2>1. UNCHANGED <<checker, control, best, state>>
    BY <1>7 DEF TransferEnds, tableVars
  <2> QED BY <2>1, CacheKept DEF Live, Running
<1>8. CASE \/ ReadSources \/ NextDownload \/ Downloaded \/ DownloadFailed \/ DownloadsDone
           \/ SourcesBuilt
  <2>1. UNCHANGED <<checker, control, best>> /\ Live
    BY <1>8 DEF ReadSources, NextDownload, Downloaded, DownloadFailed, DownloadsDone, SourcesBuilt,
                tableVars, Live
  <2> QED BY <2>1, CacheKept
<1>9. CASE BuildSource
  BY <1>9, SourceStep
<1>10. CASE BuildLocal
  BY <1>10, LocalStep
<1>11. CASE UNCHANGED vars
  <2>1. UNCHANGED <<checker, control, best, state>>
    BY <1>11 DEF vars, tableVars
  <2> QED BY <2>1, CacheKept DEF Live, Running
<1> QED BY <1>1, <1>2, <1>3, <1>4, <1>5, <1>6, <1>7, <1>8, <1>9, <1>10, <1>11 DEF Next, Poll

\* What is cached: whether each environment can be used, and the best records.
CachesFollow ==
  Running =>
    /\ \A e \in DOMAIN checker.environments : checker.environments[e] = Usable(checker, e)
    /\ best # NoObject => best = Rebuild(checker, control)

\* For every machine, catalogue and list of sources, and any overrides, restarts and
\* updates, whether they fail or are cut off: what is cached is never stale.
THEOREM CachesAreFresh == UpdateSpec => []CachesFollow
<1>1. CacheInv => CachesFollow
  BY DEF CacheInv, CachesFollow, Live, Good, Cached
<1> QED BY <1>1, CacheInit, CacheNext, PTL DEF UpdateSpec

-------------------------------------------------------------------------------
(* The order of versions. *)

\* The least element of a set of numbers.
LEMMA LeastExists ==
  ASSUME NEW T, T \subseteq Nat, T # {}
  PROVE  \E i \in T : \A j \in T : i <= j
<1>1. PICK x \in T : \A y \in T : <<y, x>> \notin OpToRel(<, Nat)
  BY NatLessThanWellFounded, WFMin, Zenon
<1>2. OpToRel(<, Nat) = {ss \in Nat \X Nat : ss[1] < ss[2]}
  BY Zenon DEF OpToRel
<1>3. ASSUME NEW y \in T
      PROVE  x <= y
  <2>1. <<y, x>> \notin {ss \in Nat \X Nat : ss[1] < ss[2]}
    BY <1>1, <1>2
  <2> QED BY <2>1
<1> QED BY <1>3

LEMMA LeastIsMin ==
  ASSUME NEW S, S \subseteq Nat, S # {}
  PROVE  Min(S) \in S /\ \A j \in S : Min(S) <= j
<1>1. \E i \in S : \A j \in S : i <= j
  BY LeastExists
<1> QED BY <1>1 DEF Min

Pos == Nat \ {0}

Sign3  == {-1, 0, 1}
Signs  == [Pos -> Sign3]

\* The results of comparing x with y, y with z and x with z go together.
Chains(xy, yz, xz) ==
  /\ xy <= 0 /\ yz <= 0 => xz <= 0 /\ (xz = 0 => xy = 0 /\ yz = 0)
  /\ xy = 0 /\ yz = 0 => xz = 0

\* v is the first of the results d that is not 0.
IsFirst(d, v) ==
  \/ v = 0 /\ \A k \in Pos : d[k] = 0
  \/ \E k \in Pos : d[k] = v /\ v # 0 /\ \A j \in Pos : j < k => d[j] = 0

LEMMA FirstValue ==
  ASSUME NEW d \in Signs, NEW v, IsFirst(d, v)
  PROVE  v \in Sign3
BY DEF IsFirst, Signs, Sign3

LEMMA FirstAnti ==
  ASSUME NEW d \in Signs, NEW e \in Signs, \A k \in Pos : e[k] = -d[k],
         NEW u, IsFirst(d, u), NEW v, IsFirst(e, v)
  PROVE  v = -u
<1>1. \A k \in Pos : d[k] \in Sign3 /\ e[k] \in Sign3
  BY DEF Signs
<1>2. CASE u = 0
  <2>1. \A k \in Pos : e[k] = 0
    BY <1>2 DEF IsFirst
  <2> QED
    BY <1>2, <2>1 DEF IsFirst
<1>3. CASE u # 0
  <2>1. PICK k \in Pos : d[k] = u /\ u # 0 /\ \A j \in Pos : j < k => d[j] = 0
    BY <1>3 DEF IsFirst
  <2>2. e[k] # 0
    BY <1>1, <2>1 DEF Sign3
  <2>3. PICK l \in Pos : e[l] = v /\ v # 0 /\ \A j \in Pos : j < l => e[j] = 0
    BY <2>2 DEF IsFirst
  <2>4. d[l] # 0
    BY <1>1, <2>3 DEF Sign3
  <2>5. ~(k < l) /\ ~(l < k)
    BY <2>1, <2>2, <2>3, <2>4
  <2>6. k = l
    BY <2>5 DEF Pos
  <2> QED
    BY <2>1, <2>3, <2>6
<1> QED
  BY <1>2, <1>3

LEMMA FirstChains ==
  ASSUME NEW a \in Signs, NEW b \in Signs, NEW c \in Signs,
         \A k \in Pos : Chains(a[k], b[k], c[k]),
         NEW u, IsFirst(a, u), NEW v, IsFirst(b, v), NEW w, IsFirst(c, w)
  PROVE  Chains(u, v, w)
<1>1. \A k \in Pos : a[k] \in Sign3 /\ b[k] \in Sign3 /\ c[k] \in Sign3
  BY DEF Signs
<1>2. CASE u = 0 /\ v = 0
  <2>1. \A k \in Pos : a[k] = 0 /\ b[k] = 0
    BY <1>2 DEF IsFirst
  <2>2. \A k \in Pos : c[k] = 0
    BY <2>1 DEF Chains
  <2>3. w = 0
    BY <2>2 DEF IsFirst
  <2> QED
    BY <1>2, <2>3 DEF Chains
<1>3. CASE ~(u = 0 /\ v = 0) /\ u <= 0 /\ v <= 0
  <2>1. \E k \in Pos : /\ \A j \in Pos : j < k => a[j] = 0 /\ b[j] = 0
                       /\ a[k] <= 0 /\ b[k] <= 0 /\ ~(a[k] = 0 /\ b[k] = 0)
    <3>1. CASE u = 0
      <4>1. \A k \in Pos : a[k] = 0
        BY <3>1 DEF IsFirst
      <4>2. PICK k \in Pos : b[k] = v /\ v # 0 /\ \A j \in Pos : j < k => b[j] = 0
        BY <1>3, <3>1 DEF IsFirst
      <4>3. a[k] <= 0 /\ b[k] <= 0 /\ b[k] # 0
        BY <1>3, <4>1, <4>2
      <4> QED
        BY <4>1, <4>2, <4>3
    <3>2. CASE v = 0
      <4>1. \A k \in Pos : b[k] = 0
        BY <3>2 DEF IsFirst
      <4>2. PICK k \in Pos : a[k] = u /\ u # 0 /\ \A j \in Pos : j < k => a[j] = 0
        BY <1>3, <3>2 DEF IsFirst
      <4>3. a[k] <= 0 /\ b[k] <= 0 /\ a[k] # 0
        BY <1>3, <4>1, <4>2
      <4> QED
        BY <4>1, <4>2, <4>3
    <3>3. CASE u # 0 /\ v # 0
      <4>1. PICK k \in Pos : a[k] = u /\ \A j \in Pos : j < k => a[j] = 0
        BY <3>3 DEF IsFirst
      <4>2. PICK l \in Pos : b[l] = v /\ \A j \in Pos : j < l => b[j] = 0
        BY <3>3 DEF IsFirst
      <4>3. CASE k < l
        <5>1. b[k] = 0 /\ a[k] <= 0 /\ b[k] <= 0 /\ a[k] # 0
          BY <1>3, <3>3, <4>1, <4>2, <4>3
        <5>2. \A j \in Pos : j < k => j < l
          BY <4>3 DEF Pos
        <5> QED
          BY <4>1, <4>2, <5>1, <5>2
      <4>4. CASE l < k
        <5>1. a[l] = 0 /\ a[l] <= 0 /\ b[l] <= 0 /\ b[l] # 0
          BY <1>3, <3>3, <4>1, <4>2, <4>4
        <5>2. \A j \in Pos : j < l => j < k
          BY <4>4 DEF Pos
        <5> QED
          BY <4>1, <4>2, <5>1, <5>2
      <4>5. CASE k = l
        BY <1>3, <3>3, <4>1, <4>2, <4>5
      <4>6. k < l \/ l < k \/ k = l
        BY DEF Pos
      <4> QED
        BY <4>3, <4>4, <4>5, <4>6
    <3> QED
      BY <3>1, <3>2, <3>3
  <2>2. PICK k \in Pos : /\ \A j \in Pos : j < k => a[j] = 0 /\ b[j] = 0
                         /\ a[k] <= 0 /\ b[k] <= 0 /\ ~(a[k] = 0 /\ b[k] = 0)
    BY <2>1
  <2>3. \A j \in Pos : j < k => c[j] = 0
    BY <2>2 DEF Chains
  <2>4. c[k] <= 0 /\ c[k] # 0
    BY <2>2 DEF Chains
  <2>5. PICK l \in Pos : c[l] = w /\ w # 0 /\ \A j \in Pos : j < l => c[j] = 0
    BY <2>4 DEF IsFirst
  <2>6. ~(k < l) /\ ~(l < k)
    BY <2>3, <2>4, <2>5
  <2>7. k = l
    BY <2>6 DEF Pos
  <2>8. w <= 0 /\ w # 0
    BY <2>4, <2>5, <2>7
  <2> QED
    BY <1>3, <2>8 DEF Chains
<1>4. CASE ~(u <= 0 /\ v <= 0)
  <2>1. u \in Sign3 /\ v \in Sign3
    BY FirstValue
  <2>2. ~(u = 0 /\ v = 0)
    BY <1>4
  <2> QED
    BY <1>4, <2>2 DEF Chains
<1> QED
  BY <1>2, <1>3, <1>4

LEMMA CharOrder ==
  ASSUME NEW x \in Nat, NEW y \in Nat, NEW z \in Nat
  PROVE  /\ CmpChar(x, y) \in Sign3 /\ CmpChar(y, x) = -CmpChar(x, y)
         /\ CmpChar(x, y) = 0 <=> x = y
         /\ Chains(CmpChar(x, y), CmpChar(y, z), CmpChar(x, z))
<1> DEFINE rank(q) == IF q = Tilde THEN 0 ELSE IF q = NUL THEN 1
                      ELSE IF IsAlpha(q) THEN q + 1 ELSE q + 200
<1>1. \A q \in Nat : /\ q = Tilde => rank(q) = 0
                     /\ q = NUL => rank(q) = 1
                     /\ q # Tilde /\ q # NUL /\ IsAlpha(q) => rank(q) = q + 1 /\ 65 <= q /\ q <= 122
                     /\ q # Tilde /\ q # NUL /\ ~IsAlpha(q) => rank(q) = q + 200
  BY DEF Tilde, NUL, IsAlpha
<1>2. \A q \in Nat : rank(q) \in Nat
  BY <1>1
<1> HIDE DEF rank
<1>3. \A p, q \in Nat : CmpChar(p, q) = IF rank(p) = rank(q) THEN 0 ELSE Sign(rank(p) < rank(q))
  <2> SUFFICES ASSUME NEW p \in Nat, NEW q \in Nat
               PROVE  CmpChar(p, q) = IF rank(p) = rank(q) THEN 0 ELSE Sign(rank(p) < rank(q))
    OBVIOUS
  <2>1. CASE p = q
    <3>1. CmpChar(p, q) = 0
      BY <2>1 DEF CmpChar
    <3> QED
      BY <2>1, <3>1
  <2>2. CASE p # q /\ p = Tilde
    <3>1. rank(p) = 0 /\ rank(q) >= 1
      BY <1>1, <2>2 DEF NUL, Tilde
    <3>2. CmpChar(p, q) = -1
      BY <2>2 DEF CmpChar, Sign
    <3> QED
      BY <1>2, <3>1, <3>2 DEF Sign
  <2>3. CASE p # q /\ p # Tilde /\ q = Tilde
    <3>1. rank(q) = 0 /\ rank(p) >= 1
      BY <1>1, <2>3 DEF NUL, Tilde
    <3>2. CmpChar(p, q) = 1
      BY <2>3 DEF CmpChar, Sign
    <3> QED
      BY <1>2, <3>1, <3>2 DEF Sign
  <2>4. CASE p # q /\ p # Tilde /\ q # Tilde /\ p = NUL
    <3>1. rank(p) = 1 /\ rank(q) > 1
      BY <1>1, <2>4 DEF NUL, Tilde
    <3>2. CmpChar(p, q) = -1
      BY <2>4 DEF CmpChar, Sign
    <3> QED
      BY <1>2, <3>1, <3>2 DEF Sign
  <2>5. CASE p # q /\ p # Tilde /\ q # Tilde /\ p # NUL /\ q = NUL
    <3>1. rank(q) = 1 /\ rank(p) > 1
      BY <1>1, <2>5 DEF NUL, Tilde
    <3>2. CmpChar(p, q) = 1
      BY <2>5 DEF CmpChar, Sign
    <3> QED
      BY <1>2, <3>1, <3>2 DEF Sign
  <2>6. CASE p # q /\ p \notin {Tilde, NUL} /\ q \notin {Tilde, NUL}
    <3>0. CmpChar(p, q) = Sign(IF IsAlpha(p) # IsAlpha(q) THEN IsAlpha(p) ELSE p < q)
      BY <2>6 DEF CmpChar, Sign
    <3>1. CASE IsAlpha(p) /\ IsAlpha(q)
      <4>1. rank(p) = p + 1 /\ rank(q) = q + 1
        BY <1>1, <2>6, <3>1
      <4>2. CmpChar(p, q) = IF p < q THEN -1 ELSE 1
        BY <3>0, <3>1 DEF Sign
      <4> QED
        BY <2>6, <4>1, <4>2 DEF Sign
    <3>2. CASE ~IsAlpha(p) /\ ~IsAlpha(q)
      <4>1. rank(p) = p + 200 /\ rank(q) = q + 200
        BY <1>1, <2>6, <3>2
      <4>2. CmpChar(p, q) = IF p < q THEN -1 ELSE 1
        <5>1. IsAlpha(p) = FALSE /\ IsAlpha(q) = FALSE
          BY <3>2 DEF IsAlpha
        <5> QED
          BY <3>0, <5>1 DEF Sign
      <4> QED
        BY <2>6, <4>1, <4>2 DEF Sign
    <3>3. CASE IsAlpha(p) /\ ~IsAlpha(q)
      <4>1. rank(p) < rank(q)
        BY <1>1, <2>6, <3>3
      <4>2. CmpChar(p, q) = -1
        BY <3>0, <3>3 DEF Sign
      <4> QED
        BY <1>2, <4>1, <4>2 DEF Sign
    <3>4. CASE ~IsAlpha(p) /\ IsAlpha(q)
      <4>1. rank(q) < rank(p)
        BY <1>1, <2>6, <3>4
      <4>2. CmpChar(p, q) = 1
        BY <3>0, <3>4 DEF Sign
      <4> QED
        BY <1>2, <4>1, <4>2 DEF Sign
    <3> QED
      BY <3>1, <3>2, <3>3, <3>4
  <2> QED
    BY <2>1, <2>2, <2>3, <2>4, <2>5, <2>6
<1>4. \A p, q \in Nat : rank(p) = rank(q) => p = q
  BY <1>1 DEF Tilde, NUL
<1> QED
  BY <1>2, <1>3, <1>4 DEF Sign, Sign3, Chains

LEMMA AtType ==
  ASSUME NEW s \in Seq(Nat), NEW k
  PROVE  At(s, k) \in Nat
BY DEF At, NUL

\* The results of comparing two strings character for character.
CharSigns(l, r) == [k \in Pos |-> CmpChar(At(l, k), At(r, k))]

LEMMA LexFirst ==
  ASSUME NEW l \in Seq(Nat), NEW r \in Seq(Nat)
  PROVE  CharSigns(l, r) \in Signs /\ IsFirst(CharSigns(l, r), CmpLex(l, r))
<1> DEFINE d == CharSigns(l, r)
           ds == Differ(l, r)
<1>1. \A k \in Pos : d[k] = CmpChar(At(l, k), At(r, k))
  BY DEF CharSigns
<1>2. \A k \in Pos : d[k] \in Sign3 /\ (d[k] = 0 <=> At(l, k) = At(r, k))
  BY <1>1, AtType, CharOrder
<1>3. d \in Signs
  BY <1>2 DEF Signs, CharSigns
<1>4. DOMAIN l \subseteq Pos /\ DOMAIN r \subseteq Pos
  BY DEF Pos
<1>5. \A k \in Pos : k \in ds <=> d[k] # 0
  BY <1>2 DEF Differ, At
<1>6. ds \subseteq Nat /\ ds \subseteq Pos
  BY <1>4 DEF Differ, Pos
<1>7. CASE ds = {}
  <2>1. CmpLex(l, r) = 0
    BY <1>7 DEF CmpLex
  <2> HIDE DEF d, ds
  <2> QED
    BY <1>3, <1>5, <1>7, <2>1 DEF IsFirst, d
<1>8. CASE ds # {}
  <2>1. Min(ds) \in ds /\ \A j \in ds : Min(ds) <= j
    <3> HIDE DEF ds
    <3> QED
      BY <1>6, <1>8, LeastIsMin
  <2>2. CmpLex(l, r) = CmpChar(At(l, Min(ds)), At(r, Min(ds)))
    BY <1>8 DEF CmpLex
  <2> HIDE DEF d, ds
  <2>3. Min(ds) \in Pos /\ d[Min(ds)] = CmpLex(l, r) /\ d[Min(ds)] # 0
    BY <1>1, <1>5, <1>6, <2>1, <2>2
  <2>4. \A j \in Pos : j < Min(ds) => d[j] = 0
    BY <1>5, <2>1, <2>3 DEF Pos
  <2>5. IsFirst(d, CmpLex(l, r))
    BY <2>3, <2>4 DEF IsFirst
  <2> QED
    BY <1>3, <2>5 DEF d
<1> QED
  BY <1>7, <1>8

LEMMA LexOrder ==
  ASSUME NEW x \in Seq(Nat), NEW y \in Seq(Nat), NEW z \in Seq(Nat)
  PROVE  /\ CmpLex(x, y) \in Sign3 /\ CmpLex(y, x) = -CmpLex(x, y)
         /\ Chains(CmpLex(x, y), CmpLex(y, z), CmpLex(x, z))
<1>1. \A k \in Pos : CharSigns(y, x)[k] = -CharSigns(x, y)[k]
  BY AtType, CharOrder DEF CharSigns
<1>2. \A k \in Pos : Chains(CharSigns(x, y)[k], CharSigns(y, z)[k], CharSigns(x, z)[k])
  BY AtType, CharOrder DEF CharSigns
<1>3. CmpLex(x, y) \in Sign3
  BY LexFirst, FirstValue
<1>4. CmpLex(y, x) = -CmpLex(x, y)
  BY <1>1, LexFirst, FirstAnti
<1>5. Chains(CmpLex(x, y), CmpLex(y, z), CmpLex(x, z))
  BY <1>2, LexFirst, FirstChains
<1> QED
  BY <1>3, <1>4, <1>5

\* The length of a numeral and then its digits.
NumKey(x, k) == IF k = 1 THEN Len(x) ELSE At(x, k - 1)
NumSign(p, q) == IF p = q THEN 0 ELSE Sign(p < q)
NumSigns(x, y) == [k \in Pos |-> NumSign(NumKey(x, k), NumKey(y, k))]

LEMMA StripZerosType ==
  ASSUME NEW s \in Seq(Nat)
  PROVE  StripZeros(s) \in Seq(Nat)
<1> DEFINE d == {i \in DOMAIN s : s[i] # 48}
<1>1. CASE d = {}
  BY <1>1 DEF StripZeros
<1>2. CASE d # {}
  <2>1. d \subseteq Nat /\ d \subseteq 1..Len(s)
    OBVIOUS
  <2>2. Min(d) \in d
    <3> HIDE DEF d
    <3> QED
      BY <1>2, <2>1, LeastIsMin
  <2>3. StripZeros(s) = SubSeq(s, Min(d), Len(s))
    BY <1>2 DEF StripZeros
  <2> HIDE DEF d
  <2>4. Min(d) \in 1..Len(s)
    BY <2>1, <2>2
  <2> QED
    BY <2>3, <2>4
<1> QED
  BY <1>1, <1>2

LEMMA NumFirst ==
  ASSUME NEW l \in Seq(Nat), NEW r \in Seq(Nat)
  PROVE  LET d == NumSigns(StripZeros(l), StripZeros(r))
         IN  d \in Signs /\ IsFirst(d, CmpNum(l, r))
<1> DEFINE x == StripZeros(l)
           y == StripZeros(r)
           d == NumSigns(x, y)
           ds == Differ(x, y)
<1>1. x \in Seq(Nat) /\ y \in Seq(Nat)
  BY StripZerosType
<1> HIDE DEF x, y
<1>2. \A k \in Pos : NumKey(x, k) \in Nat /\ NumKey(y, k) \in Nat
  BY <1>1, AtType DEF NumKey
<1>3. \A k \in Pos : d[k] = NumSign(NumKey(x, k), NumKey(y, k))
  BY DEF NumSigns
<1>4. \A k \in Pos : d[k] \in Sign3 /\ (d[k] = 0 <=> NumKey(x, k) = NumKey(y, k))
  BY <1>3 DEF NumSign, Sign, Sign3
<1>5. d \in Signs
  BY <1>4 DEF Signs, NumSigns
<1>6. CmpNum(l, r) = IF Len(x) # Len(y) THEN Sign(Len(x) < Len(y))
                     ELSE IF ds = {} THEN 0 ELSE Sign(x[Min(ds)] < y[Min(ds)])
  BY DEF CmpNum, x, y
<1>7. ds \subseteq Pos
  BY <1>1 DEF Differ, Pos
<1>8. \A k \in Pos : k + 1 \in Pos /\ NumKey(x, k + 1) = At(x, k) /\ NumKey(y, k + 1) = At(y, k)
  BY DEF Pos, NumKey
<1>9. \A k \in Pos : k \in ds <=> d[k + 1] # 0
  <2>1. \A k \in Pos : k \in ds <=> At(x, k) # At(y, k)
    BY <1>1 DEF Differ, At
  <2> QED
    BY <1>4, <1>8, <2>1
<1> HIDE DEF d, ds
<1>10. 1 \in Pos /\ NumKey(x, 1) = Len(x) /\ NumKey(y, 1) = Len(y)
  BY DEF Pos, NumKey
<1>11. CASE Len(x) # Len(y)
  <2>1. d[1] = CmpNum(l, r) /\ d[1] # 0
    <3>1. CmpNum(l, r) = IF Len(x) < Len(y) THEN -1 ELSE 1
      BY <1>6, <1>11 DEF Sign
    <3>2. d[1] = NumSign(Len(x), Len(y))
      BY <1>3, <1>10
    <3> QED
      BY <1>11, <3>1, <3>2 DEF NumSign, Sign
  <2>2. \A j \in Pos : ~(j < 1)
    BY DEF Pos
  <2>3. IsFirst(d, CmpNum(l, r))
    BY <1>10, <2>1, <2>2 DEF IsFirst
  <2> QED
    BY <1>5, <2>3 DEF x, y, d
<1>12. CASE Len(x) = Len(y) /\ ds = {}
  <2>1. \A k \in Pos : d[k] = 0
    <3>1. \A k \in Pos : k = 1 \/ (k - 1 \in Pos /\ k = (k - 1) + 1)
      BY DEF Pos
    <3> QED
      BY <1>4, <1>9, <1>10, <1>12, <3>1
  <2>2. CmpNum(l, r) = 0
    BY <1>6, <1>12
  <2>3. IsFirst(d, CmpNum(l, r))
    BY <2>1, <2>2 DEF IsFirst
  <2> QED
    BY <1>5, <2>3 DEF x, y, d
<1>13. CASE Len(x) = Len(y) /\ ds # {}
  <2>1. ds \subseteq Nat
    BY <1>7 DEF Pos
  <2>2. Min(ds) \in ds /\ \A j \in ds : Min(ds) <= j
    BY <1>13, <2>1, LeastIsMin
  <2> DEFINE m == Min(ds)
  <2> HIDE DEF m
  <2>3. m \in Pos /\ m \in ds /\ \A j \in ds : m <= j
    BY <1>7, <2>2 DEF m
  <2>4. CmpNum(l, r) = Sign(x[m] < y[m])
    BY <1>6, <1>13 DEF m
  <2>5. m \in DOMAIN x /\ m \in DOMAIN y /\ x[m] = At(x, m) /\ y[m] = At(y, m)
    BY <1>1, <1>13, <2>3 DEF At, ds, Differ
  <2>6. d[m + 1] = CmpNum(l, r) /\ d[m + 1] # 0
    <3>1. d[m + 1] # 0 /\ d[m + 1] = NumSign(x[m], y[m])
      BY <1>3, <1>8, <1>9, <2>3, <2>5
    <3> QED
      BY <2>4, <3>1 DEF NumSign
  <2>7. \A j \in Pos : j < m + 1 => d[j] = 0
    <3> SUFFICES ASSUME NEW j \in Pos, j < m + 1
                 PROVE  d[j] = 0
      OBVIOUS
    <3>1. CASE j = 1
      BY <1>4, <1>10, <1>13, <3>1
    <3>2. CASE j # 1
      <4>1. j - 1 \in Pos /\ (j - 1) + 1 = j /\ j - 1 < m
        BY <2>3, <3>2 DEF Pos
      <4>2. j - 1 \notin ds
        BY <2>3, <4>1 DEF Pos
      <4> QED
        BY <1>9, <4>1, <4>2
    <3> QED
      BY <3>1, <3>2
  <2>8. IsFirst(d, CmpNum(l, r))
    <3>1. m + 1 \in Pos
      BY <1>8, <2>3
    <3> QED
      BY <2>6, <2>7, <3>1 DEF IsFirst
  <2> QED
    BY <1>5, <2>8 DEF x, y, d
<1> QED
  BY <1>11, <1>12, <1>13

LEMMA NumOrder ==
  ASSUME NEW x \in Seq(Nat), NEW y \in Seq(Nat), NEW z \in Seq(Nat)
  PROVE  /\ CmpNum(x, y) \in Sign3 /\ CmpNum(y, x) = -CmpNum(x, y)
         /\ Chains(CmpNum(x, y), CmpNum(y, z), CmpNum(x, z))
<1> DEFINE sx == StripZeros(x)
           sy == StripZeros(y)
           sz == StripZeros(z)
<1>1. \A k \in Pos : NumKey(sx, k) \in Nat /\ NumKey(sy, k) \in Nat /\ NumKey(sz, k) \in Nat
  BY StripZerosType, AtType DEF NumKey
<1>2. \A p, q, t \in Nat : /\ NumSign(q, p) = -NumSign(p, q)
                           /\ Chains(NumSign(p, q), NumSign(q, t), NumSign(p, t))
  BY DEF NumSign, Sign, Chains
<1> HIDE DEF sx, sy, sz
<1>3. \A k \in Pos : NumSigns(sy, sx)[k] = -NumSigns(sx, sy)[k]
  BY <1>1, <1>2 DEF NumSigns
<1>4. \A k \in Pos : Chains(NumSigns(sx, sy)[k], NumSigns(sy, sz)[k], NumSigns(sx, sz)[k])
  BY <1>1, <1>2 DEF NumSigns
<1>5. /\ NumSigns(sx, sy) \in Signs /\ IsFirst(NumSigns(sx, sy), CmpNum(x, y))
      /\ NumSigns(sy, sx) \in Signs /\ IsFirst(NumSigns(sy, sx), CmpNum(y, x))
      /\ NumSigns(sy, sz) \in Signs /\ IsFirst(NumSigns(sy, sz), CmpNum(y, z))
      /\ NumSigns(sx, sz) \in Signs /\ IsFirst(NumSigns(sx, sz), CmpNum(x, z))
  BY NumFirst DEF sx, sy, sz
<1>6. CmpNum(x, y) \in Sign3
  BY <1>5, FirstValue
<1>7. CmpNum(y, x) = -CmpNum(x, y)
  BY <1>3, <1>5, FirstAnti
<1>8. Chains(CmpNum(x, y), CmpNum(y, z), CmpNum(x, z))
  BY <1>4, <1>5, FirstChains
<1> QED
  BY <1>6, <1>7, <1>8

\* Rank(S, i) of the members of a finite set S of numbers are 1 to its size.
RankIn(S, i) == Cardinality({j \in S : j <= i})

LEMMA RankGrows ==
  ASSUME NEW S, S \subseteq Nat, IsFiniteSet(S)
  PROVE  /\ \A i \in S : RankIn(S, i) \in 1..Cardinality(S)
         /\ \A i \in S, j \in S : i < j => RankIn(S, i) < RankIn(S, j)
<1> DEFINE upto(i) == {j \in S : j <= i}
<1>1. \A i \in S : IsFiniteSet(upto(i)) /\ Cardinality(upto(i)) \in Nat
                   /\ Cardinality(upto(i)) <= Cardinality(S)
  BY FS_Subset, FS_CardinalityType
<1>2. \A i \in S : i \in upto(i)
  OBVIOUS
<1>3. \A i \in S : Cardinality(upto(i)) # 0
  <2> HIDE DEF upto
  <2> QED
    BY <1>1, <1>2, FS_EmptySet
<1>4. Cardinality(S) \in Nat
  BY FS_CardinalityType
<1>5. ASSUME NEW i \in S, NEW j \in S, i < j
      PROVE  Cardinality(upto(i)) < Cardinality(upto(j))
  <2>1. upto(i) \subseteq upto(j) /\ upto(i) # upto(j)
    <3>1. \A j2 \in S : j2 <= i => j2 <= j
      BY <1>5
    <3>2. j \notin upto(i) /\ j \in upto(j)
      BY <1>5
    <3>3. upto(i) \subseteq upto(j)
      BY <3>1
    <3> HIDE DEF upto
    <3> QED
      BY <3>2, <3>3
  <2> HIDE DEF upto
  <2>2. Cardinality(upto(i)) <= Cardinality(upto(j)) /\ Cardinality(upto(i)) # Cardinality(upto(j))
    BY <1>1, <2>1, FS_Subset
  <2> QED
    BY <1>1, <2>2
<1>6. \A i \in S : RankIn(S, i) = Cardinality(upto(i))
  BY DEF RankIn
<1> HIDE DEF upto
<1> QED
  BY <1>1, <1>3, <1>4, <1>5, <1>6

\* Nth(S, k) is the number of rank k.
LEMMA NthRank ==
  ASSUME NEW S, S \subseteq Nat, IsFiniteSet(S), NEW k \in 1..Cardinality(S)
  PROVE  Nth(S, k) \in S /\ RankIn(S, Nth(S, k)) = k
<1>1. \E i \in S : RankIn(S, i) = k
  <2> SUFFICES ASSUME \A i \in S : RankIn(S, i) # k
               PROVE  FALSE
    OBVIOUS
  <2> DEFINE n == Cardinality(S)
             T == (1..n) \ {k}
             f == [i \in S |-> RankIn(S, i)]
  <2>1. n \in Nat
    BY FS_CardinalityType
  <2>2. IsFiniteSet(T) /\ Cardinality(T) = n - 1
    <3>1. IsFiniteSet(1..n) /\ Cardinality(1..n) = n
      <4>1. 1 \in Int /\ n \in Int
        BY <2>1
      <4>2. IsFiniteSet(1..n) /\ Cardinality(1..n) = IF 1 > n THEN 0 ELSE n - 1 + 1
        BY <4>1, FS_Interval
      <4> HIDE DEF n
      <4> QED
        BY <2>1, <4>2
    <3>2. k \in 1..n
      OBVIOUS
    <3> HIDE DEF n
    <3> QED
      BY <3>1, <3>2, FS_RemoveElement
  <2>3. f \in [S -> T]
    BY RankGrows
  <2>4. \A i \in S, j \in S : i # j => f[i] # f[j]
    <3> SUFFICES ASSUME NEW i \in S, NEW j \in S, i # j
                 PROVE  RankIn(S, i) # RankIn(S, j)
      OBVIOUS
    <3>1. i < j \/ j < i
      OBVIOUS
    <3>2. RankIn(S, i) \in 1..n /\ RankIn(S, j) \in 1..n
      BY RankGrows
    <3>3. RankIn(S, i) < RankIn(S, j) \/ RankIn(S, j) < RankIn(S, i)
      BY <3>1, RankGrows
    <3> HIDE DEF n
    <3> QED
      BY <2>1, <3>2, <3>3
  <2> HIDE DEF f, T
  <2>5. Cardinality(T) < Cardinality(S)
    BY <2>1, <2>2
  <2>6. \E i, j \in S : i # j /\ f[i] = f[j]
    BY <2>2, <2>3, <2>5, FS_PigeonHole
  <2> QED
    BY <2>4, <2>6
<1> QED
  BY <1>1 DEF Nth, RankIn

\* Every member of the set is one of them.
LEMMA NthReaches ==
  ASSUME NEW S, S \subseteq Nat, IsFiniteSet(S), NEW i \in S
  PROVE  RankIn(S, i) \in 1..Cardinality(S) /\ Nth(S, RankIn(S, i)) = i
<1> DEFINE k == RankIn(S, i)
<1>1. k \in 1..Cardinality(S)
  BY RankGrows
<1>2. Nth(S, k) \in S /\ RankIn(S, Nth(S, k)) = k
  BY <1>1, NthRank
<1>3. RankIn(S, i) \in Int
  BY <1>1, FS_CardinalityType
<1>4. ~(Nth(S, k) < i) /\ ~(i < Nth(S, k))
  <2> DEFINE m == Nth(S, k)
  <2>1. m \in S /\ RankIn(S, m) = RankIn(S, i)
    BY <1>2
  <2> HIDE DEF m, k
  <2>2. ~(m < i) /\ ~(i < m)
    <3>1. m < i => RankIn(S, m) < RankIn(S, i)
      BY <2>1, RankGrows
    <3>2. i < m => RankIn(S, i) < RankIn(S, m)
      BY <2>1, RankGrows
    <3> QED
      BY <1>3, <2>1, <3>1, <3>2
  <2> QED
    BY <2>2 DEF m
<1>5. i \in Nat /\ Nth(S, k) \in Nat
  BY <1>2
<1> HIDE DEF k
<1>6. Nth(S, k) = i
  BY <1>4, <1>5
<1> QED
  BY <1>1, <1>6 DEF k

LEMMA RunEndType ==
  ASSUME NEW s \in Seq(Nat), NEW i \in 1..(Len(s) + 1), NEW digits
  PROVE  RunEnd(s, i, digits) \in i..(Len(s) + 1)
<1> DEFINE ends == {j \in i..Len(s) : IsDigit(s[j]) # digits} \cup {Len(s) + 1}
<1>1. ends \subseteq i..(Len(s) + 1) /\ ends \subseteq Nat /\ ends # {}
  OBVIOUS
<1>2. RunEnd(s, i, digits) = Min(ends)
  BY DEF RunEnd
<1> HIDE DEF ends
<1> QED
  BY <1>1, <1>2, LeastIsMin

LEMMA StartsType ==
  ASSUME NEW s \in Seq(Nat)
  PROVE  /\ Starts(s) \subseteq 1..Len(s) /\ Starts(s) \subseteq Nat /\ IsFiniteSet(Starts(s))
         /\ Cardinality(Starts(s)) \in Nat /\ Cardinality(Starts(s)) <= Len(s)
<1>1. Starts(s) \subseteq 1..Len(s)
  BY DEF Starts
<1>2. IsFiniteSet(1..Len(s)) /\ Cardinality(1..Len(s)) = Len(s)
  <2>1. Len(s) \in Nat /\ 1 \in Int /\ Len(s) \in Int
    OBVIOUS
  <2>2. IsFiniteSet(1..Len(s)) /\ Cardinality(1..Len(s)) = IF 1 > Len(s) THEN 0 ELSE Len(s) - 1 + 1
    BY <2>1, FS_Interval
  <2> QED
    BY <2>1, <2>2
<1> QED
  BY <1>1, <1>2, FS_Subset, FS_CardinalityType

LEMMA SegmentsType ==
  ASSUME NEW s \in Seq(Nat), NEW k \in Pos
  PROVE  /\ Segments(s, k)[1] \in Seq(Nat) /\ Segments(s, k)[2] \in Seq(Nat)
         /\ k > Len(s) => Segments(s, k) = <<<<>>, <<>>>>
<1> DEFINE i == Nth(Starts(s), k)
           p == RunEnd(s, i, FALSE)
           q == RunEnd(s, p, TRUE)
<1>1. Cardinality(Starts(s)) \in Nat /\ Cardinality(Starts(s)) <= Len(s)
  BY StartsType
<1>2. CASE k > Cardinality(Starts(s))
  <2>1. Segments(s, k) = <<<<>>, <<>>>>
    BY <1>2 DEF Segments
  <2> QED
    BY <2>1
<1>3. CASE ~(k > Cardinality(Starts(s)))
  <2>1. i \in 1..Len(s)
    BY <1>1, <1>3, StartsType, NthRank DEF Pos
  <2> HIDE DEF i, p, q
  <2>2. p \in i..(Len(s) + 1)
    <3>1. i \in 1..(Len(s) + 1)
      BY <2>1
    <3> QED
      BY <3>1, RunEndType DEF p
  <2>3. q \in p..(Len(s) + 1)
    <3>1. p \in 1..(Len(s) + 1)
      BY <2>1, <2>2
    <3> QED
      BY <3>1, RunEndType DEF q
  <2>4. Segments(s, k) = <<SubSeq(s, i, p - 1), SubSeq(s, p, q - 1)>>
    BY <1>3 DEF Segments, i, p, q
  <2>5. SubSeq(s, i, p - 1) \in Seq(Nat) /\ SubSeq(s, p, q - 1) \in Seq(Nat)
    BY <2>1, <2>2, <2>3
  <2> QED
    BY <1>1, <1>3, <2>4, <2>5 DEF Pos
<1> QED
  BY <1>2, <1>3

LEMMA OrElseSigns ==
  ASSUME NEW a \in Sign3, NEW b \in Sign3
  PROVE  OrElse(a, b) \in Sign3 /\ OrElse(-a, -b) = -OrElse(a, b)
BY DEF Sign3, OrElse

LEMMA OrElseChains ==
  ASSUME NEW a \in Sign3, NEW b \in Sign3, NEW c \in Sign3, Chains(a, b, c),
         NEW d \in Sign3, NEW e \in Sign3, NEW f \in Sign3, Chains(d, e, f)
  PROVE  Chains(OrElse(a, d), OrElse(b, e), OrElse(c, f))
<1>1. CASE a = 0 /\ b = 0
  <2>1. c = 0
    BY <1>1 DEF Chains
  <2> QED
    BY <1>1, <2>1 DEF OrElse
<1>2. CASE a # 0 \/ b # 0
  BY <1>2 DEF Chains, OrElse, Sign3
<1> QED
  BY <1>1, <1>2

SegmentPair(x) == x[1] \in Seq(Nat) /\ x[2] \in Seq(Nat)

LEMMA PairOrder ==
  ASSUME NEW x, SegmentPair(x), NEW y, SegmentPair(y), NEW z, SegmentPair(z)
  PROVE  /\ CmpPair(x, y) \in Sign3 /\ CmpPair(y, x) = -CmpPair(x, y)
         /\ Chains(CmpPair(x, y), CmpPair(y, z), CmpPair(x, z))
<1>1. \A s, t \in Seq(Nat) : /\ CmpLex(s, t) \in Sign3 /\ CmpLex(t, s) = -CmpLex(s, t)
                             /\ CmpNum(s, t) \in Sign3 /\ CmpNum(t, s) = -CmpNum(s, t)
  BY LexOrder, NumOrder
<1>2. CmpPair(x, y) \in Sign3 /\ CmpPair(y, x) = -CmpPair(x, y)
  BY <1>1, OrElseSigns DEF CmpPair, SegmentPair
<1>3. Chains(CmpLex(x[1], y[1]), CmpLex(y[1], z[1]), CmpLex(x[1], z[1]))
  BY LexOrder DEF SegmentPair
<1>4. Chains(CmpNum(x[2], y[2]), CmpNum(y[2], z[2]), CmpNum(x[2], z[2]))
  BY NumOrder DEF SegmentPair
<1>5. Chains(CmpPair(x, y), CmpPair(y, z), CmpPair(x, z))
  BY <1>1, <1>3, <1>4, OrElseChains DEF CmpPair, SegmentPair
<1> QED
  BY <1>2, <1>5

\* The results of comparing two version strings segment for segment.
SegmentSigns(l, r) == [k \in Pos |-> CmpPair(Segments(l, k), Segments(r, k))]

LEMMA VerstrFirst ==
  ASSUME NEW l \in Seq(Nat), NEW r \in Seq(Nat)
  PROVE  SegmentSigns(l, r) \in Signs /\ IsFirst(SegmentSigns(l, r), CmpVerstr(l, r))
<1> DEFINE d == SegmentSigns(l, r)
           cmp(k) == CmpPair(Segments(l, k), Segments(r, k))
           ds == {k \in DOMAIN l \cup DOMAIN r : cmp(k) # 0}
<1>1. \A k \in Pos : d[k] = cmp(k)
  BY DEF SegmentSigns
<1>2. \A k \in Pos : SegmentPair(Segments(l, k)) /\ SegmentPair(Segments(r, k))
  BY SegmentsType DEF SegmentPair
<1>3. \A k \in Pos : d[k] \in Sign3
  <2> HIDE DEF d
  <2> QED
    BY <1>1, <1>2, PairOrder
<1>4. d \in Signs
  BY <1>3 DEF Signs, SegmentSigns
<1>5. \A k \in Pos : k \notin DOMAIN l \cup DOMAIN r => d[k] = 0
  <2> SUFFICES ASSUME NEW k \in Pos, k \notin DOMAIN l \cup DOMAIN r
               PROVE  cmp(k) = 0
    BY <1>1
  <2>1. k > Len(l) /\ k > Len(r)
    BY DEF Pos
  <2>2. Segments(l, k) = Segments(r, k)
    BY <2>1, SegmentsType
  <2>3. cmp(k) \in Sign3 /\ cmp(k) = -cmp(k)
    BY <1>2, <2>2, PairOrder
  <2> HIDE DEF cmp
  <2> QED
    BY <2>3 DEF Sign3
<1>6. ds \subseteq Pos /\ ds \subseteq Nat
  BY DEF Pos
<1>7. CmpVerstr(l, r) = IF ds = {} THEN 0 ELSE cmp(Min(ds))
  BY DEF CmpVerstr
<1>8. \A k \in Pos : k \in ds <=> d[k] # 0
  BY <1>1, <1>5
<1> HIDE DEF d, ds, cmp
<1>9. CASE ds = {}
  BY <1>4, <1>7, <1>8, <1>9 DEF IsFirst, d
<1>10. CASE ds # {}
  <2>1. Min(ds) \in ds /\ \A j \in ds : Min(ds) <= j
    BY <1>6, <1>10, LeastIsMin
  <2>2. Min(ds) \in Pos /\ d[Min(ds)] = CmpVerstr(l, r) /\ d[Min(ds)] # 0
    BY <1>1, <1>6, <1>7, <1>8, <1>10, <2>1
  <2>3. \A j \in Pos : j < Min(ds) => d[j] = 0
    BY <1>8, <2>1, <2>2 DEF Pos
  <2>4. IsFirst(d, CmpVerstr(l, r))
    BY <2>2, <2>3 DEF IsFirst
  <2> QED
    BY <1>4, <2>4 DEF d
<1> QED
  BY <1>9, <1>10

LEMMA VerstrOrder ==
  ASSUME NEW x \in Seq(Nat), NEW y \in Seq(Nat), NEW z \in Seq(Nat)
  PROVE  /\ CmpVerstr(x, y) \in Sign3 /\ CmpVerstr(y, x) = -CmpVerstr(x, y)
         /\ Chains(CmpVerstr(x, y), CmpVerstr(y, z), CmpVerstr(x, z))
<1>1. \A k \in Pos : /\ SegmentPair(Segments(x, k)) /\ SegmentPair(Segments(y, k))
                     /\ SegmentPair(Segments(z, k))
  BY SegmentsType DEF SegmentPair
<1>2. \A k \in Pos : SegmentSigns(y, x)[k] = -SegmentSigns(x, y)[k]
  BY <1>1, PairOrder DEF SegmentSigns
<1>3. \A k \in Pos : Chains(SegmentSigns(x, y)[k], SegmentSigns(y, z)[k], SegmentSigns(x, z)[k])
  BY <1>1, PairOrder DEF SegmentSigns
<1>4. CmpVerstr(x, y) \in Sign3
  BY VerstrFirst, FirstValue
<1>5. CmpVerstr(y, x) = -CmpVerstr(x, y)
  BY <1>2, VerstrFirst, FirstAnti
<1>6. Chains(CmpVerstr(x, y), CmpVerstr(y, z), CmpVerstr(x, z))
  BY <1>3, VerstrFirst, FirstChains
<1> QED
  BY <1>4, <1>5, <1>6

Version == [epoch : Seq(Nat), upstream : Seq(Nat), package : Seq(Nat)]

\* The operators that compare versions (version.h:81-121) are a total preorder: of
\* two versions each is at most the other or the other is less, to be at most and
\* to be less are both transitive, and versions that are equal are alike to the rest.
\* Cmp is cmp_version.
THEOREM VersionsOrdered ==
  ASSUME NEW u \in Version, NEW v \in Version, NEW w \in Version
  PROVE  /\ Cmp(u, v) \in {-1, 0, 1}
         /\ Cmp(v, u) = -Cmp(u, v)
         /\ Cmp(u, v) <= 0 /\ Cmp(v, w) <= 0 => Cmp(u, w) <= 0
         /\ Cmp(u, v) <= 0 /\ Cmp(v, w) <= 0 /\ Cmp(u, w) = 0 => Cmp(u, v) = 0 /\ Cmp(v, w) = 0
         /\ Cmp(u, v) = 0 /\ Cmp(v, w) = 0 => Cmp(u, w) = 0
<1> DEFINE rest(x, y) == OrElse(CmpVerstr(x.upstream, y.upstream), CmpVerstr(x.package, y.package))
<1>1. \A x, y \in Version : /\ x.epoch \in Seq(Nat) /\ x.upstream \in Seq(Nat) /\ x.package \in Seq(Nat)
  BY DEF Version
<1>2. \A s, t \in Seq(Nat) : /\ CmpVerstr(s, t) \in Sign3 /\ CmpVerstr(t, s) = -CmpVerstr(s, t)
                             /\ CmpNum(s, t) \in Sign3 /\ CmpNum(t, s) = -CmpNum(s, t)
  BY VerstrOrder, NumOrder
<1>3. \A x, y \in Version : rest(x, y) \in Sign3 /\ rest(y, x) = -rest(x, y)
  BY <1>1, <1>2, OrElseSigns
<1>4. Chains(rest(u, v), rest(v, w), rest(u, w))
  BY <1>1, <1>2, VerstrOrder, OrElseChains
<1>5. \A x, y \in Version : Cmp(x, y) = OrElse(CmpNum(x.epoch, y.epoch), rest(x, y))
  BY DEF Cmp
<1> HIDE DEF rest
<1>6. Cmp(u, v) \in Sign3 /\ Cmp(v, u) = -Cmp(u, v)
  BY <1>1, <1>2, <1>3, <1>5, OrElseSigns
<1>7. Chains(CmpNum(u.epoch, v.epoch), CmpNum(v.epoch, w.epoch), CmpNum(u.epoch, w.epoch))
  BY <1>1, NumOrder
<1>8. Chains(Cmp(u, v), Cmp(v, w), Cmp(u, w))
  <2> DEFINE n(x, y) == CmpNum(x.epoch, y.epoch)
  <2>1. n(u, v) \in Sign3 /\ n(v, w) \in Sign3 /\ n(u, w) \in Sign3
    BY <1>1, <1>2
  <2>2. rest(u, v) \in Sign3 /\ rest(v, w) \in Sign3 /\ rest(u, w) \in Sign3
    BY <1>3
  <2>3. Chains(n(u, v), n(v, w), n(u, w))
    BY <1>7
  <2>4. /\ Cmp(u, v) = OrElse(n(u, v), rest(u, v))
        /\ Cmp(v, w) = OrElse(n(v, w), rest(v, w))
        /\ Cmp(u, w) = OrElse(n(u, w), rest(u, w))
    BY <1>5
  <2> HIDE DEF n
  <2>5. Chains(OrElse(n(u, v), rest(u, v)), OrElse(n(v, w), rest(v, w)), OrElse(n(u, w), rest(u, w)))
    BY <1>4, <2>1, <2>2, <2>3, OrElseChains
  <2> QED
    BY <2>4, <2>5
<1> QED
  BY <1>6, <1>8 DEF Chains, Sign3

-------------------------------------------------------------------------------
(* Finite sets and sequences. *)

\* What a sequence has at finitely many places is finite.
LEMMA ImageFinite ==
  ASSUME NEW f, NEW S, IsFiniteSet(S), S \subseteq DOMAIN f
  PROVE  IsFiniteSet({f[i] : i \in S})
<1> DEFINE T == {f[i] : i \in S}
           g == [i \in S |-> f[i]]
<1>1. g \in Surjection(S, T)
  BY DEF Surjection
<1> HIDE DEF g, T
<1>2. IsFiniteSet(T)
  BY <1>1, FS_Surjection
<1> QED
  BY <1>2 DEF T

LEMMA RangeFinite ==
  ASSUME NEW X, NEW f \in Seq(X)
  PROVE  IsFiniteSet(DOMAIN f) /\ Range(f) \subseteq X
<1>1. DOMAIN f = 1..Len(f) /\ Len(f) \in Int /\ 1 \in Int
  OBVIOUS
<1>2. IsFiniteSet(DOMAIN f)
  BY <1>1, FS_Interval
<1> QED
  BY <1>2 DEF Range

\* A finite set as a sequence, in some order.
LEMMA SetToSeqLists ==
  ASSUME NEW S, IsFiniteSet(S)
  PROVE  LET f == SetToSeq(S)
         IN  /\ f \in Seq(S) /\ DOMAIN f = 1..Cardinality(S)
             /\ Len(f) = Cardinality(S) /\ Cardinality(S) \in Nat
             /\ \A i, j \in DOMAIN f : f[i] = f[j] => i = j
             /\ Range(f) = S
<1> DEFINE n == Cardinality(S)
           f == SetToSeq(S)
<1>1. n \in Nat /\ ExistsBijection(1..n, S)
  BY FS_CardinalityType
<1>2. PICK g : g \in Bijection(1..n, S)
  BY <1>1 DEF ExistsBijection
<1>3. g \in [1..n -> S] /\ IsInjective(g)
  BY <1>2 DEF Bijection, Injection
<1>4. f = CHOOSE h \in [1..n -> S] : IsInjective(h)
  BY DEF SetToSeq
<1> HIDE DEF f
<1>5. f \in [1..n -> S] /\ IsInjective(f)
  BY <1>3, <1>4
<1>6. \A i, j \in 1..n : f[i] = f[j] => i = j
  BY <1>5 DEF IsInjective
<1>7. f \in Surjection(1..n, S)
  <2>1. f \in Injection(1..n, S)
    BY <1>5 DEF Injection
  <2>2. 1 \in Int /\ n \in Int
    BY <1>1
  <2>3. Cardinality(1..n) = IF 1 > n THEN 0 ELSE n - 1 + 1
    BY <2>2, FS_Interval
  <2> HIDE DEF n
  <2>4. Cardinality(1..n) = n
    BY <1>1, <2>3
  <2> QED
    BY <2>1, <2>4, FS_Injection DEF n
<1>8. \A s \in S : \E i \in 1..n : f[i] = s
  BY <1>7 DEF Surjection
<1> HIDE DEF n
<1>9. f \in Seq(S) /\ Len(f) = n /\ DOMAIN f = 1..n
  BY <1>1, <1>5
<1>10. Range(f) = S
  BY <1>5, <1>8, <1>9 DEF Range
<1> QED
  BY <1>1, <1>6, <1>9, <1>10 DEF n, f

\* A finite set of numbers has a greatest one.
LEMMA GreatestIsMax ==
  ASSUME NEW S, S \subseteq Nat, IsFiniteSet(S), S # {}
  PROVE  Max(S) \in S /\ \A j \in S : j <= Max(S)
<1> DEFINE n == Cardinality(S)
           m == Nth(S, n)
<1>1. n \in Nat /\ n # 0
  BY FS_CardinalityType, FS_EmptySet
<1>2. n \in 1..n
  BY <1>1
<1>3. m \in S /\ RankIn(S, m) = n
  BY <1>2, NthRank
<1>4. \A j \in S : RankIn(S, j) \in 1..n /\ (m < j => RankIn(S, m) < RankIn(S, j))
  BY <1>3, RankGrows
<1> HIDE DEF n, m
<1>5. \A j \in S : ~(m < j)
  BY <1>1, <1>3, <1>4
<1>6. \A j \in S : j <= m
  BY <1>3, <1>5
<1> QED
  BY <1>3, <1>6 DEF Max

-------------------------------------------------------------------------------
(* Keys and the best of the records. *)

LEMMA SubSeqType ==
  ASSUME NEW s \in Seq(Nat), NEW m \in 1..(Len(s) + 1), NEW n \in 0..Len(s)
  PROVE  SubSeq(s, m, n) \in Seq(Nat)
OBVIOUS

LEMMA ParseType ==
  ASSUME NEW s \in Seq(Nat)
  PROVE  Parse(s) \in Version
<1> DEFINE colons == {i \in DOMAIN s : s[i] = Colon}
           first  == IF colons = {} THEN 1 ELSE Min(colons) + 1
           minus  == {i \in first..Len(s) : s[i] = Minus}
           last   == IF minus = {} THEN Len(s) ELSE Max(minus) - 1
           epoch  == IF colons = {} THEN <<>> ELSE SubSeq(s, 1, first - 2)
           pack   == IF minus = {} THEN <<>> ELSE SubSeq(s, last + 2, Len(s))
<1>1. Parse(s) = [epoch |-> epoch, upstream |-> SubSeq(s, first, last), package |-> pack]
  BY DEF Parse
<1>2. colons \subseteq Nat /\ colons \subseteq 1..Len(s) /\ Len(s) \in Nat
  OBVIOUS
<1>3. colons # {} => Min(colons) \in colons
  BY <1>2, LeastIsMin
<1> HIDE DEF colons
<1>4. first \in 1..(Len(s) + 1) /\ (colons # {} => first >= 2)
  <2>1. CASE colons = {}
    BY <1>2, <2>1
  <2>2. CASE colons # {}
    <3>1. Min(colons) \in 1..Len(s)
      BY <1>2, <1>3, <2>2
    <3>2. first = Min(colons) + 1
      BY <2>2
    <3> HIDE DEF first
    <3> QED
      BY <1>2, <3>1, <3>2
  <2> QED
    BY <2>1, <2>2
<1> HIDE DEF first
<1>5. minus \subseteq Nat /\ minus \subseteq first..Len(s) /\ minus \subseteq 1..Len(s)
  BY <1>4
<1> HIDE DEF minus
<1>6. IsFiniteSet(minus)
  <2>1. 1 \in Int /\ Len(s) \in Int
    BY <1>2
  <2>2. IsFiniteSet(1..Len(s))
    BY <2>1, FS_Interval
  <2> QED
    BY <1>5, <2>2, FS_Subset
<1>7. minus # {} => Max(minus) \in minus
  BY <1>5, <1>6, GreatestIsMax
<1>8. last \in (first - 1)..Len(s) /\ (minus # {} => last + 1 \in 1..Len(s))
  <2>1. CASE minus = {}
    BY <1>2, <1>4, <2>1
  <2>2. CASE minus # {}
    <3>1. Max(minus) \in first..Len(s)
      BY <1>5, <1>7, <2>2
    <3>2. last = Max(minus) - 1
      BY <2>2
    <3> HIDE DEF last
    <3> QED
      BY <1>2, <1>4, <3>1, <3>2
  <2> QED
    BY <2>1, <2>2
<1> HIDE DEF last
<1>9. epoch \in Seq(Nat)
  BY <1>2, <1>4, SubSeqType
<1>10. SubSeq(s, first, last) \in Seq(Nat)
  <2>1. last \in 0..Len(s)
    BY <1>2, <1>4, <1>8
  <2> QED
    BY <1>4, <2>1, SubSeqType
<1>11. pack \in Seq(Nat)
  <2>1. minus # {} => last + 2 \in 1..(Len(s) + 1) /\ Len(s) \in 0..Len(s)
    BY <1>2, <1>8
  <2> QED
    BY <2>1, SubSeqType
<1> HIDE DEF epoch, pack
<1> QED
  BY <1>1, <1>9, <1>10, <1>11 DEF Version

LEMMA RecordVersion ==
  ASSUME NEW r \in Record
  PROVE  VersionOf(r) \in Version /\ EnvOf(r) \in Env
<1>1. r.version \in Seq(Nat) /\ r.env \in Env
  BY DEF Record
<1>2. VersionOf(r) \in Version
  BY <1>1, ParseType DEF VersionOf
<1>3. EnvOf(r) \in Env
  BY <1>1 DEF EnvOf, Normalised, Env, Known
<1> QED
  BY <1>2, <1>3

\* To have the same key is an equivalence.
LEMMA KeysAreEquivalent ==
  ASSUME NEW ck, NEW r \in Record, NEW s \in Record, NEW t \in Record
  PROVE  /\ SameKey(ck, r, r)
         /\ SameKey(ck, r, s) => SameKey(ck, s, r)
         /\ SameKey(ck, r, s) /\ SameKey(ck, s, t) => SameKey(ck, r, t)
<1>1. VersionOf(r) \in Version /\ VersionOf(s) \in Version /\ VersionOf(t) \in Version
  BY RecordVersion
<1>2. Cmp(VersionOf(r), VersionOf(r)) = 0
  <2>1. Cmp(VersionOf(r), VersionOf(r)) \in {-1, 0, 1}
    BY <1>1, VersionsOrdered
  <2>2. Cmp(VersionOf(r), VersionOf(r)) = -Cmp(VersionOf(r), VersionOf(r))
    BY <1>1, VersionsOrdered
  <2> QED
    BY <2>1, <2>2
<1>3. Cmp(VersionOf(r), VersionOf(s)) = 0 => Cmp(VersionOf(s), VersionOf(r)) = 0
  <2>1. Cmp(VersionOf(r), VersionOf(s)) = -Cmp(VersionOf(s), VersionOf(r))
    BY <1>1, VersionsOrdered
  <2>2. Cmp(VersionOf(s), VersionOf(r)) \in {-1, 0, 1}
    BY <1>1, VersionsOrdered
  <2> QED
    BY <2>1, <2>2
<1>4. /\ Cmp(VersionOf(r), VersionOf(s)) = 0 /\ Cmp(VersionOf(s), VersionOf(t)) = 0
      => Cmp(VersionOf(r), VersionOf(t)) = 0
  BY <1>1, VersionsOrdered
<1> QED
  BY <1>2, <1>3, <1>4 DEF SameKey

\* Weights are whole numbers.
LEMMA PriorityType ==
  ASSUME NEW e \in Env
  PROVE  Priority(e) \in Int
<1> DEFINE all == UNION {{c} \X (1..Weight(c)) : c \in e.names}
           box == e.names \X (1..34)
<1>1. e.names \subseteq Known \cup Unknown /\ e.modules \subseteq Module
  BY DEF Env
<1>2. IsFiniteSet(e.names) /\ IsFiniteSet(e.modules)
  <2>1. IsFiniteSet(Known)
    <3>1. Known = (((((({"unset"} \cup {"any"}) \cup {"arm"}) \cup {"arm26"}) \cup {"arm32"})
                     \cup {"swp"}) \cup {"vfp"}) \cup {"vfpv3"}
      BY DEF Known
    <3>2. \A S, x : IsFiniteSet(S) => IsFiniteSet(S \cup {x})
      BY FS_AddElement
    <3>3. IsFiniteSet({"unset"})
      BY FS_Singleton
    <3> QED
      BY <3>1, <3>2, <3>3, Zenon
  <2>2. IsFiniteSet(Known \cup Unknown)
    BY <2>1, EnvironmentsAssumption, FS_Union
  <2> QED
    BY <1>1, <2>2, EnvironmentsAssumption, FS_Subset
<1>3. \A c : Weight(c) \in 1..34
  BY DEF Weight
<1>4. all \subseteq box
  BY <1>3
<1>5. IsFiniteSet(1..34)
  <2>1. 1 \in Int /\ 34 \in Int
    OBVIOUS
  <2> QED
    BY <2>1, FS_Interval, Zenon
<1>6. IsFiniteSet(box)
  BY <1>2, <1>5, FS_Product
<1> HIDE DEF all, box
<1>7. Cardinality(all) \in Nat /\ Cardinality(e.modules) \in Nat
  BY <1>2, <1>4, <1>6, FS_Subset, FS_CardinalityType
<1>8. Priority(e) = -10000 + Cardinality(all) + 100 * Cardinality(e.modules)
  BY DEF Priority, ModuleWeight, all
<1> QED
  BY <1>7, <1>8

LEMMA InstallPriorityType ==
  ASSUME NEW r \in Record
  PROVE  InstallPriority(r) \in Int
<1>1. r.priority \in Int
  BY DEF Record
<1> QED
  BY <1>1, RecordVersion, PriorityType DEF InstallPriority

\* No record is better than itself, or than one that is better than it.
LEMMA ReplacesOrder ==
  ASSUME NEW r \in Record, NEW s \in Record, NEW t \in Record
  PROVE  /\ ~Replaces(r, r)
         /\ Replaces(r, s) /\ Replaces(s, t) => Replaces(r, t)
<1> DEFINE c(x, y) == Cmp(VersionOf(x), VersionOf(y))
           p(x) == InstallPriority(x)
<1>1. VersionOf(r) \in Version /\ VersionOf(s) \in Version /\ VersionOf(t) \in Version
  BY RecordVersion
<1>2. /\ c(r, s) \in {-1, 0, 1} /\ c(s, t) \in {-1, 0, 1} /\ c(r, t) \in {-1, 0, 1}
      /\ c(s, r) = -c(r, s) /\ c(t, s) = -c(s, t) /\ c(t, r) = -c(r, t)
  BY <1>1, VersionsOrdered
<1>3. /\ c(t, s) <= 0 /\ c(s, r) <= 0 => c(t, r) <= 0
      /\ c(t, s) <= 0 /\ c(s, r) <= 0 /\ c(t, r) = 0 => c(t, s) = 0 /\ c(s, r) = 0
  BY <1>1, VersionsOrdered
<1>4. c(r, r) = 0
  BY KeysAreEquivalent DEF SameKey
<1>5. p(r) \in Int /\ p(s) \in Int /\ p(t) \in Int
  BY InstallPriorityType
<1>6. \A x, y : Replaces(x, y) <=> c(x, y) > 0 \/ (c(x, y) = 0 /\ p(x) > p(y))
  BY DEF Replaces
<1> HIDE DEF c, p
<1>7. ~Replaces(r, r)
  BY <1>4, <1>5, <1>6
<1>8. ASSUME Replaces(r, s), Replaces(s, t)
      PROVE  Replaces(r, t)
  <2>1. c(r, s) > 0 \/ (c(r, s) = 0 /\ p(r) > p(s))
    BY <1>6, <1>8
  <2>2. c(s, t) > 0 \/ (c(s, t) = 0 /\ p(s) > p(t))
    BY <1>6, <1>8
  <2>3. c(r, t) > 0 \/ (c(r, t) = 0 /\ p(r) > p(t))
    BY <1>2, <1>3, <1>5, <2>1, <2>2
  <2> QED
    BY <1>6, <2>3
<1> QED
  BY <1>7, <1>8

\* So a finite set of records has one that none of them replaces.
LEMMA BestExists ==
  ASSUME NEW S, S \subseteq Record, IsFiniteSet(S), S # {}
  PROVE  \E r \in S : \A s \in S : ~Replaces(s, r)
<1> DEFINE over(r) == {s \in S : Replaces(s, r)}
           count(r) == Cardinality(over(r))
           counts == {count(r) : r \in S}
<1>1. \A r \in S : IsFiniteSet(over(r)) /\ count(r) \in Nat
  BY FS_Subset, FS_CardinalityType
<1>2. counts \subseteq Nat /\ counts # {}
  BY <1>1
<1>3. \E n \in counts : \A k \in counts : n <= k
  <2> HIDE DEF counts
  <2> QED
    BY <1>2, LeastExists
<1>4. PICK r \in S : \A s \in S : count(r) <= count(s)
  BY <1>3
<1>5. ASSUME NEW s \in S, Replaces(s, r)
      PROVE  FALSE
  <2>1. r \in Record /\ s \in Record
    OBVIOUS
  <2>2. over(s) \subseteq over(r) /\ s \in over(r) /\ s \notin over(s)
    BY <1>5, ReplacesOrder
  <2> HIDE DEF over
  <2>3. count(s) <= count(r) /\ count(s) # count(r)
    BY <1>1, <2>2, FS_Subset
  <2> HIDE DEF count
  <2> QED
    BY <1>1, <1>4, <2>3
<1> QED
  BY <1>5

-------------------------------------------------------------------------------
(* The numbers of modules. *)

\* The next number is greater than those that have been given out, and a module
\* that is checked has one.
Typed(ck) ==
  /\ IsNumbering(ck.moduleIds) /\ ck.nextId \in Nat
  /\ \A t \in DOMAIN ck.moduleIds : ck.moduleIds[t] < ck.nextId
  /\ DOMAIN ck.moduleChecks \subseteq DOMAIN ck.moduleIds
  /\ DOMAIN ck.environments \subseteq Env

\* A module keeps its number.
Keeps(ck, old) ==
  \A t \in DOMAIN old.moduleIds :
    t \in DOMAIN ck.moduleIds /\ ck.moduleIds[t] = old.moduleIds[t]

LEMMA NumberedTyped ==
  ASSUME NEW ck, IsChecker(ck), Typed(ck), NEW titles, titles \subseteq Module
  PROVE  LET new == Numbered(ck, titles)
         IN  /\ IsNumbering(new.moduleIds) /\ new.nextId \in Nat
             /\ \A t \in DOMAIN new.moduleIds : new.moduleIds[t] < new.nextId
             /\ DOMAIN new.moduleIds = DOMAIN ck.moduleIds \cup titles
             /\ Keeps(new, ck)
<1> DEFINE old == ck.moduleIds
           S == titles \ DOMAIN old
           seq == SetToSeq(S)
           place(t) == CHOOSE i \in DOMAIN seq : seq[i] = t
           number(t) == ck.nextId - 1 + place(t)
           ids == Added(old, [t \in Range(seq) |-> number(t)])
           next == ck.nextId + Len(seq)
           new == Numbered(ck, titles)
<1>1. IsFiniteSet(S)
  BY EnvironmentsAssumption, FS_Subset
<1>2. /\ DOMAIN seq = 1..Len(seq) /\ Len(seq) \in Nat /\ Range(seq) = S
  <2> HIDE DEF S
  <2> QED
    BY <1>1, SetToSeqLists
<1>3. new = [ck EXCEPT !.moduleIds = Added(@, [t \in Range(seq) |-> number(t)]),
                       !.nextId = @ + Len(seq)]
  BY DEF Numbered
<1>4. new.moduleIds = ids /\ new.nextId = next
  <2> HIDE DEF seq, number
  <2> QED
    BY <1>3 DEF IsChecker
<1> HIDE DEF new, seq
<1>5. \A t \in S : place(t) \in 1..Len(seq) /\ seq[place(t)] = t
  BY <1>2 DEF Range
<1> HIDE DEF place
<1>6. ck.nextId \in Nat /\ DOMAIN old \subseteq Module /\ old \in [DOMAIN old -> Nat]
      /\ (\A t \in DOMAIN old : old[t] < ck.nextId)
      /\ (\A t, u \in DOMAIN old : old[t] = old[u] => t = u)
  BY DEF Typed, IsNumbering
<1>7. /\ DOMAIN ids = DOMAIN old \cup S
      /\ \A t \in DOMAIN old : ids[t] = old[t]
      /\ \A t \in S : ids[t] = number(t)
      /\ ids \in [DOMAIN ids -> {ids[t] : t \in DOMAIN ids}]
  BY <1>2 DEF Added
<1> HIDE DEF ids
<1>8. \A t \in S : number(t) \in Nat /\ ck.nextId <= number(t) /\ number(t) < next
  BY <1>2, <1>5, <1>6
<1>9. next \in Nat /\ ck.nextId <= next
  BY <1>2, <1>6
<1>10. \A t, u \in S : number(t) = number(u) => t = u
  BY <1>2, <1>5, <1>6
<1> HIDE DEF number, next
<1>11. \A t \in DOMAIN ids : ids[t] \in Nat /\ ids[t] < next
  <2>1. \A t \in DOMAIN old : ids[t] \in Nat /\ ids[t] < next
    BY <1>6, <1>7, <1>9
  <2> HIDE DEF S
  <2> QED
    BY <1>7, <1>8, <2>1
<1>12. \A t, u \in DOMAIN ids : ids[t] = ids[u] => t = u
  <2>1. \A t \in DOMAIN old : ids[t] = old[t] /\ ids[t] \in Nat /\ ids[t] < ck.nextId
    BY <1>6, <1>7
  <2>2. \A t \in S : ids[t] = number(t) /\ ids[t] \in Nat /\ ck.nextId <= ids[t]
    BY <1>7, <1>8
  <2> HIDE DEF S
  <2>3. \A t \in DOMAIN old, u \in S : ids[t] # ids[u]
    BY <1>6, <2>1, <2>2
  <2> QED
    BY <1>6, <1>7, <1>10, <2>1, <2>2, <2>3
<1>13. DOMAIN ids = DOMAIN old \cup titles
  BY <1>7
<1>14. IsNumbering(ids)
  BY <1>6, <1>7, <1>11, <1>12, <1>13 DEF IsNumbering
<1> HIDE DEF S, old
<1> QED
  BY <1>4, <1>7, <1>9, <1>11, <1>13, <1>14 DEF Keeps, new, old

LEMMA WithEnvsTyped ==
  ASSUME NEW ck, IsChecker(ck), Typed(ck), NEW mc, NEW envs, envs \subseteq Env
  PROVE  Typed(WithEnvs(ck, mc, envs)) /\ Keeps(WithEnvs(ck, mc, envs), ck)
<1> DEFINE fresh  == envs \ DOMAIN ck.environments
           names  == UNION {e.names : e \in fresh}
           titles == UNION {e.modules : e \in fresh}
           num    == Numbered(ck, titles \ DOMAIN ck.moduleChecks)
           seen   == WithChecks(ck, mc, fresh)
           new    == WithEnvs(ck, mc, envs)
<1>1. titles \subseteq Module
  BY DEF Env
<1>2. /\ IsChecker(num) /\ num.environments = ck.environments
      /\ num.checks = ck.checks /\ num.moduleChecks = ck.moduleChecks
  BY NumberedKeeps
<1>3. /\ IsNumbering(num.moduleIds) /\ num.nextId \in Nat
      /\ \A t \in DOMAIN num.moduleIds : num.moduleIds[t] < num.nextId
      /\ DOMAIN num.moduleIds = DOMAIN ck.moduleIds \cup (titles \ DOMAIN ck.moduleChecks)
      /\ Keeps(num, ck)
  <2> HIDE DEF titles
  <2> QED
    BY <1>1, NumberedTyped
<1>4. seen = [num EXCEPT !.checks = Added(@, [c \in names |-> Both(FALSE)]),
                         !.moduleChecks = Added(@, [t \in titles |-> Both(t \in mc.loaded)])]
  BY DEF WithChecks
<1>5. new = [seen EXCEPT !.environments = Added(@, [e \in fresh |-> Usable(seen, e)])]
  BY DEF WithEnvs
<1> HIDE DEF num, seen, new, names, titles
<1>6. /\ IsChecker(seen) /\ seen.environments = ck.environments
      /\ seen.moduleIds = num.moduleIds /\ seen.nextId = num.nextId
      /\ seen.moduleChecks = Added(ck.moduleChecks, [t \in titles |-> Both(t \in mc.loaded)])
  BY <1>2, <1>4 DEF IsChecker
<1>7. DOMAIN seen.moduleChecks = DOMAIN ck.moduleChecks \cup titles
  BY <1>6 DEF Added
<1>8. /\ new.moduleIds = num.moduleIds /\ new.nextId = num.nextId
      /\ new.moduleChecks = seen.moduleChecks
      /\ new.environments = Added(ck.environments, [e \in fresh |-> Usable(seen, e)])
  BY <1>5, <1>6 DEF IsChecker
<1>9. DOMAIN new.environments = DOMAIN ck.environments \cup fresh
  BY <1>8 DEF Added
<1>10. DOMAIN new.moduleChecks \subseteq DOMAIN new.moduleIds
  BY <1>3, <1>7, <1>8 DEF Typed
<1>11. DOMAIN new.environments \subseteq Env
  BY <1>9 DEF Typed
<1>12. Typed(new)
  BY <1>3, <1>8, <1>10, <1>11 DEF Typed
<1> QED
  BY <1>3, <1>8, <1>12 DEF Keeps, new

LEMMA NewTyped ==
  ASSUME NEW mc, NEW file, file # NoObject => IsNumbering(file)
  PROVE  Typed(NewChecker(mc, file))
<1> DEFINE ck == NewChecker(mc, file)
           above == {0} \cup {file[t] + 1 : t \in DOMAIN file}
<1>1. /\ ck.moduleIds = IF file = NoObject THEN <<>> ELSE file
      /\ ck.nextId = IF file = NoObject THEN 1 ELSE Max(above)
      /\ ck.moduleChecks = <<>> /\ ck.environments = [e \in {UnsetEnv} |-> TRUE]
  BY DEF NewChecker
<1>2. UnsetEnv \in Env
  BY DEF UnsetEnv, Env, Known
<1>3. CASE file = NoObject
  BY <1>1, <1>2, <1>3 DEF Typed, IsNumbering
<1>4. CASE file # NoObject
  <2>1. /\ DOMAIN file \subseteq Module /\ file \in [DOMAIN file -> Nat]
    BY <1>4 DEF IsNumbering
  <2> DEFINE g == [t \in DOMAIN file |-> file[t] + 1]
             img == {g[t] : t \in DOMAIN g}
  <2>2. IsFiniteSet(DOMAIN g)
    BY <2>1, EnvironmentsAssumption, FS_Subset
  <2>3. IsFiniteSet(img)
    <3> HIDE DEF g
    <3> QED
      BY <2>2, ImageFinite
  <2>4. above = img \cup {0}
    OBVIOUS
  <2>5. IsFiniteSet(above) /\ 0 \in above /\ above \subseteq Nat
    <3>1. above \subseteq Nat
      BY <2>1
    <3>2. 0 \in above
      OBVIOUS
    <3> HIDE DEF img, above
    <3> QED
      BY <2>3, <2>4, <3>1, <3>2, FS_AddElement
  <2>6. \A t \in DOMAIN file : file[t] + 1 \in above
    OBVIOUS
  <2> HIDE DEF above
  <2>7. Max(above) \in Nat /\ \A x \in above : x <= Max(above)
    BY <2>5, GreatestIsMax
  <2>8. \A t \in DOMAIN file : file[t] < Max(above)
    BY <2>1, <2>6, <2>7
  <2> HIDE DEF ck
  <2>9. IsNumbering(file)
    BY <1>4
  <2>10. DOMAIN ck.moduleChecks = {} /\ DOMAIN ck.environments = {UnsetEnv}
    BY <1>1
  <2> QED
    BY <1>1, <1>2, <1>4, <2>7, <2>8, <2>9, <2>10 DEF Typed, ck
<1> QED
  BY <1>3, <1>4

LEMMA OverrideTyped ==
  ASSUME NEW ck, IsChecker(ck), Typed(ck), NEW new,
         new = Cleared(ck) \/ \E names, mods : new = Overridden(ck, names, mods)
  PROVE  Typed(new) /\ new.moduleIds = ck.moduleIds
<1>1. PICK checks, mods : /\ DOMAIN mods = DOMAIN ck.moduleChecks
                          /\ new = ResetAvailable([ck EXCEPT !.checks = checks,
                                                             !.moduleChecks = mods])
  <2>1. CASE new = Cleared(ck)
    <3> DEFINE c == [x \in DOMAIN ck.checks |-> Both(ck.checks[x].detected)]
               m == [x \in DOMAIN ck.moduleChecks |-> Both(ck.moduleChecks[x].detected)]
    <3>1. new = ResetAvailable([ck EXCEPT !.checks = c, !.moduleChecks = m])
      BY <2>1 DEF Cleared
    <3> QED BY <3>1
  <2>2. ASSUME NEW names, NEW ms, new = Overridden(ck, names, ms)
        PROVE  \E checks, m2 : /\ DOMAIN m2 = DOMAIN ck.moduleChecks
                               /\ new = ResetAvailable([ck EXCEPT !.checks = checks,
                                                                  !.moduleChecks = m2])
    <3> DEFINE c == [x \in DOMAIN ck.checks |->
                       [ck.checks[x] EXCEPT !.available = x \in names]]
               m == [x \in DOMAIN ck.moduleChecks |->
                       [ck.moduleChecks[x] EXCEPT !.available = x \in ms]]
    <3>1. new = ResetAvailable([ck EXCEPT !.checks = c, !.moduleChecks = m])
      BY <2>2 DEF Overridden
    <3>2. DOMAIN m = DOMAIN ck.moduleChecks
      OBVIOUS
    <3> HIDE DEF c, m
    <3> QED BY <3>1, <3>2
  <2> QED BY <2>1, <2>2
<1> DEFINE mid == [ck EXCEPT !.checks = checks, !.moduleChecks = mods]
<1>2. /\ IsChecker(mid) /\ mid.environments = ck.environments
      /\ mid.moduleChecks = mods /\ mid.moduleIds = ck.moduleIds /\ mid.nextId = ck.nextId
  BY DEF IsChecker
<1>3. new = ResetAvailable(mid)
  BY <1>1
<1> HIDE DEF mid
<1>4. /\ new.moduleIds = ck.moduleIds /\ new.nextId = ck.nextId /\ new.moduleChecks = mods
      /\ DOMAIN new.environments = DOMAIN ck.environments
  BY <1>2, <1>3 DEF ResetAvailable, IsChecker
<1> QED
  BY <1>1, <1>4 DEF Typed

\* An environment that is known keeps its identifier.
LEMMA IdsStay ==
  ASSUME NEW ck, NEW old, Keeps(ck, old), Good(old), Typed(old),
         NEW e \in DOMAIN old.environments
  PROVE  EnvId(ck, e) = EnvId(old, e)
<1>1. e.modules \subseteq DOMAIN old.moduleIds
  BY DEF Good, Cached, Typed
<1>2. \A t \in e.modules : ck.moduleIds[t] = old.moduleIds[t]
  BY <1>1 DEF Keeps
<1>3. {<<"m", ck.moduleIds[t]>> : t \in e.modules} = {<<"m", old.moduleIds[t]>> : t \in e.modules}
  BY <1>2
<1> QED
  BY <1>3 DEF EnvId

LEMMA KeysStay ==
  ASSUME NEW ck, NEW old, Keeps(ck, old), Good(old), Typed(old),
         NEW r, NEW s, KnowsAll(old, {r, s})
  PROVE  SameKey(ck, r, s) <=> SameKey(old, r, s)
<1>1. EnvOf(r) \in DOMAIN old.environments /\ EnvOf(s) \in DOMAIN old.environments
  BY DEF KnowsAll
<1>2. EnvId(ck, EnvOf(r)) = EnvId(old, EnvOf(r)) /\ EnvId(ck, EnvOf(s)) = EnvId(old, EnvOf(s))
  BY <1>1, IdsStay
<1> QED
  BY <1>2 DEF SameKey

-------------------------------------------------------------------------------
(* What the files, the lists and the tables hold. *)

DataInv ==
  /\ choices # NoObject => choices \in Seq(STRING \X Source)
  /\ idFile # NoObject => IsNumbering(idFile)
  /\ available \in Seq(Record)
  /\ info \in [Package -> Record \cup {NoObject}]
  /\ control \subseteq Record /\ IsFiniteSet(control)
  /\ written \subseteq Record

ListsInv ==
  /\ lists \in [Source -> Seq(Record)]
  /\ \A s \in Source : \A i \in DOMAIN lists[s] : lists[s][i].origin = s
  /\ toDownload \subseteq Source /\ toBuild \subseteq Source

TypedInv == Live => Typed(checker)

\* There is a transfer in the download state only, and what is to be built are then
\* the sources that have been downloaded.
FetchInv ==
  /\ dload # "none" => state = "download" /\ url \in toDownload
  /\ state = "srclist" => toBuild = {}
  /\ state \in {"srclist", "download"} => written = {}
  /\ state = "download" => toBuild \cup toDownload = Sources

Built0 == Sources \ toBuild

\* While the file is being written: every key of the sources that are done has been
\* written, with the record that comes first.
FirstsInv ==
  state \in {"build_sources", "build_local"} =>
    /\ toBuild \subseteq Sources /\ (state = "build_local" => toBuild = {})
    /\ \A s \in Built0, t \in toBuild : s < t
    /\ Range(available) = written
    /\ KnowsAll(checker, written) /\ \A s \in Built0 : KnowsAll(checker, Range(lists[s]))
    /\ \A r \in written : r.origin \in Built0
    /\ \A s \in Built0 : \A j \in DOMAIN lists[s] :
         /\ \E r \in written : SameKey(checker, lists[s][j], r)
         /\ \A r \in written : SameKey(checker, lists[s][j], r) =>
              r.origin <= s /\ (r.origin = s => \E i \in 1..j : lists[s][i] = r)

WinInv == state = "done" => SourcesWin

LEMMA SeenTyped ==
  ASSUME NEW ck, Good(ck), Typed(ck), NEW mc, NEW records, records \subseteq Record
  PROVE  Typed(Seen(ck, mc, records)) /\ Keeps(Seen(ck, mc, records), ck)
<1> DEFINE envs == {EnvOf(r) : r \in records}
<1>1. envs \subseteq Env
  BY RecordVersion
<1>2. IsChecker(ck)
  BY DEF Good
<1> HIDE DEF envs
<1>3. Typed(WithEnvs(ck, mc, envs)) /\ Keeps(WithEnvs(ck, mc, envs), ck)
  BY <1>1, <1>2, WithEnvsTyped
<1> QED
  BY <1>3 DEF Seen, envs

LEMMA ReadTableTyped ==
  ASSUME NEW ck, Good(ck), Typed(ck), NEW mc, NEW file \in Seq(Record)
  PROVE  LET table == ReadTable(ck, mc, file)
         IN  /\ Typed(table.checker) /\ Keeps(table.checker, ck)
             /\ table.control \subseteq Record /\ IsFiniteSet(table.control)
<1> DEFINE seen == Seen(ck, mc, Range(file))
           firsts == FirstsOf(seen, {}, file)
           ctrl == {file[i] : i \in firsts}
<1>1. Range(file) \subseteq Record /\ IsFiniteSet(DOMAIN file)
  BY RangeFinite
<1>2. Typed(seen) /\ Keeps(seen, ck)
  BY <1>1, SeenTyped
<1>3. ReadTable(ck, mc, file) = [checker |-> seen, control |-> ctrl]
  BY DEF ReadTable
<1>4. firsts \subseteq DOMAIN file
  BY DEF FirstsOf
<1> HIDE DEF seen, firsts
<1>5. IsFiniteSet(ctrl) /\ ctrl \subseteq Record
  BY <1>1, <1>4, FS_Subset, ImageFinite
<1> HIDE DEF ctrl
<1> QED
  BY <1>2, <1>3, <1>5

\* The records that are first with their key, one after the other.
LEMMA FirstsListed ==
  ASSUME NEW file \in Seq(Record), NEW S, S \subseteq DOMAIN file
  PROVE  LET listed == [k \in 1..Cardinality(S) |-> file[Nth(S, k)]]
         IN  listed \in Seq(Record) /\ Range(listed) = {file[i] : i \in S}
<1> DEFINE n == Cardinality(S)
           listed == [k \in 1..n |-> file[Nth(S, k)]]
<1>1. S \subseteq Nat /\ IsFiniteSet(S)
  <2>1. S \subseteq Nat
    OBVIOUS
  <2> QED
    BY <2>1, RangeFinite, FS_Subset
<1>2. n \in Nat
  BY <1>1, FS_CardinalityType
<1>3. \A k \in 1..n : Nth(S, k) \in S
  BY <1>1, NthRank
<1>4. \A i \in S : RankIn(S, i) \in 1..n /\ Nth(S, RankIn(S, i)) = i
  BY <1>1, NthReaches
<1> HIDE DEF n
<1>5. \A k \in 1..n : file[Nth(S, k)] \in Record
  BY <1>3
<1>6. listed \in Seq(Record) /\ DOMAIN listed = 1..n
  BY <1>2, <1>5
<1>7. Range(listed) = {file[i] : i \in S}
  BY <1>3, <1>4, <1>6 DEF Range
<1> QED
  BY <1>6, <1>7 DEF n

LEMMA RangeOfConcat ==
  ASSUME NEW X, NEW s \in Seq(X), NEW t \in Seq(X)
  PROVE  s \o t \in Seq(X) /\ Range(s \o t) = Range(s) \cup Range(t)
<1> DEFINE u == s \o t
<1>1. /\ u \in Seq(X) /\ Len(u) = Len(s) + Len(t) /\ DOMAIN u = 1..Len(u)
      /\ DOMAIN s = 1..Len(s) /\ DOMAIN t = 1..Len(t) /\ Len(s) \in Nat /\ Len(t) \in Nat
  OBVIOUS
<1>2. \A i \in 1..Len(s) : u[i] = s[i]
  OBVIOUS
<1>3. \A i \in 1..Len(t) : u[Len(s) + i] = t[i]
  OBVIOUS
<1> HIDE DEF u
<1>4. ASSUME NEW i \in DOMAIN u
      PROVE  u[i] \in Range(s) \cup Range(t)
  <2>1. CASE i <= Len(s)
    BY <1>1, <1>2, <2>1 DEF Range
  <2>2. CASE ~(i <= Len(s))
    <3>1. i - Len(s) \in 1..Len(t) /\ Len(s) + (i - Len(s)) = i
      BY <1>1, <2>2
    <3> QED
      BY <1>1, <1>3, <3>1 DEF Range
  <2> QED
    BY <2>1, <2>2
<1>5. \A i \in DOMAIN s : i \in DOMAIN u /\ u[i] = s[i]
  BY <1>1, <1>2
<1>6. \A i \in DOMAIN t : Len(s) + i \in DOMAIN u /\ u[Len(s) + i] = t[i]
  BY <1>1, <1>3
<1>7. Range(u) = Range(s) \cup Range(t)
  BY <1>4, <1>5, <1>6 DEF Range
<1> QED
  BY <1>1, <1>7 DEF u

\* What writing some records does.
LEMMA BuiltTyped ==
  ASSUME Good(checker), Typed(checker), available \in Seq(Record), written \subseteq Record,
         NEW records \in Seq(Record)
  PROVE  LET st == Built(records)
             firsts == FirstsOf(st.checker, written, records)
         IN  /\ Good(st.checker) /\ Typed(st.checker) /\ Keeps(st.checker, checker)
             /\ Extends(st.checker, checker) /\ KnowsAll(st.checker, Range(records))
             /\ st.written = written \cup {records[i] : i \in firsts}
             /\ st.written \subseteq Record
             /\ st.out \in Seq(Record)
             /\ Range(st.out) = Range(available) \cup {records[i] : i \in firsts}
<1> DEFINE seen == Seen(checker, machine, Range(records))
           firsts == FirstsOf(seen, written, records)
           new == [k \in 1..Cardinality(firsts) |-> records[Nth(firsts, k)]]
<1>1. Range(records) \subseteq Record
  BY RangeFinite
<1>2. /\ Good(seen) /\ Extends(seen, checker) /\ KnowsAll(seen, Range(records))
      /\ Typed(seen) /\ Keeps(seen, checker)
  BY <1>1, SeenIsGood, SeenTyped
<1>3. Built(records) = [checker |-> seen, written |-> written \cup {records[i] : i \in firsts},
                        out |-> available \o new]
  BY DEF Built
<1>4. firsts \subseteq DOMAIN records
  BY DEF FirstsOf
<1>5. new \in Seq(Record) /\ Range(new) = {records[i] : i \in firsts}
  <2> HIDE DEF firsts
  <2> QED
    BY <1>4, FirstsListed
<1>6. /\ available \o new \in Seq(Record)
      /\ Range(available \o new) = Range(available) \cup Range(new)
  <2> HIDE DEF new
  <2> QED
    BY <1>5, RangeOfConcat
<1>7. {records[i] : i \in firsts} \subseteq Record
  BY <1>4
<1>8. Built(records).checker = seen
  BY <1>3
<1> HIDE DEF seen, new
<1> QED
  BY <1>2, <1>3, <1>5, <1>6, <1>7, <1>8

\* Every record of a file has its key among those that are known or come first.
LEMMA FirstsCover ==
  ASSUME NEW ck, NEW known, known \subseteq Record, NEW file \in Seq(Record), NEW j \in DOMAIN file
  PROVE  \/ \E s \in known : SameKey(ck, file[j], s)
         \/ \E i \in FirstsOf(ck, known, file) : i <= j /\ SameKey(ck, file[j], file[i])
<1> DEFINE I == {i \in DOMAIN file : SameKey(ck, file[j], file[i])}
<1>1. \A i \in DOMAIN file : file[i] \in Record /\ i \in Nat
  OBVIOUS
<1>2. j \in I /\ I \subseteq Nat
  BY <1>1, KeysAreEquivalent
<1>3. PICK i \in I : \A k \in I : i <= k
  <2> HIDE DEF I
  <2> QED
    BY <1>2, LeastExists
<1>4. i \in DOMAIN file /\ SameKey(ck, file[j], file[i]) /\ i <= j
  BY <1>2, <1>3
<1>5. \A k \in 1..i - 1 : ~SameKey(ck, file[i], file[k])
  <2> SUFFICES ASSUME NEW k \in 1..i - 1, SameKey(ck, file[i], file[k])
               PROVE  FALSE
    OBVIOUS
  <2>1. k \in DOMAIN file /\ k < i
    BY <1>1, <1>4
  <2>2. SameKey(ck, file[j], file[k])
    BY <1>1, <1>4, <2>1, KeysAreEquivalent
  <2>3. k \in I
    BY <2>1, <2>2
  <2>4. i <= k
    BY <1>3, <2>3
  <2> QED
    BY <1>1, <1>4, <2>1, <2>4
<1>6. CASE \E s \in known : SameKey(ck, file[i], s)
  <2>1. PICK s \in known : SameKey(ck, file[i], s)
    BY <1>6
  <2>2. SameKey(ck, file[j], s)
    BY <1>1, <1>4, <2>1, KeysAreEquivalent
  <2> QED
    BY <2>2
<1>7. CASE ~\E s \in known : SameKey(ck, file[i], s)
  <2>1. i \in FirstsOf(ck, known, file)
    BY <1>4, <1>5, <1>7 DEF FirstsOf
  <2> QED
    BY <1>4, <2>1
<1> QED
  BY <1>6, <1>7

\* A package that has a best record has one of the table.
LEMMA BestIsThere ==
  ASSUME NEW ck, NEW ctrl, ctrl \subseteq Record, IsFiniteSet(ctrl), NEW p \in Package
  PROVE  LET usable == {r \in ctrl : r.pkg = p /\ ck.environments[EnvOf(r)]}
             b == Rebuild(ck, ctrl)[p]
         IN  IF usable = {} THEN b = NoRecord
             ELSE b \in usable /\ \A r \in usable : ~Replaces(r, b)
<1> DEFINE usable == {r \in ctrl : r.pkg = p /\ ck.environments[EnvOf(r)]}
           b == Rebuild(ck, ctrl)[p]
<1>1. b = IF usable = {} THEN NoRecord ELSE CHOOSE r \in usable : \A s \in usable : ~Replaces(s, r)
  BY DEF Rebuild
<1>2. usable \subseteq Record /\ IsFiniteSet(usable)
  BY FS_Subset
<1> HIDE DEF b, usable
<1>3. usable # {} => \E r \in usable : \A s \in usable : ~Replaces(s, r)
  BY <1>2, BestExists
<1>4. IF usable = {} THEN b = NoRecord
      ELSE b \in usable /\ \A r \in usable : ~Replaces(r, b)
  BY <1>1, <1>3
<1> QED
  BY <1>4 DEF b, usable

-------------------------------------------------------------------------------
(* Every step keeps what they hold. *)

Inv == CacheInv /\ DataInv /\ ListsInv /\ TypedInv

LEMMA SourcesType == DataInv => Sources \subseteq Source
<1> SUFFICES ASSUME DataInv
             PROVE  Sources \subseteq Source
  OBVIOUS
<1> DEFINE lines == IF choices = NoObject THEN DefaultSources ELSE choices
<1>1. lines \in Seq(STRING \X Source)
  BY RecordsAssumption DEF DataInv
<1>2. Sources = {l[2] : l \in {k \in Range(lines) : k[1] = "pkg"}}
  BY DEF Sources
<1> HIDE DEF lines
<1>3. Range(lines) \subseteq STRING \X Source
  BY <1>1, RangeFinite
<1> QED
  BY <1>2, <1>3

LEMMA DataInit == Init => DataInv /\ ListsInv /\ TypedInv
<1> SUFFICES ASSUME Init
             PROVE  DataInv /\ ListsInv /\ TypedInv
  OBVIOUS
<1>1. PICK db \in Initials :
        /\ choices = db.choices /\ idFile = db.idFile /\ available = db.available
        /\ info = db.info
  BY DEF Init
<1>2. control = {} /\ written = {} /\ toDownload = {} /\ toBuild = {}
  BY DEF Init
<1>3. DataInv
  <2>1. info \in [Package -> Record \cup {NoObject}]
    BY <1>1, RecordsAssumption
  <2>2. IsFiniteSet(control)
    BY <1>2, FS_EmptySet
  <2> QED
    BY <1>1, <1>2, <2>1, <2>2, RecordsAssumption DEF DataInv
<1>4. ListsInv
  <2>1. lists = [s \in Source |-> <<>>]
    BY DEF Init
  <2> QED
    BY <1>2, <2>1 DEF ListsInv
<1>5. TypedInv
  BY DEF TypedInv, Init, Live, Running
<1> QED
  BY <1>3, <1>4, <1>5

LEMMA DataKept ==
  ASSUME DataInv, ListsInv, UNCHANGED <<choices, idFile, available, info, control, written>>,
         UNCHANGED lists, toDownload' \subseteq Source, toBuild' \subseteq Source
  PROVE  DataInv' /\ ListsInv'
BY DEF DataInv, ListsInv

LEMMA TypedKept ==
  ASSUME TypedInv, UNCHANGED checker, Live' => Live
  PROVE  TypedInv'
BY DEF TypedInv

LEMMA StartKeepsData ==
  ASSUME Inv, Start
  PROVE  DataInv' /\ ListsInv' /\ TypedInv'
<1> DEFINE first == NewChecker(machine, idFile)
           table == ReadTable(first, machine, available)
           read  == MapEntries(StatusOf, statFile)
           lost  == Misfiled(table.checker, table.control, read)
           files == {info[p] : p \in lost}
           seen  == Seen(table.checker, machine, files)
           up    == IF dbVersion < 2 THEN UpgradeStatus(table.checker, table.control, read)
                    ELSE [checker |-> table.checker, status |-> read]
<1>1. /\ checker' = up.checker /\ control' = table.control
      /\ idFile' = IF up.checker.moduleIds = first.moduleIds THEN idFile
                   ELSE up.checker.moduleIds
      /\ UNCHANGED <<choices, available, info, written, lists, toDownload, toBuild>>
  BY DEF Start, discVars, buildVars
<1>2. Good(first) /\ Typed(first)
  BY NewIsGood, NewTyped DEF Inv, DataInv
<1> HIDE DEF first
<1>3. /\ Good(table.checker) /\ Typed(table.checker)
      /\ table.control \subseteq Record /\ IsFiniteSet(table.control)
  BY <1>2, ReadTableIsGood, ReadTableTyped DEF Inv, DataInv
<1> HIDE DEF table
<1>4. files \subseteq Record
  BY DEF Misfiled, Inv, DataInv
<1> HIDE DEF files
<1>5. Typed(seen)
  BY <1>3, <1>4, SeenTyped
<1>6. up.checker = seen \/ up.checker = table.checker
  BY DEF UpgradeStatus, files
<1> HIDE DEF seen, up
<1>7. Typed(up.checker) /\ IsNumbering(up.checker.moduleIds)
  BY <1>3, <1>5, <1>6 DEF Typed
<1>8. idFile' # NoObject => IsNumbering(idFile')
  BY <1>1, <1>7 DEF Inv, DataInv
<1>9. DataInv'
  BY <1>1, <1>3, <1>8 DEF Inv, DataInv
<1>10. ListsInv'
  BY <1>1 DEF Inv, ListsInv
<1>11. TypedInv'
  BY <1>1, <1>7 DEF TypedInv
<1> QED
  BY <1>9, <1>10, <1>11

LEMMA StopKeepsData ==
  ASSUME Inv, Stop
  PROVE  DataInv' /\ ListsInv' /\ TypedInv'
<1>1. /\ control' = {} /\ written' = {} /\ toDownload' = {} /\ toBuild' = {}
      /\ UNCHANGED <<choices, idFile, info, lists>>
      /\ checker' = NoObject /\ best' = NoObject /\ state' = "none"
  BY DEF Stop
<1>2. PICK n \in IF out THEN 0..Len(available) ELSE {Len(available)} :
        available' = SubSeq(available, 1, n)
  BY DEF Stop
<1>3. available \in Seq(Record) /\ n \in 0..Len(available)
  BY <1>2 DEF Inv, DataInv
<1>4. available' \in Seq(Record)
  BY <1>2, <1>3
<1>5. IsFiniteSet(control')
  BY <1>1, FS_EmptySet
<1>6. DataInv'
  BY <1>1, <1>4, <1>5 DEF Inv, DataInv
<1>7. ListsInv'
  BY <1>1 DEF Inv, ListsInv
<1>8. TypedInv'
  BY <1>1 DEF TypedInv, Live, Running
<1> QED
  BY <1>6, <1>7, <1>8

LEMMA OverrideKeepsData ==
  ASSUME Inv, ClearEnvironmentOverrides \/ OverrideEnvironment
  PROVE  /\ DataInv' /\ ListsInv' /\ TypedInv' /\ Live
         /\ checker'.moduleIds = checker.moduleIds
         /\ DOMAIN checker'.environments = DOMAIN checker.environments
<1>1. PICK new : /\ CheckerChanges(new)
                 /\ new = Cleared(checker) \/ \E names, mods : new = Overridden(checker, names, mods)
  BY DEF ClearEnvironmentOverrides, OverrideEnvironment
<1>2. Live
  BY DEF ClearEnvironmentOverrides, OverrideEnvironment, Live
<1>3. Good(checker) /\ IsChecker(checker) /\ Typed(checker)
  BY <1>2 DEF Inv, CacheInv, TypedInv, Good
<1>4. Typed(new) /\ new.moduleIds = checker.moduleIds
  BY <1>1, <1>3, OverrideTyped
<1>5. DOMAIN new.environments = DOMAIN checker.environments
  BY <1>1, <1>3, OverrideIsGood
<1>6. /\ UNCHANGED <<choices, idFile, available, info, control, written, lists, toDownload, toBuild>>
      /\ checker' = new
  BY <1>1 DEF CheckerChanges, discVars, statVars, fetchVars, buildVars
<1>7. DataInv' /\ ListsInv'
  BY <1>6, DataKept DEF Inv, ListsInv
<1> QED
  BY <1>2, <1>4, <1>5, <1>6, <1>7 DEF TypedInv

\* A best record is one of the table.
LEMMA BestListed ==
  ASSUME Inv, NEW p \in Package, best # NoObject, best[p] # NoRecord
  PROVE  best[p] \in control /\ best[p] \in Record /\ best[p].pkg = p
<1> DEFINE usable == {r \in control : r.pkg = p /\ checker.environments[EnvOf(r)]}
           b == Rebuild(checker, control)[p]
<1>1. best = Rebuild(checker, control)
  BY DEF Inv, CacheInv
<1>2. control \subseteq Record /\ IsFiniteSet(control)
  BY DEF Inv, DataInv
<1>3. IF usable = {} THEN b = NoRecord ELSE b \in usable
  BY <1>2, BestIsThere
<1>4. b # NoRecord /\ b = best[p]
  BY <1>1
<1>5. \A r \in usable : r \in control /\ r.pkg = p
  OBVIOUS
<1> HIDE DEF b, usable
<1> QED
  BY <1>2, <1>3, <1>4, <1>5

LEMMA InstallKeepsData ==
  ASSUME Inv, NEW p \in Package, Install(p) \/ Uninstall(p)
  PROVE  DataInv' /\ ListsInv' /\ TypedInv'
<1>1. /\ UNCHANGED <<choices, idFile, available, control, written, lists, toDownload, toBuild>>
      /\ UNCHANGED <<checker, best, state>>
  BY DEF Install, Uninstall, StatusBecomes, discVars, tableVars, fetchVars, buildVars
<1>2. info' \in [Package -> Record \cup {NoObject}]
  <2>1. CASE Uninstall(p)
    BY <2>1 DEF Uninstall, StatusBecomes, Inv, DataInv
  <2>2. CASE Install(p)
    <3>1. best # NoObject /\ best[p] # NoRecord /\ info' = [info EXCEPT ![p] = [best[p] EXCEPT !.origin = Local]]
      BY <2>2 DEF Install, StatusBecomes
    <3>2. best[p] \in Record
      BY <3>1, BestListed
    <3>3. [best[p] EXCEPT !.origin = Local] \in Record
      BY <3>2 DEF Record, Local
    <3> QED
      BY <3>1, <3>3 DEF Inv, DataInv
  <2> QED
    BY <2>1, <2>2
<1>3. DataInv' /\ ListsInv'
  BY <1>1, <1>2 DEF Inv, DataInv, ListsInv
<1>4. TypedInv'
  BY <1>1, TypedKept DEF Inv, Live, Running
<1> QED
  BY <1>3, <1>4

LEMMA FetchKeepsData ==
  ASSUME Inv, FetchInv,
         \/ Begin \/ ReadSources \/ NextDownload \/ TransferEnds \/ Downloaded \/ DownloadFailed
         \/ DownloadsDone \/ SourcesBuilt
  PROVE  DataInv' /\ ListsInv' /\ TypedInv'
<1>1. UNCHANGED <<choices, idFile, info, control>>
  BY DEF Begin, ReadSources, NextDownload, TransferEnds, Downloaded, DownloadFailed,
         DownloadsDone, SourcesBuilt, discVars, statVars, tableVars
<1>2. available' = available \/ available' = <<>>
  BY DEF Begin, ReadSources, NextDownload, TransferEnds, Downloaded, DownloadFailed,
         DownloadsDone, SourcesBuilt
<1>3. written' = written \/ written' = {}
  BY DEF Begin, ReadSources, NextDownload, TransferEnds, Downloaded, DownloadFailed,
         DownloadsDone, SourcesBuilt, buildVars
<1>4. DataInv'
  <2>1. available' \in Seq(Record)
    <3>1. <<>> \in Seq(Record) /\ available \in Seq(Record)
      BY DEF Inv, DataInv
    <3> QED
      BY <1>2, <3>1
  <2> QED
    BY <1>1, <1>3, <2>1 DEF Inv, DataInv
<1>5. TypedInv'
  <2>1. UNCHANGED checker
    BY DEF Begin, ReadSources, NextDownload, TransferEnds, Downloaded, DownloadFailed,
           DownloadsDone, SourcesBuilt
  <2>2. Live' => Live
    <3>1. UNCHANGED best
      BY DEF Begin, ReadSources, NextDownload, TransferEnds, Downloaded, DownloadFailed,
             DownloadsDone, SourcesBuilt, tableVars
    <3>2. UNCHANGED state \/ Live
      BY DEF Begin, ReadSources, NextDownload, TransferEnds, Downloaded, DownloadFailed,
             DownloadsDone, SourcesBuilt, Live
    <3> QED
      BY <2>1, <3>1, <3>2 DEF Live, Running
  <2> QED
    BY <2>1, <2>2, TypedKept DEF Inv
<1>6. ListsInv'
  <2>1. ListsInv /\ Sources \subseteq Source /\ Source \subseteq Nat
    BY SourcesType, UpdateAssumption DEF Inv
  <2>2. CASE Begin
    BY <2>1, <2>2 DEF Begin, ListsInv
  <2>3. CASE ReadSources
    BY <2>1, <2>3 DEF ReadSources, buildVars, ListsInv
  <2>4. CASE NextDownload
    <3>1. /\ lists' = [lists EXCEPT ![url'] = <<>>] /\ UNCHANGED <<toDownload, toBuild>>
      BY <2>4 DEF NextDownload, buildVars
    <3>2. \A s \in Source : lists'[s] = lists[s] \/ lists'[s] = <<>>
      BY <2>1, <3>1 DEF ListsInv
    <3>3. lists' \in [Source -> Seq(Record)]
      <4>1. <<>> \in Seq(Record)
        OBVIOUS
      <4> QED
        BY <2>1, <3>1, <4>1 DEF ListsInv
    <3>4. \A s \in Source : \A i \in DOMAIN lists'[s] : lists'[s][i].origin = s
      <4>1. DOMAIN <<>> = {}
        OBVIOUS
      <4> QED
        BY <2>1, <3>2, <4>1 DEF ListsInv
    <3> QED
      BY <2>1, <3>1, <3>3, <3>4 DEF ListsInv
  <2>5. CASE TransferEnds
    <3>1. UNCHANGED <<toDownload, toBuild>> /\ url \in Source
      BY <2>1, <2>5 DEF TransferEnds, buildVars, FetchInv, ListsInv
    <3>2. lists' = lists \/ \E l \in Served[url] : lists' = [lists EXCEPT ![url] = l]
      BY <2>5 DEF TransferEnds
    <3>3. \A l \in Served[url] : l \in Seq(Record) /\ \A i \in DOMAIN l : l[i].origin = url
      BY <3>1, RecordsAssumption
    <3> QED
      BY <2>1, <3>1, <3>2, <3>3 DEF ListsInv
  <2>6. CASE Downloaded
    <3>1. url \in Source
      BY <2>1, <2>6 DEF Downloaded, FetchInv, ListsInv
    <3> QED
      BY <2>1, <2>6, <3>1 DEF Downloaded, ListsInv
  <2>7. CASE DownloadFailed
    BY <2>1, <2>7 DEF DownloadFailed, buildVars, ListsInv
  <2>8. CASE DownloadsDone
    BY <2>1, <2>8 DEF DownloadsDone, fetchVars, ListsInv
  <2>9. CASE SourcesBuilt
    BY <2>1, <2>9 DEF SourcesBuilt, fetchVars, buildVars, ListsInv
  <2> QED
    BY <2>2, <2>3, <2>4, <2>5, <2>6, <2>7, <2>8, <2>9
<1> QED
  BY <1>4, <1>5, <1>6

\* What building writes is what Built says of some records of the right type.
LEMMA BuildKeepsData ==
  ASSUME Inv, NEW records \in Seq(Record), Live,
         NEW ck, ck = checker' => Typed(ck), Keeps(ck, Built(records).checker), Typed(ck),
         checker' = ck, CheckerBecomes(ck),
         written' = Built(records).written, available' = Built(records).out,
         UNCHANGED <<choices, info, lists, toDownload>>, toBuild' \subseteq toBuild,
         control' \subseteq Record, IsFiniteSet(control')
  PROVE  DataInv' /\ ListsInv' /\ TypedInv'
<1>1. Good(checker) /\ Typed(checker) /\ available \in Seq(Record) /\ written \subseteq Record
  BY DEF Inv, CacheInv, TypedInv, DataInv
<1>2. written' \subseteq Record /\ available' \in Seq(Record)
  BY <1>1, BuiltTyped
<1>3. idFile' # NoObject => IsNumbering(idFile')
  BY DEF CheckerBecomes, Inv, DataInv, Typed
<1>4. DataInv'
  BY <1>2, <1>3 DEF Inv, DataInv
<1>5. ListsInv'
  BY DEF Inv, ListsInv
<1> QED
  BY <1>4, <1>5 DEF TypedInv

LEMMA SourceKeepsData ==
  ASSUME Inv, BuildSource
  PROVE  /\ DataInv' /\ ListsInv' /\ TypedInv' /\ Live
         /\ \E records \in Seq(Record) :
              /\ checker' = Built(records).checker
              /\ written' = Built(records).written /\ available' = Built(records).out
              /\ \A r \in Range(records) : IsValid(VersionOf(r))
              /\ \/ state' = "fail"
                 \/ /\ state' = state /\ toBuild' = toBuild \ {Min(toBuild)}
                    /\ records = lists[Min(toBuild)]
<1> DEFINE s == Min(toBuild)
           list == lists[s]
           bad  == {i \in DOMAIN list : ~IsValid(VersionOf(list[i]))}
           len  == IF bad = {} THEN Len(list) ELSE Min(bad) - 1
           records == SubSeq(list, 1, len)
<1>1. s \in Source
  <2>1. toBuild \subseteq Nat /\ toBuild # {} /\ toBuild \subseteq Source
    BY UpdateAssumption DEF BuildSource, Inv, ListsInv
  <2> QED
    BY <2>1, LeastIsMin
<1>2. list \in Seq(Record)
  BY <1>1 DEF Inv, ListsInv
<1>3. /\ CheckerBecomes(Built(records).checker)
      /\ written' = Built(records).written /\ available' = Built(records).out
      /\ IF bad = {} THEN toBuild' = toBuild \ {s} /\ UNCHANGED <<state, out>>
                     ELSE state' = "fail" /\ out' = FALSE /\ UNCHANGED toBuild
  BY DEF BuildSource
<1>4. /\ UNCHANGED <<choices, info, lists, toDownload, control>> /\ Live
  BY DEF BuildSource, discVars, statVars, tableVars, Live
<1> HIDE DEF list, s
<1>5. /\ records \in Seq(Record) /\ (bad = {} => records = list)
      /\ \A i \in DOMAIN records : records[i] = list[i] /\ i \in DOMAIN list /\ i \notin bad
  <2>1. CASE bad = {}
    <3>1. len = Len(list)
      BY <2>1
    <3> HIDE DEF len, bad
    <3>2. records = list
      BY <1>2, <3>1
    <3> HIDE DEF records
    <3> QED
      BY <1>2, <2>1, <3>2
  <2>2. CASE bad # {}
    <3>1. bad \subseteq Nat /\ bad \subseteq 1..Len(list)
      BY <1>2
    <3>2. Min(bad) \in bad /\ \A i \in bad : Min(bad) <= i
      <4> HIDE DEF bad
      <4> QED
        BY <2>2, <3>1, LeastIsMin
    <3>3. len = Min(bad) - 1
      BY <2>2
    <3> HIDE DEF len, bad
    <3>4. len \in 0..Len(list)
      <4>1. Min(bad) \in 1..Len(list) /\ Len(list) \in Nat
        <5>1. Len(list) \in Nat
          BY <1>2
        <5>2. Min(bad) \in 1..Len(list)
          BY <3>1, <3>2
        <5> QED
          BY <5>1, <5>2
      <4> DEFINE m == Min(bad)
      <4> HIDE DEF m
      <4>2. m \in 1..Len(list) /\ len = m - 1
        BY <3>3, <4>1 DEF m
      <4> QED
        BY <4>1, <4>2
    <3>5. /\ records \in Seq(Record) /\ DOMAIN records = 1..len
          /\ \A i \in 1..len : records[i] = list[i] /\ i \in DOMAIN list
      BY <1>2, <3>4
    <3>6. \A i \in 1..len : i \notin bad
      <4> DEFINE m == Min(bad)
      <4>1. m \in Nat /\ len = m - 1 /\ \A i \in bad : m <= i
        BY <3>1, <3>2, <3>3
      <4> HIDE DEF m
      <4> QED
        BY <4>1
    <3> HIDE DEF records
    <3> QED
      BY <2>2, <3>5, <3>6
  <2> QED
    BY <2>1, <2>2
<1> HIDE DEF records
<1>13. \A r \in Range(records) : IsValid(VersionOf(r))
  BY <1>5 DEF Range
<1> HIDE DEF bad
<1> DEFINE ck == Built(records).checker
<1>6. Good(checker) /\ Typed(checker) /\ available \in Seq(Record) /\ written \subseteq Record
  BY <1>4 DEF Inv, CacheInv, TypedInv, DataInv
<1>7. Typed(ck)
  BY <1>5, <1>6, BuiltTyped
<1>8. Keeps(ck, ck)
  BY DEF Keeps
<1>9. checker' = ck
  BY <1>3 DEF CheckerBecomes
<1>10. control' \subseteq Record /\ IsFiniteSet(control')
  BY <1>4 DEF Inv, DataInv
<1>11. toBuild' \subseteq toBuild
  BY <1>3
<1>12. DataInv' /\ ListsInv' /\ TypedInv'
  <2> HIDE DEF ck
  <2>1. /\ Keeps(ck, Built(records).checker) /\ CheckerBecomes(ck)
    BY <1>3, <1>8 DEF ck
  <2> QED
    BY <1>3, <1>4, <1>5, <1>7, <1>9, <1>10, <1>11, <2>1, BuildKeepsData
<1> QED
  BY <1>3, <1>4, <1>5, <1>9, <1>12, <1>13 DEF list, s

LEMMA LocalKeepsData ==
  ASSUME Inv, BuildLocal
  PROVE  /\ DataInv' /\ ListsInv' /\ TypedInv' /\ Live /\ state' = "done"
         /\ \E records \in Seq(Record) :
              LET table == ReadTable(Built(records).checker, machine, Built(records).out)
              IN  /\ checker' = table.checker /\ control' = table.control
                  /\ available' = Built(records).out
                  /\ Range(records) = {info[p] : p \in {q \in Package : curstat[q] # NoObject
                                                                      /\ info[q] # NoObject}}
<1> DEFINE local == {p \in Package : curstat[p] # NoObject /\ info[p] # NoObject}
           files == {info[p] : p \in local}
           records == SetToSeq(files)
           table == ReadTable(Built(records).checker, machine, Built(records).out)
<1>1. /\ CheckerBecomes(table.checker)
      /\ written' = Built(records).written /\ available' = Built(records).out
      /\ control' = table.control /\ state' = "done"
  BY DEF BuildLocal
<1>2. UNCHANGED <<choices, info, lists, toDownload, toBuild>> /\ Live
  BY DEF BuildLocal, discVars, statVars, fetchVars, Live
<1>3. records \in Seq(Record) /\ Range(records) = files
  <2>1. local \subseteq Package
    OBVIOUS
  <2>2. IsFiniteSet(local) /\ DOMAIN info = Package
    <3> HIDE DEF local
    <3> QED
      BY <2>1, ControlTableAssumption, FS_Subset DEF Inv, DataInv
  <2>3. IsFiniteSet(files) /\ files \subseteq Record
    <3>1. files \subseteq Record
      BY DEF Inv, DataInv
    <3>2. IsFiniteSet(files)
      <4> HIDE DEF local
      <4> QED
        BY <2>1, <2>2, ImageFinite
    <3> QED
      BY <3>1, <3>2
  <2> HIDE DEF files
  <2>4. records \in Seq(files) /\ Range(records) = files
    BY <2>3, SetToSeqLists
  <2> QED
    BY <2>3, <2>4
<1> HIDE DEF records
<1>4. Good(checker) /\ Typed(checker) /\ available \in Seq(Record) /\ written \subseteq Record
  BY <1>2 DEF Inv, CacheInv, TypedInv, DataInv
<1>5. Good(Built(records).checker) /\ Typed(Built(records).checker) /\ Built(records).out \in Seq(Record)
  BY <1>3, <1>4, BuiltTyped
<1>6. /\ Typed(table.checker) /\ Keeps(table.checker, Built(records).checker)
      /\ table.control \subseteq Record /\ IsFiniteSet(table.control)
  BY <1>5, ReadTableTyped
<1>7. checker' = table.checker
  BY <1>1 DEF CheckerBecomes
<1>8. DataInv' /\ ListsInv' /\ TypedInv'
  <2> HIDE DEF table
  <2> QED
    BY <1>1, <1>2, <1>3, <1>6, <1>7, BuildKeepsData
<1> QED
  BY <1>1, <1>2, <1>3, <1>7, <1>8

LEMMA DataNext == Inv /\ FetchInv /\ [Next]_vars => Inv'
<1> SUFFICES ASSUME Inv, FetchInv, [Next]_vars
             PROVE  Inv'
  OBVIOUS
<1>1. CacheInv'
  BY CacheNext DEF Inv
<1>2. CASE Start
  BY <1>1, <1>2, StartKeepsData DEF Inv
<1>3. CASE Stop
  BY <1>1, <1>3, StopKeepsData DEF Inv
<1>4. CASE EnvPackages
  <2>1. /\ UNCHANGED <<choices, idFile, available, info, control, written, lists, toDownload, toBuild>>
        /\ UNCHANGED checker /\ Live
    BY <1>4 DEF EnvPackages, discVars, statVars, fetchVars, buildVars, Live
  <2>2. DataInv' /\ ListsInv'
    BY <2>1, DataKept DEF Inv, ListsInv
  <2>3. TypedInv'
    BY <2>1, TypedKept DEF Inv
  <2> QED
    BY <1>1, <2>2, <2>3 DEF Inv
<1>5. CASE ClearEnvironmentOverrides \/ OverrideEnvironment
  BY <1>1, <1>5, OverrideKeepsData DEF Inv
<1>6. CASE \E p \in Package : Install(p) \/ Uninstall(p)
  BY <1>1, <1>6, InstallKeepsData DEF Inv
<1>7. CASE \/ Begin \/ ReadSources \/ NextDownload \/ TransferEnds \/ Downloaded \/ DownloadFailed
           \/ DownloadsDone \/ SourcesBuilt
  BY <1>1, <1>7, FetchKeepsData DEF Inv
<1>8. CASE BuildSource
  BY <1>1, <1>8, SourceKeepsData DEF Inv
<1>9. CASE BuildLocal
  BY <1>1, <1>9, LocalKeepsData DEF Inv
<1>10. CASE UNCHANGED vars
  <2>1. /\ UNCHANGED <<choices, idFile, available, info, control, written, lists, toDownload, toBuild>>
        /\ UNCHANGED <<checker, best, state>>
    BY <1>10 DEF vars, discVars, statVars, tableVars, fetchVars, buildVars
  <2>2. DataInv' /\ ListsInv'
    BY <2>1, DataKept DEF Inv, ListsInv
  <2>3. TypedInv'
    BY <2>1, TypedKept DEF Inv, Live, Running
  <2> QED
    BY <1>1, <2>2, <2>3 DEF Inv
<1> QED
  BY <1>2, <1>3, <1>4, <1>5, <1>6, <1>7, <1>8, <1>9, <1>10 DEF Next, Poll

LEMMA FetchNext == DataInv /\ FetchInv /\ [Next]_vars => FetchInv'
<1> SUFFICES ASSUME DataInv, FetchInv, [Next]_vars
             PROVE  FetchInv'
  OBVIOUS
<1>1. choices' = choices => Sources' = Sources
  BY DEF Sources
<1>2. CASE Start
  BY <1>2 DEF Start, FetchInv
<1>3. CASE Stop
  BY <1>3 DEF Stop, FetchInv
<1>4. CASE EnvPackages \/ ClearEnvironmentOverrides \/ OverrideEnvironment
           \/ \E p \in Package : Install(p) \/ Uninstall(p)
  <2>1. UNCHANGED <<choices, state, url, dload, toDownload, toBuild, written>>
    BY <1>4 DEF EnvPackages, ClearEnvironmentOverrides, OverrideEnvironment, CheckerChanges,
                Install, Uninstall, StatusBecomes, discVars, fetchVars, buildVars
  <2> QED
    BY <1>1, <2>1 DEF FetchInv
<1>5. CASE Begin
  BY <1>5 DEF Begin, FetchInv
<1>6. CASE ReadSources
  BY <1>1, <1>6 DEF ReadSources, FetchInv, discVars, buildVars
<1>7. CASE NextDownload
  <2>1. toDownload \subseteq Nat /\ toDownload # {}
    <3>1. toDownload \subseteq Sources /\ toDownload # {}
      BY <1>7 DEF NextDownload, FetchInv
    <3> QED
      BY <3>1, SourcesType, UpdateAssumption
  <2>2. Min(toDownload) \in toDownload
    BY <2>1, LeastIsMin
  <2> QED
    BY <1>1, <1>7, <2>2 DEF NextDownload, FetchInv, discVars, buildVars
<1>8. CASE TransferEnds
  <2>1. state = "download"
    BY <1>8 DEF TransferEnds, FetchInv
  <2> QED
    BY <1>1, <1>8, <2>1 DEF TransferEnds, FetchInv, discVars, buildVars
<1>9. CASE Downloaded
  <2>1. url \in toDownload
    BY <1>9 DEF Downloaded, FetchInv
  <2> QED
    BY <1>1, <1>9, <2>1 DEF Downloaded, FetchInv, discVars
<1>10. CASE DownloadFailed
  BY <1>10 DEF DownloadFailed, FetchInv
<1>11. CASE DownloadsDone
  BY <1>11 DEF DownloadsDone, FetchInv, fetchVars
<1>12. CASE BuildSource
  BY <1>12 DEF BuildSource, FetchInv, fetchVars
<1>13. CASE SourcesBuilt
  BY <1>13 DEF SourcesBuilt, FetchInv, fetchVars
<1>14. CASE BuildLocal
  BY <1>14 DEF BuildLocal, FetchInv, fetchVars
<1>15. CASE UNCHANGED vars
  <2>1. UNCHANGED <<choices, state, url, dload, toDownload, toBuild, written>>
    BY <1>15 DEF vars, discVars, fetchVars, buildVars
  <2> QED
    BY <1>1, <2>1 DEF FetchInv
<1> QED
  BY <1>2, <1>3, <1>4, <1>5, <1>6, <1>7, <1>8, <1>9, <1>10, <1>11, <1>12, <1>13, <1>14, <1>15
     DEF Next, Poll

-------------------------------------------------------------------------------
(* Which records reach the table. *)

LEMMA SourcesStay ==
  ASSUME choices' = choices
  PROVE  Sources' = Sources
BY DEF Sources

\* What has been written stays right while the checker learns.
LEMMA FirstsKept ==
  ASSUME Inv, FirstsInv, Live, state \in {"build_sources", "build_local"},
         UNCHANGED <<choices, available, written, lists, toBuild, state>>,
         Keeps(checker', checker),
         DOMAIN checker.environments \subseteq DOMAIN checker'.environments
  PROVE  FirstsInv'
<1> DEFINE B == Sources \ toBuild
<1>1. Sources' = Sources
  BY SourcesStay
<1>2. Good(checker) /\ Typed(checker)
  BY DEF Inv, CacheInv, TypedInv
<1>3. /\ KnowsAll(checker, written) /\ \A s \in B : KnowsAll(checker, Range(lists[s]))
  BY DEF FirstsInv, Built0
<1>4. ASSUME NEW s \in B, NEW j \in DOMAIN lists[s], NEW r \in written
      PROVE  SameKey(checker', lists[s][j], r) <=> SameKey(checker, lists[s][j], r)
  <2>1. KnowsAll(checker, {lists[s][j], r})
    BY <1>3 DEF KnowsAll, Range
  <2> QED
    BY <1>2, <2>1, KeysStay
<1>5. \A X : KnowsAll(checker, X) => KnowsAll(checker', X)
  BY DEF KnowsAll
<1>6. KnowsAll(checker', written) /\ \A s \in B : KnowsAll(checker', Range(lists[s]))
  BY <1>3, <1>5
<1>7. ASSUME NEW s \in B, NEW j \in DOMAIN lists[s]
      PROVE  /\ \E r \in written : SameKey(checker', lists[s][j], r)
             /\ \A r \in written : SameKey(checker', lists[s][j], r) =>
                  r.origin <= s /\ (r.origin = s => \E i \in 1..j : lists[s][i] = r)
  <2>1. /\ \E r \in written : SameKey(checker, lists[s][j], r)
        /\ \A r \in written : SameKey(checker, lists[s][j], r) =>
             r.origin <= s /\ (r.origin = s => \E i \in 1..j : lists[s][i] = r)
    BY DEF FirstsInv, Built0
  <2> QED
    BY <1>4, <2>1
<1>8. /\ toBuild \subseteq Sources /\ (state = "build_local" => toBuild = {})
      /\ \A s \in B, t \in toBuild : s < t
      /\ Range(available) = written
      /\ \A r \in written : r.origin \in B
  BY DEF FirstsInv, Built0
<1>9. Built0' = B
  BY <1>1 DEF Built0
<1> HIDE DEF B
<1> QED
  BY <1>1, <1>6, <1>7, <1>8, <1>9 DEF FirstsInv

\* The next list: its keys are written with the first record that has them, unless an
\* earlier source has brought them.
LEMMA SourceFirsts ==
  ASSUME Inv, FirstsInv, BuildSource
  PROVE  FirstsInv'
<1> DEFINE s == Min(toBuild)
<1>1. state = "build_sources" /\ toBuild # {} /\ UNCHANGED <<choices, lists>>
  BY DEF BuildSource, discVars
<1>2. PICK records \in Seq(Record) :
        /\ checker' = Built(records).checker
        /\ written' = Built(records).written /\ available' = Built(records).out
        /\ \/ state' = "fail"
           \/ /\ state' = state /\ toBuild' = toBuild \ {s} /\ records = lists[s]
  BY SourceKeepsData
<1>3. CASE state' = "fail"
  BY <1>3 DEF FirstsInv
<1>4. CASE state' # "fail"
  <2> DEFINE B == Sources \ toBuild
             ck == Built(records).checker
             firsts == FirstsOf(ck, written, records)
             new == {records[i] : i \in firsts}
  <2>1. /\ toBuild' = toBuild \ {s} /\ records = lists[s]
    BY <1>2, <1>4
  <2>2. toBuild \subseteq Sources /\ Sources \subseteq Source /\ Source \subseteq Nat \ {0}
    BY <1>1, SourcesType, UpdateAssumption DEF Inv, FirstsInv, Local
  <2>3. s \in toBuild /\ \A t \in toBuild : s <= t
    <3>1. toBuild \subseteq Nat /\ toBuild # {}
      BY <1>1, <2>2
    <3> QED
      BY <3>1, LeastIsMin
  <2> HIDE DEF s
  <2>4. /\ \A q \in B, t \in toBuild : q < t
        /\ Range(available) = written
        /\ KnowsAll(checker, written) /\ \A q \in B : KnowsAll(checker, Range(lists[q]))
        /\ \A r \in written : r.origin \in B
        /\ \A q \in B : \A j \in DOMAIN lists[q] :
             /\ \E r \in written : SameKey(checker, lists[q][j], r)
             /\ \A r \in written : SameKey(checker, lists[q][j], r) =>
                  r.origin <= q /\ (r.origin = q => \E i \in 1..j : lists[q][i] = r)
    BY <1>1 DEF FirstsInv, Built0
  <2>5. /\ Live /\ Good(checker) /\ Typed(checker)
        /\ available \in Seq(Record) /\ written \subseteq Record
    BY <1>1 DEF Live, Inv, CacheInv, TypedInv, DataInv
  <2>6. /\ Good(ck) /\ Typed(ck) /\ Keeps(ck, checker) /\ Extends(ck, checker)
        /\ KnowsAll(ck, Range(records))
        /\ Built(records).written = written \cup new
        /\ Built(records).out \in Seq(Record)
        /\ Range(Built(records).out) = Range(available) \cup new
    BY <2>5, BuiltTyped
  <2>7. checker' = ck /\ written' = written \cup new /\ Range(available') = written'
    BY <1>2, <2>4, <2>6
  <2> HIDE DEF ck
  <2>8. /\ \A q \in Source : /\ lists[q] \in Seq(Record)
                             /\ \A i \in DOMAIN lists[q] : lists[q][i].origin = q
        /\ s \in Source /\ B \subseteq Source
    BY <2>2, <2>3 DEF Inv, ListsInv
  <2>9. \A q \in Source : \A i \in DOMAIN lists[q] : lists[q][i] \in Record /\ i \in Nat /\ i >= 1
    BY <2>8
  <2>10. KnowsAll(ck, written) /\ \A q \in B : KnowsAll(ck, Range(lists[q]))
    BY <2>4, <2>6 DEF KnowsAll, Extends
  <2>11. \A q \in B : \A j \in DOMAIN lists[q] : \A r \in written :
           SameKey(ck, lists[q][j], r) <=> SameKey(checker, lists[q][j], r)
    <3> SUFFICES ASSUME NEW q \in B, NEW j \in DOMAIN lists[q], NEW r \in written
                 PROVE  SameKey(ck, lists[q][j], r) <=> SameKey(checker, lists[q][j], r)
      OBVIOUS
    <3>1. KnowsAll(checker, {lists[q][j], r})
      BY <2>4 DEF KnowsAll, Range
    <3> QED
      BY <2>5, <2>6, <3>1, KeysStay
  <2>12. firsts \subseteq DOMAIN records
    BY DEF FirstsOf
  <2>13. \A i \in firsts : ~\E r \in written : SameKey(ck, records[i], r)
    BY DEF FirstsOf
  <2>14. \A i \in firsts : \A j \in DOMAIN records : SameKey(ck, records[j], records[i]) => i <= j
    <3> SUFFICES ASSUME NEW i \in firsts, NEW j \in DOMAIN records,
                        SameKey(ck, records[j], records[i]), ~(i <= j)
                 PROVE  FALSE
      OBVIOUS
    <3>1. i \in DOMAIN records /\ records[i] \in Record /\ records[j] \in Record
      BY <2>12
    <3>2. SameKey(ck, records[i], records[j])
      BY <3>1, KeysAreEquivalent
    <3>3. j \in 1..i - 1
      BY <3>1
    <3> QED
      BY <3>2, <3>3 DEF FirstsOf
  <2> HIDE DEF firsts
  <2>15. \A r \in new : r.origin = s /\ r \in Record
    BY <2>1, <2>8, <2>9, <2>12
  <2>16. ASSUME NEW q \in B, NEW j \in DOMAIN lists[q]
         PROVE  /\ \E r \in written \cup new : SameKey(ck, lists[q][j], r)
                /\ \A r \in written \cup new : SameKey(ck, lists[q][j], r) =>
                     r.origin <= q /\ (r.origin = q => \E i \in 1..j : lists[q][i] = r)
    <3>1. PICK w \in written : SameKey(ck, lists[q][j], w)
      BY <2>4, <2>11
    <3>2. \A r \in written : SameKey(ck, lists[q][j], r) =>
            r.origin <= q /\ (r.origin = q => \E i \in 1..j : lists[q][i] = r)
      BY <2>4, <2>11
    <3>3. ASSUME NEW i \in firsts, SameKey(ck, lists[q][j], records[i])
          PROVE  FALSE
      <4>1. lists[q][j] \in Record /\ records[i] \in Record /\ w \in Record
        BY <2>5, <2>8, <2>9, <2>12
      <4>2. SameKey(ck, records[i], w)
        BY <3>1, <3>3, <4>1, KeysAreEquivalent
      <4> QED
        BY <2>13, <4>2
    <3> QED
      BY <3>1, <3>2, <3>3
  <2>17. ASSUME NEW j \in DOMAIN lists[s]
         PROVE  /\ \E r \in written \cup new : SameKey(ck, lists[s][j], r)
                /\ \A r \in written \cup new : SameKey(ck, lists[s][j], r) =>
                     r.origin <= s /\ (r.origin = s => \E i \in 1..j : lists[s][i] = r)
    <3>1. \E r \in written \cup new : SameKey(ck, lists[s][j], r)
      <4>1. \/ \E r \in written : SameKey(ck, records[j], r)
            \/ \E i \in firsts : i <= j /\ SameKey(ck, records[j], records[i])
        BY <2>1, <2>5, FirstsCover DEF firsts
      <4> QED
        BY <2>1, <4>1
    <3>2. ASSUME NEW r \in written
          PROVE  r.origin <= s /\ r.origin # s
      <4>1. r.origin \in B /\ r.origin < s
        BY <2>3, <2>4
      <4>2. r.origin \in Nat /\ s \in Nat
        BY <2>2, <2>8, <4>1
      <4> QED
        BY <4>1, <4>2
    <3>3. ASSUME NEW i \in firsts, SameKey(ck, lists[s][j], records[i])
          PROVE  /\ records[i].origin <= s /\ \E k \in 1..j : lists[s][k] = records[i]
      <4>1. i <= j /\ i \in Nat /\ i >= 1 /\ j \in Nat
        BY <2>1, <2>8, <2>9, <2>12, <2>14, <3>3
      <4>2. records[i].origin = s /\ s \in Nat
        BY <2>2, <2>8, <2>15
      <4> QED
        BY <2>1, <4>1, <4>2
    <3> QED
      BY <3>1, <3>2, <3>3
  <2>18. Sources' = Sources /\ Built0' = B \cup {s}
    <3>1. Sources' = Sources
      BY <1>1, SourcesStay
    <3> QED
      BY <2>1, <2>2, <2>3, <3>1 DEF Built0
  <2>19. state' = "build_sources"
    BY <1>1, <1>2, <1>4
  <2>20. /\ toBuild' \subseteq Sources
         /\ \A q \in B \cup {s}, t \in toBuild' : q < t
    <3>1. toBuild' \subseteq Sources
      BY <2>1, <2>2
    <3>2. \A t \in toBuild' : s < t
      <4>1. \A t \in toBuild' : t \in toBuild /\ t # s /\ s <= t /\ t \in Nat /\ s \in Nat
        BY <2>1, <2>2, <2>3
      <4> QED
        BY <4>1
    <3> QED
      BY <2>1, <2>4, <3>1, <3>2
  <2>21. KnowsAll(ck, written \cup new) /\ \A q \in B \cup {s} : KnowsAll(ck, Range(lists[q]))
    <3>1. new \subseteq Range(records)
      BY <2>12 DEF Range
    <3> QED
      BY <2>1, <2>6, <2>10, <3>1 DEF KnowsAll
  <2>22. \A r \in written \cup new : r.origin \in B \cup {s}
    BY <2>4, <2>15
  <2>23. \A q \in B \cup {s} : \A j \in DOMAIN lists[q] :
           /\ \E r \in written \cup new : SameKey(ck, lists[q][j], r)
           /\ \A r \in written \cup new : SameKey(ck, lists[q][j], r) =>
                r.origin <= q /\ (r.origin = q => \E i \in 1..j : lists[q][i] = r)
    BY <2>16, <2>17
  <2> HIDE DEF B, new
  <2> QED
    BY <1>1, <2>7, <2>18, <2>19, <2>20, <2>21, <2>22, <2>23 DEF FirstsInv
<1> QED
  BY <1>3, <1>4

LEMMA FirstsNext == Inv /\ FetchInv /\ FirstsInv /\ [Next]_vars => FirstsInv'
<1> SUFFICES ASSUME Inv, FetchInv, FirstsInv, [Next]_vars
             PROVE  FirstsInv'
  OBVIOUS
<1> DEFINE building == state \in {"build_sources", "build_local"}
<1>1. CASE Start
  BY <1>1 DEF Start, FirstsInv, Inv, CacheInv, Live
<1>2. CASE EnvPackages
  <2>1. UNCHANGED <<choices, available, written, lists, toBuild, state, checker>> /\ Live
    BY <1>2 DEF EnvPackages, discVars, fetchVars, buildVars, Live
  <2>2. CASE building
    BY <2>1, <2>2, FirstsKept DEF Keeps
  <2>3. CASE ~building
    BY <2>1, <2>3 DEF FirstsInv
  <2> QED
    BY <2>2, <2>3
<1>3. CASE ClearEnvironmentOverrides \/ OverrideEnvironment
  <2>1. UNCHANGED <<choices, available, written, lists, toBuild, state>>
    BY <1>3 DEF ClearEnvironmentOverrides, OverrideEnvironment, CheckerChanges, discVars,
                fetchVars, buildVars
  <2>2. /\ Live /\ checker'.moduleIds = checker.moduleIds
        /\ DOMAIN checker'.environments = DOMAIN checker.environments
    BY <1>3, OverrideKeepsData
  <2>3. CASE building
    BY <2>1, <2>2, <2>3, FirstsKept DEF Keeps
  <2>4. CASE ~building
    BY <2>1, <2>4 DEF FirstsInv
  <2> QED
    BY <2>3, <2>4
<1>4. CASE \E p \in Package : Install(p) \/ Uninstall(p)
  BY <1>4 DEF Install, Uninstall, StatusBecomes, Idle, FirstsInv
<1>5. CASE Stop \/ Begin \/ ReadSources \/ DownloadFailed
  BY <1>5 DEF Stop, Begin, ReadSources, DownloadFailed, FirstsInv
<1>6. CASE NextDownload \/ TransferEnds \/ Downloaded
  <2>1. state = "download" /\ state' = state
    BY <1>6 DEF NextDownload, TransferEnds, Downloaded, FetchInv
  <2> QED
    BY <2>1 DEF FirstsInv
<1>7. CASE DownloadsDone
  <2>1. /\ state' = "build_sources" /\ toBuild' = toBuild /\ toBuild = Sources
        /\ written' = {} /\ available' = <<>> /\ choices' = choices
    BY <1>7 DEF DownloadsDone, FetchInv, discVars
  <2>2. Sources' = Sources
    BY <2>1, SourcesStay
  <2>3. Built0' = {}
    BY <2>1, <2>2 DEF Built0
  <2>4. Range(available') = {}
    BY <2>1 DEF Range
  <2> QED
    BY <2>1, <2>2, <2>3, <2>4 DEF FirstsInv, KnowsAll
<1>8. CASE BuildSource
  BY <1>8, SourceFirsts
<1>9. CASE SourcesBuilt
  <2>1. /\ state = "build_sources" /\ toBuild = {} /\ state' = "build_local"
        /\ UNCHANGED <<choices, available, written, lists, toBuild, checker>>
    BY <1>9 DEF SourcesBuilt, discVars, fetchVars, buildVars
  <2>2. Sources' = Sources
    BY <2>1, SourcesStay
  <2>3. Built0' = Built0
    BY <2>1, <2>2 DEF Built0
  <2> QED
    BY <2>1, <2>2, <2>3 DEF FirstsInv
<1>10. CASE BuildLocal
  BY <1>10 DEF BuildLocal, FirstsInv
<1>11. CASE UNCHANGED vars
  <2>1. UNCHANGED <<choices, available, written, lists, toBuild, state, checker>>
    BY <1>11 DEF vars, discVars, fetchVars, buildVars
  <2>2. CASE building
    BY <2>1, <2>2, FirstsKept DEF Keeps, Live
  <2>3. CASE ~building
    BY <2>1, <2>3 DEF FirstsInv
  <2> QED
    BY <2>2, <2>3
<1> QED
  BY <1>1, <1>2, <1>3, <1>4, <1>5, <1>6, <1>7, <1>8, <1>9, <1>10, <1>11 DEF Next, Poll

\* The local records come after all sources, and the table is read from the file.
LEMMA LocalWins ==
  ASSUME Inv, FirstsInv, BuildLocal
  PROVE  SourcesWin'
<1>1. state = "build_local" /\ UNCHANGED <<choices, lists>> /\ toBuild = {}
  BY DEF BuildLocal, discVars, fetchVars, FirstsInv
<1>2. PICK records \in Seq(Record) :
        LET table == ReadTable(Built(records).checker, machine, Built(records).out)
        IN  checker' = table.checker /\ control' = table.control
  BY LocalKeepsData
<1> DEFINE ck == Built(records).checker
           file == Built(records).out
           last == Seen(ck, machine, Range(file))
           firsts == FirstsOf(ck, written, records)
           new == {records[i] : i \in firsts}
           read == FirstsOf(last, {}, file)
<1>3. /\ Live /\ Good(checker) /\ Typed(checker)
      /\ available \in Seq(Record) /\ written \subseteq Record
  BY <1>1 DEF Live, Inv, CacheInv, TypedInv, DataInv
<1>4. /\ Good(ck) /\ Typed(ck) /\ Keeps(ck, checker) /\ Extends(ck, checker)
      /\ KnowsAll(ck, Range(records)) /\ file \in Seq(Record)
      /\ Range(file) = Range(available) \cup new
  BY <1>3, BuiltTyped
<1>5. firsts \subseteq DOMAIN records
  BY DEF FirstsOf
<1>6. checker' = last /\ control' = {file[i] : i \in read}
  BY <1>2 DEF ReadTable
<1> HIDE DEF ck, file
<1>7. Range(file) \subseteq Record
  BY <1>4, RangeFinite
<1>8. Good(last) /\ Typed(last) /\ Keeps(last, ck) /\ Extends(last, ck)
  BY <1>4, <1>7, SeenIsGood, SeenTyped
<1> HIDE DEF last
<1>9. Range(available) = written /\ KnowsAll(checker, written)
      /\ \A s \in Sources : KnowsAll(checker, Range(lists[s]))
  BY <1>1 DEF FirstsInv, Built0
<1>10. \A r \in written : r.origin \in Sources
  BY <1>1 DEF FirstsInv, Built0
<1>11. \A s \in Sources : \A j \in DOMAIN lists[s] :
         /\ \E r \in written : SameKey(checker, lists[s][j], r)
         /\ \A r \in written : SameKey(checker, lists[s][j], r) =>
              r.origin <= s /\ (r.origin = s => \E i \in 1..j : lists[s][i] = r)
  BY <1>1 DEF FirstsInv, Built0
<1>12. /\ Sources \subseteq Source /\ Source \subseteq Nat \ {0}
       /\ \A q \in Source : lists[q] \in Seq(Record)
  BY SourcesType, UpdateAssumption DEF Inv, ListsInv, Local
<1>13. \A s \in Sources : \A j \in DOMAIN lists[s] : lists[s][j] \in Record
  BY <1>12
<1>14. KnowsAll(ck, written) /\ \A s \in Sources : KnowsAll(ck, Range(lists[s]))
  BY <1>4, <1>9 DEF KnowsAll, Extends
<1>15. \A s \in Sources : \A j \in DOMAIN lists[s] : \A r \in written :
         /\ SameKey(ck, lists[s][j], r) <=> SameKey(checker, lists[s][j], r)
         /\ SameKey(last, lists[s][j], r) <=> SameKey(ck, lists[s][j], r)
  <2> SUFFICES ASSUME NEW s \in Sources, NEW j \in DOMAIN lists[s], NEW r \in written
               PROVE  /\ SameKey(ck, lists[s][j], r) <=> SameKey(checker, lists[s][j], r)
                      /\ SameKey(last, lists[s][j], r) <=> SameKey(ck, lists[s][j], r)
    OBVIOUS
  <2>1. KnowsAll(checker, {lists[s][j], r}) /\ KnowsAll(ck, {lists[s][j], r})
    BY <1>9, <1>14 DEF KnowsAll, Range
  <2> QED
    BY <1>3, <1>4, <1>8, <2>1, KeysStay
<1>16. \A i \in firsts : ~\E r \in written : SameKey(ck, records[i], r)
  BY DEF FirstsOf
<1>17. read \subseteq DOMAIN file
  BY DEF FirstsOf
<1> HIDE DEF firsts
<1>18. \A s \in Sources : \A j \in DOMAIN lists[s] : \A i \in firsts :
         ~SameKey(last, lists[s][j], records[i])
  <2> SUFFICES ASSUME NEW s \in Sources, NEW j \in DOMAIN lists[s], NEW i \in firsts,
                      SameKey(last, lists[s][j], records[i])
               PROVE  FALSE
    OBVIOUS
  <2>1. KnowsAll(ck, {lists[s][j], records[i]})
    BY <1>4, <1>5, <1>14 DEF KnowsAll, Range
  <2>2. SameKey(ck, lists[s][j], records[i])
    BY <1>4, <1>8, <2>1, KeysStay
  <2>3. PICK w \in written : SameKey(ck, lists[s][j], w)
    BY <1>11, <1>15
  <2>4. lists[s][j] \in Record /\ records[i] \in Record /\ w \in Record
    BY <1>3, <1>5, <1>13
  <2>5. SameKey(ck, records[i], w)
    BY <2>2, <2>3, <2>4, KeysAreEquivalent
  <2> QED
    BY <1>16, <2>5
<1>19. ASSUME NEW s \in Sources, NEW j \in DOMAIN lists[s]
       PROVE  \E r \in control' : SameKey(checker', lists[s][j], r)
  <2>1. PICK w \in written : SameKey(last, lists[s][j], w)
    BY <1>11, <1>15
  <2>2. w \in Range(file)
    BY <1>4, <1>9
  <2>3. PICK k \in DOMAIN file : file[k] = w
    BY <2>2 DEF Range
  <2>4. PICK i \in read : SameKey(last, w, file[i])
    BY <1>4, <2>3, FirstsCover
  <2>5. lists[s][j] \in Record /\ w \in Record /\ file[i] \in Record
    BY <1>3, <1>4, <1>13, <1>17
  <2>6. SameKey(last, lists[s][j], file[i])
    BY <2>1, <2>4, <2>5, KeysAreEquivalent
  <2> HIDE DEF read
  <2> QED
    BY <1>6, <2>6
<1>20. ASSUME NEW r \in control', NEW s \in Sources, NEW j \in DOMAIN lists[s],
              SameKey(checker', lists[s][j], r)
       PROVE  /\ r.origin \in 1..s
              /\ r.origin = s => \E i \in 1..j : lists[s][i] = r
  <2>1. r \in Range(file)
    <3> HIDE DEF read
    <3> QED
      BY <1>6, <1>17 DEF Range
  <2>2. SameKey(last, lists[s][j], r)
    BY <1>6, <1>20
  <2>3. r \in written
    BY <1>4, <1>9, <1>18, <2>1, <2>2
  <2>4. r.origin <= s /\ (r.origin = s => \E i \in 1..j : lists[s][i] = r)
    BY <1>11, <1>15, <2>2, <2>3
  <2>5. r.origin \in Source /\ s \in Source
    BY <1>10, <1>12, <2>3
  <2>6. r.origin \in Nat /\ r.origin # 0 /\ s \in Nat
    BY <1>12, <2>5
  <2>7. r.origin \in 1..s
    BY <2>4, <2>6
  <2> QED
    BY <2>4, <2>7
<1>21. Sources' = Sources /\ lists' = lists
  BY <1>1, SourcesStay
<1>22. /\ \A s \in Sources' : \A i \in DOMAIN lists'[s] :
            \E r \in control' : SameKey(checker', lists'[s][i], r)
       /\ \A r \in control', s \in Sources' : \A j \in DOMAIN lists'[s] :
            SameKey(checker', lists'[s][j], r) =>
              /\ r.origin \in 1..s
              /\ r.origin = s => \E i \in 1..j : lists'[s][i] = r
  BY <1>19, <1>20, <1>21
<1> QED
  BY <1>22 DEF SourcesWin

LEMMA WinKept ==
  ASSUME WinInv, UNCHANGED <<choices, lists, control>>, state' = "done" => state = "done",
         state' = "done" => checker'.moduleIds = checker.moduleIds
  PROVE  WinInv'
<1> SUFFICES ASSUME state' = "done"
             PROVE  SourcesWin'
  BY DEF WinInv
<1>1. SourcesWin /\ state = "done"
  BY DEF WinInv
<1>2. \A r, s : SameKey(checker', r, s) <=> SameKey(checker, r, s)
  <2>1. \A e : EnvId(checker', e) = EnvId(checker, e)
    BY DEF EnvId
  <2> QED
    BY <2>1 DEF SameKey
<1>3. Sources' = Sources
  BY SourcesStay
<1> HIDE DEF SameKey
<1>4. /\ \A s \in Sources : \A i \in DOMAIN lists[s] :
           \E r \in control : SameKey(checker', lists[s][i], r)
      /\ \A r \in control, s \in Sources : \A j \in DOMAIN lists[s] :
           SameKey(checker', lists[s][j], r) =>
             /\ r.origin \in 1..s
             /\ r.origin = s => \E i \in 1..j : lists[s][i] = r
  BY <1>1, <1>2 DEF SourcesWin
<1> QED
  BY <1>3, <1>4 DEF SourcesWin

LEMMA WinNext == Inv /\ FetchInv /\ FirstsInv /\ WinInv /\ [Next]_vars => WinInv'
<1> SUFFICES ASSUME Inv, FetchInv, FirstsInv, WinInv, [Next]_vars
             PROVE  WinInv'
  OBVIOUS
<1>1. CASE Start \/ Stop \/ Begin \/ ReadSources \/ DownloadFailed \/ DownloadsDone \/ SourcesBuilt
  BY <1>1 DEF Start, Stop, Begin, ReadSources, DownloadFailed, DownloadsDone, SourcesBuilt, WinInv
<1>2. CASE EnvPackages \/ \E p \in Package : Install(p) \/ Uninstall(p)
  <2>1. UNCHANGED <<choices, lists, control, state, checker>>
    BY <1>2 DEF EnvPackages, Install, Uninstall, StatusBecomes, discVars, tableVars, fetchVars
  <2> QED
    BY <2>1, WinKept
<1>3. CASE ClearEnvironmentOverrides \/ OverrideEnvironment
  <2>1. UNCHANGED <<choices, lists, control, state>>
    BY <1>3 DEF ClearEnvironmentOverrides, OverrideEnvironment, CheckerChanges, discVars, fetchVars
  <2>2. checker'.moduleIds = checker.moduleIds
    BY <1>3, OverrideKeepsData
  <2> QED
    BY <2>1, <2>2, WinKept
<1>4. CASE NextDownload \/ TransferEnds \/ Downloaded
  BY <1>4 DEF NextDownload, TransferEnds, Downloaded, FetchInv, WinInv
<1>5. CASE BuildSource
  BY <1>5 DEF BuildSource, WinInv
<1>6. CASE BuildLocal
  BY <1>6, LocalWins DEF WinInv
<1>7. CASE UNCHANGED vars
  <2>1. UNCHANGED <<choices, lists, control, state, checker>>
    BY <1>7 DEF vars, discVars, tableVars, fetchVars
  <2> QED
    BY <2>1, WinKept
<1> QED
  BY <1>1, <1>2, <1>3, <1>4, <1>5, <1>6, <1>7 DEF Next, Poll

LEMMA WinInit == Init => FetchInv /\ FirstsInv /\ WinInv
BY DEF Init, FetchInv, FirstsInv, WinInv

\* For any sources, whatever they serve, and after any updates that failed or were
\* cut off: the table that an update leaves has every key that a source lists, with
\* the record of the first source that lists it (update.h:37-40).
THEOREM FirstSourceWins == UpdateSpec => []SourcesWin
<1>1. Init => Inv /\ FetchInv /\ FirstsInv /\ WinInv
  BY CacheInit, DataInit, WinInit DEF Inv
<1>2. Inv /\ FetchInv /\ FirstsInv /\ WinInv /\ [Next]_vars
      => (Inv /\ FetchInv /\ FirstsInv /\ WinInv)'
  BY DataNext, FetchNext, FirstsNext, WinNext DEF Inv
<1>3. WinInv => SourcesWin
  BY DEF WinInv, SourcesWin
<1> QED
  BY <1>1, <1>2, <1>3, PTL DEF UpdateSpec

\* No usable record is better than the one chosen: it is an older version, or as new
\* and of no higher priority, by the comparison that the code makes.
BestByCmp ==
  Running /\ best # NoObject =>
    \A p \in Package :
      LET usable == {r \in control : r.pkg = p /\ Usable(checker, EnvOf(r))}
      IN  IF usable = {} THEN best[p] = NoRecord
          ELSE /\ best[p] \in usable
               /\ \A r \in usable :
                    LET cmp == Cmp(VersionOf(r), VersionOf(best[p]))
                    IN  cmp < 0 \/ (cmp = 0 /\ InstallPriority(r) <= InstallPriority(best[p]))

LEMMA InvIsBest == Inv => BestByCmp
<1> SUFFICES ASSUME Inv, Running, best # NoObject, NEW p \in Package
             PROVE  LET usable == {r \in control : r.pkg = p /\ Usable(checker, EnvOf(r))}
                    IN  IF usable = {} THEN best[p] = NoRecord
                        ELSE /\ best[p] \in usable
                             /\ \A r \in usable :
                                  LET cmp == Cmp(VersionOf(r), VersionOf(best[p]))
                                  IN  cmp < 0 \/ (cmp = 0 /\ InstallPriority(r) <= InstallPriority(best[p]))
  BY DEF BestByCmp
<1> DEFINE usable == {r \in control : r.pkg = p /\ Usable(checker, EnvOf(r))}
           cached == {r \in control : r.pkg = p /\ checker.environments[EnvOf(r)]}
           b == best[p]
<1>1. /\ Good(checker) /\ KnowsAll(checker, control) /\ best = Rebuild(checker, control)
      /\ control \subseteq Record /\ IsFiniteSet(control)
  BY DEF Inv, CacheInv, DataInv, Live
<1>2. \A r \in control : checker.environments[EnvOf(r)] = Usable(checker, EnvOf(r))
  BY <1>1 DEF Good, KnowsAll, Cached
<1>3. cached = usable
  BY <1>2
<1>4. IF cached = {} THEN b = NoRecord ELSE b \in cached /\ \A r \in cached : ~Replaces(r, b)
  BY <1>1, BestIsThere
<1>5. usable \subseteq Record
  BY <1>1
<1> HIDE DEF usable, cached, b
<1>6. ASSUME usable # {}, NEW r \in usable
      PROVE  \/ Cmp(VersionOf(r), VersionOf(b)) < 0
             \/ Cmp(VersionOf(r), VersionOf(b)) = 0 /\ InstallPriority(r) <= InstallPriority(b)
  <2>1. ~Replaces(r, b) /\ r \in Record /\ b \in Record
    BY <1>3, <1>4, <1>5, <1>6
  <2> DEFINE c == Cmp(VersionOf(r), VersionOf(b))
  <2>2. c \in {-1, 0, 1}
    BY <2>1, RecordVersion, VersionsOrdered
  <2>3. ~(c > 0 \/ (c = 0 /\ InstallPriority(r) > InstallPriority(b)))
    BY <2>1 DEF Replaces
  <2>4. InstallPriority(r) \in Int /\ InstallPriority(b) \in Int
    BY <2>1, InstallPriorityType
  <2> HIDE DEF c
  <2>5. c < 0 \/ (c = 0 /\ InstallPriority(r) <= InstallPriority(b))
    BY <2>2, <2>3, <2>4
  <2> QED
    BY <2>5 DEF c
<1>7. IF usable = {} THEN b = NoRecord
      ELSE /\ b \in usable
           /\ \A r \in usable :
                \/ Cmp(VersionOf(r), VersionOf(b)) < 0
                \/ Cmp(VersionOf(r), VersionOf(b)) = 0 /\ InstallPriority(r) <= InstallPriority(b)
  BY <1>3, <1>4, <1>6
<1> QED
  BY <1>7 DEF usable, b

\* For all catalogues, machines and overrides, whenever the table of best records can
\* be looked at: env_packages_table.h:28-33, with cmp_version for the order.
THEOREM NoBetterRecord == UpdateSpec => []BestByCmp
<1>1. Init => Inv /\ FetchInv
  BY CacheInit, DataInit, WinInit DEF Inv
<1>2. Inv /\ FetchInv /\ [Next]_vars => (Inv /\ FetchInv)'
  BY DataNext, FetchNext DEF Inv
<1> QED
  BY <1>1, <1>2, InvIsBest, PTL DEF UpdateSpec

-------------------------------------------------------------------------------
(* Identifiers. *)

\* Two unknown names have different numbers, as all names of up to four characters have.
NoCollision == \A c, d \in Unknown : UnknownNumber(c) = UnknownNumber(d) => c = d

LEMMA CheckIdNames ==
  ASSUME NoCollision, NEW c \in Known \cup Unknown, NEW d \in Known \cup Unknown,
         CheckId(c) = CheckId(d)
  PROVE  c = d
<1>1. \A x : x \notin Known => CheckId(x) = <<"u", UnknownNumber(x)>>
  BY DEF CheckId, Known
<1>2. /\ CheckId("unset") = <<"u">> /\ CheckId("any") = <<"a">> /\ CheckId("arm") = <<"b">>
      /\ CheckId("arm26") = <<"b", 2>> /\ CheckId("arm32") = <<"b", 3>>
      /\ CheckId("swp") = <<"s">> /\ CheckId("vfp") = <<"v">> /\ CheckId("vfpv3") = <<"v", 3>>
  BY DEF CheckId
<1>3. CASE c \in Known /\ d \in Known
  BY <1>2, <1>3 DEF Known
<1>4. CASE c \notin Known /\ d \notin Known
  <2>1. UnknownNumber(c) = UnknownNumber(d)
    BY <1>1, <1>4
  <2> QED
    BY <1>4, <2>1 DEF NoCollision
<1>5. ASSUME NEW x \in Known, NEW y, y \notin Known
      PROVE  CheckId(x) # CheckId(y)
  BY <1>1, <1>2, <1>5 DEF Known
<1> QED
  BY <1>3, <1>4, <1>5

LEMMA CheckIdNotModule ==
  ASSUME NEW c, NEW n
  PROVE  CheckId(c) # <<"m", n>>
<1>1. CheckId(c)[1] \in {"u", "a", "b", "s", "v"}
  BY DEF CheckId
<1> QED
  BY <1>1

LEMMA EnvIdUnique ==
  ASSUME NoCollision, NEW ck, Good(ck), Typed(ck),
         NEW e \in DOMAIN ck.environments, NEW f \in DOMAIN ck.environments,
         EnvId(ck, e) = EnvId(ck, f)
  PROVE  e = f
<1>1. e \in Env /\ f \in Env
  BY DEF Typed
<1>2. e.modules \subseteq DOMAIN ck.moduleIds /\ f.modules \subseteq DOMAIN ck.moduleIds
  BY DEF Good, Cached, Typed
<1>3. \A t, u \in DOMAIN ck.moduleIds : ck.moduleIds[t] = ck.moduleIds[u] => t = u
  BY DEF Typed, IsNumbering
<1>4. ASSUME NEW x \in Env, NEW y \in Env, EnvId(ck, x) = EnvId(ck, y)
      PROVE  x.names \subseteq y.names
  <2> SUFFICES ASSUME NEW c \in x.names
               PROVE  c \in y.names
    OBVIOUS
  <2>1. CheckId(c) \in EnvId(ck, y)
    BY <1>4 DEF EnvId
  <2>2. PICK d \in y.names : CheckId(d) = CheckId(c)
    BY <2>1, CheckIdNotModule DEF EnvId
  <2>3. c \in Known \cup Unknown /\ d \in Known \cup Unknown
    BY DEF Env
  <2> QED
    BY <2>2, <2>3, CheckIdNames
<1>5. ASSUME NEW x, NEW y, EnvId(ck, x) = EnvId(ck, y),
             x.modules \subseteq DOMAIN ck.moduleIds, y.modules \subseteq DOMAIN ck.moduleIds
      PROVE  x.modules \subseteq y.modules
  <2> SUFFICES ASSUME NEW t \in x.modules
               PROVE  t \in y.modules
    OBVIOUS
  <2>1. <<"m", ck.moduleIds[t]>> \in EnvId(ck, y)
    BY <1>5 DEF EnvId
  <2>2. PICK u \in y.modules : <<"m", ck.moduleIds[u]>> = <<"m", ck.moduleIds[t]>>
    BY <2>1, CheckIdNotModule DEF EnvId
  <2>3. ck.moduleIds[u] = ck.moduleIds[t]
    BY <2>2
  <2> QED
    BY <1>3, <1>5, <2>3
<1>6. e.names = f.names /\ e.modules = f.modules
  <2>1. e.names \subseteq f.names /\ f.names \subseteq e.names
    BY <1>1, <1>4
  <2>2. e.modules \subseteq f.modules
    BY <1>2, <1>5
  <2>3. f.modules \subseteq e.modules
    BY <1>2, <1>5
  <2> QED
    BY <2>1, <2>2, <2>3
<1> QED
  BY <1>1, <1>6 DEF Env

\* Whatever programs have run and been stopped before, on whatever file of module
\* numbers: no two environments that the checker knows share an identifier
\* (env_checker.h:113).
THEOREM IdsAreUnique ==
  ASSUME NoCollision
  PROVE  UpdateSpec => []IdsIdentify
<1>1. Init => Inv /\ FetchInv
  BY CacheInit, DataInit, WinInit DEF Inv
<1>2. Inv /\ FetchInv /\ [Next]_vars => (Inv /\ FetchInv)'
  BY DataNext, FetchNext DEF Inv
<1>3. Inv => IdsIdentify
  <2> SUFFICES ASSUME Inv, Running, NEW e \in DOMAIN checker.environments,
                      NEW f \in DOMAIN checker.environments,
                      EnvId(checker, e) = EnvId(checker, f)
               PROVE  e = f
    BY DEF IdsIdentify
  <2>1. Good(checker) /\ Typed(checker)
    BY DEF Inv, CacheInv, TypedInv, Live
  <2> QED
    BY <2>1, EnvIdUnique
<1> QED
  BY <1>1, <1>2, <1>3, PTL DEF UpdateSpec

-------------------------------------------------------------------------------
(* A version is read back as it was written. *)

LEMMA SubSeqIs ==
  ASSUME NEW s \in Seq(Nat), NEW t \in Seq(Nat), NEW m \in Nat, m + Len(t) <= Len(s),
         \A i \in 1..Len(t) : s[m + i] = t[i]
  PROVE  SubSeq(s, m + 1, m + Len(t)) = t
<1> DEFINE lo == m + 1
           hi == m + Len(t)
           u  == SubSeq(s, lo, hi)
<1>1. Len(t) \in Nat /\ Len(s) \in Nat /\ lo \in Int /\ hi \in Int
  OBVIOUS
<1>2. \A i \in lo..hi : s[i] \in Nat
  <2> SUFFICES ASSUME NEW i \in lo..hi PROVE s[i] \in Nat
    OBVIOUS
  <2>1. i \in 1..Len(s)
    BY <1>1
  <2> QED
    BY <2>1
<1>3. hi - lo + 1 = Len(t) /\ (lo <= hi \/ Len(t) = 0)
  BY <1>1
<1>4. \A i \in 1..Len(t) : lo + i - 1 = m + i
  BY <1>1
<1> HIDE DEF lo, hi
<1>5. /\ u \in Seq(Nat) /\ Len(u) = (IF lo <= hi THEN hi - lo + 1 ELSE 0)
      /\ \A i \in 1..(hi - lo + 1) : u[i] = s[lo + i - 1]
  BY <1>1, <1>2, SubSeqProperties
<1> HIDE DEF u
<1>6. Len(u) = Len(t) /\ \A i \in 1..Len(t) : u[i] = t[i]
  BY <1>3, <1>4, <1>5
<1>7. u = t
  BY <1>5, <1>6, SeqEqual
<1> QED
  BY <1>7 DEF u, lo, hi

\* Three strings in a row.
LEMMA ThreeParts ==
  ASSUME NEW a \in Seq(Nat), NEW b \in Seq(Nat), NEW c \in Seq(Nat)
  PROVE  LET s == a \o b \o c
         IN  /\ s \in Seq(Nat) /\ Len(s) = Len(a) + Len(b) + Len(c)
             /\ \A i \in 1..Len(a) : s[i] = a[i]
             /\ \A i \in 1..Len(b) : s[Len(a) + i] = b[i]
             /\ \A i \in 1..Len(c) : s[Len(a) + Len(b) + i] = c[i]
<1> DEFINE two(x, y) == /\ x \o y \in Seq(Nat) /\ Len(x \o y) = Len(x) + Len(y)
                        /\ \A i \in 1..Len(x) : (x \o y)[i] = x[i]
                        /\ \A i \in 1..Len(y) : (x \o y)[Len(x) + i] = y[i]
           t == a \o b
           s == t \o c
<1>1. \A x, y \in Seq(Nat) : two(x, y)
  OBVIOUS
<1>2. t \in Seq(Nat) /\ two(a, b)
  BY <1>1
<1> HIDE DEF two
<1>3. two(t, c)
  BY <1>1, <1>2
<1>4. /\ Len(t) = Len(a) + Len(b)
      /\ \A i \in 1..Len(a) : t[i] = a[i]
      /\ \A i \in 1..Len(b) : t[Len(a) + i] = b[i]
  BY <1>2 DEF two
<1> HIDE DEF t
<1>5. /\ s \in Seq(Nat) /\ Len(s) = Len(t) + Len(c)
      /\ \A i \in 1..Len(t) : s[i] = t[i]
      /\ \A i \in 1..Len(c) : s[Len(t) + i] = c[i]
  BY <1>3 DEF two
<1> HIDE DEF s
<1>6. Len(a) \in Nat /\ Len(b) \in Nat /\ Len(c) \in Nat
  OBVIOUS
<1>7. /\ \A i \in 1..Len(a) : i \in 1..Len(t)
      /\ \A i \in 1..Len(b) : Len(a) + i \in 1..Len(t)
  BY <1>4, <1>6
<1>8. /\ s \in Seq(Nat) /\ Len(s) = Len(a) + Len(b) + Len(c)
      /\ \A i \in 1..Len(a) : s[i] = a[i]
      /\ \A i \in 1..Len(b) : s[Len(a) + i] = b[i]
      /\ \A i \in 1..Len(c) : s[Len(a) + Len(b) + i] = c[i]
  BY <1>4, <1>5, <1>6, <1>7
<1> QED
  BY <1>8 DEF s, t

LEMMA ParseWritten ==
  ASSUME NEW v \in Version, IsValid(v)
  PROVE  Written(v) \in Seq(Nat) /\ Parse(Written(v)) = v
<1> DEFINE e == v.epoch
           u == v.upstream
           p == v.package
           colon == \E i \in DOMAIN u : u[i] = Colon
           dash  == \E i \in DOMAIN u : u[i] = Minus
           pre   == IF e # <<>> \/ colon THEN Append(e, Colon) ELSE <<>>
           post  == IF p # <<>> \/ dash THEN <<Minus>> \o p ELSE <<>>
           s     == pre \o u \o post
           a     == Len(pre)
           b     == Len(u)
<1>1. e \in Seq(Nat) /\ u \in Seq(Nat) /\ p \in Seq(Nat)
      /\ v = [epoch |-> e, upstream |-> u, package |-> p]
  BY DEF Version
<1>2. Written(v) = s
  <2>1. (Contains(u, Colon) <=> colon) /\ (Contains(u, Minus) <=> dash)
    BY <1>1 DEF Contains
  <2>2. Written(v) = (IF e # <<>> \/ Contains(u, Colon) THEN Append(e, Colon) ELSE <<>>)
                       \o u \o (IF p # <<>> \/ Contains(u, Minus) THEN <<Minus>> \o p ELSE <<>>)
    BY DEF Written
  <2>3. (IF e # <<>> \/ Contains(u, Colon) THEN Append(e, Colon) ELSE <<>>) = pre
    BY <2>1
  <2>4. (IF p # <<>> \/ Contains(u, Minus) THEN <<Minus>> \o p ELSE <<>>) = post
    BY <2>1
  <2> HIDE DEF pre, post, e, u, p
  <2> QED
    BY <2>2, <2>3, <2>4
<1>3. /\ \A i \in DOMAIN e : e[i] # Colon
      /\ \A i \in DOMAIN p : p[i] # Colon /\ p[i] # Minus
  BY DEF IsValid, IsAlnum, IsDigit, IsAlpha, Colon, Minus, Plus, Dot, Tilde
<1>4. Colon \in Nat /\ Minus \in Nat /\ Colon # Minus
  BY DEF Colon, Minus
<1> HIDE DEF e, u, p
<1>5. /\ pre \in Seq(Nat)
      /\ \/ pre = <<>> /\ e = <<>> /\ ~colon
         \/ /\ Len(pre) = Len(e) + 1 /\ pre[Len(e) + 1] = Colon
            /\ \A i \in 1..Len(e) : pre[i] = e[i]
  BY <1>1, <1>4
<1>6. /\ post \in Seq(Nat)
      /\ \/ post = <<>> /\ p = <<>> /\ ~dash
         \/ /\ Len(post) = Len(p) + 1 /\ post[1] = Minus
            /\ \A i \in 1..Len(p) : post[1 + i] = p[i]
  <2>1. CASE p # <<>> \/ dash
    <3>1. post = <<Minus>> \o p
      BY <2>1
    <3>2. <<Minus>> \in Seq(Nat) /\ Len(<<Minus>>) = 1 /\ <<Minus>>[1] = Minus
      BY <1>4
    <3> HIDE DEF post, dash
    <3> QED
      BY <1>1, <3>1, <3>2
  <2>2. CASE ~(p # <<>> \/ dash)
    BY <2>2
  <2> QED
    BY <2>1, <2>2
<1> HIDE DEF pre, post
<1>7. /\ s \in Seq(Nat) /\ Len(s) = a + b + Len(post)
      /\ \A i \in 1..a : s[i] = pre[i]
      /\ \A i \in 1..b : s[a + i] = u[i]
      /\ \A i \in 1..Len(post) : s[a + b + i] = post[i]
      /\ a \in Nat /\ b \in Nat /\ Len(post) \in Nat
  <2>1. pre \in Seq(Nat) /\ u \in Seq(Nat) /\ post \in Seq(Nat)
    BY <1>1, <1>5, <1>6
  <2>2. Len(pre) \in Nat /\ Len(u) \in Nat /\ Len(post) \in Nat
    BY <2>1
  <2>3. /\ s \in Seq(Nat) /\ Len(s) = Len(pre) + Len(u) + Len(post)
        /\ \A i \in 1..Len(pre) : s[i] = pre[i]
        /\ \A i \in 1..Len(u) : s[Len(pre) + i] = u[i]
        /\ \A i \in 1..Len(post) : s[Len(pre) + Len(u) + i] = post[i]
    BY <2>1, ThreeParts
  <2> QED
    BY <2>2, <2>3
<1>8. DOMAIN u = 1..b /\ DOMAIN e = 1..Len(e) /\ DOMAIN p = 1..Len(p)
      /\ Len(e) \in Nat /\ Len(p) \in Nat
  BY <1>1
<1>9. s \in Seq(Nat)
  BY <1>7
<1> HIDE DEF s, a, b
<1> DEFINE colons == {i \in DOMAIN s : s[i] = Colon}
           first  == IF colons = {} THEN 1 ELSE Min(colons) + 1
           minus  == {i \in first..Len(s) : s[i] = Minus}
           last   == IF minus = {} THEN Len(s) ELSE Max(minus) - 1
           epoch  == IF colons = {} THEN <<>> ELSE SubSeq(s, 1, first - 2)
           pack   == IF minus = {} THEN <<>> ELSE SubSeq(s, last + 2, Len(s))
<1>10. Parse(s) = [epoch |-> epoch, upstream |-> SubSeq(s, first, last), package |-> pack]
  BY DEF Parse
<1>11. DOMAIN s = 1..Len(s) /\ Len(s) \in Nat
  BY <1>9
<1>12. first = a + 1 /\ epoch = e
  <2>1. CASE pre = <<>> /\ e = <<>> /\ ~colon
    <3>1. a = 0
      BY <2>1 DEF a
    <3>2. \A i \in 1..Len(s) : s[i] # Colon
      <4> SUFFICES ASSUME NEW i \in 1..Len(s)
                   PROVE  s[i] # Colon
        OBVIOUS
      <4>1. CASE i <= b
        <5>1. i \in 1..b
          BY <1>11, <4>1, <1>7
        <5>2. s[i] = u[i]
          BY <1>7, <3>1, <5>1
        <5> QED
          BY <1>8, <2>1, <5>1, <5>2
      <4>2. CASE ~(i <= b)
        <5>1. i - b \in 1..Len(post) /\ a + b + (i - b) = i
          BY <1>7, <1>11, <3>1, <4>2
        <5>2. s[i] = post[i - b]
          BY <1>7, <5>1
        <5>3. Len(post) = Len(p) + 1 /\ post[1] = Minus
              /\ \A j \in 1..Len(p) : post[1 + j] = p[j]
          <6>1. post # <<>>
            BY <5>1
          <6> QED
            BY <1>6, <6>1
        <5>4. CASE i - b = 1
          BY <1>4, <5>2, <5>3, <5>4
        <5>5. CASE i - b # 1
          <6> DEFINE j == i - b - 1
          <6>1. j \in 1..Len(p) /\ 1 + j = i - b
            BY <1>7, <1>8, <1>11, <5>1, <5>3, <5>5
          <6> HIDE DEF j
          <6>2. s[i] = p[j]
            BY <5>2, <5>3, <6>1
          <6> QED
            BY <1>3, <1>8, <6>1, <6>2
        <5> QED
          BY <5>4, <5>5
      <4> QED
        BY <4>1, <4>2
    <3>3. colons = {}
      BY <1>11, <3>2
    <3> QED
      BY <2>1, <3>1, <3>3
  <2>2. CASE /\ Len(pre) = Len(e) + 1 /\ pre[Len(e) + 1] = Colon
             /\ \A i \in 1..Len(e) : pre[i] = e[i]
    <3>1. a = Len(e) + 1 /\ a \in 1..Len(s)
      BY <1>7, <1>8, <1>11, <2>2 DEF a
    <3>2. s[a] = Colon /\ \A i \in 1..Len(e) : s[i] = e[i]
      <4>1. \A i \in 1..a : s[i] = pre[i]
        BY <1>7
      <4>2. a \in 1..a /\ \A i \in 1..Len(e) : i \in 1..a
        BY <1>8, <3>1
      <4> QED
        BY <2>2, <3>1, <4>1, <4>2
    <3>3. a \in colons /\ colons \subseteq Nat
      BY <1>11, <3>1, <3>2
    <3>4. \A i \in colons : ~(i < a)
      <4> SUFFICES ASSUME NEW i \in colons, i < a
                   PROVE  FALSE
        OBVIOUS
      <4>1. i \in 1..Len(e)
        BY <1>8, <1>11, <3>1
      <4> QED
        BY <1>3, <1>8, <3>2, <4>1
    <3>5. Min(colons) \in colons /\ \A j \in colons : Min(colons) <= j
      <4> HIDE DEF colons
      <4> QED
        BY <3>3, LeastIsMin
    <3>6. colons # {}
      BY <3>3
    <3> HIDE DEF colons
    <3>7. Min(colons) = a
      <4> DEFINE m == Min(colons)
      <4>1. m \in colons /\ m <= a /\ ~(m < a)
        BY <3>3, <3>4, <3>5
      <4>2. m \in Nat /\ a \in Nat
        BY <1>7, <3>3, <4>1
      <4> HIDE DEF m
      <4>3. m = a
        BY <4>1, <4>2
      <4> QED
        BY <4>3 DEF m
    <3>8. first = a + 1
      BY <3>6, <3>7
    <3>9. epoch = SubSeq(s, 1, a - 1)
      <4>1. epoch = SubSeq(s, 1, first - 2)
        BY <3>6
      <4>2. first - 2 = a - 1
        BY <1>7, <3>8
      <4> HIDE DEF epoch, first
      <4> QED
        BY <4>1, <4>2
    <3>10. SubSeq(s, 0 + 1, 0 + Len(e)) = e
      <4>1. 0 + Len(e) <= Len(s) /\ \A i \in 1..Len(e) : s[0 + i] = e[i]
        BY <1>8, <1>11, <3>1, <3>2
      <4> QED
        BY <1>1, <1>9, <4>1, SubSeqIs
    <3>11. 0 + Len(e) = a - 1 /\ 0 + 1 = 1
      BY <1>8, <3>1
    <3> QED
      BY <3>8, <3>9, <3>10, <3>11
  <2> QED
    BY <1>5, <2>1, <2>2
<1> HIDE DEF first, epoch
<1>13. last = a + b /\ pack = p
  <2>1. CASE post = <<>> /\ p = <<>> /\ ~dash
    <3>1. Len(post) = 0
      BY <2>1
    <3>2. \A i \in first..Len(s) : s[i] # Minus
      <4> SUFFICES ASSUME NEW i \in first..Len(s)
                   PROVE  s[i] # Minus
        OBVIOUS
      <4>1. i - a \in 1..b /\ a + (i - a) = i
        BY <1>7, <1>11, <1>12, <3>1
      <4>2. s[i] = u[i - a]
        BY <1>7, <4>1
      <4> QED
        BY <1>8, <2>1, <4>1, <4>2
    <3>3. minus = {}
      BY <3>2
    <3>4. Len(s) = a + b
      BY <1>7, <3>1
    <3> QED
      BY <2>1, <3>3, <3>4
  <2>2. CASE /\ Len(post) = Len(p) + 1 /\ post[1] = Minus
             /\ \A i \in 1..Len(p) : post[1 + i] = p[i]
    <3> DEFINE m == a + b + 1
    <3>1. /\ m \in first..Len(s) /\ m \in Nat /\ s[m] = Minus
          /\ Len(s) = m + Len(p)
      <4>1. 1 \in 1..Len(post)
        BY <1>8, <2>2
      <4> QED
        BY <1>7, <1>8, <1>12, <2>2, <4>1
    <3>2. \A i \in 1..Len(p) : s[m + i] = p[i]
      <4> SUFFICES ASSUME NEW i \in 1..Len(p)
                   PROVE  s[m + i] = p[i]
        OBVIOUS
      <4>1. 1 + i \in 1..Len(post)
        <5>1. i \in 1..Len(p) /\ Len(p) \in Nat /\ Len(post) = Len(p) + 1
          BY <1>8, <2>2
        <5> QED
          BY <5>1
      <4>2. a + b + (1 + i) = m + i
        <5>1. a \in Nat /\ b \in Nat /\ i \in Nat
          BY <1>7
        <5> QED
          BY <5>1
      <4>3. s[a + b + (1 + i)] = post[1 + i]
        BY <1>7, <4>1
      <4> QED
        BY <2>2, <4>2, <4>3
    <3>3. m \in minus
      BY <3>1
    <3> HIDE DEF m
    <3>4. \A i \in minus : ~(m < i)
      <4> SUFFICES ASSUME NEW i \in first..Len(s), s[i] = Minus, m < i
                   PROVE  FALSE
        OBVIOUS
      <4>1. i - m \in 1..Len(p) /\ m + (i - m) = i
        BY <1>7, <1>8, <1>11, <1>12, <3>1
      <4>2. s[i] = p[i - m]
        BY <3>2, <4>1
      <4> QED
        BY <1>3, <1>8, <4>1, <4>2
    <3>5. minus \subseteq Nat /\ IsFiniteSet(minus) /\ minus # {}
      <4>1. first \in Int /\ Len(s) \in Int /\ first >= 1
        BY <1>7, <1>11, <1>12
      <4>2. minus \subseteq first..Len(s) /\ minus \subseteq Nat
        BY <4>1
      <4>3. IsFiniteSet(first..Len(s))
        BY <4>1, FS_Interval
      <4> HIDE DEF minus
      <4> QED
        BY <3>3, <4>2, <4>3, FS_Subset
    <3>6. Max(minus) \in minus /\ \A j \in minus : j <= Max(minus)
      <4> HIDE DEF minus
      <4> QED
        BY <3>5, GreatestIsMax
    <3> HIDE DEF minus
    <3>7. Max(minus) = m
      <4> DEFINE l == Max(minus)
      <4>1. l \in minus /\ m <= l /\ ~(m < l)
        BY <3>3, <3>4, <3>6
      <4>2. l \in Nat /\ m \in Nat
        BY <3>1, <3>5, <4>1
      <4> HIDE DEF l
      <4>3. l = m
        BY <4>1, <4>2
      <4> QED
        BY <4>3 DEF l
    <3>8. last = a + b
      <4>1. last = m - 1
        BY <3>5, <3>7
      <4> HIDE DEF last
      <4> QED
        BY <1>7, <4>1 DEF m
    <3>9. pack = SubSeq(s, last + 2, Len(s))
      BY <3>5
    <3> HIDE DEF last, pack
    <3>10. SubSeq(s, m + 1, m + Len(p)) = p
      <4>1. m + Len(p) <= Len(s)
        BY <1>8, <1>11, <3>1
      <4> QED
        BY <1>1, <1>9, <3>1, <3>2, <4>1, SubSeqIs
    <3>11. last + 2 = m + 1 /\ Len(s) = m + Len(p)
      <4>1. m = a + b + 1
        BY DEF m
      <4>2. a \in Nat /\ b \in Nat
        BY <1>7
      <4>3. last + 2 = m + 1
        BY <3>8, <4>1, <4>2
      <4>4. Len(s) = m + Len(p)
        BY <3>1
      <4> QED
        BY <4>3, <4>4
    <3> QED
      BY <3>8, <3>9, <3>10, <3>11
  <2> QED
    BY <1>6, <2>1, <2>2
<1> HIDE DEF last, pack
<1>14. SubSeq(s, first, last) = u
  <2>1. a + Len(u) <= Len(s) /\ \A i \in 1..Len(u) : s[a + i] = u[i]
    BY <1>7 DEF b
  <2>2. SubSeq(s, a + 1, a + Len(u)) = u
    BY <1>1, <1>7, <1>9, <2>1, SubSeqIs
  <2> QED
    BY <1>12, <1>13, <2>2 DEF b
<1>15. Parse(s) = v
  BY <1>1, <1>10, <1>12, <1>13, <1>14
<1> QED
  BY <1>2, <1>9, <1>15

-------------------------------------------------------------------------------
(* The status of what is installed. *)

Titles(file) == [moduleIds |-> IF file = NoObject THEN <<>> ELSE file]

\* Key k of package p is that of record r, in the numbers of checker ck, and is read
\* back as it is written.
Named(ck, r, p, k) ==
  /\ HasKey(ck, r, p, k) /\ EnvOf(r).modules \subseteq DOMAIN ck.moduleIds
  /\ k.version \in Version /\ IsValid(k.version)

\* The status as the next program will read it.
Stored == MapEntries(StatusOf, statFile)

\* The records that are kept have versions that can be read.
ValidInv ==
  /\ \A r \in Range(available) \cup control : IsValid(VersionOf(r))
  /\ \A p \in Package : info[p] # NoObject => IsValid(VersionOf(info[p]))

\* The checker has the numbers that are in its file, and the database is upgraded.
NumbersInv == Live => checker.moduleIds = Titles(idFile).moduleIds /\ ~(dbVersion < 2)

\* Every status, on the disc and in memory, is that of the package's control file.
StatusInv ==
  /\ DOMAIN curstat = Package
  /\ \A p \in Package : info[p] # NoObject =>
       /\ Stored[p] # NoObject /\ ~(dbVersion < 2) =>
            Named(Titles(idFile), info[p], p, Stored[p])
       /\ curstat[p] # NoObject => Named(Titles(idFile), info[p], p, curstat[p])

\* A database that has not been upgraded is as it was.
OldInv ==
  dbVersion < 2 =>
    \A p \in Package : info[p] # NoObject /\ statFile[p] # NoObject =>
      /\ info[p].pkg = p /\ Cmp(VersionOf(info[p]), Parse(statFile[p].version)) = 0
      /\ statFile[p].version \in Seq(Nat) /\ IsValid(Parse(statFile[p].version))
      /\ \A r \in Range(available) :
           r.pkg = p /\ Cmp(VersionOf(r), VersionOf(info[p])) = 0 => EnvOf(r) = EnvOf(info[p])

KnownInv == state = "done" => InstalledAreKnown

LEMMA NumberingIsAFile ==
  ASSUME NEW ids, IsNumbering(ids)
  PROVE  ids # NoObject
<1>1. DOMAIN ids \in SUBSET Module /\ ids \in [DOMAIN ids -> Nat]
  BY DEF IsNumbering
<1> QED
  BY <1>1, EnvironmentsAssumption

\* A key stays that of its record while modules keep their numbers.
LEMMA NamedStays ==
  ASSUME NEW ck, NEW old, Keeps(ck, old), NEW r, NEW p, NEW k, Named(old, r, p, k)
  PROVE  Named(ck, r, p, k)
<1> DEFINE e == EnvOf(r)
<1>1. e.modules \subseteq DOMAIN old.moduleIds /\ EnvId(old, e) = k.env
  BY DEF Named, HasKey
<1>2. /\ e.modules \subseteq DOMAIN ck.moduleIds
      /\ \A t \in e.modules : ck.moduleIds[t] = old.moduleIds[t]
  BY <1>1 DEF Keeps
<1> HIDE DEF e
<1>3. EnvId(ck, e) = EnvId(old, e)
  BY <1>2 DEF EnvId
<1> QED
  BY <1>1, <1>2, <1>3 DEF Named, HasKey, e

LEMMA KeepsSame ==
  ASSUME NEW ck, NEW old, ck.moduleIds = old.moduleIds
  PROVE  Keeps(ck, old)
BY DEF Keeps

\* A status is read back from its entry.
LEMMA NamedWritten ==
  ASSUME NEW ck, NEW r, NEW p, NEW k, Named(ck, r, p, k)
  PROVE  Named(ck, r, p, StatusOf(EntryOf(k)))
<1>1. k.version \in Version /\ IsValid(k.version)
  BY DEF Named
<1>2. Parse(Written(k.version)) = k.version
  BY <1>1, ParseWritten
<1>3. StatusOf(EntryOf(k)).version = k.version /\ StatusOf(EntryOf(k)).env = k.env
  BY <1>2 DEF StatusOf, EntryOf
<1> QED
  BY <1>3 DEF Named, HasKey

LEMMA Entries ==
  ASSUME NEW table, NEW p \in Package
  PROVE  /\ MapEntries(StatusOf, table)[p] =
              IF table[p] = NoObject THEN NoObject ELSE StatusOf(table[p])
         /\ MapEntries(EntryOf, table)[p] =
              IF table[p] = NoObject THEN NoObject ELSE EntryOf(table[p])
BY DEF MapEntries

LEMMA SameVersion ==
  ASSUME NEW u \in Version, NEW v \in Version, NEW w \in Version
  PROVE  /\ Cmp(u, u) = 0
         /\ Cmp(u, v) = 0 => Cmp(v, u) = 0
         /\ Cmp(u, v) = 0 /\ Cmp(v, w) = 0 => Cmp(u, w) = 0
<1>1. Cmp(u, u) \in {-1, 0, 1} /\ Cmp(u, u) = -Cmp(u, u)
  BY VersionsOrdered
<1>2. Cmp(v, u) \in {-1, 0, 1} /\ Cmp(u, v) = -Cmp(v, u)
  BY VersionsOrdered
<1>3. Cmp(u, v) = 0 /\ Cmp(v, w) = 0 => Cmp(u, w) = 0
  BY VersionsOrdered
<1>4. Cmp(u, u) = 0
  BY <1>1
<1>5. Cmp(u, v) = 0 => Cmp(v, u) = 0
  BY <1>2
<1> QED
  BY <1>3, <1>4, <1>5

\* The table has records of the file only.
LEMMA ReadIsListed ==
  ASSUME NEW ck, NEW mc, NEW file
  PROVE  ReadTable(ck, mc, file).control \subseteq Range(file)
<1> DEFINE firsts == FirstsOf(Seen(ck, mc, Range(file)), {}, file)
<1>1. ReadTable(ck, mc, file).control = {file[i] : i \in firsts}
  BY DEF ReadTable
<1>2. firsts \subseteq DOMAIN file
  BY DEF FirstsOf
<1> HIDE DEF firsts
<1> QED
  BY <1>1, <1>2 DEF Range

LEMMA InstalledInit == Init => ValidInv /\ NumbersInv /\ StatusInv /\ OldInv /\ KnownInv
<1> SUFFICES ASSUME Init
             PROVE  ValidInv /\ NumbersInv /\ StatusInv /\ OldInv /\ KnownInv
  OBVIOUS
<1>1. PICK db \in Initials :
        /\ idFile = db.idFile /\ available = db.available /\ dbVersion = db.dbVersion
        /\ statFile = db.statFile /\ info = db.info
  BY DEF Init
<1> DEFINE own(p) == db.info[p]
           entry(p) == db.statFile[p]
           titles == IF db.idFile = NoObject THEN <<>> ELSE db.idFile
<1>2. /\ \A i \in DOMAIN db.available : IsValid(VersionOf(db.available[i]))
      /\ \A p \in {q \in Package : own(q) # NoObject} :
           /\ IsValid(VersionOf(own(p)))
           /\ entry(p) # NoObject =>
                /\ own(p).pkg = p /\ Cmp(VersionOf(own(p)), Parse(entry(p).version)) = 0
                /\ entry(p).version \in Seq(Nat) /\ IsValid(Parse(entry(p).version))
                /\ IF db.dbVersion < 2
                   THEN /\ entry(p).env = {<<"u">>}
                        /\ \A r \in Range(db.available) :
                             r.pkg = p /\ Cmp(VersionOf(r), VersionOf(own(p))) = 0
                             => EnvOf(r) = EnvOf(own(p))
                   ELSE /\ EnvOf(own(p)).modules \subseteq DOMAIN titles
                        /\ entry(p).env = EnvId([moduleIds |-> titles], EnvOf(own(p)))
  BY InstalledAssumption
<1>3. control = {} /\ curstat = [p \in Package |-> NoObject] /\ state = "none" /\ ~Live
  BY DEF Init, Live, Running
<1>4. ValidInv
  BY <1>1, <1>2, <1>3 DEF ValidInv, Range
<1>5. NumbersInv /\ KnownInv
  BY <1>3 DEF NumbersInv, KnownInv
<1>6. OldInv
  BY <1>1, <1>2 DEF OldInv
<1>7. StatusInv
  <2>1. ASSUME NEW p \in Package, info[p] # NoObject, Stored[p] # NoObject, ~(dbVersion < 2)
        PROVE  Named(Titles(idFile), info[p], p, Stored[p])
    <3>1. statFile[p] # NoObject /\ Stored[p] = StatusOf(statFile[p])
      BY <2>1, Entries DEF Stored
    <3>2. /\ own(p).pkg = p /\ Cmp(VersionOf(own(p)), Parse(entry(p).version)) = 0
          /\ entry(p).version \in Seq(Nat) /\ IsValid(Parse(entry(p).version))
          /\ EnvOf(own(p)).modules \subseteq DOMAIN titles
          /\ entry(p).env = EnvId([moduleIds |-> titles], EnvOf(own(p)))
      BY <1>1, <1>2, <2>1, <3>1
    <3>3. Titles(idFile) = [moduleIds |-> titles] /\ info[p] = own(p) /\ statFile[p] = entry(p)
      BY <1>1 DEF Titles
    <3>4. Titles(idFile).moduleIds = titles
      BY <3>3
    <3>5. Parse(entry(p).version) \in Version
      BY <3>2, ParseType
    <3> HIDE DEF own, entry, titles
    <3>6. Stored[p].version = Parse(entry(p).version) /\ Stored[p].env = entry(p).env
      BY <3>1, <3>3 DEF StatusOf
    <3> QED
      BY <3>2, <3>3, <3>4, <3>5, <3>6 DEF Named, HasKey
  <2> QED
    BY <1>3, <2>1 DEF StatusInv
<1> QED
  BY <1>4, <1>5, <1>6, <1>7

LEMMA ValidNext == Inv /\ FetchInv /\ ValidInv /\ [Next]_vars => ValidInv'
<1> SUFFICES ASSUME Inv, FetchInv, ValidInv, [Next]_vars
             PROVE  ValidInv'
  OBVIOUS
<1>1. CASE Start
  <2>1. /\ control' = ReadTable(NewChecker(machine, idFile), machine, available).control
        /\ UNCHANGED <<available, info>>
    BY <1>1 DEF Start
  <2> QED
    BY <2>1, ReadIsListed DEF ValidInv
<1>2. CASE Stop
  <2>1. control' = {} /\ UNCHANGED info
    BY <1>2 DEF Stop
  <2>2. PICK n \in IF out THEN 0..Len(available) ELSE {Len(available)} :
          available' = SubSeq(available, 1, n)
    BY <1>2 DEF Stop
  <2>3. available \in Seq(Record) /\ n \in 0..Len(available)
    BY <2>2 DEF Inv, DataInv
  <2>4. \A i \in DOMAIN available' : i \in DOMAIN available /\ available'[i] = available[i]
    BY <2>2, <2>3
  <2>5. Range(available') \subseteq Range(available)
    BY <2>4 DEF Range
  <2> QED
    BY <2>1, <2>5 DEF ValidInv
<1>3. CASE EnvPackages \/ ClearEnvironmentOverrides \/ OverrideEnvironment
  BY <1>3 DEF EnvPackages, ClearEnvironmentOverrides, OverrideEnvironment, CheckerChanges,
              statVars, ValidInv
<1>4. ASSUME NEW p \in Package, Install(p) \/ Uninstall(p)
      PROVE  ValidInv'
  <2>1. UNCHANGED <<available, control>>
    BY <1>4 DEF Install, Uninstall, StatusBecomes, tableVars
  <2>2. CASE Uninstall(p)
    <3>1. info' = [info EXCEPT ![p] = NoObject]
      BY <2>2 DEF Uninstall, StatusBecomes
    <3>2. \A q \in Package : info'[q] = info[q] \/ info'[q] = NoObject
      BY <3>1 DEF Inv, DataInv
    <3> QED
      BY <2>1, <3>2 DEF ValidInv
  <2>3. CASE Install(p)
    <3>1. /\ best # NoObject /\ best[p] # NoRecord
          /\ info' = [info EXCEPT ![p] = [best[p] EXCEPT !.origin = Local]]
      BY <2>3 DEF Install, StatusBecomes
    <3>2. best[p] \in control /\ best[p] \in Record
      BY <3>1, BestListed
    <3>3. VersionOf([best[p] EXCEPT !.origin = Local]) = VersionOf(best[p])
      BY <3>2 DEF VersionOf, Record
    <3>4. \A q \in Package : info'[q] = info[q] \/ info'[q] = [best[p] EXCEPT !.origin = Local]
      BY <3>1 DEF Inv, DataInv
    <3> QED
      BY <2>1, <3>2, <3>3, <3>4 DEF ValidInv
  <2> QED
    BY <1>4, <2>2, <2>3
<1>5. CASE Begin \/ ReadSources \/ NextDownload \/ TransferEnds \/ Downloaded \/ DownloadFailed
           \/ SourcesBuilt
  BY <1>5 DEF Begin, ReadSources, NextDownload, TransferEnds, Downloaded, DownloadFailed,
              SourcesBuilt, statVars, tableVars, ValidInv
<1>6. CASE DownloadsDone
  <2>1. available' = <<>> /\ UNCHANGED <<control, info>>
    BY <1>6 DEF DownloadsDone, statVars, tableVars
  <2>2. Range(available') = {}
    BY <2>1 DEF Range
  <2> QED
    BY <2>1, <2>2 DEF ValidInv
<1>7. CASE BuildSource
  <2>1. UNCHANGED <<control, info>> /\ Live
    BY <1>7, SourceKeepsData DEF BuildSource, statVars, tableVars
  <2>2. PICK records \in Seq(Record) :
          available' = Built(records).out /\ \A r \in Range(records) : IsValid(VersionOf(r))
    BY <1>7, SourceKeepsData
  <2>3. Range(available') \subseteq Range(available) \cup Range(records)
    <3> DEFINE firsts == FirstsOf(Built(records).checker, written, records)
    <3>1. Range(Built(records).out) = Range(available) \cup {records[i] : i \in firsts}
      BY <2>1, BuiltTyped DEF Inv, CacheInv, TypedInv, DataInv
    <3>2. firsts \subseteq DOMAIN records
      BY DEF FirstsOf
    <3> HIDE DEF firsts
    <3>3. {records[i] : i \in firsts} \subseteq Range(records)
      BY <3>2 DEF Range
    <3> QED
      BY <2>2, <3>1, <3>3
  <2> QED
    BY <2>1, <2>2, <2>3 DEF ValidInv
<1>8. CASE BuildLocal
  <2>1. UNCHANGED info /\ Live
    BY <1>8, LocalKeepsData DEF BuildLocal, statVars
  <2>2. PICK records \in Seq(Record) :
          /\ available' = Built(records).out
          /\ control' = ReadTable(Built(records).checker, machine, Built(records).out).control
          /\ Range(records) = {info[p] : p \in {q \in Package : curstat[q] # NoObject
                                                              /\ info[q] # NoObject}}
    BY <1>8, LocalKeepsData
  <2>3. Range(available') \subseteq Range(available) \cup Range(records)
    <3> DEFINE firsts == FirstsOf(Built(records).checker, written, records)
    <3>1. Range(Built(records).out) = Range(available) \cup {records[i] : i \in firsts}
      BY <2>1, BuiltTyped DEF Inv, CacheInv, TypedInv, DataInv
    <3>2. firsts \subseteq DOMAIN records
      BY DEF FirstsOf
    <3> HIDE DEF firsts
    <3>3. {records[i] : i \in firsts} \subseteq Range(records)
      BY <3>2 DEF Range
    <3> QED
      BY <2>2, <3>1, <3>3
  <2>4. control' \subseteq Range(available')
    BY <2>2, ReadIsListed
  <2> QED
    BY <2>1, <2>2, <2>3, <2>4 DEF ValidInv
<1>9. CASE UNCHANGED vars
  BY <1>9 DEF vars, statVars, tableVars, ValidInv
<1> QED
  BY <1>1, <1>2, <1>3, <1>4, <1>5, <1>6, <1>7, <1>8, <1>9 DEF Next, Poll

\* The checker that an operation leaves has the numbers of the file.
LEMMA BecomesNumbers ==
  ASSUME NumbersInv, Live, NEW ck, Typed(ck), CheckerBecomes(ck), dbVersion' = dbVersion
  PROVE  NumbersInv'
<1>1. ck.moduleIds # NoObject
  BY NumberingIsAFile DEF Typed
<1>2. checker' = ck /\ idFile' = IF ck.moduleIds = checker.moduleIds THEN idFile ELSE ck.moduleIds
  BY DEF CheckerBecomes
<1>3. checker.moduleIds = Titles(idFile).moduleIds /\ ~(dbVersion < 2)
  BY DEF NumbersInv
<1>4. ck.moduleIds = Titles(idFile').moduleIds
  BY <1>1, <1>2, <1>3 DEF Titles
<1> QED
  BY <1>2, <1>3, <1>4 DEF NumbersInv

\* The program that has started.
LEMMA StartNumbers ==
  ASSUME Inv, Start
  PROVE  /\ NumbersInv'
         /\ Keeps(checker', Titles(idFile)) /\ checker'.moduleIds = Titles(idFile').moduleIds
<1> DEFINE first == NewChecker(machine, idFile)
           table == ReadTable(first, machine, available)
           read  == MapEntries(StatusOf, statFile)
           lost  == Misfiled(table.checker, table.control, read)
           files == {info[p] : p \in lost}
           seen  == Seen(table.checker, machine, files)
           up    == IF dbVersion < 2 THEN UpgradeStatus(table.checker, table.control, read)
                    ELSE [checker |-> table.checker, status |-> read]
<1>1. /\ checker' = up.checker /\ dbVersion' = 2
      /\ idFile' = IF up.checker.moduleIds = first.moduleIds THEN idFile
                   ELSE up.checker.moduleIds
  BY DEF Start
<1>2. Good(first) /\ Typed(first)
  BY NewIsGood, NewTyped DEF Inv, DataInv
<1>3. first.moduleIds = Titles(idFile).moduleIds
  BY DEF NewChecker, Titles
<1> HIDE DEF first
<1>4. Good(table.checker) /\ Typed(table.checker) /\ Keeps(table.checker, first)
  BY <1>2, ReadTableIsGood, ReadTableTyped DEF Inv, DataInv
<1> HIDE DEF table
<1>5. files \subseteq Record
  BY DEF Misfiled, Inv, DataInv
<1> HIDE DEF files
<1>6. Typed(seen) /\ Keeps(seen, table.checker)
  BY <1>4, <1>5, SeenTyped
<1>7. up.checker = seen \/ up.checker = table.checker
  BY DEF UpgradeStatus, files
<1> HIDE DEF seen, up
<1>8. Typed(up.checker) /\ Keeps(up.checker, Titles(idFile))
  BY <1>3, <1>4, <1>6, <1>7 DEF Keeps
<1>9. up.checker.moduleIds # NoObject
  BY <1>8, NumberingIsAFile DEF Typed
<1>10. up.checker.moduleIds = Titles(idFile').moduleIds
  BY <1>1, <1>3, <1>9 DEF Titles
<1>11. ~(dbVersion' < 2)
  BY <1>1
<1> QED
  BY <1>1, <1>8, <1>10, <1>11 DEF NumbersInv

LEMMA NumbersNext == Inv /\ FetchInv /\ NumbersInv /\ [Next]_vars => NumbersInv'
<1> SUFFICES ASSUME Inv, FetchInv, NumbersInv, [Next]_vars
             PROVE  NumbersInv'
  OBVIOUS
<1>1. ASSUME UNCHANGED <<idFile, dbVersion>>, Live' => Live,
             checker' = checker \/ checker'.moduleIds = checker.moduleIds
      PROVE  NumbersInv'
  <2> SUFFICES ASSUME Live'
               PROVE  checker'.moduleIds = Titles(idFile').moduleIds /\ ~(dbVersion' < 2)
    BY DEF NumbersInv
  <2>1. checker.moduleIds = Titles(idFile).moduleIds /\ ~(dbVersion < 2)
    BY <1>1 DEF NumbersInv
  <2> QED
    BY <1>1, <2>1
<1>2. CASE Start
  BY <1>2, StartNumbers
<1>3. CASE Stop
  <2>1. ~Live'
    BY <1>3 DEF Stop, Live, Running
  <2> QED
    BY <2>1 DEF NumbersInv
<1>4. CASE ClearEnvironmentOverrides \/ OverrideEnvironment
  <2>1. UNCHANGED <<idFile, dbVersion>>
    BY <1>4 DEF ClearEnvironmentOverrides, OverrideEnvironment, CheckerChanges, statVars
  <2> QED
    BY <1>1, <1>4, <2>1, OverrideKeepsData
<1>5. CASE EnvPackages \/ \E p \in Package : Install(p) \/ Uninstall(p)
  <2>1. UNCHANGED <<idFile, dbVersion, checker>> /\ Live
    BY <1>5 DEF EnvPackages, Install, Uninstall, Idle, StatusBecomes, statVars, Live
  <2> QED
    BY <1>1, <2>1
<1>6. CASE \/ Begin \/ ReadSources \/ NextDownload \/ TransferEnds \/ Downloaded \/ DownloadFailed
           \/ DownloadsDone \/ SourcesBuilt
  <2>1. UNCHANGED <<idFile, dbVersion, checker>>
    BY <1>6 DEF Begin, ReadSources, NextDownload, TransferEnds, Downloaded, DownloadFailed,
                DownloadsDone, SourcesBuilt, statVars
  <2>2. Live
    BY <1>6 DEF Begin, ReadSources, NextDownload, TransferEnds, Downloaded, DownloadFailed,
                DownloadsDone, SourcesBuilt, FetchInv, Live
  <2> QED
    BY <1>1, <2>1, <2>2
<1>7. CASE BuildSource
  <2>1. PICK records \in Seq(Record) : /\ CheckerBecomes(Built(records).checker)
                                       /\ dbVersion' = dbVersion
    <3>1. PICK rs \in Seq(Record) : checker' = Built(rs).checker
      BY <1>7, SourceKeepsData
    <3>2. \E st : CheckerBecomes(st.checker)
      BY <1>7 DEF BuildSource
    <3>3. CheckerBecomes(Built(rs).checker)
      BY <3>1, <3>2 DEF CheckerBecomes
    <3> QED
      BY <1>7, <3>3 DEF BuildSource, statVars
  <2>2. Live
    BY <1>7, SourceKeepsData
  <2>3. Typed(Built(records).checker)
    BY <2>2, BuiltTyped DEF Inv, CacheInv, TypedInv, DataInv
  <2> QED
    BY <2>1, <2>2, <2>3, BecomesNumbers
<1>8. CASE BuildLocal
  <2>1. Live /\ TypedInv' /\ dbVersion' = dbVersion
    BY <1>8, LocalKeepsData DEF BuildLocal, statVars
  <2>2. \E table : CheckerBecomes(table.checker)
    BY <1>8 DEF BuildLocal
  <2>3. PICK ck : CheckerBecomes(ck)
    BY <2>2
  <2>4. checker' = ck
    BY <2>3 DEF CheckerBecomes
  <2>5. CASE Live'
    BY <2>1, <2>3, <2>4, <2>5, BecomesNumbers DEF TypedInv
  <2>6. CASE ~Live'
    BY <2>6 DEF NumbersInv
  <2> QED
    BY <2>5, <2>6
<1>9. CASE UNCHANGED vars
  BY <1>1, <1>9 DEF vars, statVars, tableVars, Live, Running
<1> QED
  BY <1>2, <1>3, <1>4, <1>5, <1>6, <1>7, <1>8, <1>9 DEF Next, Poll

\* Nothing but a start happens to a database that has not been upgraded.
LEMMA OldNext == Inv /\ FetchInv /\ NumbersInv /\ OldInv /\ [Next]_vars => OldInv'
<1> SUFFICES ASSUME Inv, FetchInv, NumbersInv, OldInv, [Next]_vars, dbVersion' < 2
             PROVE  UNCHANGED <<info, statFile, available>> /\ dbVersion < 2
  BY DEF OldInv
<1>1. ~Start
  BY DEF Start
<1>2. CASE Next /\ ~Stop
  <2>1. Live /\ dbVersion' = dbVersion
    <3>1. CASE EnvPackages
      BY <3>1 DEF EnvPackages, statVars, Live
    <3>2. CASE ClearEnvironmentOverrides \/ OverrideEnvironment
      BY <3>2 DEF ClearEnvironmentOverrides, OverrideEnvironment, CheckerChanges, statVars, Live
    <3>3. CASE \E p \in Package : Install(p) \/ Uninstall(p)
      BY <3>3 DEF Install, Uninstall, Idle, StatusBecomes, Live
    <3>4. CASE \/ Begin \/ ReadSources \/ NextDownload \/ TransferEnds \/ Downloaded
               \/ DownloadFailed \/ DownloadsDone \/ SourcesBuilt \/ BuildSource \/ BuildLocal
      BY <3>4 DEF Begin, ReadSources, NextDownload, TransferEnds, Downloaded, DownloadFailed,
                  DownloadsDone, SourcesBuilt, BuildSource, BuildLocal, FetchInv, statVars, Live
    <3> QED
      BY <1>1, <1>2, <3>1, <3>2, <3>3, <3>4 DEF Next, Poll
  <2> QED
    BY <2>1 DEF NumbersInv
<1>3. CASE Stop
  BY <1>3 DEF Stop, NumbersInv, Live
<1>4. CASE UNCHANGED vars
  BY <1>4 DEF vars, statVars
<1> QED
  BY <1>2, <1>3, <1>4

\* A step that leaves what is installed alone.
LEMMA StatusKept ==
  ASSUME Inv, StatusInv, UNCHANGED <<statFile, info, curstat, dbVersion>>,
         Keeps(Titles(idFile'), Titles(idFile))
  PROVE  StatusInv'
<1>1. DOMAIN curstat' = Package
  BY DEF StatusInv
<1>2. Stored' = Stored
  BY DEF Stored, MapEntries
<1>3. ASSUME NEW p \in Package, info'[p] # NoObject, Stored'[p] # NoObject, ~(dbVersion' < 2)
      PROVE  Named(Titles(idFile'), info'[p], p, Stored'[p])
  <2>1. Named(Titles(idFile), info[p], p, Stored[p])
    BY <1>2, <1>3 DEF StatusInv
  <2> QED
    BY <1>2, <2>1, NamedStays
<1>4. ASSUME NEW p \in Package, info'[p] # NoObject, curstat'[p] # NoObject
      PROVE  Named(Titles(idFile'), info'[p], p, curstat'[p])
  <2>1. Named(Titles(idFile), info[p], p, curstat[p])
    BY <1>4 DEF StatusInv
  <2> QED
    BY <2>1, NamedStays
<1> QED
  BY <1>1, <1>3, <1>4 DEF StatusInv

\* The key that an installed package gets is that of its record.
LEMMA InstalledNamed ==
  ASSUME Inv, NumbersInv, ValidInv, NEW p \in Package, Install(p)
  PROVE  LET k == [version |-> VersionOf(best[p]), env |-> EnvId(checker, EnvOf(best[p]))]
         IN  /\ curstat' = [curstat EXCEPT ![p] = k]
             /\ info' = [info EXCEPT ![p] = [best[p] EXCEPT !.origin = Local]]
             /\ Named(Titles(idFile), [best[p] EXCEPT !.origin = Local], p, k)
             /\ best[p] \in control /\ HasKey(checker, best[p], p, k)
<1> DEFINE b == best[p]
           k == [version |-> VersionOf(b), env |-> EnvId(checker, EnvOf(b))]
           r == [b EXCEPT !.origin = Local]
<1>1. /\ best # NoObject /\ b # NoRecord /\ Live
      /\ curstat' = [curstat EXCEPT ![p] = k] /\ info' = [info EXCEPT ![p] = r]
  BY DEF Install, Idle, StatusBecomes, Live
<1>2. b \in control /\ b \in Record /\ b.pkg = p
  BY <1>1, BestListed
<1> HIDE DEF b
<1>3. r.pkg = b.pkg /\ VersionOf(r) = VersionOf(b) /\ EnvOf(r) = EnvOf(b)
  BY <1>2 DEF Record, VersionOf, EnvOf
<1>4. k.version = VersionOf(b) /\ k.env = EnvId(checker, EnvOf(b))
  OBVIOUS
<1> HIDE DEF k, r
<1>5. VersionOf(b) \in Version /\ IsValid(VersionOf(b))
  BY <1>2, RecordVersion DEF ValidInv
<1>6. Cmp(VersionOf(b), VersionOf(b)) = 0
  BY <1>5, SameVersion
<1>7. EnvOf(b).modules \subseteq DOMAIN checker.moduleIds
  <2>1. EnvOf(b) \in DOMAIN checker.environments
    BY <1>1, <1>2 DEF Inv, CacheInv, KnowsAll
  <2> QED
    BY <1>1, <2>1 DEF Inv, CacheInv, TypedInv, Good, Cached, Typed
<1>8. checker.moduleIds = Titles(idFile).moduleIds
  BY <1>1 DEF NumbersInv
<1>9. EnvId(Titles(idFile), EnvOf(b)) = EnvId(checker, EnvOf(b))
  BY <1>8 DEF EnvId
<1>10. HasKey(checker, b, p, k)
  BY <1>2, <1>4, <1>6 DEF HasKey
<1>11. Named(Titles(idFile), r, p, k)
  BY <1>2, <1>3, <1>4, <1>5, <1>6, <1>7, <1>8, <1>9 DEF Named, HasKey
<1> QED
  BY <1>1, <1>2, <1>10, <1>11 DEF k, r, b

\* The status on the disc is what is written of the one in memory.
LEMMA WrittenStatus ==
  ASSUME NEW ids, NEW table, NEW controls,
         \A p \in Package : controls[p] # NoObject /\ table[p] # NoObject =>
           Named(ids, controls[p], p, table[p]),
         NEW p \in Package, controls[p] # NoObject,
         MapEntries(StatusOf, MapEntries(EntryOf, table))[p] # NoObject
  PROVE  Named(ids, controls[p], p, MapEntries(StatusOf, MapEntries(EntryOf, table))[p])
<1> DEFINE file == MapEntries(EntryOf, table)
<1>1. file[p] # NoObject /\ MapEntries(StatusOf, file)[p] = StatusOf(file[p])
  BY Entries
<1>2. table[p] # NoObject /\ file[p] = EntryOf(table[p])
  BY <1>1, Entries
<1>3. Named(ids, controls[p], p, table[p])
  BY <1>2
<1>4. Named(ids, controls[p], p, StatusOf(EntryOf(table[p])))
  BY <1>3, NamedWritten
<1> QED
  BY <1>1, <1>2, <1>4

LEMMA InstallStatus ==
  ASSUME Inv, NumbersInv, ValidInv, StatusInv, NEW p \in Package, Install(p) \/ Uninstall(p)
  PROVE  StatusInv'
<1>1. statFile' = MapEntries(EntryOf, curstat') /\ UNCHANGED idFile
  BY DEF Install, Uninstall, StatusBecomes
<1>2. DOMAIN curstat = Package /\ DOMAIN info = Package
  BY DEF StatusInv, Inv, DataInv
<1>3. PICK k, r : /\ curstat' = [curstat EXCEPT ![p] = k] /\ info' = [info EXCEPT ![p] = r]
                  /\ r # NoObject /\ k # NoObject => Named(Titles(idFile), r, p, k)
  <2>1. CASE Install(p)
    BY <2>1, InstalledNamed
  <2>2. CASE Uninstall(p)
    BY <2>2 DEF Uninstall, StatusBecomes
  <2> QED
    BY <2>1, <2>2
<1>4. DOMAIN curstat' = Package
  BY <1>2, <1>3
<1>5. \A q \in Package : info'[q] # NoObject /\ curstat'[q] # NoObject =>
        Named(Titles(idFile), info'[q], q, curstat'[q])
  <2> SUFFICES ASSUME NEW q \in Package, info'[q] # NoObject, curstat'[q] # NoObject
               PROVE  Named(Titles(idFile), info'[q], q, curstat'[q])
    OBVIOUS
  <2>1. CASE q = p
    BY <1>2, <1>3, <2>1
  <2>2. CASE q # p
    <3>1. info'[q] = info[q] /\ curstat'[q] = curstat[q]
      BY <1>2, <1>3, <2>2
    <3> QED
      BY <3>1 DEF StatusInv
  <2> QED
    BY <2>1, <2>2
<1>6. Stored' = MapEntries(StatusOf, MapEntries(EntryOf, curstat'))
  BY <1>1 DEF Stored, MapEntries
<1>7. \A q \in Package : info'[q] # NoObject /\ Stored'[q] # NoObject =>
        Named(Titles(idFile), info'[q], q, Stored'[q])
  BY <1>5, <1>6, WrittenStatus
<1> QED
  BY <1>1, <1>4, <1>5, <1>7 DEF StatusInv

\* The status that a program starts with.
LEMMA StartStatus ==
  ASSUME Inv, StatusInv, OldInv, Start
  PROVE  StatusInv'
<1> DEFINE first == NewChecker(machine, idFile)
           table == ReadTable(first, machine, available)
           read  == MapEntries(StatusOf, statFile)
           lost  == Misfiled(table.checker, table.control, read)
           files == {info[p] : p \in lost}
           seen  == Seen(table.checker, machine, files)
           up    == IF dbVersion < 2 THEN UpgradeStatus(table.checker, table.control, read)
                    ELSE [checker |-> table.checker, status |-> read]
<1>1. /\ checker' = up.checker /\ control' = table.control /\ curstat' = up.status
      /\ statFile' = IF up.status = read THEN statFile ELSE MapEntries(EntryOf, up.status)
      /\ UNCHANGED info
  BY DEF Start
<1>2. /\ Keeps(checker', Titles(idFile)) /\ checker'.moduleIds = Titles(idFile').moduleIds
      /\ Keeps(Titles(idFile'), checker') /\ Keeps(Titles(idFile'), Titles(idFile))
  BY StartNumbers DEF Keeps
<1>3. Good(table.checker) /\ Typed(table.checker) /\ KnowsAll(table.checker, table.control)
  <2>1. Good(first) /\ Typed(first)
    BY NewIsGood, NewTyped DEF Inv, DataInv
  <2> HIDE DEF first
  <2> QED
    BY <2>1, ReadTableIsGood, ReadTableTyped DEF Inv, DataInv
<1>4. table.control \subseteq Range(available) /\ Range(available) \subseteq Record
  BY ReadIsListed, RangeFinite DEF Inv, DataInv
<1>5. read = Stored
  BY DEF Stored
<1> HIDE DEF table, first, read
<1>6. files \subseteq Record
  BY DEF Misfiled, Inv, DataInv
<1>7. Good(seen) /\ Typed(seen) /\ Keeps(seen, table.checker) /\ KnowsAll(seen, files)
  BY <1>3, <1>6, SeenIsGood, SeenTyped
<1>8. DOMAIN up.status = Package
  BY <1>5 DEF UpgradeStatus, Stored, MapEntries
<1>9. ASSUME NEW p \in Package, info[p] # NoObject, up.status[p] # NoObject
      PROVE  Named(checker', info[p], p, up.status[p])
  <2>1. CASE ~(dbVersion < 2)
    <3>1. up.status = Stored
      BY <1>5, <2>1
    <3> HIDE DEF up
    <3>2. Named(Titles(idFile), info[p], p, up.status[p])
      BY <1>9, <2>1, <3>1 DEF StatusInv
    <3> QED
      BY <1>2, <3>2, NamedStays
  <2>2. CASE dbVersion < 2
    <3>1. /\ checker' = seen
          /\ up.status[p] = IF p \in lost THEN [read[p] EXCEPT !.env = EnvId(seen, EnvOf(info[p]))]
                            ELSE read[p]
      BY <1>1, <2>2 DEF UpgradeStatus
    <3> DEFINE new == up.status[p]
    <3> HIDE DEF up
    <3>2. read[p] # NoObject
      BY <1>9, <3>1 DEF Misfiled
    <3>3. read[p] = StatusOf(statFile[p]) /\ statFile[p] # NoObject
      BY <3>2, Entries DEF read
    <3>4. info[p] \in Record /\ VersionOf(info[p]) \in Version
      BY <1>9, RecordVersion DEF Inv, DataInv
    <3> DEFINE v == Parse(statFile[p].version)
    <3>5. /\ info[p].pkg = p /\ Cmp(VersionOf(info[p]), v) = 0 /\ IsValid(v) /\ v \in Version
          /\ \A r \in Range(available) :
               r.pkg = p /\ Cmp(VersionOf(r), VersionOf(info[p])) = 0 => EnvOf(r) = EnvOf(info[p])
      BY <1>9, <2>2, <3>3, ParseType DEF OldInv
    <3>6. read[p] = [version |-> v, env |-> statFile[p].env]
      BY <3>3 DEF StatusOf
    <3> HIDE DEF v
    <3>7. CASE p \in lost
      <4>1. new.version = v /\ new.env = EnvId(seen, EnvOf(info[p]))
        BY <3>1, <3>6, <3>7
      <4>2. EnvOf(info[p]) \in DOMAIN seen.environments
        BY <1>7, <3>7 DEF KnowsAll
      <4>3. EnvOf(info[p]).modules \subseteq DOMAIN seen.moduleIds
        BY <1>7, <4>2 DEF Good, Cached, Typed
      <4> HIDE DEF new, seen
      <4> QED
        BY <3>1, <3>5, <4>1, <4>3 DEF Named, HasKey, new
    <3>8. CASE p \notin lost
      <4>1. new = read[p] /\ new.version = v
        BY <3>1, <3>6, <3>8
      <4>2. PICK r \in table.control : HasKey(table.checker, r, p, new)
        BY <1>9, <3>2, <3>8, <4>1 DEF Misfiled
      <4>3. r \in Range(available) /\ r \in Record /\ VersionOf(r) \in Version
        BY <1>4, RecordVersion
      <4> HIDE DEF new
      <4>4. Cmp(VersionOf(r), v) = 0 /\ r.pkg = p /\ EnvId(table.checker, EnvOf(r)) = new.env
        BY <4>1, <4>2 DEF HasKey
      <4>5. Cmp(VersionOf(r), VersionOf(info[p])) = 0
        BY <3>4, <3>5, <4>3, <4>4, SameVersion
      <4>6. EnvOf(r) = EnvOf(info[p])
        BY <3>5, <4>3, <4>4, <4>5
      <4>7. EnvOf(r).modules \subseteq DOMAIN table.checker.moduleIds
        BY <1>3 DEF Good, Cached, Typed, KnowsAll
      <4>8. Named(table.checker, info[p], p, new)
        BY <3>5, <4>1, <4>4, <4>6, <4>7 DEF Named, HasKey
      <4> HIDE DEF seen
      <4>9. Named(seen, info[p], p, new)
        BY <1>7, <4>8, NamedStays
      <4> QED
        BY <3>1, <4>9 DEF new
    <3> QED
      BY <3>7, <3>8
  <2> QED
    BY <2>1, <2>2
<1> HIDE DEF up
<1>10. \A p \in Package : info[p] # NoObject /\ up.status[p] # NoObject =>
         Named(Titles(idFile'), info[p], p, up.status[p])
  BY <1>2, <1>9, NamedStays
<1>11. ASSUME NEW p \in Package, info[p] # NoObject, Stored'[p] # NoObject
       PROVE  Named(Titles(idFile'), info[p], p, Stored'[p])
  <2>1. CASE up.status = read
    <3>1. Stored' = up.status
      BY <1>1, <1>5, <2>1 DEF Stored, MapEntries
    <3> QED
      BY <1>10, <1>11, <3>1
  <2>2. CASE up.status # read
    <3>1. Stored' = MapEntries(StatusOf, MapEntries(EntryOf, up.status))
      BY <1>1, <2>2 DEF Stored, MapEntries
    <3> QED
      BY <1>10, <1>11, <3>1, WrittenStatus
  <2> QED
    BY <2>1, <2>2
<1> QED
  BY <1>1, <1>8, <1>10, <1>11 DEF StatusInv

LEMMA StatusNext ==
  Inv /\ FetchInv /\ ValidInv /\ NumbersInv /\ StatusInv /\ OldInv /\ [Next]_vars => StatusInv'
<1> SUFFICES ASSUME Inv, FetchInv, ValidInv, NumbersInv, StatusInv, OldInv, [Next]_vars
             PROVE  StatusInv'
  OBVIOUS
<1>1. idFile' = idFile => Keeps(Titles(idFile'), Titles(idFile))
  BY KeepsSame
<1>2. CASE Start
  BY <1>2, StartStatus
<1>3. CASE Stop
  <2>1. curstat' = [p \in Package |-> NoObject] /\ UNCHANGED <<idFile, statFile, info, dbVersion>>
    BY <1>3 DEF Stop
  <2>2. Stored' = Stored
    BY <2>1 DEF Stored, MapEntries
  <2> QED
    BY <2>1, <2>2 DEF StatusInv
<1>4. CASE EnvPackages \/ ClearEnvironmentOverrides \/ OverrideEnvironment
  <2>1. UNCHANGED <<idFile, statFile, info, curstat, dbVersion>>
    BY <1>4 DEF EnvPackages, ClearEnvironmentOverrides, OverrideEnvironment, CheckerChanges,
                statVars
  <2> QED
    BY <1>1, <2>1, StatusKept
<1>5. CASE \E p \in Package : Install(p) \/ Uninstall(p)
  BY <1>5, InstallStatus
<1>6. CASE \/ Begin \/ ReadSources \/ NextDownload \/ TransferEnds \/ Downloaded \/ DownloadFailed
           \/ DownloadsDone \/ SourcesBuilt
  <2>1. UNCHANGED <<idFile, statFile, info, curstat, dbVersion>>
    BY <1>6 DEF Begin, ReadSources, NextDownload, TransferEnds, Downloaded, DownloadFailed,
                DownloadsDone, SourcesBuilt, statVars
  <2> QED
    BY <1>1, <2>1, StatusKept
<1>7. CASE BuildSource \/ BuildLocal
  <2>1. UNCHANGED <<statFile, info, curstat, dbVersion>>
    BY <1>7 DEF BuildSource, BuildLocal, statVars
  <2>2. Live /\ Keeps(checker', checker)
    <3>1. CASE BuildSource
      <4>1. Live
        BY <3>1, SourceKeepsData
      <4>2. PICK records \in Seq(Record) : checker' = Built(records).checker
        BY <3>1, SourceKeepsData
      <4> QED
        BY <4>1, <4>2, BuiltTyped DEF Inv, CacheInv, TypedInv, DataInv
    <3>2. CASE BuildLocal
      <4>1. Live
        BY <3>2, LocalKeepsData
      <4>2. PICK records \in Seq(Record) :
              checker' = ReadTable(Built(records).checker, machine, Built(records).out).checker
        BY <3>2, LocalKeepsData
      <4>3. /\ Good(Built(records).checker) /\ Typed(Built(records).checker)
            /\ Built(records).out \in Seq(Record) /\ Keeps(Built(records).checker, checker)
        BY <4>1, BuiltTyped DEF Inv, CacheInv, TypedInv, DataInv
      <4>4. Keeps(checker', Built(records).checker)
        BY <4>2, <4>3, ReadTableTyped
      <4> QED
        BY <4>1, <4>3, <4>4 DEF Keeps
    <3> QED
      BY <1>7, <3>1, <3>2
  <2>3. NumbersInv'
    BY NumbersNext
  <2>4. Live'
    BY <1>7 DEF BuildSource, BuildLocal, Live
  <2>5. Keeps(Titles(idFile'), Titles(idFile))
    BY <2>2, <2>3, <2>4 DEF NumbersInv, Keeps
  <2> QED
    BY <2>1, <2>5, StatusKept
<1>8. CASE UNCHANGED vars
  <2>1. UNCHANGED <<idFile, statFile, info, curstat, dbVersion>>
    BY <1>8 DEF vars, statVars
  <2> QED
    BY <1>1, <2>1, StatusKept
<1> QED
  BY <1>2, <1>3, <1>4, <1>5, <1>6, <1>7, <1>8 DEF Next, Poll

\* The records of what is installed are written last, and are read from the file.
LEMMA LocalKnown ==
  ASSUME Inv, FetchInv, FirstsInv, ValidInv, NumbersInv, StatusInv, OldInv, BuildLocal
  PROVE  InstalledAreKnown'
<1>1. state = "build_local" /\ UNCHANGED <<curstat, info>>
  BY DEF BuildLocal, statVars
<1>2. PICK records \in Seq(Record) :
        /\ LET table == ReadTable(Built(records).checker, machine, Built(records).out)
           IN  checker' = table.checker /\ control' = table.control
        /\ Range(records) = {info[p] : p \in {q \in Package : curstat[q] # NoObject
                                                            /\ info[q] # NoObject}}
  BY LocalKeepsData
<1> DEFINE ck == Built(records).checker
           file == Built(records).out
           last == Seen(ck, machine, Range(file))
           firsts == FirstsOf(ck, written, records)
           read == FirstsOf(last, {}, file)
<1>3. /\ Live /\ Good(checker) /\ Typed(checker)
      /\ available \in Seq(Record) /\ written \subseteq Record
  BY <1>1 DEF Live, Inv, CacheInv, TypedInv, DataInv
<1>4. /\ Good(ck) /\ Typed(ck) /\ Keeps(ck, checker) /\ KnowsAll(ck, Range(records))
      /\ Extends(ck, checker) /\ file \in Seq(Record)
      /\ Range(file) = Range(available) \cup {records[i] : i \in firsts}
  BY <1>3, BuiltTyped
<1>5. checker' = last /\ control' = {file[i] : i \in read}
  BY <1>2 DEF ReadTable
<1> HIDE DEF ck, file
<1>6. Range(file) \subseteq Record
  BY <1>4, RangeFinite
<1>7. Good(last) /\ Typed(last) /\ Keeps(last, ck)
  BY <1>4, <1>6, SeenIsGood, SeenTyped
<1> HIDE DEF last
<1>8. Range(available) = written /\ KnowsAll(checker, written)
  BY <1>1 DEF FirstsInv
<1>9. KnowsAll(ck, written)
  BY <1>4, <1>8 DEF KnowsAll, Extends
<1>10. firsts \subseteq DOMAIN records
  BY DEF FirstsOf
<1> SUFFICES ASSUME NEW p \in Package, curstat[p] # NoObject, info[p] # NoObject
             PROVE  \E r \in control' : HasKey(checker', r, p, curstat[p])
  BY <1>1 DEF InstalledAreKnown
<1>11. PICK j \in DOMAIN records : records[j] = info[p]
  BY <1>2 DEF Range
<1>12. records[j] \in Record
  OBVIOUS
<1>13. PICK w \in Range(file) : SameKey(ck, records[j], w)
  <2>1. CASE \E s \in written : SameKey(ck, records[j], s)
    BY <1>4, <1>8, <2>1
  <2>2. CASE \E i \in firsts : SameKey(ck, records[j], records[i])
    BY <1>4, <2>2
  <2>3. \/ \E s \in written : SameKey(ck, records[j], s)
        \/ \E i \in firsts : i <= j /\ SameKey(ck, records[j], records[i])
    BY <1>3, FirstsCover
  <2> HIDE DEF firsts
  <2> QED
    BY <2>1, <2>2, <2>3
<1>14. SameKey(last, records[j], w)
  <2>1. KnowsAll(ck, {records[j], w})
    <3>1. \A i \in firsts : records[i] \in Range(records)
      BY <1>10 DEF Range
    <3>2. w \in written \/ w \in Range(records)
      <4> HIDE DEF firsts
      <4> QED
        BY <1>4, <1>8, <1>13, <3>1
    <3>3. records[j] \in Range(records)
      BY DEF Range
    <3> QED
      BY <1>4, <1>9, <3>2, <3>3 DEF KnowsAll
  <2> QED
    BY <1>4, <1>7, <1>13, <2>1, KeysStay
<1>15. PICK k \in DOMAIN file : file[k] = w
  BY DEF Range
<1>16. PICK i \in read : SameKey(last, file[k], file[i])
  BY <1>4, FirstsCover
<1>17. i \in DOMAIN file /\ file[i] \in Record /\ w \in Record /\ file[i] \in control'
  <2>1. read \subseteq DOMAIN file
    BY DEF FirstsOf
  <2> HIDE DEF read
  <2> QED
    BY <1>4, <1>5, <1>6, <1>13, <2>1
<1> HIDE DEF read, firsts
<1>18. SameKey(last, info[p], file[i])
  BY <1>11, <1>12, <1>14, <1>15, <1>16, <1>17, KeysAreEquivalent
<1>19. Named(last, info[p], p, curstat[p])
  <2>1. Named(Titles(idFile), info[p], p, curstat[p])
    BY DEF StatusInv
  <2>2. Keeps(last, Titles(idFile))
    BY <1>3, <1>4, <1>7 DEF NumbersInv, Keeps
  <2> QED
    BY <2>1, <2>2, NamedStays
<1>20. HasKey(last, file[i], p, curstat[p])
  <2> DEFINE own == info[p]
             r == file[i]
             key == curstat[p]
  <2>1. /\ own.pkg = p /\ Cmp(VersionOf(own), key.version) = 0 /\ EnvId(last, EnvOf(own)) = key.env
        /\ key.version \in Version
    BY <1>19 DEF Named, HasKey
  <2>2. own.pkg = r.pkg /\ Cmp(VersionOf(own), VersionOf(r)) = 0
        /\ EnvId(last, EnvOf(own)) = EnvId(last, EnvOf(r))
    BY <1>18 DEF SameKey
  <2>3. VersionOf(own) \in Version /\ VersionOf(r) \in Version
    BY <1>11, <1>12, <1>17, RecordVersion
  <2> HIDE DEF own, r, key
  <2>4. Cmp(VersionOf(r), key.version) = 0
    BY <2>1, <2>2, <2>3, SameVersion
  <2>5. HasKey(last, r, p, key)
    BY <2>1, <2>2, <2>4 DEF HasKey
  <2> QED
    BY <2>5 DEF r, key
<1> QED
  BY <1>5, <1>17, <1>20

LEMMA KnownNext ==
  /\ Inv /\ FetchInv /\ FirstsInv /\ ValidInv /\ NumbersInv /\ StatusInv /\ OldInv /\ KnownInv
  /\ [Next]_vars
  => KnownInv'
<1> SUFFICES ASSUME Inv, FetchInv, FirstsInv, ValidInv, NumbersInv, StatusInv, OldInv, KnownInv,
                    [Next]_vars
             PROVE  KnownInv'
  OBVIOUS
<1>1. ASSUME UNCHANGED <<state, info, curstat, control>>,
             checker' = checker \/ checker'.moduleIds = checker.moduleIds
      PROVE  KnownInv'
  <2>1. \A r, p, k : HasKey(checker', r, p, k) <=> HasKey(checker, r, p, k)
    <3>1. \A e : EnvId(checker', e) = EnvId(checker, e)
      BY <1>1 DEF EnvId
    <3> QED
      BY <3>1 DEF HasKey
  <2> QED
    BY <1>1, <2>1 DEF KnownInv, InstalledAreKnown
<1>2. CASE Start \/ Stop \/ Begin \/ ReadSources \/ DownloadFailed \/ DownloadsDone \/ SourcesBuilt
  BY <1>2 DEF Start, Stop, Begin, ReadSources, DownloadFailed, DownloadsDone, SourcesBuilt, KnownInv
<1>3. CASE EnvPackages
  BY <1>1, <1>3 DEF EnvPackages, statVars
<1>4. CASE ClearEnvironmentOverrides \/ OverrideEnvironment
  <2>1. UNCHANGED <<state, info, curstat, control>>
    BY <1>4 DEF ClearEnvironmentOverrides, OverrideEnvironment, CheckerChanges, statVars
  <2> QED
    BY <1>1, <1>4, <2>1, OverrideKeepsData
<1>5. ASSUME NEW p \in Package, Install(p) \/ Uninstall(p)
      PROVE  KnownInv'
  <2>1. UNCHANGED <<state, checker, control>>
    BY <1>5 DEF Install, Uninstall, StatusBecomes, tableVars
  <2> SUFFICES ASSUME state = "done", NEW q \in Package, curstat'[q] # NoObject, info'[q] # NoObject
               PROVE  \E r \in control : HasKey(checker, r, q, curstat'[q])
    BY <2>1 DEF KnownInv, InstalledAreKnown
  <2>2. DOMAIN curstat = Package /\ DOMAIN info = Package
    BY DEF StatusInv, Inv, DataInv
  <2>3. PICK k, r : /\ curstat' = [curstat EXCEPT ![p] = k] /\ info' = [info EXCEPT ![p] = r]
                    /\ k # NoObject => \E b \in control : HasKey(checker, b, p, k)
    <3>1. CASE Install(p)
      BY <3>1, InstalledNamed
    <3>2. CASE Uninstall(p)
      BY <3>2 DEF Uninstall, StatusBecomes
    <3> QED
      BY <1>5, <3>1, <3>2
  <2>4. CASE q = p
    BY <2>2, <2>3, <2>4
  <2>5. CASE q # p
    <3>1. curstat'[q] = curstat[q] /\ info'[q] = info[q]
      BY <2>2, <2>3, <2>5
    <3> QED
      BY <3>1 DEF KnownInv, InstalledAreKnown
  <2> QED
    BY <2>4, <2>5
<1>6. CASE NextDownload \/ TransferEnds \/ Downloaded
  BY <1>6 DEF NextDownload, TransferEnds, Downloaded, FetchInv, KnownInv
<1>7. CASE BuildSource
  BY <1>7 DEF BuildSource, KnownInv
<1>8. CASE BuildLocal
  BY <1>8, LocalKnown DEF KnownInv
<1>9. CASE UNCHANGED vars
  BY <1>1, <1>9 DEF vars, statVars, tableVars
<1> QED
  BY <1>2, <1>3, <1>4, <1>5, <1>6, <1>7, <1>8, <1>9 DEF Next, Poll

\* For any sources and whatever they serve, any updates that failed or were cut off,
\* restarts, upgrades of the database, packages installed and removed, and modules
\* that got numbers in between: once an update has ended well, every package that is
\* installed has its record in the catalogue, under the key that its status names
\* (update.cc:199-228, pkgbase.cc:543).
THEOREM InstalledStayKnown == UpdateSpec => []InstalledAreKnown
<1> DEFINE All == /\ Inv /\ FetchInv /\ FirstsInv
                  /\ ValidInv /\ NumbersInv /\ StatusInv /\ OldInv /\ KnownInv
<1>1. Init => All
  BY CacheInit, DataInit, WinInit, InstalledInit DEF Inv
<1>2. All /\ [Next]_vars => All'
  <2>1. All /\ [Next]_vars => Inv' /\ FetchInv' /\ FirstsInv'
    BY DataNext, FetchNext, FirstsNext DEF Inv
  <2>2. All /\ [Next]_vars => ValidInv' /\ NumbersInv' /\ StatusInv' /\ OldInv'
    BY ValidNext, NumbersNext, StatusNext, OldNext
  <2> QED
    BY <2>1, <2>2, KnownNext
<1>3. All => InstalledAreKnown
  BY DEF KnownInv, InstalledAreKnown
<1> QED
  BY <1>1, <1>2, <1>3, PTL DEF UpdateSpec
================================================================================
