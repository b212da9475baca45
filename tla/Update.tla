-------------------------------- MODULE Update --------------------------------
(***************************************************************************)
(* The catalogue of a running program: the thread that brings it up to     *)
(* date from the sources (update.cc), the tables that are read from it     *)
(* when the program starts (pkgbase.cc) and after each update, and the     *)
(* table of best records that follows them and the environment checker.    *)
(* The machine may stop at any time.  Installing and removing a package is *)
(* one step here; Commit says what it is made of.                          *)
(***************************************************************************)
EXTENDS ControlTable

CONSTANTS
  Source,           \* URLs, numbered in string order
  Served,           \* [Source -> the lists of records it may serve]
  DefaultSources,   \* the lines of the default list of sources: <<type, URL>>
  Initials,         \* the initial databases
  Machines,         \* the machines
  Overrides,        \* the <<names, modules>> the front end may ask for
  MaxUpdates,       \* bound: updates that are begun
  MaxStarts,        \* bound: times that the program starts
  MaxChanges        \* bound: packages installed or removed, and overrides

\* The origin of a record that has been read from an installed package's control file.
Local == 0

ASSUME UpdateAssumption ==
  /\ Source \subseteq Nat \ {Local}
  /\ MaxUpdates \in Nat /\ MaxStarts \in Nat /\ MaxChanges \in Nat

\* What a source serves has that source as its origin.
ASSUME RecordsAssumption ==
  /\ \A s \in Source : \A l \in Served[s] :
       l \in Seq(Record) /\ \A i \in DOMAIN l : l[i].origin = s
  /\ DefaultSources \in Seq(STRING \X Source)
  /\ \A db \in Initials :
       /\ db.choices # NoObject => db.choices \in Seq(STRING \X Source)
       /\ db.idFile # NoObject => IsNumbering(db.idFile)
       /\ db.available \in Seq(Record)
       /\ db.info \in [Package -> Record \cup {NoObject}]

\* What is installed when the program starts for the first time: a status is that of
\* the package's control file.  In a database of version 1 it is the version alone (an
\* environment that is not written is read as "u", status.cc:232), and if the catalogue
\* has a record of that version it is the package's own.
ASSUME InstalledAssumption ==
  \A db \in Initials :
    /\ \A i \in DOMAIN db.available : IsValid(VersionOf(db.available[i]))
    /\ \A p \in {q \in Package : db.info[q] # NoObject} :
         LET own    == db.info[p]
             entry  == db.statFile[p]
             titles == IF db.idFile = NoObject THEN <<>> ELSE db.idFile
         IN  /\ IsValid(VersionOf(own))
             /\ entry # NoObject =>
                  /\ own.pkg = p /\ Cmp(VersionOf(own), Parse(entry.version)) = 0
                  /\ entry.version \in Seq(Nat) /\ IsValid(Parse(entry.version))
                  /\ IF db.dbVersion < 2
                     THEN /\ entry.env = {<<"u">>}
                          /\ \A r \in Range(db.available) :
                               r.pkg = p /\ Cmp(VersionOf(r), VersionOf(own)) = 0 => EnvOf(r) = EnvOf(own)
                     ELSE /\ EnvOf(own).modules \subseteq DOMAIN titles
                          /\ entry.env = EnvId([moduleIds |-> titles], EnvOf(own))

VARIABLES
  machine,     \* the machine
  choices,     \* the user's file of sources, or NoObject
  idFile,      \* the file of module numbers, or NoObject
  available,   \* the Available file: a sequence of records
  dbVersion,   \* the number in the .Version file
  statFile,    \* the Status file: [Package -> [version : string, env : id] or NoObject]
  info,        \* the control files of installed packages
  checker,     \* the environment checker, or NoObject when the program is not running
  control,     \* _control
  best,        \* _env_packages, or NoObject before it is asked for
  curstat,     \* pkgbase::curstat()
  state,       \* update::_state, or "none"
  url,         \* _url
  dload,       \* the state of _dload, or "none"
  toDownload,  \* _sources_to_download
  toBuild,     \* _sources_to_build
  lists,       \* the downloaded lists
  written,     \* _packages_written: the records that brought the keys
  out,         \* whether _out is open
  updates, starts, changes

discVars   == <<machine, choices>>
tableVars  == <<control, best>>
statVars   == <<dbVersion, statFile, info, curstat>>
fetchVars  == <<url, dload, toDownload, lists>>
buildVars  == <<toBuild, written, out>>
counters   == <<updates, starts, changes>>
vars == <<discVars, idFile, available, statVars, checker, tableVars, state,
          fetchVars, buildVars, counters>>

Running == checker # NoObject

\* The checker as an operation leaves it, and its file, which is written again
\* whenever there is a new module.
CheckerBecomes(ck) ==
  /\ checker' = ck
  /\ idFile' = IF ck.moduleIds = checker.moduleIds THEN idFile ELSE ck.moduleIds

\* notify(): the tables that watch are rebuilt.
Notified(ck, ctrl) == IF best = NoObject THEN NoObject ELSE Rebuild(ck, ctrl)

-------------------------------------------------------------------------------
(* The program starts, changes what the machine has, and stops.            *)

StatusOf(entry) == [version |-> Parse(entry.version), env |-> entry.env]
EntryOf(status) == [version |-> Written(status.version), env |-> status.env]

MapEntries(f(_), table) ==
  [p \in Package |-> IF table[p] = NoObject THEN NoObject ELSE f(table[p])]

\* The packages whose key names no record although their control file would.
Misfiled(ck, ctrl, stat) ==
  {p \in Package : /\ stat[p] # NoObject /\ info[p] # NoObject
                   /\ ~\E r \in ctrl : HasKey(ck, r, p, stat[p])}

\* update_status_table().
UpgradeStatus(ck, ctrl, stat) ==
  LET lost == Misfiled(ck, ctrl, stat)
      seen == Seen(ck, machine, {info[p] : p \in lost})
  IN  [checker |-> seen,
       status  |-> [p \in Package |-> IF p \in lost
                      THEN [stat[p] EXCEPT !.env = EnvId(seen, EnvOf(info[p]))] ELSE stat[p]]]

\* pkgbase::pkgbase().  A program that uses the status of a database of version 1
\* gives it environments.
Start ==
  /\ ~Running /\ starts < MaxStarts
  /\ LET table == ReadTable(NewChecker(machine, idFile), machine, available)
         read  == MapEntries(StatusOf, statFile)
         up    == IF dbVersion < 2
                  THEN UpgradeStatus(table.checker, table.control, read)
                  ELSE [checker |-> table.checker, status |-> read]
     IN  /\ checker' = up.checker
         /\ idFile' = IF up.checker.moduleIds = NewChecker(machine, idFile).moduleIds
                      THEN idFile ELSE up.checker.moduleIds
         /\ control' = table.control
         /\ curstat' = up.status
         /\ statFile' = IF up.status = read THEN statFile ELSE MapEntries(EntryOf, up.status)
  /\ dbVersion' = 2
  /\ best' = NoObject
  /\ starts' = starts + 1
  /\ state' = "none" /\ dload' = "none"
  /\ UNCHANGED <<discVars, available, info, url, toDownload, lists, buildVars, updates, changes>>

\* The program ends or the machine stops: what is in memory is lost, and of what
\* was written to a file that is still open only the beginning is on the disc.
Stop ==
  /\ Running /\ starts < MaxStarts
  /\ \E n \in IF out THEN 0..Len(available) ELSE {Len(available)} :
       available' = SubSeq(available, 1, n)
  /\ checker' = NoObject /\ control' = {} /\ best' = NoObject
  /\ curstat' = [p \in Package |-> NoObject]
  /\ state' = "none" /\ url' = 0 /\ dload' = "none" /\ toDownload' = {}
  /\ toBuild' = {} /\ written' = {} /\ out' = FALSE
  /\ machine' \in Machines
  /\ UNCHANGED <<choices, idFile, dbVersion, statFile, info, lists, counters>>

\* pkgbase::env_packages() for the first time.
EnvPackages ==
  /\ Running /\ best = NoObject
  /\ best' = Rebuild(checker, control)
  /\ UNCHANGED <<discVars, idFile, available, statVars, checker, control, state,
                 fetchVars, buildVars, counters>>

Idle == Running /\ state \in {"none", "done", "fail"} /\ changes < MaxChanges

\* The watchers hear of it if anything has changed.
CheckerChanges(ck) ==
  /\ changes' = changes + 1
  /\ checker' = ck
  /\ best' = IF ck.checks = checker.checks /\ ck.moduleChecks = checker.moduleChecks
             THEN best ELSE Notified(ck, control)
  /\ UNCHANGED <<discVars, idFile, available, statVars, control, state, fetchVars, buildVars,
                 updates, starts>>

ClearEnvironmentOverrides ==
  Running /\ changes < MaxChanges /\ CheckerChanges(Cleared(checker))
OverrideEnvironment ==
  /\ Running /\ changes < MaxChanges
  /\ \E o \in Overrides : CheckerChanges(Overridden(checker, o[1], o[2]))

\* An operation of the front end has installed the best version of p, or has
\* removed p.
StatusBecomes(p, st, rec) ==
  /\ changes' = changes + 1
  /\ curstat' = [curstat EXCEPT ![p] = st]
  /\ statFile' = MapEntries(EntryOf, curstat')
  /\ info' = [info EXCEPT ![p] = rec]
  /\ UNCHANGED <<discVars, idFile, available, dbVersion, checker, tableVars, state,
                 fetchVars, buildVars, updates, starts>>

Install(p) ==
  /\ Idle /\ best # NoObject /\ best[p] # NoRecord
  /\ StatusBecomes(p, [version |-> VersionOf(best[p]), env |-> EnvId(checker, EnvOf(best[p]))],
                   [best[p] EXCEPT !.origin = Local])
Uninstall(p) == Idle /\ curstat[p] # NoObject /\ StatusBecomes(p, NoObject, NoObject)

-------------------------------------------------------------------------------
(* The update thread.                                                      *)

\* The front end makes an update.
Begin ==
  /\ Running /\ state \in {"none", "done", "fail"} /\ updates < MaxUpdates
  /\ state' = "srclist" /\ url' = 0 /\ dload' = "none" /\ toDownload' = {}
  /\ toBuild' = {} /\ written' = {} /\ out' = FALSE
  /\ updates' = updates + 1
  /\ UNCHANGED <<discVars, idFile, available, statVars, checker, tableVars, lists,
                 starts, changes>>

\* source_table::update(): the user's list if there is one, and of its lines
\* those of type "pkg".
Sources ==
  LET lines == IF choices = NoObject THEN DefaultSources ELSE choices
  IN  {l[2] : l \in {k \in Range(lines) : k[1] = "pkg"}}

ReadSources ==
  /\ state = "srclist" /\ state' = "download"
  /\ toDownload' = Sources
  /\ UNCHANGED <<discVars, idFile, available, statVars, checker, tableVars, url, dload, lists,
                 buildVars, counters>>

NextDownload ==
  /\ state = "download" /\ dload = "none" /\ toDownload # {}
  /\ url' = Min(toDownload)
  /\ dload' = "download"
  /\ lists' = [lists EXCEPT ![url'] = <<>>]
  /\ UNCHANGED <<discVars, idFile, available, statVars, checker, tableVars, state, toDownload,
                 buildVars, counters>>

\* message_callback(): the transfer is over, and has left some list or a part of it.
TransferEnds ==
  /\ dload = "download"
  /\ \/ /\ dload' = "done"
        /\ \E l \in Served[url] : lists' = [lists EXCEPT ![url] = l]
     \/ /\ dload' = "fail"
        /\ lists' = lists
  /\ UNCHANGED <<discVars, idFile, available, statVars, checker, tableVars, state, url,
                 toDownload, buildVars, counters>>

Downloaded ==
  /\ state = "download" /\ dload = "done"
  /\ dload' = "none"
  /\ toBuild' = toBuild \cup {url}
  /\ toDownload' = toDownload \ {url}
  /\ UNCHANGED <<discVars, idFile, available, statVars, checker, tableVars, state, url, lists,
                 written, out, counters>>

DownloadFailed ==
  /\ state = "download" /\ dload = "fail"
  /\ dload' = "none" /\ state' = "fail"
  /\ UNCHANGED <<discVars, idFile, available, statVars, checker, tableVars, url, toDownload,
                 lists, buildVars, counters>>

\* The Available file is opened, and so emptied.
DownloadsDone ==
  /\ state = "download" /\ dload = "none" /\ toDownload = {}
  /\ state' = "build_sources"
  /\ out' = TRUE /\ available' = <<>>
  /\ UNCHANGED <<discVars, idFile, statVars, checker, tableVars, fetchVars, toBuild, written,
                 counters>>

\* The records of a list, or of the info directory, whose keys have not been written
\* are written.
Built(records) ==
  LET seen   == Seen(checker, machine, Range(records))
      firsts == FirstsOf(seen, written, records)
  IN  [checker |-> seen,
       written |-> written \cup {records[i] : i \in firsts},
       out     |-> available \o [k \in 1..Cardinality(firsts) |-> records[Nth(firsts, k)]]]

\* A version that is not valid throws, and what is before it has been written.
BuildSource ==
  /\ state = "build_sources" /\ toBuild # {}
  /\ url' = Min(toBuild)
  /\ LET list == lists[Min(toBuild)]
         bad  == {i \in DOMAIN list : ~IsValid(VersionOf(list[i]))}
     IN  \E st \in {Built(SubSeq(list, 1, IF bad = {} THEN Len(list) ELSE Min(bad) - 1))} :
           /\ CheckerBecomes(st.checker)
           /\ written' = st.written /\ available' = st.out
           /\ IF bad = {} THEN toBuild' = toBuild \ {Min(toBuild)} /\ UNCHANGED <<state, out>>
                          ELSE state' = "fail" /\ out' = FALSE /\ UNCHANGED toBuild
  /\ UNCHANGED <<discVars, statVars, tableVars, dload, toDownload, lists, counters>>

SourcesBuilt ==
  /\ state = "build_sources" /\ toBuild = {}
  /\ state' = "build_local"
  /\ UNCHANGED <<discVars, idFile, available, statVars, checker, tableVars, fetchVars,
                 buildVars, counters>>

BuildLocal_SourcesOnly ==
  /\ state = "build_local" /\ state' = "done"
  /\ LET table == ReadTable(checker, machine, available)
     IN  /\ CheckerBecomes(table.checker)
         /\ control' = table.control
         /\ best' = Notified(table.checker, table.control)
  /\ out' = FALSE
  /\ UNCHANGED <<discVars, available, statVars, fetchVars, toBuild, written, counters>>

\* The control records of the packages in the status table are added, the file
\* is closed, and the table is read from it.
BuildLocal ==
  /\ state = "build_local" /\ state' = "done"
  /\ LET local == {p \in Package : curstat[p] # NoObject /\ info[p] # NoObject}
     IN  \E st \in {Built(SetToSeq({info[p] : p \in local}))} :
           \E table \in {ReadTable(st.checker, machine, st.out)} :
             /\ CheckerBecomes(table.checker)
             /\ written' = st.written /\ available' = st.out
             /\ control' = table.control
             /\ best' = Notified(table.checker, table.control)
  /\ out' = FALSE
  /\ UNCHANGED <<discVars, statVars, fetchVars, toBuild, counters>>

Poll == \/ ReadSources \/ NextDownload \/ Downloaded \/ DownloadFailed \/ DownloadsDone
        \/ BuildSource \/ SourcesBuilt \/ BuildLocal

-------------------------------------------------------------------------------
Init ==
  /\ \E db \in Initials :
       /\ choices = db.choices /\ idFile = db.idFile /\ available = db.available
       /\ dbVersion = db.dbVersion /\ statFile = db.statFile /\ info = db.info
  /\ machine \in Machines
  /\ checker = NoObject /\ control = {} /\ best = NoObject
  /\ curstat = [p \in Package |-> NoObject]
  /\ state = "none" /\ url = 0 /\ dload = "none" /\ toDownload = {}
  /\ toBuild = {} /\ lists = [s \in Source |-> <<>>] /\ written = {} /\ out = FALSE
  /\ updates = 0 /\ starts = 0 /\ changes = 0

Next ==
  \/ Start \/ Stop \/ EnvPackages \/ ClearEnvironmentOverrides \/ OverrideEnvironment
  \/ \E p \in Package : Install(p) \/ Uninstall(p)
  \/ Begin \/ TransferEnds \/ Poll

UpdateSpec == Init /\ [][Next]_vars

-------------------------------------------------------------------------------
\* The table of best records is right whenever it can be looked at: no record in
\* the table of control records that this machine can use is newer, or as new and
\* of a higher priority (env_packages_table.h:28-33); the order of versions is
\* that of the policy.
BestIsBest ==
  Running /\ best # NoObject =>
    \A p \in Package :
      LET usable == {r \in control : r.pkg = p /\ Usable(checker, EnvOf(r))}
      IN  IF usable = {} THEN best[p] = NoRecord
          ELSE /\ best[p] \in usable
               /\ \A r \in usable :
                    LET v == VersionOf(r)  b == VersionOf(best[p])
                    IN  ~Older(b, v)
                        /\ (Older(v, b) \/ InstallPriority(r) <= InstallPriority(best[p]))

\* Once an update has ended well, the status of every package that has a control
\* file names a record in the table, whatever interrupted updates, restarts and
\* new module numbers came before.
InstalledAreKnown ==
  state = "done" =>
    \A p \in Package : curstat[p] # NoObject /\ info[p] # NoObject =>
                         \E r \in control : HasKey(checker, r, p, curstat[p])

\* Then the table has the record of the first source that lists a key, and a local
\* record only where no source has one (update.h:37-40).
SourcesWin ==
  state = "done" =>
    /\ \A s \in Sources : \A i \in DOMAIN lists[s] :
         \E r \in control : SameKey(checker, lists[s][i], r)
    /\ \A r \in control, s \in Sources : \A j \in DOMAIN lists[s] :
         SameKey(checker, lists[s][j], r) =>
           /\ r.origin \in 1..s
           /\ r.origin = s => \E i \in 1..j : lists[s][i] = r

\* The identifier of an environment is its own, also among those that were numbered
\* by an earlier program (env_checker.h:113).
IdsIdentify ==
  Running => \A e, f \in DOMAIN checker.environments :
               EnvId(checker, e) = EnvId(checker, f) => e = f
===============================================================================
