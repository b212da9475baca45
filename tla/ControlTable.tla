----------------------------- MODULE ControlTable -----------------------------
(***************************************************************************)
(* The table of control records (binary_control_table.cc) and the best     *)
(* record of each package for this machine (env_packages_table.cc).        *)
(***************************************************************************)
EXTENDS Environments, Versions

CONSTANTS
  Package,    \* names of packages
  NoRecord    \* no entry in the table of best records

ASSUME ControlTableAssumption == IsFiniteSet(Package)

\* A control record: its version as it is written, the names in its Environment
\* and OSDepends fields, its InstallPriority or 0, and where it comes from.
Record == [pkg : Package, version : Seq(Nat), env : Env, priority : Int, origin : Nat]

VersionOf(r) == Parse(r.version)
EnvOf(r) == Normalised(r.env)
InstallPriority(r) == IF r.priority # 0 THEN r.priority ELSE Priority(EnvOf(r))

\* Whether two records have the same key in the checker's terms.
SameKey(ck, r, s) ==
  /\ r.pkg = s.pkg /\ Cmp(VersionOf(r), VersionOf(s)) = 0
  /\ EnvId(ck, EnvOf(r)) = EnvId(ck, EnvOf(s))

\* A key as a status has it: the version and the environment of package p.
HasKey(ck, r, p, k) ==
  /\ r.pkg = p /\ Cmp(VersionOf(r), k.version) = 0 /\ EnvId(ck, EnvOf(r)) = k.env

\* Looking keys up makes the environments of the records known to the checker.
Seen(ck, mc, records) == WithEnvs(ck, mc, {EnvOf(r) : r \in records})

FirstsOf_Last(ck, known, file) ==
  {i \in DOMAIN file : /\ ~\E s \in known : SameKey(ck, file[i], s)
                       /\ ~\E j \in i + 1..Len(file) : SameKey(ck, file[i], file[j])}

\* The records of a file that are the first with their key, and whose key known
\* does not have.
FirstsOf(ck, known, file) ==
  {i \in DOMAIN file : /\ ~\E s \in known : SameKey(ck, file[i], s)
                       /\ ~\E j \in 1..i - 1 : SameKey(ck, file[i], file[j])}

\* binary_control_table::update(): the table is what the file says.
ReadTable(ck, mc, file) ==
  LET seen == Seen(ck, mc, Range(file))
  IN  [checker |-> seen, control |-> {file[i] : i \in FirstsOf(seen, {}, file)}]

\* Whether rebuild() puts r in the place of b.
Replaces(r, b) ==
  LET cmp == Cmp(VersionOf(r), VersionOf(b))
  IN  cmp > 0 \/ (cmp = 0 /\ InstallPriority(r) > InstallPriority(b))

\* env_packages_table::rebuild().  Records that are equally good are told apart
\* by the order of their keys, which is arbitrary here.
Rebuild(ck, control) ==
  [p \in Package |->
     LET usable == {r \in control : r.pkg = p /\ ck.environments[EnvOf(r)]}
     IN  IF usable = {} THEN NoRecord
         ELSE CHOOSE r \in usable : \A s \in usable : ~Replaces(s, r)]
===============================================================================
