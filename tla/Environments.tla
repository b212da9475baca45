----------------------------- MODULE Environments -----------------------------
(***************************************************************************)
(* The environment checker (env_checker.cc, env_checks.cc): the checks     *)
(* whether this machine has what a package names, the environments that    *)
(* are conjunctions of checks, and the numbers that identify modules in    *)
(* the keys of packages.  The checker is one object; its operations are    *)
(* functions from its state to the next, and the modules that extend this  *)
(* one say when they are called.                                           *)
(***************************************************************************)
EXTENDS Integers, Sequences, FiniteSets, SequencesExt

CONSTANTS
  Unknown,    \* names of environments that this version does not know
  Spelling,   \* [Unknown -> Seq(ASCII code)]
  Module,     \* titles of modules
  OneLetter,  \* those of one letter
  NoObject    \* no checker, or no file

ASSUME EnvironmentsAssumption ==
  /\ OneLetter \subseteq Module /\ IsFiniteSet(Module) /\ IsFiniteSet(Unknown)
  /\ Spelling \in [Unknown -> Seq(33..126)]
  /\ \A titles \in SUBSET Module : NoObject \notin [titles -> Nat]

\* What the machine tells: three bits of OS_PlatformFeatures, the eight numbers
\* of four bits in MVFR0, all 0 without VFP, and the modules that are loaded.
Machine == [bit6 : BOOLEAN, bit7 : BOOLEAN, bit11 : BOOLEAN,
            mvfr0 : Seq(0..15), loaded : SUBSET Module]

-------------------------------------------------------------------------------
(* The checks.                                                             *)

Known == {"unset", "any", "arm", "arm26", "arm32", "swp", "vfp", "vfpv3"}

Detected(mc, c) ==
  CASE c = "arm"   -> mc.bit6 \/ ~mc.bit7
    [] c = "arm26" -> ~mc.bit7
    [] c = "arm32" -> mc.bit6
    [] c = "swp"   -> ~mc.bit11
    [] c = "vfp"   -> \A n \in {7, 5, 4, 2, 1, 0} : mc.mvfr0[n + 1] # 0
    [] c = "vfpv3" -> mc.mvfr0[3] = 2 \/ mc.mvfr0[2] = 2
    [] OTHER       -> TRUE

Weight(c) ==
  CASE c = "any" -> 2    [] c = "arm" -> 8  [] c = "arm26" -> 4  [] c = "arm32" -> 5
    [] c = "vfp" -> 32   [] c = "vfpv3" -> 34 [] c = "swp" -> 16 [] OTHER -> 1
ModuleWeight == 100

\* The number of an unknown name is 100 times what it was, plus the next
\* character, in 32 bits: the upper and the lower half.
UnknownNumber(c) ==
  LET next(n, ch) == LET low == n[2] * 100 + (ch - 32)
                     IN  <<(n[1] * 100 + low \div 2^16) % 2^16, low % 2^16>>
  IN  FoldLeft(next, <<0, 0>>, Spelling[c])

CheckId(c) ==
  CASE c = "unset" -> <<"u">>   [] c = "any" -> <<"a">>     [] c = "arm" -> <<"b">>
    [] c = "arm26" -> <<"b", 2>> [] c = "arm32" -> <<"b", 3>> [] c = "swp" -> <<"s">>
    [] c = "vfp" -> <<"v">>     [] c = "vfpv3" -> <<"v", 3>>
    [] OTHER -> <<"u", UnknownNumber(c)>>

-------------------------------------------------------------------------------
(* The object: checks and moduleChecks say of each check what has been     *)
(* detected and what counts, and environments whether each can be used.    *)

Env == [names : SUBSET (Known \cup Unknown), modules : SUBSET Module]

\* The environment of a package that names none.
UnsetEnv == [names |-> {"unset"}, modules |-> {}]

\* A list that is empty once it is read is checked as unset, and the titles of
\* one letter are passed over.
Normalised(e) ==
  [names |-> IF e.names = {} THEN {"unset"} ELSE e.names, modules |-> e.modules \ OneLetter]

Both(b) == [detected |-> b, available |-> b]

Usable(ck, e) == /\ \A c \in e.names : ck.checks[c].available
                 /\ \A t \in e.modules : ck.moduleChecks[t].available

EnvId(ck, e) == {CheckId(c) : c \in e.names} \cup {<<"m", ck.moduleIds[t]>> : t \in e.modules}

\* The sum of the weights is the size of a disjoint union.
Priority(e) ==
  -10000 + Cardinality(UNION {{c} \X (1..Weight(c)) : c \in e.names})
         + ModuleWeight * Cardinality(e.modules)

\* A file of module numbers: no two titles have the same one.
IsNumbering(ids) ==
  /\ DOMAIN ids \subseteq Module /\ ids \in [DOMAIN ids -> Nat]
  /\ \A t, u \in DOMAIN ids : ids[t] = ids[u] => t = u

NewChecker_KeepNext(mc, file) ==
  [checks       |-> [c \in Known |-> Both(Detected(mc, c))],
   moduleChecks |-> <<>>,
   environments |-> [e \in {UnsetEnv} |-> TRUE],
   moduleIds    |-> IF file = NoObject THEN <<>> ELSE file,
   nextId       |-> 1]

\* The file of module numbers is read; without one the numbers begin at 1.
NewChecker(mc, file) ==
  [checks       |-> [c \in Known |-> Both(Detected(mc, c))],
   moduleChecks |-> <<>>,
   environments |-> [e \in {UnsetEnv} |-> TRUE],
   moduleIds    |-> IF file = NoObject THEN <<>> ELSE file,
   nextId       |-> IF file = NoObject THEN 1 ELSE Max({0} \cup {file[t] + 1 : t \in DOMAIN file})]

\* Table f with what g has for keys that f does not have.
Added(f, g) == [k \in DOMAIN f \cup DOMAIN g |-> IF k \in DOMAIN f THEN f[k] ELSE g[k]]

\* get_module_id(): titles that are new get the next numbers, in the order in which
\* they are met, which is arbitrary here.
Numbered(ck, titles) ==
  LET new       == SetToSeq(titles \ DOMAIN ck.moduleIds)
      number(t) == ck.nextId - 1 + (CHOOSE i \in DOMAIN new : new[i] = t)
  IN  [ck EXCEPT !.moduleIds = Added(@, [t \in Range(new) |-> number(t)]),
                 !.nextId = @ + Len(new)]

\* The checks that envs need: a name that is not known is not available, and for a
\* module it is what is loaded now that decides.
WithChecks(ck, mc, envs) ==
  LET names  == UNION {e.names : e \in envs}
      titles == UNION {e.modules : e \in envs}
  IN  [Numbered(ck, titles \ DOMAIN ck.moduleChecks) EXCEPT
         !.checks = Added(@, [c \in names |-> Both(FALSE)]),
         !.moduleChecks = Added(@, [t \in titles |-> Both(t \in mc.loaded)])]

\* package_env(): the checker once the environments envs are in its table.
WithEnvs(ck, mc, envs) ==
  LET new    == envs \ DOMAIN ck.environments
      seen   == WithChecks(ck, mc, new)
  IN  [seen EXCEPT !.environments = Added(@, [e \in new |-> Usable(seen, e)])]

ResetAvailable(ck) ==
  [ck EXCEPT !.environments = [e \in DOMAIN @ |-> Usable(ck, e)]]

Cleared_NoReset(ck) ==
  [ck EXCEPT !.checks = [c \in DOMAIN @ |-> Both(@[c].detected)],
             !.moduleChecks = [t \in DOMAIN @ |-> Both(@[t].detected)]]

\* clear_environment_overrides().
Cleared(ck) ==
  ResetAvailable([ck EXCEPT !.checks = [c \in DOMAIN @ |-> Both(@[c].detected)],
                            !.moduleChecks = [t \in DOMAIN @ |-> Both(@[t].detected)]])

\* override_environment(): just these names and modules count as available.
Overridden(ck, names, mods) ==
  ResetAvailable([ck EXCEPT
    !.checks = [c \in DOMAIN @ |-> [@[c] EXCEPT !.available = c \in names]],
    !.moduleChecks = [t \in DOMAIN @ |-> [@[t] EXCEPT !.available = t \in mods]]])
===============================================================================
