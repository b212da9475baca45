------------------------------- MODULE PathTable -------------------------------
(***************************************************************************)
(* The table that maps logical paths, as they are in a package's archive,  *)
(* to places on the disc (path_table.cc), and the conversions of physical  *)
(* paths that it rests on (filesystem.cc).  A path is the sequence of its  *)
(* leaf names, and a table is a function from logical paths to stored      *)
(* ones; <<>> is the empty destination.                                    *)
(***************************************************************************)
EXTENDS Integers, Sequences, FiniteSets, SequencesExt

CONSTANTS
  Leaf,       \* leaf names
  BootDrive,  \* the canonical path of <Boot$Dir>.^
  Aliased,    \* [leaf names that begin with "!Boot" or "!System" -> the same without "!"]
  Defaults,   \* the table of default paths
  ToBe,       \* the paths ToBeLoaded and ToBeTasks of this version of RISC OS
  NoPath      \* what an exception leaves in the place of a path


\* The leaf names that stand for the boot drive and for the package's name.
BootRelative == "<Boot$Dir>.^"
PkgName == "@"

ASSUME PathTableAssumption ==
  /\ BootRelative \in Leaf
  /\ BootDrive \in Seq(Leaf) \ {<<>>} /\ BootDrive[1] # BootRelative
  /\ NoPath \notin DOMAIN Aliased

-------------------------------------------------------------------------------
(* Physical paths.                                                         *)

Canonicalise(path) ==
  IF path # <<>> /\ path[1] = BootRelative THEN BootDrive \o Tail(path) ELSE path

BootDriveRelative(path) ==
  IF IsStrictPrefix(BootDrive, path)
  THEN <<BootRelative>> \o SubSeq(path, Len(BootDrive) + 1, Len(path)) ELSE path

-------------------------------------------------------------------------------
(* Looking up.                                                             *)

Unaliased(src) ==
  IF src # <<>> /\ src[1] \in DOMAIN Aliased THEN <<Aliased[src[1]]>> \o Tail(src) ELSE src

Named(dst, pkg) == [i \in DOMAIN dst |-> IF dst[i] = PkgName THEN pkg ELSE dst[i]]

\* The lengths of the prefixes of src that the table has.
Matches(table, src) == {n \in DOMAIN src : SubSeq(src, 1, n) \in DOMAIN table}

\* operator().  The search steps back over an entry whose destination is empty, and
\* ends there all the same: what is after the shorter prefix is the path, and if
\* there is no shorter one the library throws.
Lookup(table, path, pkg) ==
  LET src == Unaliased(path)
      n   == Max(Matches(table, src))
      dst == table[SubSeq(src, 1, n)]
  IN  CASE Matches(table, src) = {} -> NoPath
        [] Matches(table, src) # {} /\ dst # <<>> ->
             Canonicalise(Named(dst, pkg) \o SubSeq(src, n + 1, Len(src)))
        [] Matches(table, src) # {} /\ dst = <<>> /\ n > 1 -> SubSeq(src, n, Len(src))
        [] OTHER -> NoPath

\* resolve_pathrefs(): the text is a sequence of characters and references; the
\* character after a "|" is taken literally.
IsRef(x) == DOMAIN x = {"ref"}
EscapedAt(text, i) ==
  LET bars == {j \in 1..i - 1 : \A k \in j..i - 1 : text[k] = [chr |-> "|"]}
  IN  Cardinality(bars) % 2 = 1

Resolved(table, text) ==
  LET refs == {i \in DOMAIN text : IsRef(text[i]) /\ ~EscapedAt(text, i)}
  IN  IF \E i \in refs : Lookup(table, text[i].ref, "") = NoPath THEN NoPath
      ELSE [i \in DOMAIN text |->
              IF i \in refs THEN [path |-> Lookup(table, text[i].ref, "")] ELSE text[i]]

-------------------------------------------------------------------------------
(* Changing.                                                               *)

Altered(table, src, dst) == (src :> dst) @@ table

\* A table of an early version may have "!Boot" in the place of "Boot".
WithoutOldBoot(table) ==
  IF <<"!Boot">> \in DOMAIN table
  THEN LET rest == [s \in DOMAIN table \ {<<"!Boot">>} |-> table[s]]
       IN  Altered(rest, <<"Boot">>, table[<<"!Boot">>])
  ELSE table

\* ensure_defaults().  What the table has stays, except that both paths that depend
\* on the version are set if one of them is missing.
WithDefaults(table) ==
  LET t == WithoutOldBoot(table)
  IN  (IF <<"ToBeLoaded">> \in DOMAIN t THEN t ELSE ToBe @@ t) @@ Defaults

\* The lines of the file, as <<source, destination>>: of two for one source it is the
\* later one that counts.
ReadPaths(lines) ==
  [s \in {lines[i][1] : i \in DOMAIN lines} |->
     lines[Max({i \in DOMAIN lines : lines[i][1] = s})][2]]
===============================================================================
