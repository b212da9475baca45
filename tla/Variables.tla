------------------------------- MODULE Variables -------------------------------
(***************************************************************************)
(* The system variables and the sprites that packages bring (sysvars.cc,   *)
(* sprite_pool.cc).  A package that wants a variable has a file of its     *)
(* name in the directory SysVars, and one that wants a sprite shown a file *)
(* in Sprites that says where it is; a text is a sequence of characters    *)
(* and references to logical paths (PathTable!Resolved).                   *)
(***************************************************************************)
EXTENDS PathTable

\* The value of a variable that a program computes.
Output(name) == <<[out |-> name]>>

Static(f)  == f.type \in {"data", "text"}
Dynamic(f) == f.type \in {"obey", "absolute", "basic", "utility", "command"}

\* Whether a reference in one of the texts has no place.
Unresolved(table, files) == \E f \in files : Resolved(table, f.text) = NoPath

\* The values that update_sysvars() sets and writes to its file.  A file of data is
\* read once more as text, as its case has no break; programs come last, and the ones
\* that fail leave what is there.
SysvarValues(table, files, failing) ==
  LET static == {f \in files : Static(f)}
      ran    == {f \in files \ failing : Dynamic(f)}
  IN  [n \in {f.name : f \in static \cup ran} |->
         IF \E f \in ran : f.name = n THEN Output(n)
         ELSE Resolved(table, (CHOOSE f \in static : f.name = n).text)]

SysvarsFile(table, files, failing) ==
  [apps |-> Lookup(table, <<"Apps">>, ""), values |-> SysvarValues(table, files, failing)]

-------------------------------------------------------------------------------
(* Sprites.                                                                *)

SuffixList == <<"11", "22", "">>

\* The suffix that copy_sprite() takes for sprites that exist with some suffixes: the
\* first that there is, or the empty one.
ChosenSuffix(n, there) ==
  LET found == {i \in n..Len(SuffixList) : SuffixList[i] \in there}
  IN  IF found = {} THEN "" ELSE SuffixList[Min(found)]

\* build_sprite_file() for the list of suffixes from n: the sprites that can be copied,
\* where there says in which places there are sprites with which suffix.
SpriteFile(n, table, files, there) ==
  LET place(f)  == Resolved(table, f.text)
      suffix(f) == ChosenSuffix(n, {x \in ToSet(SuffixList) : <<place(f), x>> \in there})
  IN  {<<f.name, place(f), suffix(f)>> : f \in {g \in files : <<place(g), suffix(g)>> \in there}}

\* update_sprite_pool(): one file for each suffix; a file without sprites is deleted.
SpritePool(table, files, there) ==
  [i \in DOMAIN SuffixList |-> SpriteFile(i, table, files, there)]
===============================================================================
