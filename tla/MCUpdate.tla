------------------------------- MODULE MCUpdate -------------------------------
(***************************************************************************)
(* Small databases and sources for Update.  Package P is offered by two    *)
(* sources for different environments, in versions that are written        *)
(* differently and are the same; Q for an environment that is not known    *)
(* and for none.  Source 3 offers P in any two versions of a set of        *)
(* strings.                                                                *)
(*   fresh: nothing there yet; one of the user's lines is not a source.    *)
(*   used: P is installed, and depends on a module that has a number.      *)
(*   old: a database of version 1, whose status has no environment.        *)
(*   order: the user has chosen source 3.                                  *)
(***************************************************************************)
EXTENDS Update

CONSTANTS P, Q, alpha, beta, X, pi

Rec(pkg, version, names, modules, priority, origin) ==
  [pkg |-> pkg, version |-> version, env |-> [names |-> names, modules |-> modules],
   priority |-> priority, origin |-> origin]

Spelt == pi :> <<112, 105>>

\* "1.0", "1.00", "1.0~1", "2-1", and one that is not a version.
V10 == <<49, 46, 48>>
V100 == V10 \o <<48>>
Vbeta == V10 \o <<126, 49>>
V2 == <<50, 45, 49>>
Bad == <<33>>

P1 == Rec(P, V10, {"arm"}, {alpha}, 0, 1)
First == {<<P1, Rec(P, Vbeta, {"any"}, {}, 0, 1), Rec(Q, V2, {pi}, {}, 0, 1)>>,
          <<Rec(Q, V10, {}, {}, 0, 1), Rec(Q, Bad, {}, {}, 0, 1)>>,
          <<Rec(P, V100, {"arm"}, {beta, X}, 0, 1), Rec(P, V10, {"arm"}, {beta}, 3, 1)>>}
Second == {<<Rec(P, V100, {"arm"}, {alpha}, 0, 2), Rec(P, V10, {"any"}, {}, 7, 2),
             Rec(P, V10, {"arm"}, {beta}, 0, 2), Rec(Q, V2, {}, {}, 0, 2)>>}

\* "", "~", "1", "a", "1a", "a10", "a9", "0:1".
Strings == <<<<>>, <<126>>, <<49>>, <<97>>, <<49, 97>>,
             <<97, 49, 48>>, <<97, 57>>, <<48, 58, 49>>>>
Ordered == UNION {{<<Rec(P, Strings[i], {"any"}, {}, 0, 3), Rec(P, Strings[j], {"arm"}, {}, 0, 3)>> :
                     i \in 1..(j - 1)} : j \in DOMAIN Strings}

Lists == 1 :> First @@ 2 :> Second @@ 3 :> Ordered
Defaults == <<<<"pkg", 1>>, <<"pkg", 2>>>>

None == [r \in Package |-> NoObject]
Fresh == [choices |-> NoObject, idFile |-> NoObject, available |-> <<>>, dbVersion |-> 1,
          statFile |-> None, info |-> None]
Used == {[choices |-> NoObject, idFile |-> alpha :> 1, available |-> a, dbVersion |-> 2,
          statFile |-> [None EXCEPT ![P] = [version |-> V10, env |-> {<<"b">>, <<"m", 1>>}]],
          info |-> [None EXCEPT ![P] = [P1 EXCEPT !.origin = Local]]] : a \in {<<>>, <<P1>>}}
Old == {[Fresh EXCEPT !.statFile = [None EXCEPT ![P] = [version |-> V10, env |-> {<<"u">>}]],
                      !.info = [None EXCEPT ![P] = [P1 EXCEPT !.origin = Local]],
                      !.available = a] : a \in {<<>>, <<P1>>}}
Order == [Fresh EXCEPT !.choices = <<<<"", 1>>, <<"pkg", 3>>>>, !.dbVersion = 2]
Databases == {Fresh, Order} \cup Old \cup Used

Zero == [i \in 1..8 |-> 0]
Vfp  == <<2, 2, 2, 0, 1, 1, 0, 1>>
Hosts == {[bit6 |-> TRUE, bit7 |-> FALSE, bit11 |-> TRUE, mvfr0 |-> Vfp, loaded |-> {beta}],
          [bit6 |-> FALSE, bit7 |-> TRUE, bit11 |-> FALSE, mvfr0 |-> Zero, loaded |-> {}]}
Wishes == {<<{"unset", "any", "arm", pi}, {alpha}>>, <<{}, {}>>}
===============================================================================
