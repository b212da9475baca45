------------------------------- MODULE Versions -------------------------------
(***************************************************************************)
(* Package versions (version.cc): what a version string is split into, how *)
(* it is written again, and how two versions are compared.  A string is a  *)
(* sequence of ASCII codes.                                                *)
(***************************************************************************)
EXTENDS Integers, Sequences, SequencesExt

IsDigit(c) == c \in 48..57
IsAlpha(c) == c \in 65..90 \cup 97..122
IsAlnum(c) == IsDigit(c) \/ IsAlpha(c)
Plus  == 43
Minus == 45
Dot   == 46
Colon == 58
Tilde == 126
NUL   == 0

-------------------------------------------------------------------------------
(* Strings to versions and back.                                           *)

\* The first colon ends the epoch, and the last minus sign after it begins the
\* package version.
Parse(s) ==
  LET colons == {i \in DOMAIN s : s[i] = Colon}
      first  == IF colons = {} THEN 1 ELSE Min(colons) + 1
      minus  == {i \in first..Len(s) : s[i] = Minus}
      last   == IF minus = {} THEN Len(s) ELSE Max(minus) - 1
  IN  [epoch    |-> IF colons = {} THEN <<>> ELSE SubSeq(s, 1, first - 2),
       upstream |-> SubSeq(s, first, last),
       package  |-> IF minus = {} THEN <<>> ELSE SubSeq(s, last + 2, Len(s))]

\* Any other version throws a parse error.
IsValid(v) ==
  /\ \A i \in DOMAIN v.epoch : IsDigit(v.epoch[i])
  /\ \A i \in DOMAIN v.upstream :
       IsAlnum(v.upstream[i]) \/ v.upstream[i] \in {Plus, Minus, Dot, Tilde, Colon}
  /\ \A i \in DOMAIN v.package :
       IsAlnum(v.package[i]) \/ v.package[i] \in {Plus, Dot, Tilde}

\* A colon or a minus sign in the upstream version asks for another one.
Written(v) ==
  (IF v.epoch # <<>> \/ Contains(v.upstream, Colon) THEN Append(v.epoch, Colon) ELSE <<>>)
    \o v.upstream
    \o (IF v.package # <<>> \/ Contains(v.upstream, Minus)
        THEN <<Minus>> \o v.package ELSE <<>>)

-------------------------------------------------------------------------------
(* Comparing: the result is 0, or -1 or +1.                                *)

Sign(less) == IF less THEN -1 ELSE 1
OrElse(cmp, next) == IF cmp # 0 THEN cmp ELSE next

\* A tilde sorts before the end of the segment, which sorts before letters, and
\* these sort before the rest.
CmpChar(l, r) ==
  IF l = r THEN 0
  ELSE IF Tilde \in {l, r} THEN Sign(l = Tilde)
  ELSE IF NUL \in {l, r} THEN Sign(l = NUL)
  ELSE Sign(IF IsAlpha(l) # IsAlpha(r) THEN IsAlpha(l) ELSE l < r)

At(s, i) == IF i \in DOMAIN s THEN s[i] ELSE NUL
Differ(l, r) == {i \in DOMAIN l \cup DOMAIN r : At(l, i) # At(r, i)}

CmpLex(l, r) ==
  LET d == Differ(l, r)
  IN  IF d = {} THEN 0 ELSE CmpChar(At(l, Min(d)), At(r, Min(d)))

StripZeros(s) ==
  LET d == {i \in DOMAIN s : s[i] # 48}
  IN  IF d = {} THEN <<>> ELSE SubSeq(s, Min(d), Len(s))

\* Two numerals of any length.
CmpNum(l, r) ==
  LET x == StripZeros(l)
      y == StripZeros(r)
      d == Differ(x, y)
  IN  IF Len(x) # Len(y) THEN Sign(Len(x) < Len(y))
      ELSE IF d = {} THEN 0 ELSE Sign(x[Min(d)] < y[Min(d)])

\* Where the run of digits, or of other characters, that begins at i ends.
RunEnd(s, i, digits) ==
  Min({j \in i..Len(s) : IsDigit(s[j]) # digits} \cup {Len(s) + 1})

\* The k-th number of a finite set.
Nth(S, k) == CHOOSE i \in S : Cardinality({j \in S : j <= i}) = k

\* Segments without and with digits alternate, and the first one is without.
Starts(s) == {i \in DOMAIN s : i = 1 \/ (IsDigit(s[i - 1]) /\ ~IsDigit(s[i]))}

\* The k-th pair of segments: empty ones after the end.
Segments(s, k) ==
  LET i == Nth(Starts(s), k)
      p == RunEnd(s, i, FALSE)
  IN  IF k > Cardinality(Starts(s)) THEN <<<<>>, <<>>>>
      ELSE <<SubSeq(s, i, p - 1), SubSeq(s, p, RunEnd(s, p, TRUE) - 1)>>

CmpPair(x, y) == OrElse(CmpLex(x[1], y[1]), CmpNum(x[2], y[2]))

CmpVerstr(l, r) ==
  LET cmp(k) == CmpPair(Segments(l, k), Segments(r, k))
      d == {k \in DOMAIN l \cup DOMAIN r : cmp(k) # 0}
  IN  IF d = {} THEN 0 ELSE cmp(Min(d))

Cmp(v, w) ==
  OrElse(CmpNum(v.epoch, w.epoch),
  OrElse(CmpVerstr(v.upstream, w.upstream), CmpVerstr(v.package, w.package)))

-------------------------------------------------------------------------------
(* What the order is to be (the policy that version.h names): a version    *)
(* string is a list of numbers, compared from the front.  A character      *)
(* without digits is its rank, the end of such a segment has a rank of its *)
(* own, and a numeral is its value; a list that ends goes on with empty    *)
(* segments and zeros.                                                     *)

EndRank == 1
Rank(c) == CASE c = Tilde -> 0 [] IsAlpha(c) -> c [] OTHER -> 128 + c

NumValue(s) == FoldLeft(LAMBDA n, c : 10 * n + (c - 48), 0, s)

OrderList(s) ==
  LET list[i \in 1..(Len(s) + 1)] ==
        LET p == RunEnd(s, i, FALSE)  q == RunEnd(s, p, TRUE)
        IN  IF i > Len(s) THEN <<>>
            ELSE [k \in 1..(p - i) |-> Rank(s[i + k - 1])]
                   \o <<EndRank, NumValue(SubSeq(s, p, q - 1))>> \o list[q]
  IN  list[1]

\* What comes after the end of a list: empty segments and zeros.
Extended(x, i) == IF i \in DOMAIN x THEN x[i] ELSE (i - Len(x)) % 2

ListBefore(x, y) ==
  LET d == {i \in DOMAIN x \cup DOMAIN y : Extended(x, i) # Extended(y, i)}
  IN  d # {} /\ Extended(x, Min(d)) < Extended(y, Min(d))

OlderStr(s, t) == ListBefore(OrderList(s), OrderList(t))
SameStr(s, t)  == ~OlderStr(s, t) /\ ~OlderStr(t, s)

\* v is an older version than w.
Older(v, w) ==
  \/ NumValue(v.epoch) < NumValue(w.epoch)
  \/ /\ NumValue(v.epoch) = NumValue(w.epoch)
     /\ \/ OlderStr(v.upstream, w.upstream)
        \/ SameStr(v.upstream, w.upstream) /\ OlderStr(v.package, w.package)
===============================================================================
