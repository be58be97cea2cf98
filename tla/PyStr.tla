------------------------------- MODULE PyStr -------------------------------
(***************************************************************************)
(* The Python str operations the analysis scripts apply to file names and  *)
(* paths, defined over TLC strings: `p in s`, s.endswith(p),               *)
(* s.replace(old, new), s.lower() and Path(s).name.                        *)
(***************************************************************************)
EXTENDS Naturals, Sequences

\* p in s
Contains(s, p) == \E i \in 0..(Len(s) - Len(p)) : SubSeq(s, i + 1, i + Len(p)) = p

\* s.endswith(p)
EndsWith(s, p) == Len(p) <= Len(s) /\ SubSeq(s, Len(s) - Len(p) + 1, Len(s)) = p

\* s.replace(old, new): every occurrence, scanning left to right.
RECURSIVE Replace(_, _, _)
Replace(s, old, new) ==
    IF Len(s) < Len(old) THEN s
    ELSE IF SubSeq(s, 1, Len(old)) = old
         THEN new \o Replace(SubSeq(s, Len(old) + 1, Len(s)), old, new)
         ELSE SubSeq(s, 1, 1) \o Replace(SubSeq(s, 2, Len(s)), old, new)

UpperCase == "ABCDEFGHIJKLMNOPQRSTUVWXYZ"
LowerCase == "abcdefghijklmnopqrstuvwxyz"

LowerChar(c) ==
    IF \E i \in 1..26 : SubSeq(UpperCase, i, i) = c
    THEN LET i == CHOOSE j \in 1..26 : SubSeq(UpperCase, j, j) = c
         IN  SubSeq(LowerCase, i, i)
    ELSE c

\* s.lower()
RECURSIVE Lower(_)
Lower(s) == IF s = "" THEN "" ELSE LowerChar(SubSeq(s, 1, 1)) \o Lower(SubSeq(s, 2, Len(s)))

\* Path(s).name: what follows the last '/'.
RECURSIVE BaseName(_)
BaseName(s) ==
    IF ~Contains(s, "/") THEN s
    ELSE LET i == CHOOSE j \in 1..Len(s) : SubSeq(s, j, j) = "/"
         IN  BaseName(SubSeq(s, i + 1, Len(s)))
=============================================================================
