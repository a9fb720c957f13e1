--------------------------------- MODULE Text ---------------------------------
(* Operators on strings, which are sequences of characters.                *)
EXTENDS Integers, Sequences

(* The first n characters of s, or all of them; none when n is negative.   *)
Take(s, n) == [i \in 1 .. (IF n < Len(s) THEN n ELSE Len(s)) |-> s[i]]

(* The characters of s from i to before the next sep or to the end.        *)
UpToNext(s, sep, i) ==
  LET stops == {j \in i .. Len(s) + 1 : j = Len(s) + 1 \/ s[j] = sep}
  IN  SubSeq(s, i, (CHOOSE j \in stops : \A k \in stops : j <= k) - 1)
===============================================================================
