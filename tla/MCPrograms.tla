------------------------------ MODULE MCPrograms ------------------------------
(* Inputs for the programs of Programs. *)
EXTENDS Programs, MCWordCount

(* Words of no, one, two and three letters, the last of MAX_PASSWORD; one  *)
(* is the beginning of another.  The last file does not end with a newline.*)
SomeWords == {<< >>, <<"a">>, <<"a", "b">>, <<"b", "a", "b">>}
Line(user, password) == user \o <<"colon">> \o password \o <<"newline">>
SomeFiles ==
  {<< >>,
   <<Line(<<"a", "b">>, <<"a">>), Line(<<"b", "a", "b">>, <<"b", "a", "b">>)>>,
   <<Line(<<"a">>, << >>), Line(<<"a", "b">>, <<"a", "b">>)>>,
   << <<"a", "colon", "a", "b">> >>}

(* Lines of no letter to one more than MAX_NAME; the last may lack its end.*)
FullLines == {[i \in 1 .. n+1 |-> IF i = n+1 THEN "newline" ELSE "a"] : n \in 0..3}
SomeLines ==
  {<< >>} \cup
  UNION {{Append(lines, last) : lines \in [1..n -> FullLines],
                                last \in FullLines \cup {<<"a", "b">>, <<"a", "b", "a">>}} : n \in 0..2}

(* 0 stands for a token that is no number. *)
SomeTokens == UNION {[1..n -> 0..2] : n \in 0..3}

MCNumKids == 0..3
MCSeconds == {-1, 0, 1}
MCGarbage == {0, 7}
=============================================================================
