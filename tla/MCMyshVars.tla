----------------------------- MODULE MCMyshVars ------------------------------
(* Lines for model-checking MyshVars.                                      *)
EXTENDS MyshVars

SomeChars == {"a", "b", "x", "y", "=", "$", " "}

(***************************************************************************)
(* Definitions, redefinitions by a value that refers to the name itself,   *)
(* names one of which is a prefix of the other, values that begin with     *)
(* "=", unknown names, a "$" with no name, no value at all.                *)
(***************************************************************************)
SomeAssignments ==
  { <<"x", "=", "a">>, <<"x", "=", "$", "x", "$", "x">>, <<"y", "=", "b", "$", "x">>,
    <<"y", "=", "=">>, <<"x", "x", "=", "$", "y">>, <<"x", "=">> }

(* echo with nothing, one word or two. *)
SomeEchoes ==
  { << >>, << <<"$", "y", "$", "x">>, <<"$">> >>, << <<"a", "$", "x">>, <<"$", "x", "x">> >>,
    << <<"$", "$", "y">>, <<"a", "$">> >>, << <<"b", "$", "$", "x", "$", "y">> >> }

(* Two variables, and echo of both in one word as in the tests. *)
TwoNames == {<<"x", "=", "a">>, <<"y", "=", "b">>, <<"y", "=", "$", "x">>}
TestEcho == {<< <<"$", "x", "$", "y">>, <<"$", "x">> >>}
===============================================================================
