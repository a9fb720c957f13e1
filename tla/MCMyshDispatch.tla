---------------------------- MODULE MCMyshDispatch ----------------------------
(* Lines for model-checking MyshDispatch.                                  *)
EXTENDS MyshDispatch

(* Names of builtins and other words, alone.                               *)
Names == {"echo", "wc", "cat", "cd", "pwd", "ls", "cdls", "nope", "exit", "x=1"}

(* Arguments of ls in every order, up to three.                            *)
LsArgs == {"--rec", "--d", "--f", "1", "-1", "dir"}
LsLines == {<<"ls">> \o args : args \in UNION {[1..n -> LsArgs] : n \in 0..3}}

(* Lines of one to four tokens, to leave something in the slots.           *)
OtherLines == {<< >>, <<"echo", "a">>, <<"echo", "a", "a", "a">>, <<"wc", "a", "a">>}

AllLines == LsLines \cup OtherLines \cup {<<w>> : w \in Names}
AllWords == LsArgs \cup Names \cup {"a"}

(* A few, for the milestones whose blocks grow with every line.            *)
FewLines ==
  OtherLines \cup {<<w>> : w \in Names} \cup
  { <<"ls", "--rec", "--d", "1">>, <<"ls", "dir", "--f", "a">>, <<"ls", "--f">>,
    <<"ls", "dir", "--d", "1">> }
===============================================================================
