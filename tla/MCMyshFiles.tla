------------------------------ MODULE MCMyshFiles ------------------------------
(* A tree for model-checking MyshFiles: the directory r holds a directory  *)
(* a and a link l; a holds a directory b and a file f.                     *)
EXTENDS MyshFiles

ThisName == {"r", "a", "b", "f", "l"}
ThisParent == [r |-> "none", a |-> "r", l |-> "r", b |-> "a", f |-> "a"]
ThisStart == [r |-> "dir", a |-> "dir", l |-> "link", b |-> "dir", f |-> "file"]

AnyDepth == {-1, 0, 1, 2, 3}

(* No filter, and one that lets a file and a directory through. *)
TwoFilters == {ThisName \cup Dots, {"f", "a"}}
================================================================================
