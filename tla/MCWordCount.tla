------------------------------ MODULE MCWordCount ------------------------------
(* Every file of up to five bytes, for WordCount. *)
EXTENDS WordCount

AllFiles == UNION {[1..n -> Byte] : n \in 0..5}
=============================================================================
