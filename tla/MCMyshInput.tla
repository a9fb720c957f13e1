----------------------------- MODULE MCMyshInput -----------------------------
(* Inputs for model-checking MyshInput, with MAX_STR_LEN = 2.              *)
EXTENDS MyshInput

UpTo(S, n) == UNION {[1..k -> S] : k \in 0..n}

(* Every kind of byte, up to four lines or one that is too long. *)
AllKinds == UpTo(Bytes, 4)

(* Newlines and characters only: every layout of seven bytes. *)
TextOnly == UpTo({"n", "c"}, 7)

(***************************************************************************)
(* For a pipe: every layout of five bytes, and inputs that let getchar()   *)
(* read past the newline, then read(2) go on, then a second long line      *)
(* drain what getchar() had kept.                                          *)
(***************************************************************************)
PipeInputs ==
  UpTo({"n", "c"}, 5) \cup
  { <<"c", "c", "c", "n", "c", "c", "c", "c", "c", "n">>,
    <<"c", "c", "c", "c", "n", "c", "n", "c", "c", "n">>,
    <<"c", "n", "c", "n", "c", "n", "c", "n", "e", "n">>,
    <<"c", "c", "c", "n", "n", "n", "c", "n", "c", "n">> }

(* For whole lines: both.                                                  *)
LineInputs == AllKinds \cup TextOnly
=============================================================================
