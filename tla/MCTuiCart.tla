----------------------------- MODULE MCTuiCart -----------------------------
(* The food cart of the terminal interface on small instances. *)
EXTENDS TuiCart

Found == {TRUE}
FoundOrNot == {TRUE, FALSE}
=============================================================================
