------------------------------ MODULE MCWindows ------------------------------
(* Windows with the places of three windows, each of which overlaps the next. *)
EXTENDS Windows

ThreePlaces == <<<<0, 0>>, <<1, 0>>, <<2, 0>>>>
==============================================================================
