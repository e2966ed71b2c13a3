------------------------------ MODULE MCQuery ------------------------------
(* A dataset of rank 2 whose axes are named. *)
EXTENDS Query

MCNames == <<"y", "x">>
=============================================================================
