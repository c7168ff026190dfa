--------------------------------- MODULE MCLink ---------------------------------
(* The limits in ticks are scaled down; their order is that of the code. *)
EXTENDS Link
=============================================================================
