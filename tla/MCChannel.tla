----------------------------- MODULE MCChannel -----------------------------
(* Instances of Channel: requests are interchangeable, the two names are   *)
(* not, as data.bin sorts first.                                           *)
EXTENDS Channel

Symmetry == Permutations(Request)
=============================================================================
