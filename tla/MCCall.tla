------------------------------- MODULE MCCall -------------------------------
(* Two endpoints, few calls. *)
EXTENDS Call, TLC

(* Both endpoints run the same code and either may dial. *)
EndpointSymmetry == Permutations({A, B})
=============================================================================
