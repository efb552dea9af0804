------------------------------ MODULE MCCollab ------------------------------
(* Small sessions of Collab. *)
EXTENDS Collab, TLC

CONSTANTS x, y

MCValues == {x, y}

(* The two values are interchangeable. *)
ValueSymmetry == Permutations(MCValues)
=============================================================================
