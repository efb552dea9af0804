------------------------------- MODULE MCLists -------------------------------
(* A shopping list between two phones on which the sender goes back to the *)
(* editor with the outcome of the link it opened (MayReturn).              *)
EXTENDS Lists

MCBackScenes == {[kind |-> "einkauf", goods |-> {1, 2}, items |-> 2, links |-> 2, forget |-> FALSE]}
=============================================================================
