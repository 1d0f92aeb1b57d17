------------------------------- MODULE MCT1Link -------------------------------
(* T1Link with two nodes on the bus (interchangeable).                      *)
EXTENDS T1Link, TLC

Perms == Permutations(Nodes)
===============================================================================
