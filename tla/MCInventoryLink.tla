--------------------------- MODULE MCInventoryLink ---------------------------
(* One node, two tags that get the same handle.                             *)
EXTENDS InventoryLink, TLC

Perms == Permutations(Uids)
==============================================================================
