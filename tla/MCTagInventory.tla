---------------------------- MODULE MCTagInventory ----------------------------
(* Three tags the handler keeps, one more than MAX_UIDS, and one it counts   *)
(* and drops.                                                                *)
EXTENDS TagInventory

MCAipOf  == [t \in Tags |-> IF t = "card" THEN "ISO14443A" ELSE "ISO15693"]
MCUidLen == [t \in Tags |-> IF t = "card" THEN 4 ELSE 9]
==============================================================================
