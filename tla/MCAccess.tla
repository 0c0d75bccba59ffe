------------------------------ MODULE MCAccess ------------------------------
(***************************************************************************)
(* Access for TLC: two tabs on the wizard, then two browsers that are      *)
(* interchangeable.                                                        *)
(***************************************************************************)
EXTENDS Access, TLC

CONSTANTS b1, b2

Alike == Permutations({b1, b2})
Filled == [parses |-> TRUE, rest |-> TRUE, uri |-> "u1", creds |-> "c1"]

=============================================================================
