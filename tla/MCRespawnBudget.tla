--------------------------- MODULE MCRespawnBudget ---------------------------
(***************************************************************************)
(* Instance of RespawnBudget for TLC: two services, visited in this order, *)
(* so that a slow respawn of the first delays the second.                  *)
(***************************************************************************)
EXTENDS RespawnBudget

MCOrder == <<"idhelper", "ganesha">>
MCServices == {"idhelper", "ganesha"}

=============================================================================
