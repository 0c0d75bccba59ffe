---------------------------- MODULE MCSupervisor ----------------------------
(***************************************************************************)
(* Instances of Supervisor for TLC: the deployments the runs start from.   *)
(***************************************************************************)
EXTENDS Supervisor

InContainer == {[host |-> FALSE, navahi |-> FALSE]}
Advertised == {[host |-> FALSE, navahi |-> TRUE]}
EitherMode == {[host |-> FALSE, navahi |-> FALSE], [host |-> TRUE, navahi |-> FALSE]}

=============================================================================
