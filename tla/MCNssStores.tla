----------------------------- MODULE MCNssStores -----------------------------
(***************************************************************************)
(* Instances of NssStores for TLC: the directories the runs start from and *)
(* how often each disturbance may happen.                                  *)
(***************************************************************************)
EXTENDS NssStores

CONSTANTS u1, u2, srv, cli, g1

\* u1 belongs to the group by memberOf alone, u2 and the server are listed.
Populated ==
  [users |-> {u1, u2}, member |-> [g \in {g1} |-> {u2, srv}],
   memberOf |-> [u \in {u1, u2} |-> IF u = u1 THEN {g1} ELSE {}]]

\* u2 is not there yet and nobody belongs to the group.
Sparse ==
  [users |-> {u1}, member |-> [g \in {g1} |-> {}], memberOf |-> [u \in {u1, u2} |-> {}]]

Beginnings == {Populated, Sparse}

Disturb(e, o, k, f, r) == [edit |-> e, outage |-> o, kill |-> k, fail |-> f, request |-> r]
Disturbances ==
  {Disturb(1, 1, 0, 0, 0), Disturb(0, 1, 1, 0, 1), Disturb(1, 0, 1, 1, 0),
   Disturb(0, 0, 1, 1, 1), Disturb(2, 0, 0, 0, 0), Disturb(1, 0, 0, 0, 1)}
OneOutage == {Disturb(0, 1, 0, 0, 0)}
OneEdit == {Disturb(1, 0, 0, 0, 0)}

=============================================================================
