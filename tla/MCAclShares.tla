---------------------------- MODULE MCAclShares -----------------------------
(***************************************************************************)
(* Instances of AclShares for TLC.  Units of 180 s: 180 s between ticks,   *)
(* 300 s and 30 s of lifetime, 600 s between recycles, rounded so that     *)
(* their order is kept.                                                    *)
(***************************************************************************)
EXTENDS AclShares

\* Share b lies inside share a.
ShareOrder == <<"a", "b">>
Paths == [s \in {"a", "b"} |-> IF s = "a" THEN <<"export">> ELSE <<"export", "b">>]
Policies == [s \in {"a", "b"} |-> IF s = "a" THEN "post" ELSE "auto"]
MountPoints == {<<>>, <<"export">>, <<"export", "b">>}
Edits == {[s \in {"a", "b"} |-> IF s = "a" THEN "auto" ELSE m] : m \in {"on", "off"}}

=============================================================================
