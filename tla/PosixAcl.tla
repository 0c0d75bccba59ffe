------------------------------ MODULE PosixAcl ------------------------------
(***************************************************************************)
(* Modes and ACLs as the permission editor handles them: the ACL of a path *)
(* and its mask, the modifications that setfacl carries out, what one      *)
(* edit of the panel compiles to, which entries of a tree an apply         *)
(* reaches, and the gate in front of every ACL edit (privileged.rs, fs.rs, *)
(* permission_tree.rs).                                                    *)
(*                                                                         *)
(* Permissions are sets of bits, and one permission class stands for the   *)
(* three of a mode, the group class, which is the one the mask caps.  An   *)
(* optional value is a set with at most one member.  One named principal   *)
(* stands for all of them.                                                 *)
(***************************************************************************)
EXTENDS Naturals, Sequences, AclProbe

Bits == {"r", "w", "x"}

\* Read implies execute on directories; AclPerms::dir_r_implies_x is the same.
dir_mode_r_implies_x(mode) == IF "r" \in mode THEN mode \cup {"x"} ELSE mode

-----------------------------------------------------------------------------
(* An ACL: the access layer, and the default layer of a directory *)

Layer(group) == [group |-> group, named |-> {}, mask |-> {}]
AclTable(group) == [access |-> Layer(group), default |-> {}]

mask_of(layer) == layer.mask

\* What the named entry really grants.
effective_perms(layer) ==
  IF mask_of(layer) = {} THEN layer.named
  ELSE {p \cap m : p \in layer.named, m \in layer.mask}

\* What stat shows as the group bits of the mode, and what chmod writes: the
\* mask when there is one.
StatMode(acl) ==
  IF acl.access.mask = {} THEN acl.access.group ELSE UNION acl.access.mask

chmod(acl, mode) ==
  IF acl.access.mask = {} THEN [acl EXCEPT !.access.group = mode]
                          ELSE [acl EXCEPT !.access.mask = {mode}]

\* setfacl without -n computes the mask anew after every named entry it
\* writes or removes, and removing what is not there changes nothing.
SetLayer(layer, m) ==
  LET Recalculated(named) ==
        [layer EXCEPT !.named = named, !.mask = {layer.group \cup UNION named}]
  IN CASE m.op = "set"    -> Recalculated({m.perms})
       [] m.op = "remove" -> IF layer.named = {} THEN layer ELSE Recalculated({})
       [] m.op = "mask"   -> [layer EXCEPT !.mask = {m.perms}]

setfacl(acl, m) ==
  CASE ~m.default -> [acl EXCEPT !.access = SetLayer(@, m)]
    [] m.default /\ acl.default # {} ->
         [acl EXCEPT !.default = {SetLayer(layer, m) : layer \in @}]
    [] m.default /\ acl.default = {} /\ m.op # "remove" ->
         [acl EXCEPT !.default = {SetLayer(Layer(acl.access.group), m)}]
    [] OTHER -> acl

-----------------------------------------------------------------------------
(* What one edit of the panel compiles to *)

\* The pair: fused for the directories of the walk, literal for its files.
\* Nothing checked reads as r--.
build_acl_modification(edit, node_is_dir) ==
  LET op == CASE edit.op \in {"add", "edit", "set"} -> "set"
              [] edit.op = "delete" -> "remove"
              [] OTHER -> "mask"
      literal == IF edit.perms = {} THEN {"r"} ELSE edit.perms
      fused == IF node_is_dir THEN dir_mode_r_implies_x(literal) ELSE literal
  IN [dir  |-> [op |-> op, perms |-> fused, default |-> edit.default],
      file |-> [op |-> op, perms |-> literal, default |-> edit.default]]

KnownOp(edit) == edit.op \in {"add", "edit", "set", "delete", "mask"}

-----------------------------------------------------------------------------
(* Which entries of a tree an apply reaches *)

\* The depth budget of the walk; `deep` is deeper than any entry.
max_depth(scope, deep) ==
  CASE scope = "none" -> 0 [] scope = "single" -> 1 [] scope = "all" -> deep

should_apply_entry(kind, depth, scope) ==
  /\ kind \in {"dir", "file"}
  /\ CASE scope = "none"   -> depth = 0
       [] scope = "single" -> IF kind = "dir" THEN depth = 0 ELSE depth <= 1
       [] scope = "all"    -> TRUE

acl_entry_applies(kind, depth, scope, default_layer) ==
  /\ default_layer => kind = "dir"
  /\ should_apply_entry(kind, depth, scope)

-----------------------------------------------------------------------------
(* The gate *)

share_level_decision(mode, root_verdict) ==
  \/ mode = "on" /\ root_verdict # "Incapable"
  \/ mode = "auto" /\ root_verdict = "Capable"

\* "same": the node lies on the mount of the serve root.
acl_capability_decision(mode, root_verdict, node_verdict) ==
  /\ share_level_decision(mode, root_verdict)
  /\ node_verdict \notin {"Incapable", "Inconclusive"}

=============================================================================
