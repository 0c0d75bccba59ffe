------------------------------ MODULE AclProbe ------------------------------
(***************************************************************************)
(* Whether a share's filesystem stores POSIX ACLs, and what follows from   *)
(* it: the classification of a path by mountinfo, the layered probe, the   *)
(* resolution of enable_acl, and the classification that every surface     *)
(* shows (fs_probe.rs, fs_warnings.rs, generate/directives.rs,             *)
(* acl_status.rs).                                                         *)
(*                                                                         *)
(* A path is a sequence of components.  A mountinfo line is a record with  *)
(* the mount point, the filesystem type and the noacl option.  The probe   *)
(* meets the filesystem itself: `stores` says whether it keeps ACLs, and   *)
(* `blind` whether the directory cannot be written, a tool is missing or   *)
(* the mount answers too late.                                             *)
(***************************************************************************)
EXTENDS Naturals, Sequences, FiniteSets

Verdicts == {"Capable", "Incapable", "Inconclusive"}

\* enable_acl: unset, true, false.
Modes == {"auto", "on", "off"}

\* One type stands for the filesystems on the denylist.
Denylist == {"vfat"}

acl_capable_from_mount(e) == ~e.noacl /\ e.fstype \notin Denylist

path_under_mount(path, point) == \E n \in 0 .. Len(path) : point = SubSeq(path, 1, n)

(***************************************************************************)
(* The longest mount point above the path; of several mounts on the same   *)
(* point, the last.                                                        *)
(***************************************************************************)
resolve_mount_for_path(entries, path) ==
  LET hits == {i \in DOMAIN entries : path_under_mount(path, entries[i].point)}
      Below(i, j) == \/ Len(entries[i].point) < Len(entries[j].point)
                     \/ /\ Len(entries[i].point) = Len(entries[j].point)
                        /\ i <= j
  IN {i \in hits : \A j \in hits : Below(j, i)}

NoRoot == <<"unresolved">>
UnknownCaps == [fstype |-> "unknown", noacl |-> FALSE, acl_capable |-> FALSE, root |-> NoRoot]

\* An unreadable mountinfo is the empty list: both end in the unknown class.
probe_with_root(snap, path) ==
  LET hit == resolve_mount_for_path(snap, path)
  IN IF hit = {}
     THEN UnknownCaps
     ELSE LET e == snap[CHOOSE i \in hit : TRUE]
          IN [fstype |-> e.fstype, noacl |-> e.noacl,
              acl_capable |-> acl_capable_from_mount(e), root |-> e.point]

\* The visible mounts strictly below a share that cannot store ACLs.
acl_incapable_mounts_under(snap, root) ==
  {i \in DOMAIN snap :
     /\ snap[i].point # root
     /\ path_under_mount(snap[i].point, root)
     /\ ~acl_capable_from_mount(snap[i])
     /\ \A j \in DOMAIN snap : snap[j].point = snap[i].point => j <= i}

-----------------------------------------------------------------------------
(* The probe *)

\* setfacl and getfacl on a transient file: only an entry read back is proof.
write_probe_round_trip(stores, blind) ==
  IF blind THEN "unknown" ELSE IF stores THEN "yes" ELSE "no"

\* The read sniff can only refuse: getfacl synthesizes entries from the mode.
serve_path_posix_acl_supported(stores) ==
  IF stores THEN {"yes", "unknown"} ELSE {"yes", "no", "unknown"}

verdict_from_caps(caps) == IF caps.acl_capable THEN "Inconclusive" ELSE "Incapable"

acl_probe_verdict(caps, stores, blind) ==
  IF ~caps.acl_capable
  THEN {"Incapable"}
  ELSE CASE write_probe_round_trip(stores, blind) = "yes" -> {"Capable"}
         [] write_probe_round_trip(stores, blind) = "no"  -> {"Incapable"}
         [] OTHER -> {IF r = "no" THEN "Incapable" ELSE "Inconclusive" :
                        r \in serve_path_posix_acl_supported(stores)}

-----------------------------------------------------------------------------
(* What the verdict decides *)

\* Explicit settings win; auto turns ACLs on only after proof.
compute_effective_flags_probed(mode, caps, verdict) ==
  LET enable == mode = "on" \/ (mode = "auto" /\ verdict = "Capable")
  IN [enable_acl   |-> enable,
      auto_applied |-> ~caps.acl_capable /\ mode = "auto",
      auto_enabled |-> enable /\ mode = "auto"]

\* read_access_policy: unset ("auto"), pre or post; post needs the ACL path.
compute_read_access_policy_emit(policy, eff) ==
  CASE policy = "post" /\ eff.enable_acl -> "post"
    [] policy = "auto" /\ eff.enable_acl -> "omit"
    [] OTHER -> "pre"

\* The ACL lines of an export, and the comment that explains them.
export_fs_directives(eff) ==
  [disable_acl |-> ~eff.enable_acl,
   comment |-> IF eff.enable_acl
               THEN IF eff.auto_enabled THEN "auto-enabled" ELSE "none"
               ELSE IF eff.auto_applied THEN "auto-detected" ELSE "none"]

share_acl_state_label(mode, verdict) ==
  CASE mode = "off" -> "off"
    [] mode = "on" -> IF verdict = "Capable" THEN "on"
                      ELSE IF verdict = "Inconclusive" THEN "on (unverified)"
                      ELSE "on (unsupported)"
    [] OTHER -> IF verdict = "Capable" THEN "auto (on)" ELSE "auto (off)"

(***************************************************************************)
(* The badge of a share: a limited serve root first (an unreadable         *)
(* mountinfo counts as capable here), otherwise incapable mounts inside a  *)
(* tree that serves ACLs.                                                  *)
(***************************************************************************)
share_fs_warning(snap, path, effective_enable_acl) ==
  LET limited == snap # <<>> /\ ~probe_with_root(snap, path).acl_capable
      inside == effective_enable_acl /\ acl_incapable_mounts_under(snap, path) # {}
  IN CASE limited -> "limited"
       [] ~limited /\ inside -> "submount"
       [] OTHER -> "none"

=============================================================================
