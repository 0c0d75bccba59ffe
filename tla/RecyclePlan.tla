----------------------------- MODULE RecyclePlan -----------------------------
(***************************************************************************)
(* recycle_plan.rs and the decision functions of startup.rs: the pure      *)
(* functions that turn what changed, and what is pending, into what the    *)
(* supervisor does next.                                                   *)
(***************************************************************************)

GaneshaAction == {"Skip", "Sighup", "StopStart"}
WebuiAction == {"Skip", "Reload", "Restart"}

\* ServiceRecyclePlan.  The identity_staged field only selects a log line and
\* is left out.
ServiceRecyclePlan ==
  [ganesha : GaneshaAction, restart_sssd : BOOLEAN, restart_idhelper : BOOLEAN,
   webui : WebuiAction, restart_avahi : BOOLEAN]

\* Slip: a delta of the shares alone does not reach the WebUI.
plan_from_changes_ExportsOnly(exports, shares, host, running) ==
  [ganesha |-> IF host \/ ~exports THEN "Skip"
               ELSE IF running THEN "Sighup" ELSE "StopStart",
   restart_sssd |-> FALSE, restart_idhelper |-> FALSE,
   webui |-> IF exports THEN "Reload" ELSE "Skip", restart_avahi |-> FALSE]

\* Slip: the plan is not scoped, a SIGHUP bounces the identity daemons.
plan_from_changes_Unscoped(exports, shares, host, running) ==
  [ganesha |-> IF host \/ ~exports THEN "Skip"
               ELSE IF running THEN "Sighup" ELSE "StopStart",
   restart_sssd |-> TRUE, restart_idhelper |-> TRUE,
   webui |-> IF exports \/ shares THEN "Reload" ELSE "Skip", restart_avahi |-> FALSE]

\* The scoped plan of a SIGHUP, from the fingerprints that moved.
plan_from_changes(exports, shares, host, running) ==
  [ganesha |-> IF host \/ ~exports THEN "Skip"
               ELSE IF running THEN "Sighup" ELSE "StopStart",
   restart_sssd |-> FALSE,
   restart_idhelper |-> FALSE,
   webui |-> IF exports \/ shares THEN "Reload" ELSE "Skip",
   restart_avahi |-> FALSE]

\* The plan of a SIGUSR1, and of a SIGHUP before the services are up.
plan_full_recycle(host) ==
  [ganesha |-> IF host THEN "Skip" ELSE "StopStart",
   restart_sssd |-> TRUE,
   restart_idhelper |-> TRUE,
   webui |-> "Restart",
   restart_avahi |-> TRUE]

ganesha_sighup_failed(plan) ==
  IF plan.ganesha = "Sighup" THEN [plan EXCEPT !.ganesha = "StopStart"] ELSE plan

\* `ready` stands for step == StartupStep::Ready.
should_bring_up_services(started, wizard_complete, ready) ==
  ~started /\ wizard_complete /\ ready

\* The job one tick of the loop takes on.  Both flags were consumed.
supervisor_loop_tick(started, sighup, full, wizard_complete, ready) ==
  LET cold == should_bring_up_services(started, wizard_complete, ready)
  IN IF full THEN (IF cold THEN "bringup" ELSE "full")
     ELSE IF sighup THEN "sighup"
     ELSE IF cold THEN "bringup" ELSE "idle"

=============================================================================
