------------------------------ MODULE Supervisor ------------------------------
(***************************************************************************)
(* The pid-1 supervisor (nfs-klldap-config/src/supervisor): the boot, the  *)
(* loop, the SIGHUP and SIGUSR1 handlers, the bring-up after the setup     *)
(* wizard, the idle pass that revives dead children, and the shutdown,     *)
(* interleaved with configuration saves, signals and children that exit.   *)
(*                                                                         *)
(* A handler is split into the phases between which the outside world can  *)
(* act; `pc` names the next phase.  Configuration contents and derived     *)
(* files are abstracted to versions, so a fingerprint is the version       *)
(* itself.  A service is the process the supervisor tracks for it (none,   *)
(* live, or dead but still tracked), the version that process works from,  *)
(* and the number of live processes of that service it no longer tracks.   *)
(***************************************************************************)
EXTENDS Naturals, Sequences, RecyclePlan

CONSTANTS
  Versions,    \* contents a part of the configuration can take
  Deployments, \* the initial settings of the switches: records [host, navahi]
  Editable,    \* parts of nfs-klldap.conf that saves change
  Revert,      \* whether a save may restore earlier contents
  Crashable,   \* services that may exit on their own
  Faults,      \* the steps that may go wrong
  MaxStray     \* bound: untracked survivors per service

Parts == {"exports", "shares", "identity", "adverts"}
Switches == {"host", "navahi"}
Services == {"dbus", "sssd", "idhelper", "watcher", "webui", "ganesha", "avahi"}

\* generate: the generator exits with an error, having written some of its
\*   files; hook: a post-generate hook or the configuration load fails;
\* hang: the generator or a hook does not return;
\* warm: the identity warm-up before Ganesha fails; spawn: a fork or exec
\*   fails; fork: ganesha.nfsd re-executes itself under another pid;
\* survive: a process outlives SIGKILL (uninterruptible I/O);
\* restart: the container is stopped, or killed, and started again.
FaultKinds == {"generate", "hook", "hang", "warm", "spawn", "fork", "survive", "restart"}

ASSUME SupervisorAssumption ==
  /\ Versions \subseteq Nat /\ 0 \in Versions
  /\ Deployments \subseteq [Switches -> BOOLEAN]
  /\ Editable \subseteq Parts \union Switches
  /\ Crashable \subseteq Services
  /\ Revert \in BOOLEAN
  /\ Faults \subseteq FaultKinds
  /\ MaxStray \in Nat

VARIABLES
  conf,        \* nfs-klldap.conf
  disk,        \* the derived files: identity, export fragments, adverts
  unsignaled,  \* conf was saved and nobody has signalled pid 1 since
  hup, usr1, term,   \* SIGHUP_REQUESTED, FULL_RECYCLE_REQUESTED, SHUTDOWN_REQUESTED
  wizard,      \* the setup-wizard-complete marker exists
  marker,      \* the recycle marker exists
  procs,       \* procs[s]: the state of service s
  started,     \* services_started
  hostMode,    \* env.host_nfs_mode
  lastShares,  \* last_shares_fingerprint
  pc, job,     \* the next phase, of which job
  before,      \* the fingerprints taken before generate ran
  plan,        \* the recycle plan being executed
  belt,        \* avahi_changed: HUP avahi at the end of the handler
  needWatcher, \* need_watcher
  cursor,      \* the service the idle pass looks at
  outcome,     \* history: result of the last job
  excused      \* history: a logged failure kept Ganesha from the last exports

confVars == <<conf, unsignaled>>
sigVars == <<hup, usr1, term>>
fileVars == <<wizard, marker>>
memVars == <<started, hostMode, lastShares>>
flowVars == <<before, plan, belt, needWatcher, cursor>>
histVars == <<outcome, excused>>
vars == <<conf, disk, unsignaled, hup, usr1, term, wizard, marker, procs, started,
          hostMode, lastShares, pc, job, before, plan, belt, needWatcher, cursor,
          outcome, excused>>

-----------------------------------------------------------------------------
(***************************************************************************)
(* The process table.                                                      *)
(***************************************************************************)

Process == [st : {"none", "live", "dead"}, loaded : Versions,
            stray : Nat, managed : BOOLEAN]

Live(p, s) == p[s].st = "live"

\* The configuration a service works from once it (re)starts: Ganesha, SSSD
\* and avahi read derived files, the WebUI and the idhelper read
\* nfs-klldap.conf themselves.
Reads(s) == CASE s = "ganesha" -> disk.exports
              [] s = "sssd" -> disk.identity
              [] s = "avahi" -> disk.adverts
              [] s = "idhelper" -> conf.identity
              [] s = "webui" -> conf.shares
              [] OTHER -> 0

\* The supervisor forgets the pid.
Forget(p, s) == [p EXCEPT ![s].st = "none"]

\* A freshly spawned process is tracked in place of the previous one.
Spawned(p, s) == [p EXCEPT ![s].st = "live", ![s].loaded = Reads(s)]

Reloaded(p, s) == [p EXCEPT ![s].loaded = Reads(s)]

Managed(p, s, b) == [p EXCEPT ![s].managed = b]

\* SIGTERM to a tracked sidecar, which exits.
Termed(p, s) == IF Live(p, s) THEN [p EXCEPT ![s].st = "dead"] ELSE p

\* What a spawn that replaces the tracked pid can lead to.  A failed one
\* leaves the old pid tracked.
Respawned(p, s) ==
  {Spawned(p, s)} \union (IF "spawn" \in Faults THEN {p} ELSE {})

\* Slip: the daemon is never adopted.
Confirmed_Never(p) == p

\* confirm_ganesha_daemon_pid_env: a tracked launcher that exited is replaced
\* by the daemon pgrep finds.
Confirmed(p) ==
  IF ~Live(p, "ganesha") /\ p["ganesha"].stray > 0
  THEN [p EXCEPT !["ganesha"].st = "live", !["ganesha"].stray = @ - 1]
  ELSE p

\* What spawning ganesha.nfsd can lead to: it runs, it is dead within the
\* 800 ms the code waits, or the launched pid exits and leaves a daemon under
\* another pid.
Launched(p) ==
  LET up == Spawned(p, "ganesha")
      died == [up EXCEPT !["ganesha"].st = "dead"]
      forked == [died EXCEPT !["ganesha"].stray = @ + 1]
  IN {up} \union (IF "ganesha" \in Crashable THEN {died} ELSE {})
          \union (IF "fork" \in Faults THEN {forked} ELSE {})

\* Whether every principal resolved within the 30 seconds the code waits.
warm_identity_principals_before_ganesha == IF "warm" \in Faults THEN BOOLEAN ELSE {TRUE}

\* A warm-up that fails skips the start, with the pid forgotten and the managed
\* flag as it was; so does a spawn that fails.
start_ganesha(p) ==
  IF Live(p, "ganesha") THEN {p}
  ELSE LET q == Forget(p, "ganesha")
       IN {Confirmed(Managed(r, "ganesha", TRUE)) : r \in Launched(q)}
            \union (IF FALSE \in warm_identity_principals_before_ganesha \/ "spawn" \in Faults
                    THEN {q} ELSE {})

\* Either the process is gone, or it survives SIGKILL and stays tracked.
stop_ganesha(p) ==
  {Managed(Forget(p, "ganesha"), "ganesha", FALSE)}
    \union (IF Live(p, "ganesha") /\ "survive" \in Faults THEN {p} ELSE {})

start_avahi(p) ==
  IF ~conf.navahi \/ hostMode \/ Live(p, "avahi") THEN {p}
  ELSE {Managed(Spawned(p, "avahi"), "avahi", TRUE)}
         \union (IF "spawn" \in Faults THEN {Forget(p, "avahi")} ELSE {})

\* The pid is dropped in any case: a survivor of SIGKILL becomes a stray.
stop_avahi(p) ==
  LET q == Managed(Forget(p, "avahi"), "avahi", FALSE)
  IN {q} \union (IF Live(p, "avahi") /\ "survive" \in Faults /\ q["avahi"].stray < MaxStray
                 THEN {[q EXCEPT !["avahi"].stray = @ + 1]} ELSE {})

\* Nothing stops a watcher that is already tracked.
start_watcher(p) ==
  LET q == IF Live(p, "watcher") THEN [p EXCEPT !["watcher"].stray = @ + 1] ELSE p
  IN {Spawned(q, "watcher")} \union (IF "spawn" \in Faults THEN {p} ELSE {})

start_webui(p) == Respawned(Termed(p, "webui"), "webui")

restart_sssd_and_wait(p) == Respawned(Termed(p, "sssd"), "sssd")

restart_idhelper_and_wait_bulk(p) == Respawned(Termed(p, "idhelper"), "idhelper")

\* D-Bus is spawned unless pgrep finds a dbus-daemon, and pgrep also finds one
\* that exited and has not been reaped yet.
ensure_ganesha_prereqs(p) ==
  IF Live(p, "dbus") THEN {p}
  ELSE Respawned(p, "dbus") \union (IF p["dbus"].st = "dead" THEN {p} ELSE {})

\* Either the UI takes the HUP, or it exits on it and is spawned again; a UI
\* that is not running is spawned.
reload_webui(p) ==
  IF ~Live(p, "webui") THEN start_webui(Forget(p, "webui"))
  ELSE {Reloaded(p, "webui")}
         \union (IF "webui" \in Crashable THEN start_webui(Forget(p, "webui")) ELSE {})

\* refresh_tracked_ganesha_pid.
Refreshed(p) == IF p["ganesha"].st = "dead" THEN Forget(p, "ganesha") ELSE p

\* The readiness gate of the bring-up: its verdict only selects a log line, but
\* with the idhelper's socket in place it refreshes the tracked pid.
wait_for_ganesha_readiness(p) == {p} \union (IF hostMode THEN {} ELSE {Refreshed(p)})

-----------------------------------------------------------------------------
(***************************************************************************)
(* The phases of a job, in the order of the code.                          *)
(***************************************************************************)

RecycleAfter ==
  [generate |-> "hooks", hooks |-> "stop", stop |-> "sssd", sssd |-> "idhelper",
   idhelper |-> "start", start |-> "webui", webui |-> "avahi", avahi |-> "finish"]

\* bring_up_services and what its callers do after it.
BringUpAfter ==
  [generate |-> "hooks", hooks |-> "sssd", sssd |-> "idhelper", idhelper |-> "start",
   start |-> "avahi", avahi |-> "watcher", watcher |-> "webui", webui |-> "finish"]

Recycling == job \in {"sighup", "full"}

After(phase) == IF Recycling THEN RecycleAfter[phase] ELSE BringUpAfter[phase]

\* The locals of a handler while none runs.
NoFingerprints == [identity |-> 0, exports |-> 0, adverts |-> 0]
NoPlan == plan_full_recycle(FALSE)

RespawnOrder == <<"dbus", "sssd", "idhelper", "watcher", "webui", "ganesha", "avahi">>

NoProcs == [s \in Services |-> [st |-> "none", loaded |-> 0, stray |-> 0, managed |-> FALSE]]

Init ==
  /\ \E d \in Deployments :
       conf = [exports |-> 0, shares |-> 0, identity |-> 0, adverts |-> 0,
               host |-> d.host, navahi |-> d.navahi]
  /\ disk = [identity |-> 0, exports |-> 0, adverts |-> 0]
  /\ wizard = FALSE
  /\ marker = FALSE
  /\ unsignaled = FALSE
  /\ hup = FALSE /\ usr1 = FALSE /\ term = FALSE
  /\ procs = NoProcs
  /\ started = FALSE
  /\ hostMode = conf.host
  /\ lastShares = 0
  /\ pc = "boot" /\ job = "boot"
  /\ before = NoFingerprints
  /\ plan = NoPlan
  /\ belt = FALSE
  /\ needWatcher = FALSE
  /\ cursor = 1
  /\ outcome = "none"
  /\ excused = FALSE

-----------------------------------------------------------------------------
(***************************************************************************)
(* The outside world.                                                      *)
(***************************************************************************)

\* nfs-klldap.conf is saved: by the WebUI, or by an editor.
Save ==
  /\ pc # "exited"
  /\ \E part \in Editable :
       \E v \in IF part \in Switches THEN BOOLEAN ELSE Versions :
         /\ v # conf[part]
         /\ (part \in Parts /\ ~Revert) => v > conf[part]
         /\ conf' = [conf EXCEPT ![part] = v]
  /\ unsignaled' = TRUE
  /\ UNCHANGED <<disk, sigVars, fileVars, procs, memVars, pc, job, flowVars, histVars>>

\* The handlers of signals.rs only set a flag, so signals coalesce.
SendHup ==
  /\ pc # "exited" /\ ~hup
  /\ hup' = TRUE
  /\ unsignaled' = FALSE
  /\ UNCHANGED <<conf, disk, usr1, term, fileVars, procs, memVars, pc, job, flowVars, histVars>>

SendUsr1 ==
  /\ pc # "exited" /\ ~usr1
  /\ usr1' = TRUE
  /\ unsignaled' = FALSE
  /\ UNCHANGED <<conf, disk, hup, term, fileVars, procs, memVars, pc, job, flowVars, histVars>>

SendTerm ==
  /\ "restart" \in Faults /\ pc # "exited" /\ ~term
  /\ term' = TRUE
  /\ UNCHANGED <<confVars, disk, hup, usr1, fileVars, procs, memVars, pc, job, flowVars, histVars>>

\* The setup wizard is finished in the WebUI.
WizardDone ==
  /\ ~wizard /\ Live(procs, "webui")
  /\ wizard' = TRUE
  /\ UNCHANGED <<confVars, disk, sigVars, marker, procs, memVars, pc, job, flowVars, histVars>>

\* A tracked process exits.
Exit(s) ==
  /\ Live(procs, s)
  /\ procs' = [procs EXCEPT ![s].st = "dead"]
  /\ UNCHANGED <<confVars, disk, sigVars, fileVars, memVars, pc, job, flowVars, histVars>>

\* A process the supervisor no longer tracks exits.
StrayExits(s) ==
  /\ procs[s].stray > 0
  /\ procs' = [procs EXCEPT ![s].stray = @ - 1]
  /\ UNCHANGED <<confVars, disk, sigVars, fileVars, memVars, pc, job, flowVars, histVars>>

\* The container is killed, or pid 1 has exited, and it is started again: the
\* files stay, everything in memory is gone.
Restart ==
  /\ "restart" \in Faults /\ pc # "boot"
  /\ unsignaled' = FALSE
  /\ hup' = FALSE /\ usr1' = FALSE /\ term' = FALSE
  /\ procs' = NoProcs
  /\ started' = FALSE
  /\ hostMode' = conf.host
  /\ lastShares' = 0
  /\ pc' = "boot" /\ job' = "boot"
  /\ before' = NoFingerprints
  /\ plan' = NoPlan
  /\ belt' = FALSE
  /\ needWatcher' = FALSE
  /\ cursor' = 1
  /\ outcome' = "none"
  /\ excused' = FALSE
  /\ UNCHANGED <<conf, disk, fileVars>>

-----------------------------------------------------------------------------
(***************************************************************************)
(* run_supervisor and the loop.                                            *)
(***************************************************************************)

\* A preconfigured deployment brings everything up at once; otherwise only
\* the WebUI is started, for the wizard, and a failure to start it is fatal: it
\* ends pid 1 before the marker is removed.
BootPreconfigured ==
  /\ pc = "boot"
  /\ wizard' = TRUE
  /\ pc' = "generate"
  /\ UNCHANGED <<confVars, disk, sigVars, marker, procs, memVars, job, flowVars, histVars>>

BootWizard ==
  /\ pc = "boot"
  /\ procs' \in start_webui(procs)
  /\ pc' = IF Live(procs', "webui") THEN "tick" ELSE "exited"
  /\ marker' = (marker /\ pc' = "exited")
  /\ UNCHANGED <<confVars, disk, sigVars, wizard, memVars, job, flowVars, histVars>>

\* Slip: the flag of SIGHUP is looked at but not consumed.
Tick_LoadsFlag ==
  /\ pc = "tick" /\ ~term
  /\ hup' = hup /\ usr1' = FALSE
  /\ \E ready \in IF started THEN {TRUE} ELSE BOOLEAN :
       job' = supervisor_loop_tick(started, hup, usr1, wizard, ready)
  /\ pc' = IF job' = "idle" THEN "respawn" ELSE "generate"
  /\ wizard' = (wizard \/ job' = "bringup")
  /\ procs' = IF job' \in {"sighup", "full"} THEN Refreshed(procs) ELSE procs
  /\ needWatcher' = (job' \in {"sighup", "full"} /\ procs["watcher"].st = "none")
  /\ cursor' = 1
  /\ UNCHANGED <<confVars, disk, term, marker, memVars, before, plan, belt, histVars>>

\* One pass of supervisor_loop up to the match on the action.  Both flags
\* are consumed before the job runs.  compute_startup_step is only asked
\* while the services are down; its answer depends on the network.
Tick ==
  /\ pc = "tick" /\ ~term
  /\ hup' = FALSE /\ usr1' = FALSE
  /\ \E ready \in IF started THEN {TRUE} ELSE BOOLEAN :
       job' = supervisor_loop_tick(started, hup, usr1, wizard, ready)
  /\ pc' = IF job' = "idle" THEN "respawn" ELSE "generate"
  /\ wizard' = (wizard \/ job' = "bringup")
  /\ procs' = IF job' \in {"sighup", "full"} THEN Refreshed(procs) ELSE procs
  /\ needWatcher' = (job' \in {"sighup", "full"} /\ procs["watcher"].st = "none")
  /\ cursor' = 1
  /\ UNCHANGED <<confVars, disk, term, marker, memVars, before, plan, belt, histVars>>

\* cleanup: every child is terminated and the container ends with pid 1.
Shutdown ==
  /\ pc = "tick" /\ term
  /\ procs' = [s \in Services |->
                 [procs[s] EXCEPT !.st = "none", !.stray = 0, !.managed = FALSE]]
  /\ pc' = "exited"
  /\ UNCHANGED <<confVars, disk, sigVars, fileVars, memVars, job, flowVars, histVars>>

\* The handler returns; its locals are gone.
Return(result) ==
  /\ outcome' = result
  /\ job' = "idle"
  /\ before' = NoFingerprints
  /\ plan' = NoPlan
  /\ belt' = FALSE
  /\ needWatcher' = FALSE

\* An error unwinds out of the boot; the loop logs it and goes on.
Fail ==
  /\ pc' = IF job = "boot" THEN "exited" ELSE "tick"
  /\ Return("err")

-----------------------------------------------------------------------------
(***************************************************************************)
(* regenerate_and_diff, and the first half of bring_up_services.           *)
(***************************************************************************)

Rendered == [identity |-> conf.identity, exports |-> conf.exports, adverts |-> conf.adverts]

\* generate_all writes the identity files, the export fragments and the
\* adverts in this order and stops at the first error.
PartlyRendered ==
  {disk, [disk EXCEPT !.identity = conf.identity],
   [Rendered EXCEPT !.adverts = disk.adverts], Rendered}

\* Slip: the fingerprints are taken once the generator has run.
Generate_LateFingerprints ==
  /\ pc = "generate"
  /\ disk' = Rendered
  /\ before' = Rendered
  /\ pc' = After("generate")
  /\ UNCHANGED <<job, plan, belt, needWatcher, histVars>>
  /\ UNCHANGED <<confVars, sigVars, fileVars, procs, memVars, cursor>>

\* The fingerprints of the derived files are taken first.  A reload gives the
\* generator 120 seconds, the bring-up waits for ever.
Generate ==
  /\ pc = "generate"
  /\ \/ /\ disk' = Rendered
        /\ before' = disk
        /\ pc' = After("generate")
        /\ UNCHANGED <<job, plan, belt, needWatcher, histVars>>
     \/ /\ "generate" \in Faults \/ (Recycling /\ "hang" \in Faults)
        /\ disk' \in PartlyRendered
        /\ Fail
        /\ excused' = (excused \/ disk'.exports # disk.exports)
     \/ /\ "hang" \in Faults /\ ~Recycling
        /\ disk' \in PartlyRendered
        /\ pc' = "parked"
        /\ UNCHANGED <<before, job, plan, belt, needWatcher, histVars>>
  /\ UNCHANGED <<confVars, sigVars, fileVars, procs, memVars, cursor>>

\* Slip: the forced recycle is scoped by the deltas as well.
PlanFor_DeltasOnly(host) ==
  IF started
  THEN plan_from_changes(before.exports # disk.exports, lastShares # conf.shares, host,
                         Live(procs, "ganesha"))
  ELSE plan_full_recycle(host)

\* Only a SIGHUP to a running stack is scoped by the deltas.
PlanFor(host) ==
  IF job = "sighup" /\ started
  THEN plan_from_changes(before.exports # disk.exports, lastShares # conf.shares, host,
                         Live(procs, "ganesha"))
  ELSE plan_full_recycle(host)

\* The post-generate hooks run, without a ceiling; then the host mode and the
\* shares are read from nfs-klldap.conf again, and the plan is made from the
\* deltas.  The bring-up keeps the host mode it knew and starts everything.
Hooks ==
  /\ pc = "hooks"
  /\ \/ /\ pc' = After("hooks")
        /\ hostMode' = IF Recycling THEN conf.host ELSE hostMode
        /\ lastShares' = conf.shares
        /\ plan' = PlanFor(hostMode')
        /\ belt' = (job = "sighup" /\ before.adverts # disk.adverts)
        /\ procs' = IF job = "sighup" /\ started THEN Refreshed(procs) ELSE procs
        /\ UNCHANGED <<job, before, needWatcher, histVars>>
     \/ /\ "hook" \in Faults
        /\ Fail
        /\ excused' = (excused \/ before.exports # disk.exports)
        /\ UNCHANGED <<hostMode, lastShares, procs>>
     \/ /\ "hang" \in Faults
        /\ pc' = "parked"
        /\ UNCHANGED <<hostMode, lastShares, procs, job, before, plan, belt,
                       needWatcher, histVars>>
  /\ UNCHANGED <<confVars, disk, sigVars, fileVars, started, cursor>>

-----------------------------------------------------------------------------
(***************************************************************************)
(* execute_recycle_plan, and the second half of bring_up_services, which   *)
(* runs the same steps with the full plan and nothing to stop.             *)
(***************************************************************************)

phaseUnchanged == <<confVars, disk, sigVars, fileVars, memVars, job, before, belt,
                    needWatcher, cursor, outcome>>

\* Ganesha was started, from the exports on disk, by this step.
Served(p) == excused' = (excused /\ ~(Live(p, "ganesha") /\ ~Live(procs, "ganesha")))

StopGanesha ==
  /\ pc = "stop"
  /\ \/ /\ hostMode \/ plan.ganesha = "Skip"
        /\ UNCHANGED <<procs, plan, excused>>
     \/ /\ ~hostMode /\ plan.ganesha = "Sighup" /\ Live(procs, "ganesha")
        /\ procs' = Reloaded(procs, "ganesha")
        /\ excused' = FALSE
        /\ UNCHANGED plan
     \/ /\ ~hostMode /\ plan.ganesha = "Sighup" /\ ~Live(procs, "ganesha")
        /\ procs' = Refreshed(procs)
        /\ plan' = ganesha_sighup_failed(plan)
        /\ UNCHANGED excused
     \/ /\ ~hostMode /\ plan.ganesha = "StopStart"
        /\ procs' \in stop_ganesha(Refreshed(procs))
        /\ excused' = (excused \/ Live(procs', "ganesha"))
        /\ UNCHANGED plan
  /\ pc' = After("stop")
  /\ UNCHANGED phaseUnchanged

RestartSssd ==
  /\ pc = "sssd"
  /\ procs' \in IF plan.restart_sssd THEN restart_sssd_and_wait(procs) ELSE {procs}
  /\ pc' = After("sssd")
  /\ UNCHANGED <<phaseUnchanged, plan, excused>>

RestartIdhelper ==
  /\ pc = "idhelper"
  /\ procs' \in IF plan.restart_idhelper THEN restart_idhelper_and_wait_bulk(procs)
                ELSE {procs}
  /\ pc' = After("idhelper")
  /\ UNCHANGED <<phaseUnchanged, plan, excused>>

StartGanesha ==
  /\ pc = "start"
  /\ procs' \in IF ~hostMode /\ plan.ganesha = "StopStart" /\ ~Live(procs, "ganesha")
                THEN UNION {start_ganesha(q) : q \in ensure_ganesha_prereqs(procs)}
                ELSE {procs}
  /\ Served(procs')
  /\ pc' = After("start")
  /\ UNCHANGED <<phaseUnchanged, plan>>

\* The boot starts no WebUI in host mode.
StartWebui ==
  /\ pc = "webui"
  /\ procs' \in IF plan.webui = "Skip" \/ (job = "boot" /\ hostMode) THEN {procs}
                ELSE IF plan.webui = "Reload" THEN reload_webui(procs)
                ELSE start_webui(procs)
  /\ pc' = After("webui")
  /\ UNCHANGED <<phaseUnchanged, plan, excused>>

\* A SIGHUP whose plan does not restart avahi makes it read changed adverts.
RestartAvahi ==
  /\ pc = "avahi"
  /\ procs' \in IF plan.restart_avahi THEN UNION {start_avahi(q) : q \in stop_avahi(procs)}
                ELSE IF belt /\ Live(procs, "avahi") THEN {Reloaded(procs, "avahi")}
                ELSE {procs}
  /\ pc' = After("avahi")
  /\ UNCHANGED <<phaseUnchanged, plan, excused>>

\* The callers of bring_up_services start the watcher once it succeeded, after
\* the readiness gate at boot and before it in the loop.
StartWatcher ==
  /\ pc = "watcher"
  /\ started' = TRUE
  /\ procs' \in UNION {start_watcher(q) : q \in wait_for_ganesha_readiness(procs)}
  /\ marker' = (marker /\ job # "boot")
  /\ pc' = After("watcher")
  /\ UNCHANGED <<confVars, disk, sigVars, wizard, hostMode, lastShares, job, flowVars,
                 histVars>>

\* Slip: the flags are cleared when the job is done.
Finish_DropsSignals ==
  /\ pc = "finish"
  /\ procs' \in IF Recycling /\ ~started THEN start_watcher(procs) ELSE {procs}
  /\ started' = TRUE
  /\ marker' = (marker \/ job # "boot")
  /\ hup' = FALSE /\ usr1' = FALSE
  /\ pc' = "tick"
  /\ Return("ok")
  /\ UNCHANGED <<confVars, disk, term, wizard, hostMode, lastShares, cursor, excused>>

\* finish_recycle, then the end of the loop's arm.  The first recycle starts
\* the watcher in finish_recycle, and the arm starts one when none was
\* tracked as the handler began.
Finish ==
  /\ pc = "finish"
  /\ procs' \in
       LET first == IF Recycling /\ ~started THEN start_watcher(procs) ELSE {procs}
       IN IF needWatcher THEN UNION {start_watcher(p) : p \in first} ELSE first
  /\ started' = TRUE
  /\ marker' = (marker \/ job # "boot")
  /\ pc' = "tick"
  /\ Return("ok")
  /\ UNCHANGED <<confVars, disk, sigVars, wizard, hostMode, lastShares, cursor, excused>>

-----------------------------------------------------------------------------
(***************************************************************************)
(* check_and_respawn_services.  RespawnBudget is abstracted: a service     *)
(* that needs a respawn gets one, or is passed over.                       *)
(***************************************************************************)

\* Slip: Ganesha is keyed off a dead tracked pid like the sidecars.
respawn_needed_TrackedOnly(s) ==
  CASE s = "webui" -> procs[s].st = "dead"
    [] s \in {"ganesha", "avahi"} -> procs[s].managed /\ ~hostMode /\ procs[s].st = "dead"
    [] OTHER -> started /\ procs[s].st = "dead"

respawn_needed(s) ==
  CASE s = "webui" -> procs[s].st = "dead"
    [] s \in {"ganesha", "avahi"} -> procs[s].managed /\ ~hostMode /\ ~Live(procs, s)
    [] OTHER -> started /\ procs[s].st = "dead"

respawn_service(s) ==
  CASE s = "webui" -> start_webui(procs)
    [] s = "watcher" -> start_watcher(procs)
    [] s = "sssd" -> restart_sssd_and_wait(procs)
    [] s = "idhelper" -> restart_idhelper_and_wait_bulk(procs)
    [] s = "dbus" -> ensure_ganesha_prereqs(procs)
    [] s = "ganesha" -> start_ganesha(procs)
    [] s = "avahi" -> start_avahi(procs)

\* The pass reaches the next service that needs a respawn.
Reaches(i) ==
  /\ i \in cursor .. Len(RespawnOrder)
  /\ respawn_needed(RespawnOrder[i])
  /\ \A j \in cursor .. i - 1 : ~respawn_needed(RespawnOrder[j])

Respawn(i) ==
  /\ pc = "respawn" /\ Reaches(i)
  /\ procs' \in respawn_service(RespawnOrder[i])
  /\ Served(procs')
  /\ cursor' = i + 1
  /\ UNCHANGED <<confVars, disk, sigVars, fileVars, memVars, pc, job, before, plan, belt,
                 needWatcher, outcome>>

\* The budget answers Cooldown or Exhausted.
PassOver(i) ==
  /\ pc = "respawn" /\ Reaches(i)
  /\ cursor' = i + 1
  /\ UNCHANGED <<confVars, disk, sigVars, fileVars, procs, memVars, pc, job, before, plan,
                 belt, needWatcher, histVars>>

EndPass ==
  /\ pc = "respawn"
  /\ \A i \in cursor .. Len(RespawnOrder) : ~respawn_needed(RespawnOrder[i])
  /\ pc' = "tick"
  /\ cursor' = 1
  /\ UNCHANGED <<confVars, disk, sigVars, fileVars, procs, memVars, job, before, plan,
                 belt, needWatcher, histVars>>

-----------------------------------------------------------------------------
Environment ==
  \/ Save \/ SendHup \/ SendUsr1 \/ SendTerm \/ WizardDone \/ Restart
  \/ \E s \in Crashable : Exit(s) \/ StrayExits(s)

Phase ==
  \/ Generate \/ Hooks \/ StopGanesha \/ RestartSssd \/ RestartIdhelper
  \/ StartGanesha \/ StartWebui \/ RestartAvahi \/ StartWatcher \/ Finish

Loop ==
  \/ BootPreconfigured \/ BootWizard \/ Tick \/ Shutdown
  \/ \E i \in 1 .. Len(RespawnOrder) : Respawn(i) \/ PassOver(i)
  \/ EndPass

Next == Environment \/ Phase \/ Loop

Spec == Init /\ [][Next]_vars

-----------------------------------------------------------------------------
(***************************************************************************)
(* Fairness: pid 1 keeps running, a save is eventually signalled (by the   *)
(* WebUI or by the conf-watcher), and a service that needs a respawn again *)
(* and again is not passed over for ever: that is NeverAbandoned of        *)
(* RespawnBudget.  An identity warm-up that is tried again and again       *)
(* succeeds in the end.                                                    *)
(***************************************************************************)

GaneshaUp == StartGanesha /\ Live(procs', "ganesha")

Fairness ==
  /\ WF_vars(Phase)
  /\ WF_vars(BootPreconfigured \/ BootWizard \/ Tick \/ Shutdown)
  /\ WF_vars(EndPass \/ \E i \in 1 .. Len(RespawnOrder) : Respawn(i) \/ PassOver(i))
  /\ WF_vars(unsignaled /\ SendHup)
  /\ \A i \in 1 .. Len(RespawnOrder) :
       SF_vars(Respawn(i) /\ Live(procs', RespawnOrder[i]))
  /\ SF_vars(GaneshaUp)

FairSpec == Spec /\ Fairness

-----------------------------------------------------------------------------
(***************************************************************************)
(* Properties.                                                             *)
(***************************************************************************)

\* Every variable has its type, the handler's locals included.
TypeOK ==
  /\ conf \in [exports : Versions, shares : Versions, identity : Versions,
               adverts : Versions, host : BOOLEAN, navahi : BOOLEAN]
  /\ disk \in [identity : Versions, exports : Versions, adverts : Versions]
  /\ before \in [identity : Versions, exports : Versions, adverts : Versions]
  /\ unsignaled \in BOOLEAN
  /\ hup \in BOOLEAN /\ usr1 \in BOOLEAN /\ term \in BOOLEAN
  /\ wizard \in BOOLEAN /\ marker \in BOOLEAN
  /\ procs \in [Services -> Process]
  /\ started \in BOOLEAN /\ hostMode \in BOOLEAN /\ lastShares \in Versions
  /\ pc \in {"boot", "tick", "generate", "hooks", "stop", "sssd", "idhelper", "start",
             "webui", "avahi", "watcher", "finish", "respawn", "parked", "exited"}
  /\ job \in {"boot", "bringup", "sighup", "full", "idle"}
  /\ plan \in ServiceRecyclePlan
  /\ belt \in BOOLEAN /\ needWatcher \in BOOLEAN
  /\ cursor \in 1 .. Len(RespawnOrder) + 1
  /\ outcome \in {"none", "ok", "err"} /\ excused \in BOOLEAN


\* At most one ganesha.nfsd is alive, tracked or not: stop_ganesha keeps an
\* unkillable process tracked, start_ganesha refuses to spawn next to it, and
\* a launcher that re-executed itself is adopted before the next spawn.
OneGanesha ==
  procs["ganesha"].stray + (IF Live(procs, "ganesha") THEN 1 ELSE 0) <= 1

\* The loop is between two jobs and every save has been signalled and taken.
Quiet == pc = "tick" /\ ~hup /\ ~usr1 /\ ~unsignaled

\* No save is lost between the signal handlers and the loop: once nothing is
\* pending and the last job succeeded, the derived files are those of the
\* current nfs-klldap.conf, however saves and signals fell between the steps
\* of the previous jobs.
SavedConfigOnDisk == Quiet /\ outcome = "ok" => disk = Rendered

\* Ganesha serves the exports of the current configuration, unless a failure
\* the supervisor logged kept the delta from it: a reload that failed after
\* generate had written the fragments, or a process that survived SIGKILL.
ExportsServed ==
  Quiet /\ outcome = "ok" /\ Live(procs, "ganesha") /\ ~hostMode /\ ~excused
    => procs["ganesha"].loaded = conf.exports

\* The same without the excuse: README.md, "Ganesha export reread when exports
\* change".
ExportsReread ==
  Quiet /\ outcome = "ok" /\ Live(procs, "ganesha") /\ ~hostMode
    => procs["ganesha"].loaded = conf.exports

\* The WebUI works from the shares of the current configuration: its delta is
\* taken against a fingerprint kept in memory that a failed reload does not
\* advance, so a failed reload is made up for by the next one.  It needs saves
\* that never restore earlier contents (Revert = FALSE).
WebuiCurrent ==
  Quiet /\ outcome = "ok" /\ Live(procs, "webui") => procs["webui"].loaded = conf.shares

\* A forced full recycle leaves no service on older derived files, whatever
\* failed before it: README.md, "every managed service restarts regardless of
\* deltas".  Only a Ganesha that survived SIGKILL is left out.
FullRecycleApplies ==
  pc = "finish" /\ job = "full" =>
    \A s \in {"sssd", "ganesha", "avahi"} :
      Live(procs, s) /\ ~(s = "ganesha" /\ (excused \/ hostMode))
        => procs[s].loaded = Reads(s)

\* Identity changes are staged: an SSSD that runs is only replaced by one with
\* other identity files in a full recycle or while the stack is brought up
\* (recycle_plan.rs, "the running daemons keep the previous settings until a
\* forced full recycle applies them").  One that died, or that went with the
\* container, comes back with the files on disk.
IdentityStaged ==
  [][Live(procs, "sssd") /\ Live(procs', "sssd") /\ procs'["sssd"].loaded # procs["sssd"].loaded
       => job \in {"full", "bringup", "boot"} \/ ~started]_vars

\* The phase of the abstract job.
AbstractPhase ==
  CASE pc \in {"boot", "tick", "respawn"} -> "idle"
    [] pc = "generate" -> "taken"
    [] pc = "finish" \/ (pc = "avahi" /\ Recycling) -> "applied"
    [] pc \in {"parked", "exited"} -> "stuck"
    [] OTHER -> "applying"

ExportJob ==
  INSTANCE RecycleJob WITH
    Jobs <- {"boot", "bringup", "sighup", "full", "idle"},
    conf <- conf.exports, seen <- disk.exports, phase <- AbstractPhase

\* The supervisor implements RecycleJob for the exports: signals are flags that
\* only a job or a restart of the container consumes, the job taken reads the
\* configuration afterwards, the marker is touched last and never by a job
\* that failed.
ImplementsRecycleJob == ExportJob!JobSpec

\* container/README.md draws one conf-watcher under pid 1.
OneWatcher == procs["watcher"].stray = 0

\* A signal is served: the loop always comes back to look at its flags.
SignalServed == (hup \/ usr1) ~> ~(hup \/ usr1)

\* Saves take effect: a configuration that stays is in the end the one on
\* disk, and the one Ganesha serves as long as Ganesha runs.
SavesTakeEffect ==
  \A v \in Versions :
    <>[](conf.exports = v /\ started)
      => <>[](disk.exports = v /\ (Live(procs, "ganesha") => procs["ganesha"].loaded = v))

\* A Ganesha that died comes back, once signals stop arriving: the idle pass
\* only runs in a tick that found no flag set.
GaneshaComesBack ==
  <>[](~hup /\ ~usr1) =>
    [](procs["ganesha"].managed => <>(Live(procs, "ganesha") \/ ~procs["ganesha"].managed))

\* services.rs: Ganesha's start is skipped "until NSS warm succeeds", so it is
\* tried again.
GaneshaStartedInTheEnd ==
  (started /\ ~hostMode) ~> (Live(procs, "ganesha") \/ ~started)

=============================================================================
