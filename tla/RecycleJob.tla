----------------------------- MODULE RecycleJob -----------------------------
(***************************************************************************)
(* What pid 1 promises to those who signal it, and no more: a signal sets  *)
(* a flag, the loop takes the flags and then reads the configuration, the  *)
(* WebUI is dealt with after the files were written, and the recycle       *)
(* marker is touched once the job is done.  A job may fail, hang, or be    *)
(* lost with the container.  Supervisor implements this (ExportJob there   *)
(* is the refinement mapping); RecycleLatch relies on it.                  *)
(***************************************************************************)
CONSTANT Jobs   \* the kinds of job: sighup, full, bringup, boot; idle for none

VARIABLES
  conf,    \* the saved configuration
  seen,    \* the configuration the derived files were last written from
  hup, usr1,
  phase,   \* of the job: taken, applying (files written), applied (WebUI done)
  job,
  marker   \* the recycle marker exists

jobVars == <<conf, seen, hup, usr1, phase, job, marker>>

Phases == {"idle", "taken", "applying", "applied", "stuck"}

JobInit ==
  /\ seen = conf
  /\ hup = FALSE /\ usr1 = FALSE
  /\ phase = "idle"
  /\ job \in {"boot", "idle"} \intersect Jobs
  /\ marker = FALSE

\* Someone saves the configuration, sends a signal or removes the marker.
Save == UNCHANGED <<seen, hup, usr1, phase, job, marker>>
Hup == hup' = TRUE /\ UNCHANGED <<conf, seen, usr1, phase, job, marker>>
Usr1 == usr1' = TRUE /\ UNCHANGED <<conf, seen, hup, phase, job, marker>>
RemoveMarker == marker' = FALSE /\ UNCHANGED <<conf, seen, hup, usr1, phase, job>>

\* The loop takes both flags; a SIGUSR1 outranks a SIGHUP.
Take ==
  /\ phase = "idle" /\ (hup \/ usr1)
  /\ phase' = "taken"
  /\ job' \in IF usr1 THEN {"full", "bringup"} \intersect Jobs ELSE {"sighup"}
  /\ hup' = FALSE /\ usr1' = FALSE
  /\ UNCHANGED <<conf, seen, marker>>

\* The stack is brought up without a signal.
BringUp ==
  /\ phase = "idle" /\ ~hup /\ ~usr1 /\ "bringup" \in Jobs
  /\ phase' = "taken" /\ job' = "bringup"
  /\ UNCHANGED <<conf, seen, hup, usr1, marker>>

\* The boot of a configured deployment leaves the flags for the loop.
Boot ==
  /\ phase = "idle" /\ job = "boot"
  /\ phase' = "taken" /\ job' = "boot"
  /\ UNCHANGED <<conf, seen, hup, usr1, marker>>

\* The generator reads the configuration after the flags were taken.
Read ==
  /\ phase = "taken"
  /\ phase' = "applying"
  /\ seen' = conf
  /\ UNCHANGED <<conf, hup, usr1, job, marker>>

WebuiPhase ==
  /\ phase = "applying"
  /\ phase' = "applied"
  /\ UNCHANGED <<conf, seen, hup, usr1, job, marker>>

\* Slip: the flags are cleared once the job is done.
Done_DropsSignals ==
  /\ phase = "applied"
  /\ phase' = "idle" /\ job' = "idle"
  /\ marker' = (marker \/ job # "boot")
  /\ hup' = FALSE /\ usr1' = FALSE
  /\ UNCHANGED <<conf, seen>>

\* Every job but the boot ends by touching the marker.
Done ==
  /\ phase = "applied"
  /\ phase' = "idle" /\ job' = "idle"
  /\ marker' = (marker \/ job # "boot")
  /\ UNCHANGED <<conf, seen, hup, usr1>>

\* The job fails, with or without having written the files.
Abort ==
  /\ phase \in {"taken", "applying"}
  /\ phase' \in {"idle", "stuck"} /\ job' = "idle"
  /\ seen' \in IF phase = "taken" THEN {seen, conf} ELSE {seen}
  /\ UNCHANGED <<conf, hup, usr1, marker>>

\* The job hangs, or pid 1 ends.
Stick ==
  /\ phase' = "stuck"
  /\ seen' \in IF phase = "taken" THEN {seen, conf} ELSE {seen}
  /\ UNCHANGED <<conf, hup, usr1, job, marker>>

\* The loop goes round without a job.
Idle ==
  /\ phase = "idle" /\ ~hup /\ ~usr1
  /\ job' = "idle"
  /\ UNCHANGED <<conf, seen, hup, usr1, phase, marker>>

\* The container starts again: only then are signals forgotten.
Reset ==
  /\ phase' = "idle" /\ job' = "boot"
  /\ hup' = FALSE /\ usr1' = FALSE
  /\ UNCHANGED <<conf, seen, marker>>

JobNext ==
  \/ Save \/ Hup \/ Usr1 \/ RemoveMarker \/ Take \/ BringUp \/ Boot
  \/ Read \/ WebuiPhase \/ Done \/ Abort \/ Stick \/ Idle \/ Reset

JobSpec == JobInit /\ [][JobNext]_jobVars

=============================================================================
