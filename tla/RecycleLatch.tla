---------------------------- MODULE RecycleLatch ----------------------------
(***************************************************************************)
(* How a save in the WebUI, or a click on "Restart and apply", reaches     *)
(* pid 1: the handlers of web/settings/mod.rs with the restart_requested   *)
(* latch and the tasks try_schedule_service_recycle spawns, the page that  *)
(* polls /restart-status, and the conf-watcher script, composed with       *)
(* RecycleJob for pid 1.                                                   *)
(*                                                                         *)
(* The contents of nfs-klldap.conf are the number of saves.  A request in  *)
(* flight lives in the WebUI process and dies with it.                     *)
(***************************************************************************)
EXTENDS RecycleJob, Naturals

CONSTANTS
  MaxSaves,    \* bound: saves
  MaxClicks,   \* bound: clicks on "Restart and apply"
  Faults       \* undeliverable: kill() on pid 1 fails; blind: inotifywait ends
               \* with an error; abort, stick: jobs fail, hang

ASSUME LatchAssumption ==
  /\ MaxSaves \in Nat /\ MaxClicks \in Nat
  /\ Faults \subseteq {"undeliverable", "blind", "abort", "stick"}

VARIABLES
  latch,    \* restart_requested
  owner,    \* the task that releases the latch: what it does, which signal it sends
  senders,  \* escalation tasks that still sleep
  saving,   \* settings_save_shares has written the file and not yet scheduled
  watch,    \* the conf-watcher
  page,     \* the restarting page: none, polling, redirected
  clicks,
  missed,   \* history: the conf-watcher was not looking during the last save
  owed,     \* history: a click was accepted and no full recycle has come since
  restarted, \* history: a full recycle has finished since the latest click
  excused   \* history: a signal was not delivered, or a job failed

uiVars == <<latch, owner, senders, saving>>
watchVars == <<watch, missed>>
pageVars == <<page, clicks, owed, restarted>>
vars == <<jobVars, uiVars, watchVars, pageVars, excused>>

Kinds == {"SharesApply", "FullRestart"}
NoTask == [does |-> "none", kind |-> "SharesApply"]
Task(does, kind) == [does |-> does, kind |-> kind]

Init ==
  /\ conf = 0 /\ job = "idle" /\ JobInit
  /\ latch = "none" /\ owner = NoTask /\ senders = 0 /\ saving = FALSE
  /\ watch = "armed" /\ missed = FALSE
  /\ page = "none" /\ clicks = 0 /\ owed = FALSE /\ restarted = FALSE
  /\ excused = FALSE

-----------------------------------------------------------------------------
(***************************************************************************)
(* try_schedule_service_recycle.                                           *)
(***************************************************************************)

\* Slip: a full restart that meets a pending shares apply is deduped too.
try_schedule_service_recycle_NoUpgrade(kind) ==
  IF latch = "none"
  THEN /\ latch' = kind /\ owner' = Task("sleep", kind)
       /\ marker' = FALSE
       /\ UNCHANGED senders
  ELSE UNCHANGED <<latch, owner, marker, senders>>

\* A free latch is taken, and the marker removed; a pending shares apply is
\* upgraded by a task that only sends the signal; anything else is deduped.
try_schedule_service_recycle(kind) ==
  \/ /\ latch = "none"
     /\ latch' = kind
     /\ owner' = Task("sleep", kind)
     /\ marker' = FALSE
     /\ UNCHANGED senders
  \/ /\ latch = "SharesApply" /\ kind = "FullRestart"
     /\ latch' = kind
     /\ senders' = senders + 1
     /\ UNCHANGED <<owner, marker>>
  \/ /\ latch # "none" /\ ~(latch = "SharesApply" /\ kind = "FullRestart")
     /\ UNCHANGED <<latch, owner, marker, senders>>

\* send_recycle_signal: the flag the supervisor's handler sets.
Signalled(kind) ==
  IF kind = "SharesApply" THEN hup' = TRUE /\ UNCHANGED usr1
                          ELSE usr1' = TRUE /\ UNCHANGED hup

\* The task of the latch has slept and sends its signal; when that fails it
\* gives the latch back at once.
OwnerSends ==
  /\ owner.does = "sleep"
  /\ \/ Signalled(owner.kind) /\ owner' = Task("wait", owner.kind)
        /\ UNCHANGED <<latch, excused>>
     \/ /\ "undeliverable" \in Faults
        /\ owner' = NoTask /\ latch' = "none"
        /\ excused' = TRUE
        /\ UNCHANGED <<hup, usr1>>
  /\ UNCHANGED <<conf, seen, phase, job, marker, senders, saving, watchVars, pageVars>>

\* Slip: the wait has no deadline.
OwnerReleases_NoDeadline ==
  /\ owner.does = "wait" /\ marker
  /\ owner' = NoTask /\ latch' = "none"
  /\ UNCHANGED <<jobVars, senders, saving, watchVars, pageVars, excused>>

\* It releases the latch when the marker is fresh, or after 90 seconds, which a
\* recycle may well take: both are a step that is always possible.
OwnerReleases ==
  /\ owner.does = "wait"
  /\ owner' = NoTask /\ latch' = "none"
  /\ UNCHANGED <<jobVars, senders, saving, watchVars, pageVars, excused>>

\* The sender of an upgrade; a failure is only logged.
SenderSends ==
  /\ senders > 0
  /\ senders' = senders - 1
  /\ \/ Signalled("FullRestart") /\ UNCHANGED excused
     \/ "undeliverable" \in Faults /\ UNCHANGED <<hup, usr1>> /\ excused' = TRUE
  /\ UNCHANGED <<conf, seen, phase, job, marker, latch, owner, saving, watchVars, pageVars>>

-----------------------------------------------------------------------------
(***************************************************************************)
(* The handlers.                                                           *)
(***************************************************************************)

\* A save renames a new file over the old one; inotifywait notices if it is
\* running (external), or ends with an error.
Noticed ==
  /\ watch' \in IF watch = "armed"
                THEN {"debounce"} \union (IF "blind" \in Faults THEN {"blind"} ELSE {})
                ELSE {watch}
  /\ missed' = (watch' = "blind")

Saved == conf < MaxSaves /\ conf' = conf + 1 /\ Noticed

\* settings_save_shares up to the write, then the in-memory reload and the
\* request; its answer "Graceful apply scheduled" ignores the result.
SaveShares ==
  /\ ~saving /\ Saved
  /\ saving' = TRUE
  /\ UNCHANGED <<seen, hup, usr1, phase, job, marker, latch, owner, senders, pageVars, excused>>

ScheduleShares ==
  /\ saving
  /\ saving' = FALSE
  /\ try_schedule_service_recycle("SharesApply")
  /\ UNCHANGED <<conf, seen, hup, usr1, phase, job, watchVars, pageVars, excused>>

\* settings_save_raw, settings_save_structured, or an editor.
SaveOther ==
  /\ Saved
  /\ UNCHANGED <<seen, hup, usr1, phase, job, marker, uiVars, pageVars, excused>>

\* "Restart and apply": the answer is the polling page in any case.
system_restart ==
  /\ clicks < MaxClicks
  /\ clicks' = clicks + 1
  /\ try_schedule_service_recycle("FullRestart")
  /\ page' = "polling"
  /\ owed' = (owed \/ latch # "FullRestart")
  /\ restarted' = FALSE
  /\ UNCHANGED <<conf, seen, hup, usr1, phase, job, saving, watchVars, excused>>

\* The page's script: 200 while the marker exists and is recent.
restart_status ==
  /\ page = "polling" /\ marker
  /\ page' = "redirected"
  /\ UNCHANGED <<jobVars, uiVars, watchVars, clicks, owed, restarted, excused>>

-----------------------------------------------------------------------------
(***************************************************************************)
(* The conf-watcher: inotifywait, the debounce, the signal, and again.     *)
(***************************************************************************)

WatcherSignals ==
  /\ watch = "debounce"
  /\ hup' = TRUE
  /\ watch' = "blind"
  /\ UNCHANGED <<conf, seen, usr1, phase, job, marker, uiVars, missed, pageVars, excused>>

\* Either right after the signal, or three seconds after an error.
WatcherArms ==
  /\ watch = "blind"
  /\ watch' = "armed"
  /\ UNCHANGED <<jobVars, uiVars, missed, pageVars, excused>>

-----------------------------------------------------------------------------
(***************************************************************************)
(* pid 1: RecycleJob, whose full job replaces the WebUI process.           *)
(***************************************************************************)

JobTakes ==
  /\ Take
  /\ owed' = (owed /\ job' # "full")
  /\ UNCHANGED <<uiVars, watchVars, page, clicks, restarted, excused>>

JobReads ==
  /\ Read
  /\ UNCHANGED <<uiVars, watchVars, pageVars, excused>>

\* The new process starts with a free latch and without tasks or requests.
JobRestartsWebui ==
  /\ WebuiPhase
  /\ owed' = (owed /\ job # "full")
  /\ IF job = "full"
     THEN latch' = "none" /\ owner' = NoTask /\ senders' = 0 /\ saving' = FALSE
     ELSE UNCHANGED uiVars
  /\ UNCHANGED <<watchVars, page, clicks, restarted, excused>>

JobDone ==
  /\ Done
  /\ restarted' = (restarted \/ job = "full")
  /\ UNCHANGED <<uiVars, watchVars, page, clicks, owed, excused>>

JobFails ==
  /\ \/ "abort" \in Faults /\ Abort /\ phase' = "idle"
     \/ "stick" \in Faults /\ phase \in {"taken", "applying"} /\ Stick
  /\ excused' = TRUE
  /\ UNCHANGED <<uiVars, watchVars, pageVars>>

Handlers == SaveShares \/ SaveOther \/ system_restart
Tasks == ScheduleShares \/ OwnerSends \/ OwnerReleases \/ SenderSends
Watcher == WatcherSignals \/ WatcherArms
Supervisor == JobTakes \/ JobReads \/ JobRestartsWebui \/ JobDone \/ JobFails

Next == Handlers \/ Tasks \/ restart_status \/ Watcher \/ Supervisor

Spec == Init /\ [][Next]_vars

\* Timers fire and handlers finish, the watcher script loops, and pid 1 goes
\* on unless its job hangs.  A signal may always fail where it may fail once.
Fairness ==
  /\ WF_vars(ScheduleShares) /\ WF_vars(OwnerSends) /\ WF_vars(OwnerReleases)
  /\ WF_vars(SenderSends)
  /\ WF_vars(Watcher)
  /\ WF_vars(Supervisor)

FairSpec == Spec /\ Fairness

-----------------------------------------------------------------------------
(***************************************************************************)
(* Properties.                                                             *)
(***************************************************************************)

\* Every variable keeps its type.
TypeOK ==
  /\ conf \in 0 .. MaxSaves /\ seen \in 0 .. MaxSaves
  /\ hup \in BOOLEAN /\ usr1 \in BOOLEAN /\ marker \in BOOLEAN
  /\ phase \in Phases /\ job \in Jobs
  /\ latch \in Kinds \union {"none"}
  /\ owner \in [does : {"none", "sleep", "wait"}, kind : Kinds]
  /\ senders \in 0 .. MaxClicks /\ saving \in BOOLEAN
  /\ watch \in {"armed", "debounce", "blind"}
  /\ page \in {"none", "polling", "redirected"} /\ clicks \in 0 .. MaxClicks
  /\ {missed, owed, restarted, excused} \subseteq BOOLEAN

\* The latch never wedges (settings/mod.rs, "cannot wedge the latch and
\* silently swallow every later save"), even when pid 1 hangs in a job.
LatchReleased == (latch # "none") ~> (latch = "none")

\* A click that is not deduped into an earlier one is followed by a full
\* recycle, whether it took the latch or upgraded it, unless a failure was
\* logged ("the button's promise must never be silently dropped").
ClickServed == owed ~> (~owed \/ excused)

\* A save reaches the derived files although its own request may be deduped by
\* a recycle that has already read the configuration, or die with a WebUI that
\* is being replaced: the conf-watcher's signal makes up for it, unless the
\* save fell into the moment in which no inotifywait was running.
SavesReachDisk ==
  \A v \in 1 .. MaxSaves : (conf = v) ~> (seen >= v \/ missed \/ excused)

\* restarting.html: "we don't declare success (and redirect) until the full
\* restart".
RedirectAfterRestart == page = "redirected" => restarted

=============================================================================
