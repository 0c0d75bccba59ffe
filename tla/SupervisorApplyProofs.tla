------------------------- MODULE SupervisorApplyProofs -------------------------
(***************************************************************************)
(* The second inductive invariant of Supervisor, and the theorems it gives:*)
(* that what was saved reaches the services that run, and that the         *)
(* supervisor implements RecycleJob.                                       *)
(***************************************************************************)
EXTENDS SupervisorProofs

-----------------------------------------------------------------------------
(***************************************************************************)
(* The second inductive invariant: what each phase has applied so far.     *)
(***************************************************************************)

\* The phases in which a plan is executed.
Planned == pc \in {"stop", "sssd", "idhelper", "start", "webui", "avahi", "watcher", "finish"}

\* A phase belongs to a job; the boot and the bring-up run on a cold stack; the
\* plan of a SIGHUP to a running stack leaves SSSD alone.
JobInv ==
  /\ pc = "boot" => job = "boot" /\ ~started
  /\ Planned \/ pc \in {"generate", "hooks"} => job # "idle"
  /\ job \in {"boot", "bringup"} /\ pc \in {"generate", "hooks", "sssd", "idhelper", "start"}
       => ~started
  /\ pc \in {"stop", "sssd"} /\ job = "sighup" /\ started => ~plan.restart_sssd

\* A full recycle has the full plan, and the services it has dealt with work
\* from the derived files on disk.
FullInv ==
  job = "full" =>
    /\ Planned => plan = plan_full_recycle(hostMode)
    /\ pc \in {"idhelper", "start", "webui", "avahi", "finish"} /\ Live(procs, "sssd")
         => procs["sssd"].loaded = disk.identity
    /\ pc \in {"sssd", "idhelper", "start", "webui", "avahi", "finish"} /\ ~excused /\ ~hostMode
         /\ Live(procs, "ganesha") => procs["ganesha"].loaded = disk.exports
    /\ pc = "finish" /\ Live(procs, "avahi") => procs["avahi"].loaded = disk.adverts

\* The plan has the WebUI still to be reloaded or restarted.
WebuiDue ==
  /\ plan.webui # "Skip"
  /\ \/ pc \in {"stop", "sssd", "idhelper", "start", "webui", "watcher"}
     \/ pc = "avahi" /\ ~Recycling

\* Where contents never come back, the WebUI is never behind the fingerprint of
\* the shares, unless the job at hand is about to see to it; and the
\* fingerprint is behind the configuration only while a signal is to come.
WebuiInv ==
  /\ procs["webui"].loaded <= conf.shares /\ lastShares <= conf.shares
  /\ Planned \/ (pc \in {"tick", "respawn"} /\ outcome = "ok")
       => lastShares = conf.shares \/ Pending
  /\ Live(procs, "webui") => procs["webui"].loaded >= lastShares \/ WebuiDue
  /\ job = "boot" /\ pc \in {"boot", "generate", "hooks", "sssd", "idhelper", "start", "avahi",
                             "watcher", "webui"} => ~Live(procs, "webui")

\* The phases before Ganesha is started for the first time.
BeforeStart ==
  pc \in {"boot", "tick", "respawn", "generate", "hooks", "stop", "sssd", "idhelper", "start"}

\* Where the host mode stays, a Ganesha that runs serves the exports on disk;
\* while the hooks run the ones from before, and then the plan is not to skip
\* it if they differ.
ExportInv ==
  /\ hostMode = conf.host
  /\ ~started /\ BeforeStart => ~Live(procs, "ganesha") /\ ~procs["ganesha"].managed
  /\ ~hostMode /\ ~excused /\ Live(procs, "ganesha") =>
       /\ pc = "hooks" => procs["ganesha"].loaded = before.exports
       /\ pc = "stop" => procs["ganesha"].loaded = disk.exports \/ plan.ganesha # "Skip"
       /\ pc \notin {"hooks", "stop", "parked", "exited"}
            => procs["ganesha"].loaded = disk.exports

ApplyInv ==
  /\ JobInv
  /\ FullInv
  /\ ~Revert => WebuiInv
  /\ "host" \notin Editable => ExportInv

\* The initial state satisfies the second invariant.
LEMMA InitApply == ASSUME Init PROVE ApplyInv
  <1>1. \A s \in Services : procs[s].st = "none" /\ procs[s].loaded = 0 /\ procs[s].managed = FALSE
    BY DEF Init, NoProcs
  <1>2. /\ procs["webui"].st = "none" /\ procs["webui"].loaded = 0
        /\ procs["ganesha"].st = "none" /\ procs["ganesha"].managed = FALSE
    BY <1>1 DEF Services
  <1>3. conf.shares = 0 /\ hostMode = conf.host /\ lastShares = 0
    BY DEF Init
  <1>4. pc = "boot" /\ job = "boot" /\ ~started /\ outcome = "none"
    BY DEF Init
  <1>5. JobInv /\ FullInv
    BY <1>4 DEF JobInv, FullInv, Planned
  <1>6. WebuiInv
    BY <1>2, <1>3, <1>4 DEF WebuiInv, Planned, Live
  <1>7. ExportInv
    BY <1>2, <1>3, <1>4 DEF ExportInv, Live
  <1> QED
    BY <1>5, <1>6, <1>7 DEF ApplyInv

\* The services keep what they run from; some may be dead now.
Weakened(s) ==
  /\ Live(procs', s) => Live(procs, s)
  /\ procs'[s].loaded = procs[s].loaded
  /\ procs'[s].managed = procs[s].managed

\* A step that touches no job, in which at most processes die and signals come
\* in, preserves the second invariant.
LEMMA QuietStep ==
  ASSUME ApplyInv, Pending => Pending',
         UNCHANGED <<conf, disk, pc, job, plan, before, started, hostMode, lastShares,
                     outcome, excused>>,
         \A s \in Services : Weakened(s)
  PROVE  ApplyInv'
  <1>1. Weakened("sssd") /\ Weakened("ganesha") /\ Weakened("avahi") /\ Weakened("webui")
    BY DEF Services
  <1>2. JobInv'
    BY DEF ApplyInv, JobInv, Planned
  <1>3. FullInv'
    BY <1>1 DEF ApplyInv, FullInv, Planned, Weakened, Live
  <1>4. ~Revert => WebuiInv'
    <2> SUFFICES ASSUME ~Revert PROVE WebuiInv'
      OBVIOUS
    <2>1. WebuiInv
      BY DEF ApplyInv
    <2>2. WebuiDue => WebuiDue'
      BY DEF WebuiDue, Recycling
    <2>3. /\ procs'["webui"].loaded <= conf'.shares /\ lastShares' <= conf'.shares
          /\ (Planned \/ (pc \in {"tick", "respawn"} /\ outcome = "ok"))'
               => lastShares' = conf'.shares \/ Pending'
      BY <1>1, <2>1 DEF WebuiInv, Weakened, Planned
    <2>4. /\ Live(procs', "webui") => procs'["webui"].loaded >= lastShares' \/ WebuiDue'
          /\ job' = "boot" /\ pc' \in {"boot", "generate", "hooks", "sssd", "idhelper", "start",
                                       "avahi", "watcher", "webui"} => ~Live(procs', "webui")
      BY <1>1, <2>1, <2>2 DEF WebuiInv, Weakened
    <2> QED
      BY <2>3, <2>4 DEF WebuiInv, Live
  <1>5. "host" \notin Editable => ExportInv'
    BY <1>1 DEF ApplyInv, ExportInv, BeforeStart, Weakened, Live
  <1> QED
    BY <1>2, <1>3, <1>4, <1>5 DEF ApplyInv

\* A step of the outside world preserves the second invariant.
LEMMA EnvironmentApply == ASSUME IInv, ApplyInv, Environment PROVE ApplyInv'
  <1> TypeOK
    BY DEF IInv
  <1>0. ASSUME procs' = procs PROVE \A s \in Services : Weakened(s)
    BY <1>0 DEF Weakened
  <1>1. CASE Save
    <2>1. /\ unsignaled' = TRUE
          /\ UNCHANGED <<disk, pc, job, plan, before, started, hostMode, lastShares, outcome,
                         excused, procs>>
      BY <1>1 DEF Save, memVars, flowVars, histVars
    <2>2. PICK part \in Editable : \E v \in IF part \in Switches THEN BOOLEAN ELSE Versions :
            /\ (part \in Parts /\ ~Revert) => v > conf[part]
            /\ conf' = [conf EXCEPT ![part] = v]
      BY Zenon, <1>1 DEF Save
    <2>3. part \in Parts \union Switches
      BY SupervisorAssumption
    <2>4. ~Revert => conf'.shares >= conf.shares
      <3> SUFFICES ASSUME ~Revert PROVE conf'.shares >= conf.shares
        OBVIOUS
      <3>1. conf.shares \in Nat
        BY Zenon, SupervisorAssumption DEF TypeOK
      <3>2. CASE part = "shares"
        <4>1. "shares" \in Parts /\ "shares" \notin Switches
          BY DEF Parts, Switches
        <4>2. PICK v \in Versions : v > conf.shares /\ conf' = [conf EXCEPT !["shares"] = v]
          BY Zenon, <2>2, <3>2, <4>1
        <4>3. "shares" \in DOMAIN conf
          BY DEF TypeOK
        <4>4. conf'.shares = v /\ v \in Nat
          BY <4>2, <4>3, SupervisorAssumption
        <4> QED
          BY <3>1, <4>2, <4>4
      <3>3. CASE part # "shares"
        BY <2>2, <3>1, <3>3 DEF TypeOK
      <3> QED
        BY <3>2, <3>3
    <2>5. "host" \notin Editable => conf'.host = conf.host
      BY <2>2 DEF TypeOK
    <2>6. JobInv' /\ FullInv'
      BY <2>1 DEF ApplyInv, JobInv, FullInv, Planned, Live
    <2>7. ~Revert => WebuiInv'
      <3> SUFFICES ASSUME ~Revert PROVE WebuiInv'
        OBVIOUS
      <3>1. WebuiInv /\ conf'.shares >= conf.shares
        BY <2>4 DEF ApplyInv
      <3>2. /\ conf.shares \in Nat /\ conf'.shares \in Nat /\ lastShares \in Nat
            /\ procs["webui"].loaded \in Nat
        <4>1. conf.shares \in Nat /\ lastShares \in Nat /\ procs["webui"].loaded \in Nat
          BY Zenon, SupervisorAssumption DEF TypeOK, Process, Services
        <4>2. conf'.shares \in Versions
          BY <2>2, <2>3, SupervisorAssumption DEF TypeOK, Parts, Switches
        <4> QED
          BY Zenon, <4>1, <4>2, SupervisorAssumption
      <3>3. Pending'
        BY <2>1 DEF Pending
      <3>4. WebuiDue' <=> WebuiDue
        BY <2>1 DEF WebuiDue, Recycling
      <3>5. procs'["webui"].loaded <= conf'.shares /\ lastShares' <= conf'.shares
        BY <2>1, <3>1, <3>2 DEF WebuiInv
      <3>6. /\ Live(procs', "webui") => procs'["webui"].loaded >= lastShares' \/ WebuiDue'
            /\ job' = "boot" /\ pc' \in {"boot", "generate", "hooks", "sssd", "idhelper", "start",
                                         "avahi", "watcher", "webui"} => ~Live(procs', "webui")
        BY <2>1, <3>1, <3>4 DEF WebuiInv
      <3> QED
        BY <3>3, <3>5, <3>6 DEF WebuiInv, Live
    <2>8. "host" \notin Editable => ExportInv'
      BY <2>1, <2>5 DEF ApplyInv, ExportInv, BeforeStart, Live
    <2> QED
      BY <2>6, <2>7, <2>8 DEF ApplyInv
  <1>2. CASE SendHup \/ SendUsr1 \/ SendTerm \/ WizardDone
    <2>1. UNCHANGED <<conf, disk, pc, job, plan, before, started, hostMode, lastShares,
                      outcome, excused, procs>>
      BY <1>2 DEF SendHup, SendUsr1, SendTerm, WizardDone, confVars, memVars, flowVars, histVars
    <2>2. Pending => Pending'
      BY <1>2 DEF SendHup, SendUsr1, SendTerm, WizardDone, confVars, sigVars, Pending
    <2> QED
      BY <1>0, <2>1, <2>2, QuietStep
  <1>3. CASE Restart
    <2>1. /\ pc' = "boot" /\ job' = "boot" /\ started' = FALSE /\ lastShares' = 0
          /\ outcome' = "none" /\ hostMode' = conf.host /\ procs' = NoProcs /\ conf' = conf
      BY <1>3 DEF Restart
    <2>2. /\ procs'["webui"].st = "none" /\ procs'["webui"].loaded = 0
          /\ procs'["ganesha"].st = "none" /\ procs'["ganesha"].managed = FALSE
      BY <2>1 DEF NoProcs, Services
    <2>3. conf.shares \in Nat
      BY Zenon, SupervisorAssumption DEF TypeOK
    <2>4. JobInv' /\ FullInv'
      BY <2>1 DEF JobInv, FullInv, Planned
    <2>5. WebuiInv'
      BY <2>1, <2>2, <2>3 DEF WebuiInv, Planned, Live
    <2>6. ExportInv'
      BY <2>1, <2>2 DEF ExportInv, Live
    <2> QED
      BY <2>4, <2>5, <2>6 DEF ApplyInv
  <1>4. ASSUME NEW s \in Crashable, Exit(s) \/ StrayExits(s) PROVE ApplyInv'
    <2>1. UNCHANGED <<conf, disk, pc, job, plan, before, started, hostMode, lastShares,
                      outcome, excused>>
      BY <1>4 DEF Exit, StrayExits, confVars, memVars, flowVars, histVars
    <2>2. Pending => Pending'
      BY <1>4 DEF Exit, StrayExits, confVars, sigVars, Pending
    <2>3. \A t \in Services : Weakened(t)
      <3>1. s \in Services
        BY SupervisorAssumption
      <3> TAKE t \in Services
      <3>2. CASE Exit(s)
        BY <3>1, <3>2 DEF Exit, Weakened, Live, TypeOK, Process
      <3>3. CASE StrayExits(s)
        BY <3>1, <3>3 DEF StrayExits, Weakened, Live, TypeOK, Process
      <3> QED
        BY <1>4, <3>2, <3>3
    <2> QED
      BY <2>1, <2>2, <2>3, QuietStep
  <1> QED
    BY <1>1, <1>2, <1>3, <1>4 DEF Environment

\* The phase that follows each phase.
LEMMA AfterIs ==
  /\ After("generate") = "hooks"
  /\ After("hooks") = IF Recycling THEN "stop" ELSE "sssd"
  /\ Recycling => After("stop") = "sssd"
  /\ After("sssd") = "idhelper"
  /\ After("idhelper") = "start"
  /\ After("start") = IF Recycling THEN "webui" ELSE "avahi"
  /\ After("webui") = IF Recycling THEN "avahi" ELSE "finish"
  /\ After("avahi") = IF Recycling THEN "finish" ELSE "watcher"
  /\ ~Recycling => After("watcher") = "webui"
  BY DEF After, RecycleAfter, BringUpAfter

\* A job that ended in an error has applied nothing: Ganesha still serves what
\* was on disk, or its failure is excused.
LEMMA FailApply ==
  ASSUME IInv, ApplyInv, Fail, pc \in {"generate", "hooks"},
         ~excused' => ~excused /\ disk'.exports = IF pc = "hooks" THEN before.exports
                                                                ELSE disk.exports,
         UNCHANGED <<conf, unsignaled, hup, usr1, procs, started, hostMode, lastShares>>
  PROVE  ApplyInv'
  <1>1. pc' \in {"exited", "tick"} /\ outcome' = "err" /\ job' = "idle"
    BY DEF Fail, Return
  <1>2. JobInv' /\ FullInv'
    BY <1>1 DEF JobInv, FullInv, Planned
  <1>3. ~Revert => WebuiInv'
    <2> SUFFICES ASSUME ~Revert PROVE WebuiInv'
      OBVIOUS
    <2>1. WebuiInv /\ ~WebuiDue
      BY DEF ApplyInv, WebuiDue
    <2> QED
      BY <1>1, <2>1 DEF WebuiInv, Planned, Live
  <1>4. "host" \notin Editable => ExportInv'
    BY <1>1 DEF ApplyInv, ExportInv, BeforeStart, Live
  <1> QED
    BY <1>2, <1>3, <1>4 DEF ApplyInv

\* A parked job has nothing to keep but what the services run.
LEMMA ParkedApply ==
  ASSUME IInv, ApplyInv, pc' = "parked", pc \in {"generate", "hooks"},
         UNCHANGED <<conf, unsignaled, hup, usr1, procs, started, hostMode, lastShares, job,
                     plan, outcome, excused>>
  PROVE  ApplyInv'
  <1>1. JobInv' /\ FullInv'
    BY DEF JobInv, FullInv, Planned
  <1>2. ~Revert => WebuiInv'
    <2> SUFFICES ASSUME ~Revert PROVE WebuiInv'
      OBVIOUS
    <2>1. WebuiInv /\ ~WebuiDue
      BY DEF ApplyInv, WebuiDue
    <2> QED
      BY <2>1 DEF WebuiInv, Planned, Live
  <1>3. "host" \notin Editable => ExportInv'
    BY DEF ApplyInv, ExportInv, BeforeStart, Live
  <1> QED
    BY <1>1, <1>2, <1>3 DEF ApplyInv

\* The generator: the fingerprints it leaves are what Ganesha serves.
LEMMA GenerateApply == ASSUME IInv, ApplyInv, Generate PROVE ApplyInv'
  <1> TypeOK
    BY DEF IInv
  <1>1. /\ pc = "generate"
        /\ UNCHANGED <<conf, unsignaled, hup, usr1, procs, started, hostMode, lastShares>>
    BY Zenon DEF Generate, confVars, sigVars, memVars
  <1>2. ASSUME disk' = Rendered, before' = disk, pc' = After("generate"),
               UNCHANGED <<job, plan, belt, needWatcher, histVars>>
        PROVE  ApplyInv'
    <2>1. pc' = "hooks" /\ UNCHANGED <<outcome, excused>>
      BY <1>2, AfterIs DEF histVars
    <2>2. JobInv' /\ FullInv'
      BY <1>1, <1>2, <2>1 DEF ApplyInv, JobInv, FullInv, Planned
    <2>3. ~Revert => WebuiInv'
      <3> SUFFICES ASSUME ~Revert PROVE WebuiInv'
        OBVIOUS
      <3>1. WebuiInv /\ ~WebuiDue
        BY <1>1 DEF ApplyInv, WebuiDue
      <3> QED
        BY <1>1, <1>2, <2>1, <3>1 DEF WebuiInv, Planned, Live
    <2>4. "host" \notin Editable => ExportInv'
      BY <1>1, <1>2, <2>1 DEF ApplyInv, ExportInv, BeforeStart, Live
    <2> QED
      BY <2>2, <2>3, <2>4 DEF ApplyInv
  <1>3. ASSUME disk' \in PartlyRendered, Fail,
               excused' = (excused \/ disk'.exports # disk.exports)
        PROVE  ApplyInv'
    <2>1. ~excused' => ~excused /\ disk'.exports = disk.exports
      BY Zenon, <1>3 DEF TypeOK
    <2> QED
      BY <1>1, <1>3, <2>1, FailApply
  <1>4. ASSUME disk' \in PartlyRendered, pc' = "parked",
               UNCHANGED <<before, job, plan, belt, needWatcher, histVars>>
        PROVE  ApplyInv'
    BY <1>1, <1>4, ParkedApply DEF histVars
  <1> QED
    BY <1>2, <1>3, <1>4 DEF Generate

\* The hooks: a plan that skips Ganesha, or the WebUI, has nothing for it.
LEMMA HooksApply == ASSUME IInv, ApplyInv, Hooks PROVE ApplyInv'
  <1> TypeOK /\ procs \in Single
    BY DEF IInv
  <1>1. pc = "hooks" /\ UNCHANGED <<conf, unsignaled, disk, hup, usr1, started>>
    BY Zenon DEF Hooks, confVars, sigVars
  <1>2. ASSUME pc' = After("hooks"),
               hostMode' = (IF Recycling THEN conf.host ELSE hostMode),
               lastShares' = conf.shares,
               plan' = PlanFor(hostMode'),
               procs' = IF job = "sighup" /\ started THEN Refreshed(procs) ELSE procs,
               UNCHANGED <<job, before, needWatcher, histVars>>
        PROVE  ApplyInv'
    <2>1. pc' = IF Recycling THEN "stop" ELSE "sssd"
      BY <1>2, AfterIs
    <2>2. UNCHANGED <<job, before, outcome, excused>>
      BY <1>2 DEF histVars
    <2>3. /\ job = "sighup" /\ started =>
               /\ plan'.restart_sssd = FALSE
               /\ plan'.webui = IF before.exports # disk.exports \/ lastShares # conf.shares
                                THEN "Reload" ELSE "Skip"
               /\ plan'.ganesha = "Skip" => hostMode' \/ before.exports = disk.exports
          /\ ~(job = "sighup" /\ started) => plan' = plan_full_recycle(hostMode')
      BY <1>2 DEF PlanFor, plan_from_changes
    <2>4. plan_full_recycle(hostMode').webui = "Restart"
            /\ (plan_full_recycle(hostMode').ganesha = "Skip" => hostMode')
      BY DEF plan_full_recycle
    <2>5. /\ procs'["webui"] = procs["webui"]
          /\ procs'["ganesha"].managed = procs["ganesha"].managed
          /\ Live(procs', "ganesha") => procs'["ganesha"] = procs["ganesha"] /\ Live(procs, "ganesha")
      <3>1. /\ Only(procs, Refreshed(procs), "ganesha")
            /\ Refreshed(procs) = procs
                 \/ (~Live(procs, "ganesha") /\ ~Live(Refreshed(procs), "ganesha"))
            /\ Refreshed(procs)["ganesha"].managed = procs["ganesha"].managed
        BY GaneshaEffects
      <3> QED
        BY <1>2, <3>1 DEF Only, Services
    <2>6. JobInv'
      BY <1>1, <2>1, <2>2, <2>3 DEF ApplyInv, JobInv, Planned, Recycling
    <2>7. FullInv'
      BY <2>1, <2>2, <2>3 DEF FullInv, Recycling
    <2>8. ~Revert => WebuiInv'
      <3> SUFFICES ASSUME ~Revert PROVE WebuiInv'
        OBVIOUS
      <3>1. WebuiInv /\ ~WebuiDue
        BY <1>1 DEF ApplyInv, WebuiDue
      <3>2. lastShares' = conf'.shares /\ lastShares' <= conf'.shares
        <4>1. conf.shares \in Nat
          BY Zenon, SupervisorAssumption DEF TypeOK
        <4> QED
          BY <1>1, <1>2, <4>1
      <3>3. CASE plan'.webui # "Skip"
        <4>1. WebuiDue'
          BY <2>1, <3>3 DEF WebuiDue
        <4> QED
          BY <1>1, <2>1, <2>2, <2>5, <3>1, <3>2, <4>1 DEF WebuiInv, Live
      <3>4. CASE plan'.webui = "Skip"
        <4>1. job = "sighup" /\ lastShares = conf.shares
          BY <2>3, <2>4, <3>4
        <4> QED
          BY <1>1, <1>2, <2>1, <2>2, <2>5, <3>1, <3>2, <4>1 DEF WebuiInv, Live
      <3> QED
        BY <3>3, <3>4
    <2>9. "host" \notin Editable => ExportInv'
      <3> SUFFICES ASSUME "host" \notin Editable PROVE ExportInv'
        OBVIOUS
      <3>1. ExportInv /\ hostMode' = hostMode /\ hostMode' = conf'.host
        BY <1>1, <1>2 DEF ApplyInv, ExportInv
      <3>2. CASE Recycling
        BY <1>1, <2>1, <2>2, <2>3, <2>4, <2>5, <3>1, <3>2 DEF ExportInv, BeforeStart, Live
      <3>3. CASE ~Recycling
        <4>1. job \in {"boot", "bringup"} /\ ~started
          BY <1>1, <3>3 DEF ApplyInv, JobInv, TypeOK, Recycling
        <4>2. ~Live(procs, "ganesha")
          BY <1>1, <3>1, <4>1 DEF ExportInv, BeforeStart
        <4> QED
          BY <1>1, <2>1, <2>2, <2>5, <3>1, <3>3, <4>2 DEF ExportInv, BeforeStart, Live
      <3> QED
        BY <3>2, <3>3
    <2> QED
      BY <2>6, <2>7, <2>8, <2>9 DEF ApplyInv
  <1>3. ASSUME Fail, excused' = (excused \/ before.exports # disk.exports),
               UNCHANGED <<hostMode, lastShares, procs>>
        PROVE  ApplyInv'
    <2>1. ~excused' => ~excused /\ disk'.exports = before.exports
      BY Zenon, <1>1, <1>3 DEF TypeOK
    <2> QED
      BY Zenon, <1>1, <1>3, <2>1, FailApply
  <1>4. ASSUME pc' = "parked",
               UNCHANGED <<hostMode, lastShares, procs, job, before, plan, belt,
                           needWatcher, histVars>>
        PROVE  ApplyInv'
    BY <1>1, <1>4, ParkedApply DEF histVars
  <1> QED
    BY <1>2, <1>3, <1>4 DEF Hooks

\* What a phase after the hooks leaves alone.
LEMMA ApplyFrame ==
  ASSUME UNCHANGED phaseUnchanged
  PROVE  UNCHANGED <<conf, disk, unsignaled, hup, usr1, started, hostMode, lastShares, job,
                     before, outcome>>
  BY DEF phaseUnchanged, confVars, sigVars, memVars

\* A phase that leaves the WebUI to a later one.
LEMMA WebuiLater ==
  ASSUME WebuiInv, PhaseOfJob, Planned, Planned', pc # "finish", WebuiDue => WebuiDue',
         procs'["webui"] = procs["webui"],
         UNCHANGED <<conf, unsignaled, hup, usr1, lastShares, job>>
  PROVE  WebuiInv'
  <1>1. lastShares' = conf'.shares \/ Pending'
    BY DEF WebuiInv, Pending
  <1>2. job = "boot" => ~Live(procs, "webui")
    BY DEF WebuiInv, Planned, PhaseOfJob, Recycling
  <1> QED
    BY <1>1, <1>2 DEF WebuiInv, Live

\* The plan's order to Ganesha: reloaded, stopped, or left because the exports
\* are the ones it serves.
LEMMA StopApply == ASSUME IInv, ApplyInv, StopGanesha PROVE ApplyInv'
  <1> TypeOK /\ procs \in Single /\ PhaseOfJob
    BY DEF IInv
  <1> Recycling /\ pc = "stop" /\ pc' = "sssd"
    BY AfterIs DEF StopGanesha, PhaseOfJob
  <1> UNCHANGED <<conf, disk, unsignaled, hup, usr1, started, hostMode, lastShares, job,
                  before, outcome>>
    BY ApplyFrame DEF StopGanesha
  <1> "ganesha" \in Services
    BY DEF Services
  <1>1. /\ Only(procs, procs', "ganesha")
        /\ Live(procs', "ganesha") => Live(procs, "ganesha")
        /\ procs'["ganesha"].managed => procs["ganesha"].managed
        /\ plan' = plan \/ (plan.ganesha = "Sighup" /\ plan' = ganesha_sighup_failed(plan))
        /\ ~hostMode /\ ~excused' /\ Live(procs', "ganesha") =>
             \/ procs'["ganesha"].loaded = disk.exports
             \/ procs' = procs /\ plan.ganesha = "Skip" /\ ~excused
    <2>1. CASE (hostMode \/ plan.ganesha = "Skip") /\ UNCHANGED <<procs, plan, excused>>
      BY <2>1 DEF Only, Live
    <2>2. CASE /\ ~hostMode /\ plan.ganesha = "Sighup" /\ Live(procs, "ganesha")
               /\ procs' = Reloaded(procs, "ganesha") /\ excused' = FALSE /\ UNCHANGED plan
      <3>1. Only(procs, procs', "ganesha") /\ procs'["ganesha"].loaded = Reads("ganesha")
        BY Zenon, <2>2, BasicEffects DEF Single
      <3>2. procs'["ganesha"].managed = procs["ganesha"].managed
        BY <2>2 DEF Reloaded, Single, Tables, Process
      <3>3. Reads("ganesha") = disk.exports
        BY DEF Reads
      <3> QED
        BY <2>2, <3>1, <3>2, <3>3
    <2>3. CASE /\ ~hostMode /\ plan.ganesha = "Sighup" /\ ~Live(procs, "ganesha")
               /\ procs' = Refreshed(procs) /\ plan' = ganesha_sighup_failed(plan)
               /\ UNCHANGED excused
      <3>1. /\ Only(procs, procs', "ganesha") /\ ~Live(procs', "ganesha")
            /\ procs'["ganesha"].managed = procs["ganesha"].managed
        BY <2>3, GaneshaEffects
      <3> QED
        BY Zenon, <2>3, <3>1
    <2>4. CASE /\ ~hostMode /\ plan.ganesha = "StopStart"
               /\ procs' \in stop_ganesha(Refreshed(procs))
               /\ excused' = (excused \/ Live(procs', "ganesha")) /\ UNCHANGED plan
      <3> DEFINE p == Refreshed(procs)
      <3>1. /\ p \in Single /\ Only(procs, p, "ganesha")
            /\ p = procs \/ (~Live(procs, "ganesha") /\ ~Live(p, "ganesha"))
            /\ p["ganesha"].managed = procs["ganesha"].managed
        BY Zenon, GaneshaEffects, BasicSingle
      <3> HIDE DEF p
      <3>2. /\ Only(p, procs', "ganesha") /\ (~Live(procs', "ganesha") \/ procs' = p)
            /\ procs'["ganesha"].managed => procs' = p
        BY <2>4, <3>1, GaneshaEffects DEF p
      <3>3. Only(procs, procs', "ganesha")
        BY <3>1, <3>2 DEF Only
      <3>4. Live(procs', "ganesha") => Live(procs, "ganesha") /\ excused'
        BY Zenon, <2>4, <3>1, <3>2
      <3> QED
        BY <2>4, <3>1, <3>2, <3>3, <3>4
    <2> QED
      BY Zenon, <2>1, <2>2, <2>3, <2>4 DEF StopGanesha
  <1>2. procs'["webui"] = procs["webui"]
    BY <1>1 DEF Only, Services
  <1>3. plan'.webui = plan.webui /\ plan'.restart_sssd = plan.restart_sssd
    <2>1. plan \in ServiceRecyclePlan
      BY DEF TypeOK
    <2>2. [plan EXCEPT !.ganesha = "StopStart"].webui = plan.webui
            /\ [plan EXCEPT !.ganesha = "StopStart"].restart_sssd = plan.restart_sssd
      BY <2>1 DEF ServiceRecyclePlan
    <2> QED
      BY Zenon, <1>1, <2>2 DEF ganesha_sighup_failed
  <1>4. JobInv'
    BY Zenon, <1>3 DEF ApplyInv, JobInv, Planned, Recycling
  <1>5. FullInv'
    <2> SUFFICES ASSUME job = "full" PROVE FullInv'
      BY DEF FullInv
    <2>1. plan = plan_full_recycle(hostMode)
      BY Zenon DEF ApplyInv, FullInv, Planned
    <2>2. plan.ganesha # "Sighup" /\ (~hostMode => plan.ganesha # "Skip")
      BY <2>1 DEF plan_full_recycle
    <2> QED
      BY <1>1, <2>1, <2>2 DEF FullInv, Live
  <1>6. ~Revert => WebuiInv'
    <2>1. WebuiDue => WebuiDue'
      BY <1>3 DEF WebuiDue
    <2>2. Planned /\ Planned'
      BY DEF Planned
    <2> QED
      BY <1>2, <2>1, <2>2, WebuiLater DEF ApplyInv
  <1>7. "host" \notin Editable => ExportInv'
    <2> SUFFICES ASSUME "host" \notin Editable PROVE ExportInv'
      OBVIOUS
    <2>1. ExportInv
      BY DEF ApplyInv
    <2>2. ~started => ~Live(procs', "ganesha") /\ ~procs'["ganesha"].managed
      BY <1>1, <2>1 DEF ExportInv, BeforeStart
    <2>3. ~hostMode /\ ~excused' /\ Live(procs', "ganesha")
            => procs'["ganesha"].loaded = disk.exports
      BY <1>1, <2>1 DEF ExportInv
    <2> QED
      BY <2>1, <2>2, <2>3 DEF ExportInv, BeforeStart, Live
  <1> QED
    BY <1>4, <1>5, <1>6, <1>7 DEF ApplyInv

\* SSSD and the idhelper.
LEMMA SidecarApply == ASSUME IInv, ApplyInv, RestartSssd \/ RestartIdhelper PROVE ApplyInv'
  <1> TypeOK /\ procs \in Tables /\ PhaseOfJob
    BY DEF IInv, Single
  <1> UNCHANGED <<conf, disk, unsignaled, hup, usr1, started, hostMode, lastShares, job,
                  before, outcome, plan, excused>>
    BY ApplyFrame DEF RestartSssd, RestartIdhelper
  <1>1. \/ pc = "sssd" /\ pc' = "idhelper"
        \/ pc = "idhelper" /\ pc' = "start"
    BY AfterIs DEF RestartSssd, RestartIdhelper
  <1>2. /\ procs'["webui"] = procs["webui"] /\ procs'["ganesha"] = procs["ganesha"]
        /\ pc = "idhelper" => procs'["sssd"] = procs["sssd"]
        /\ pc = "sssd" /\ plan.restart_sssd /\ Live(procs', "sssd")
             => procs'["sssd"].loaded = disk.identity
    <2>1. CASE procs' = procs /\ (pc = "sssd" => ~plan.restart_sssd)
      BY <2>1
    <2>2. CASE pc = "sssd" /\ procs' \in restart_sssd_and_wait(procs)
      <3>1. Only(procs, procs', "sssd") /\ Fresh(procs', "sssd")
        BY <2>2, SidecarEffects
      <3>2. Reads("sssd") = disk.identity
        BY DEF Reads
      <3> QED
        BY <2>2, <3>1, <3>2 DEF Only, Fresh, Services
    <2>3. CASE pc = "idhelper" /\ procs' \in restart_idhelper_and_wait_bulk(procs)
      <3>1. Only(procs, procs', "idhelper")
        BY <2>3, SidecarEffects
      <3> QED
        BY <2>3, <3>1 DEF Only, Services
    <2> QED
      BY <2>1, <2>2, <2>3 DEF RestartSssd, RestartIdhelper
  <1>3. JobInv'
    BY <1>1 DEF ApplyInv, JobInv, Planned
  <1>4. FullInv'
    <2> SUFFICES ASSUME job = "full" PROVE FullInv'
      BY DEF FullInv
    <2>1. plan = plan_full_recycle(hostMode) /\ plan.restart_sssd
      BY <1>1 DEF ApplyInv, FullInv, Planned, plan_full_recycle
    <2> QED
      BY <1>1, <1>2, <2>1 DEF ApplyInv, FullInv, Live
  <1>5. ~Revert => WebuiInv'
    <2>1. WebuiDue => WebuiDue'
      BY <1>1 DEF WebuiDue
    <2>2. Planned /\ Planned' /\ pc # "finish"
      BY <1>1 DEF Planned
    <2> QED
      BY <1>2, <2>1, <2>2, WebuiLater DEF ApplyInv
  <1>6. "host" \notin Editable => ExportInv'
    BY <1>1, <1>2 DEF ApplyInv, ExportInv, BeforeStart, Live
  <1> QED
    BY <1>3, <1>4, <1>5, <1>6 DEF ApplyInv

\* Ganesha's start: it is spawned from the exports on disk, next to none.
LEMMA StartApply == ASSUME IInv, ApplyInv, StartGanesha PROVE ApplyInv'
  <1> TypeOK /\ procs \in Single /\ procs \in Tables /\ PhaseOfJob
    BY DEF IInv, Single
  <1> UNCHANGED <<conf, disk, unsignaled, hup, usr1, started, hostMode, lastShares, job,
                  before, outcome, plan>>
    BY ApplyFrame DEF StartGanesha
  <1>1. pc = "start" /\ pc' = (IF Recycling THEN "webui" ELSE "avahi")
    BY AfterIs DEF StartGanesha
  <1>2. /\ procs'["webui"] = procs["webui"] /\ procs'["sssd"] = procs["sssd"]
        /\ procs'["ganesha"] = procs["ganesha"]
             \/ (~Live(procs, "ganesha")
                   /\ (Live(procs', "ganesha") => procs'["ganesha"].loaded = disk.exports))
    <2>1. CASE procs' = procs
      BY <2>1
    <2>2. CASE ~Live(procs, "ganesha")
                 /\ \E q \in ensure_ganesha_prereqs(procs) : procs' \in start_ganesha(q)
      <3>1. PICK q \in ensure_ganesha_prereqs(procs) : procs' \in start_ganesha(q)
        BY <2>2
      <3>2. q \in Single /\ Only(procs, q, "dbus")
        BY SidecarEffects, OperationsSingle
      <3>3. Only(q, procs', "ganesha") /\ (Fresh(procs', "ganesha") \/ procs' = q)
        BY <3>1, <3>2, GaneshaEffects
      <3>4. Reads("ganesha") = disk.exports
        BY DEF Reads
      <3>5. q["ganesha"] = procs["ganesha"] /\ q["webui"] = procs["webui"]
              /\ q["sssd"] = procs["sssd"]
        BY <3>2 DEF Only, Services
      <3>6. procs'["webui"] = q["webui"] /\ procs'["sssd"] = q["sssd"]
        BY <3>3 DEF Only, Services
      <3> QED
        BY <2>2, <3>3, <3>4, <3>5, <3>6 DEF Fresh
    <2> QED
      BY <2>1, <2>2 DEF StartGanesha
  <1>3. excused' = (excused /\ ~(Live(procs', "ganesha") /\ ~Live(procs, "ganesha")))
    BY DEF StartGanesha, Served
  <1>4. JobInv'
    BY <1>1 DEF ApplyInv, JobInv, Planned
  <1>5. FullInv'
    BY <1>1, <1>2, <1>3 DEF ApplyInv, FullInv, Planned, Live, TypeOK
  <1>6. ~Revert => WebuiInv'
    <2>1. WebuiDue => WebuiDue'
      BY <1>1 DEF WebuiDue, Recycling
    <2>2. Planned /\ Planned' /\ pc # "finish"
      BY <1>1 DEF Planned
    <2> QED
      BY Zenon, <1>2, <2>1, <2>2, WebuiLater DEF ApplyInv
  <1>7. "host" \notin Editable => ExportInv'
    BY Zenon, <1>1, <1>2, <1>3 DEF ApplyInv, ExportInv, BeforeStart, Live, TypeOK
  <1> QED
    BY <1>4, <1>5, <1>6, <1>7 DEF ApplyInv

\* The WebUI: what runs after its phase has read the shares.
LEMMA WebuiApply == ASSUME IInv, ApplyInv, StartWebui PROVE ApplyInv'
  <1> TypeOK /\ procs \in Tables /\ PhaseOfJob
    BY DEF IInv, Single
  <1> UNCHANGED <<conf, disk, unsignaled, hup, usr1, started, hostMode, lastShares, job,
                  before, outcome, plan, excused>>
    BY ApplyFrame DEF StartWebui
  <1>1. pc = "webui" /\ pc' = (IF Recycling THEN "avahi" ELSE "finish")
    BY AfterIs DEF StartWebui
  <1>2. /\ Only(procs, procs', "webui")
        /\ \/ procs' = procs /\ (plan.webui = "Skip" \/ job = "boot")
           \/ /\ Live(procs', "webui") => procs'["webui"].loaded = conf.shares
              /\ procs'["webui"].loaded \in {procs["webui"].loaded, conf.shares}
    <2>1. CASE procs' = procs /\ (plan.webui = "Skip" \/ job = "boot")
      BY <2>1 DEF Only
    <2>2. CASE procs' \in start_webui(procs) \union reload_webui(procs)
      <3>1. /\ Only(procs, procs', "webui") /\ Fresh(procs', "webui")
            /\ procs'["webui"].loaded \in {procs["webui"].loaded, Reads("webui")}
        BY Zenon, <2>2, SidecarEffects
      <3>2. Reads("webui") = conf.shares
        BY DEF Reads
      <3> QED
        BY <3>1, <3>2 DEF Fresh
    <2> QED
      BY <2>1, <2>2 DEF StartWebui
  <1>3. procs'["sssd"] = procs["sssd"] /\ procs'["ganesha"] = procs["ganesha"]
          /\ procs'["avahi"] = procs["avahi"]
    BY <1>2 DEF Only, Services
  <1>4. JobInv'
    BY <1>1 DEF ApplyInv, JobInv, Planned
  <1>5. FullInv'
    BY <1>1, <1>3 DEF ApplyInv, FullInv, Planned, Live, Recycling
  <1>6. ~Revert => WebuiInv'
    <2> SUFFICES ASSUME ~Revert PROVE WebuiInv'
      OBVIOUS
    <2>1. WebuiInv
      BY DEF ApplyInv
    <2>2. conf.shares \in Nat /\ lastShares \in Nat /\ procs["webui"].loaded \in Nat
      BY Zenon, SupervisorAssumption DEF Tables, Process, Services, TypeOK
    <2>3. lastShares' = conf'.shares \/ Pending'
      BY <1>1, <2>1 DEF WebuiInv, Planned, Pending
    <2>4. job = "boot" => ~Live(procs, "webui")
      BY <1>1, <2>1 DEF WebuiInv
    <2>5. Live(procs', "webui") => procs'["webui"].loaded >= lastShares'
      <3>1. CASE procs' = procs /\ (plan.webui = "Skip" \/ job = "boot")
        BY <2>1, <2>4, <3>1 DEF WebuiInv, WebuiDue
      <3>2. CASE Live(procs', "webui") => procs'["webui"].loaded = conf.shares
        BY <2>1, <2>2, <3>2 DEF WebuiInv
      <3> QED
        BY <1>2, <3>1, <3>2
    <2>6. procs'["webui"].loaded <= conf'.shares /\ lastShares' <= conf'.shares
      BY <1>2, <2>1, <2>2 DEF WebuiInv
    <2>7. ~(job' = "boot" /\ pc' = "avahi")
      BY <1>1 DEF Recycling
    <2> QED
      BY <1>1, <2>3, <2>5, <2>6, <2>7 DEF WebuiInv, Live
  <1>7. "host" \notin Editable => ExportInv'
    BY <1>1, <1>3 DEF ApplyInv, ExportInv, BeforeStart, Live
  <1> QED
    BY <1>4, <1>5, <1>6, <1>7 DEF ApplyInv

\* Avahi: a full recycle stops it and starts it from the adverts on disk.
LEMMA AvahiApply == ASSUME IInv, ApplyInv, RestartAvahi PROVE ApplyInv'
  <1> TypeOK /\ procs \in Tables /\ PhaseOfJob
    BY DEF IInv, Single
  <1> UNCHANGED <<conf, disk, unsignaled, hup, usr1, started, hostMode, lastShares, job,
                  before, outcome, plan, excused>>
    BY ApplyFrame DEF RestartAvahi
  <1>1. pc = "avahi" /\ pc' = (IF Recycling THEN "finish" ELSE "watcher")
    BY AfterIs DEF RestartAvahi
  <1>2. /\ Only(procs, procs', "avahi")
        /\ plan.restart_avahi /\ Live(procs', "avahi") => procs'["avahi"].loaded = disk.adverts
    <2>1. CASE procs' = procs /\ ~plan.restart_avahi
      BY <2>1 DEF Only
    <2>2. CASE procs' = Reloaded(procs, "avahi") /\ ~plan.restart_avahi
      BY Zenon, <2>2, BasicEffects DEF Services
    <2>3. CASE \E q \in stop_avahi(procs) : procs' \in start_avahi(q)
      <3>1. Only(procs, procs', "avahi") /\ Fresh(procs', "avahi")
        BY <2>3, AvahiEffects
      <3>2. Reads("avahi") = disk.adverts
        BY DEF Reads
      <3> QED
        BY Zenon, <3>1, <3>2 DEF Fresh
    <2> QED
      BY <2>1, <2>2, <2>3 DEF RestartAvahi
  <1>3. procs'["sssd"] = procs["sssd"] /\ procs'["ganesha"] = procs["ganesha"]
          /\ procs'["webui"] = procs["webui"]
    BY <1>2 DEF Only, Services
  <1>4. JobInv'
    BY <1>1 DEF ApplyInv, JobInv, Planned
  <1>5. FullInv'
    <2> SUFFICES ASSUME job = "full" PROVE FullInv'
      BY DEF FullInv
    <2>1. plan = plan_full_recycle(hostMode) /\ plan.restart_avahi
      BY <1>1 DEF ApplyInv, FullInv, Planned, plan_full_recycle
    <2> QED
      BY Zenon, <1>1, <1>2, <1>3, <2>1 DEF ApplyInv, FullInv, Live
  <1>6. ~Revert => WebuiInv'
    <2>1. WebuiDue => WebuiDue'
      BY <1>1 DEF WebuiDue, Recycling
    <2>2. Planned /\ Planned' /\ pc # "finish"
      BY <1>1 DEF Planned
    <2> QED
      BY <1>3, <2>1, <2>2, WebuiLater DEF ApplyInv
  <1>7. "host" \notin Editable => ExportInv'
    BY Zenon, <1>1, <1>3 DEF ApplyInv, ExportInv, BeforeStart, Live
  <1> QED
    BY <1>4, <1>5, <1>6, <1>7 DEF ApplyInv

\* The watcher, and the end of a job.
LEMMA FinishApply == ASSUME IInv, ApplyInv, StartWatcher \/ Finish PROVE ApplyInv'
  <1> TypeOK /\ procs \in Single /\ procs \in Tables /\ PhaseOfJob
    BY DEF IInv, Single
  <1>1. CASE StartWatcher
    <2>1. /\ pc = "watcher" /\ pc' = After("watcher") /\ started' = TRUE
          /\ procs' \in UNION {start_watcher(q) : q \in wait_for_ganesha_readiness(procs)}
          /\ UNCHANGED <<conf, disk, unsignaled, hup, usr1, hostMode, lastShares,
                         job, before, plan, outcome, excused>>
      BY <1>1 DEF StartWatcher, confVars, sigVars, flowVars, histVars
    <2>2. ~Recycling /\ pc' = "webui"
      BY <2>1, AfterIs DEF PhaseOfJob
    <2>3. /\ procs'["webui"] = procs["webui"]
          /\ Live(procs', "ganesha") => procs'["ganesha"] = procs["ganesha"]
      <3>1. PICK q \in wait_for_ganesha_readiness(procs) : procs' \in start_watcher(q)
        BY <2>1
      <3>2. q = procs \/ q = Refreshed(procs)
        BY DEF wait_for_ganesha_readiness
      <3>3. q \in Tables
        BY Zenon, <3>2, BasicTables DEF Services
      <3>4. Only(q, procs', "watcher")
        BY <3>1, <3>3, AvahiEffects
      <3>5. /\ Only(procs, Refreshed(procs), "ganesha")
            /\ Refreshed(procs) = procs \/ ~Live(Refreshed(procs), "ganesha")
        BY GaneshaEffects
      <3> QED
        BY <3>2, <3>4, <3>5 DEF Only, Services, Live
    <2>4. JobInv' /\ FullInv'
      BY Zenon, <2>1, <2>2 DEF ApplyInv, JobInv, FullInv, Planned, Recycling
    <2>5. ~Revert => WebuiInv'
      <3>1. WebuiDue => WebuiDue'
        BY <2>1, <2>2 DEF WebuiDue
      <3>2. Planned /\ Planned' /\ pc # "finish"
        BY <2>1, <2>2 DEF Planned
      <3> QED
        BY Zenon, <2>1, <2>3, <3>1, <3>2, WebuiLater DEF ApplyInv
    <2>6. "host" \notin Editable => ExportInv'
      BY Zenon, <2>1, <2>2, <2>3 DEF ApplyInv, ExportInv, BeforeStart, Live
    <2> QED
      BY <2>4, <2>5, <2>6 DEF ApplyInv
  <1>2. CASE Finish
    <2>1. /\ pc = "finish" /\ pc' = "tick" /\ started' = TRUE /\ outcome' = "ok" /\ job' = "idle"
          /\ UNCHANGED <<conf, disk, unsignaled, hup, usr1, hostMode, lastShares, excused>>
      BY <1>2 DEF Finish, Return, confVars, sigVars
    <2>2. procs'["webui"] = procs["webui"] /\ procs'["ganesha"] = procs["ganesha"]
      <3> DEFINE first == IF Recycling /\ ~started THEN start_watcher(procs) ELSE {procs}
      <3>1. \A p \in first : p \in Tables /\ Only(procs, p, "watcher")
        <4>1. \A p \in start_watcher(procs) : p \in Tables
          BY OperationsSingle DEF Single
        <4>2. Only(procs, procs, "watcher")
          BY DEF Only
        <4> QED
          BY <4>1, <4>2, AvahiEffects
      <3>2. procs' \in IF needWatcher THEN UNION {start_watcher(p) : p \in first} ELSE first
        BY <1>2 DEF Finish
      <3> HIDE DEF first
      <3>3. \E p \in first : procs' = p \/ procs' \in start_watcher(p)
        BY <3>2
      <3>4. \A p \in first : \A r \in start_watcher(p) : Only(p, r, "watcher")
        BY <3>1, AvahiEffects
      <3> QED
        BY <3>1, <3>3, <3>4 DEF Only, Services
    <2>3. JobInv' /\ FullInv'
      BY <2>1 DEF JobInv, FullInv, Planned
    <2>4. ~Revert => WebuiInv'
      <3> SUFFICES ASSUME ~Revert PROVE WebuiInv'
        OBVIOUS
      <3>1. WebuiInv /\ ~WebuiDue
        BY <2>1 DEF ApplyInv, WebuiDue
      <3>2. lastShares' = conf'.shares \/ Pending'
        BY <2>1, <3>1 DEF WebuiInv, Planned, Pending
      <3> QED
        BY <2>1, <2>2, <3>1, <3>2 DEF WebuiInv, Live
    <2>5. "host" \notin Editable => ExportInv'
      BY <2>1, <2>2 DEF ApplyInv, ExportInv, BeforeStart, Live
    <2> QED
      BY <2>3, <2>4, <2>5 DEF ApplyInv
  <1> QED
    BY <1>1, <1>2

-----------------------------------------------------------------------------
(***************************************************************************)
(* The loop of pid 1 preserves the second invariant.                       *)
(***************************************************************************)

\* The job a tick takes on: the stack is only brought up while it is down.
LEMMA TickCold ==
  ASSUME NEW ready \in BOOLEAN
  PROVE  supervisor_loop_tick(started, hup, usr1, wizard, ready) = "bringup" => ~started
  BY DEF supervisor_loop_tick, should_bring_up_services

\* What the idle pass does: it replaces one service that is down, Ganesha from
\* the exports on disk, the WebUI from the shares.
LEMMA RespawnEffects ==
  ASSUME IInv, NEW i \in 1 .. Len(RespawnOrder), Respawn(i)
  PROVE  /\ procs'["ganesha"] = procs["ganesha"]
              \/ (/\ procs["ganesha"].managed /\ ~Live(procs, "ganesha")
                  /\ Live(procs', "ganesha") => procs'["ganesha"].loaded = disk.exports)
         /\ procs'["webui"] = procs["webui"]
              \/ (/\ Live(procs', "webui") => procs'["webui"].loaded = conf.shares
                  /\ procs'["webui"].loaded \in {procs["webui"].loaded, conf.shares})
         /\ procs'["sssd"] = procs["sssd"] \/ ~Live(procs, "sssd")
  <1> TypeOK /\ procs \in Single /\ procs \in Tables
    BY DEF IInv, Single
  <1> DEFINE s == RespawnOrder[i]
  <1>1. s \in Services
    BY DEF RespawnOrder, Services
  <1>2. procs' \in respawn_service(s) /\ respawn_needed(s)
    BY DEF Respawn, Reaches
  <1> HIDE DEF s
  <1>3. Reads("ganesha") = disk.exports /\ Reads("webui") = conf.shares
    BY DEF Reads
  <1>4. CASE s = "webui"
    <2>1. procs' \in start_webui(procs)
      BY <1>2, <1>4 DEF respawn_service
    <2>2. /\ Only(procs, procs', "webui") /\ Fresh(procs', "webui")
          /\ procs'["webui"].loaded \in {procs["webui"].loaded, Reads("webui")}
      BY <2>1, SidecarEffects
    <2> QED
      BY <1>3, <2>2 DEF Only, Fresh, Services
  <1>5. CASE s = "ganesha"
    <2>1. procs' \in start_ganesha(procs) /\ procs["ganesha"].managed /\ ~Live(procs, "ganesha")
      BY <1>2, <1>5 DEF respawn_service, respawn_needed
    <2>2. Only(procs, procs', "ganesha") /\ (Fresh(procs', "ganesha") \/ procs' = procs)
      BY <2>1, GaneshaEffects
    <2> QED
      BY <1>3, <2>1, <2>2 DEF Only, Fresh, Services
  <1>6. CASE s = "sssd"
    <2>1. procs' \in restart_sssd_and_wait(procs) /\ ~Live(procs, "sssd")
      BY <1>2, <1>6 DEF respawn_service, respawn_needed, Live
    <2>2. Only(procs, procs', "sssd")
      BY <2>1, SidecarEffects
    <2> QED
      BY <2>1, <2>2 DEF Only, Services
  <1>7. CASE s \in {"dbus", "idhelper", "watcher", "avahi"}
    <2>1. \/ procs' \in ensure_ganesha_prereqs(procs)
          \/ procs' \in restart_idhelper_and_wait_bulk(procs)
          \/ procs' \in start_watcher(procs)
          \/ procs' \in start_avahi(procs)
      BY <1>2, <1>7 DEF respawn_service
    <2>2. \E t \in {"dbus", "idhelper", "watcher", "avahi"} : Only(procs, procs', t)
      BY Zenon, <2>1, SidecarEffects, AvahiEffects
    <2> QED
      BY Zenon, <2>2 DEF Only, Services
  <1> QED
    BY Zenon, <1>1, <1>4, <1>5, <1>6, <1>7 DEF Services

\* A step of the boot, of the loop or of the idle pass preserves the second
\* invariant.
LEMMA LoopApply == ASSUME IInv, ApplyInv, Loop PROVE ApplyInv'
  <1> TypeOK /\ procs \in Single /\ procs \in Tables /\ PhaseOfJob
    BY DEF IInv, Single
  <1>1. CASE BootPreconfigured
    <2>1. /\ pc = "boot" /\ pc' = "generate"
          /\ UNCHANGED <<conf, unsignaled, disk, hup, usr1, procs, started, hostMode, lastShares,
                         job, before, plan, outcome, excused>>
      BY <1>1 DEF BootPreconfigured, confVars, sigVars, memVars, flowVars, histVars
    <2>2. JobInv' /\ FullInv'
      BY Zenon, <2>1 DEF ApplyInv, JobInv, FullInv, Planned
    <2>3. ~Revert => WebuiInv'
      BY Zenon, <2>1 DEF ApplyInv, JobInv, WebuiInv, Planned, Live
    <2>4. "host" \notin Editable => ExportInv'
      BY Zenon, <2>1 DEF ApplyInv, ExportInv, BeforeStart, Live
    <2> QED
      BY <2>2, <2>3, <2>4 DEF ApplyInv
  <1>2. CASE BootWizard
    <2>1. /\ pc = "boot" /\ pc' \in {"tick", "exited"} /\ procs' \in start_webui(procs)
          /\ UNCHANGED <<conf, unsignaled, disk, hup, usr1, started, hostMode, lastShares,
                         job, before, plan, outcome, excused>>
      BY <1>2 DEF BootWizard, confVars, sigVars, memVars, flowVars, histVars
    <2>2. /\ Only(procs, procs', "webui") /\ Fresh(procs', "webui")
          /\ procs'["webui"].loaded \in {procs["webui"].loaded, Reads("webui")}
      BY Zenon, <2>1, SidecarEffects
    <2>3. Reads("webui") = conf.shares
      BY DEF Reads
    <2>4. procs'["ganesha"] = procs["ganesha"]
      BY Zenon, <2>2 DEF Only, Services
    <2>5. JobInv' /\ FullInv'
      BY Zenon, <2>1 DEF ApplyInv, JobInv, FullInv, Planned
    <2>6. ~Revert => WebuiInv'
      <3> SUFFICES ASSUME ~Revert PROVE WebuiInv'
        OBVIOUS
      <3>1. WebuiInv /\ outcome # "ok"
        BY <2>1 DEF ApplyInv, PhaseOfJob
      <3>2. conf.shares \in Nat
        BY Zenon, SupervisorAssumption DEF TypeOK
      <3>3. procs'["webui"].loaded <= conf'.shares /\ lastShares' <= conf'.shares
        <4>1. procs["webui"].loaded <= conf.shares /\ lastShares <= conf.shares
          BY <3>1 DEF WebuiInv
        <4> QED
          BY <2>1, <2>2, <2>3, <3>2, <4>1
      <3>4. Live(procs', "webui") => procs'["webui"].loaded >= lastShares'
        BY <2>1, <2>2, <2>3, <3>1 DEF WebuiInv, Fresh
      <3> QED
        BY <2>1, <3>1, <3>3, <3>4 DEF WebuiInv, Planned, Live
    <2>7. "host" \notin Editable => ExportInv'
      BY <2>1, <2>4 DEF ApplyInv, ExportInv, BeforeStart, Live
    <2> QED
      BY <2>5, <2>6, <2>7 DEF ApplyInv
  <1>3. CASE Tick
    <2>1. /\ pc = "tick"
          /\ UNCHANGED <<conf, unsignaled, disk, started, hostMode, lastShares, before, plan,
                         outcome, excused>>
      BY Zenon, <1>3 DEF Tick, confVars, memVars, histVars
    <2>2. /\ job' \in {"bringup", "full", "sighup", "idle"}
          /\ job' = "idle" => ~hup /\ ~usr1
          /\ job' = "bringup" => ~started
      BY Zenon, <1>3, TickJob, TickCold DEF Tick
    <2>3. pc' = IF job' = "idle" THEN "respawn" ELSE "generate"
      BY <1>3 DEF Tick
    <2>4. /\ procs'["webui"] = procs["webui"]
          /\ procs'["ganesha"].managed = procs["ganesha"].managed
          /\ Live(procs', "ganesha") => procs'["ganesha"] = procs["ganesha"]
      <3>1. /\ Only(procs, Refreshed(procs), "ganesha")
            /\ Refreshed(procs) = procs \/ ~Live(Refreshed(procs), "ganesha")
            /\ Refreshed(procs)["ganesha"].managed = procs["ganesha"].managed
        BY GaneshaEffects
      <3>2. procs' = Refreshed(procs) \/ procs' = procs
        BY <1>3 DEF Tick
      <3> QED
        BY <3>1, <3>2 DEF Only, Services
    <2>5. JobInv' /\ FullInv'
      BY <2>1, <2>2, <2>3 DEF JobInv, FullInv, Planned
    <2>6. ~Revert => WebuiInv'
      <3> SUFFICES ASSUME ~Revert PROVE WebuiInv'
        OBVIOUS
      <3>1. WebuiInv /\ ~WebuiDue
        BY <2>1 DEF ApplyInv, WebuiDue
      <3>2. pc' = "respawn" /\ outcome' = "ok" => lastShares' = conf'.shares \/ Pending'
        BY <2>1, <2>2, <2>3, <3>1 DEF WebuiInv, Pending
      <3> QED
        BY <2>1, <2>2, <2>3, <2>4, <3>1, <3>2 DEF WebuiInv, Planned, Live
    <2>7. "host" \notin Editable => ExportInv'
      BY <2>1, <2>3, <2>4 DEF ApplyInv, ExportInv, BeforeStart, Live
    <2> QED
      BY <2>5, <2>6, <2>7 DEF ApplyInv
  <1>4. CASE Shutdown
    <2>1. /\ pc = "tick" /\ pc' = "exited"
          /\ UNCHANGED <<conf, hostMode, lastShares>>
      BY Zenon, <1>4 DEF Shutdown, confVars, memVars
    <2>2. procs'["webui"].st = "none" /\ procs'["webui"].loaded = procs["webui"].loaded
            /\ procs'["ganesha"].st = "none"
      <3>1. procs["webui"] \in Process /\ procs["ganesha"] \in Process
        BY DEF Tables, Services
      <3>2. /\ procs'["webui"] = [procs["webui"] EXCEPT !.st = "none", !.stray = 0, !.managed = FALSE]
            /\ procs'["ganesha"]
                 = [procs["ganesha"] EXCEPT !.st = "none", !.stray = 0, !.managed = FALSE]
        BY <1>4 DEF Shutdown, Services
      <3> QED
        BY <3>1, <3>2 DEF Process
    <2>3. JobInv' /\ FullInv'
      BY Zenon, <2>1 DEF JobInv, FullInv, Planned
    <2>4. ~Revert => WebuiInv'
      BY <2>1, <2>2 DEF ApplyInv, WebuiInv, Planned, Live
    <2>5. "host" \notin Editable => ExportInv'
      BY <2>1, <2>2 DEF ApplyInv, ExportInv, BeforeStart, Live
    <2> QED
      BY <2>3, <2>4, <2>5 DEF ApplyInv
  <1>5. ASSUME NEW i \in 1 .. Len(RespawnOrder), Respawn(i) PROVE ApplyInv'
    <2>1. /\ pc = "respawn" /\ pc' = "respawn"
          /\ UNCHANGED <<conf, unsignaled, disk, hup, usr1, started, hostMode, lastShares,
                         job, before, plan, outcome>>
          /\ excused' = (excused /\ ~(Live(procs', "ganesha") /\ ~Live(procs, "ganesha")))
      BY <1>5 DEF Respawn, Served, confVars, sigVars, memVars
    <2>2. /\ procs'["ganesha"] = procs["ganesha"]
               \/ (/\ procs["ganesha"].managed /\ ~Live(procs, "ganesha")
                   /\ Live(procs', "ganesha") => procs'["ganesha"].loaded = disk.exports)
          /\ procs'["webui"] = procs["webui"]
               \/ (/\ Live(procs', "webui") => procs'["webui"].loaded = conf.shares
                   /\ procs'["webui"].loaded \in {procs["webui"].loaded, conf.shares})
      BY Zenon, <1>5, RespawnEffects
    <2>3. JobInv' /\ FullInv'
      BY Zenon, <2>1 DEF ApplyInv, JobInv, FullInv, Planned
    <2>4. ~Revert => WebuiInv'
      <3> SUFFICES ASSUME ~Revert PROVE WebuiInv'
        OBVIOUS
      <3>1. WebuiInv /\ ~WebuiDue
        BY <2>1 DEF ApplyInv, WebuiDue
      <3>2. conf.shares \in Nat /\ lastShares \in Nat /\ procs["webui"].loaded \in Nat
        BY Zenon, SupervisorAssumption DEF Tables, Process, Services, TypeOK
      <3>3. procs'["webui"].loaded \in {procs["webui"].loaded, conf.shares}
        BY <2>2
      <3>4. procs'["webui"].loaded <= conf'.shares /\ lastShares' <= conf'.shares
        BY <2>1, <3>1, <3>2, <3>3 DEF WebuiInv
      <3>5. Live(procs', "webui") => procs'["webui"].loaded >= lastShares'
        <4>1. CASE procs'["webui"] = procs["webui"]
          BY <2>1, <3>1, <4>1 DEF WebuiInv, Live
        <4>2. CASE Live(procs', "webui") => procs'["webui"].loaded = conf.shares
          BY <2>1, <3>1, <3>2, <4>2 DEF WebuiInv
        <4> QED
          BY <2>2, <4>1, <4>2
      <3>6. outcome' = "ok" => lastShares' = conf'.shares \/ Pending'
        BY <2>1, <3>1 DEF WebuiInv, Pending
      <3> QED
        BY <2>1, <3>4, <3>5, <3>6 DEF WebuiInv, Planned, Live
    <2>5. "host" \notin Editable => ExportInv'
      BY Zenon, <2>1, <2>2 DEF ApplyInv, ExportInv, BeforeStart, Live, TypeOK
    <2> QED
      BY <2>3, <2>4, <2>5 DEF ApplyInv
  <1>6. ASSUME NEW i \in 1 .. Len(RespawnOrder), PassOver(i) PROVE ApplyInv'
    <2>1. UNCHANGED <<conf, unsignaled, disk, hup, usr1, procs, started, hostMode, lastShares,
                      pc, job, before, plan, outcome, excused>>
      BY <1>6 DEF PassOver, confVars, sigVars, memVars, histVars
    <2> QED
      BY <2>1, QuietStep DEF Pending, Weakened
  <1>7. CASE EndPass
    <2>1. /\ pc = "respawn" /\ pc' = "tick"
          /\ UNCHANGED <<conf, unsignaled, disk, hup, usr1, procs, started, hostMode, lastShares,
                         job, before, plan, outcome, excused>>
      BY <1>7 DEF EndPass, confVars, sigVars, memVars, histVars
    <2>2. JobInv' /\ FullInv'
      BY <2>1 DEF JobInv, FullInv, Planned
    <2>3. ~Revert => WebuiInv'
      <3> SUFFICES ASSUME ~Revert PROVE WebuiInv'
        OBVIOUS
      <3>1. WebuiInv /\ ~WebuiDue /\ (Pending' <=> Pending)
        BY <2>1 DEF ApplyInv, WebuiDue, Pending
      <3> QED
        BY <2>1, <3>1 DEF WebuiInv, Planned, Live
    <2>4. "host" \notin Editable => ExportInv'
      BY <2>1 DEF ApplyInv, ExportInv, BeforeStart, Live
    <2> QED
      BY <2>2, <2>3, <2>4 DEF ApplyInv
  <1> QED
    BY <1>1, <1>2, <1>3, <1>4, <1>5, <1>6, <1>7 DEF Loop

\* Both invariants hold in every reachable state.
THEOREM ApplyInvariance == Spec => [](IInv /\ ApplyInv)
  <1>1. Init => ApplyInv
    BY InitApply
  <1>2. IInv /\ ApplyInv /\ [Next]_vars => ApplyInv'
    <2> SUFFICES ASSUME IInv, ApplyInv, [Next]_vars PROVE ApplyInv'
      OBVIOUS
    <2>1. CASE Environment
      BY <2>1, EnvironmentApply
    <2>2. CASE Phase
      BY <2>2, GenerateApply, HooksApply, StopApply, SidecarApply, StartApply, WebuiApply,
         AvahiApply, FinishApply DEF Phase
    <2>3. CASE Loop
      BY <2>3, LoopApply
    <2>4. CASE UNCHANGED vars
      <3>1. UNCHANGED <<conf, unsignaled, disk, hup, usr1, procs, started, hostMode, lastShares,
                        pc, job, before, plan, outcome, excused>>
        BY <2>4 DEF vars
      <3> QED
        BY <3>1, QuietStep DEF Pending, Weakened
    <2> QED
      BY <2>1, <2>2, <2>3, <2>4 DEF Next
  <1> QED
    BY <1>1, <1>2, Invariance, PTL DEF Spec

\* Ganesha serves the exports of the current configuration once all is quiet,
\* unless a logged failure kept them from it.  The host mode must stay: a
\* Ganesha that ran before the switch to the host's NFS server is neither
\* stopped nor told of new exports, and is found stale after the switch back.
THEOREM ExportsReachGanesha ==
  ASSUME "host" \notin Editable
  PROVE  Spec => []ExportsServed
  <1>1. IInv /\ ApplyInv => ExportsServed
    <2> SUFFICES ASSUME IInv, ApplyInv, Quiet, outcome = "ok", Live(procs, "ganesha"),
                        ~hostMode, ~excused
                 PROVE  procs["ganesha"].loaded = conf.exports
      BY DEF ExportsServed
    <2>1. procs["ganesha"].loaded = disk.exports
      BY Zenon DEF ApplyInv, ExportInv, Quiet
    <2>2. disk = Rendered
      BY DEF IInv, InSync, Pending, Quiet
    <2> QED
      BY Zenon, <2>1, <2>2 DEF Rendered
  <1> QED
    BY <1>1, ApplyInvariance, PTL

\* The WebUI works from the shares of the current configuration once all is
\* quiet, whatever failed, where a save never restores earlier contents.
THEOREM WebuiFollows ==
  ASSUME ~Revert
  PROVE  Spec => []WebuiCurrent
  <1>1. IInv /\ ApplyInv => WebuiCurrent
    <2> SUFFICES ASSUME IInv, ApplyInv, Quiet, outcome = "ok", Live(procs, "webui")
                 PROVE  procs["webui"].loaded = conf.shares
      BY DEF WebuiCurrent
    <2>1. WebuiInv /\ ~WebuiDue
      BY DEF ApplyInv, WebuiDue, Quiet
    <2>2. lastShares = conf.shares
      BY <2>1 DEF WebuiInv, Quiet, Pending
    <2>3. procs["webui"].loaded \in Nat /\ conf.shares \in Nat
      BY Zenon, SupervisorAssumption DEF IInv, TypeOK, Process, Services
    <2> QED
      BY <2>1, <2>2, <2>3 DEF WebuiInv
  <1> QED
    BY <1>1, ApplyInvariance, PTL

\* A full recycle that reaches its end has left no service on older derived
\* files, whatever failed before it and whatever crashed during it.
THEOREM FullRecycleReaches == Spec => []FullRecycleApplies
  <1>1. IInv /\ ApplyInv => FullRecycleApplies
    <2>1. Reads("sssd") = disk.identity /\ Reads("ganesha") = disk.exports
            /\ Reads("avahi") = disk.adverts
      BY DEF Reads
    <2> QED
      BY <2>1 DEF ApplyInv, FullInv, FullRecycleApplies, Live
  <1> QED
    BY <1>1, ApplyInvariance, PTL

-----------------------------------------------------------------------------
(***************************************************************************)
(* Steps.                                                                  *)
(***************************************************************************)

\* A phase of a job replaces a running SSSD only where the plan says so.
LEMMA PhaseSssd ==
  ASSUME IInv, Phase
  PROVE  procs'["sssd"] = procs["sssd"] \/ (pc = "sssd" /\ plan.restart_sssd)
  <1> TypeOK /\ procs \in Single /\ procs \in Tables
    BY DEF IInv, Single
  <1> "ganesha" \in Services
    BY DEF Services
  <1>0. ASSUME NEW t \in {"ganesha", "webui", "avahi", "idhelper", "watcher"},
               NEW p, NEW r, Only(p, r, t)
        PROVE  r["sssd"] = p["sssd"]
    BY <1>0 DEF Only, Services
  <1>1. CASE Generate
    BY <1>1 DEF Generate
  <1>2. CASE Hooks
    <2>1. procs' = procs \/ procs' = Refreshed(procs)
      BY <1>2 DEF Hooks
    <2> QED
      BY <1>0, <2>1, GaneshaEffects
  <1>3. CASE StopGanesha
    <2>1. Refreshed(procs) \in Single /\ Only(procs, Refreshed(procs), "ganesha")
      BY Zenon, GaneshaEffects, BasicSingle
    <2>2. Only(procs, Reloaded(procs, "ganesha"), "ganesha")
      BY Zenon, BasicEffects
    <2>3. \A r \in stop_ganesha(Refreshed(procs)) : Only(Refreshed(procs), r, "ganesha")
      BY <2>1, GaneshaEffects
    <2>4. \/ procs' \in {procs, Refreshed(procs), Reloaded(procs, "ganesha")}
          \/ procs' \in stop_ganesha(Refreshed(procs))
      BY <1>3 DEF StopGanesha
    <2> QED
      BY <1>0, <2>1, <2>2, <2>3, <2>4
  <1>4. CASE RestartSssd
    BY <1>4 DEF RestartSssd
  <1>5. CASE RestartIdhelper
    <2>1. procs' \in restart_idhelper_and_wait_bulk(procs) \/ procs' = procs
      BY <1>5 DEF RestartIdhelper
    <2> QED
      BY <1>0, <2>1, SidecarEffects
  <1>6. CASE StartGanesha
    <2>1. procs' = procs \/ \E q \in ensure_ganesha_prereqs(procs) : procs' \in start_ganesha(q)
      BY <1>6 DEF StartGanesha
    <2>2. CASE procs' = procs
      BY <2>2
    <2>3. ASSUME NEW q \in ensure_ganesha_prereqs(procs), procs' \in start_ganesha(q)
          PROVE  procs'["sssd"] = procs["sssd"]
      <3>1. q \in Single /\ Only(procs, q, "dbus")
        BY SidecarEffects, OperationsSingle
      <3>2. Only(q, procs', "ganesha")
        BY <2>3, <3>1, GaneshaEffects
      <3> QED
        BY <3>1, <3>2 DEF Only, Services
    <2> QED
      BY <2>1, <2>2, <2>3
  <1>7. CASE StartWebui
    <2>1. procs' = procs \/ procs' \in start_webui(procs) \union reload_webui(procs)
      BY <1>7 DEF StartWebui
    <2> QED
      BY <1>0, <2>1, SidecarEffects
  <1>8. CASE RestartAvahi
    <2>1. \/ procs' \in {procs, Reloaded(procs, "avahi")}
          \/ \E q \in stop_avahi(procs) : procs' \in start_avahi(q)
      BY <1>8 DEF RestartAvahi
    <2>2. Only(procs, Reloaded(procs, "avahi"), "avahi")
      BY Zenon, BasicEffects DEF Services
    <2> QED
      BY <1>0, <2>1, <2>2, AvahiEffects
  <1>9. CASE StartWatcher
    <2>1. PICK q \in wait_for_ganesha_readiness(procs) : procs' \in start_watcher(q)
      BY <1>9 DEF StartWatcher
    <2>2. q = procs \/ q = Refreshed(procs)
      BY DEF wait_for_ganesha_readiness
    <2>3. q \in Tables /\ (q = procs \/ Only(procs, q, "ganesha"))
      BY Zenon, <2>2, BasicTables, GaneshaEffects
    <2>4. Only(q, procs', "watcher")
      BY <2>1, <2>3, AvahiEffects
    <2> QED
      BY <1>0, <2>3, <2>4
  <1>10. CASE Finish
    <2> DEFINE first == IF Recycling /\ ~started THEN start_watcher(procs) ELSE {procs}
    <2>1. \A p \in first : p \in Tables /\ (p = procs \/ Only(procs, p, "watcher"))
      <3>1. \A p \in start_watcher(procs) : p \in Tables
        BY OperationsSingle DEF Single
      <3> QED
        BY <3>1, AvahiEffects
    <2>2. procs' \in IF needWatcher THEN UNION {start_watcher(p) : p \in first} ELSE first
      BY <1>10 DEF Finish
    <2> HIDE DEF first
    <2>3. \E p \in first : procs' = p \/ procs' \in start_watcher(p)
      BY <2>2
    <2>4. \A p \in first : \A r \in start_watcher(p) : Only(p, r, "watcher")
      BY <2>1, AvahiEffects
    <2> QED
      BY <1>0, <2>1, <2>3, <2>4
  <1> QED
    BY Zenon, <1>1, <1>2, <1>3, <1>4, <1>5, <1>6, <1>7, <1>8, <1>9, <1>10 DEF Phase

\* Identity changes are staged, whatever crashes or fails: plan_from_changes
\* never restarts SSSD, and the idle pass only revives one that is down.
THEOREM IdentityWaits == Spec => IdentityStaged
  <1> DEFINE Staged ==
        Live(procs, "sssd") /\ Live(procs', "sssd") /\ procs'["sssd"].loaded # procs["sssd"].loaded
          => job \in {"full", "bringup", "boot"} \/ ~started
  <1>1. IInv /\ ApplyInv /\ [Next]_vars => [Staged]_vars
    <2> SUFFICES ASSUME IInv, ApplyInv, Next, Live(procs, "sssd"), Live(procs', "sssd"),
                        procs'["sssd"].loaded # procs["sssd"].loaded
                 PROVE  job \in {"full", "bringup", "boot"} \/ ~started
      OBVIOUS
    <2> TypeOK /\ procs \in Single /\ procs \in Tables
      BY DEF IInv, Single
    <2> "sssd" \in Services
      BY DEF Services
    <2>1. CASE Phase
      <3>1. pc = "sssd" /\ plan.restart_sssd
        BY <2>1, PhaseSssd
      <3> QED
        BY <3>1 DEF ApplyInv, JobInv, Planned, TypeOK
    <2>2. CASE Environment
      <3>1. CASE Save \/ SendHup \/ SendUsr1 \/ SendTerm \/ WizardDone
        BY Zenon, <3>1 DEF Save, SendHup, SendUsr1, SendTerm, WizardDone
      <3>2. CASE Restart
        BY Zenon, <3>2 DEF Restart, NoProcs, Live
      <3>3. ASSUME NEW s \in Crashable, Exit(s) \/ StrayExits(s)
            PROVE  procs'["sssd"].loaded = procs["sssd"].loaded
        BY <3>3, SupervisorAssumption DEF Exit, StrayExits, Tables, Process
      <3> QED
        BY <2>2, <3>1, <3>2, <3>3 DEF Environment
    <2>3. CASE Loop
      <3>1. CASE BootPreconfigured \/ EndPass
        BY <3>1 DEF BootPreconfigured, EndPass
      <3>2. CASE BootWizard
        <4>1. Only(procs, procs', "webui")
          BY <3>2, SidecarEffects DEF BootWizard
        <4> QED
          BY <4>1 DEF Only, Services
      <3>3. CASE Tick
        <4>1. procs' = procs \/ procs' = Refreshed(procs)
          BY Zenon, <3>3 DEF Tick
        <4> QED
          BY <4>1, GaneshaEffects DEF Only, Services
      <3>4. CASE Shutdown
        <4>1. procs'["sssd"] = [procs["sssd"] EXCEPT !.st = "none", !.stray = 0, !.managed = FALSE]
          BY Zenon, <3>4 DEF Shutdown
        <4> QED
          BY <4>1 DEF Tables, Process, Live
      <3>5. ASSUME NEW i \in 1 .. Len(RespawnOrder), Respawn(i) \/ PassOver(i)
            PROVE  procs'["sssd"] = procs["sssd"] \/ ~Live(procs, "sssd")
        BY Zenon, <3>5, RespawnEffects DEF PassOver
      <3> QED
        BY <2>3, <3>1, <3>2, <3>3, <3>4, <3>5 DEF Loop
    <2> QED
      BY <2>1, <2>2, <2>3 DEF Next
  <1> QED
    BY <1>1, ApplyInvariance, PTL DEF Spec, IdentityStaged

-----------------------------------------------------------------------------
(***************************************************************************)
(* The supervisor implements RecycleJob.                                   *)
(***************************************************************************)

\* The mapped initial state is one of RecycleJob.
LEMMA InitJob == ASSUME Init PROVE ExportJob!JobInit
  BY DEF Init, ExportJob!JobInit, AbstractPhase, Recycling

\* A step of the outside world is a save, a signal, a restart, or no step of the
\* abstract job.
LEMMA EnvironmentJob ==
  ASSUME IInv, Environment
  PROVE  ExportJob!JobNext \/ UNCHANGED ExportJob!jobVars
  <1>1. CASE Save
    <2>1. UNCHANGED <<disk, hup, usr1, marker, pc, job>>
      BY <1>1 DEF Save, sigVars, fileVars
    <2>2. AbstractPhase' = AbstractPhase
      BY <2>1 DEF AbstractPhase, Recycling
    <2>3. ExportJob!Save
      BY <2>1, <2>2 DEF ExportJob!Save
    <2> QED
      BY <2>3 DEF ExportJob!JobNext
  <1>2. CASE SendHup
    <2>1. hup' = TRUE /\ UNCHANGED <<conf, disk, usr1, marker, pc, job>>
      BY <1>2 DEF SendHup, fileVars
    <2>2. AbstractPhase' = AbstractPhase
      BY <2>1 DEF AbstractPhase, Recycling
    <2>3. ExportJob!Hup
      BY <2>1, <2>2 DEF ExportJob!Hup
    <2> QED
      BY <2>3 DEF ExportJob!JobNext
  <1>3. CASE SendUsr1
    <2>1. usr1' = TRUE /\ UNCHANGED <<conf, disk, hup, marker, pc, job>>
      BY <1>3 DEF SendUsr1, fileVars
    <2>2. AbstractPhase' = AbstractPhase
      BY <2>1 DEF AbstractPhase, Recycling
    <2>3. ExportJob!Usr1
      BY <2>1, <2>2 DEF ExportJob!Usr1
    <2> QED
      BY <2>3 DEF ExportJob!JobNext
  <1>4. CASE Restart
    <2>1. /\ pc' = "boot" /\ job' = "boot" /\ hup' = FALSE /\ usr1' = FALSE
          /\ UNCHANGED <<conf, disk, marker>>
      BY <1>4 DEF Restart, fileVars
    <2>2. AbstractPhase' = "idle"
      BY <2>1 DEF AbstractPhase
    <2>3. ExportJob!Reset
      BY <2>1, <2>2 DEF ExportJob!Reset
    <2> QED
      BY <2>3 DEF ExportJob!JobNext
  <1>5. CASE SendTerm \/ WizardDone \/ \E s \in Crashable : Exit(s) \/ StrayExits(s)
    <2>1. UNCHANGED <<conf, disk, hup, usr1, marker, pc, job>>
      BY <1>5 DEF SendTerm, WizardDone, Exit, StrayExits, confVars, sigVars, fileVars
    <2>2. AbstractPhase' = AbstractPhase
      BY <2>1 DEF AbstractPhase, Recycling
    <2> QED
      BY <2>1, <2>2 DEF ExportJob!jobVars
  <1> QED
    BY <1>1, <1>2, <1>3, <1>4, <1>5 DEF Environment

\* A job that fails aborts, one that hangs is stuck; in both cases the exports
\* on disk are the ones from before or those of the configuration.
LEMMA FailJob ==
  ASSUME IInv, pc \in {"generate", "hooks"}, Fail \/ (pc' = "parked" /\ UNCHANGED job),
         disk'.exports \in IF pc = "generate" THEN {disk.exports, conf.exports} ELSE {disk.exports},
         UNCHANGED <<conf, hup, usr1, marker>>
  PROVE  ExportJob!JobNext
  <1>1. AbstractPhase = (IF pc = "generate" THEN "taken" ELSE "applying")
    BY DEF AbstractPhase
  <1>2. CASE Fail
    <2>1. job' = "idle" /\ pc' \in {"exited", "tick"}
      BY <1>2 DEF Fail, Return
    <2>2. AbstractPhase' \in {"idle", "stuck"}
      BY <2>1 DEF AbstractPhase
    <2>3. ExportJob!Abort
      BY <1>1, <2>1, <2>2 DEF ExportJob!Abort
    <2> QED
      BY <2>3 DEF ExportJob!JobNext
  <1>3. CASE pc' = "parked" /\ UNCHANGED job
    <2>1. AbstractPhase' = "stuck"
      BY <1>3 DEF AbstractPhase
    <2>2. ExportJob!Stick
      BY <1>1, <1>3, <2>1 DEF ExportJob!Stick
    <2> QED
      BY <2>2 DEF ExportJob!JobNext
  <1> QED
    BY <1>2, <1>3

\* Each phase is a step of the abstract job, or none: the generator reads, the
\* WebUI's phase applies, the end touches the marker.
LEMMA PhaseJob ==
  ASSUME IInv, Phase
  PROVE  ExportJob!JobNext \/ UNCHANGED ExportJob!jobVars
  <1> TypeOK /\ PhaseOfJob
    BY DEF IInv
  <1>1. CASE Generate
    <2>1. pc = "generate" /\ UNCHANGED <<conf, hup, usr1, marker>>
      BY <1>1 DEF Generate, confVars, sigVars, fileVars
    <2>2. CASE disk' = Rendered /\ pc' = After("generate") /\ UNCHANGED job
      <3>1. pc' = "hooks" /\ disk'.exports = conf.exports
        BY <2>2, AfterIs DEF Rendered
      <3>2. AbstractPhase = "taken" /\ AbstractPhase' = "applying"
        BY <2>1, <3>1 DEF AbstractPhase
      <3>3. ExportJob!Read
        BY <2>1, <2>2, <3>1, <3>2 DEF ExportJob!Read
      <3> QED
        BY <3>3 DEF ExportJob!JobNext
    <2>3. CASE disk' \in PartlyRendered /\ (Fail \/ (pc' = "parked" /\ UNCHANGED job))
      <3>1. disk'.exports \in {disk.exports, conf.exports}
        <4>1. Rendered.exports = conf.exports
                /\ [Rendered EXCEPT !.adverts = disk.adverts].exports = conf.exports
          BY DEF Rendered
        <4>2. [disk EXCEPT !.identity = conf.identity].exports = disk.exports
          BY DEF TypeOK
        <4> QED
          BY Zenon, <2>3, <4>1, <4>2 DEF PartlyRendered
      <3> QED
        BY <2>1, <2>3, <3>1, FailJob
    <2> QED
      BY <1>1, <2>2, <2>3 DEF Generate
  <1>2. CASE Hooks
    <2>1. pc = "hooks" /\ UNCHANGED <<conf, disk, hup, usr1, marker>>
      BY <1>2 DEF Hooks, confVars, sigVars, fileVars
    <2>2. CASE pc' = After("hooks") /\ UNCHANGED job
      <3>1. pc' \in {"stop", "sssd"}
        BY <2>2, AfterIs
      <3>2. AbstractPhase = "applying" /\ AbstractPhase' = "applying"
        BY <2>1, <3>1 DEF AbstractPhase
      <3> QED
        BY <2>1, <2>2, <3>2 DEF ExportJob!jobVars
    <2>3. CASE Fail \/ (pc' = "parked" /\ UNCHANGED job)
      BY <2>1, <2>3, FailJob
    <2> QED
      BY <1>2, <2>2, <2>3 DEF Hooks
  <1>3. CASE StopGanesha \/ RestartSssd \/ RestartIdhelper \/ StartGanesha
    <2>1. UNCHANGED <<conf, disk, hup, usr1, marker, job>>
      BY Zenon, <1>3 DEF StopGanesha, RestartSssd, RestartIdhelper, StartGanesha, phaseUnchanged,
         confVars, sigVars, fileVars
    <2>2. /\ pc \in {"stop", "sssd", "idhelper", "start"}
          /\ pc' \in {"sssd", "idhelper", "start", "webui"} \/ (pc' = "avahi" /\ ~Recycling)
      BY <1>3, AfterIs DEF StopGanesha, RestartSssd, RestartIdhelper, StartGanesha, PhaseOfJob
    <2>3. AbstractPhase = "applying" /\ AbstractPhase' = "applying"
      BY <2>1, <2>2 DEF AbstractPhase, Recycling
    <2> QED
      BY <2>1, <2>3 DEF ExportJob!jobVars
  <1>4. CASE StartWebui
    <2>1. UNCHANGED <<conf, disk, hup, usr1, marker, job>>
      BY <1>4 DEF StartWebui, phaseUnchanged, confVars, sigVars, fileVars
    <2>2. pc = "webui" /\ pc' = (IF Recycling THEN "avahi" ELSE "finish")
      BY <1>4, AfterIs DEF StartWebui
    <2>3. AbstractPhase = "applying" /\ AbstractPhase' = "applied"
      BY <2>1, <2>2 DEF AbstractPhase, Recycling
    <2>4. ExportJob!WebuiPhase
      BY <2>1, <2>3 DEF ExportJob!WebuiPhase
    <2> QED
      BY <2>4 DEF ExportJob!JobNext
  <1>5. CASE RestartAvahi
    <2>1. UNCHANGED <<conf, disk, hup, usr1, marker, job>>
      BY <1>5 DEF RestartAvahi, phaseUnchanged, confVars, sigVars, fileVars
    <2>2. pc = "avahi" /\ pc' = (IF Recycling THEN "finish" ELSE "watcher")
      BY <1>5, AfterIs DEF RestartAvahi
    <2>3. AbstractPhase' = AbstractPhase
      BY <2>1, <2>2 DEF AbstractPhase, Recycling
    <2> QED
      BY <2>1, <2>3 DEF ExportJob!jobVars
  <1>6. CASE StartWatcher
    <2>1. /\ marker' = (marker /\ job # "boot") /\ UNCHANGED <<conf, disk, hup, usr1, job>>
      BY <1>6 DEF StartWatcher, confVars, sigVars
    <2>2. pc = "watcher" /\ pc' = "webui"
      BY <1>6, AfterIs DEF StartWatcher, PhaseOfJob
    <2>3. AbstractPhase' = AbstractPhase
      BY <2>1, <2>2 DEF AbstractPhase
    <2>4. CASE job = "boot"
      <3>1. ExportJob!RemoveMarker
        BY Zenon, <2>1, <2>3, <2>4 DEF ExportJob!RemoveMarker
      <3> QED
        BY <3>1 DEF ExportJob!JobNext
    <2>5. CASE job # "boot"
      <3>1. marker' = marker
        BY <2>1, <2>5 DEF TypeOK
      <3> QED
        BY <2>1, <2>3, <3>1 DEF ExportJob!jobVars
    <2> QED
      BY <2>4, <2>5
  <1>7. CASE Finish
    <2>1. /\ pc = "finish" /\ pc' = "tick" /\ job' = "idle" /\ marker' = (marker \/ job # "boot")
          /\ UNCHANGED <<conf, disk, hup, usr1>>
      BY <1>7 DEF Finish, Return, confVars, sigVars
    <2>2. AbstractPhase = "applied" /\ AbstractPhase' = "idle"
      BY <2>1 DEF AbstractPhase
    <2>3. ExportJob!Done
      BY <2>1, <2>2 DEF ExportJob!Done
    <2> QED
      BY <2>3 DEF ExportJob!JobNext
  <1> QED
    BY <1>1, <1>2, <1>3, <1>4, <1>5, <1>6, <1>7 DEF Phase

\* The boot, the loop and the idle pass: a tick takes the flags or finds none.
LEMMA LoopJob ==
  ASSUME IInv, ApplyInv, Loop
  PROVE  ExportJob!JobNext \/ UNCHANGED ExportJob!jobVars
  <1> TypeOK
    BY DEF IInv
  <1>1. CASE BootPreconfigured
    <2>1. pc = "boot" /\ pc' = "generate" /\ UNCHANGED <<conf, disk, hup, usr1, marker, job>>
      BY <1>1 DEF BootPreconfigured, confVars, sigVars
    <2>2. job = "boot" /\ AbstractPhase = "idle" /\ AbstractPhase' = "taken"
      BY <2>1 DEF AbstractPhase, ApplyInv, JobInv
    <2>3. ExportJob!Boot
      BY <2>1, <2>2 DEF ExportJob!Boot
    <2> QED
      BY <2>3 DEF ExportJob!JobNext
  <1>2. CASE BootWizard
    <2>1. /\ pc = "boot" /\ pc' \in {"tick", "exited"} /\ marker' = (marker /\ pc' = "exited")
          /\ UNCHANGED <<conf, disk, hup, usr1, job>>
      BY <1>2 DEF BootWizard, confVars, sigVars
    <2>2. CASE pc' = "tick"
      <3>1. AbstractPhase' = AbstractPhase /\ marker' = FALSE
        BY Zenon, <2>1, <2>2 DEF AbstractPhase
      <3>2. ExportJob!RemoveMarker
        BY <2>1, <3>1 DEF ExportJob!RemoveMarker
      <3> QED
        BY <3>2 DEF ExportJob!JobNext
    <2>3. CASE pc' = "exited"
      <3>1. AbstractPhase = "idle" /\ AbstractPhase' = "stuck" /\ marker' = marker
        BY <2>1, <2>3 DEF AbstractPhase, TypeOK
      <3>2. ExportJob!Stick
        BY <2>1, <3>1 DEF ExportJob!Stick
      <3> QED
        BY <3>2 DEF ExportJob!JobNext
    <2> QED
      BY <2>1, <2>2, <2>3
  <1>3. CASE Tick
    <2>1. /\ pc = "tick" /\ hup' = FALSE /\ usr1' = FALSE /\ UNCHANGED <<conf, disk, marker>>
          /\ pc' = IF job' = "idle" THEN "respawn" ELSE "generate"
      BY <1>3 DEF Tick, confVars
    <2>2. PICK ready \in BOOLEAN : job' = supervisor_loop_tick(started, hup, usr1, wizard, ready)
      BY Zenon, <1>3 DEF Tick
    <2>3. \/ usr1 /\ job' \in {"full", "bringup"}
          \/ ~usr1 /\ hup /\ job' = "sighup"
          \/ ~usr1 /\ ~hup /\ job' \in {"bringup", "idle"}
      BY <2>2 DEF supervisor_loop_tick, TypeOK
    <2>4. AbstractPhase = "idle" /\ AbstractPhase' = (IF job' = "idle" THEN "idle" ELSE "taken")
      BY <2>1 DEF AbstractPhase
    <2>5. CASE usr1 \/ hup
      <3>1. job' # "idle"
        BY <2>3, <2>5
      <3>2. ExportJob!Take
        BY <2>1, <2>3, <2>4, <2>5, <3>1 DEF ExportJob!Take
      <3> QED
        BY <3>2 DEF ExportJob!JobNext
    <2>6. CASE ~usr1 /\ ~hup
      <3>1. hup' = hup /\ usr1' = usr1
        BY Zenon, <2>1, <2>6 DEF TypeOK
      <3>2. ExportJob!BringUp \/ ExportJob!Idle
        BY <2>1, <2>3, <2>4, <2>6, <3>1 DEF ExportJob!BringUp, ExportJob!Idle
      <3> QED
        BY <3>2 DEF ExportJob!JobNext
    <2> QED
      BY <2>5, <2>6
  <1>4. CASE Shutdown
    <2>1. pc = "tick" /\ pc' = "exited" /\ UNCHANGED <<conf, disk, hup, usr1, marker, job>>
      BY Zenon, <1>4 DEF Shutdown, confVars, sigVars, fileVars
    <2>2. AbstractPhase = "idle" /\ AbstractPhase' = "stuck"
      BY <2>1 DEF AbstractPhase
    <2>3. ExportJob!Stick
      BY <2>1, <2>2 DEF ExportJob!Stick
    <2> QED
      BY <2>3 DEF ExportJob!JobNext
  <1>5. CASE EndPass \/ \E i \in 1 .. Len(RespawnOrder) : Respawn(i) \/ PassOver(i)
    <2>1. /\ pc = "respawn" /\ pc' \in {"respawn", "tick"}
          /\ UNCHANGED <<conf, disk, hup, usr1, marker, job>>
      BY <1>5 DEF EndPass, Respawn, PassOver, confVars, sigVars, fileVars
    <2>2. AbstractPhase = "idle" /\ AbstractPhase' = "idle"
      BY <2>1 DEF AbstractPhase
    <2> QED
      BY <2>1, <2>2 DEF ExportJob!jobVars
  <1> QED
    BY <1>1, <1>2, <1>3, <1>4, <1>5 DEF Loop

\* The supervisor keeps what RecycleJob promises to those who signal pid 1, in
\* every deployment and with every fault: each of its steps is one of the
\* abstract job's, or leaves the abstract job where it is.
THEOREM KeepsThePromise == Spec => ImplementsRecycleJob
  <1>1. Init => ExportJob!JobInit
    BY InitJob
  <1>2. IInv /\ ApplyInv /\ [Next]_vars => [ExportJob!JobNext]_(ExportJob!jobVars)
    <2> SUFFICES ASSUME IInv, ApplyInv, [Next]_vars
                 PROVE  ExportJob!JobNext \/ UNCHANGED ExportJob!jobVars
      OBVIOUS
    <2>1. CASE Next
      BY <2>1, EnvironmentJob, PhaseJob, LoopJob DEF Next
    <2>2. CASE UNCHANGED vars
      BY <2>2 DEF vars, ExportJob!jobVars, AbstractPhase, Recycling
    <2> QED
      BY <2>1, <2>2
  <1> QED
    BY <1>1, <1>2, ApplyInvariance, PTL DEF Spec, ImplementsRecycleJob, ExportJob!JobSpec

=============================================================================
