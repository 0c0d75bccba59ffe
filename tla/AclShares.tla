----------------------------- MODULE AclShares ------------------------------
(***************************************************************************)
(* The ACL class of every share over time: the verdict cache of the WebUI, *)
(* the re-probe loop with its hysteresis (acl_watch.rs), the surfaces that *)
(* show the class, the gate of a shares save, and generate, which writes   *)
(* the class into the exports.  Mounts change underneath.                  *)
(*                                                                         *)
(* Time is counted in re-probe intervals or fractions of one; within a     *)
(* unit nothing expires (the two-second mountinfo cache is far below it).  *)
(***************************************************************************)
EXTENDS AclProbe

CONSTANTS
  Order,            \* the shares, in the order of nfs-klldap.conf
  ServePath,        \* the container path of each share
  Policy,           \* read_access_policy of each share
  Points,           \* mount points; the root is among them
  Confs,            \* the values of enable_acl a shares save may leave
  Interval,         \* re-probe interval
  Ttl,              \* lifetime of a proven verdict
  InconclusiveTtl,  \* lifetime of an inconclusive one
  Gap,              \* least time between two recycles of the loop
  MaxFlips,         \* bound: changes of mounts and of what they store
  MaxSaves,         \* bound: shares saves
  MaxResets,        \* bound: deaths of the loop, restarts of the WebUI
  Faults            \* faults that may happen

Shares == {Order[n] : n \in DOMAIN Order}
FaultKinds == {"blind", "panic", "restart", "undelivered"}

ASSUME AclAssumption ==
  /\ Order \in Seq(Shares)
  /\ \A n, m \in DOMAIN Order : Order[n] = Order[m] => n = m
  /\ ServePath \in [Shares -> Seq(STRING)]
  /\ <<>> \in Points /\ Confs \subseteq [Shares -> Modes]
  /\ Policy \in [Shares -> {"auto", "pre", "post"}]
  /\ InconclusiveTtl <= Interval /\ Interval < Ttl /\ Ttl < Gap
  /\ {Interval, Ttl, InconclusiveTtl, Gap, MaxFlips, MaxSaves, MaxResets} \subseteq Nat
  /\ InconclusiveTtl > 0 /\ Faults \subseteq FaultKinds

FLIP_STREAK == 2

VARIABLES
  mounts,   \* mountinfo
  remote,   \* whether a network filesystem stores ACLs today
  blind,    \* shares whose probe ends inconclusive
  conf,     \* enable_acl of each share
  cache,    \* AclCapabilityCache: mount point -> entry
  auto,     \* FlipTracker.auto
  incap,    \* FlipTracker.incap
  hupAge,   \* time since last_auto_hup, Gap for none or long ago
  alert,    \* the shares the banner names
  clock,    \* time since the last tick of the loop
  pc,       \* "idle", or "schedule" inside a tick
  latch,    \* restart_requested
  pending,  \* a recycle is on its way to the supervisor
  exports,  \* what generate wrote last for each share
  sinceHup, \* history: time since the loop of this process scheduled
  quiet,    \* history: time since a change that stage A cannot see
  flips, saves, resets

world == <<mounts, remote, blind>>
tracker == <<auto, incap, hupAge, alert>>
job == <<latch, pending, exports>>
vars == <<world, conf, cache, tracker, clock, pc, job, sinceHup, quiet, flips, saves, resets>>

MountEntry == [point : Points \ {<<>>}, fstype : {"fuse", "vfat"}, noacl : {FALSE}]
                \union [point : Points \ {<<>>}, fstype : {"ext4"}, noacl : {TRUE}]
NoEntry == [verdict |-> "none"]
NoState == [streak |-> 0]

Caps(s) == probe_with_root(mounts, ServePath[s])
Stores(caps) == caps.fstype = "ext4" \/ (caps.fstype = "fuse" /\ remote)
Verdict(s) ==
  LET caps == Caps(s) IN acl_probe_verdict(caps, Stores(caps), s \in blind)

-----------------------------------------------------------------------------
(* The verdict cache *)

ttl_for(verdict) == IF verdict = "Inconclusive" THEN InconclusiveTtl ELSE Ttl

\* Slip: a verdict outlives a remount that changed the filesystem.
cached_hit_AnyFilesystem(c, caps, s) ==
  LET e == c[caps.root]
  IN e # NoEntry /\ e.age < ttl_for(e.verdict)

cached_hit(c, caps, s) ==
  LET e == c[caps.root]
  IN /\ e # NoEntry
     /\ e.fstype = caps.fstype /\ e.noacl = caps.noacl
     /\ e.verdict = "Inconclusive" => e.dir = s
     /\ e.age < ttl_for(e.verdict)

\* Entries past their lifetime are kept at age Ttl; the sweep drops only such.
store(c, caps, s, verdict) ==
  [c EXCEPT ![caps.root] = [verdict |-> verdict, fstype |-> caps.fstype,
                            noacl |-> caps.noacl, dir |-> s, age |-> 0]]

\* The possible answers of a lookup, each with the cache it leaves.
verdict_cached(c, s, skip, force) ==
  LET caps == Caps(s)
  IN CASE caps.fstype = "unknown" -> {[v |-> "Inconclusive", c |-> c]}
       [] caps.fstype # "unknown" /\ ~caps.acl_capable -> {[v |-> "Incapable", c |-> c]}
       [] caps.acl_capable /\ skip -> {[v |-> verdict_from_caps(caps), c |-> c]}
       [] caps.acl_capable /\ ~skip /\ ~force /\ cached_hit(c, caps, s) ->
            {[v |-> c[caps.root].verdict, c |-> c]}
       [] OTHER -> {[v |-> v, c |-> store(c, caps, s, v)] :
                     v \in acl_probe_verdict(caps, Stores(caps), s \in blind)}

\* A pass over the shares of configuration f in their order.
Lookups(c, f, force) ==
  LET Pass[n \in 0 .. Len(Order)] ==
        IF n = 0
        THEN {[c |-> c, out |-> [s \in Shares |-> "Inconclusive"]]}
        ELSE UNION {{[c |-> q.c, out |-> [r.out EXCEPT ![Order[n]] = q.v]] :
                       q \in verdict_cached(r.c, Order[n], f[Order[n]] = "off", force)} :
                      r \in Pass[n - 1]}
  IN Pass[Len(Order)]

invalidate_all == [p \in Points |-> NoEntry]

\* What a card, a settings row and the client manifest say of a share.
share_acl_status(s, v) ==
  LET eff == compute_effective_flags_probed(conf[s], Caps(s), v)
  IN [acl |-> eff.enable_acl /\ Caps(s).acl_capable,
      label |-> share_acl_state_label(conf[s], v),
      warning |-> share_fs_warning(mounts, ServePath[s], eff.enable_acl)]

-----------------------------------------------------------------------------
(* generate *)

\* The part of an export fragment that depends on the filesystem.
Export(s, v) ==
  LET eff == compute_effective_flags_probed(conf[s], Caps(s), v)
  IN [acl |-> ~export_fs_directives(eff).disable_acl,
      comment |-> export_fs_directives(eff).comment,
      policy |-> compute_read_access_policy_emit(Policy[s], eff)]

GenerateVerdicts ==
  {v \in [Shares -> Verdicts] :
     \A s \in Shares :
       v[s] \in IF conf[s] = "off" THEN {verdict_from_caps(Caps(s))} ELSE Verdict(s)}

\* Every share is validated before a fragment is written.
Refuses(v) == \E s \in Shares : conf[s] = "on" /\ v[s] = "Incapable"

write_export_fragments(v) ==
  IF Refuses(v) THEN exports ELSE [s \in Shares |-> Export(s, v[s])]

-----------------------------------------------------------------------------
Ext4Root == [point |-> <<>>, fstype |-> "ext4", noacl |-> FALSE]

Init ==
  /\ mounts = <<Ext4Root>> /\ remote = TRUE /\ blind = {}
  /\ conf \in Confs
  /\ cache = invalidate_all
  /\ auto = [s \in Shares |-> NoState] /\ incap = [s \in Shares |-> 0]
  /\ hupAge = Gap /\ alert = {}
  /\ clock = 0 /\ pc = "idle"
  /\ latch = FALSE /\ pending = FALSE
  /\ \E v \in GenerateVerdicts : exports = [s \in Shares |-> Export(s, v[s])]
  /\ sinceHup = Gap /\ quiet = Ttl
  /\ flips = 0 /\ saves = 0 /\ resets = 0

Flip == flips < MaxFlips /\ flips' = flips + 1
Outside == <<conf, cache, tracker, clock, pc, job, sinceHup, saves, resets>>

\* A filesystem is mounted, over another or not; the latest mount goes away;
\* a mounted one is replaced by another type on the same point.
Mount ==
  /\ Flip
  /\ \/ /\ Len(mounts) = 1
        /\ \E e \in MountEntry : mounts' = Append(mounts, e)
     \/ /\ Len(mounts) > 1
        /\ mounts' = SubSeq(mounts, 1, Len(mounts) - 1)
  /\ UNCHANGED <<remote, blind, quiet, Outside>>

\* The server behind a network filesystem starts or stops to store ACLs.
Switch ==
  /\ Flip /\ remote' = ~remote /\ quiet' = 0
  /\ UNCHANGED <<mounts, blind, Outside>>

\* A serve root becomes unwritable for the probe, or writable again.
Blind ==
  /\ "blind" \in Faults /\ Flip /\ quiet' = 0
  /\ \E s \in Shares : blind' = IF s \in blind THEN blind \ {s} ELSE blind \union {s}
  /\ UNCHANGED <<mounts, remote, Outside>>

Older(age, cap) == IF age < cap THEN age + 1 ELSE cap

Clock ==
  /\ pc = "idle" /\ clock < Interval /\ clock' = clock + 1
  /\ cache' = [p \in Points |-> IF cache[p] = NoEntry THEN NoEntry
                                ELSE [cache[p] EXCEPT !.age = Older(@, Ttl)]]
  /\ hupAge' = Older(hupAge, Gap) /\ sinceHup' = Older(sinceHup, Gap)
  /\ quiet' = Older(quiet, Ttl)
  /\ UNCHANGED <<world, conf, auto, incap, alert, pc, job, flips, saves, resets>>

-----------------------------------------------------------------------------
(* The re-probe loop *)

\* Slip: the streak restarts with every tick that repeats the reading.
track_auto_flip_NoStreak(st, current) ==
  IF st = NoState
  THEN [baseline |-> current, last |-> current, streak |-> 1]
  ELSE [st EXCEPT !.last = current, !.streak = 1]

track_auto_flip(st, current) ==
  LET known == IF st = NoState
               THEN [baseline |-> current, last |-> current, streak |-> 0] ELSE st
      again == IF known.streak < FLIP_STREAK THEN known.streak + 1 ELSE FLIP_STREAK
  IN IF current = known.last
     THEN [known EXCEPT !.streak = again]
     ELSE [known EXCEPT !.streak = 1, !.last = current]

Flipped(st) == st # NoState /\ st.last # st.baseline /\ st.streak >= FLIP_STREAK

\* A tick that finds a recycle in flight does nothing.
TickSkipped ==
  /\ pc = "idle" /\ clock = Interval /\ latch /\ clock' = 0
  /\ UNCHANGED <<world, conf, cache, tracker, pc, job, sinceHup, quiet, flips, saves, resets>>

\* Slip: a healed share leaves its streak behind.
Failing_KeepsStreak(s, v) == IF v = "Incapable" THEN FLIP_STREAK ELSE incap[s]

Failing(s, v) ==
  IF v = "Incapable"
  THEN IF incap[s] < FLIP_STREAK THEN incap[s] + 1 ELSE FLIP_STREAK
  ELSE 0

\* The probes of a tick, the hysteresis and the banner.
TickProbes ==
  /\ pc = "idle" /\ clock = Interval /\ ~latch /\ clock' = 0
  /\ \E r \in Lookups(cache, conf, TRUE) :
       /\ cache' = r.c
       /\ auto' = [s \in Shares |-> IF conf[s] = "auto"
                                    THEN track_auto_flip(auto[s], r.out[s] = "Capable")
                                    ELSE auto[s]]
       /\ incap' = [s \in Shares |-> IF conf[s] = "on" THEN Failing(s, r.out[s]) ELSE incap[s]]
       /\ alert' = {s \in Shares : conf[s] = "on" /\ incap'[s] >= FLIP_STREAK}
  /\ pc' = IF \E s \in Shares : conf[s] = "auto" /\ Flipped(auto'[s]) THEN "schedule" ELSE "idle"
  /\ UNCHANGED <<world, conf, hupAge, job, sinceHup, quiet, flips, saves, resets>>

\* Slip: the recycle is scheduled however recent the last one.
TickSchedules_NoRate ==
  /\ pc = "schedule" /\ pc' = "idle"
  /\ IF ~latch
     THEN /\ latch' = TRUE /\ pending' = TRUE /\ hupAge' = 0 /\ sinceHup' = 0
          /\ auto' = [s \in Shares |-> IF auto[s] = NoState THEN NoState
                                       ELSE [auto[s] EXCEPT !.baseline = auto[s].last, !.streak = 0]]
     ELSE UNCHANGED <<latch, pending, hupAge, sinceHup, auto>>
  /\ UNCHANGED <<world, conf, cache, incap, alert, clock, exports, quiet, flips, saves, resets>>

\* At most one recycle; every auto share adopts its reading as the baseline.
\* A save may have taken the latch since the probes.
TickSchedules ==
  /\ pc = "schedule" /\ pc' = "idle"
  /\ IF hupAge >= Gap /\ ~latch
     THEN /\ latch' = TRUE /\ pending' = TRUE /\ hupAge' = 0 /\ sinceHup' = 0
          /\ auto' = [s \in Shares |-> IF auto[s] = NoState THEN NoState
                                       ELSE [auto[s] EXCEPT !.baseline = auto[s].last, !.streak = 0]]
     ELSE UNCHANGED <<latch, pending, hupAge, sinceHup, auto>>
  /\ UNCHANGED <<world, conf, cache, incap, alert, clock, exports, quiet, flips, saves, resets>>

Reset(kind) == kind \in Faults /\ resets < MaxResets /\ resets' = resets + 1
Fresh == auto' = [s \in Shares |-> NoState] /\ incap' = [s \in Shares |-> 0] /\ hupAge' = Gap

\* A probe panics and the loop is respawned; the banner stays.
LoopDies ==
  /\ Reset("panic") /\ pc = "idle" /\ clock = Interval /\ clock' = 0 /\ Fresh
  /\ UNCHANGED <<world, conf, cache, alert, pc, job, sinceHup, quiet, flips, saves>>

\* A new WebUI process, after a full recycle or a crash.
WebuiRestarts ==
  /\ Reset("restart") /\ Fresh /\ alert' = {} /\ cache' = invalidate_all
  /\ clock' = 0 /\ pc' = "idle" /\ latch' = FALSE /\ sinceHup' = Gap
  /\ UNCHANGED <<world, conf, pending, exports, quiet, flips, saves>>

-----------------------------------------------------------------------------
(* Pages and saves *)

\* Any surface: the settings page, the cards, GET /client-manifest.json.
Show ==
  /\ \E r \in Lookups(cache, conf, FALSE) : cache' = r.c
  /\ UNCHANGED <<world, conf, tracker, clock, pc, job, sinceHup, quiet, flips, saves, resets>>

\* Diagnostics: every verdict is dropped and every share classified anew.
settings_reprobe_filesystems ==
  /\ \E r \in Lookups(invalidate_all, conf, FALSE) : cache' = r.c
  /\ UNCHANGED <<world, conf, tracker, clock, pc, job, sinceHup, quiet, flips, saves, resets>>

(***************************************************************************)
(* A shares save: each share set to on is probed afresh, and one that is   *)
(* known not to store ACLs refuses the save.  Otherwise the file is        *)
(* replaced, the cache dropped, a recycle scheduled (or deduplicated; the  *)
(* conf-watcher's signal follows in any case), and the page rendered.      *)
(***************************************************************************)
settings_save_shares ==
  /\ saves < MaxSaves /\ saves' = saves + 1
  /\ \E f \in Confs :
       LET gate == [s \in Shares |-> IF f[s] = "on" THEN "on" ELSE "off"]
       IN \E g \in Lookups(cache, gate, TRUE) :
            IF \E s \in Shares : f[s] = "on" /\ g.out[s] = "Incapable"
            THEN /\ \E r \in Lookups(g.c, conf, FALSE) : cache' = r.c
                 /\ UNCHANGED <<conf, latch, pending>>
            ELSE /\ conf' = f /\ latch' = TRUE /\ pending' = TRUE
                 /\ \E r \in Lookups(invalidate_all, f, FALSE) : cache' = r.c
  /\ UNCHANGED <<world, tracker, clock, pc, exports, sinceHup, quiet, flips, resets>>

\* The supervisor's job, seen from here: generate, then the marker.
Recycle ==
  /\ pending /\ pending' = FALSE /\ latch' = FALSE
  /\ \E v \in GenerateVerdicts : exports' = write_export_fragments(v)
  /\ UNCHANGED <<world, conf, cache, tracker, clock, pc, sinceHup, quiet, flips, saves, resets>>

\* The signal cannot be delivered: the owner releases the latch.
Undelivered ==
  /\ "undelivered" \in Faults /\ resets < MaxResets /\ resets' = resets + 1
  /\ latch /\ latch' = FALSE /\ pending' = FALSE
  /\ UNCHANGED <<world, conf, cache, tracker, clock, pc, exports, sinceHup, quiet, flips, saves>>

Next ==
  \/ Mount \/ Switch \/ Blind \/ Clock
  \/ TickSkipped \/ TickProbes \/ TickSchedules \/ LoopDies \/ WebuiRestarts
  \/ Show \/ settings_reprobe_filesystems \/ settings_save_shares
  \/ Recycle \/ Undelivered

Spec == Init /\ [][Next]_vars

(***************************************************************************)
(* Time passes, the loop's task runs, and the supervisor serves its        *)
(* signals.  Each condition names the change a step must make; the faults  *)
(* that make the same change are bounded.                                  *)
(***************************************************************************)
Fairness ==
  /\ WF_clock(clock < Interval /\ clock' = clock + 1)
  /\ WF_clock(clock = Interval /\ clock' = 0)
  /\ WF_pc(pc = "schedule" /\ pc' = "idle")
  /\ WF_pending(pending /\ pending' = FALSE)

FairSpec == Spec /\ Fairness

-----------------------------------------------------------------------------
(* Properties *)

Answers(s) == {r.v : r \in verdict_cached(cache, s, conf[s] = "off", FALSE)}
\* The cache keeps one verdict for a mount: what the share's own probe gives,
\* or what a probe gives in a directory of the mount that it can write.
OnMount(s) ==
  IF conf[s] = "off" THEN {verdict_from_caps(Caps(s))}
  ELSE Verdict(s) \union acl_probe_verdict(Caps(s), Stores(Caps(s)), FALSE)

RefusedNow == \E s \in Shares : conf[s] = "on" /\ "Incapable" \in Verdict(s)

(***************************************************************************)
(* The surfaces never fall behind for longer than a lifetime: when nothing *)
(* stage A cannot see has changed for Ttl, whatever the cache answers is   *)
(* what generate would write now for a probe of the mount: the class in    *)
(* the manifest, the label, and the limited badge that goes with an        *)
(* auto-detected NOACL export.  A visible remount counts at once           *)
(* (acl_capability.rs:9-11).  A share that generate would refuse has no    *)
(* export to agree with.                                                   *)
(***************************************************************************)
SurfacesCatchUp ==
  quiet >= Ttl =>
    \A s \in Shares : \A a \in Answers(s) :
      \/ conf[s] = "on" /\ "Incapable" \in OnMount(s)
      \/ LET shown == share_acl_status(s, a)
         IN \E v \in OnMount(s) :
              /\ shown.label = share_acl_state_label(conf[s], v)
              /\ shown.acl = Export(s, v).acl
              /\ conf[s] = "auto" => (shown.warning = "limited"
                                        <=> Export(s, v).comment = "auto-detected")

(***************************************************************************)
(* A flapping mount never bounces Ganesha in a tight loop                  *)
(* (acl_watch.rs:24-26): within one WebUI process two recycles the loop    *)
(* schedules are at least Gap apart, the deaths of the loop included,      *)
(* which forget last_auto_hup ("a reset is safe", :66-69).                 *)
(***************************************************************************)
FlapBounded == [][sinceHup # 0 /\ sinceHup' = 0 => sinceHup >= Gap]_vars

(***************************************************************************)
(* The banner follows the filesystem (acl_watch.rs:10-12): once mounts and *)
(* configuration rest, it names exactly the shares with enable_acl = true  *)
(* whose filesystem refuses ACLs, and it clears when one heals.            *)
(***************************************************************************)
BannerFollows ==
  \A s \in Shares :
    <>[](LET v == Verdict(s)
         IN v = {"Incapable", "Inconclusive"}
              \/ (s \in alert <=> conf[s] = "on" /\ v = {"Incapable"}))

InStep(s) == /\ conf[s] = "auto" /\ auto[s] # NoState
             /\ auto[s].baseline = exports[s].acl /\ ~RefusedNow
Matches(s) ==
  LET v == Verdict(s)
  IN v = {"Incapable", "Inconclusive"} \/ exports[s].acl = (v = {"Capable"})

(***************************************************************************)
(* The loop reconciles every drift that its baseline can see: if from some *)
(* point on the baseline of an auto share is what generate wrote, then the *)
(* exports end up serving what the filesystem supports.                    *)
(***************************************************************************)
DriftReconciled == \A s \in Shares : <>[]InStep(s) => <>[]Matches(s)

=============================================================================
