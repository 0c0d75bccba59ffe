----------------------------- MODULE LogObserver -----------------------------
(***************************************************************************)
(* The daemon's observer thread (bin/idhelper/observer.rs), which reads    *)
(* ganesha.log, repairs what Ganesha failed to map and has it forget its   *)
(* failures with a SIGHUP, together with the daemon it runs in and with    *)
(* Ganesha.                                                                *)
(*                                                                         *)
(* A log line is what the observer makes of it: its kind, and the          *)
(* principal, uid or host it names.  A uid stands for its user.  Lines     *)
(* that only make the observer log something are left out.                 *)
(***************************************************************************)
EXTENDS SocketDaemon

CONSTANTS
  Hosts,      \* the machines of NFS clients
  MaxLog      \* bound: log lines the observer has not read

ASSUME ObserverAssumption == Users \intersect Hosts = {} /\ MaxLog \in Nat \ {0}

VARIABLES
  log,       \* the lines the observer has not read
  tail,      \* its view of the file: "closed", "open", or "stale" after a rotation
  ob,        \* what it does about the last line: [u, todo]
  recently, healed_uids, healed_getgrouplist, \* the users with a hint or a heal
  hup,       \* a SIGHUP Ganesha has not handled
  refused,   \* Ganesha's cache of failures
  mapped,    \* the users Ganesha has mapped
  way        \* bound: the one way in which Ganesha fails to map in this behaviour, or
             \* "quiet": the clients of the socket are explored without Ganesha's

logVars == <<log, tail>>
windowVars == <<recently, healed_uids, healed_getgrouplist>>
ganeshaVars == <<hup, refused, mapped, way>>
vars == <<daemonVars, logVars, ob, windowVars, ganeshaVars>>

Resting == [u |-> "", todo |-> <<>>]
Line(kind, who) == [kind |-> kind, who |-> who]
Failures == {"unmapped", "managed_gids", "getgrouplist"}

-----------------------------------------------------------------------------
(* Ganesha, from how the observer reads it.                                *)

\* A client's request makes Ganesha map a user.  It keeps a failure, and fails
\* again without another look; each failure is logged by the part that failed.
Ask(u) ==
  /\ way # "quiet" /\ u \notin mapped /\ Len(log) < MaxLog
  /\ \/ /\ u \in rows \ refused
        /\ mapped' = mapped \union {u}
        /\ log' = Append(log, Line("lookup", u))
        /\ UNCHANGED refused
     \/ /\ u \notin rows \ refused
        /\ refused' = refused \union {u}
        /\ log' = Append(log, Line(way, u))
        /\ UNCHANGED mapped
  /\ UNCHANGED <<daemonVars, tail, ob, windowVars, hup, way>>

ClientSeen(h) ==
  /\ way # "quiet" /\ Spend /\ Len(log) < MaxLog
  /\ \E kind \in {"client", "unmapped"} : log' = Append(log, Line(kind, h))
  /\ UNCHANGED <<ldapVars, pool, entries, file, rows, job, flights, conn, acceptor, live, cli,
                 tail, ob, windowVars, ganeshaVars>>

HandleHup ==
  /\ hup /\ hup' = FALSE /\ refused' = {}
  /\ UNCHANGED <<daemonVars, logVars, ob, windowVars, mapped, way>>

\* The supervisor truncates the log at its cap: what was not read is gone.
Rotate ==
  /\ way # "quiet" /\ Spend /\ log' = <<>>
  /\ tail' = IF tail = "open" THEN "stale" ELSE tail
  /\ UNCHANGED <<ldapVars, pool, entries, file, rows, job, flights, conn, acceptor, live, cli,
                 ob, windowVars, ganeshaVars>>

-----------------------------------------------------------------------------
(* Reading the log.                                                        *)

\* The file is opened at its end, at first and after a rotation: the lines
\* written until then are never seen.
Reopen ==
  /\ tail # "open" /\ acceptor # "startup"
  /\ tail' = "open" /\ log' = <<>>
  /\ UNCHANGED <<daemonVars, ob, windowVars, ganeshaVars>>

extract_uid_from_managed_gids_failure(line) ==
  IF line.kind = "managed_gids" THEN {line.who} ELSE {}
extract_user_from_getgrouplist_line(line) ==
  IF line.kind = "getgrouplist" THEN {line.who} ELSE {}
extract_linux_nfs_hostname(line) == IF line.kind = "client" THEN {line.who} ELSE {}

\* A principal is found in the lines that name one; a client's host stands for
\* its host principal.
LookedUp(line) == IF line.kind = "lookup" THEN {line.who} ELSE {}
extract_candidate_principal(line) ==
  LookedUp(line) \union (IF line.kind = "unmapped" THEN {line.who} ELSE {})
    \union extract_linux_nfs_hostname(line)

\* Machines of clients are anonymous by design.
unmapped_principal_needs_heal(p) == p \notin Hosts

\* Mutant: the stores are repaired and Ganesha is not told.
heal_principal_immediately_Silent(send_sighup) == <<"heal">>

\* heal_principal_immediately: resolve and materialize, then the SIGHUP.
heal_principal_immediately(send_sighup) ==
  <<"heal">> \o (IF send_sighup THEN <<"hup">> ELSE <<>>)

\* What a line makes the observer do, as the users concerned (at most one) and
\* the steps.  A REBULK is sent to the daemon's own socket without waiting.
detect_my_getgrouplist_failure_and_heal(line) ==
  {<<u, <<"rebulk", "heal", "hup", "recheck">>>> : u \in extract_user_from_getgrouplist_line(line)}

detect_managed_gids_uid_failure_and_heal(line) ==
  {<<u, IF u \in entries THEN heal_principal_immediately(TRUE) ELSE <<"rebulk", "materialize", "hup">>>> :
     u \in extract_uid_from_managed_gids_failure(line)}

Hint(line) ==
  LET unmapped == line.kind = "unmapped"
  IN {<<u, (IF unmapped THEN heal_principal_immediately(TRUE) ELSE <<>>) \o <<"resolve">>>> :
        u \in {p \in extract_candidate_principal(line) : unmapped_principal_needs_heal(p)}}

\* The windows: 30 s for a user of either heal, 5 s between any two getgrouplist
\* heals, and 2 s or 30 s for a hint.  Inside one a line is dropped; a line may
\* come after it.
InWindow(line) ==
  \/ extract_user_from_getgrouplist_line(line) # {} /\ healed_getgrouplist # {}
  \/ extract_uid_from_managed_gids_failure(line) \intersect healed_uids # {}
  \/ extract_candidate_principal(line) \intersect recently # {}

Reading == tail = "open" /\ log # <<>> /\ ob = Resting /\ job.who # "observer"

DropLine ==
  /\ Reading /\ InWindow(Head(log))
  /\ log' = Tail(log)
  /\ UNCHANGED <<daemonVars, tail, ob, windowVars, ganeshaVars>>

\* observe_ganesha_log, one line.  The lookup of a uid in the cache waits for
\* the lock.
ReadLine ==
  /\ Reading
  /\ LET line == Head(log)
         grp == detect_my_getgrouplist_failure_and_heal(line)
         uid == detect_managed_gids_uid_failure_and_heal(line)
         hint == Hint(line)
         who(found) == {f[1] : f \in found}
     IN /\ uid # {} => LockFree
        /\ healed_getgrouplist' = healed_getgrouplist \union who(grp)
        /\ healed_uids' = healed_uids \union who(uid)
        /\ recently' = recently \union who(hint)
        /\ ob' = IF grp \union uid \union hint = {} THEN Resting
                 ELSE LET f == CHOOSE g \in grp \union uid \union hint : TRUE
                      IN [u |-> f[1], todo |-> f[2]]
        /\ log' = Tail(log)
  /\ UNCHANGED <<daemonVars, tail, ganeshaVars>>

-----------------------------------------------------------------------------
(* The steps of a heal.                                                    *)

Doing(step) == ob.todo # <<>> /\ Head(ob.todo) = step
Done == ob' = IF Len(ob.todo) = 1 THEN Resting ELSE [ob EXCEPT !.todo = Tail(@)]

\* Bound: the observer's last REBULK has been served.
SendRebulk ==
  /\ Doing("rebulk") /\ Done
  /\ Send(HealConn, <<"REBULK">>)
  /\ UNCHANGED <<ldapVars, pool, entries, file, rows, job, flights, acceptor, live, cli, spent,
                 logVars, windowVars, ganeshaVars>>

\* The steps that take the lock; the step is over when the lock is free again.
ObserverLocks ==
  /\ \E step \in {"heal", "materialize", "resolve"} : Doing(step) /\ TakeLock("observer", step, ob.u)
  /\ Done
  /\ UNCHANGED <<ldapVars, pool, entries, file, rows, flights, conn, acceptor, live, cli, spent,
                 logVars, windowVars, ganeshaVars>>

\* signal_ganesha_reload_idmap, once the lock is released.
SendHup ==
  /\ Doing("hup") /\ Done /\ job.who # "observer"
  /\ hup' = TRUE
  /\ UNCHANGED <<daemonVars, logVars, windowVars, refused, mapped, way>>

\* GRPS on the socket; the observer waits for the answer, for eight seconds at
\* most, and does nothing with it.
Recheck ==
  /\ Doing("recheck")
  /\ \/ /\ Send(HealConn, <<"GRPS", ob.u>>)
        /\ ob' = [ob EXCEPT !.todo = <<"answer">>]
     \/ /\ conn[HealConn].at # "idle"
        /\ Done /\ UNCHANGED conn
  /\ UNCHANGED <<ldapVars, pool, entries, file, rows, job, flights, acceptor, live, cli, spent,
                 logVars, windowVars, ganeshaVars>>

Answered ==
  /\ Doing("answer") /\ Done
  /\ UNCHANGED <<daemonVars, logVars, windowVars, ganeshaVars>>

-----------------------------------------------------------------------------
RestartAll ==
  /\ RestartDaemon
  /\ tail' = "closed" /\ ob' = Resting
  /\ recently' = {} /\ healed_uids' = {} /\ healed_getgrouplist' = {}
  /\ UNCHANGED <<log, ganeshaVars>>

Init ==
  /\ DaemonInit
  /\ log = <<>> /\ tail = "closed" /\ ob = Resting
  /\ recently = {} /\ healed_uids = {} /\ healed_getgrouplist = {}
  /\ hup = FALSE /\ refused = {} /\ mapped = {} /\ way \in Failures \union {"quiet"}

observerVars == <<logVars, ob, windowVars, ganeshaVars>>

LockHolder == Lookup \/ Load \/ Apply \/ Abandon
ObserverStep == SendRebulk \/ ObserverLocks \/ SendHup \/ Recheck \/ Answered
ConnStep(c) == Accept(c) \/ begin(c) \/ Reply(c)

Next ==
  \/ LockHolder /\ UNCHANGED observerVars
  \/ \E c \in Conns : (ConnStep(c) \/ Serve(c) \/ Panic(c)) /\ UNCHANGED observerVars
  \/ \E c \in Clients : way = "quiet" /\ Connect(c) /\ UNCHANGED observerVars
  \/ Timer /\ UNCHANGED observerVars
  \/ (\E u \in Users : CliStarts(u) \/ Edit(u)) /\ UNCHANGED observerVars
  \/ (CliResolves \/ CliWrites \/ Outage \/ Recover) /\ UNCHANGED observerVars
  \/ RestartAll
  \/ \E u \in Users : Ask(u)
  \/ \E h \in Hosts : ClientSeen(h)
  \/ HandleHup \/ Rotate \/ Reopen \/ DropLine \/ ReadLine \/ ObserverStep

\* Threads keep running, and of the lines that keep coming one comes after the
\* window (ReadLine).  A thread that waits for the cache lock
\* gets it in the end: the threads that come back for it sleep in between.  LDAP
\* recovers, and a client whose user was not mapped tries again.
ThreadStep ==
  \/ (LockHolder \/ \E c \in Conns : ConnStep(c)) /\ UNCHANGED observerVars
  \/ Reopen

Fairness ==
  /\ WF_vars(ThreadStep)
  /\ WF_vars(HandleHup)
  /\ WF_vars(Recover /\ UNCHANGED observerVars)
  /\ SF_vars(((\E c \in Conns : Serve(c)) /\ UNCHANGED observerVars) \/ ObserverStep)
  /\ SF_vars(ReadLine)
  /\ SF_vars(\E u \in Users : Ask(u))

Spec == Init /\ [][Next]_vars /\ Fairness

-----------------------------------------------------------------------------
(* Properties.                                                             *)

\* An OK to a REBULK is about the directory as it was when the request was sent,
\* or later: the cache holds whoever has been in the directory since, and nobody
\* who has been out of it since.  This is what refresh-identity relies on when it
\* reports the identity layer refreshed, and it must not be lost to the requests
\* that wait for an earlier, identical one.
RebulkFresh ==
  \A c \in Conns :
    conn[c].at = "reply" /\ conn[c].req = <<"REBULK">> /\ conn[c].ok
      => conn[c].held \subseteq entries /\ conn[c].gone \intersect entries = {}

\* Every connection is served to its end, whatever the leader of its flight, the
\* holder of the cache lock and the accept loop meanwhile wait for, and also when
\* a client thread panics: again and again there is no connection left waiting.
ClientsServed == []<>(\A c \in Conns : conn[c].at \in {"idle", "closed"})

\* A user of the directory whose clients keep trying is mapped by Ganesha in the
\* end: the observer sees a failure it may act on, the stores get the row, and
\* Ganesha forgets the failure after that, although hints are rate limited, the
\* log is truncated, the REBULK it sends is not waited for, and a command line
\* may write the stores from an older cache.
UsersMapped ==
  \A u \in Users : u \in directory /\ way # "quiet" ~> u \notin directory \/ u \in mapped

=============================================================================
