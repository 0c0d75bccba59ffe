-------------------------- MODULE SelfRepairProofs --------------------------
(***************************************************************************)
(* Theorems about the two limiters of self-repair: LogObserver, the        *)
(* identity daemon with its observer, for any number of users, connections *)
(* and threads; and RespawnBudget, the respawns of pid 1, for every set of *)
(* services, every visiting order, and every window, budget and cooldown.  *)
(***************************************************************************)
EXTENDS LogObserver, RespawnBudget, FiniteSetTheorems, TLAPS

-----------------------------------------------------------------------------
(***************************************************************************)
(* The daemon: an OK to a REBULK is about the directory as it was when the *)
(* request was sent, or later.                                             *)
(***************************************************************************)

JobFields == {"who", "op", "u", "at", "got"}
ConnFields == {"at", "req", "leader", "inline", "ok", "held", "gone"}

JobShape == DOMAIN job = JobFields
ConnShape(r) == DOMAIN r = ConnFields

\* A set of users agrees with all that is known since a request was sent.
Agrees(set, r) == r.held \subseteq set /\ r.gone \intersect set = {}

\* A rebulk that is about to be answered with OK.
Served(r) == r.at = "reply" /\ r.req = <<"REBULK">> /\ r.ok

(***************************************************************************)
(* The inductive invariant.  Between the answer and its delivery others    *)
(* take the lock: what they are about to write agrees with every rebulk    *)
(* that was served, since it was read after it, and so do the rows that    *)
(* getent answers from.  The holder of the lock is at work on what was     *)
(* requested.                                                              *)
(***************************************************************************)
DaemonInv ==
  /\ JobShape
  /\ conn = [c \in Conns |-> conn[c]]
  /\ \A c \in Conns : ConnShape(conn[c]) /\ Agrees(directory, conn[c])
  /\ job.who \in Conns =>
       /\ conn[job.who].at = "work"
       /\ conn[job.who].req = <<"REBULK">> => job.op = "rebulk"
  /\ \A c \in Conns : Served(conn[c]) => Agrees(entries, conn[c]) /\ conn[c].gone \intersect rows = {}
  /\ job.at = "write" =>
       \A c \in Conns :
         Served(conn[c]) \/ (job.who = c /\ job.op = "rebulk") => Agrees(job.got, conn[c])

-----------------------------------------------------------------------------
(***************************************************************************)
(* Changes that the invariant survives.                                    *)
(***************************************************************************)

\* No connection is one of the daemon's own threads.
LEMMA Distinct ==
  /\ HealConn \in Conns /\ Clients \subseteq Conns
  /\ NoOne \notin Conns /\ "observer" \notin Conns /\ "timer" \notin Conns /\ "startup" \notin Conns
  BY DaemonAssumption DEF Conns, Own

\* The request is the same, and so is what is known since it was sent.
SameRequest(r, q) == ConnShape(r) /\ r.req = q.req /\ r.held = q.held /\ r.gone = q.gone

\* One connection changes, while the lock and the stores stay: it does not become
\* one that was served, and it knows no more of the directory than before.
LEMMA ConnChanges ==
  ASSUME DaemonInv, NEW c \in Conns, NEW r, conn' = [conn EXCEPT ![c] = r],
         ConnShape(r), Agrees(directory, r), ~Served(r), job.who # c \/ job' = NoJob,
         job' = job \/ job' = NoJob, UNCHANGED <<directory, entries, rows>>
  PROVE  DaemonInv'
  <1>1. /\ conn' = [d \in Conns |-> conn'[d]]
        /\ \A d \in Conns : conn'[d] = IF d = c THEN r ELSE conn[d]
    BY DEF DaemonInv
  <1>2. \A d \in Conns : ConnShape(conn'[d]) /\ Agrees(directory', conn'[d])
    BY <1>1 DEF DaemonInv
  <1>3. \A d \in Conns : Served(conn'[d]) => Served(conn[d]) /\ conn'[d] = conn[d]
    BY <1>1
  <1>4. CASE job' = NoJob
    <2>1. JobShape' /\ job'.who = NoOne /\ job'.at = ""
      BY <1>4 DEF NoJob, JobShape, JobFields
    <2> QED
      BY <1>1, <1>2, <1>3, <2>1, Distinct DEF DaemonInv
  <1>5. CASE job' = job /\ job.who # c
    <2>1. \A d \in Conns : d # c => conn'[d] = conn[d]
      BY <1>1
    <2>2. JobShape'
      BY <1>5 DEF DaemonInv, JobShape, JobFields
    <2>3. job.who \in Conns => conn'[job.who] = conn[job.who]
      BY <1>5, <2>1
    <2>4. ASSUME NEW d \in Conns, job.at = "write",
                 Served(conn'[d]) \/ (job.who = d /\ job.op = "rebulk")
          PROVE  Agrees(job.got, conn'[d])
      BY <1>3, <1>5, <2>3, <2>4 DEF DaemonInv
    <2> QED
      BY <1>1, <1>2, <1>3, <1>5, <2>2, <2>3, <2>4 DEF DaemonInv
  <1> QED
    BY <1>4, <1>5

\* The lock is taken by a thread of the daemon.
LEMMA LockTaken ==
  ASSUME DaemonInv, NEW who, who \notin Conns, NEW op, NEW u, TakeLock(who, op, u),
         UNCHANGED <<directory, entries, rows, conn>>
  PROVE  DaemonInv'
  <1>1. JobShape' /\ job'.who = who /\ job'.at = "read"
    BY DEF TakeLock, JobShape, JobFields
  <1> QED
    BY <1>1 DEF DaemonInv

\* Connections are told less of what has been in the directory since, or are gone.
LEMMA ConnsForget ==
  ASSUME DaemonInv, conn' = [c \in Conns |-> conn'[c]],
         \A c \in Conns : /\ ConnShape(conn'[c]) /\ Agrees(directory', conn'[c])
                          /\ conn'[c].held \subseteq conn[c].held /\ conn'[c].gone \subseteq conn[c].gone
                          /\ conn'[c].at = conn[c].at /\ conn'[c].req = conn[c].req
                          /\ conn'[c].ok = conn[c].ok
                          /\ Served(conn[c]) => conn'[c].gone \intersect rows' = {},
         UNCHANGED <<job, entries>>
  PROVE  DaemonInv'
  <1>1. JobShape'
    BY DEF DaemonInv, JobShape, JobFields
  <1>2. \A c \in Conns : /\ Served(conn'[c]) => Served(conn[c])
                         /\ \A set : Agrees(set, conn[c]) => Agrees(set, conn'[c])
    BY DEF Served, Agrees
  <1>3. job'.who \in Conns => /\ conn'[job'.who].at = "work"
                              /\ conn'[job'.who].req = <<"REBULK">> => job'.op = "rebulk"
    BY DEF DaemonInv
  <1> QED
    BY <1>1, <1>2, <1>3 DEF DaemonInv

-----------------------------------------------------------------------------
(***************************************************************************)
(* Under the cache lock.                                                   *)
(***************************************************************************)

\* What is read agrees with every rebulk that was served.
LEMMA LookupKeeps == ASSUME DaemonInv, Lookup PROVE DaemonInv'
  <1>1. PICK at, got : job' = [job EXCEPT !.at = at, !.got = got]
    BY Zenon DEF Lookup
  <1>2. /\ job.op # "rebulk" /\ UNCHANGED <<directory, entries, rows, conn>>
        /\ \/ job'.got = entries
           \/ \E known \in getent(job.u) :
                LET found == known \/ (service_search.ok /\ job.u \in directory)
                IN job'.got = entries \union (IF found THEN {job.u} ELSE {})
    <2> HIDE DEF service_search
    <2>1. CASE job' = [job EXCEPT !.at = "write", !.got = entries]
      BY Zenon, <2>1 DEF Lookup, ldapVars, DaemonInv, JobShape, JobFields
    <2> QED
      BY Zenon, <2>1 DEF Lookup, ldapVars, DaemonInv, JobShape, JobFields
  <1>3. JobShape' /\ job'.who = job.who /\ job'.op = job.op
    BY <1>1 DEF DaemonInv, JobShape, JobFields
  <1>4. job'.got = entries \/ (job'.got = entries \union {job.u} /\ job.u \in rows \union directory)
    BY Zenon, <1>2 DEF getent
  <1>5. ASSUME NEW c \in Conns, Served(conn[c]) PROVE Agrees(job'.got, conn[c])
    BY <1>4, <1>5 DEF DaemonInv, Agrees
  <1> QED
    BY <1>2, <1>3, <1>5 DEF DaemonInv

\* What a rebulk loads is the directory.
LEMMA LoadKeeps == ASSUME DaemonInv, Load PROVE DaemonInv'
  <1>1. /\ JobShape' /\ job'.who = job.who /\ job'.op = job.op /\ job'.got = directory
        /\ UNCHANGED <<directory, entries, rows, conn>>
    BY DEF Load, DaemonInv, JobShape, JobFields, ldapVars
  <1> QED
    BY <1>1 DEF DaemonInv

\* The lock is released, and the connection that held it has its answer.
LEMMA ReleasedConn ==
  ASSUME DaemonInv, NEW ok, Release(ok)
  PROVE  /\ conn' = [c \in Conns |-> conn'[c]]
         /\ \A c \in Conns :
              /\ ConnShape(conn'[c]) /\ conn'[c].req = conn[c].req
              /\ conn'[c].held = conn[c].held /\ conn'[c].gone = conn[c].gone
              /\ c # job.who => conn'[c] = conn[c]
              /\ c = job.who => conn'[c].ok = ok
         /\ JobShape' /\ job'.who = NoOne /\ job'.at = ""
  <1>1. JobShape' /\ job'.who = NoOne /\ job'.at = ""
    BY DEF Release, NoJob, JobShape, JobFields
  <1>2. CASE job.who \in Conns
    <2> DEFINE w == job.who
               r == [conn[w] EXCEPT !.at = "reply", !.ok = ok]
    <2>1. /\ ConnShape(r) /\ r.req = conn[w].req /\ r.held = conn[w].held
          /\ r.gone = conn[w].gone /\ r.ok = ok
      BY <1>2 DEF DaemonInv, ConnShape, ConnFields
    <2>2. conn' = [conn EXCEPT ![w] = r]
      BY Zenon, <1>2 DEF Release, DaemonInv
    <2> HIDE DEF r
    <2> QED
      BY <1>1, <1>2, <2>1, <2>2 DEF DaemonInv
  <1>3. CASE job.who \notin Conns
    BY <1>1, <1>3 DEF Release, DaemonInv
  <1> QED
    BY <1>2, <1>3

\* The cache takes what was read.
LEMMA ApplyKeeps == ASSUME DaemonInv, Apply PROVE DaemonInv'
  <1> DEFINE ok == job.op \in {"rebulk", "materialize"} \/ job.u \in job.got
  <1>1. /\ Release(ok) /\ entries' = job.got /\ job.at = "write" /\ UNCHANGED directory
        /\ rows' = job.got \/ (rows' = rows /\ job.op = "resolve")
    BY DEF Apply, ldapVars
  <1>2. /\ conn' = [c \in Conns |-> conn'[c]]
        /\ \A c \in Conns :
             /\ ConnShape(conn'[c]) /\ conn'[c].req = conn[c].req
             /\ conn'[c].held = conn[c].held /\ conn'[c].gone = conn[c].gone
             /\ c # job.who => conn'[c] = conn[c]
        /\ JobShape' /\ job'.who = NoOne /\ job'.at = ""
    BY <1>1, ReleasedConn
  <1>3. \A c \in Conns : \A set : Agrees(set, conn'[c]) <=> Agrees(set, conn[c])
    BY <1>2 DEF Agrees
  <1>4. ASSUME NEW c \in Conns, Served(conn'[c])
        PROVE  Agrees(entries', conn'[c]) /\ conn'[c].gone \intersect rows' = {}
    <2>1. CASE c = job.who
      <3>1. conn[c].req = <<"REBULK">>
        BY <1>2, <1>4 DEF Served
      <3>2. job.op = "rebulk" /\ Agrees(job.got, conn[c])
        BY <1>1, <2>1, <3>1 DEF DaemonInv
      <3> QED
        BY <1>1, <1>2, <1>3, <3>2 DEF Agrees
    <2>2. CASE c # job.who
      <3>1. Served(conn[c]) /\ conn'[c] = conn[c]
        BY <1>2, <1>4, <2>2
      <3>2. Agrees(job.got, conn[c]) /\ conn[c].gone \intersect rows = {}
        BY <1>1, <3>1 DEF DaemonInv
      <3> QED
        BY <1>1, <3>1, <3>2 DEF Agrees
    <2> QED
      BY <2>1, <2>2
  <1>5. \A c \in Conns : Agrees(directory', conn'[c])
    BY <1>1, <1>3 DEF DaemonInv
  <1> QED
    BY <1>2, <1>4, <1>5, Distinct DEF DaemonInv

\* Nothing was loaded, and the answer is not OK.
LEMMA AbandonKeeps == ASSUME DaemonInv, Abandon PROVE DaemonInv'
  <1>1. Release(FALSE) /\ UNCHANGED <<directory, entries, rows>>
    BY Zenon DEF Abandon, ldapVars
  <1>2. /\ conn' = [c \in Conns |-> conn'[c]]
        /\ \A c \in Conns :
             /\ ConnShape(conn'[c]) /\ conn'[c].req = conn[c].req
             /\ conn'[c].held = conn[c].held /\ conn'[c].gone = conn[c].gone
             /\ c # job.who => conn'[c] = conn[c]
             /\ c = job.who => conn'[c].ok = FALSE
        /\ JobShape' /\ job'.who = NoOne /\ job'.at = ""
    BY <1>1, ReleasedConn
  <1>3. \A c \in Conns : Served(conn'[c]) => Served(conn[c]) /\ conn'[c] = conn[c]
    BY <1>2 DEF Served
  <1>4. \A c \in Conns : Agrees(directory', conn'[c])
    BY <1>1, <1>2 DEF DaemonInv, Agrees
  <1> QED
    BY <1>1, <1>2, <1>3, <1>4, Distinct DEF DaemonInv

-----------------------------------------------------------------------------
(***************************************************************************)
(* The connections.                                                        *)
(***************************************************************************)

\* A connection that is new or over knows nothing.
LEMMA HangupShape ==
  ASSUME NEW c
  PROVE  ConnShape(Hangup(c)) /\ Agrees(directory, Hangup(c)) /\ ~Served(Hangup(c))
  BY DEF Hangup, Idle, Closed, ConnShape, ConnFields, Agrees, Served

\* A request that is sent knows the directory as it is.
LEMMA SendKeeps ==
  ASSUME DaemonInv, NEW c \in Conns, NEW req, Send(c, req),
         UNCHANGED <<directory, entries, rows, job>>
  PROVE  DaemonInv'
  <1> DEFINE rebulk == req = <<"REBULK">>
             held == IF rebulk THEN directory ELSE {}
             gone == IF rebulk THEN Users \ directory ELSE {}
             r == [Idle EXCEPT !.at = "queued", !.req = req, !.held = held, !.gone = gone]
  <1>1. conn[c].at = "idle" /\ conn' = [conn EXCEPT ![c] = r]
    BY DEF Send
  <1>2. held \subseteq directory /\ gone \intersect directory = {}
    OBVIOUS
  <1> HIDE DEF held, gone
  <1>5. ConnShape(r) /\ r.at = "queued" /\ r.held = held /\ r.gone = gone
    <2>1. ConnShape(Idle)
      BY DEF Idle, ConnShape, ConnFields
    <2> QED
      BY <2>1 DEF ConnShape, ConnFields
  <1> HIDE DEF r
  <1>3. ConnShape(r) /\ Agrees(directory, r) /\ ~Served(r)
    BY <1>2, <1>5 DEF Agrees, Served
  <1> HIDE DEF r
  <1>4. job.who # c
    BY <1>1 DEF DaemonInv
  <1> QED
    BY Zenon, <1>1, <1>3, <1>4, ConnChanges

\* A connection goes on to a stage where it has no answer, or to one that is not a
\* rebulk's.
LEMMA StageKeeps ==
  ASSUME DaemonInv, NEW c \in Conns, conn[c].at # "work",
         NEW r, SameRequest(r, conn[c]), r.at = "reply" => r.req # <<"REBULK">>,
         conn' = [conn EXCEPT ![c] = r],
         UNCHANGED <<directory, entries, rows, job>>
  PROVE  DaemonInv'
  <1>1. ConnShape(r) /\ Agrees(directory, r) /\ ~Served(r)
    BY DEF SameRequest, Agrees, Served, DaemonInv
  <1>2. job.who # c
    BY DEF DaemonInv
  <1> QED
    BY Zenon, <1>1, <1>2, ConnChanges

\* The accept loop takes a connection.
LEMMA AcceptKeeps == ASSUME DaemonInv, NEW c \in Conns, Accept(c) PROVE DaemonInv'
  <1> DEFINE r1 == [conn[c] EXCEPT !.at = "begin"]
             r2 == [conn[c] EXCEPT !.at = "begin", !.inline = TRUE]
  <1>1. /\ conn[c].at = "queued" /\ UNCHANGED <<directory, entries, rows, job>>
        /\ conn' = [conn EXCEPT ![c] = r1] \/ conn' = [conn EXCEPT ![c] = r2]
    BY DEF Accept, ldapVars, DaemonInv
  <1>4. /\ r1 = [conn[c] EXCEPT !.at = "begin"]
        /\ r2 = [conn[c] EXCEPT !.at = "begin", !.inline = TRUE]
    OBVIOUS
  <1>5. ConnShape(conn[c])
    BY DEF DaemonInv
  <1> HIDE DEF r1, r2
  <1>2. SameRequest(r1, conn[c]) /\ r1.at = "begin"
    BY <1>4, <1>5 DEF ConnShape, ConnFields, SameRequest
  <1>3. SameRequest(r2, conn[c]) /\ r2.at = "begin"
    BY <1>4, <1>5 DEF ConnShape, ConnFields, SameRequest
  <1> QED
    BY <1>1, <1>2, <1>3, StageKeeps

\* It becomes a leader, waits for one, or needs none.
LEMMA BeginKeeps == ASSUME DaemonInv, NEW c \in Conns, begin(c) PROVE DaemonInv'
  <1> DEFINE leads == conn[c].at = "begin"
             r1 == [conn[c] EXCEPT !.at = "reply", !.ok = TRUE]
             r2 == [conn[c] EXCEPT !.at = "wait"]
             r3 == [conn[c] EXCEPT !.at = "lock", !.leader = leads]
  <1>1. /\ conn[c].at # "work" /\ UNCHANGED <<directory, entries, rows, job>>
        /\ \/ conn[c].req = <<"PING">> /\ conn' = [conn EXCEPT ![c] = r1]
           \/ conn' = [conn EXCEPT ![c] = r2]
           \/ conn' = [conn EXCEPT ![c] = r3]
    BY DEF begin, ldapVars, DaemonInv
  <1>6. /\ r1 = [conn[c] EXCEPT !.at = "reply", !.ok = TRUE]
        /\ r2 = [conn[c] EXCEPT !.at = "wait"]
        /\ r3 = [conn[c] EXCEPT !.at = "lock", !.leader = leads]
    OBVIOUS
  <1>7. ConnShape(conn[c])
    BY DEF DaemonInv
  <1> HIDE DEF r1, r2, r3, leads
  <1>2. SameRequest(r1, conn[c]) /\ r1.at = "reply"
    BY <1>6, <1>7 DEF ConnShape, ConnFields, SameRequest
  <1>3. SameRequest(r2, conn[c]) /\ r2.at = "wait"
    BY <1>6, <1>7 DEF ConnShape, ConnFields, SameRequest
  <1>4. SameRequest(r3, conn[c]) /\ r3.at = "lock"
    BY <1>6, <1>7 DEF ConnShape, ConnFields, SameRequest
  <1>5. CASE conn[c].req = <<"PING">> /\ conn' = [conn EXCEPT ![c] = r1]
    <2>1. r1.req # <<"REBULK">>
      BY <1>2, <1>5 DEF SameRequest
    <2> QED
      BY Zenon, <1>1, <1>2, <1>5, <2>1, StageKeeps
  <1> QED
    BY <1>1, <1>3, <1>4, <1>5, StageKeeps

\* A connection takes the lock for what it asks.
LEMMA ServeKeeps == ASSUME DaemonInv, NEW c \in Conns, Serve(c) PROVE DaemonInv'
  <1> DEFINE r == [conn[c] EXCEPT !.at = "work"]
  <1>1. ConnShape(r) /\ r.at = "work" /\ r.req = conn[c].req /\ r.held = conn[c].held /\ r.gone = conn[c].gone
    BY DEF DaemonInv, ConnShape, ConnFields
  <1>2. conn' = [conn EXCEPT ![c] = r] /\ UNCHANGED <<directory, entries, rows>>
    BY DEF Serve, ldapVars
  <1>3. /\ JobShape' /\ job'.who = c /\ job'.at = "read"
        /\ conn[c].req = <<"REBULK">> => job'.op = "rebulk"
    BY DEF Serve, TakeLock, JobShape, JobFields
  <1> HIDE DEF r
  <1>4. /\ conn' = [d \in Conns |-> conn'[d]] /\ conn'[c] = r
        /\ \A d \in Conns : d # c => conn'[d] = conn[d]
    BY <1>2 DEF DaemonInv
  <1>5. ~Served(r) /\ Agrees(directory, r)
    BY <1>1 DEF Served, Agrees, DaemonInv
  <1> QED
    BY <1>1, <1>2, <1>3, <1>4, <1>5 DEF DaemonInv

\* The reply is written.
LEMMA ReplyKeeps == ASSUME DaemonInv, NEW c \in Conns, Reply(c) PROVE DaemonInv'
  <1>1. /\ conn[c].at = "reply" /\ conn' = [conn EXCEPT ![c] = Hangup(c)]
        /\ UNCHANGED <<directory, entries, rows, job>>
    BY DEF Reply, ldapVars
  <1>2. job.who # c
    BY <1>1 DEF DaemonInv
  <1> QED
    BY Zenon, <1>1, <1>2, HangupShape, ConnChanges

\* A client thread panics.
LEMMA PanicKeeps == ASSUME DaemonInv, NEW c \in Conns, Panic(c) PROVE DaemonInv'
  <1>1. /\ job' = NoJob /\ conn' = [conn EXCEPT ![c] = Hangup(c)]
        /\ UNCHANGED <<directory, entries, rows>>
    BY DEF Panic, ldapVars
  <1> QED
    BY Zenon, <1>1, HangupShape, ConnChanges

\* The daemon is started again.
LEMMA RestartDaemonKeeps == ASSUME DaemonInv, RestartDaemon PROVE DaemonInv'
  <1>1. JobShape' /\ job'.who = "startup" /\ job'.at = "read" /\ UNCHANGED directory
    BY DEF RestartDaemon, NoJob, JobShape, JobFields, ldapVars
  <1>2. conn' = [c \in Conns |-> IF conn[c].at = "idle" THEN conn[c] ELSE Hangup(c)]
    BY DEF RestartDaemon
  <1>3. ASSUME NEW c \in Conns
        PROVE  ConnShape(conn'[c]) /\ Agrees(directory, conn'[c]) /\ ~Served(conn'[c])
    <2>1. CASE conn[c].at = "idle"
      BY <1>2, <2>1 DEF DaemonInv, Served
    <2>2. CASE conn[c].at # "idle"
      BY <1>2, <2>2, HangupShape
    <2> QED
      BY <2>1, <2>2
  <1> QED
    BY <1>1, <1>2, <1>3, Distinct DEF DaemonInv

\* Whom the command line writes into the stores, a rebulk that was served before
\* does not speak of.
LEMMA CliWritesKeeps == ASSUME DaemonInv, CliWrites PROVE DaemonInv'
  <1>1. /\ rows' = cli.got /\ UNCHANGED <<directory, entries, job>>
        /\ conn' = [c \in Conns |-> [conn[c] EXCEPT !.gone = @ \ cli.got]]
    BY DEF CliWrites, ldapVars
  <1>2. ASSUME NEW c \in Conns
        PROVE  /\ ConnShape(conn'[c]) /\ conn'[c].held = conn[c].held
               /\ conn'[c].gone = conn[c].gone \ cli.got
               /\ conn'[c].at = conn[c].at /\ conn'[c].req = conn[c].req /\ conn'[c].ok = conn[c].ok
    <2> DEFINE gone == conn[c].gone \ cli.got
    <2>1. conn'[c] = [conn[c] EXCEPT !.gone = gone]
      BY <1>1
    <2> HIDE DEF gone
    <2>2. /\ ConnShape(conn'[c]) /\ conn'[c].held = conn[c].held /\ conn'[c].gone = gone
          /\ conn'[c].at = conn[c].at /\ conn'[c].req = conn[c].req /\ conn'[c].ok = conn[c].ok
      BY <2>1 DEF DaemonInv, ConnShape, ConnFields
    <2> QED
      BY <2>2 DEF gone
  <1>3. \A c \in Conns : Agrees(directory', conn'[c])
    BY Zenon, <1>1, <1>2 DEF DaemonInv, Agrees
  <1> QED
    BY <1>1, <1>2, <1>3, ConnsForget

\* The directory is edited.
LEMMA EditKeeps == ASSUME DaemonInv, NEW u, Edit(u) PROVE DaemonInv'
  <1>1. /\ directory' \in {directory \ {u}, directory \union {u}} /\ UNCHANGED <<entries, rows, job>>
        /\ conn' = [c \in Conns |-> [conn[c] EXCEPT !.held = @ \ {u}, !.gone = @ \ {u}]]
    BY Zenon DEF Edit
  <1>2. ASSUME NEW c \in Conns
        PROVE  /\ ConnShape(conn'[c])
               /\ conn'[c].held = conn[c].held \ {u} /\ conn'[c].gone = conn[c].gone \ {u}
               /\ conn'[c].at = conn[c].at /\ conn'[c].req = conn[c].req /\ conn'[c].ok = conn[c].ok
    <2> DEFINE held == conn[c].held \ {u}
               gone == conn[c].gone \ {u}
    <2>1. conn'[c] = [conn[c] EXCEPT !.held = held, !.gone = gone]
      BY Zenon, <1>1
    <2> HIDE DEF held, gone
    <2>2. /\ ConnShape(conn'[c]) /\ conn'[c].held = held /\ conn'[c].gone = gone
          /\ conn'[c].at = conn[c].at /\ conn'[c].req = conn[c].req /\ conn'[c].ok = conn[c].ok
      BY <2>1 DEF DaemonInv, ConnShape, ConnFields
    <2> QED
      BY <2>2 DEF held, gone
  <1>3. ASSUME NEW c \in Conns PROVE Agrees(directory', conn'[c])
    <2>1. conn[c].held \subseteq directory /\ conn[c].gone \intersect directory = {}
      BY DEF DaemonInv, Agrees
    <2>2. /\ conn[c].held \ {u} \subseteq directory' /\ (conn[c].gone \ {u}) \intersect directory' = {}
      BY Zenon, <1>1, <2>1
    <2> QED
      BY <1>2, <2>2 DEF Agrees
  <1>4. \A c \in Conns : Served(conn[c]) => conn'[c].gone \intersect rows' = {}
    BY Zenon, <1>1, <1>2 DEF DaemonInv
  <1> QED
    BY Zenon, <1>1, <1>2, <1>3, <1>4, ConnsForget

\* Nothing that the invariant is about changes.
LEMMA DaemonStays ==
  ASSUME DaemonInv, UNCHANGED <<directory, entries, rows, job, conn>> PROVE DaemonInv'
  BY DEF DaemonInv, JobShape, JobFields

-----------------------------------------------------------------------------
(***************************************************************************)
(* The theorem.                                                            *)
(***************************************************************************)

\* The daemon starts with its first rebulk and with no connection.
LEMMA DaemonInitInv == Init => DaemonInv
  <1> SUFFICES ASSUME Init PROVE DaemonInv
    OBVIOUS
  <1>1. ConnShape(Idle) /\ Agrees(directory, Idle) /\ ~Served(Idle)
    BY DEF Idle, ConnShape, ConnFields, Agrees, Served
  <1>2. JobShape /\ job.who = "startup" /\ job.at = "read"
    BY DEF Init, DaemonInit, NoJob, JobShape, JobFields
  <1>3. conn = [c \in Conns |-> Idle]
    BY DEF Init, DaemonInit
  <1> QED
    BY <1>1, <1>2, <1>3, Distinct DEF DaemonInv

\* Every step, of the daemon, of its observer and of their surroundings.
LEMMA DaemonStepInv == DaemonInv /\ [Next]_vars => DaemonInv'
  <1> SUFFICES ASSUME DaemonInv, [Next]_vars PROVE DaemonInv'
    OBVIOUS
  <1>1. CASE LockHolder
    BY <1>1, LookupKeeps, LoadKeeps, ApplyKeeps, AbandonKeeps DEF LockHolder
  <1>2. ASSUME NEW c \in Conns, ConnStep(c) \/ Serve(c) \/ Panic(c) PROVE DaemonInv'
    BY <1>2, AcceptKeeps, BeginKeeps, ReplyKeeps, ServeKeeps, PanicKeeps DEF ConnStep
  <1>3. ASSUME NEW c \in Clients, Connect(c) PROVE DaemonInv'
    BY <1>3, SendKeeps, Distinct DEF Connect, ldapVars
  <1>4. CASE Timer
    BY <1>4, LockTaken, Distinct DEF Timer, ldapVars
  <1>5. ASSUME NEW u \in Users, CliStarts(u) \/ Edit(u) PROVE DaemonInv'
    BY <1>5, EditKeeps, DaemonStays DEF CliStarts, ldapVars
  <1>6. CASE CliResolves \/ CliWrites \/ Outage \/ Recover
    BY <1>6, CliWritesKeeps, DaemonStays DEF CliResolves, Outage, Recover, ldapVars
  <1>7. CASE RestartAll
    BY <1>7, RestartDaemonKeeps DEF RestartAll
  <1>8. ASSUME NEW u \in Users, Ask(u) PROVE DaemonInv'
    BY <1>8, DaemonStays DEF Ask, daemonVars, ldapVars
  <1>9. ASSUME NEW h \in Hosts, ClientSeen(h) PROVE DaemonInv'
    BY <1>9, DaemonStays DEF ClientSeen, ldapVars
  <1>10. CASE HandleHup \/ Rotate \/ Reopen \/ DropLine
    BY <1>10, DaemonStays DEF HandleHup, Rotate, Reopen, DropLine, daemonVars, ldapVars
  <1>11. CASE ReadLine
    BY <1>11, DaemonStays DEF ReadLine, daemonVars, ldapVars
  <1>12. CASE SendRebulk
    BY <1>12, SendKeeps, Distinct DEF SendRebulk, ldapVars
  <1>13. CASE ObserverLocks
    BY <1>13, LockTaken, Distinct DEF ObserverLocks, ldapVars
  <1>14. CASE SendHup \/ Answered
    BY <1>14, DaemonStays DEF SendHup, Answered, daemonVars, ldapVars
  <1>15. CASE Recheck
    BY <1>15, SendKeeps, DaemonStays, Distinct DEF Recheck, ldapVars
  <1>16. CASE UNCHANGED vars
    BY <1>16, DaemonStays DEF vars, daemonVars, ldapVars
  <1> QED
    BY <1>1, <1>2, <1>3, <1>4, <1>5, <1>6, <1>7, <1>8, <1>9, <1>10, <1>11, <1>12, <1>13, <1>14,
       <1>15, <1>16 DEF Next, ObserverStep

\* The invariant holds in every state.
LEMMA DaemonInvariance == Spec => []DaemonInv
  BY DaemonInitInv, DaemonStepInv, PTL DEF Spec

\* A REBULK that waited for an identical one is not answered from before it was
\* sent, whatever the other threads do until the answer is delivered (handle_client
\* and FlightGuard of bin/idhelper/daemon.rs).
THEOREM RebulksFresh == Spec => []RebulkFresh
  <1>1. DaemonInv => RebulkFresh
    BY DEF DaemonInv, RebulkFresh, Served, Agrees
  <1> QED
    BY <1>1, DaemonInvariance, PTL

-----------------------------------------------------------------------------
(***************************************************************************)
(* The respawn budget.                                                     *)
(***************************************************************************)

\* The attempts of s that still count against its budget.
Counted(s) == {a \in attempts[s] : a < Window}

\* A fatal line was only logged when it is remembered.
FatalRemembered == \A s \in Services : fatal[s] <= (IF logged[s] THEN 1 ELSE 0)

IInv == TypeOK /\ BudgetPerWindow /\ CooldownGap /\ FatalRemembered

\* Horizon is the natural number at which ages stop growing.
LEMMA HorizonType ==
  /\ Horizon \in Nat /\ Window \in Nat /\ MaxPass \in Nat /\ Cooldown \in Nat
  /\ Budget \in Nat /\ Cooldown > 0 /\ Cooldown <= Window /\ Budget > 0
  /\ Horizon = Window + MaxPass
  BY BudgetAssumption DEF Horizon

\* The visiting order is a list of services.
LEMMA OrderType ==
  /\ Len(Order) \in Nat
  /\ \A i \in 1 .. Len(Order) : Order[i] \in Services
  <1>1. Order \in Seq(Services)
    BY BudgetAssumption
  <1> QED
    BY <1>1

\* The retained and the counted attempts are finite sets.
LEMMA FiniteAttempts ==
  ASSUME TypeOK, NEW s \in Services
  PROVE  /\ IsFiniteSet(attempts[s]) /\ IsFiniteSet(Retained(s)) /\ IsFiniteSet(Counted(s))
         /\ Cardinality(Retained(s)) \in Nat /\ Cardinality(Counted(s)) \in Nat
         /\ attempts[s] \subseteq 0 .. Horizon
  <1>1. attempts[s] \subseteq 0 .. Horizon
    BY DEF TypeOK
  <1>2. IsFiniteSet(0 .. Horizon)
    BY HorizonType, FS_Interval
  <1>3. IsFiniteSet(attempts[s])
    BY Zenon, <1>1, <1>2, FS_Subset
  <1>4. Retained(s) \subseteq attempts[s] /\ Counted(s) \subseteq attempts[s]
    BY DEF Retained, Counted
  <1>5. IsFiniteSet(Retained(s)) /\ IsFiniteSet(Counted(s))
    BY <1>3, <1>4, FS_Subset
  <1> QED
    BY <1>1, <1>3, <1>5, FS_CardinalityType

\* Nothing has been attempted at the start.
LEMMA InitIInv == ASSUME BudgetInit PROVE IInv
  <1>1. TypeOK
    <2>1. 0 \in 0 .. Len(Order) /\ 0 \in 0 .. MaxPass
      BY HorizonType, OrderType
    <2> QED
      BY Zenon, <2>1 DEF BudgetInit, TypeOK
  <1>2. BudgetPerWindow
    <2> SUFFICES ASSUME NEW s \in Services
                 PROVE  Cardinality({a \in attempts[s] : a < Window}) <= Budget
      BY DEF BudgetPerWindow
    <2>1. {a \in attempts[s] : a < Window} = {}
      BY DEF BudgetInit
    <2> QED
      BY <2>1, FS_EmptySet, HorizonType
  <1>3. CooldownGap /\ FatalRemembered
    BY DEF BudgetInit, CooldownGap, FatalRemembered
  <1> QED
    BY <1>1, <1>2, <1>3 DEF IInv

\* Advancing the pass keeps the pass variables in their types.
LEMMA AdvanceType ==
  ASSUME TypeOK, cursor > 0, NEW b \in BOOLEAN, Advance(b)
  PROVE  cursor' \in 0 .. Len(Order) /\ stamp' \in 0 .. MaxPass /\ busy' \in BOOLEAN
  <1>1. cursor \in 0 .. Len(Order) /\ stamp \in 0 .. MaxPass
    BY DEF TypeOK
  <1>2. CASE cursor = Len(Order)
    <2>1. cursor' = 0 /\ stamp' = 0 /\ busy' = FALSE
      BY <1>2 DEF Advance
    <2>2. 0 \in 0 .. Len(Order) /\ 0 \in 0 .. MaxPass
      BY OrderType, HorizonType
    <2> QED
      BY Zenon, <2>1, <2>2
  <1>3. CASE cursor # Len(Order)
    <2>1. cursor' = cursor + 1 /\ busy' = b /\ stamp' = stamp
      BY <1>3 DEF Advance
    <2>2. cursor' \in 0 .. Len(Order)
      BY <1>1, <1>3, <2>1, OrderType
    <2> QED
      BY <1>1, <2>1, <2>2
  <1> QED
    BY <1>2, <1>3

\* One decision of the limiter keeps the budget, the gap and the fatal line.
LEMMA DecideIInv ==
  ASSUME IInv, NEW s \in Services, Decide(s)
  PROVE  /\ attempts' \in [Services -> SUBSET (0 .. Horizon)]
         /\ logged' \in [Services -> BOOLEAN]
         /\ actual' \in [Services -> SUBSET (0 .. Window - 1)]
         /\ fatal' \in [Services -> Nat]
         /\ BudgetPerWindow' /\ CooldownGap' /\ FatalRemembered'
  <1> TypeOK /\ BudgetPerWindow /\ CooldownGap /\ FatalRemembered
    BY DEF IInv
  <1> DEFINE go == Decision(s) = "Go"
             kept == IF go THEN Retained(s) \union {stamp} ELSE Retained(s)
  <1>1. Decision(s) \in {"Cooldown", "Exhausted", "Go"}
    BY DEF Decision
  <1>2. attempts' = [attempts EXCEPT ![s] = kept]
    BY DEF Decide
  <1>3. Retained(s) \subseteq attempts[s] /\ attempts[s] \subseteq 0 .. Horizon
        /\ stamp \in 0 .. MaxPass /\ stamp \in 0 .. Horizon
    BY HorizonType DEF Retained, TypeOK
  <1>4. attempts' \in [Services -> SUBSET (0 .. Horizon)]
    BY <1>2, <1>3 DEF TypeOK
  <1>5. logged' \in [Services -> BOOLEAN]
    BY <1>1 DEF Decide, TypeOK
  <1>6. actual' \in [Services -> SUBSET (0 .. Window - 1)]
    <2>1. 0 \in 0 .. Window - 1
      BY HorizonType
    <2> QED
      BY <2>1 DEF Decide, TypeOK
  <1>7. fatal' \in [Services -> Nat]
    BY <1>1 DEF Decide, TypeOK
  <1>8. BudgetPerWindow'
    <2> SUFFICES ASSUME NEW t \in Services
                 PROVE  Cardinality({a \in attempts'[t] : a < Window}) <= Budget
      BY DEF BudgetPerWindow
    <2>1. CASE t # s
      BY <1>2, <2>1 DEF BudgetPerWindow, TypeOK
    <2>2. CASE t = s /\ ~go
      <3>1. {a \in attempts'[t] : a < Window} = {a \in attempts[t] : a < Window}
        BY <1>2, <1>3, <2>2, HorizonType DEF TypeOK, Retained
      <3> QED
        BY <3>1 DEF BudgetPerWindow
    <2>3. CASE t = s /\ go
      <3>1. ~(Cardinality(Retained(s)) >= Budget)
        BY <2>3 DEF Decision, Exhausted
      <3>2. /\ IsFiniteSet(Retained(s)) /\ Cardinality(Retained(s)) \in Nat
        BY FiniteAttempts
      <3>3. /\ IsFiniteSet(Retained(s) \union {stamp})
            /\ Cardinality(Retained(s) \union {stamp}) <= Cardinality(Retained(s)) + 1
        BY <3>2, FS_AddElement
      <3>4. {a \in attempts'[t] : a < Window} \subseteq Retained(s) \union {stamp}
        BY <1>2, <2>3 DEF TypeOK
      <3> DEFINE C == {a \in attempts'[t] : a < Window}
                 R == Retained(s) \union {stamp}
      <3>5. IsFiniteSet(C) /\ Cardinality(C) <= Cardinality(R)
        BY <3>3, <3>4, FS_Subset
      <3>6. Cardinality(C) \in Nat /\ Cardinality(R) \in Nat
        BY <3>3, <3>5, FS_CardinalityType
      <3> HIDE DEF C, R
      <3>7. Cardinality(R) <= Cardinality(Retained(s)) + 1
        BY <3>3 DEF R
      <3>8. Cardinality(C) <= Budget
        BY <3>1, <3>2, <3>5, <3>6, <3>7, HorizonType
      <3> QED
        BY <3>8 DEF C
    <2> QED
      BY <2>1, <2>2, <2>3
  <1>9. CooldownGap'
    <2> SUFFICES ASSUME NEW t \in Services, NEW a \in attempts'[t], NEW b \in attempts'[t],
                        b < a, a < Horizon
                 PROVE  b + Cooldown <= a
      BY DEF CooldownGap, Horizon
    <2>1. CASE t # s
      BY <1>2, <2>1 DEF CooldownGap, TypeOK
    <2>2. CASE t = s
      <3>1. a \in kept /\ b \in kept
        BY <1>2, <2>2 DEF TypeOK
      <3>2. CASE a \in Retained(s) /\ b \in Retained(s)
        BY <1>3, <3>2 DEF CooldownGap
      <3>3. CASE go /\ (a \notin Retained(s) \/ b \notin Retained(s))
        <4>1. \A c \in Retained(s) : ~(c < stamp + Cooldown) /\ c \in Nat
          BY <1>3, <3>3 DEF Decision, CoolingDown
        <4>2. a \in Retained(s) \/ a = stamp
          BY <3>1
        <4>3. b \in Retained(s) \/ b = stamp
          BY <3>1
        <4> QED
          BY <1>3, <3>3, <4>1, <4>2, <4>3, HorizonType
      <3> QED
        BY <3>1, <3>2, <3>3
    <2> QED
      BY <2>1, <2>2
  <1>10. FatalRemembered'
    <2> SUFFICES ASSUME NEW t \in Services
                 PROVE  fatal'[t] <= (IF logged'[t] THEN 1 ELSE 0)
      BY DEF FatalRemembered
    <2>1. fatal[t] \in Nat /\ fatal[t] <= (IF logged[t] THEN 1 ELSE 0)
      BY DEF FatalRemembered, TypeOK
    <2>2. CASE Decision(s) = "Go"
      BY <2>1, <2>2 DEF Decide, TypeOK
    <2>3. CASE Decision(s) = "Exhausted"
      BY <2>1, <2>3 DEF Decide, TypeOK
    <2>4. CASE Decision(s) = "Cooldown"
      BY <2>1, <2>4 DEF Decide
    <2> QED
      BY <1>1, <2>2, <2>3, <2>4
  <1> QED
    BY <1>4, <1>5, <1>6, <1>7, <1>8, <1>9, <1>10

\* The clock: ages grow together, up to Horizon.
LEMMA TickIInv == ASSUME IInv, Tick PROVE IInv'
  <1> TypeOK /\ BudgetPerWindow /\ CooldownGap /\ FatalRemembered
    BY DEF IInv
  <1>1. \A a \in 0 .. Horizon : Older(a) \in 0 .. Horizon
    BY HorizonType DEF Older
  <1>2. \A s \in Services : attempts[s] \subseteq 0 .. Horizon
    BY DEF TypeOK
  <1>3. attempts' = [s \in Services |-> {Older(a) : a \in attempts[s]}]
    BY DEF Tick
  <1>4. TypeOK'
    <2>1. attempts' \in [Services -> SUBSET (0 .. Horizon)]
      BY <1>1, <1>2, <1>3
    <2>2. stamp' \in 0 .. MaxPass
      BY HorizonType DEF Tick, TypeOK
    <2>3. actual' \in [Services -> SUBSET (0 .. Window - 1)]
      <3>1. \A s \in Services : {a + 1 : a \in {b \in actual[s] : b + 1 < Window}}
                                  \subseteq 0 .. Window - 1
        BY HorizonType DEF TypeOK
      <3> QED
        BY <3>1 DEF Tick
    <2>4. UNCHANGED <<logged, down, cursor, busy, fatal>>
      BY DEF Tick
    <2> QED
      BY <2>1, <2>2, <2>3, <2>4 DEF TypeOK, Horizon
  <1>5. BudgetPerWindow'
    <2> SUFFICES ASSUME NEW s \in Services
                 PROVE  Cardinality({a \in attempts'[s] : a < Window}) <= Budget
      BY DEF BudgetPerWindow
    <2> DEFINE T == {a \in attempts'[s] : a < Window}
               S == Counted(s)
               f == [x \in T |-> x - 1]
    <2>1. \A x \in T : x \in Nat /\ x - 1 \in S
      <3> TAKE x \in T
      <3>1. PICK a \in attempts[s] : x = Older(a)
        BY <1>3
      <3>2. a \in 0 .. Horizon
        BY <1>2
      <3>3. x = a + 1 /\ a < Window
        BY <3>1, <3>2, HorizonType DEF Older
      <3> QED
        BY <3>2, <3>3 DEF Counted
    <2>2. f \in Injection(T, S)
      BY <2>1 DEF Injection, IsInjective
    <2>3. IsFiniteSet(S) /\ Cardinality(S) \in Nat /\ Cardinality(S) <= Budget
      BY Zenon, FiniteAttempts DEF BudgetPerWindow, Counted
    <2> HIDE DEF T, S, f
    <2>4. IsFiniteSet(T) /\ Cardinality(T) <= Cardinality(S)
      BY <2>2, <2>3, FS_Injection
    <2>5. Cardinality(T) \in Nat
      BY <2>4, FS_CardinalityType
    <2>6. Cardinality(T) <= Budget
      BY <2>3, <2>4, <2>5, HorizonType
    <2> QED
      BY <2>6 DEF T
  <1>6. CooldownGap'
    <2> SUFFICES ASSUME NEW s \in Services, NEW x \in attempts'[s], NEW y \in attempts'[s],
                        y < x, x < Horizon
                 PROVE  y + Cooldown <= x
      BY DEF CooldownGap, Horizon
    <2>1. PICK a \in attempts[s] : x = Older(a)
      BY <1>3
    <2>2. PICK b \in attempts[s] : y = Older(b)
      BY <1>3
    <2>3. a \in 0 .. Horizon /\ b \in 0 .. Horizon
      BY <1>2
    <2>4. x = a + 1 /\ y = b + 1 /\ b < a /\ a < Horizon
      BY <2>1, <2>2, <2>3, HorizonType DEF Older
    <2>5. b + Cooldown <= a
      BY <2>4 DEF CooldownGap
    <2> QED
      BY <2>3, <2>4, <2>5, HorizonType
  <1>7. FatalRemembered'
    BY DEF Tick, FatalRemembered
  <1> QED
    BY <1>4, <1>5, <1>6, <1>7 DEF IInv

\* Every step preserves the inductive invariant.
LEMMA NextIInv == ASSUME IInv, [BudgetNext]_budgetVars PROVE IInv'
  <1> TypeOK /\ BudgetPerWindow /\ CooldownGap /\ FatalRemembered
    BY DEF IInv
  <1>1. CASE BeginPass
    <2>1. 1 \in 0 .. Len(Order)
      <3>1. Order \in Seq(Services) /\ Order # <<>>
        BY BudgetAssumption
      <3> QED
        BY <3>1
    <2>2. TypeOK'
      BY <1>1, <2>1 DEF BeginPass, TypeOK, Horizon
    <2> QED
      BY <1>1, <2>2 DEF BeginPass, IInv, BudgetPerWindow, CooldownGap, FatalRemembered, Horizon
  <1>2. CASE Skip
    <2>1. /\ cursor' \in 0 .. Len(Order) /\ stamp' \in 0 .. MaxPass /\ busy' \in BOOLEAN
      BY <1>2, AdvanceType DEF Skip, TypeOK
    <2>2. UNCHANGED <<attempts, logged, down, actual, fatal>>
      BY <1>2 DEF Skip
    <2>3. TypeOK'
      BY <2>1, <2>2 DEF TypeOK, Horizon
    <2> QED
      BY <2>2, <2>3 DEF IInv, BudgetPerWindow, CooldownGap, FatalRemembered, Horizon
  <1>3. CASE Visit
    <2> DEFINE s == Order[cursor]
    <2>1. s \in Services
      BY <1>3, OrderType DEF Visit, TypeOK
    <2>2. Decide(s) /\ down' \subseteq down /\ cursor > 0
      BY <1>3 DEF Visit
    <2>3. /\ cursor' \in 0 .. Len(Order) /\ stamp' \in 0 .. MaxPass /\ busy' \in BOOLEAN
      <3>1. (busy \/ Decision(s) = "Go") \in BOOLEAN
        OBVIOUS
      <3>2. Advance(busy \/ Decision(s) = "Go")
        BY <1>3 DEF Visit
      <3> QED
        BY Zenon, <2>2, <3>1, <3>2, AdvanceType
    <2> HIDE DEF s
    <2>4. TypeOK'
      BY <2>1, <2>2, <2>3, DecideIInv DEF TypeOK, Horizon
    <2> QED
      BY <2>1, <2>2, <2>4, DecideIInv DEF IInv
  <1>4. ASSUME NEW s \in Services, Die(s) PROVE IInv'
    <2>1. TypeOK'
      BY <1>4 DEF Die, TypeOK, Horizon
    <2> QED
      BY <1>4, <2>1 DEF Die, IInv, BudgetPerWindow, CooldownGap, FatalRemembered, Horizon
  <1>5. CASE Tick
    BY <1>5, TickIInv
  <1>6. CASE UNCHANGED budgetVars
    BY <1>6 DEF budgetVars, IInv, TypeOK, BudgetPerWindow, CooldownGap, FatalRemembered, Horizon
  <1> QED
    BY <1>1, <1>2, <1>3, <1>4, <1>5, <1>6 DEF BudgetNext

\* The inductive invariant holds in every reachable state.
THEOREM Invariance == BudgetSpec => []IInv
  <1>1. BudgetInit => IInv
    BY InitIInv
  <1>2. IInv /\ [BudgetNext]_budgetVars => IInv'
    BY NextIInv
  <1> QED
    BY <1>1, <1>2, PTL DEF BudgetSpec

\* Every variable keeps its type.
THEOREM TypeCorrect == BudgetSpec => []TypeOK
  <1>1. IInv => TypeOK
    BY DEF IInv
  <1> QED
    BY <1>1, Invariance, PTL

\* RespawnBudget::decide never records more than RESPAWN_BUDGET attempts of a
\* service in a window, although it prunes only when it is asked.
THEOREM BudgetKept == BudgetSpec => []BudgetPerWindow
  <1>1. IInv => BudgetPerWindow
    BY DEF IInv
  <1> QED
    BY <1>1, Invariance, PTL

\* Two recorded attempts of a service are RESPAWN_COOLDOWN apart.
THEOREM CooldownKept == BudgetSpec => []CooldownGap
  <1>1. IInv => CooldownGap
    BY DEF IInv
  <1> QED
    BY <1>1, Invariance, PTL

\* The fatal-degraded line of check_and_respawn_services is logged once per
\* exhaustion episode: exhausted_logged is set with it and reset only by Go.
THEOREM FatalOnce == BudgetSpec => []OneFatalLinePerEpisode
  <1>1. IInv => OneFatalLinePerEpisode
    <2> SUFFICES ASSUME IInv, NEW s \in Services PROVE fatal[s] <= 1
      BY DEF OneFatalLinePerEpisode
    <2>1. fatal[s] \in Nat /\ fatal[s] <= (IF logged[s] THEN 1 ELSE 0)
      BY DEF IInv, TypeOK, FatalRemembered
    <2> QED
      BY <2>1
  <1> QED
    BY <1>1, Invariance, PTL

=============================================================================
