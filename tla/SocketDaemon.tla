---------------------------- MODULE SocketDaemon ----------------------------
(***************************************************************************)
(* The threads of the identity daemon (bin/idhelper/daemon.rs): the accept *)
(* loop with its cap on client threads, the registry that makes identical  *)
(* requests wait for each other, the one lock on the cache, the periodic   *)
(* rebulk, and the command line (main.rs), a second process that resolves  *)
(* by itself when it does not go through the socket.                       *)
(*                                                                         *)
(* What an operation does with the cache and the stores in detail, and     *)
(* how single writes fail, is module NssStores; here an operation reads    *)
(* LDAP in one step and writes in the next, and only users are tracked:    *)
(* who is in the directory, in the cache, in its file, and in the stores.  *)
(***************************************************************************)
EXTENDS Naturals, Sequences

CONSTANTS
  Users,              \* people the directory may hold; it always holds others too
  Clients,            \* connections other programs open, once each (bound)
  HealConn,           \* the connection the log observer opens to its own daemon
  MAX_CLIENT_THREADS,
  MaxTrouble          \* bound: periodic rebulks, command lines and disturbances

Conns == Clients \union {HealConn}
NoOne == "no one"
Own == {"observer", "timer", "startup"}   \* the daemon's own threads that take the lock

ASSUME DaemonAssumption ==
  /\ HealConn \notin Clients
  /\ (Conns \union Users) \intersect (Own \union {NoOne}) = {}
  /\ MAX_CLIENT_THREADS \in Nat /\ MaxTrouble \in Nat

VARIABLES
  directory, up, \* LDAP: its users, and whether it answers
  pool,      \* the resolver's pooled connections: does the server still know them
  entries,   \* the users in IdCache
  file,      \* the users in idmap.cache
  rows,      \* the users with a passwd row in the stores
  job,       \* what the holder of the cache lock does
  flights,   \* INFLIGHT: the keys of the leaders
  conn,      \* the connections
  acceptor,  \* the accept loop: what it is busy with
  live,      \* live_clients
  cli,       \* the command line's process
  spent      \* how much of MaxTrouble is used up

ldapVars == <<directory, up>>
daemonVars == <<ldapVars, pool, entries, file, rows, job, flights, conn, acceptor, live, cli, spent>>

NoJob == [who |-> NoOne, op |-> "", u |-> "", at |-> "", got |-> {}]
Idle == [at |-> "idle", req |-> <<>>, leader |-> FALSE, inline |-> FALSE, ok |-> FALSE,
         held |-> {}, gone |-> {}]
Closed == [Idle EXCEPT !.at = "closed"]
Hangup(c) == IF c = HealConn THEN Idle ELSE Closed
NoCli == [at |-> "none", u |-> "", got |-> {}]

Spend == spent < MaxTrouble /\ spent' = spent + 1

-----------------------------------------------------------------------------
(* One search through the connection pool.  The cache lock makes searches  *)
(* follow each other, so the daemon's pool never holds more than one; one  *)
(* that has idled too long is dropped as one the server has forgotten.     *)

\* One of the three attempts: a pooled connection that fails costs the attempt
\* and the next one follows at once, with a fresh connection when the pool is
\* empty.  A server that hangs is one that does not answer.
Attempt(acc) ==
  IF acc.done THEN acc
  ELSE IF acc.pool # <<>> /\ ~(acc.pool[Len(acc.pool)] /\ up)
         THEN [acc EXCEPT !.pool = SubSeq(@, 1, Len(@) - 1)]
  ELSE IF ~up THEN acc
  ELSE [pool |-> IF acc.pool # <<>> THEN acc.pool ELSE <<TRUE>>, ok |-> TRUE, done |-> TRUE]

service_search == Attempt(Attempt(Attempt([pool |-> pool, ok |-> FALSE, done |-> FALSE])))

\* getent: SSSD, which may or may not answer for a user of the directory, or
\* the rows of the stores themselves.
getent(u) == {u \in rows} \union (IF u \in directory THEN {TRUE} ELSE {})

-----------------------------------------------------------------------------
(* Under the cache lock.                                                   *)

LockFree == job = NoJob
TakeLock(who, op, u) == LockFree /\ job' = [who |-> who, op |-> op, u |-> u, at |-> "read", got |-> {}]

\* resolve_principal: a cached user needs no search; an unknown one is looked
\* for by getent, in LDAP, and in LDAP again after a reload.
Lookup ==
  /\ job.at = "read" /\ job.op # "rebulk"
  /\ \/ /\ job.op = "materialize" \/ job.u \in entries
        /\ job' = [job EXCEPT !.at = "write", !.got = entries]
        /\ UNCHANGED pool
     \/ /\ job.op # "materialize" /\ job.u \notin entries
        /\ \E known \in getent(job.u) :
             LET s == service_search
                 found == known \/ (s.ok /\ job.u \in directory)
             IN /\ pool' = IF known THEN pool ELSE s.pool
                /\ job' = [job EXCEPT !.at = "write",
                                      !.got = entries \union (IF found THEN {job.u} ELSE {})]
  /\ UNCHANGED <<ldapVars, entries, file, rows, flights, conn, acceptor, live, cli, spent>>

\* load_full_identities for a rebulk; nothing loaded ends it.
Load ==
  /\ job.at = "read" /\ job.op = "rebulk"
  /\ LET s == service_search
     IN /\ pool' = s.pool
        /\ job' = [job EXCEPT !.at = IF s.ok THEN "write" ELSE "failed", !.got = directory]
  /\ UNCHANGED <<ldapVars, entries, file, rows, flights, conn, acceptor, live, cli, spent>>

\* The lock is released when the operation is over; a request goes on to reply.
Release(ok) ==
  /\ job' = NoJob
  /\ conn' = IF job.who \in Conns
             THEN [conn EXCEPT ![job.who].at = "reply", ![job.who].ok = ok] ELSE conn
  /\ acceptor' = IF job.who = "startup" THEN NoOne ELSE acceptor

\* The cache and its file take what was found.  A heal, a rebulk, and a user
\* who was not cached rewrite the stores from the cache.
Apply ==
  /\ job.at = "write"
  /\ entries' = job.got
  /\ file' = IF job.got # entries THEN job.got ELSE file
  /\ rows' = IF job.op # "resolve" \/ job.got # entries THEN job.got ELSE rows
  /\ Release(job.op \in {"rebulk", "materialize"} \/ job.u \in job.got)
  /\ UNCHANGED <<ldapVars, pool, flights, live, cli, spent>>

Abandon ==
  /\ job.at = "failed"
  /\ Release(FALSE)
  /\ UNCHANGED <<ldapVars, pool, entries, file, rows, flights, live, cli, spent>>

-----------------------------------------------------------------------------
(* A connection, from the accept loop to the reply.                        *)

\* GRPS is to this model what RESOLVE is, and CLASSIFY what PING is.
Requests == {<<"REBULK">>, <<"PING">>} \union ({"RESOLVE"} \X Users)

\* `held` and `gone` are history: who has been in the directory, or out of it,
\* ever since the request was sent.
Send(c, req) ==
  /\ conn[c].at = "idle"
  /\ conn' = [conn EXCEPT ![c] = [Idle EXCEPT !.at = "queued", !.req = req,
       !.held = IF req = <<"REBULK">> THEN directory ELSE {},
       !.gone = IF req = <<"REBULK">> THEN Users \ directory ELSE {}]]

Connect(c) ==
  /\ \E req \in Requests : Send(c, req)
  /\ UNCHANGED <<ldapVars, pool, entries, file, rows, job, flights, acceptor, live, cli, spent>>

\* Past the cap the accept loop serves the connection itself.
Accept(c) ==
  /\ conn[c].at = "queued" /\ acceptor = NoOne
  /\ \/ /\ live < MAX_CLIENT_THREADS
        /\ live' = live + 1
        /\ conn' = [conn EXCEPT ![c].at = "begin"]
        /\ UNCHANGED acceptor
     \/ /\ live >= MAX_CLIENT_THREADS
        /\ acceptor' = c
        /\ conn' = [conn EXCEPT ![c].at = "begin", ![c].inline = TRUE]
        /\ UNCHANGED live
  /\ UNCHANGED <<ldapVars, pool, entries, file, rows, job, flights, cli, spent>>

\* FlightGuard::begin.  A thread that had to wait comes back without the key.
begin(c) ==
  /\ conn[c].at \in {"begin", "wait"}
  /\ \/ /\ conn[c].req = <<"PING">>
        /\ conn' = [conn EXCEPT ![c].at = "reply", ![c].ok = TRUE]
        /\ UNCHANGED flights
     \/ /\ conn[c].req \in flights /\ conn[c].at = "begin"
        /\ conn' = [conn EXCEPT ![c].at = "wait"]
        /\ UNCHANGED flights
     \/ /\ conn[c].req \notin flights \union {<<"PING">>}
        /\ LET leader == conn[c].at = "begin"
           IN /\ flights' = IF leader THEN flights \union {conn[c].req} ELSE flights
              /\ conn' = [conn EXCEPT ![c].at = "lock", ![c].leader = leader]
  /\ UNCHANGED <<ldapVars, pool, entries, file, rows, job, acceptor, live, cli, spent>>

\* Mutant: a request that waited for the same rebulk takes its result.
Serve_Rides(c) ==
  /\ conn[c].at = "lock"
  /\ IF conn[c].leader \/ conn[c].req # <<"REBULK">>
     THEN /\ TakeLock(c, IF conn[c].req = <<"REBULK">> THEN "rebulk" ELSE "resolve",
                      IF Len(conn[c].req) = 2 THEN conn[c].req[2] ELSE "")
          /\ conn' = [conn EXCEPT ![c].at = "work"]
     ELSE /\ conn' = [conn EXCEPT ![c].at = "reply", ![c].ok = TRUE]
          /\ UNCHANGED job
  /\ UNCHANGED <<ldapVars, pool, entries, file, rows, flights, acceptor, live, cli, spent>>

\* handle_client takes the cache lock and runs the verb.
Serve(c) ==
  /\ conn[c].at = "lock"
  /\ TakeLock(c, IF conn[c].req = <<"REBULK">> THEN "rebulk" ELSE "resolve",
              IF Len(conn[c].req) = 2 THEN conn[c].req[2] ELSE "")
  /\ conn' = [conn EXCEPT ![c].at = "work"]
  /\ UNCHANGED <<ldapVars, pool, entries, file, rows, flights, acceptor, live, cli, spent>>

\* The end of a client thread: the key goes with the guard, the count after it.
Drop(c) == flights' = IF conn[c].leader THEN flights \ {conn[c].req} ELSE flights

\* The reply is written, whether or not anyone still reads it.
Reply(c) ==
  /\ conn[c].at = "reply"
  /\ Drop(c)
  /\ conn' = [conn EXCEPT ![c] = Hangup(c)]
  /\ acceptor' = IF conn[c].inline THEN NoOne ELSE acceptor
  /\ live' = IF conn[c].inline THEN live ELSE live - 1
  /\ UNCHANGED <<ldapVars, pool, entries, file, rows, job, cli, spent>>

\* Mutant: a thread that panics keeps its key.
Panic_KeepsKey(c) ==
  /\ Spend /\ job.who = c /\ ~conn[c].inline
  /\ job' = NoJob
  /\ conn' = [conn EXCEPT ![c] = Hangup(c)]
  /\ UNCHANGED <<ldapVars, pool, entries, file, rows, acceptor, live, cli, flights>>

\* A client thread panics under the lock: the guard drops the key, the poisoned
\* lock is recovered by whoever comes next, and the count is not taken back.
Panic(c) ==
  /\ Spend /\ job.who = c /\ ~conn[c].inline
  /\ job' = NoJob
  /\ Drop(c)
  /\ conn' = [conn EXCEPT ![c] = Hangup(c)]
  /\ UNCHANGED <<ldapVars, pool, entries, file, rows, acceptor, live, cli>>

\* start_periodic_rebulk; it starts when the daemon has started.
Timer ==
  /\ Spend /\ acceptor # "startup"
  /\ TakeLock("timer", "rebulk", "")
  /\ UNCHANGED <<ldapVars, pool, entries, file, rows, flights, conn, acceptor, live, cli>>

\* The daemon is killed, or dies of a panic in its accept loop, and is started
\* again: the cache is read back and the first rebulk runs before any accept.
RestartDaemon ==
  /\ Spend
  /\ pool' = <<>> /\ entries' = file /\ flights' = {} /\ live' = 0
  /\ conn' = [c \in Conns |-> IF conn[c].at = "idle" THEN conn[c] ELSE Hangup(c)]
  /\ acceptor' = "startup"
  /\ job' = [NoJob EXCEPT !.who = "startup", !.op = "rebulk", !.at = "read"]
  /\ UNCHANGED <<ldapVars, file, rows, cli>>

-----------------------------------------------------------------------------
(* The command line: its own process, its own copy of the cache.           *)

CliStarts(u) ==
  /\ Spend /\ cli = NoCli
  /\ cli' = [at |-> "resolve", u |-> u, got |-> file]
  /\ UNCHANGED <<ldapVars, pool, entries, file, rows, job, flights, conn, acceptor, live>>

\* A user in the copy needs nothing; otherwise the user is looked for, and what
\* is found is written from the copy, without the daemon's lock.
CliResolves ==
  /\ cli.at = "resolve"
  /\ \E known \in getent(cli.u) :
       cli' = IF cli.u \notin cli.got /\ (known \/ (up /\ cli.u \in directory))
              THEN [cli EXCEPT !.at = "write", !.got = @ \union {cli.u}] ELSE NoCli
  /\ UNCHANGED <<ldapVars, pool, entries, file, rows, job, flights, conn, acceptor, live, spent>>

CliWrites ==
  /\ cli.at = "write"
  /\ rows' = cli.got /\ file' = cli.got
  /\ conn' = [c \in Conns |-> [conn[c] EXCEPT !.gone = @ \ cli.got]]
  /\ cli' = NoCli
  /\ UNCHANGED <<ldapVars, pool, entries, job, flights, acceptor, live, spent>>

-----------------------------------------------------------------------------
(* LDAP.                                                                   *)

Edit(u) ==
  /\ Spend
  /\ directory' = IF u \in directory THEN directory \ {u} ELSE directory \union {u}
  /\ conn' = [c \in Conns |-> [conn[c] EXCEPT !.held = @ \ {u}, !.gone = @ \ {u}]]
  /\ UNCHANGED <<up, pool, entries, file, rows, job, flights, acceptor, live, cli>>

Outage ==
  /\ Spend /\ up /\ up' = FALSE
  /\ pool' = [i \in DOMAIN pool |-> FALSE]
  /\ UNCHANGED <<directory, entries, file, rows, job, flights, conn, acceptor, live, cli>>

Recover ==
  /\ ~up /\ up' = TRUE
  /\ UNCHANGED <<directory, pool, entries, file, rows, job, flights, conn, acceptor, live, cli, spent>>

DaemonInit ==
  /\ directory \in SUBSET Users /\ up = TRUE /\ pool = <<>>
  /\ entries = {} /\ file = {} /\ rows = {}
  /\ flights = {} /\ live = 0 /\ cli = NoCli /\ spent = 0
  /\ conn = [c \in Conns |-> Idle]
  /\ acceptor = "startup"
  /\ job = [NoJob EXCEPT !.who = "startup", !.op = "rebulk", !.at = "read"]

=============================================================================
