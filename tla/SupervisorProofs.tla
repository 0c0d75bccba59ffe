--------------------------- MODULE SupervisorProofs ---------------------------
(***************************************************************************)
(* Theorems about Supervisor, for every set of versions, every deployment  *)
(* and every choice of saves, crashes and faults.                          *)
(***************************************************************************)
EXTENDS Supervisor, TLAPS

Tables == [Services -> Process]

\* The configuration a service reads is a version.
LEMMA ReadsType == ASSUME TypeOK, NEW s \in Services PROVE Reads(s) \in Versions
  BY SupervisorAssumption DEF TypeOK, Reads

\* What the elementary operations on the process table return is a table.
LEMMA BasicTables ==
  ASSUME TypeOK, NEW p \in Tables, NEW s \in Services, NEW b \in BOOLEAN
  PROVE  /\ Forget(p, s) \in Tables
         /\ Spawned(p, s) \in Tables
         /\ Reloaded(p, s) \in Tables
         /\ Managed(p, s, b) \in Tables
         /\ Termed(p, s) \in Tables
         /\ Refreshed(p) \in Tables
         /\ [p EXCEPT ![s].st = "dead"] \in Tables
         /\ [p EXCEPT ![s].stray = @ + 1] \in Tables
         /\ p[s].stray > 0 => [p EXCEPT ![s].stray = @ - 1] \in Tables
  <1>1. Reads(s) \in Versions
    BY ReadsType
  <1>2. "ganesha" \in Services
    BY DEF Services
  <1>3. Forget(p, s) \in Tables
    BY DEF Tables, Process, Forget
  <1>4. Spawned(p, s) \in Tables
    BY Zenon, <1>1 DEF Tables, Process, Spawned
  <1>5. Reloaded(p, s) \in Tables
    BY <1>1 DEF Tables, Process, Reloaded
  <1>6. Managed(p, s, b) \in Tables
    BY DEF Tables, Process, Managed
  <1>7. [p EXCEPT ![s].st = "dead"] \in Tables
    BY DEF Tables, Process
  <1>8. Termed(p, s) \in Tables
    BY <1>7 DEF Termed
  <1>9. Refreshed(p) \in Tables
    BY <1>2 DEF Tables, Process, Refreshed, Forget
  <1>10. [p EXCEPT ![s].stray = @ + 1] \in Tables
    BY DEF Tables, Process
  <1>11. p[s].stray > 0 => [p EXCEPT ![s].stray = @ - 1] \in Tables
    BY DEF Tables, Process
  <1> QED
    BY <1>3, <1>4, <1>5, <1>6, <1>7, <1>8, <1>9, <1>10, <1>11

\* The tables in which every ganesha.nfsd is tracked.
Single == {p \in Tables : p["ganesha"].stray = 0}

\* The elementary operations keep every ganesha.nfsd tracked.
LEMMA BasicSingle ==
  ASSUME TypeOK, NEW p \in Single, NEW s \in Services, NEW b \in BOOLEAN
  PROVE  /\ Forget(p, s) \in Single
         /\ Spawned(p, s) \in Single
         /\ Reloaded(p, s) \in Single
         /\ Managed(p, s, b) \in Single
         /\ Termed(p, s) \in Single
         /\ Refreshed(p) \in Single
         /\ [p EXCEPT ![s].st = "dead"] \in Single
         /\ s # "ganesha" => [p EXCEPT ![s].stray = @ + 1] \in Single
         /\ p[s].stray > 0 => [p EXCEPT ![s].stray = @ - 1] \in Single
  <1> "ganesha" \in Services
    BY DEF Services
  <1> p \in Tables /\ p["ganesha"].stray = 0
    BY DEF Single
  <1>1. Forget(p, s) \in Single
    BY BasicTables DEF Single, Forget, Tables, Process
  <1>2. Spawned(p, s) \in Single
    <2>1. Spawned(p, s) \in Tables
      BY Zenon, BasicTables
    <2>2. Spawned(p, s)["ganesha"].stray = p["ganesha"].stray
      BY DEF Spawned, Tables, Process
    <2> QED
      BY <2>1, <2>2 DEF Single
  <1>3. Reloaded(p, s) \in Single
    <2>1. Reloaded(p, s) \in Tables
      BY Zenon, BasicTables
    <2>2. Reloaded(p, s)["ganesha"].stray = p["ganesha"].stray
      BY DEF Reloaded, Tables, Process
    <2> QED
      BY <2>1, <2>2 DEF Single
  <1>4. Managed(p, s, b) \in Single
    BY BasicTables DEF Single, Managed, Tables, Process
  <1>5. [p EXCEPT ![s].st = "dead"] \in Single
    BY BasicTables DEF Single, Tables, Process
  <1>6. Termed(p, s) \in Single
    BY <1>5 DEF Termed
  <1>7. Refreshed(p) \in Single
    BY BasicTables DEF Single, Refreshed, Forget, Tables, Process
  <1>8. s # "ganesha" => [p EXCEPT ![s].stray = @ + 1] \in Single
    BY BasicTables DEF Single, Tables, Process
  <1>9. p[s].stray > 0 => [p EXCEPT ![s].stray = @ - 1] \in Single
    BY BasicTables DEF Single, Tables, Process
  <1> QED
    BY <1>1, <1>2, <1>3, <1>4, <1>5, <1>6, <1>7, <1>8, <1>9

\* Starting Ganesha: a launcher that re-executed itself leaves one untracked
\* daemon, which is adopted before start_ganesha returns.
LEMMA StartGaneshaSingle ==
  ASSUME TypeOK, NEW p \in Single
  PROVE  start_ganesha(p) \subseteq Single
  <1> DEFINE q == Forget(p, "ganesha")
             up == Spawned(q, "ganesha")
             died == [up EXCEPT !["ganesha"].st = "dead"]
             forked == [died EXCEPT !["ganesha"].stray = @ + 1]
  <1> "ganesha" \in Services
    BY DEF Services
  <1>1. q \in Single /\ up \in Single /\ died \in Single
    BY Zenon, BasicSingle
  <1>2. forked \in Tables /\ forked["ganesha"].stray = 1 /\ forked["ganesha"].st = "dead"
    <2>1. died \in Tables /\ died["ganesha"].stray = 0
      BY <1>1 DEF Single
    <2>2. up["ganesha"].st \in {"none", "live", "dead"} /\ died["ganesha"].st = "dead"
      BY <1>1 DEF Single, Tables, Process
    <2> HIDE DEF died
    <2> QED
      BY <2>1, <2>2 DEF Tables, Process
  <1>3. \A r \in Single : Confirmed(Managed(r, "ganesha", TRUE)) \in Single
    <2> TAKE r \in Single
    <2> DEFINE m == Managed(r, "ganesha", TRUE)
    <2>1. m \in Single
      BY Zenon, BasicSingle
    <2> HIDE DEF m
    <2>2. ~(m["ganesha"].stray > 0)
      BY <2>1 DEF Single
    <2>3. Confirmed(m) \in Single
      BY <2>1, <2>2 DEF Confirmed
    <2> QED
      BY Zenon, <2>3 DEF m
  <1>4. Confirmed(Managed(forked, "ganesha", TRUE)) \in Single
    <2> HIDE DEF forked
    <2> DEFINE m == Managed(forked, "ganesha", TRUE)
    <2>1. m \in Tables /\ m["ganesha"].stray = 1 /\ m["ganesha"].st = "dead"
      BY Zenon, <1>2 DEF Managed, Tables, Process
    <2> HIDE DEF m
    <2>2. Confirmed(m) = [m EXCEPT !["ganesha"].st = "live", !["ganesha"].stray = @ - 1]
      BY <2>1 DEF Confirmed, Live
    <2>3. Confirmed(m) \in Single
      BY <2>1, <2>2 DEF Single, Tables, Process
    <2> QED
      BY Zenon, <2>3 DEF m
  <1>5. Launched(q) \subseteq {up, died, forked}
    BY DEF Launched
  <1> HIDE DEF up, died, forked
  <1>6. \A r \in Launched(q) : Confirmed(Managed(r, "ganesha", TRUE)) \in Single
    BY Zenon, <1>1, <1>3, <1>4, <1>5
  <1> QED
    BY Zenon, <1>1, <1>6 DEF start_ganesha

\* The other operations of the supervisor keep every ganesha.nfsd tracked.
LEMMA OperationsSingle ==
  ASSUME TypeOK, NEW p \in Single
  PROVE  /\ stop_ganesha(p) \subseteq Single
         /\ start_avahi(p) \subseteq Single
         /\ stop_avahi(p) \subseteq Single
         /\ start_watcher(p) \subseteq Single
         /\ start_webui(p) \subseteq Single
         /\ restart_sssd_and_wait(p) \subseteq Single
         /\ restart_idhelper_and_wait_bulk(p) \subseteq Single
         /\ ensure_ganesha_prereqs(p) \subseteq Single
         /\ reload_webui(p) \subseteq Single
  <1> /\ "ganesha" \in Services /\ "avahi" \in Services /\ "watcher" \in Services
      /\ "webui" \in Services /\ "sssd" \in Services /\ "idhelper" \in Services
      /\ "dbus" \in Services
    BY DEF Services
  <1>1. stop_ganesha(p) \subseteq Single
    BY Zenon, BasicSingle DEF stop_ganesha
  <1>2. start_avahi(p) \subseteq Single
    BY Zenon, BasicSingle DEF start_avahi
  <1>3. stop_avahi(p) \subseteq Single
    <2> DEFINE q == Managed(Forget(p, "avahi"), "avahi", FALSE)
    <2>1. q \in Single
      BY Zenon, BasicSingle
    <2>2. [q EXCEPT !["avahi"].stray = @ + 1] \in Single
      BY Zenon, <2>1, BasicSingle
    <2> QED
      BY Zenon, <2>1, <2>2 DEF stop_avahi
  <1>4. start_watcher(p) \subseteq Single
    <2> DEFINE q == IF Live(p, "watcher") THEN [p EXCEPT !["watcher"].stray = @ + 1] ELSE p
    <2>1. q \in Single
      BY Zenon, BasicSingle
    <2>2. Spawned(q, "watcher") \in Single
      BY Zenon, <2>1, BasicSingle
    <2> QED
      BY <2>2 DEF start_watcher
  <1>5. \A q \in Single, s \in Services : Respawned(q, s) \subseteq Single
    BY Zenon, BasicSingle DEF Respawned
  <1>6. \A q \in Single : start_webui(q) \subseteq Single
    BY Zenon, <1>5, BasicSingle DEF start_webui
  <1>7. restart_sssd_and_wait(p) \subseteq Single
    BY Zenon, <1>5, BasicSingle DEF restart_sssd_and_wait
  <1>8. restart_idhelper_and_wait_bulk(p) \subseteq Single
    BY Zenon, <1>5, BasicSingle DEF restart_idhelper_and_wait_bulk
  <1>9. ensure_ganesha_prereqs(p) \subseteq Single
    BY <1>5 DEF ensure_ganesha_prereqs
  <1>10. reload_webui(p) \subseteq Single
    BY Zenon, <1>6, BasicSingle DEF reload_webui
  <1> QED
    BY <1>1, <1>2, <1>3, <1>4, <1>6, <1>7, <1>8, <1>9, <1>10

-----------------------------------------------------------------------------
(***************************************************************************)
(* What an operation does to the service it is about, and that it leaves   *)
(* the others alone.                                                       *)
(***************************************************************************)

\* r is p but for service s.
Only(p, r, s) == \A t \in Services \ {s} : r[t] = p[t]

\* Service s, if it runs, works from what it would read now.
Fresh(r, s) == Live(r, s) => r[s].loaded = Reads(s)

\* The elementary operations, on the service and on the others.
LEMMA BasicEffects ==
  ASSUME NEW p \in Tables, NEW s \in Services, NEW b \in BOOLEAN
  PROVE  /\ Only(p, Forget(p, s), s) /\ Forget(p, s)[s].st = "none"
         /\ Forget(p, s)[s].loaded = p[s].loaded
         /\ Forget(p, s)[s].managed = p[s].managed
         /\ Only(p, Spawned(p, s), s) /\ Spawned(p, s)[s].loaded = Reads(s)
         /\ Only(p, Reloaded(p, s), s) /\ Reloaded(p, s)[s].loaded = Reads(s)
         /\ Only(p, Managed(p, s, b), s) /\ Managed(p, s, b)[s].st = p[s].st
         /\ Managed(p, s, b)[s].loaded = p[s].loaded /\ Managed(p, s, b)[s].managed = b
         /\ Only(p, Termed(p, s), s) /\ ~Live(Termed(p, s), s)
         /\ Termed(p, s)[s].loaded = p[s].loaded
  <1>1. Only(p, Forget(p, s), s) /\ Forget(p, s)[s].st = "none"
          /\ Forget(p, s)[s].loaded = p[s].loaded
          /\ Forget(p, s)[s].managed = p[s].managed
    BY DEF Tables, Process, Only, Forget
  <1>2. Only(p, Spawned(p, s), s) /\ Spawned(p, s)[s].loaded = Reads(s)
    BY DEF Tables, Process, Only, Spawned
  <1>3. Only(p, Reloaded(p, s), s) /\ Reloaded(p, s)[s].loaded = Reads(s)
    BY DEF Tables, Process, Only, Reloaded
  <1>4. Only(p, Managed(p, s, b), s) /\ Managed(p, s, b)[s].st = p[s].st
          /\ Managed(p, s, b)[s].loaded = p[s].loaded /\ Managed(p, s, b)[s].managed = b
    BY DEF Tables, Process, Only, Managed
  <1>5. Only(p, Termed(p, s), s) /\ ~Live(Termed(p, s), s)
          /\ Termed(p, s)[s].loaded = p[s].loaded
    BY DEF Tables, Process, Only, Termed, Live
  <1> QED
    BY <1>1, <1>2, <1>3, <1>4, <1>5

\* A spawn that replaces a process that was terminated: what runs afterwards is
\* the new process.
LEMMA RespawnEffect ==
  ASSUME TypeOK, NEW p \in Tables, NEW s \in Services, NEW r \in Respawned(Termed(p, s), s)
  PROVE  Only(p, r, s) /\ Fresh(r, s) /\ r[s].loaded \in {p[s].loaded, Reads(s)}
  <1> DEFINE q == Termed(p, s)
  <1>1. q \in Tables /\ Only(p, q, s) /\ ~Live(q, s) /\ q[s].loaded = p[s].loaded
    BY Zenon, BasicTables, BasicEffects
  <1> HIDE DEF q
  <1>2. Only(q, Spawned(q, s), s) /\ Spawned(q, s)[s].loaded = Reads(s)
    BY Zenon, <1>1, BasicEffects
  <1>3. r \in {q, Spawned(q, s)}
    BY DEF Respawned, q
  <1> QED
    BY <1>1, <1>2, <1>3 DEF Only, Fresh

\* The sidecars: terminated and spawned again, or told to reload.
LEMMA SidecarEffects ==
  ASSUME TypeOK, NEW p \in Tables
  PROVE  /\ \A r \in restart_sssd_and_wait(p) : Only(p, r, "sssd") /\ Fresh(r, "sssd")
         /\ \A r \in restart_idhelper_and_wait_bulk(p) : Only(p, r, "idhelper")
         /\ \A r \in start_webui(p) \union reload_webui(p) :
              /\ Only(p, r, "webui") /\ Fresh(r, "webui")
              /\ r["webui"].loaded \in {p["webui"].loaded, Reads("webui")}
         /\ \A r \in ensure_ganesha_prereqs(p) : Only(p, r, "dbus")
  <1> "sssd" \in Services /\ "idhelper" \in Services /\ "webui" \in Services /\ "dbus" \in Services
    BY DEF Services
  <1>1. \A r \in restart_sssd_and_wait(p) : Only(p, r, "sssd") /\ Fresh(r, "sssd")
    BY RespawnEffect DEF restart_sssd_and_wait
  <1>2. \A r \in restart_idhelper_and_wait_bulk(p) : Only(p, r, "idhelper")
    BY RespawnEffect DEF restart_idhelper_and_wait_bulk
  <1>3. \A q \in Tables : \A r \in start_webui(q) :
          /\ Only(q, r, "webui") /\ Fresh(r, "webui")
          /\ r["webui"].loaded \in {q["webui"].loaded, Reads("webui")}
    BY RespawnEffect DEF start_webui
  <1>4. \A r \in reload_webui(p) :
          /\ Only(p, r, "webui") /\ Fresh(r, "webui")
          /\ r["webui"].loaded \in {p["webui"].loaded, Reads("webui")}
    <2> DEFINE q == Forget(p, "webui")
    <2>1. q \in Tables /\ Only(p, q, "webui") /\ q["webui"].loaded = p["webui"].loaded
      BY Zenon, BasicTables, BasicEffects
    <2>2. /\ Only(p, Reloaded(p, "webui"), "webui") /\ Fresh(Reloaded(p, "webui"), "webui")
          /\ Reloaded(p, "webui")["webui"].loaded = Reads("webui")
      BY Zenon, BasicEffects DEF Fresh
    <2>3. \A r \in start_webui(q) :
            /\ Only(p, r, "webui") /\ Fresh(r, "webui")
            /\ r["webui"].loaded \in {p["webui"].loaded, Reads("webui")}
      BY <2>1, <1>3 DEF Only
    <2>4. \A r \in reload_webui(p) : r \in start_webui(q) \/ r = Reloaded(p, "webui")
      BY DEF reload_webui
    <2> QED
      BY <2>2, <2>3, <2>4
  <1>5. \A r \in ensure_ganesha_prereqs(p) : Only(p, r, "dbus")
    <2>1. Only(p, Spawned(p, "dbus"), "dbus") /\ Only(p, p, "dbus")
      BY Zenon, BasicEffects DEF Only
    <2> QED
      BY <2>1 DEF ensure_ganesha_prereqs, Respawned
  <1> QED
    BY <1>1, <1>2, <1>3, <1>4, <1>5

\* The watcher and avahi: what is left of avahi when it was stopped, and then
\* started again, works from the adverts on disk.
LEMMA AvahiEffects ==
  ASSUME TypeOK, NEW p \in Tables
  PROVE  /\ \A r \in start_watcher(p) : Only(p, r, "watcher")
         /\ \A r \in start_avahi(p) : Only(p, r, "avahi")
         /\ \A q \in stop_avahi(p) : \A r \in start_avahi(q) :
              Only(p, r, "avahi") /\ Fresh(r, "avahi")
  <1> "watcher" \in Services /\ "avahi" \in Services
    BY DEF Services
  <1>1. \A r \in start_watcher(p) : Only(p, r, "watcher")
    <2> DEFINE q == IF Live(p, "watcher") THEN [p EXCEPT !["watcher"].stray = @ + 1] ELSE p
    <2>1. q \in Tables
      BY Zenon, BasicTables
    <2>2. Only(p, q, "watcher") /\ Only(p, p, "watcher")
      BY DEF Only, Tables
    <2> HIDE DEF q
    <2>3. Only(q, Spawned(q, "watcher"), "watcher")
      BY Zenon, <2>1, BasicEffects
    <2>4. \A r \in start_watcher(p) : r \in {p, Spawned(q, "watcher")}
      BY DEF start_watcher, q
    <2> QED
      BY <2>2, <2>3, <2>4 DEF Only
  <1>2. ASSUME NEW q \in Tables
        PROVE  \A r \in start_avahi(q) :
                 Only(q, r, "avahi") /\ (Fresh(r, "avahi") \/ Live(q, "avahi"))
    <2> DEFINE u == Spawned(q, "avahi")
               m == Managed(u, "avahi", TRUE)
               f == Forget(q, "avahi")
    <2>1. u \in Tables /\ Only(q, u, "avahi") /\ u["avahi"].loaded = Reads("avahi")
      BY Zenon, BasicTables, BasicEffects
    <2> HIDE DEF u
    <2>2. Only(u, m, "avahi") /\ m["avahi"].loaded = u["avahi"].loaded
      BY Zenon, <2>1, BasicEffects
    <2>3. Only(q, f, "avahi") /\ f["avahi"].st = "none"
      BY Zenon, BasicEffects
    <2>4. \A r \in start_avahi(q) : r \in {m, f} \/ r = q
      BY Zenon DEF start_avahi, u
    <2>5. Live(q, "avahi") \/ \A r \in start_avahi(q) : r \in {m, f} \/ (r = q /\ ~Live(q, "avahi"))
      BY Zenon, <2>4
    <2> HIDE DEF m, f
    <2>6. Only(q, m, "avahi") /\ Only(q, q, "avahi")
      BY <2>1, <2>2 DEF Only
    <2>7. Fresh(m, "avahi") /\ Fresh(f, "avahi") /\ (Fresh(q, "avahi") \/ Live(q, "avahi"))
      BY <2>1, <2>2, <2>3 DEF Fresh, Live
    <2> QED
      BY <2>3, <2>4, <2>5, <2>6, <2>7
  <1>3. \A q \in stop_avahi(p) : q \in Tables /\ Only(p, q, "avahi") /\ ~Live(q, "avahi")
    <2> DEFINE f == Forget(p, "avahi")
               m == Managed(f, "avahi", FALSE)
               k == [m EXCEPT !["avahi"].stray = @ + 1]
    <2>1. f \in Tables /\ Only(p, f, "avahi") /\ f["avahi"].st = "none"
      BY Zenon, BasicTables, BasicEffects
    <2> HIDE DEF f
    <2>2. m \in Tables /\ Only(f, m, "avahi") /\ m["avahi"].st = f["avahi"].st
      BY Zenon, <2>1, BasicTables, BasicEffects
    <2> HIDE DEF m
    <2>3. k \in Tables
      BY Zenon, <2>2, BasicTables
    <2>4. Only(m, k, "avahi") /\ k["avahi"].st = m["avahi"].st
      BY <2>2 DEF Only, Tables, Process
    <2>5. \A q \in stop_avahi(p) : q \in {m, k}
      BY Zenon DEF stop_avahi, m, f
    <2> HIDE DEF k
    <2> QED
      BY <2>1, <2>2, <2>3, <2>4, <2>5 DEF Only, Live
  <1>4. \A q \in stop_avahi(p) : \A r \in start_avahi(q) :
          Only(p, r, "avahi") /\ Fresh(r, "avahi")
    BY <1>2, <1>3 DEF Only
  <1> QED
    BY <1>1, <1>2, <1>4

\* Ganesha: started only where none runs, from the exports on disk; stopped, or
\* left as it was when it survived.
LEMMA GaneshaEffects ==
  ASSUME TypeOK, NEW p \in Single
  PROVE  /\ Only(p, Refreshed(p), "ganesha")
         /\ Refreshed(p) = p \/ (~Live(p, "ganesha") /\ ~Live(Refreshed(p), "ganesha"))
         /\ Refreshed(p)["ganesha"].managed = p["ganesha"].managed
         /\ \A r \in stop_ganesha(p) : Only(p, r, "ganesha") /\ (~Live(r, "ganesha") \/ r = p)
         /\ \A r \in stop_ganesha(p) : r["ganesha"].managed => r = p
         /\ \A r \in start_ganesha(p) : Only(p, r, "ganesha") /\ (Fresh(r, "ganesha") \/ r = p)
         /\ \A r \in start_ganesha(p) : r = p \/ ~Live(p, "ganesha")
  <1> "ganesha" \in Services /\ p \in Tables /\ p["ganesha"].stray = 0
    BY DEF Services, Single
  <1> DEFINE q == Forget(p, "ganesha")
  <1>1. /\ q \in Tables /\ Only(p, q, "ganesha") /\ q["ganesha"].st = "none"
        /\ q["ganesha"].managed = p["ganesha"].managed /\ q["ganesha"].stray = 0
    <2>1. q["ganesha"].stray = p["ganesha"].stray
      BY DEF Tables, Process, Forget
    <2> QED
      BY Zenon, <2>1, BasicTables, BasicEffects
  <1>2. /\ Only(p, Refreshed(p), "ganesha")
        /\ Refreshed(p) = p \/ (~Live(p, "ganesha") /\ ~Live(Refreshed(p), "ganesha"))
        /\ Refreshed(p)["ganesha"].managed = p["ganesha"].managed
    BY <1>1 DEF Refreshed, Only, Live
  <1>3. /\ \A r \in stop_ganesha(p) : Only(p, r, "ganesha") /\ (~Live(r, "ganesha") \/ r = p)
        /\ \A r \in stop_ganesha(p) : r["ganesha"].managed => r = p
    <2> DEFINE m == Managed(q, "ganesha", FALSE)
    <2>1. /\ Only(q, m, "ganesha") /\ m["ganesha"].st = q["ganesha"].st
          /\ m["ganesha"].managed = FALSE
      <3> HIDE DEF q
      <3> QED
        BY Zenon, <1>1, BasicEffects
    <2>2. \A r \in stop_ganesha(p) : r \in {m, p}
      BY Zenon DEF stop_ganesha
    <2> HIDE DEF m, q
    <2> QED
      BY <1>1, <2>1, <2>2 DEF Only, Live
  <1>4. \A r \in start_ganesha(p) : r = p \/ ~Live(p, "ganesha")
    BY Zenon DEF start_ganesha
  <1>5. \A r \in start_ganesha(p) : Only(p, r, "ganesha") /\ (Fresh(r, "ganesha") \/ r = p)
    <2> DEFINE up == Spawned(q, "ganesha")
               died == [up EXCEPT !["ganesha"].st = "dead"]
               forked == [died EXCEPT !["ganesha"].stray = @ + 1]
    <2>1. /\ up \in Tables /\ Only(q, up, "ganesha")
          /\ up["ganesha"].loaded = Reads("ganesha")
      <3> HIDE DEF q
      <3> QED
        BY Zenon, <1>1, BasicTables, BasicEffects
    <2>2. died \in Tables /\ Only(up, died, "ganesha")
            /\ died["ganesha"].loaded = up["ganesha"].loaded
      <3> HIDE DEF up
      <3>1. died \in Tables
        BY Zenon, <2>1, BasicTables
      <3>2. Only(up, died, "ganesha") /\ died["ganesha"].loaded = up["ganesha"].loaded
        BY <2>1 DEF Only, Tables, Process
      <3> QED
        BY <3>1, <3>2
    <2>3. forked \in Tables /\ Only(died, forked, "ganesha")
            /\ forked["ganesha"].loaded = died["ganesha"].loaded
      <3> HIDE DEF died
      <3>1. forked \in Tables
        BY Zenon, <2>2, BasicTables
      <3>2. Only(died, forked, "ganesha") /\ forked["ganesha"].loaded = died["ganesha"].loaded
        BY <2>2 DEF Only, Tables, Process
      <3> QED
        BY <3>1, <3>2
    <2>4. Launched(q) \subseteq {up, died, forked}
      BY DEF Launched
    <2>5. ASSUME NEW r \in Tables
          PROVE  /\ Only(r, Confirmed(Managed(r, "ganesha", TRUE)), "ganesha")
                 /\ Confirmed(Managed(r, "ganesha", TRUE))["ganesha"].loaded
                      = r["ganesha"].loaded
      <3> DEFINE m == Managed(r, "ganesha", TRUE)
                 c == [m EXCEPT !["ganesha"].st = "live", !["ganesha"].stray = @ - 1]
      <3>1. m \in Tables /\ Only(r, m, "ganesha") /\ m["ganesha"].loaded = r["ganesha"].loaded
        BY Zenon, <2>5, BasicTables, BasicEffects
      <3> HIDE DEF m
      <3>2. Only(m, c, "ganesha") /\ c["ganesha"].loaded = m["ganesha"].loaded
        BY <3>1 DEF Only, Tables, Process
      <3>3. Confirmed(m) \in {m, c}
        BY DEF Confirmed
      <3> HIDE DEF c
      <3>4. Only(r, Confirmed(m), "ganesha") /\ Confirmed(m)["ganesha"].loaded = r["ganesha"].loaded
        BY <3>1, <3>2, <3>3 DEF Only
      <3> QED
        BY Zenon, <3>4 DEF m
    <2>6. \A r \in Launched(q) :
            /\ r \in Tables /\ Only(p, r, "ganesha")
            /\ r["ganesha"].loaded = Reads("ganesha")
      <3> HIDE DEF q, up, died, forked
      <3> QED
        BY <1>1, <2>1, <2>2, <2>3, <2>4 DEF Only
    <2>7. \A r \in start_ganesha(p) :
            \/ r = p
            \/ r = q
            \/ \E l \in Launched(q) : r = Confirmed(Managed(l, "ganesha", TRUE))
      BY Zenon DEF start_ganesha
    <2>8. Fresh(q, "ganesha")
      BY <1>1 DEF Fresh, Live
    <2> HIDE DEF q
    <2>9. \A l \in Launched(q) :
            /\ Only(p, Confirmed(Managed(l, "ganesha", TRUE)), "ganesha")
            /\ Fresh(Confirmed(Managed(l, "ganesha", TRUE)), "ganesha")
      BY Zenon, <2>5, <2>6 DEF Only, Fresh
    <2>10. Only(p, p, "ganesha")
      BY DEF Only
    <2> QED
      BY Zenon, <1>1, <2>7, <2>8, <2>9, <2>10
  <1> QED
    BY <1>2, <1>3, <1>4, <1>5

-----------------------------------------------------------------------------
(***************************************************************************)
(* The inductive invariant.  A job that has generated keeps the derived    *)
(* files equal to the configuration unless a newer save is still to be     *)
(* signalled or taken; so does the idle loop after a job that succeeded.   *)
(***************************************************************************)

Pending == unsignaled \/ hup \/ usr1

Generated == pc \in {"hooks", "stop", "sssd", "idhelper", "start", "webui", "avahi",
                     "watcher", "finish"}

InSync ==
  Generated \/ (pc \in {"tick", "respawn"} /\ outcome = "ok") => disk = Rendered \/ Pending

\* The phases that only one kind of job has; no job has ended before the boot.
PhaseOfJob ==
  /\ pc = "boot" => outcome = "none"
  /\ pc = "stop" => Recycling
  /\ pc = "watcher" => ~Recycling

IInv == TypeOK /\ procs \in Single /\ PhaseOfJob /\ InSync

\* The initial state satisfies the inductive invariant.
LEMMA InitIInv == ASSUME Init PROVE IInv
  <1>1. procs \in Single
    BY SupervisorAssumption DEF Init, NoProcs, Single, Tables, Process, Services
  <1>2. conf \in [exports : Versions, shares : Versions, identity : Versions,
                  adverts : Versions, host : BOOLEAN, navahi : BOOLEAN]
    BY SupervisorAssumption DEF Init, Switches
  <1>3. plan \in ServiceRecyclePlan
    BY DEF Init, NoPlan, plan_full_recycle, ServiceRecyclePlan, GaneshaAction, WebuiAction
  <1>4. cursor \in 1 .. Len(RespawnOrder) + 1
    BY DEF Init, RespawnOrder
  <1>5. TypeOK
    BY Zenon, <1>1, <1>2, <1>3, <1>4, SupervisorAssumption
    DEF Init, TypeOK, Single, Tables, NoFingerprints
  <1> QED
    BY <1>1, <1>5 DEF Init, IInv, PhaseOfJob, InSync, Generated

\* What After returns is a phase, and one of the right kind of job.
LEMMA AfterPhase ==
  ASSUME NEW ph \in {"generate", "hooks", "stop", "sssd", "idhelper", "start", "webui",
                     "avahi", "watcher"},
         ph = "stop" => Recycling,
         ph = "watcher" => ~Recycling
  PROVE  /\ After(ph) \in {"hooks", "stop", "sssd", "idhelper", "start", "webui", "avahi",
                           "watcher", "finish"}
         /\ After(ph) = "stop" => Recycling
         /\ After(ph) = "watcher" => ~Recycling
  BY DEF After, RecycleAfter, BringUpAfter

\* Plans are plans.
LEMMA PlanType ==
  /\ \A e, s, h, r \in BOOLEAN : plan_from_changes(e, s, h, r) \in ServiceRecyclePlan
  /\ \A h \in BOOLEAN : plan_full_recycle(h) \in ServiceRecyclePlan
  /\ \A pl \in ServiceRecyclePlan : ganesha_sighup_failed(pl) \in ServiceRecyclePlan
  BY DEF plan_from_changes, plan_full_recycle, ganesha_sighup_failed, ServiceRecyclePlan,
         GaneshaAction, WebuiAction

\* A step of the outside world preserves the inductive invariant.
LEMMA EnvironmentIInv == ASSUME IInv, Environment PROVE IInv'
  <1> TypeOK /\ procs \in Single /\ PhaseOfJob /\ InSync
    BY DEF IInv
  <1>1. CASE Save
    <2>1. conf' \in [exports : Versions, shares : Versions, identity : Versions,
                     adverts : Versions, host : BOOLEAN, navahi : BOOLEAN]
      BY <1>1, SupervisorAssumption DEF Save, TypeOK, Parts, Switches
    <2> QED
      BY <1>1, <2>1 DEF Save, IInv, TypeOK, PhaseOfJob, InSync, Generated, Pending, Recycling,
         sigVars, fileVars, memVars, flowVars, histVars
  <1>2. CASE SendHup
    <2>1. Pending'
      BY <1>2 DEF SendHup, Pending
    <2>2. hup' \in BOOLEAN /\ unsignaled' \in BOOLEAN
      BY Zenon, <1>2 DEF SendHup
    <2>3. UNCHANGED <<conf, disk, usr1, term, fileVars, procs, memVars, pc, job, flowVars,
                      histVars>>
      BY <1>2 DEF SendHup
    <2>4. TypeOK'
      BY <2>2, <2>3 DEF TypeOK, fileVars, memVars, flowVars, histVars
    <2> QED
      BY <2>1, <2>3, <2>4 DEF IInv, PhaseOfJob, InSync, Recycling, histVars
  <1>3. CASE SendUsr1
    <2>1. Pending'
      BY <1>3 DEF SendUsr1, Pending
    <2>2. usr1' \in BOOLEAN /\ unsignaled' \in BOOLEAN
      BY <1>3 DEF SendUsr1
    <2>3. UNCHANGED <<conf, disk, hup, term, fileVars, procs, memVars, pc, job, flowVars,
                      histVars>>
      BY <1>3 DEF SendUsr1
    <2>4. TypeOK'
      BY <2>2, <2>3 DEF TypeOK, fileVars, memVars, flowVars, histVars
    <2> QED
      BY <2>1, <2>3, <2>4 DEF IInv, PhaseOfJob, InSync, Recycling, histVars
  <1>4. CASE SendTerm
    <2>1. Rendered' = Rendered
      BY <1>4 DEF SendTerm, Rendered, confVars
    <2> QED
      BY <1>4, <2>1 DEF SendTerm, IInv, TypeOK, PhaseOfJob, InSync, Generated, Pending, Recycling,
         confVars, fileVars, memVars, flowVars, histVars
  <1>5. CASE WizardDone
    <2>1. Rendered' = Rendered
      BY <1>5 DEF WizardDone, Rendered, confVars
    <2> QED
      BY <1>5, <2>1 DEF WizardDone, IInv, TypeOK, PhaseOfJob, InSync, Generated, Pending, Recycling,
         confVars, sigVars, memVars, flowVars, histVars
  <1>6. CASE Restart
    <2>1. NoProcs \in Single
      BY SupervisorAssumption DEF NoProcs, Single, Tables, Process, Services
    <2>2. NoPlan \in ServiceRecyclePlan /\ 1 \in 1 .. Len(RespawnOrder) + 1
      <3>1. NoPlan \in ServiceRecyclePlan
        BY Zenon, PlanType DEF NoPlan
      <3>2. 1 \in 1 .. Len(RespawnOrder) + 1
        BY DEF RespawnOrder
      <3> QED
        BY <3>1, <3>2
    <2>3. NoFingerprints \in [identity : Versions, exports : Versions, adverts : Versions]
      BY SupervisorAssumption DEF NoFingerprints
    <2>4. conf.host \in BOOLEAN
      BY DEF TypeOK
    <2>5. TypeOK'
      BY Zenon, <1>6, <2>1, <2>2, <2>3, <2>4, SupervisorAssumption
      DEF Restart, TypeOK, Single, Tables, fileVars
    <2> QED
      BY <1>6, <2>1, <2>5 DEF Restart, IInv, PhaseOfJob, InSync, Generated
  <1>7. ASSUME NEW s \in Crashable, Exit(s) \/ StrayExits(s) PROVE IInv'
    <2>1. procs' \in Single
      <3>1. s \in Services
        BY <1>7, SupervisorAssumption
      <3>2. [procs EXCEPT ![s].st = "dead"] \in Single
        BY Zenon, <3>1, BasicSingle
      <3>3. procs[s].stray > 0 => [procs EXCEPT ![s].stray = @ - 1] \in Single
        BY Zenon, <3>1, BasicSingle
      <3> QED
        BY Zenon, <1>7, <3>2, <3>3 DEF Exit, StrayExits
    <2>2. UNCHANGED <<conf, unsignaled, disk, hup, usr1, term, wizard, marker, started,
                      hostMode, lastShares, pc, job, before, plan, belt, needWatcher, cursor,
                      outcome, excused>>
      BY <1>7 DEF Exit, StrayExits, confVars, sigVars, fileVars, memVars, flowVars, histVars
    <2>3. Rendered' = Rendered
      BY <2>2 DEF Rendered
    <2>4. TypeOK'
      BY <2>1, <2>2 DEF TypeOK, Single, Tables
    <2> QED
      BY <2>1, <2>2, <2>3, <2>4 DEF IInv, PhaseOfJob, InSync, Generated, Pending, Recycling
  <1> QED
    BY <1>1, <1>2, <1>3, <1>4, <1>5, <1>6, <1>7 DEF Environment

-----------------------------------------------------------------------------
(***************************************************************************)
(* The phases of a job.                                                    *)
(***************************************************************************)

\* A phase that moves on to the next one, and leaves the configuration, the
\* derived files and the flags alone, preserves the inductive invariant.
LEMMA PhaseStep ==
  ASSUME IInv,
         NEW ph \in {"hooks", "stop", "sssd", "idhelper", "start", "webui", "avahi", "watcher"},
         pc = ph, pc' = After(ph), procs' \in Single,
         plan' \in ServiceRecyclePlan, excused' \in BOOLEAN, started' \in BOOLEAN,
         marker' \in BOOLEAN, hostMode' \in BOOLEAN, lastShares' \in Versions,
         belt' \in BOOLEAN,
         UNCHANGED <<conf, disk, unsignaled, hup, usr1, term, wizard, job, before,
                     needWatcher, cursor, outcome>>
  PROVE  IInv'
  <1> TypeOK /\ procs \in Single /\ PhaseOfJob /\ InSync
    BY DEF IInv
  <1>1. /\ pc' \in {"hooks", "stop", "sssd", "idhelper", "start", "webui", "avahi",
                     "watcher", "finish"}
        /\ pc' = "stop" => Recycling
        /\ pc' = "watcher" => ~Recycling
    BY AfterPhase DEF PhaseOfJob
  <1>2. TypeOK'
    BY <1>1 DEF TypeOK, Single, Tables
  <1>3. PhaseOfJob'
    BY <1>1 DEF PhaseOfJob, Recycling
  <1>4. InSync'
    <2>1. Rendered' = Rendered
      BY DEF Rendered
    <2>2. disk = Rendered \/ Pending
      BY DEF InSync, Generated
    <2> QED
      BY <2>1, <2>2 DEF InSync, Pending
  <1> QED
    BY <1>2, <1>3, <1>4 DEF IInv

\* A job that failed leaves no claim about the derived files.
LEMMA FailStep ==
  ASSUME IInv, Fail, disk' \in [identity : Versions, exports : Versions, adverts : Versions],
         excused' \in BOOLEAN,
         UNCHANGED <<conf, unsignaled, hup, usr1, term, wizard, marker, procs, started,
                     hostMode, lastShares, cursor>>
  PROVE  IInv'
  <1> TypeOK /\ procs \in Single /\ PhaseOfJob /\ InSync
    BY DEF IInv
  <1>1. /\ pc' \in {"exited", "tick"} /\ outcome' = "err" /\ job' = "idle"
        /\ before' = NoFingerprints /\ plan' = NoPlan /\ belt' = FALSE /\ needWatcher' = FALSE
    BY DEF Fail, Return
  <1>2. plan' \in ServiceRecyclePlan
    BY Zenon, <1>1, PlanType DEF NoPlan
  <1>3. before' \in [identity : Versions, exports : Versions, adverts : Versions]
    BY <1>1, SupervisorAssumption DEF NoFingerprints
  <1>4. belt' \in BOOLEAN /\ needWatcher' \in BOOLEAN
    BY Zenon, <1>1
  <1>5. TypeOK'
    BY <1>1, <1>2, <1>3, <1>4 DEF TypeOK
  <1> QED
    BY <1>1, <1>5 DEF IInv, PhaseOfJob, InSync, Generated

\* A job whose generator or hook does not return is stuck.
LEMMA ParkedStep ==
  ASSUME IInv, pc' = "parked",
         disk' \in [identity : Versions, exports : Versions, adverts : Versions],
         UNCHANGED <<conf, unsignaled, hup, usr1, term, wizard, marker, procs, started,
                     hostMode, lastShares, job, before, plan, belt, needWatcher, cursor,
                     outcome, excused>>
  PROVE  IInv'
  <1>1. TypeOK'
    BY DEF IInv, TypeOK
  <1> QED
    BY <1>1 DEF IInv, PhaseOfJob, InSync, Generated

\* The generator: a success renders the configuration it read, so the derived
\* files agree with it; a failure ends the job, a hang parks it.
LEMMA GenerateIInv == ASSUME IInv, Generate PROVE IInv'
  <1> TypeOK /\ procs \in Single /\ PhaseOfJob /\ InSync
    BY DEF IInv
  <1>1. /\ pc = "generate"
        /\ UNCHANGED <<conf, unsignaled, hup, usr1, term, wizard, marker, procs, started,
                       hostMode, lastShares, cursor>>
    BY DEF Generate, confVars, sigVars, fileVars, memVars
  <1>2. Rendered \in [identity : Versions, exports : Versions, adverts : Versions]
    BY DEF TypeOK, Rendered
  <1>3. PartlyRendered \subseteq [identity : Versions, exports : Versions, adverts : Versions]
    <2>1. disk \in [identity : Versions, exports : Versions, adverts : Versions]
      BY DEF TypeOK
    <2>2. [disk EXCEPT !.identity = conf.identity]
            \in [identity : Versions, exports : Versions, adverts : Versions]
      BY <2>1 DEF TypeOK
    <2>3. [Rendered EXCEPT !.adverts = disk.adverts]
            \in [identity : Versions, exports : Versions, adverts : Versions]
      BY <1>2, <2>1
    <2> QED
      BY <1>2, <2>1, <2>2, <2>3 DEF PartlyRendered
  <1>4. ASSUME disk' = Rendered, before' = disk, pc' = After("generate"),
               UNCHANGED <<job, plan, belt, needWatcher, histVars>>
        PROVE  IInv'
    <2>1. /\ pc' \in {"hooks", "stop", "sssd", "idhelper", "start", "webui", "avahi",
                       "watcher", "finish"}
          /\ pc' = "stop" => Recycling
          /\ pc' = "watcher" => ~Recycling
      BY <1>1, <1>4, AfterPhase
    <2>2. TypeOK'
      BY <1>1, <1>2, <1>4, <2>1 DEF TypeOK, histVars
    <2>3. disk' = Rendered'
      BY <1>1, <1>4 DEF Rendered
    <2> QED
      BY <1>1, <1>4, <2>1, <2>2, <2>3 DEF IInv, PhaseOfJob, InSync, Recycling
  <1>5. ASSUME disk' \in PartlyRendered, Fail,
               excused' = (excused \/ disk'.exports # disk.exports)
        PROVE  IInv'
    <2>1. excused' \in BOOLEAN
      BY <1>5
    <2> QED
      BY <1>1, <1>3, <1>5, <2>1, FailStep
  <1>6. ASSUME disk' \in PartlyRendered, pc' = "parked",
               UNCHANGED <<before, job, plan, belt, needWatcher, histVars>>
        PROVE  IInv'
    BY <1>1, <1>3, <1>6, ParkedStep DEF histVars
  <1> QED
    BY <1>4, <1>5, <1>6 DEF Generate

\* The hooks, and the plan made after them.
LEMMA HooksIInv == ASSUME IInv, Hooks PROVE IInv'
  <1> TypeOK /\ procs \in Single /\ PhaseOfJob /\ InSync
    BY DEF IInv
  <1>1. /\ pc = "hooks"
        /\ UNCHANGED <<conf, unsignaled, disk, hup, usr1, term, wizard, marker, started,
                       cursor>>
    BY Zenon DEF Hooks, confVars, sigVars, fileVars
  <1>2. disk' \in [identity : Versions, exports : Versions, adverts : Versions]
    BY <1>1 DEF TypeOK
  <1>3. ASSUME pc' = After("hooks"),
               hostMode' = (IF Recycling THEN conf.host ELSE hostMode),
               lastShares' = conf.shares,
               plan' = PlanFor(hostMode'),
               belt' = (job = "sighup" /\ before.adverts # disk.adverts),
               procs' = IF job = "sighup" /\ started THEN Refreshed(procs) ELSE procs,
               UNCHANGED <<job, before, needWatcher, histVars>>
        PROVE  IInv'
    <2>1. hostMode' \in BOOLEAN /\ lastShares' \in Versions
      BY <1>3 DEF TypeOK
    <2>2. belt' \in BOOLEAN
      BY <1>3
    <2>3. plan' \in ServiceRecyclePlan
      <3>1. /\ (before.exports # disk.exports) \in BOOLEAN
            /\ (lastShares # conf.shares) \in BOOLEAN
            /\ Live(procs, "ganesha") \in BOOLEAN
        BY DEF Live
      <3>2. plan_from_changes(before.exports # disk.exports, lastShares # conf.shares,
                              hostMode', Live(procs, "ganesha")) \in ServiceRecyclePlan
        BY Zenon, <2>1, <3>1, PlanType
      <3>3. plan_full_recycle(hostMode') \in ServiceRecyclePlan
        BY <2>1, PlanType
      <3> QED
        BY <1>3, <3>2, <3>3 DEF PlanFor
    <2>4. procs' \in Single
      <3>1. Refreshed(procs) \in Single
        BY Zenon, BasicSingle DEF Services
      <3> QED
        BY <1>3, <3>1
    <2>5. /\ started' \in BOOLEAN /\ marker' \in BOOLEAN /\ excused' \in BOOLEAN
          /\ UNCHANGED <<outcome, excused>>
      BY <1>1, <1>3 DEF TypeOK, histVars
    <2> QED
      BY Zenon, <1>1, <1>3, <2>1, <2>2, <2>3, <2>4, <2>5, PhaseStep
  <1>4. ASSUME Fail, excused' = (excused \/ before.exports # disk.exports),
               UNCHANGED <<hostMode, lastShares, procs>>
        PROVE  IInv'
    <2>1. excused' \in BOOLEAN
      BY <1>4
    <2> QED
      BY <1>1, <1>2, <1>4, <2>1, FailStep
  <1>5. ASSUME pc' = "parked",
               UNCHANGED <<hostMode, lastShares, procs, job, before, plan, belt,
                           needWatcher, histVars>>
        PROVE  IInv'
    BY <1>1, <1>2, <1>5, ParkedStep DEF histVars
  <1> QED
    BY Zenon, <1>3, <1>4, <1>5 DEF Hooks

\* What a phase after the hooks leaves alone, with the types it needs.
LEMMA PhaseFrame ==
  ASSUME IInv, UNCHANGED phaseUnchanged
  PROVE  /\ started' \in BOOLEAN /\ marker' \in BOOLEAN /\ hostMode' \in BOOLEAN
         /\ lastShares' \in Versions /\ belt' \in BOOLEAN
         /\ UNCHANGED <<conf, disk, unsignaled, hup, usr1, term, wizard, job, before,
                        needWatcher, cursor, outcome>>
  BY DEF IInv, TypeOK, phaseUnchanged, confVars, sigVars, fileVars, memVars

\* The phases after the hooks preserve the inductive invariant.
LEMMA StepsIInv ==
  ASSUME IInv,
         StopGanesha \/ RestartSssd \/ RestartIdhelper \/ StartGanesha \/ StartWebui
           \/ RestartAvahi
  PROVE  IInv'
  <1> TypeOK /\ procs \in Single /\ plan \in ServiceRecyclePlan /\ excused \in BOOLEAN
    BY DEF IInv, TypeOK
  <1>0. ASSUME NEW ph \in {"stop", "sssd", "idhelper", "start", "webui", "avahi"},
               pc = ph, pc' = After(ph), procs' \in Single, plan' \in ServiceRecyclePlan,
               excused' \in BOOLEAN, UNCHANGED phaseUnchanged
        PROVE  IInv'
    BY <1>0, PhaseStep, PhaseFrame
  <1>1. CASE StopGanesha
    <2>1. /\ pc = "stop" /\ pc' = After("stop") /\ UNCHANGED phaseUnchanged
          /\ excused' \in BOOLEAN
      BY Zenon, <1>1 DEF StopGanesha
    <2>2. plan' \in ServiceRecyclePlan
      <3>1. ganesha_sighup_failed(plan) \in ServiceRecyclePlan
        BY PlanType
      <3> QED
        BY <1>1, <3>1 DEF StopGanesha
    <2>3. procs' \in Single
      <3>1. "ganesha" \in Services
        BY DEF Services
      <3>2. Refreshed(procs) \in Single /\ Reloaded(procs, "ganesha") \in Single
        BY Zenon, <3>1, BasicSingle
      <3>3. stop_ganesha(Refreshed(procs)) \subseteq Single
        BY <3>2, OperationsSingle
      <3> QED
        BY <1>1, <3>2, <3>3 DEF StopGanesha
    <2> QED
      BY <1>0, <2>1, <2>2, <2>3
  <1>2. CASE RestartSssd
    <2>1. /\ pc = "sssd" /\ pc' = After("sssd")
          /\ UNCHANGED <<phaseUnchanged, plan, excused>>
          /\ procs' \in restart_sssd_and_wait(procs) \union {procs}
      BY <1>2 DEF RestartSssd
    <2>2. procs' \in Single
      BY <2>1, OperationsSingle
    <2> QED
      BY <1>0, <2>1, <2>2
  <1>3. CASE RestartIdhelper
    <2>1. /\ pc = "idhelper" /\ pc' = After("idhelper")
          /\ UNCHANGED <<phaseUnchanged, plan, excused>>
          /\ procs' \in restart_idhelper_and_wait_bulk(procs) \union {procs}
      BY <1>3 DEF RestartIdhelper
    <2>2. procs' \in Single
      BY <2>1, OperationsSingle
    <2> QED
      BY <1>0, <2>1, <2>2
  <1>4. CASE StartGanesha
    <2>1. /\ pc = "start" /\ pc' = After("start") /\ UNCHANGED <<phaseUnchanged, plan>>
          /\ procs' = procs
               \/ \E q \in ensure_ganesha_prereqs(procs) : procs' \in start_ganesha(q)
      BY <1>4 DEF StartGanesha
    <2>2. procs' \in Single
      BY <2>1, OperationsSingle, StartGaneshaSingle
    <2>3. excused' \in BOOLEAN
      BY <1>4 DEF StartGanesha, Served
    <2> QED
      BY <1>0, <2>1, <2>2, <2>3
  <1>5. CASE StartWebui
    <2>1. /\ pc = "webui" /\ pc' = After("webui")
          /\ UNCHANGED <<phaseUnchanged, plan, excused>>
          /\ procs' \in {procs} \union reload_webui(procs) \union start_webui(procs)
      BY <1>5 DEF StartWebui
    <2>2. procs' \in Single
      BY <2>1, OperationsSingle
    <2> QED
      BY <1>0, <2>1, <2>2
  <1>6. CASE RestartAvahi
    <2>1. /\ pc = "avahi" /\ pc' = After("avahi")
          /\ UNCHANGED <<phaseUnchanged, plan, excused>>
          /\ \/ procs' = procs
             \/ procs' = Reloaded(procs, "avahi")
             \/ \E q \in stop_avahi(procs) : procs' \in start_avahi(q)
      BY <1>6 DEF RestartAvahi
    <2>2. Reloaded(procs, "avahi") \in Single
      BY Zenon, BasicSingle DEF Services
    <2>3. \A q \in stop_avahi(procs) : start_avahi(q) \subseteq Single
      BY OperationsSingle
    <2>4. procs' \in Single
      BY <2>1, <2>2, <2>3
    <2> QED
      BY <1>0, <2>1, <2>4
  <1> QED
    BY <1>1, <1>2, <1>3, <1>4, <1>5, <1>6

\* The watcher, and the end of a job.
LEMMA FinishIInv == ASSUME IInv, StartWatcher \/ Finish PROVE IInv'
  <1> TypeOK /\ procs \in Single /\ PhaseOfJob /\ InSync
    BY DEF IInv
  <1>1. CASE StartWatcher
    <2>1. /\ pc = "watcher" /\ pc' = After("watcher") /\ started' = TRUE
          /\ procs' \in UNION {start_watcher(q) : q \in wait_for_ganesha_readiness(procs)}
          /\ marker' = (marker /\ job # "boot")
          /\ UNCHANGED <<conf, disk, unsignaled, hup, usr1, term, wizard, hostMode, lastShares,
                         job, before, plan, belt, needWatcher, cursor, outcome, excused>>
      BY <1>1 DEF StartWatcher, confVars, sigVars, flowVars, histVars
    <2>2. procs' \in Single
      <3>1. "ganesha" \in Services
        BY DEF Services
      <3>2. wait_for_ganesha_readiness(procs) \subseteq Single
        BY Zenon, <3>1, BasicSingle DEF wait_for_ganesha_readiness
      <3>3. PICK q \in wait_for_ganesha_readiness(procs) : procs' \in start_watcher(q)
        BY <2>1
      <3> QED
        BY <3>2, <3>3, OperationsSingle
    <2>3. started' \in BOOLEAN /\ marker' \in BOOLEAN
      BY <2>1
    <2>4. /\ plan' \in ServiceRecyclePlan /\ excused' \in BOOLEAN /\ hostMode' \in BOOLEAN
          /\ lastShares' \in Versions /\ belt' \in BOOLEAN
      BY <2>1 DEF TypeOK
    <2> QED
      BY <2>1, <2>2, <2>3, <2>4, PhaseStep
  <1>2. CASE Finish
    <2>1. /\ pc = "finish" /\ pc' = "tick" /\ started' = TRUE
          /\ marker' = (marker \/ job # "boot")
          /\ outcome' = "ok" /\ job' = "idle" /\ before' = NoFingerprints /\ plan' = NoPlan
          /\ belt' = FALSE /\ needWatcher' = FALSE
          /\ UNCHANGED <<conf, disk, unsignaled, hup, usr1, term, wizard, hostMode, lastShares,
                         cursor, excused>>
      BY <1>2 DEF Finish, Return, confVars, sigVars
    <2>2. procs' \in Single
      <3>1. \A p \in Single : start_watcher(p) \subseteq Single
        BY OperationsSingle
      <3> DEFINE first == IF Recycling /\ ~started THEN start_watcher(procs) ELSE {procs}
      <3>2. first \subseteq Single
        BY <3>1
      <3>3. procs' \in IF needWatcher THEN UNION {start_watcher(p) : p \in first} ELSE first
        BY <1>2 DEF Finish
      <3> HIDE DEF first
      <3> QED
        BY <3>1, <3>2, <3>3
    <2>3. plan' \in ServiceRecyclePlan
      BY Zenon, <2>1, PlanType DEF NoPlan
    <2>4. before' \in [identity : Versions, exports : Versions, adverts : Versions]
      BY <2>1, SupervisorAssumption DEF NoFingerprints
    <2>5. started' \in BOOLEAN /\ marker' \in BOOLEAN /\ belt' \in BOOLEAN
            /\ needWatcher' \in BOOLEAN
      BY Zenon, <2>1
    <2>6. TypeOK'
      BY <2>1, <2>2, <2>3, <2>4, <2>5 DEF TypeOK, Single, Tables
    <2>7. disk = Rendered \/ Pending
      BY <2>1 DEF InSync, Generated
    <2>8. Rendered' = Rendered
      BY <2>1 DEF Rendered
    <2>9. InSync'
      BY <2>1, <2>7, <2>8 DEF InSync, Pending
    <2> QED
      BY <2>1, <2>2, <2>6, <2>9 DEF IInv, PhaseOfJob
  <1> QED
    BY <1>1, <1>2

-----------------------------------------------------------------------------
(***************************************************************************)
(* The boot, the loop and the idle pass.                                   *)
(***************************************************************************)

\* A tick that finds a flag set takes on a job.
LEMMA TickJob ==
  ASSUME NEW ready \in BOOLEAN
  PROVE  /\ supervisor_loop_tick(started, hup, usr1, wizard, ready)
              \in {"bringup", "full", "sighup", "idle"}
         /\ supervisor_loop_tick(started, hup, usr1, wizard, ready) = "idle" => ~hup /\ ~usr1
  BY DEF supervisor_loop_tick, should_bring_up_services

\* What the idle pass does to a service keeps every ganesha.nfsd tracked.
LEMMA RespawnSingle ==
  ASSUME TypeOK, procs \in Single, NEW i \in 1 .. Len(RespawnOrder)
  PROVE  respawn_service(RespawnOrder[i]) \subseteq Single
  <1>1. RespawnOrder[i] \in {"dbus", "sssd", "idhelper", "watcher", "webui", "ganesha", "avahi"}
    BY DEF RespawnOrder
  <1> DEFINE s == RespawnOrder[i]
  <1>2. respawn_service(s) \in {start_webui(procs), start_watcher(procs),
                                restart_sssd_and_wait(procs),
                                restart_idhelper_and_wait_bulk(procs),
                                ensure_ganesha_prereqs(procs), start_ganesha(procs),
                                start_avahi(procs)}
    <2> HIDE DEF s
    <2> QED
      BY <1>1 DEF respawn_service, s
  <1> HIDE DEF s
  <1>3. respawn_service(s) \subseteq Single
    BY <1>2, OperationsSingle, StartGaneshaSingle
  <1> QED
    BY <1>3 DEF s

\* A step of the boot, of the loop or of the idle pass preserves the inductive
\* invariant: a tick that finds a flag set does not go idle.
LEMMA LoopIInv == ASSUME IInv, Loop PROVE IInv'
  <1> TypeOK /\ procs \in Single /\ PhaseOfJob /\ InSync
    BY DEF IInv
  <1>1. CASE BootPreconfigured
    <2>1. /\ pc' = "generate" /\ wizard' \in BOOLEAN
          /\ UNCHANGED <<conf, unsignaled, disk, hup, usr1, term, marker, procs, started,
                         hostMode, lastShares, job, before, plan, belt, needWatcher, cursor,
                         outcome, excused>>
      BY <1>1 DEF BootPreconfigured, confVars, sigVars, memVars, flowVars, histVars
    <2>2. TypeOK'
      BY <2>1 DEF TypeOK
    <2> QED
      BY <2>1, <2>2 DEF IInv, PhaseOfJob, InSync, Generated
  <1>2. CASE BootWizard
    <2>1. /\ pc = "boot" /\ pc' \in {"tick", "exited"} /\ marker' \in BOOLEAN
          /\ procs' \in start_webui(procs)
          /\ UNCHANGED <<conf, unsignaled, disk, hup, usr1, term, wizard, started, hostMode,
                         lastShares, job, before, plan, belt, needWatcher, cursor, outcome,
                         excused>>
      BY <1>2 DEF BootWizard, confVars, sigVars, memVars, flowVars, histVars
    <2>2. procs' \in Single
      BY <2>1, OperationsSingle
    <2>3. TypeOK'
      BY <2>1, <2>2 DEF TypeOK, Single, Tables
    <2> QED
      BY <2>1, <2>2, <2>3 DEF IInv, PhaseOfJob, InSync, Generated
  <1>3. CASE Tick
    <2>1. /\ pc = "tick" /\ hup' \in BOOLEAN /\ usr1' \in BOOLEAN
          /\ wizard' \in BOOLEAN /\ needWatcher' \in BOOLEAN /\ cursor' = 1
          /\ UNCHANGED <<conf, unsignaled, disk, term, marker, started, hostMode, lastShares,
                         before, plan, belt, outcome, excused>>
      BY Zenon, <1>3 DEF Tick, confVars, memVars, histVars
    <2>2. /\ job' \in {"bringup", "full", "sighup", "idle"}
          /\ job' = "idle" => ~hup /\ ~usr1
      BY Zenon, <1>3, TickJob DEF Tick
    <2>3. /\ pc' \in {"respawn", "generate"}
          /\ pc' = "respawn" => ~hup /\ ~usr1
      BY <1>3, <2>2 DEF Tick
    <2>4. procs' \in Single
      <3>1. Refreshed(procs) \in Single
        BY BasicSingle DEF Services
      <3> QED
        BY <1>3, <3>1 DEF Tick
    <2>5. 1 \in 1 .. Len(RespawnOrder) + 1
      BY DEF RespawnOrder
    <2>6. TypeOK'
      BY <2>1, <2>2, <2>3, <2>4, <2>5 DEF TypeOK, Single, Tables
    <2>7. Rendered' = Rendered
      BY <2>1 DEF Rendered
    <2>8. InSync'
      BY <2>1, <2>3, <2>7 DEF InSync, Generated, Pending
    <2> QED
      BY <2>1, <2>3, <2>4, <2>6, <2>8 DEF IInv, PhaseOfJob
  <1>4. CASE Shutdown
    <2>1. /\ pc' = "exited"
          /\ UNCHANGED <<conf, unsignaled, disk, hup, usr1, term, wizard, marker, started,
                         hostMode, lastShares, job, before, plan, belt, needWatcher, cursor,
                         outcome, excused>>
      BY Zenon, <1>4 DEF Shutdown, confVars, sigVars, fileVars, memVars, flowVars, histVars
    <2>2. procs' \in Single
      <3> DEFINE ended(s) == [procs[s] EXCEPT !.st = "none", !.stray = 0, !.managed = FALSE]
      <3>1. "ganesha" \in Services /\ procs' = [s \in Services |-> ended(s)]
        BY <1>4 DEF Shutdown, Services
      <3>2. \A s \in Services : ended(s) \in Process /\ ended(s).stray = 0
        <4> TAKE s \in Services
        <4>1. procs[s] \in Process
          BY Zenon DEF Single, Tables
        <4> QED
          BY Zenon, <4>1 DEF Process
      <3> HIDE DEF ended
      <3> QED
        BY <3>1, <3>2 DEF Single, Tables
    <2>3. TypeOK'
      BY <2>1, <2>2 DEF TypeOK, Single, Tables
    <2> QED
      BY <2>1, <2>2, <2>3 DEF IInv, PhaseOfJob, InSync, Generated
  <1>5. ASSUME pc = "respawn", procs' \in Single, cursor' \in 1 .. Len(RespawnOrder) + 1,
               pc' \in {"respawn", "tick"}, excused' \in BOOLEAN,
               UNCHANGED <<conf, unsignaled, disk, hup, usr1, term, wizard, marker, started,
                           hostMode, lastShares, job, before, plan, belt, needWatcher, outcome>>
        PROVE  IInv'
    <2>1. TypeOK'
      BY <1>5 DEF TypeOK, Single, Tables
    <2>2. Rendered' = Rendered
      BY <1>5 DEF Rendered
    <2>3. InSync'
      BY <1>5, <2>2 DEF InSync, Generated, Pending
    <2> QED
      BY <1>5, <2>1, <2>3 DEF IInv, PhaseOfJob
  <1>6. ASSUME NEW i \in 1 .. Len(RespawnOrder), Respawn(i) \/ PassOver(i) PROVE IInv'
    <2>1. procs' \in Single
      BY <1>6, RespawnSingle DEF Respawn, PassOver
    <2>2. cursor' \in 1 .. Len(RespawnOrder) + 1
      BY <1>6 DEF Respawn, PassOver, RespawnOrder
    <2>3. excused' \in BOOLEAN
      BY Zenon, <1>6 DEF Respawn, PassOver, Served, histVars, TypeOK
    <2>4. /\ pc = "respawn" /\ pc' = "respawn"
          /\ UNCHANGED <<conf, unsignaled, disk, hup, usr1, term, wizard, marker, started,
                         hostMode, lastShares, job, before, plan, belt, needWatcher, outcome>>
      BY <1>6 DEF Respawn, PassOver, confVars, sigVars, fileVars, memVars, histVars
    <2> QED
      BY <1>5, <2>1, <2>2, <2>3, <2>4
  <1>7. CASE EndPass
    <2>1. 1 \in 1 .. Len(RespawnOrder) + 1
      BY DEF RespawnOrder
    <2>2. /\ pc = "respawn" /\ pc' = "tick" /\ cursor' = 1
          /\ UNCHANGED <<conf, unsignaled, disk, hup, usr1, term, wizard, marker, procs, started,
                         hostMode, lastShares, job, before, plan, belt, needWatcher, outcome,
                         excused>>
      BY <1>7 DEF EndPass, confVars, sigVars, fileVars, memVars, histVars
    <2> QED
      BY <1>5, <2>1, <2>2 DEF TypeOK
  <1> QED
    BY <1>1, <1>2, <1>3, <1>4, <1>6, <1>7 DEF Loop

\* The inductive invariant holds in every reachable state.
THEOREM Invariance == Spec => []IInv
  <1>1. Init => IInv
    BY InitIInv
  <1>2. IInv /\ [Next]_vars => IInv'
    <2> SUFFICES ASSUME IInv, [Next]_vars PROVE IInv'
      OBVIOUS
    <2>1. CASE Environment
      BY <2>1, EnvironmentIInv
    <2>2. CASE Phase
      BY <2>2, GenerateIInv, HooksIInv, StepsIInv, FinishIInv DEF Phase
    <2>3. CASE Loop
      BY <2>3, LoopIInv
    <2>4. CASE UNCHANGED vars
      <3>1. Rendered' = Rendered
        BY <2>4 DEF vars, Rendered
      <3>2. TypeOK'
        BY <2>4 DEF vars, IInv, TypeOK
      <3>3. InSync' /\ PhaseOfJob'
        BY <2>4, <3>1 DEF vars, IInv, InSync, Generated, Pending, PhaseOfJob, Recycling
      <3> QED
        BY <2>4, <3>2, <3>3 DEF vars, IInv
    <2> QED
      BY <2>1, <2>2, <2>3, <2>4 DEF Next
  <1> QED
    BY <1>1, <1>2, PTL DEF Spec

\* Every variable keeps its type: in particular adopting a re-executed
\* ganesha.nfsd never takes the count of untracked daemons below zero.
THEOREM TypeCorrect == Spec => []TypeOK
  <1>1. IInv => TypeOK
    BY DEF IInv
  <1> QED
    BY <1>1, Invariance, PTL

\* At most one ganesha.nfsd runs, whatever crashes, survives SIGKILL or
\* re-executes itself: confirm_ganesha_daemon_pid_env adopts the daemon before
\* start_ganesha returns, and start_ganesha spawns next to no live process.
THEOREM GaneshaNeverDoubled == Spec => []OneGanesha
  <1>1. IInv => OneGanesha
    BY DEF IInv, OneGanesha, Single, Tables, Process, Services
  <1> QED
    BY <1>1, Invariance, PTL

\* No save is lost: handle_sighup and handle_full_recycle run after the flags
\* were consumed, so a save they did not read has its signal still to come.
THEOREM NoSaveLost == Spec => []SavedConfigOnDisk
  <1>1. IInv => SavedConfigOnDisk
    BY DEF IInv, InSync, Pending, SavedConfigOnDisk, Quiet
  <1> QED
    BY <1>1, Invariance, PTL

=============================================================================
