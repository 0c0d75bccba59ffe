--------------------------- MODULE DirectoryLists ---------------------------
(***************************************************************************)
(* The lists of users and groups behind the permission editor's search     *)
(* fields: the two cached lists of LdapClient (ldap.rs), the searches, the *)
(* warm-up and the refreshes that fill them, the refresher of main.rs, and *)
(* the settings handlers that clear the lists or replace the client.       *)
(*                                                                         *)
(* A task takes the client once and keeps it over its awaits, so a client  *)
(* that was replaced is still filled by the tasks that hold it.  A list is *)
(* the version of the server's entries that a search has read.  Instants   *)
(* are kept as ages in ticks.                                              *)
(***************************************************************************)
EXTENDS Naturals, Sequences, Functions

CONSTANTS
  Browsers,
  Lists,       \* the lists, in the order they are refreshed in
  Servers, First,  \* LDAP servers, and the one configured at first
  MaxVersion,  \* bound: edits of a server's entries
  MaxClients,  \* bound: clients ever built, by the number of lists in use
  Ttl,         \* SEARCH_CACHE_TTL
  Slow,        \* the ticks one LDAP search may take, by its timeout
  Every        \* the refresher's interval

ASSUME ListsAssumption ==
  /\ Lists \in Seq(Range(Lists)) /\ Lists # <<>>
  /\ First \in Servers
  /\ Ttl \in Nat \ {0} /\ Slow \in Nat \ {0} /\ Every \in Nat \ {0}
  /\ MaxVersion \in Nat /\ MaxClients \in [1 .. Len(Lists) -> Nat \ {0}]

VARIABLES
  content,    \* the version of each server's entries
  up,         \* the servers answer
  clients,    \* every LdapClient built so far, the one in AppState last
  task,       \* what each browser's request, and the refresher, is doing
  refreshing, \* the refresher was spawned (its interval is not 0)
  lists,      \* bound: the lists in use in this behaviour, all of them or the first
  timer       \* ticks to the refresher's next wake-up

chosen == <<refreshing, lists>>
vars == <<content, up, clients, task, chosen, timer>>

Tasks == Browsers \union {"refresher"}
NoTask == [does |-> "none", at |-> "none", client |-> 0, age |-> 0]

\* Bound: beyond `limit` an age makes no difference.
Older(age, limit) == IF age < limit THEN age + 1 ELSE age

-----------------------------------------------------------------------------
(***************************************************************************)
(* LdapClient.                                                             *)
(***************************************************************************)

\* from_config and authenticate, which records the credentials and binds nothing.
NewClient(server) ==
  [server |-> server, slot |-> [l \in Range(Lists) |-> {}], refreshed |-> {}]

Client == Len(clients)

\* A client that was replaced is freed with the last task that holds it.
Held(cs, tasks) ==
  [c \in DOMAIN cs |-> IF c = Len(cs) \/ \E t \in Tasks : tasks[t].client = c
                       THEN cs[c] ELSE NewClient(cs[c].server)]

\* Slip: a list is kept for ever.
evict_expired_Never(slot) == slot

evict_expired(slot) == {rows \in slot : rows.age < Ttl}

\* Both lists are cleaned before one is read.
Evicted(c) == [clients EXCEPT ![c].slot = [l \in Range(Lists) |-> evict_expired(@[l])]]

cached_full_list(c, l) == evict_expired(clients[c].slot[l])

\* Slip: the rows are stored in the client that is in use now.
store_full_list_InUse(c, l, rows) == [clients EXCEPT ![Client].slot[l] = {rows}]

\* The age starts when the rows are stored, whenever they were read.
store_full_list(c, l, rows) == [clients EXCEPT ![c].slot[l] = {rows}]

clear_cache(c) == [clients EXCEPT ![c].slot = [l \in Range(Lists) |-> {}]]

-----------------------------------------------------------------------------
Init ==
  /\ content = [s \in Servers |-> 0]
  /\ up = TRUE
  /\ clients = <<NewClient(First)>>
  /\ task = [t \in Tasks |-> NoTask]
  /\ refreshing \in BOOLEAN /\ lists \in {Lists, <<Head(Lists)>>}
  /\ timer = Every

Idle(t) == task[t] = NoTask

\* A refresh searches at once, everybody else looks at the cache first.
AtFirst(does) == IF does = "refresh" THEN "wait" ELSE "ask"

Begins(t, does, todo) ==
  task' = [task EXCEPT ![t] = [does |-> does, client |-> Client, todo |-> todo,
                               at |-> AtFirst(does), got |-> 0, age |-> 0]]

\* The task goes on to the next list, or ends.
Proceeds(t) ==
  LET w == task[t]
  IN task' = [task EXCEPT ![t] = IF Len(w.todo) = 1 THEN NoTask
                                 ELSE [w EXCEPT !.todo = Tail(@), !.at = AtFirst(w.does),
                                                !.got = 0, !.age = 0]]

\* search_users and search_groups; a login spawns a task that searches both.
search(b) ==
  /\ Idle(b)
  /\ \E todo \in {<<l>> : l \in Range(lists)} \union {lists} : Begins(b, "search", todo)
  /\ UNCHANGED <<content, up, clients, chosen, timer>>

\* refresh_identity_data: the bulk load, whose count is not looked at, then the
\* lists, past the cache.
settings_refresh_identity(b) ==
  /\ Idle(b)
  /\ Begins(b, "refresh", lists)
  /\ UNCHANGED <<content, up, clients, chosen, timer>>

\* None yet, or the last one is at least half an interval ago.
webui_refresh_tick_due(c) == \A age \in clients[c].refreshed : 2 * age >= Every

RefresherWakes ==
  /\ refreshing /\ Idle("refresher") /\ timer = 0
  /\ timer' = Every
  /\ IF webui_refresh_tick_due(Client) THEN Begins("refresher", "refresh", lists)
     ELSE UNCHANGED task
  /\ UNCHANGED <<content, up, clients, chosen>>

\* full_list_rows: a hit answers, a miss searches.
full_list_rows(t) ==
  /\ task[t].at = "ask"
  /\ LET hit == cached_full_list(task[t].client, Head(task[t].todo))
     IN IF hit = {}
        THEN task' = [task EXCEPT ![t].at = "wait"] ELSE Proceeds(t)
  /\ clients' = Held(Evicted(task[t].client), task')
  /\ UNCHANGED <<content, up, chosen, timer>>

\* last_full_refresh is set at the end, whether or not the lists were fetched.
Refreshed(t, cs) ==
  IF task[t].does = "refresh" /\ Len(task[t].todo) = 1
  THEN [cs EXCEPT ![task[t].client].refreshed = {0}] ELSE cs

\* search_list_users and search_list_groups: the server has read its entries.
SearchReads(t) ==
  /\ task[t].at = "wait" /\ up
  /\ task' = [task EXCEPT ![t].at = "got",
                          ![t].got = content[clients[task[t].client].server]]
  /\ UNCHANGED <<content, up, clients, chosen, timer>>

\* An error is not cached: a search says so, a refresh goes on.
SearchFails(t) ==
  /\ task[t].at = "wait" /\ ~up
  /\ Proceeds(t)
  /\ clients' = Held(Refreshed(t, clients), task')
  /\ UNCHANGED <<content, up, chosen, timer>>

\* The answer arrives and is stored, over whatever was stored since.
fetch_and_store_full_list(t) ==
  /\ task[t].at = "got"
  /\ Proceeds(t)
  /\ LET c == task[t].client
         rows == [server |-> clients[c].server, v |-> task[t].got, old |-> task[t].age, age |-> 0]
     IN clients' = Held(Refreshed(t, store_full_list(c, Head(task[t].todo), rows)), task')
  /\ UNCHANGED <<content, up, chosen, timer>>

-----------------------------------------------------------------------------
(***************************************************************************)
(* The settings page.                                                      *)
(***************************************************************************)

clear_ldap_cache(b) ==
  /\ Idle(b)
  /\ clients' = clear_cache(Client)
  /\ UNCHANGED <<content, up, task, chosen, timer>>

\* The new client is for the server that the configuration named when this
\* handler loaded it; it may have been saved again since.
reload_nfs_client(b) ==
  /\ Idle(b) /\ Client < MaxClients[Len(lists)]
  /\ \E s \in Servers : clients' = Held(Append(clients, NewClient(s)), task)
  /\ UNCHANGED <<content, up, task, chosen, timer>>

-----------------------------------------------------------------------------
(***************************************************************************)
(* The surroundings.                                                       *)
(***************************************************************************)

\* What a server has read arrives within the timeout of the search.
Tick ==
  /\ \A t \in Tasks : task[t].age < Slow
  /\ task' = [t \in Tasks |-> IF task[t].at = "got" THEN [task[t] EXCEPT !.age = @ + 1]
                              ELSE task[t]]
  /\ clients' = [c \in DOMAIN clients |->
                   [clients[c] EXCEPT
                      !.slot = [l \in Range(Lists) |-> {[rows EXCEPT !.age = Older(@, Ttl),
                                                            !.old = Older(@, Ttl + Slow)]
                                                    : rows \in @[l]}],
                      !.refreshed = {Older(age, Every) : age \in @}]]
  /\ timer' = IF refreshing /\ timer > 0 THEN timer - 1 ELSE timer
  /\ UNCHANGED <<content, up, chosen>>

\* The directory's administrators edit entries.
EditEntries(s) ==
  /\ \A r \in Servers : content[r] < MaxVersion
  /\ content' = [content EXCEPT ![s] = @ + 1]
  /\ UNCHANGED <<up, clients, task, chosen, timer>>

Outage ==
  /\ up' = ~up
  /\ UNCHANGED <<content, clients, task, chosen, timer>>

TaskStep(t) ==
  \/ full_list_rows(t) \/ SearchReads(t) \/ SearchFails(t)
  \/ fetch_and_store_full_list(t)

Next ==
  \/ \E t \in Tasks : TaskStep(t)
  \/ \E b \in Browsers : \/ search(b) \/ settings_refresh_identity(b)
                         \/ clear_ldap_cache(b) \/ reload_nfs_client(b)
  \/ RefresherWakes
  \/ Tick \/ Outage
  \/ \E s \in Servers : EditEntries(s)

\* The runtime polls every task that can go on, the refresher wakes when its
\* interval is over, and time passes.
Fairness ==
  /\ \A t \in Tasks : WF_vars(TaskStep(t))
  /\ WF_vars(RefresherWakes) /\ WF_vars(Tick)

Spec == Init /\ [][Next]_vars /\ Fairness

-----------------------------------------------------------------------------
(***************************************************************************)
(* Properties.                                                             *)
(***************************************************************************)

\* What a search is answered from is a list of the server its client was built
\* for, as it was within one lifetime of a list and one search before: although a
\* list ages from when it is stored, a slow search may overwrite a newer list, and
\* tasks go on filling a client that a reload has replaced.
ListsFresh ==
  \A c \in DOMAIN clients, l \in Range(Lists) : \A rows \in cached_full_list(c, l) :
    rows.server = clients[c].server /\ rows.old < Ttl + Slow

\* Once the servers stay reachable, what the searches are answered from becomes
\* what the server holds and stays so, with the refresher or without it, however
\* often the lists are cleared, refreshed and warmed.
ListsConverge ==
  <>[]up => <>[](\A l \in Range(Lists) : \A rows \in cached_full_list(Client, l) :
                   rows.v = content[rows.server])

=============================================================================
