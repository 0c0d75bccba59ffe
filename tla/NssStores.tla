------------------------------ MODULE NssStores ------------------------------
(***************************************************************************)
(* The identity daemon's data (nfs-klldap-config/src/bin/idhelper): the    *)
(* cache of resolved principals, its file, and the passwd and group stores *)
(* Ganesha reads through nss_wrapper, kept in step with an LDAP directory  *)
(* that changes and fails.                                                 *)
(*                                                                         *)
(* Every operation runs under the one cache lock, so operations do not     *)
(* interleave; what does is the directory, the readers of the stores, a    *)
(* kill, and a failing write.  `todo` is what is left of the operation:    *)
(* each step reads LDAP once or writes one file.  A user's primary group,  *)
(* numbers, display names and the two spellings of a login are left out: a *)
(* cache entry is the principal's set of supplementary groups, a group row *)
(* the set of logins in it.  Machines share the login root.  A principal   *)
(* stands for the realm form, the only one that is cached.                 *)
(*                                                                         *)
(* The periodic rebulk (180 s) is on, so no positive entry of the          *)
(* resolver's caches reaches its 600 s; misses do reach their 60 s.        *)
(***************************************************************************)
EXTENDS Naturals, Sequences

CONSTANTS
  Users,      \* people the directory may hold
  Machines,   \* host/ and nfs/ principals
  Servers,    \* the machines that are this server, resolved at startup
  Groups,     \* groups of the directory
  Directories, \* the directory at first: [users, member, memberOf]
  Budgets     \* bounds: how many disturbances of each kind, together, a run has

Principals == Users \union Machines
Login(p) == IF p \in Machines THEN "root" ELSE p
Logins == Users \union {"root"}
Dirs == {"nss", "extrausers"}
Kinds == {"edit", "outage", "kill", "fail", "request"}

ASSUME NssAssumption ==
  /\ Users \intersect Machines = {} /\ "root" \notin Users
  /\ Servers \subseteq Machines
  /\ Budgets \subseteq [Kinds -> Nat]
  /\ \A d \in Directories :
       /\ d.users \subseteq Users
       /\ d.member \in [Groups -> SUBSET (d.users \union Machines)]
       /\ d.memberOf \in [Users -> SUBSET Groups]
       /\ \A u \in Users \ d.users : d.memberOf[u] = {}

VARIABLES
  dirUsers, member, memberOf, \* LDAP: users, group -> listed members, user -> memberOf
  up,         \* LDAP answers
  sss,        \* the users getent finds through SSSD
  rUsers, rGroups, rMember, negative, \* the resolver's caches
  cache,      \* IdCache: principal -> supplementary groups
  cacheFile,  \* idmap.cache
  passwd, group, \* the stores: directory -> logins, directory -> group -> logins
  alive,      \* the daemon runs
  todo,       \* the rest of the operation that holds the cache lock
  spent,      \* the disturbances so far, by kind
  held        \* history: the edges the directory has held since the last rebulk began

ldapVars == <<dirUsers, member, memberOf, up, sss>>
resolverVars == <<rUsers, rGroups, rMember, negative>>
cacheVars == <<cache, cacheFile>>
storeVars == <<passwd, group>>
vars == <<dirUsers, member, memberOf, up, sss, rUsers, rGroups, rMember, negative,
          cache, cacheFile, passwd, group, alive, todo, spent, held>>

Nothing == [x \in {} |-> {}]
With(f, k, v) == [x \in DOMAIN f \union {k} |-> IF x = k THEN v ELSE f[x]]

\* The membership edges of the directory, told apart by the end that lists them.
Edges ==
  {e \in dirUsers \X Groups \X {"member", "memberOf"} :
     IF e[3] = "member" THEN e[1] \in member[e[2]] ELSE e[2] \in memberOf[e[1]]}

Idle == alive /\ todo = <<>>
At(op) == alive /\ todo # <<>> /\ Head(todo).op = op
Spend(k) ==
  /\ spent' = [spent EXCEPT ![k] = @ + 1]
  /\ \E b \in Budgets : \A j \in Kinds : spent'[j] <= b[j]

-----------------------------------------------------------------------------
(***************************************************************************)
(* The resolver: a snapshot of users and groups from the bulk load, live   *)
(* lookups on top of it, and the misses remembered for a minute.           *)
(***************************************************************************)
\* load_full_identities empties every cache and then searches twice, for
\* users and for groups; either search may meet an outage.
LoadUsers ==
  /\ At("users")
  /\ rUsers' = IF up THEN dirUsers ELSE {}
  /\ rGroups' = Nothing /\ rMember' = Nothing /\ negative' = {}
  /\ todo' = Tail(todo)
  /\ UNCHANGED <<ldapVars, cacheVars, storeVars, alive, spent, held>>

LoadGroups ==
  /\ At("groups")
  /\ rGroups' = IF up THEN member ELSE rGroups
  /\ todo' = Tail(todo)
  /\ UNCHANGED <<ldapVars, rUsers, rMember, negative, cacheVars, storeVars, alive, spent, held>>

load_full_identities == <<[op |-> "users"], [op |-> "groups"]>>

\* lookup_user_dn_and_memberof: the cached answer, else a live one.
MemberOfLive(u) == u \notin DOMAIN rMember /\ <<"mo", u>> \notin negative /\ up /\ u \in dirUsers
MemberOfNames(u) ==
  CASE u \in DOMAIN rMember -> rMember[u]
    [] MemberOfLive(u) -> memberOf[u]
    [] OTHER -> {}

\* group_gid_from_dn: a group's number comes from the snapshot or from LDAP.
Numbered(g) == g \in DOMAIN rGroups \/ (up /\ <<"dn", g>> \notin negative)

\* resolve_groups_for_principal: memberOf and the snapshot's member lists for
\* a user, the member lists alone for a machine.
resolve_groups_for_principal(p) ==
  {g \in DOMAIN rGroups : p \in rGroups[g]}
    \union (IF p \in Users THEN {g \in MemberOfNames(p) : Numbered(g)} ELSE {})

\* resolve_group_by_gid on each of gs: a live answer enters the snapshot with
\* no members, because the search does not ask for them.
FetchedByGid(gs) ==
  {g \in gs \ DOMAIN rGroups : up /\ <<"gid", g>> \notin negative}

\* What the lookups of p's groups gs leave in the resolver's caches.
RememberGroups(p, gs) ==
  LET user == p \in Users
      looked == user /\ p \notin DOMAIN rMember
      fetched == FetchedByGid(gs)
  IN /\ rMember' = IF user /\ MemberOfLive(p) THEN With(rMember, p, memberOf[p]) ELSE rMember
     /\ rGroups' = [g \in DOMAIN rGroups \union fetched |->
                      IF g \in DOMAIN rGroups THEN rGroups[g] ELSE {}]
     /\ negative' = negative
          \union {<<"mo", q>> : q \in IF looked /\ ~MemberOfLive(p) THEN {p} ELSE {}}
          \union {<<"dn", g>> : g \in IF user THEN {h \in MemberOfNames(p) : ~Numbered(h)} ELSE {}}
          \union {<<"gid", g>> : g \in (gs \ DOMAIN rGroups) \ fetched}
     /\ UNCHANGED rUsers

\* A remembered miss reaches NEGATIVE_TTL; while LDAP is down that changes no
\* answer, so the step waits for it.
ForgetMiss ==
  /\ alive /\ up
  /\ \E n \in negative : negative' = negative \ {n}
  /\ UNCHANGED <<ldapVars, rUsers, rGroups, rMember, cacheVars, storeVars, alive, todo, spent, held>>

-----------------------------------------------------------------------------
(***************************************************************************)
(* The stores.                                                             *)
(***************************************************************************)
\* Mutant: only the members LDAP lists.
build_nss_snapshot_ListedOnly(groups) ==
  [g \in Groups |-> IF g \in DOMAIN groups THEN groups[g] \intersect Users ELSE {}]

\* build_nss_snapshot: the members LDAP lists and everyone whose cache entry
\* claims the group.
build_nss_snapshot(groups) ==
  [g \in Groups |->
     (IF g \in DOMAIN groups THEN groups[g] \intersect Users ELSE {})
       \union {Login(p) : p \in {q \in DOMAIN cache : g \in cache[q]}}]

\* materialize_nss_wrappers_at: the content is built once, then the four files
\* are replaced one after the other, the unchanged ones left alone.
Outdated(rows) ==
  LET Passwd(d) == IF passwd[d] # DOMAIN cache THEN <<[kind |-> "passwd", dir |-> d]>> ELSE <<>>
      Group(d) == IF group[d] # rows THEN <<[kind |-> "group", dir |-> d]>> ELSE <<>>
  IN Passwd("nss") \o Group("nss") \o Passwd("extrausers") \o Group("extrausers")

Materialize ==
  /\ At("mat")
  /\ LET t == Head(todo)
         rows == build_nss_snapshot(IF t.fixed THEN t.groups ELSE rGroups)
         files == Outdated(rows)
     IN todo' = (IF files = <<>> THEN <<>>
                 ELSE <<[op |-> "write", files |-> files, rows |-> rows, strict |-> t.strict]>>)
                \o Tail(todo)
  /\ UNCHANGED <<ldapVars, resolverVars, cacheVars, storeVars, alive, spent, held>>

\* The rest of the rebulk, which ends with its "save", is given up.
AbandonRebulk(rest) ==
  LET end == CHOOSE i \in 1 .. Len(rest) :
               rest[i].op = "save" /\ \A j \in 1 .. i - 1 : rest[j].op # "save"
  IN SubSeq(rest, end + 1, Len(rest))

\* write_atomic_if_changed, one file.
WriteStore ==
  /\ At("write")
  /\ LET t == Head(todo)
         f == Head(t.files)
     IN /\ passwd' = IF f.kind = "passwd" THEN [passwd EXCEPT ![f.dir] = DOMAIN cache] ELSE passwd
        /\ group' = IF f.kind = "group" THEN [group EXCEPT ![f.dir] = t.rows] ELSE group
        /\ todo' = IF Len(t.files) = 1 THEN Tail(todo)
                   ELSE <<[t EXCEPT !.files = Tail(@)]>> \o Tail(todo)
  /\ UNCHANGED <<ldapVars, resolverVars, cacheVars, alive, spent, held>>

\* The write fails: the rebulk itself stops there, everyone else goes on.
WriteFails ==
  /\ At("write") /\ Spend("fail")
  /\ todo' = IF Head(todo).strict THEN AbandonRebulk(Tail(todo)) ELSE Tail(todo)
  /\ UNCHANGED <<ldapVars, resolverVars, cacheVars, storeVars, alive, held>>

\* ensure_nss_group_member_login for each group of p, nss_group first.
Missing(p, d) == {g \in cache[p] : Login(p) \notin group[d][g]}

EnsureMember ==
  /\ At("ensure")
  /\ LET p == Head(todo).p
     IN IF \A d \in Dirs : Missing(p, d) = {}
        THEN todo' = Tail(todo) /\ UNCHANGED group
        ELSE \E d \in Dirs : \E g \in Missing(p, d) :
               /\ d = "extrausers" => g \notin Missing(p, "nss")
               /\ group' = [group EXCEPT ![d][g] = @ \union {Login(p)}]
               /\ UNCHANGED todo
  /\ UNCHANGED <<ldapVars, resolverVars, cacheVars, passwd, alive, spent, held>>

\* The disk is full: the errors are ignored and the rows stay incomplete.
EnsureFails ==
  /\ At("ensure") /\ Spend("fail")
  /\ todo' = Tail(todo)
  /\ UNCHANGED <<ldapVars, resolverVars, cacheVars, storeVars, alive, held>>

-----------------------------------------------------------------------------
(***************************************************************************)
(* Resolving one principal.                                                *)
(***************************************************************************)
Mat(strict) == [op |-> "mat", strict |-> strict, fixed |-> FALSE, groups |-> Nothing]
MatOf(groups) == [op |-> "mat", strict |-> TRUE, fixed |-> TRUE, groups |-> groups]

\* compute_gids_for_resolved, with ensure_resolver_snapshot in front of it, and
\* what follows: the stores are rewritten when asked, the member rows always
\* repaired.
ServeGroups(p, fresh, rewrite) ==
  (IF DOMAIN rGroups = {} THEN load_full_identities ELSE <<>>)
    \o <<[op |-> "discover", p |-> p, fresh |-> fresh]>>
    \o (IF rewrite THEN <<Mat(FALSE)>> ELSE <<>>)
    \o <<[op |-> "ensure", p |-> p]>>

\* Mutant: the entry grows in memory only.
Discover_NotPersisted ==
  /\ At("discover")
  /\ LET p == Head(todo).p
         found == resolve_groups_for_principal(p)
     IN /\ RememberGroups(p, found)
        /\ cache' = [cache EXCEPT ![p] = found \union @]
  /\ todo' = Tail(todo)
  /\ UNCHANGED <<ldapVars, cacheFile, storeVars, alive, spent, held>>

\* write_to_file: idmap.cache is replaced, or the error is ignored.
Persist(entries) ==
  \/ cacheFile' = entries /\ UNCHANGED spent
  \/ Spend("fail") /\ UNCHANGED cacheFile

\* The groups found are added to the entry and the entry is persisted.  The
\* union with what the entry had is resolve_gids_and_materialize's; for a
\* machine compute_gids_for_resolved starts from it as well.
Discover ==
  /\ At("discover")
  /\ LET p == Head(todo).p
         found == resolve_groups_for_principal(p)
                    \union (IF p \in Machines THEN cache[p] ELSE {})
         gids == found \union cache[p]
     IN /\ RememberGroups(p, found)
        /\ cache' = [cache EXCEPT ![p] = gids]
        /\ IF Head(todo).fresh \/ gids # cache[p] THEN Persist(cache')
                                                 ELSE UNCHANGED <<cacheFile, spent>>
  /\ todo' = Tail(todo)
  /\ UNCHANGED <<ldapVars, storeVars, alive, held>>

\* The entry of a principal met for the first time.
Admit(p, rest) ==
  /\ cache' = With(cache, p, {})
  /\ todo' = ServeGroups(p, TRUE, TRUE) \o rest

\* resolve_via_nss for a user: getent, the stores themselves, then LDAP.
getent(u) == u \in sss \/ \E d \in Dirs : u \in passwd[d]
LdapKnows(u) == up /\ u \in dirUsers /\ <<"u", u>> \notin negative

\* An unknown name reloads the whole directory and is tried once more.
LookupUser ==
  /\ At("lookup")
  /\ LET u == Head(todo).p
     IN \/ /\ getent(u) \/ LdapKnows(u)
           /\ rUsers' = IF getent(u) THEN rUsers ELSE rUsers \union {u}
           /\ Admit(u, Tail(todo))
           /\ UNCHANGED negative
        \/ /\ ~getent(u) /\ ~LdapKnows(u)
           /\ negative' = negative \union {<<"u", u>>}
           /\ todo' = load_full_identities \o <<[op |-> "retry", p |-> u]>> \o Tail(todo)
           /\ UNCHANGED <<rUsers, cache>>
  /\ UNCHANGED <<ldapVars, rGroups, rMember, cacheFile, storeVars, alive, spent, held>>

\* Still unknown: fail closed, nothing is cached and nothing is written.
RetryUser ==
  /\ At("retry")
  /\ LET u == Head(todo).p
     IN \/ /\ LdapKnows(u)
           /\ rUsers' = rUsers \union {u}
           /\ Admit(u, Tail(todo))
           /\ UNCHANGED negative
        \/ /\ ~LdapKnows(u)
           /\ negative' = negative \union {<<"u", u>>}
           /\ todo' = <<>>
           /\ UNCHANGED <<rUsers, cache>>
  /\ UNCHANGED <<ldapVars, rGroups, rMember, cacheFile, storeVars, alive, spent, held>>

\* RESOLVE and GRPS on the socket.  A RESOLVE that hits the cache changes
\* nothing; a GRPS looks the groups up again whether it hits or not.
Request(p, verb) ==
  LET again == IF verb = "GRPS" THEN <<[op |-> "groups_again", p |-> p]>> ELSE <<>>
  IN /\ Idle /\ Spend("request")
     /\ \/ /\ p \in DOMAIN cache /\ verb = "GRPS"
           /\ todo' = ServeGroups(p, FALSE, FALSE)
           /\ UNCHANGED cache
        \/ /\ p \in Machines \ DOMAIN cache
           /\ Admit(p, again)
        \/ /\ p \in Users \ DOMAIN cache
           /\ todo' = <<[op |-> "lookup", p |-> p]>> \o again
           /\ UNCHANGED cache
     /\ UNCHANGED <<ldapVars, resolverVars, cacheFile, storeVars, alive, held>>

\* The GRPS whose principal was not in the cache computes the groups twice.
GroupsAgain ==
  /\ At("groups_again")
  /\ todo' = ServeGroups(Head(todo).p, FALSE, TRUE) \o Tail(todo)
  /\ UNCHANGED <<ldapVars, resolverVars, cacheVars, storeVars, alive, spent, held>>

-----------------------------------------------------------------------------
(***************************************************************************)
(* The rebulk, from the timer, from REBULK on the socket or at startup.    *)
(***************************************************************************)
rebulk_ldap_users ==
  load_full_identities \o <<[op |-> "loaded"], [op |-> "save", changed |-> FALSE]>>

Rebulk ==
  /\ Idle
  /\ todo' = rebulk_ldap_users /\ held' = Edges
  /\ UNCHANGED <<ldapVars, resolverVars, cacheVars, storeVars, alive, spent>>

\* No user loaded: keep what the stores have.
Loaded ==
  /\ At("loaded")
  /\ todo' = IF rUsers = {} THEN AbandonRebulk(Tail(todo))
             ELSE <<[op |-> "warm", left |-> rUsers, live |-> Nothing]>> \o Tail(todo)
  /\ UNCHANGED <<ldapVars, resolverVars, cacheVars, storeVars, alive, spent, held>>

\* warm_rebulk_group_cache, one user.
WarmUser ==
  /\ At("warm")
  /\ LET t == Head(todo)
     IN \E u \in t.left :
          LET gids == resolve_groups_for_principal(u)
          IN /\ RememberGroups(u, gids)
             /\ todo' = <<[t EXCEPT !.left = @ \ {u}, !.live = With(@, u, gids)]>> \o Tail(todo)
  /\ UNCHANGED <<ldapVars, cacheVars, storeVars, alive, spent, held>>

\* Mutant: the live memberOf edges are not folded in.
sync_user_cache_from_snapshot_BulkOnly(live) ==
  [p \in rUsers \union (DOMAIN cache \intersect Machines) |->
     IF p \in Machines THEN cache[p] ELSE {g \in DOMAIN rGroups : p \in rGroups[g]}]

\* Mutant: the groups an entry had are kept.
sync_user_cache_from_snapshot_KeepsSupps(live) ==
  [p \in rUsers \union (DOMAIN cache \intersect Machines) |->
     IF p \in Machines THEN cache[p]
     ELSE {g \in DOMAIN rGroups : p \in rGroups[g]}
            \union (IF p \in DOMAIN live THEN live[p] ELSE {})
            \union (IF p \in DOMAIN cache THEN cache[p] ELSE {})]

\* sync_user_cache_from_snapshot: machines stay, the users are reseeded from
\* the snapshot's member lists and the live memberOf edges and nothing else.
sync_user_cache_from_snapshot(live) ==
  [p \in rUsers \union (DOMAIN cache \intersect Machines) |->
     IF p \in Machines THEN cache[p]
     ELSE {g \in DOMAIN rGroups : p \in rGroups[g]}
            \union (IF p \in DOMAIN live THEN live[p] ELSE {})]

\* rebulk_apply_sync up to its first write; the two passes that rewrite the
\* stores use the snapshot taken here.
RebulkSync ==
  /\ At("warm") /\ Head(todo).left = {}
  /\ cache' = sync_user_cache_from_snapshot(Head(todo).live)
  /\ todo' = <<MatOf(rGroups), [op |-> "refresh_all"], MatOf(rGroups),
               [op |-> "save", changed |-> cache' # cache]>> \o Tail(Tail(todo))
  /\ UNCHANGED <<ldapVars, resolverVars, cacheFile, storeVars, alive, spent, held>>

\* refresh_supplemental_nss_for_cached_users: every entry, in any order.
RefreshAll ==
  /\ At("refresh_all")
  /\ todo' = <<[op |-> "refresh", left |-> DOMAIN cache]>> \o Tail(todo)
  /\ UNCHANGED <<ldapVars, resolverVars, cacheVars, storeVars, alive, spent, held>>

RefreshOne ==
  /\ At("refresh")
  /\ LET t == Head(todo)
     IN \/ t.left = {} /\ todo' = Tail(todo)
        \/ \E p \in t.left :
             todo' = ServeGroups(p, FALSE, TRUE)
                       \o <<[t EXCEPT !.left = @ \ {p}]>> \o Tail(todo)
  /\ UNCHANGED <<ldapVars, resolverVars, cacheVars, storeVars, alive, spent, held>>

SaveCache ==
  /\ At("save")
  /\ IF Head(todo).changed THEN Persist(cache) ELSE UNCHANGED <<cacheFile, spent>>
  /\ todo' = Tail(todo)
  /\ UNCHANGED <<ldapVars, resolverVars, cache, storeVars, alive, held>>

-----------------------------------------------------------------------------
(***************************************************************************)
(* The daemon's life, and the world around it.                             *)
(***************************************************************************)
\* run_daemon before it accepts: the persisted cache, a rebulk, the server's
\* own principals, and one more pass over the stores.
run_daemon ==
  rebulk_ldap_users \o <<[op |-> "preresolve", left |-> Servers], Mat(FALSE), [op |-> "refresh_all"]>>

Preresolve ==
  /\ At("preresolve")
  /\ LET t == Head(todo)
         rest == Tail(todo)
     IN \/ t.left = {} /\ todo' = rest /\ UNCHANGED cache
        \/ \E m \in t.left :
             LET after == <<[t EXCEPT !.left = @ \ {m}]>> \o rest
             IN IF m \in DOMAIN cache THEN todo' = after /\ UNCHANGED cache
                                      ELSE Admit(m, after)
  /\ UNCHANGED <<ldapVars, resolverVars, cacheFile, storeVars, alive, spent, held>>

\* The supervisor kills the daemon, at any point, and starts another.
Kill ==
  /\ alive /\ Spend("kill")
  /\ alive' = FALSE /\ todo' = <<>> /\ cache' = Nothing
  /\ rUsers' = {} /\ rGroups' = Nothing /\ rMember' = Nothing /\ negative' = {}
  /\ UNCHANGED <<ldapVars, cacheFile, storeVars, held>>

Start ==
  /\ ~alive
  /\ alive' = TRUE /\ cache' = cacheFile /\ todo' = run_daemon /\ held' = Edges
  /\ UNCHANGED <<ldapVars, resolverVars, cacheFile, storeVars, spent>>

\* The administrator edits the directory.
Edit(users, mem, mof) ==
  /\ Spend("edit")
  /\ dirUsers' = users /\ member' = mem /\ memberOf' = mof
  /\ held' = held \intersect Edges'
  /\ UNCHANGED <<up, sss, resolverVars, cacheVars, storeVars, alive, todo>>

Toggle(S, x) == IF x \in S THEN S \ {x} ELSE S \union {x}

EditMember == \E g \in Groups, p \in dirUsers \union Machines :
  Edit(dirUsers, [member EXCEPT ![g] = Toggle(@, p)], memberOf)
EditMemberOf == \E u \in dirUsers, g \in Groups :
  Edit(dirUsers, member, [memberOf EXCEPT ![u] = Toggle(@, g)])
AddUser == \E u \in Users \ dirUsers : Edit(dirUsers \union {u}, member, memberOf)
RemoveUser == \E u \in dirUsers :
  Edit(dirUsers \ {u}, [g \in Groups |-> member[g] \ {u}], [memberOf EXCEPT ![u] = {}])

Outage ==
  /\ up /\ Spend("outage") /\ up' = FALSE
  /\ UNCHANGED <<dirUsers, member, memberOf, sss, resolverVars, cacheVars, storeVars, alive, todo, held>>
Recover ==
  /\ ~up /\ up' = TRUE
  /\ UNCHANGED <<dirUsers, member, memberOf, sss, resolverVars, cacheVars, storeVars, alive, todo, spent, held>>

\* SSSD refreshes what it answers.
SssdSync ==
  /\ up /\ sss # dirUsers /\ sss' = dirUsers
  /\ UNCHANGED <<dirUsers, member, memberOf, up, resolverVars, cacheVars, storeVars, alive, todo, spent, held>>

Init ==
  /\ \E d \in Directories : dirUsers = d.users /\ member = d.member /\ memberOf = d.memberOf
  /\ up = TRUE /\ sss = dirUsers
  /\ rUsers = {} /\ rGroups = Nothing /\ rMember = Nothing /\ negative = {}
  /\ cache = Nothing /\ cacheFile = Nothing
  /\ passwd = [d \in Dirs |-> {}] /\ group = [d \in Dirs |-> [g \in Groups |-> {}]]
  /\ alive = FALSE /\ todo = <<>>
  /\ spent = [k \in Kinds |-> 0] /\ held = {}

Step ==
  \/ LoadUsers \/ LoadGroups \/ Materialize \/ WriteStore \/ EnsureMember
  \/ Discover \/ LookupUser \/ RetryUser \/ GroupsAgain
  \/ Loaded \/ WarmUser \/ RebulkSync \/ RefreshAll \/ RefreshOne \/ SaveCache \/ Preresolve

World ==
  \/ WriteFails \/ EnsureFails \/ ForgetMiss \/ Kill
  \/ EditMember \/ EditMemberOf \/ AddUser \/ RemoveUser
  \/ Outage \/ Recover \/ SssdSync

Next ==
  \/ Step \/ Rebulk \/ Start
  \/ \E p \in Principals, verb \in {"RESOLVE", "GRPS"} : Request(p, verb)
  \/ World

Spec == Init /\ [][Next]_vars

\* The daemon's thread runs, the rebulk timer fires, the supervisor respawns
\* the daemon, outages end and SSSD refreshes.
FairSpec ==
  Spec /\ WF_vars(Step) /\ WF_vars(Rebulk) /\ WF_vars(Start) /\ WF_vars(Recover) /\ WF_vars(SssdSync)

-----------------------------------------------------------------------------
(***************************************************************************)
(* Properties.                                                             *)
(***************************************************************************)
Partial(S, T) == UNION {[D -> T] : D \in SUBSET S}
Misses == ({"mo", "u"} \X Users) \union ({"dn", "gid"} \X Groups)

\* Type correctness of the directory, the caches and the stores.
TypeOK ==
  /\ dirUsers \subseteq Users /\ sss \subseteq Users /\ rUsers \subseteq Users
  /\ member \in [Groups -> SUBSET Principals] /\ memberOf \in [Users -> SUBSET Groups]
  /\ rGroups \in Partial(Groups, SUBSET Principals)
  /\ rMember \in Partial(Users, SUBSET Groups)
  /\ negative \subseteq Misses
  /\ cache \in Partial(Principals, SUBSET Groups)
  /\ cacheFile \in Partial(Principals, SUBSET Groups)
  /\ passwd \in [Dirs -> SUBSET Principals]
  /\ group \in [Dirs -> [Groups -> SUBSET Logins]]
  /\ alive \in BOOLEAN /\ up \in BOOLEAN
  /\ spent \in [Kinds -> Nat]
  /\ held \subseteq Users \X Groups \X {"member", "memberOf"}

NoWriteFailed == spent["fail"] = 0
NoOutage == spent["outage"] = 0

\* Between operations both pairs of stores show every cached principal and
\* every group its entry claims, whatever rewrote them last and from whatever
\* snapshot, as long as no write failed: rewrites "cannot drop runtime supps".
EntriesServed ==
  (Idle /\ NoWriteFailed) =>
     \A d \in Dirs, p \in DOMAIN cache :
       /\ p \in passwd[d]
       /\ \A g \in cache[p] : Login(p) \in group[d][g]

\* Between operations idmap.cache holds what the daemon's memory holds, so a
\* kill loses no discovered group and revives no deleted user, as long as no
\* write failed.
PersistedCache == (Idle /\ NoWriteFailed) => cacheFile = cache

\* A reader of the stores never sees a membership vanish that the directory
\* has held since before the last rebulk: no rewrite, in the middle of an
\* operation or at its end, shows a partial view.
KeepsHeld ==
  [][\A d \in Dirs, e \in held :
       e[1] \in group[d][e[2]] => e[1] \in group'[d][e[2]]]_vars

\* The same, outages excepted.
KeepsHeldWhileUp ==
  [][NoOutage' =>
       \A d \in Dirs, e \in held :
         e[1] \in group[d][e[2]] => e[1] \in group'[d][e[2]]]_vars

UsersAgree ==
  \A d \in Dirs :
    /\ passwd[d] \intersect Users = dirUsers
    /\ \A g \in Groups : group[d][g] \intersect Users = {e[1] : e \in {f \in Edges : f[2] = g}}

\* Once the directory stays as it is and answers, the stores come to hold
\* exactly its users and memberships and stay so through every later rebulk:
\* a grant arrives, a revoked membership and a deleted user go, after kills,
\* outages and failed writes alike.
UsersConverge == <>[](dirUsers # {} => UsersAgree)

\* A group that lists no machine any more stops counting root among its
\* members: "revocations land within a rebulk cycle".
MachineRevocationLands ==
  \A d \in Dirs, g \in Groups :
    [](([](member[g] \intersect Machines = {})) => <>("root" \notin group[d][g]))

=============================================================================
