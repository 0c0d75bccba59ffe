--------------------------- MODULE AclSharesProofs ---------------------------
(***************************************************************************)
(* Theorems about AclShares: the verdicts on the shares' filesystems and   *)
(* the loop that follows them, for any number of shares, every mount table,*)
(* and all lifetimes and intervals.                                        *)
(***************************************************************************)
EXTENDS AclShares, WellFoundedInduction, TLAPS

-----------------------------------------------------------------------------
(***************************************************************************)
(* A pass over the shares (Lookups) by induction on the shares it has      *)
(* looked up: there is no first share at which it goes wrong.              *)
(***************************************************************************)

\* A set of naturals has a least member.
LEMMA Least ==
  ASSUME NEW T, T \subseteq Nat, T # {}
  PROVE  \E n \in T : \A m \in T : n <= m
  <1>1. PICK n \in T : \A m \in T : ~(<<m, n>> \in OpToRel(<, Nat))
    BY WFMin, NatLessThanWellFounded
  <1>2. \A m \in T : ~(m < n)
    BY <1>1 DEF OpToRel
  <1>3. \A m \in T : n <= m
    BY <1>2
  <1> QED
    BY Zenon, <1>3

\* The shares that a pass has looked up.
PassResult(n, c, f, force, before) ==
  IF n = 0
  THEN {[c |-> c, out |-> [s \in Shares |-> "Inconclusive"]]}
  ELSE UNION {{[c |-> q.c, out |-> [r.out EXCEPT ![Order[n]] = q.v]] :
                 q \in verdict_cached(r.c, Order[n], f[Order[n]] = "off", force)} :
                r \in before}

PassUpTo(g, N, c, f, force) ==
  g = [n \in 0 .. N |-> PassResult(n, c, f, force, g[n - 1])]

\* The recursion of Lookups has a solution, up to any share.
LEMMA PassExists ==
  ASSUME NEW c, NEW f, NEW force, NEW N \in Nat
  PROVE  \E g : PassUpTo(g, N, c, f, force)
  <1> DEFINE T == {n \in Nat : ~\E g : PassUpTo(g, n, c, f, force)}
  <1> SUFFICES ASSUME T # {} PROVE FALSE
    OBVIOUS
  <1>1. PICK n \in T : \A m \in T : n <= m
    BY Least
  <1>2. n \in Nat
    BY <1>1
  <1>3. CASE n = 0
    <2> DEFINE g == [m \in 0 .. 0 |-> PassResult(0, c, f, force, {})]
    <2>1. \A x : PassResult(0, c, f, force, x) = PassResult(0, c, f, force, {})
      BY DEF PassResult
    <2>2. g = [m \in 0 .. 0 |-> PassResult(m, c, f, force, g[m - 1])]
      BY <2>1
    <2> QED
      BY <1>1, <1>3, <2>2 DEF PassUpTo
  <1>4. CASE n # 0
    <2>1. n - 1 \in Nat /\ n - 1 \notin T
      BY <1>1, <1>2, <1>4
    <2>2. PICK g : PassUpTo(g, n - 1, c, f, force)
      BY <2>1
    <2> DEFINE h == [m \in 0 .. n |-> IF m = n THEN PassResult(n, c, f, force, g[n - 1]) ELSE g[m]]
    <2>3. \A m \in 0 .. n - 1 : g[m] = PassResult(m, c, f, force, g[m - 1])
      BY <2>2 DEF PassUpTo
    <2>4. ASSUME NEW m \in 0 .. n PROVE h[m] = PassResult(m, c, f, force, h[m - 1])
      <3>1. CASE m = 0
        <4>1. \A x, y : PassResult(0, c, f, force, x) = PassResult(0, c, f, force, y)
          BY DEF PassResult
        <4>2. h[m] = g[0] /\ 0 \in 0 .. n - 1
          BY <1>2, <1>4, <3>1
        <4> QED
          BY <2>3, <3>1, <4>1, <4>2
      <3>2. CASE m # 0
        <4>1. m - 1 \in 0 .. n /\ m - 1 # n
          BY <1>2, <3>2
        <4>2. h[m - 1] = g[m - 1]
          BY <4>1
        <4>3. CASE m = n
          BY <4>2, <4>3
        <4>4. CASE m # n
          BY <1>2, <2>3, <4>2, <4>4
        <4> QED
          BY <4>3, <4>4
      <3> QED
        BY <3>1, <3>2
    <2>5. h = [m \in 0 .. n |-> PassResult(m, c, f, force, h[m - 1])]
      BY <2>4
    <2> QED
      BY <1>1, <2>5 DEF PassUpTo
  <1> QED
    BY <1>3, <1>4

\* Whatever every lookup keeps of the cache, a pass over the shares keeps.
LEMMA PassKeeps ==
  ASSUME NEW C, NEW c \in C, NEW f, NEW force,
         \A d \in C, s \in Shares : \A q \in verdict_cached(d, s, f[s] = "off", force) : q.c \in C
  PROVE  \A r \in Lookups(c, f, force) : r.c \in C
  <1> DEFINE N == Len(Order)
             Pass == CHOOSE g : g = [n \in 0 .. N |-> PassResult(n, c, f, force, g[n - 1])]
             T == {n \in 0 .. N : ~\A r \in Pass[n] : r.c \in C}
  <1>1. N \in Nat /\ \A n \in 1 .. N : Order[n] \in Shares
    BY AclAssumption
  <1>2. Lookups(c, f, force) = Pass[N]
    BY DEF Lookups, PassResult
  <1> HIDE DEF N
  <1>3. Pass = [n \in 0 .. N |-> PassResult(n, c, f, force, Pass[n - 1])]
    <2>1. \E g : PassUpTo(g, N, c, f, force)
      BY Zenon, <1>1, PassExists
    <2> QED
      BY Zenon, <2>1 DEF PassUpTo
  <1> HIDE DEF Pass
  <1>4. \A n \in 0 .. N : Pass[n] = PassResult(n, c, f, force, Pass[n - 1])
    BY <1>3
  <1> SUFFICES ASSUME T # {} PROVE FALSE
    BY <1>1, <1>2
  <1>5. PICK n \in T : \A m \in T : n <= m
    <2>1. T \subseteq Nat
      BY <1>1
    <2> HIDE DEF T
    <2> QED
      BY Zenon, <2>1, Least
  <1>6. n \in 0 .. N /\ n \in Nat
    BY <1>1, <1>5
  <1>7. PICK r \in Pass[n] : r.c \notin C
    BY <1>5
  <1>8. r \in PassResult(n, c, f, force, Pass[n - 1])
    BY <1>4, <1>6, <1>7
  <1>9. n # 0
    BY <1>7, <1>8 DEF PassResult
  <1>10. n - 1 \in 0 .. N /\ n - 1 \notin T /\ n \in 1 .. N
    BY <1>1, <1>5, <1>6, <1>9
  <1> DEFINE s == Order[n]
  <1>11. PICK p \in Pass[n - 1] :
           \E q \in verdict_cached(p.c, s, f[s] = "off", force) : r.c = q.c
    BY <1>8, <1>9 DEF PassResult
  <1>12. p.c \in C /\ s \in Shares
    BY <1>1, <1>10, <1>11
  <1> QED
    <2>1. PICK q \in verdict_cached(p.c, s, f[s] = "off", force) : r.c = q.c
      BY <1>11
    <2> HIDE DEF s
    <2>2. q.c \in C
      BY Zenon, <1>12, <2>1
    <2> QED
      BY <1>7, <2>1, <2>2

-----------------------------------------------------------------------------
(***************************************************************************)
(* The verdict cache.                                                      *)
(***************************************************************************)

FsTypes == {"ext4", "fuse", "vfat"}
MountLine == [point : Points, fstype : FsTypes, noacl : BOOLEAN]
Entries ==
  [verdict : Verdicts, fstype : FsTypes, noacl : BOOLEAN, dir : Shares, age : 0 .. Ttl]

\* What a probe finds on a capable mount of a type: w is whether a network
\* filesystem stores ACLs, b whether the probe is blind.
Found(fstype, w, b) ==
  IF fstype = "ext4" \/ (fstype = "fuse" /\ w)
  THEN IF b THEN {"Inconclusive"} ELSE {"Capable"}
  ELSE IF b THEN {"Incapable", "Inconclusive"} ELSE {"Incapable"}

(***************************************************************************)
(* The inductive invariant.  SurfacesCatchUp says nothing of a verdict     *)
(* that is not asked for, nor of one that is younger than the last hidden  *)
(* change: an entry of the cache is what a probe finds today, or it is at  *)
(* least as old as the last change that stage A cannot see.                *)
(***************************************************************************)
Current(e, w, b, q) == e.age >= q \/ e.verdict \in Found(e.fstype, w, e.dir \in b)
Caches(w, b, q) ==
  {c \in [Points -> Entries \union {NoEntry}] :
     \A p \in Points : c[p] # NoEntry => Current(c[p], w, b, q)}

VerdictInv ==
  /\ mounts \in Seq(MountLine) /\ mounts # <<>>
  /\ conf \in [Shares -> Modes] /\ remote \in BOOLEAN
  /\ quiet \in 0 .. Ttl
  /\ cache \in Caches(remote, blind, quiet)

\* What mountinfo says of a share.
LEMMA CapsKnown ==
  ASSUME mounts \in Seq(MountLine), NEW s
  PROVE  \/ Caps(s) = UnknownCaps
         \/ /\ Caps(s).root \in Points /\ Caps(s).fstype \in FsTypes /\ Caps(s).noacl \in BOOLEAN
            /\ Caps(s).acl_capable \in BOOLEAN
  <1> DEFINE hit == resolve_mount_for_path(mounts, ServePath[s])
             i == CHOOSE i \in hit : TRUE
             e == mounts[i]
  <1>1. CASE hit = {}
    BY <1>1 DEF Caps, probe_with_root
  <1>2. CASE hit # {}
    <2>1. i \in hit
      BY <1>2
    <2>2. i \in DOMAIN mounts
      BY <2>1 DEF resolve_mount_for_path
    <2> HIDE DEF i
    <2>3. e \in MountLine
      BY <2>2
    <2>4. Caps(s) = [fstype |-> e.fstype, noacl |-> e.noacl,
                     acl_capable |-> acl_capable_from_mount(e), root |-> e.point]
      BY <1>2 DEF Caps, probe_with_root, i
    <2> HIDE DEF e
    <2> QED
      BY <2>3, <2>4 DEF MountLine, acl_capable_from_mount
  <1> QED
    BY <1>1, <1>2

\* The probe of a capable mount.
LEMMA ProbeFinds ==
  ASSUME NEW caps, caps.acl_capable, NEW b
  PROVE  acl_probe_verdict(caps, Stores(caps), b) = Found(caps.fstype, remote, b)
  <1>1. CASE Stores(caps) /\ b
    BY <1>1 DEF acl_probe_verdict, write_probe_round_trip, serve_path_posix_acl_supported,
                Stores, Found
  <1>2. CASE ~Stores(caps) /\ b
    BY <1>2 DEF acl_probe_verdict, write_probe_round_trip, serve_path_posix_acl_supported,
                Stores, Found
  <1>3. CASE ~b
    BY <1>3 DEF acl_probe_verdict, write_probe_round_trip, Stores, Found
  <1> QED
    BY <1>1, <1>2, <1>3

\* The cache stays what it is, whatever is looked up.
LEMMA LookupKeeps ==
  ASSUME VerdictInv, NEW c \in Caches(remote, blind, quiet), NEW s \in Shares,
         NEW skip, NEW force, NEW q \in verdict_cached(c, s, skip, force)
  PROVE  q.c \in Caches(remote, blind, quiet)
  <1> DEFINE caps == Caps(s)
  <1>1. q.c = c \/ (/\ caps.fstype # "unknown" /\ caps.acl_capable
                    /\ \E v \in acl_probe_verdict(caps, Stores(caps), s \in blind) :
                         q.c = store(c, caps, s, v))
    BY DEF verdict_cached
  <1>2. CASE q.c = c
    BY <1>2
  <1>3. ASSUME caps.fstype # "unknown", caps.acl_capable,
               NEW v \in acl_probe_verdict(caps, Stores(caps), s \in blind),
               q.c = store(c, caps, s, v)
        PROVE  q.c \in Caches(remote, blind, quiet)
    <2>1. caps.root \in Points /\ caps.fstype \in FsTypes /\ caps.noacl \in BOOLEAN
      BY <1>3, CapsKnown DEF VerdictInv, UnknownCaps
    <2> HIDE DEF caps
    <2>2. v \in Found(caps.fstype, remote, s \in blind)
      <3>1. acl_probe_verdict(caps, Stores(caps), s \in blind) = Found(caps.fstype, remote, s \in blind)
        BY Zenon, <1>3, ProbeFinds
      <3> QED
        BY Zenon, <1>3, <3>1
    <2>3. v \in Verdicts
      BY <2>2 DEF Found, Verdicts
    <2> DEFINE e == [verdict |-> v, fstype |-> caps.fstype, noacl |-> caps.noacl,
                     dir |-> s, age |-> 0]
    <2>4. 0 \in 0 .. Ttl
      BY AclAssumption
    <2>5. e \in Entries
      BY Zenon, <2>1, <2>3, <2>4 DEF Entries
    <2>6. Current(e, remote, blind, quiet)
      BY <2>2 DEF Current
    <2>7. q.c = [c EXCEPT ![caps.root] = e]
      BY <1>3 DEF store
    <2> HIDE DEF e
    <2> QED
      BY <2>1, <2>5, <2>6, <2>7 DEF Caches
  <1> QED
    BY <1>1, <1>2, <1>3

\* A pass over the shares leaves a cache that holds what a probe finds.
LEMMA LookupsKeep ==
  ASSUME VerdictInv, NEW c \in Caches(remote, blind, quiet), NEW f, NEW force,
         NEW r \in Lookups(c, f, force)
  PROVE  r.c \in Caches(remote, blind, quiet)
  <1> DEFINE C == Caches(remote, blind, quiet)
  <1>1. \A d \in C, s \in Shares : \A q \in verdict_cached(d, s, f[s] = "off", force) : q.c \in C
    BY LookupKeeps
  <1> HIDE DEF C
  <1>2. c \in C
    BY DEF C
  <1>3. r.c \in C
    BY Zenon, <1>1, <1>2, PassKeeps
  <1> QED
    BY <1>3 DEF C

\* An empty cache claims nothing.
LEMMA Emptied == ASSUME NEW w, NEW b, NEW q PROVE invalidate_all \in Caches(w, b, q)
  BY DEF invalidate_all, Caches

\* Time ages the entries and the last change alike.
LEMMA ClockAges == ASSUME VerdictInv, Clock PROVE cache' \in Caches(remote, blind, quiet')
  <1>1. cache \in [Points -> Entries \union {NoEntry}]
    BY DEF VerdictInv, Caches
  <1>2. Ttl \in Nat /\ quiet \in 0 .. Ttl /\ quiet' = Older(quiet, Ttl)
    BY AclAssumption DEF VerdictInv, Clock
  <1>3. ASSUME NEW p \in Points, cache[p] # NoEntry
        PROVE  cache'[p] \in Entries /\ Current(cache'[p], remote, blind, quiet')
    <2> DEFINE e == cache[p]
               old == Older(e.age, Ttl)
    <2>1. e \in Entries /\ Current(e, remote, blind, quiet)
      BY <1>1, <1>3 DEF VerdictInv, Caches
    <2>2. cache'[p] = [e EXCEPT !.age = old]
      BY <1>3 DEF Clock
    <2> HIDE DEF e
    <2>3. e.age \in 0 .. Ttl
      BY <2>1 DEF Entries
    <2>4. old \in 0 .. Ttl /\ (e.age >= quiet => old >= quiet')
      BY <1>2, <2>3 DEF Older
    <2> HIDE DEF old
    <2>5. cache'[p] \in Entries
      BY Zenon, <2>1, <2>2, <2>4 DEF Entries
    <2>6. /\ cache'[p].age = old /\ cache'[p].verdict = e.verdict
          /\ cache'[p].fstype = e.fstype /\ cache'[p].dir = e.dir
      BY <2>1, <2>2 DEF Entries
    <2> QED
      BY <2>1, <2>4, <2>5, <2>6 DEF Current
  <1>4. ASSUME NEW p \in Points, cache[p] = NoEntry PROVE cache'[p] = NoEntry
    BY <1>4 DEF Clock
  <1>5. cache' = [p \in Points |-> cache'[p]]
    BY DEF Clock
  <1>6. \A p \in Points : cache'[p] \in Entries \union {NoEntry}
    BY <1>3, <1>4
  <1>7. \A p \in Points : cache'[p] # NoEntry => Current(cache'[p], remote, blind, quiet')
    BY <1>3, <1>4
  <1>8. cache' \in [Points -> Entries \union {NoEntry}]
    BY <1>5, <1>6
  <1> QED
    BY <1>7, <1>8 DEF Caches

\* Every step keeps the verdicts current.
LEMMA VerdictStep == VerdictInv /\ [Next]_vars => VerdictInv'
  <1> SUFFICES ASSUME VerdictInv, [Next]_vars PROVE VerdictInv'
    OBVIOUS
  <1> DEFINE C == Caches(remote, blind, quiet)
             Same == UNCHANGED <<mounts, conf, remote, blind, quiet>>
  <1>1. /\ mounts \in Seq(MountLine) /\ mounts # <<>>
        /\ conf \in [Shares -> Modes] /\ remote \in BOOLEAN
        /\ quiet \in 0 .. Ttl /\ cache \in C /\ invalidate_all \in C
    BY Emptied DEF VerdictInv
  <1>2. ASSUME Same, cache' \in C PROVE VerdictInv'
    BY <1>1, <1>2 DEF VerdictInv
  <1>3. ASSUME Mount PROVE VerdictInv'
    <2>1. mounts' \in Seq(MountLine) /\ mounts' # <<>>
      <3>1. \A e \in MountEntry : e \in MountLine
        BY DEF MountEntry, MountLine, FsTypes
      <3>2. CASE \E e \in MountEntry : mounts' = Append(mounts, e)
        BY <1>1, <3>1, <3>2
      <3>3. CASE Len(mounts) > 1 /\ mounts' = SubSeq(mounts, 1, Len(mounts) - 1)
        <4>1. Len(mounts) \in Nat /\ \A i \in 1 .. Len(mounts) : mounts[i] \in MountLine
          BY <1>1
        <4>2. mounts' = [i \in 1 .. Len(mounts) - 1 |-> mounts[i]]
          BY <3>3, <4>1
        <4>3. mounts' \in Seq(MountLine)
          BY <3>3, <4>1, <4>2
        <4>4. 1 \in DOMAIN mounts'
          BY <3>3, <4>1, <4>2
        <4> QED
          BY <4>3, <4>4
      <3> QED
        BY <1>3, <3>2, <3>3 DEF Mount
    <2>2. UNCHANGED <<conf, remote, blind, quiet, cache>>
      BY <1>3 DEF Mount, Outside
    <2> QED
      BY <1>1, <2>1, <2>2 DEF VerdictInv
  <1>4. ASSUME Switch \/ Blind PROVE VerdictInv'
    <2>1. quiet' = 0 /\ UNCHANGED <<mounts, conf, cache>> /\ remote' \in BOOLEAN
      BY <1>1, <1>4 DEF Switch, Blind, Outside
    <2>2. cache \in Caches(remote', blind', 0)
      <3>1. cache \in [Points -> Entries \union {NoEntry}]
        BY <1>1 DEF Caches
      <3>2. ASSUME NEW p \in Points, cache[p] # NoEntry PROVE cache[p].age >= 0
        <4>1. cache[p] \in Entries
          BY <3>1, <3>2
        <4> QED
          BY <4>1, AclAssumption DEF Entries
      <3> QED
        BY <3>1, <3>2 DEF Caches, Current
    <2>3. 0 \in 0 .. Ttl
      BY AclAssumption
    <2> QED
      BY <1>1, <2>1, <2>2, <2>3 DEF VerdictInv
  <1>5. ASSUME Clock PROVE VerdictInv'
    <2>1. UNCHANGED <<mounts, conf, remote, blind>> /\ quiet' = Older(quiet, Ttl)
      BY <1>5 DEF Clock, world
    <2>2. quiet' \in 0 .. Ttl
      BY <1>1, <2>1, AclAssumption DEF Older
    <2>3. cache' \in Caches(remote, blind, quiet')
      BY <1>5, ClockAges
    <2> QED
      BY <1>1, <2>1, <2>2, <2>3 DEF VerdictInv
  <1>6. ASSUME TickSkipped \/ TickSchedules \/ LoopDies \/ Recycle \/ Undelivered PROVE VerdictInv'
    <2>1. Same /\ cache' = cache
      BY <1>6 DEF TickSkipped, TickSchedules, LoopDies, Recycle, Undelivered, world
    <2> QED
      BY <1>1, <1>2, <2>1
  <1>7. ASSUME TickProbes \/ Show \/ settings_reprobe_filesystems PROVE VerdictInv'
    <2>1. Same
      BY <1>7 DEF TickProbes, Show, settings_reprobe_filesystems, world
    <2>2. PICK c \in C, force \in BOOLEAN : \E r \in Lookups(c, conf, force) : cache' = r.c
      BY <1>1, <1>7 DEF TickProbes, Show, settings_reprobe_filesystems
    <2>3. cache' \in C
      BY <2>2, LookupsKeep
    <2> QED
      BY <1>2, <2>1, <2>3
  <1>8. ASSUME WebuiRestarts PROVE VerdictInv'
    <2>1. Same /\ cache' = invalidate_all
      BY <1>8 DEF WebuiRestarts, world
    <2> QED
      BY <1>1, <1>2, <2>1
  <1>9. ASSUME settings_save_shares PROVE VerdictInv'
    <2> DEFINE gate(f) == [s \in Shares |-> IF f[s] = "on" THEN "on" ELSE "off"]
    <2>1. UNCHANGED <<mounts, remote, blind, quiet>>
      BY <1>9 DEF settings_save_shares, world
    <2>2. PICK f \in Confs : \E g \in Lookups(cache, gate(f), TRUE) :
            \/ /\ \E r \in Lookups(g.c, conf, FALSE) : cache' = r.c
               /\ conf' = conf
            \/ /\ conf' = f
               /\ \E r \in Lookups(invalidate_all, f, FALSE) : cache' = r.c
      BY <1>9 DEF settings_save_shares
    <2>3. PICK g \in Lookups(cache, gate(f), TRUE) :
            \/ /\ \E r \in Lookups(g.c, conf, FALSE) : cache' = r.c
               /\ conf' = conf
            \/ /\ conf' = f
               /\ \E r \in Lookups(invalidate_all, f, FALSE) : cache' = r.c
      BY <2>2
    <2>4. g.c \in C
      BY <1>1, <2>3, LookupsKeep
    <2>5. cache' \in C
      BY <1>1, <2>3, <2>4, LookupsKeep
    <2>6. conf' \in [Shares -> Modes]
      BY <1>1, <2>3, AclAssumption
    <2> QED
      BY <1>1, <2>1, <2>5, <2>6 DEF VerdictInv
  <1>10. CASE UNCHANGED vars
    BY <1>1, <1>2, <1>10 DEF vars, world
  <1> QED
    BY <1>3, <1>4, <1>5, <1>6, <1>7, <1>8, <1>9, <1>10 DEF Next

\* The verdicts are current in every reachable state.
LEMMA VerdictInvariance == Spec => []VerdictInv
  <1>1. Init => VerdictInv
    <2> SUFFICES ASSUME Init PROVE VerdictInv
      OBVIOUS
    <2>1. mounts \in Seq(MountLine) /\ mounts # <<>>
      <3>1. Ext4Root \in MountLine
        BY AclAssumption DEF Ext4Root, MountLine, FsTypes
      <3> QED
        BY <3>1 DEF Init
    <2>2. conf \in [Shares -> Modes] /\ remote \in BOOLEAN /\ quiet \in 0 .. Ttl
      BY AclAssumption DEF Init
    <2> QED
      BY <2>1, <2>2, Emptied DEF Init, VerdictInv
  <1> QED
    BY <1>1, VerdictStep, PTL DEF Spec

\* A verdict that is not older than its lifetime is one of the mount, when
\* nothing hidden has changed for as long.
LEMMA AnsweredOnMount ==
  ASSUME VerdictInv, quiet >= Ttl, NEW s \in Shares, Caps(s).acl_capable, NEW a \in Answers(s)
  PROVE  a \in OnMount(s)
  <1> DEFINE caps == Caps(s)
             e == cache[caps.root]
  <1>1. CASE conf[s] = "off"
    <2>1. a = verdict_from_caps(caps) \/ (caps.fstype = "unknown" /\ a = "Inconclusive")
      BY <1>1 DEF Answers, verdict_cached
    <2> QED
      BY <1>1, <2>1 DEF OnMount, verdict_from_caps
  <1>2. CASE conf[s] # "off" /\ a \in acl_probe_verdict(caps, Stores(caps), s \in blind)
    BY <1>2 DEF OnMount, Verdict
  <1>3. ASSUME conf[s] # "off", caps.fstype # "unknown", cached_hit(cache, caps, s), a = e.verdict
        PROVE  a \in OnMount(s)
    <2>1. caps.root \in Points
      BY <1>3, CapsKnown DEF VerdictInv, UnknownCaps
    <2>2. e # NoEntry /\ e.fstype = caps.fstype /\ (e.verdict = "Inconclusive" => e.dir = s)
            /\ e.age < ttl_for(e.verdict)
      BY <1>3 DEF cached_hit
    <2>3. e \in Entries /\ Current(e, remote, blind, quiet)
      BY <2>1, <2>2 DEF VerdictInv, Caches
    <2> HIDE DEF e
    <2>4. ~(e.age >= quiet)
      BY <2>2, <2>3, AclAssumption DEF ttl_for, Entries, VerdictInv
    <2>5. e.verdict \in Found(caps.fstype, remote, e.dir \in blind)
      BY <2>2, <2>3, <2>4 DEF Current
    <2>6. e.verdict \in Found(caps.fstype, remote, s \in blind) \union Found(caps.fstype, remote, FALSE)
      BY <2>2, <2>5 DEF Found
    <2>7. /\ acl_probe_verdict(caps, Stores(caps), s \in blind) = Found(caps.fstype, remote, s \in blind)
          /\ acl_probe_verdict(caps, Stores(caps), FALSE) = Found(caps.fstype, remote, FALSE)
      BY Zenon, ProbeFinds
    <2> HIDE DEF caps
    <2> QED
      BY <1>3, <2>6, <2>7 DEF OnMount, Verdict, caps
  <1>4. caps.fstype # "unknown"
    BY CapsKnown DEF VerdictInv, UnknownCaps, FsTypes
  <1> QED
    BY <1>1, <1>2, <1>3, <1>4 DEF Answers, verdict_cached

\* What the surfaces show never falls behind the mounts for longer than a
\* lifetime of a verdict (verdict_cached of acl_capability.rs, and
\* write_export_fragments of generate/fragments.rs).
THEOREM SurfacesAgree == Spec => []SurfacesCatchUp
  <1>1. VerdictInv => SurfacesCatchUp
    <2> SUFFICES ASSUME VerdictInv, quiet >= Ttl, NEW s \in Shares, NEW a \in Answers(s),
                        ~(conf[s] = "on" /\ "Incapable" \in OnMount(s))
                 PROVE  LET shown == share_acl_status(s, a)
                        IN \E v \in OnMount(s) :
                             /\ shown.label = share_acl_state_label(conf[s], v)
                             /\ shown.acl = Export(s, v).acl
                             /\ conf[s] = "auto" => (shown.warning = "limited"
                                                       <=> Export(s, v).comment = "auto-detected")
      BY DEF SurfacesCatchUp
    <2>1. conf[s] \in Modes /\ mounts # <<>>
      BY DEF VerdictInv
    <2>2. CASE Caps(s).acl_capable
      <3>1. a \in OnMount(s)
        BY <2>2, AnsweredOnMount
      <3>2. share_acl_status(s, a).label = share_acl_state_label(conf[s], a)
        BY DEF share_acl_status
      <3>3. share_acl_status(s, a).acl = Export(s, a).acl
        BY <2>1, <2>2 DEF share_acl_status, Export, compute_effective_flags_probed,
                          export_fs_directives, Modes
      <3>4. share_acl_status(s, a).warning # "limited" /\ Export(s, a).comment # "auto-detected"
        BY <2>1, <2>2 DEF share_acl_status, Export, compute_effective_flags_probed, Caps,
                          export_fs_directives, share_fs_warning
      <3> QED
        BY <3>1, <3>2, <3>3, <3>4
    <2>3. CASE ~Caps(s).acl_capable
      <3>1. "Incapable" \in OnMount(s)
        BY <2>3 DEF OnMount, Verdict, verdict_from_caps, acl_probe_verdict
      <3>2. conf[s] \in {"auto", "off"} /\ a \in {"Incapable", "Inconclusive"}
        BY <2>1, <2>3, <3>1 DEF Modes, Answers, verdict_cached
      <3>3. share_acl_status(s, a).label = share_acl_state_label(conf[s], "Incapable")
        BY <3>2 DEF share_acl_status, share_acl_state_label
      <3>4. share_acl_status(s, a).acl = Export(s, "Incapable").acl
        BY <2>3, <3>2 DEF share_acl_status, Export, compute_effective_flags_probed,
                          export_fs_directives
      <3>5. conf[s] = "auto" => /\ share_acl_status(s, a).warning = "limited"
                                /\ Export(s, "Incapable").comment = "auto-detected"
        <4>1. \A x : share_fs_warning(mounts, ServePath[s], x) = "limited"
          BY <2>1, <2>3 DEF share_fs_warning, Caps
        <4>2. share_acl_status(s, a).warning = "limited"
          BY <4>1 DEF share_acl_status
        <4>3. conf[s] = "auto" => Export(s, "Incapable").comment = "auto-detected"
          BY <2>3 DEF Export, compute_effective_flags_probed, export_fs_directives
        <4> QED
          BY <4>2, <4>3
      <3> QED
        BY <3>1, <3>3, <3>4, <3>5
    <2> QED
      BY <2>2, <2>3
  <1> QED
    BY <1>1, VerdictInvariance, PTL

-----------------------------------------------------------------------------
(***************************************************************************)
(* The rate of the loop.                                                   *)
(***************************************************************************)

AutoStates == [baseline : BOOLEAN, last : BOOLEAN, streak : 0 .. FLIP_STREAK] \union {NoState}

\* What has passed since the loop scheduled, when a share that started anew
\* after it is in state st at the beginning of an interval: the loop died at the
\* end of one, and every state takes another tick.
Waited(st) ==
  IF st = NoState THEN Interval
  ELSE IF st.last = st.baseline THEN Interval + Interval
  ELSE IF st.streak < FLIP_STREAK THEN Interval + Interval + Interval
  ELSE Interval + Interval + Interval + Interval

(***************************************************************************)
(* The inductive invariant.  The loop remembers when it scheduled, or the  *)
(* gap has passed, or it has died since and its shares have to be seen     *)
(* again as often as it takes.                                             *)
(***************************************************************************)
FlapInv ==
  /\ clock \in 0 .. Interval /\ sinceHup \in 0 .. Gap /\ hupAge \in 0 .. Gap
  /\ auto \in [Shares -> AutoStates]
  /\ sinceHup >= clock \/ sinceHup >= Gap
  /\ pc = "schedule" => clock = 0 /\ \E s \in Shares : Flipped(auto[s])
  /\ \/ hupAge = sinceHup \/ sinceHup >= Gap
     \/ \A s \in Shares : sinceHup >= Waited(auto[s]) + clock

\* A tick takes a share one state further at most.
LEMMA TickWaits ==
  ASSUME NEW st \in AutoStates, NEW current \in BOOLEAN
  PROVE  /\ track_auto_flip(st, current) \in AutoStates
         /\ Waited(track_auto_flip(st, current)) <= Waited(st) + Interval
  <1> DEFINE Known == [baseline : BOOLEAN, last : BOOLEAN, streak : 0 .. 2]
             Rec(b, l, k) == [baseline |-> b, last |-> l, streak |-> k]
  <1>1. Interval \in Nat
    BY AclAssumption
  <1>2. AutoStates = Known \union {NoState}
    BY DEF AutoStates, FLIP_STREAK
  <1>3. ASSUME NEW b \in BOOLEAN, NEW l \in BOOLEAN, NEW k \in 0 .. 2
        PROVE  /\ Rec(b, l, k) \in Known /\ Rec(b, l, k) # NoState
               /\ Rec(b, l, k).baseline = b /\ Rec(b, l, k).last = l /\ Rec(b, l, k).streak = k
    <2>1. Rec(b, l, k) # NoState
      <3>1. "last" \in DOMAIN Rec(b, l, k) /\ "last" \notin DOMAIN NoState
        BY DEF NoState
      <3> QED
        BY <3>1
    <2> QED
      BY <2>1
  <1>4. ASSUME NEW b \in BOOLEAN, NEW l \in BOOLEAN, NEW k \in 0 .. 2
        PROVE  Waited(Rec(b, l, k)) = IF l = b THEN Interval + Interval
                                      ELSE IF k < 2 THEN Interval + Interval + Interval
                                      ELSE Interval + Interval + Interval + Interval
    <2> HIDE DEF Rec
    <2> QED
      BY <1>3 DEF Waited, FLIP_STREAK
  <1>5. CASE st = NoState
    <2>1. track_auto_flip(st, current) = Rec(current, current, 1)
      <3>1. track_auto_flip(st, current) = [Rec(current, current, 0) EXCEPT !.streak = 1]
        BY <1>5, 0 + 1 = 1, 0 < 2 DEF track_auto_flip, FLIP_STREAK
      <3> QED
        BY <3>1
    <2>2. Waited(st) = Interval
      BY <1>5 DEF Waited
    <2> HIDE DEF Rec
    <2> QED
      BY <1>1, <1>2, <1>3, <1>4, <2>1, <2>2
  <1>6. CASE st # NoState
    <2>1. PICK b \in BOOLEAN, l \in BOOLEAN, k \in 0 .. 2 : st = Rec(b, l, k)
      <3>1. st \in Known
        BY <1>2, <1>6
      <3>2. st = Rec(st.baseline, st.last, st.streak)
        BY <3>1
      <3> QED
        BY <3>1, <3>2
    <2>2. st.last = l /\ st.streak = k
      BY <2>1
    <2>3. CASE current = l
      <3> DEFINE next == IF k < 2 THEN k + 1 ELSE 2
      <3>1. track_auto_flip(st, current) = [st EXCEPT !.streak = next]
        BY <1>6, <2>2, <2>3 DEF track_auto_flip, FLIP_STREAK
      <3>2. track_auto_flip(st, current) = Rec(b, l, next)
        BY <2>1, <3>1
      <3>3. next \in 0 .. 2 /\ (k = 2 => next = 2) /\ (next = 2 => k >= 1)
        OBVIOUS
      <3> HIDE DEF Rec, next
      <3> QED
        BY <1>1, <1>2, <1>3, <1>4, <2>1, <3>2, <3>3
    <2>4. CASE current # l
      <3>1. track_auto_flip(st, current) = [st EXCEPT !.streak = 1, !.last = current]
        BY <1>6, <2>2, <2>4 DEF track_auto_flip
      <3>2. track_auto_flip(st, current) = Rec(b, current, 1)
        BY <2>1, <3>1
      <3> HIDE DEF Rec
      <3> QED
        BY <1>1, <1>2, <1>3, <1>4, <2>1, <3>2
    <2> QED
      BY <2>3, <2>4
  <1> QED
    BY <1>5, <1>6

\* The loop's own step, and the steps that leave the loop alone.
LEMMA FlapStep ==
  ASSUME FlapInv, [Next]_vars, Gap <= Interval + Interval + Interval + Interval
  PROVE  FlapInv' /\ (sinceHup # 0 /\ sinceHup' = 0 => sinceHup >= Gap)
  <1> DEFINE loop == <<clock, sinceHup, hupAge, auto, pc>>
             Bounded == sinceHup # 0 /\ sinceHup' = 0 => sinceHup >= Gap
  <1>1. Interval \in Nat /\ Gap \in Nat /\ 0 < Interval /\ Interval < Gap
    BY AclAssumption
  <1>2. ASSUME UNCHANGED loop PROVE FlapInv' /\ Bounded
    BY <1>2 DEF FlapInv
  <1>3. ASSUME Clock PROVE FlapInv' /\ Bounded
    <2>1. /\ pc = "idle" /\ clock' = clock + 1 /\ clock < Interval
          /\ hupAge' = Older(hupAge, Gap) /\ sinceHup' = Older(sinceHup, Gap)
          /\ UNCHANGED <<auto, pc>>
      BY <1>3 DEF Clock
    <2>2. \A s \in Shares : Waited(auto[s]) \in Nat
      BY <1>1 DEF Waited
    <2> QED
      BY <1>1, <2>1, <2>2 DEF FlapInv, Older
  <1>4. ASSUME TickSkipped PROVE FlapInv' /\ Bounded
    <2>1. pc = "idle" /\ clock' = 0 /\ UNCHANGED <<sinceHup, hupAge, auto, pc>>
      BY <1>4 DEF TickSkipped, tracker
    <2>2. \A s \in Shares : Waited(auto[s]) \in Nat
      BY <1>1 DEF Waited
    <2> QED
      BY <1>1, <2>1, <2>2 DEF FlapInv
  <1>5. ASSUME TickProbes PROVE FlapInv' /\ Bounded
    <2>1. /\ pc = "idle" /\ clock = Interval /\ clock' = 0 /\ UNCHANGED <<sinceHup, hupAge>>
          /\ pc' = "schedule" => \E s \in Shares : Flipped(auto'[s])
      BY <1>5 DEF TickProbes
    <2>2. PICK cur : /\ \A s \in Shares : cur[s] \in BOOLEAN
                     /\ auto' = [s \in Shares |-> IF conf[s] = "auto"
                                                  THEN track_auto_flip(auto[s], cur[s]) ELSE auto[s]]
      <3>1. PICK r \in Lookups(cache, conf, TRUE) :
              auto' = [s \in Shares |-> IF conf[s] = "auto"
                                        THEN track_auto_flip(auto[s], r.out[s] = "Capable")
                                        ELSE auto[s]]
        BY <1>5 DEF TickProbes
      <3> DEFINE cur0 == [s \in Shares |-> r.out[s] = "Capable"]
      <3>2. \A s \in Shares : cur0[s] \in BOOLEAN
        BY Zenon
      <3>3. auto' = [s \in Shares |-> IF conf[s] = "auto"
                                      THEN track_auto_flip(auto[s], cur0[s]) ELSE auto[s]]
        BY Zenon, <3>1
      <3> QED
        BY Zenon, <3>2, <3>3
    <2>3. ASSUME NEW s \in Shares
          PROVE  auto'[s] \in AutoStates /\ Waited(auto'[s]) <= Waited(auto[s]) + Interval
      <3>1. auto[s] \in AutoStates
        BY DEF FlapInv
      <3>2. Waited(auto[s]) \in Nat
        BY <1>1 DEF Waited
      <3>3. auto'[s] = auto[s] \/ auto'[s] = track_auto_flip(auto[s], cur[s])
        BY <2>2
      <3>4. cur[s] \in BOOLEAN
        BY <2>2
      <3>5. CASE auto'[s] = auto[s]
        BY <1>1, <3>1, <3>2, <3>5
      <3>6. CASE auto'[s] = track_auto_flip(auto[s], cur[s])
        BY <3>1, <3>4, <3>6, TickWaits
      <3> QED
        BY <3>3, <3>5, <3>6
    <2>4. auto' \in [Shares -> AutoStates]
      BY <2>2, <2>3
    <2>5. \A s \in Shares : Waited(auto[s]) \in Nat /\ Waited(auto'[s]) \in Nat
      BY <1>1 DEF Waited
    <2> QED
      BY <1>1, <2>1, <2>3, <2>4, <2>5 DEF FlapInv
  <1>6. ASSUME TickSchedules PROVE FlapInv' /\ Bounded
    <2>1. pc = "schedule" /\ pc' = "idle" /\ UNCHANGED clock
      BY <1>6 DEF TickSchedules
    <2>2. CASE UNCHANGED <<hupAge, sinceHup, auto>>
      BY <2>1, <2>2 DEF FlapInv
    <2>3. ASSUME hupAge >= Gap, hupAge' = 0, sinceHup' = 0,
                 auto' = [s \in Shares |-> IF auto[s] = NoState THEN NoState
                                           ELSE [auto[s] EXCEPT !.baseline = auto[s].last, !.streak = 0]]
          PROVE  FlapInv' /\ Bounded
      <3>1. PICK s \in Shares : Flipped(auto[s])
        BY <2>1 DEF FlapInv
      <3>2. auto[s] \in AutoStates /\ clock = 0
        BY <2>1 DEF FlapInv
      <3>3. Waited(auto[s]) = Interval + Interval + Interval + Interval
        BY <3>1, <3>2 DEF Flipped, Waited, AutoStates, FLIP_STREAK
      <3>4. hupAge >= Gap /\ hupAge' = 0 /\ sinceHup' = 0
        BY Zenon, <2>3
      <3>5. sinceHup >= Gap
        <4>1. sinceHup \in Nat /\ hupAge \in Nat
          BY <1>1 DEF FlapInv
        <4>2. hupAge = sinceHup \/ sinceHup >= Gap \/ sinceHup >= Waited(auto[s]) + clock
          BY DEF FlapInv
        <4> QED
          BY <1>1, <3>2, <3>3, <3>4, <4>1, <4>2
      <3>6. ASSUME NEW t \in Shares PROVE auto'[t] \in AutoStates
        <4>1. auto[t] \in AutoStates
          BY DEF FlapInv
        <4>2. CASE auto[t] = NoState
          BY <2>3, <4>1, <4>2
        <4>3. CASE auto[t] # NoState
          <5>1. auto[t] \in [baseline : BOOLEAN, last : BOOLEAN, streak : 0 .. FLIP_STREAK]
            BY <4>1, <4>3 DEF AutoStates
          <5>2. auto'[t] = [auto[t] EXCEPT !.baseline = auto[t].last, !.streak = 0]
            BY <2>3, <4>3
          <5>3. 0 \in 0 .. FLIP_STREAK
            BY DEF FLIP_STREAK
          <5> QED
            BY Zenon, <5>1, <5>2, <5>3 DEF AutoStates
        <4> QED
          BY <4>2, <4>3
      <3>7. auto' \in [Shares -> AutoStates]
        BY <2>3, <3>6
      <3>8. clock' = 0 /\ clock' \in 0 .. Interval /\ 0 \in 0 .. Gap
        BY <1>1, <2>1, <3>2
      <3> QED
        BY <1>1, <2>1, <3>5, <3>7, <3>4, <3>8 DEF FlapInv
    <2> QED
      BY <1>6, <2>2, <2>3 DEF TickSchedules
  <1>7. ASSUME LoopDies \/ WebuiRestarts PROVE FlapInv' /\ Bounded
    <2>1. auto' = [s \in Shares |-> NoState] /\ hupAge' = Gap /\ clock' = 0 /\ pc' = "idle"
      BY <1>7 DEF LoopDies, WebuiRestarts, Fresh
    <2>2. sinceHup' = Gap \/ (sinceHup' = sinceHup /\ clock = Interval)
      BY <1>7 DEF LoopDies, WebuiRestarts
    <2>3. auto' \in [Shares -> AutoStates]
      BY <2>1 DEF AutoStates
    <2>4. \A s \in Shares : Waited(auto'[s]) = Interval
      BY <2>1 DEF Waited
    <2> QED
      BY <1>1, <2>1, <2>2, <2>3, <2>4 DEF FlapInv
  <1>8. ASSUME \/ Mount \/ Switch \/ Blind \/ Show \/ settings_reprobe_filesystems
               \/ settings_save_shares \/ Recycle \/ Undelivered \/ UNCHANGED vars
        PROVE  UNCHANGED loop
    BY <1>8 DEF Mount, Switch, Blind, Show, settings_reprobe_filesystems, settings_save_shares,
                Recycle, Undelivered, vars, tracker, Outside
  <1> QED
    BY <1>2, <1>3, <1>4, <1>5, <1>6, <1>7, <1>8 DEF Next

\* A flapping mount never bounces Ganesha in a tight loop: whatever the mounts
\* do and however often the loop dies, two recycles that one WebUI process
\* schedules are at least AUTO_HUP_MIN_INTERVAL apart.  A loop that died has forgotten
\* the last one, so the gap must not be longer than the interval in which it
\* died and the three ticks in which it sees a flip (600 s and 180 s each).
THEOREM FlappingBounded ==
  ASSUME Gap <= Interval + Interval + Interval + Interval
  PROVE  Spec => FlapBounded
  <1>1. Init => FlapInv
    <2> SUFFICES ASSUME Init PROVE FlapInv
      OBVIOUS
    <2>1. Interval \in Nat /\ Gap \in Nat
      BY AclAssumption
    <2>2. auto \in [Shares -> AutoStates]
      BY DEF Init, AutoStates
    <2> QED
      BY <2>1, <2>2 DEF Init, FlapInv
  <1>2. FlapInv /\ [Next]_vars => FlapInv'
    BY FlapStep
  <1>3. FlapInv /\ [Next]_vars => [sinceHup # 0 /\ sinceHup' = 0 => sinceHup >= Gap]_vars
    BY FlapStep
  <1> QED
    BY <1>1, <1>2, <1>3, PTL DEF Spec, FlapBounded
=============================================================================
