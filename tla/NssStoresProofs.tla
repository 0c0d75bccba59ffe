--------------------------- MODULE NssStoresProofs ---------------------------
(***************************************************************************)
(* Theorems about NssStores, for any users, machines and groups, any       *)
(* directory and any number of edits, outages, kills and requests.  The    *)
(* inductive invariant is over the tasks an operation of the daemon has    *)
(* left.                                                                   *)
(***************************************************************************)
EXTENDS NssStores, TLAPS

-----------------------------------------------------------------------------
(***************************************************************************)
(* The tasks an operation has left.  A task that may give up or change the *)
(* rest of the operation, a gate, has only searches in front of it.        *)
(***************************************************************************)

Tasks(s) == {s[i] : i \in 1 .. Len(s)}

Loads == {"users", "groups"}
Gates == {"loaded", "warm", "lookup", "retry", "discover"}

Orderly(s) ==
  \A j \in 2 .. Len(s) :
    /\ s[j].op # "write"
    /\ s[j].op \in Gates => \A i \in 1 .. j - 1 : s[i].op \in Loads

\* What is left of a rebulk that has not applied its load goes on with its save.
Guarded(s) ==
  \A i \in 1 .. Len(s) : s[i].op \in {"loaded", "warm"} => i < Len(s) /\ s[i + 1].op = "save"

Lined(s) == s \in Seq(Tasks(s)) /\ Orderly(s) /\ Guarded(s)

\* Nothing may follow on s that would have had to come first.
Follows(s, t) ==
  \A b \in Tasks(t) : b.op # "write" /\ (b.op \in Gates => \A a \in Tasks(s) : a.op \in Loads)

\* An operation that is over.
LEMMA NoTask == Lined(<<>>) /\ Tasks(<<>>) = {}
  BY DEF Lined, Tasks, Orderly, Guarded

\* A single task.
LEMMA OneTask ==
  ASSUME NEW a
  PROVE  /\ Tasks(<<a>>) = {a}
         /\ a.op \notin {"loaded", "warm"} => Lined(<<a>>)
  <1>1. Tasks(<<a>>) = {a}
    BY DEF Tasks
  <1>2. Orderly(<<a>>)
    BY DEF Orderly
  <1>3. a.op \notin {"loaded", "warm"} => Guarded(<<a>>)
    BY DEF Guarded
  <1> QED
    BY <1>1, <1>2, <1>3 DEF Lined

\* The tasks of two sequences, one after the other.
LEMMA JoinedTasks ==
  ASSUME NEW S, NEW s \in Seq(S), NEW t \in Seq(S)
  PROVE  /\ s \o t \in Seq(S) /\ Len(s \o t) = Len(s) + Len(t)
         /\ \A i \in 1 .. Len(s) : (s \o t)[i] = s[i]
         /\ \A i \in 1 .. Len(t) : (s \o t)[i + Len(s)] = t[i]
         /\ \A i \in 1 .. Len(s) + Len(t) :
              \/ i \in 1 .. Len(s)
              \/ i - Len(s) \in 1 .. Len(t) /\ (s \o t)[i] = t[i - Len(s)]
         /\ Tasks(s \o t) = Tasks(s) \union Tasks(t)
  <1> DEFINE r == s \o t
  <1>1. r \in Seq(S) /\ Len(r) = Len(s) + Len(t) /\ Len(s) \in Nat /\ Len(t) \in Nat
    OBVIOUS
  <1>2. \A i \in 1 .. Len(s) : r[i] = s[i]
    OBVIOUS
  <1>3. \A i \in 1 .. Len(s) + Len(t) : i \notin 1 .. Len(s) => i - Len(s) \in 1 .. Len(t) /\ r[i] = t[i - Len(s)]
    OBVIOUS
  <1>4. \A i \in 1 .. Len(t) : r[i + Len(s)] = t[i]
    OBVIOUS
  <1> HIDE DEF r
  <1>5. Tasks(r) = Tasks(s) \union Tasks(t)
    <2>1. ASSUME NEW x \in Tasks(r) PROVE x \in Tasks(s) \union Tasks(t)
      BY <1>1, <1>2, <1>3 DEF Tasks
    <2>2. ASSUME NEW x \in Tasks(s) PROVE x \in Tasks(r)
      BY <1>1, <1>2 DEF Tasks
    <2>3. ASSUME NEW x \in Tasks(t) PROVE x \in Tasks(r)
      <3>1. PICK i \in 1 .. Len(t) : x = t[i]
        BY DEF Tasks
      <3>2. i + Len(s) \in 1 .. Len(r) /\ r[i + Len(s)] = x
        BY <1>1, <1>4, <3>1
      <3> QED
        BY <3>2 DEF Tasks
    <2> QED
      BY <2>1, <2>2, <2>3
  <1> QED
    BY <1>1, <1>2, <1>3, <1>4, <1>5 DEF r

\* One operation's tasks in front of another's.
LEMMA Joined ==
  ASSUME NEW s, NEW t, Lined(s), Lined(t), Follows(s, t)
  PROVE  Lined(s \o t) /\ Tasks(s \o t) = Tasks(s) \union Tasks(t)
  <1> DEFINE S == Tasks(s) \union Tasks(t)
             r == s \o t
  <1>1. s \in Seq(S) /\ t \in Seq(S)
    BY DEF Lined
  <1>2. /\ r \in Seq(S) /\ Len(r) = Len(s) + Len(t) /\ Len(s) \in Nat /\ Len(t) \in Nat
        /\ \A i \in 1 .. Len(s) : r[i] = s[i]
        /\ \A i \in 1 .. Len(t) : r[i + Len(s)] = t[i]
        /\ \A i \in 1 .. Len(s) + Len(t) :
             i \in 1 .. Len(s) \/ (i - Len(s) \in 1 .. Len(t) /\ r[i] = t[i - Len(s)])
        /\ Tasks(r) = S
    BY <1>1, JoinedTasks
  <1> HIDE DEF S, r
  <1>3. Orderly(r)
    <2> SUFFICES ASSUME NEW j \in 2 .. Len(r)
                 PROVE  /\ r[j].op # "write"
                        /\ r[j].op \in Gates => \A i \in 1 .. j - 1 : r[i].op \in Loads
      BY DEF Orderly
    <2>1. CASE j \in 1 .. Len(s)
      <3>1. j \in 2 .. Len(s) /\ r[j] = s[j] /\ \A i \in 1 .. j - 1 : r[i] = s[i]
        BY <1>2, <2>1
      <3> QED
        BY <3>1 DEF Lined, Orderly
    <2>2. CASE j \notin 1 .. Len(s)
      <3> DEFINE k == j - Len(s)
      <3>1. k \in 1 .. Len(t) /\ r[j] = t[k]
        BY <1>2, <2>2
      <3>2. t[k] \in Tasks(t)
        BY <3>1 DEF Tasks
      <3>3. r[j].op # "write" /\ (r[j].op \in Gates => \A a \in Tasks(s) : a.op \in Loads)
        BY <3>1, <3>2 DEF Follows
      <3>4. ASSUME r[j].op \in Gates, NEW i \in 1 .. j - 1 PROVE r[i].op \in Loads
        <4>1. CASE i \in 1 .. Len(s)
          <5>1. r[i] = s[i] /\ s[i] \in Tasks(s)
            BY <1>2, <4>1 DEF Tasks
          <5> QED
            BY <3>3, <3>4, <5>1
        <4>2. CASE i \notin 1 .. Len(s)
          <5> DEFINE h == i - Len(s)
          <5>1. h \in 1 .. Len(t) /\ r[i] = t[h]
            BY <1>2, <4>2
          <5>2. k \in 2 .. Len(t) /\ h \in 1 .. k - 1
            BY <1>2, <3>1, <5>1
          <5>3. t[k].op \in Gates => t[h].op \in Loads
            BY SMTT(30), Zenon, <5>2 DEF Lined, Orderly
          <5> QED
            BY <3>1, <3>4, <5>1, <5>3
        <4> QED
          BY <4>1, <4>2
      <3> QED
        BY <3>3, <3>4
    <2> QED
      BY <2>1, <2>2
  <1>4. Guarded(r)
    <2> SUFFICES ASSUME NEW i \in 1 .. Len(r), r[i].op \in {"loaded", "warm"}
                 PROVE  i < Len(r) /\ r[i + 1].op = "save"
      BY DEF Guarded
    <2>1. CASE i \in 1 .. Len(s)
      <3>1. i < Len(s) /\ s[i + 1].op = "save"
        BY <1>2, <2>1 DEF Lined, Guarded
      <3>2. i + 1 \in 1 .. Len(s) /\ i < Len(r)
        BY <1>2, <3>1
      <3>3. r[i + 1] = s[i + 1]
        BY <1>2, <3>2
      <3> QED
        BY <3>1, <3>2, <3>3
    <2>2. CASE i \notin 1 .. Len(s)
      <3> DEFINE k == i - Len(s)
      <3>1. k \in 1 .. Len(t) /\ r[i] = t[k]
        BY <1>2, <2>2
      <3>2. k < Len(t) /\ t[k + 1].op = "save"
        BY <3>1 DEF Lined, Guarded
      <3>3. k + 1 \in 1 .. Len(t) /\ (k + 1) + Len(s) = i + 1 /\ i < Len(r)
        BY <1>2, <3>1, <3>2
      <3>4. r[(k + 1) + Len(s)] = t[k + 1]
        BY <1>2, <3>3
      <3> QED
        BY <3>2, <3>3, <3>4
    <2> QED
      BY <2>1, <2>2
  <1> QED
    BY <1>2, <1>3, <1>4 DEF Lined, S, r

\* The task at hand and those after it.
LEMMA FirstTask ==
  ASSUME NEW s, Lined(s), s # <<>>
  PROVE  /\ Lined(Tail(s)) /\ Tasks(s) = {Head(s)} \union Tasks(Tail(s))
         /\ \A b \in Tasks(Tail(s)) : b.op # "write" /\ (b.op \in Gates => Head(s).op \in Loads)
         /\ Head(s).op \in {"loaded", "warm"} => Tail(s) # <<>> /\ Head(Tail(s)).op = "save"
  <1> DEFINE S == Tasks(s)
             r == Tail(s)
  <1>1. s \in Seq(S)
    BY DEF Lined
  <1>2. /\ Len(s) \in Nat /\ Len(s) >= 1 /\ Head(s) = s[1]
        /\ r \in Seq(S) /\ Len(r) = Len(s) - 1 /\ \A i \in 1 .. Len(r) : r[i] = s[i + 1]
    BY <1>1
  <1>3. r # <<>> => Len(r) # 0 /\ Head(r) = r[1]
    BY <1>2
  <1>4. r = <<>> => Len(r) = 0
    OBVIOUS
  <1> HIDE DEF S, r
  <1>5. Tasks(s) = {Head(s)} \union Tasks(r)
    <2>1. ASSUME NEW x \in Tasks(s) PROVE x \in {Head(s)} \union Tasks(r)
      <3>1. PICK i \in 1 .. Len(s) : x = s[i]
        BY DEF Tasks
      <3>2. CASE i = 1
        BY <1>2, <3>1, <3>2
      <3>3. CASE i # 1
        <4>1. i - 1 \in 1 .. Len(r) /\ (i - 1) + 1 = i
          BY <1>2, <3>1, <3>3
        <4>2. r[i - 1] = s[i]
          BY <1>2, <4>1
        <4> QED
          BY <3>1, <4>1, <4>2 DEF Tasks
      <3> QED
        BY <3>2, <3>3
    <2>2. Head(s) \in Tasks(s)
      BY <1>2 DEF Tasks
    <2>3. ASSUME NEW x \in Tasks(r) PROVE x \in Tasks(s)
      <3>1. PICK i \in 1 .. Len(r) : x = r[i]
        BY DEF Tasks
      <3>2. i + 1 \in 1 .. Len(s) /\ x = s[i + 1]
        BY <1>2, <3>1
      <3> QED
        BY <3>2 DEF Tasks
    <2> QED
      BY <2>1, <2>2, <2>3
  <1>6. r \in Seq(Tasks(r))
    <2>1. \A i \in 1 .. Len(r) : r[i] \in Tasks(r)
      BY DEF Tasks
    <2> QED
      BY <1>2, <2>1
  <1>7. Orderly(r)
    <2> SUFFICES ASSUME NEW j \in 2 .. Len(r)
                 PROVE  /\ r[j].op # "write"
                        /\ r[j].op \in Gates => \A i \in 1 .. j - 1 : r[i].op \in Loads
      BY DEF Orderly
    <2>1. j + 1 \in 2 .. Len(s) /\ r[j] = s[j + 1]
      BY <1>2
    <2>2. \A i \in 1 .. j - 1 : i + 1 \in 1 .. (j + 1) - 1 /\ r[i] = s[i + 1]
      BY <1>2
    <2> QED
      BY <2>1, <2>2 DEF Lined, Orderly
  <1>8. Guarded(r)
    <2> SUFFICES ASSUME NEW i \in 1 .. Len(r), r[i].op \in {"loaded", "warm"}
                 PROVE  i < Len(r) /\ r[i + 1].op = "save"
      BY DEF Guarded
    <2>1. i + 1 \in 1 .. Len(s) /\ r[i] = s[i + 1]
      BY <1>2
    <2>2. i + 1 < Len(s) /\ s[(i + 1) + 1].op = "save"
      BY <2>1 DEF Lined, Guarded
    <2>3. i + 1 \in 1 .. Len(r) /\ i < Len(r)
      BY <1>2, <2>2
    <2>4. r[i + 1] = s[(i + 1) + 1]
      BY <1>2, <2>3
    <2> QED
      BY <2>2, <2>3, <2>4
  <1>9. \A b \in Tasks(r) : b.op # "write" /\ (b.op \in Gates => Head(s).op \in Loads)
    <2> SUFFICES ASSUME NEW i \in 1 .. Len(r)
                 PROVE  r[i].op # "write" /\ (r[i].op \in Gates => Head(s).op \in Loads)
      BY DEF Tasks
    <2>1. i + 1 \in 2 .. Len(s) /\ r[i] = s[i + 1] /\ 1 \in 1 .. (i + 1) - 1
      BY <1>2
    <2> QED
      BY <1>2, <2>1 DEF Lined, Orderly
  <1>10. Head(s).op \in {"loaded", "warm"} => r # <<>> /\ Head(r).op = "save"
    <2> SUFFICES ASSUME Head(s).op \in {"loaded", "warm"} PROVE r # <<>> /\ Head(r).op = "save"
      OBVIOUS
    <2>1. 1 \in 1 .. Len(s) /\ s[1].op \in {"loaded", "warm"}
      BY <1>2
    <2>2. 1 < Len(s) /\ s[1 + 1].op = "save"
      BY <2>1 DEF Lined, Guarded
    <2>3. 1 \in 1 .. Len(r) /\ r[1] = s[1 + 1]
      BY <1>2, <2>2
    <2> QED
      BY <1>3, <1>4, <2>2, <2>3
  <1> QED
    BY <1>5, <1>6, <1>7, <1>8, <1>9, <1>10 DEF Lined, r

\* A task of the rebulk in front of its save.
LEMMA BulkTask ==
  ASSUME NEW a, NEW t, Lined(t), a.op \in {"loaded", "warm"}, t # <<>>, Head(t).op = "save",
         Follows(<<a>>, t)
  PROVE  Lined(<<a>> \o t) /\ Tasks(<<a>> \o t) = {a} \union Tasks(t)
  <1> DEFINE one == <<a>>
             S == {a} \union Tasks(t)
             r == one \o t
  <1>1. one \in Seq(S) /\ Len(one) = 1 /\ one[1] = a /\ Tasks(one) = {a}
    BY OneTask
  <1> HIDE DEF one
  <1>2. t \in Seq(S) /\ Len(t) \in Nat /\ Len(t) # 0 /\ Head(t) = t[1]
    BY DEF Lined
  <1>3. /\ r \in Seq(S) /\ Len(r) = 1 + Len(t) /\ r[1] = a /\ Tasks(r) = S
        /\ \A i \in 1 .. Len(t) : r[i + 1] = t[i]
    BY <1>1, <1>2, JoinedTasks
  <1> HIDE DEF S, r
  <1>4. \A j \in 2 .. Len(r) : j - 1 \in 1 .. Len(t) /\ r[j] = t[j - 1] /\ t[j - 1] \in Tasks(t)
    <2> TAKE j \in 2 .. Len(r)
    <2>1. j - 1 \in 1 .. Len(t) /\ (j - 1) + 1 = j
      BY <1>2, <1>3
    <2> QED
      BY <1>3, <2>1 DEF Tasks
  <1>5. Orderly(r)
    <2>1. \A b \in Tasks(t) : b.op # "write" /\ b.op \notin Gates
      BY OneTask DEF Follows, Loads
    <2> QED
      BY <1>4, <2>1 DEF Orderly
  <1>6. Guarded(r)
    <2> SUFFICES ASSUME NEW i \in 1 .. Len(r), r[i].op \in {"loaded", "warm"}
                 PROVE  i < Len(r) /\ r[i + 1].op = "save"
      BY DEF Guarded
    <2>1. CASE i = 1
      BY <1>2, <1>3, <2>1
    <2>2. CASE i # 1
      <3>1. i \in 2 .. Len(r)
        BY <2>2
      <3>2. r[i].op \notin Gates
        BY Zenon, <1>4, <3>1, OneTask DEF Follows, Loads
      <3> QED
        BY <3>2 DEF Gates
    <2> QED
      BY <2>1, <2>2
  <1> QED
    BY <1>3, <1>5, <1>6 DEF Lined, S, r, one

-----------------------------------------------------------------------------
(***************************************************************************)
(* The inductive invariant.  It is about daemons none of whose writes has  *)
(* failed.                                                                 *)
(***************************************************************************)

GroupsOf(f) == f \in [DOMAIN f -> SUBSET Groups]
File == [kind : {"passwd", "group"}, dir : Dirs]

Types ==
  /\ dirUsers \subseteq Users /\ rUsers \subseteq Users
  /\ DOMAIN member = Groups /\ memberOf \in [Users -> SUBSET Groups]
  /\ DOMAIN rGroups \subseteq Groups /\ GroupsOf(rMember)
  /\ GroupsOf(cache) /\ GroupsOf(cacheFile)
  /\ DOMAIN passwd = Dirs /\ DOMAIN group = Dirs
  /\ \A d \in Dirs : DOMAIN group[d] = Groups

\* Of a task t among the tasks L left, with c in memory.  A principal whose
\* groups are looked up has an entry and its rows repaired afterwards; rows that
\* are being written have what the entries claim.
Ready(t, L, c) ==
  /\ t.op = "discover" => t.p \in DOMAIN c /\ \E e \in L : e.op = "ensure" /\ e.p = t.p
  /\ t.op = "refresh" => DOMAIN t = {"op", "left"} /\ t.left \subseteq DOMAIN c
  /\ t.op = "preresolve" => DOMAIN t = {"op", "left"}
  /\ t.op \in {"lookup", "retry"} => t.p \in Users
  /\ t.op = "groups_again" =>
       t.p \in DOMAIN c \/ \E l \in L : l.op \in {"lookup", "retry"} /\ l.p = t.p
  /\ t.op = "warm" => DOMAIN t = {"op", "left", "live"} /\ GroupsOf(t.live)
  /\ t.op = "write" =>
       /\ DOMAIN t = {"op", "files", "rows", "strict"}
       /\ t.files \in Seq(File) /\ t.files # <<>> /\ DOMAIN t.rows = Groups
       /\ \A p \in DOMAIN c : \A g \in c[p] : Login(p) \in t.rows[g]

\* A rebulk that has not applied its load has promised nothing yet, and neither
\* has the lookup of a name, which may give up the rest.
Uncommitted(t, L) ==
  /\ t.op \in {"loaded", "warm"} =>
       \A x \in L :
         /\ x.op \in Loads \union {"loaded", "warm", "save", "preresolve", "mat", "refresh_all"}
         /\ x.op = "save" => ~x.changed
  /\ t.op \in {"lookup", "retry"} =>
       \A x \in L : x = t \/ x.op \in Loads \/ (x.op = "groups_again" /\ x.p = t.p)

Fit(L, c) == \A t \in L : Ready(t, L, c) /\ Uncommitted(t, L)

Rewrites(t, kind, d) ==
  t.op = "mat" \/ (t.op = "write" /\ [kind |-> kind, dir |-> d] \in Tasks(t.files))

\* What the stores pw and gr lack of the entries c is still to be written.
Served(L, c, pw, gr) ==
  \A d \in Dirs, p \in DOMAIN c :
    /\ p \in pw[d] \/ \E t \in L : Rewrites(t, "passwd", d)
    /\ \A g \in c[p] :
         \/ Login(p) \in gr[d][g]
         \/ \E t \in L : Rewrites(t, "group", d) \/ (t.op = "ensure" /\ t.p = p)

Saves(t) == (t.op = "discover" /\ t.fresh) \/ (t.op = "save" /\ t.changed)

\* The file is the memory, or is about to be.
Saved(L, c, file) == file = c \/ \E t \in L : Saves(t)

Sound ==
  /\ Types
  /\ ~alive => todo = <<>> /\ cache = Nothing
  /\ Lined(todo) /\ Fit(Tasks(todo), cache)
  /\ Served(Tasks(todo), cache, passwd, group)
  /\ alive => Saved(Tasks(todo), cache, cacheFile)

StoresInv == spent \in [Kinds -> Nat] /\ (NoWriteFailed => Sound)

\* A search is over: what is left is as ready as it was.
LEMMA LoadedFit ==
  ASSUME NEW h, NEW R, NEW c, h.op \in Loads, Fit({h} \union R, c)
  PROVE  Fit(R, c)
  <1> SUFFICES ASSUME NEW t \in R PROVE Ready(t, R, c) /\ Uncommitted(t, R)
    BY DEF Fit
  <1>1. Ready(t, {h} \union R, c) /\ Uncommitted(t, {h} \union R)
    BY DEF Fit
  <1>2. Uncommitted(t, R)
    BY <1>1 DEF Uncommitted
  <1>3. h.op \notin {"ensure", "lookup", "retry"}
    BY DEF Loads
  <1>4. Ready(t, R, c)
    BY <1>1, <1>3 DEF Ready
  <1> QED
    BY <1>2, <1>4

\* Task h is replaced by the tasks N, and nothing behind it was a gate.
LEMMA ReplacedFit ==
  ASSUME NEW h, NEW R, NEW N, NEW c, NEW e, Fit({h} \union R, c), DOMAIN c \subseteq DOMAIN e,
         \A b \in R : b.op # "write" /\ b.op \notin Gates,
         \A t \in N : Ready(t, N \union R, e) /\ Uncommitted(t, N \union R),
         h.op \in {"lookup", "retry"} =>
           h.p \in DOMAIN e \/ \E l \in N : l.op \in {"lookup", "retry"} /\ l.p = h.p
  PROVE  Fit(N \union R, e)
  <1> SUFFICES ASSUME NEW t \in R PROVE Ready(t, N \union R, e) /\ Uncommitted(t, N \union R)
    BY Zenon DEF Fit
  <1>1. Ready(t, {h} \union R, c)
    BY DEF Fit
  <1>2. t.op \notin {"write", "loaded", "warm", "lookup", "retry", "discover"}
    BY DEF Gates
  <1>3. Uncommitted(t, N \union R)
    BY <1>2 DEF Uncommitted
  <1>4. t.op = "groups_again" =>
          t.p \in DOMAIN e \/ \E l \in N \union R : l.op \in {"lookup", "retry"} /\ l.p = t.p
    <2>1. \A l \in R : l.op \notin {"lookup", "retry"}
      BY DEF Gates
    <2> QED
      BY <1>1, <2>1 DEF Ready
  <1>5. Ready(t, N \union R, e)
    BY <1>1, <1>2, <1>4 DEF Ready
  <1> QED
    BY <1>3, <1>5

\* Task h is done.
LEMMA DoneFit ==
  ASSUME NEW h, NEW R, NEW c, NEW e, Fit({h} \union R, c), h.op \notin {"lookup", "retry"},
         DOMAIN e = DOMAIN c, \A b \in R : b.op # "write" /\ b.op \notin Gates
  PROVE  Fit(R, e)
  <1> DEFINE N == {}
  <1>1. /\ DOMAIN c \subseteq DOMAIN e /\ N \union R = R
        /\ \A t \in N : Ready(t, N \union R, e) /\ Uncommitted(t, N \union R)
        /\ h.op \in {"lookup", "retry"} =>
             h.p \in DOMAIN e \/ \E l \in N : l.op \in {"lookup", "retry"} /\ l.p = h.p
    OBVIOUS
  <1> HIDE DEF N
  <1>2. Fit(N \union R, e)
    BY Zenon, <1>1, ReplacedFit
  <1> QED
    BY Zenon, <1>1, <1>2

\* A task that writes no store leaves what is to be written as it was.
LEMMA ServedStays ==
  ASSUME NEW h, NEW R, NEW N, NEW c, NEW pw, NEW gr, Served({h} \union R, c, pw, gr),
         h.op \notin {"mat", "write", "ensure"}
  PROVE  Served(N \union R, c, pw, gr)
  <1>1. \A kind, d : ~Rewrites(h, kind, d)
    BY DEF Rewrites
  <1> SUFFICES ASSUME NEW d \in Dirs, NEW p \in DOMAIN c
               PROVE  /\ p \in pw[d] \/ \E t \in N \union R : Rewrites(t, "passwd", d)
                      /\ \A g \in c[p] :
                           \/ Login(p) \in gr[d][g]
                           \/ \E t \in N \union R : Rewrites(t, "group", d) \/ (t.op = "ensure" /\ t.p = p)
    BY Zenon DEF Served
  <1>2. /\ p \in pw[d] \/ \E t \in {h} \union R : Rewrites(t, "passwd", d)
        /\ \A g \in c[p] :
             \/ Login(p) \in gr[d][g]
             \/ \E t \in {h} \union R : Rewrites(t, "group", d) \/ (t.op = "ensure" /\ t.p = p)
    BY Zenon DEF Served
  <1> QED
    BY <1>1, <1>2

\* A rewrite of the stores serves whatever is in memory by then.
LEMMA ServedLater ==
  ASSUME NEW L, NEW c, NEW pw, NEW gr, NEW t \in L, t.op = "mat"
  PROVE  Served(L, c, pw, gr)
  BY DEF Served, Rewrites

\* Where nothing is left to write, the stores serve every entry.
LEMMA ServedNow ==
  ASSUME NEW L, NEW N, NEW c, NEW pw, NEW gr, Served(L, c, pw, gr),
         \A x \in L : x.op \notin {"mat", "write", "ensure"}
  PROVE  Served(N, c, pw, gr)
  <1>1. \A x \in L : x.op # "ensure" /\ \A kind, d : ~Rewrites(x, kind, d)
    BY DEF Rewrites
  <1> QED
    BY Zenon, <1>1 DEF Served

\* A task that saves nothing leaves what is to be saved as it was.
LEMMA SavedStays ==
  ASSUME NEW h, NEW R, NEW N, NEW c, NEW file, Saved({h} \union R, c, file), ~Saves(h)
  PROVE  Saved(N \union R, c, file)
  BY Zenon DEF Saved

\* The tasks of ServeGroups.
LEMMA Serving ==
  ASSUME NEW p, NEW fresh, NEW rewrite
  PROVE  LET s == ServeGroups(p, fresh, rewrite)
         IN  /\ Lined(s)
             /\ Tasks(s) \subseteq {[op |-> "users"], [op |-> "groups"],
                                    [op |-> "discover", p |-> p, fresh |-> fresh],
                                    Mat(FALSE), [op |-> "ensure", p |-> p]}
             /\ [op |-> "discover", p |-> p, fresh |-> fresh] \in Tasks(s)
             /\ [op |-> "ensure", p |-> p] \in Tasks(s)
             /\ rewrite => Mat(FALSE) \in Tasks(s)
  <1> DEFINE a == IF DOMAIN rGroups = {} THEN load_full_identities ELSE <<>>
             discover == [op |-> "discover", p |-> p, fresh |-> fresh]
             ensure == [op |-> "ensure", p |-> p]
             m == IF rewrite THEN <<Mat(FALSE)>> ELSE <<>>
             ab == a \o <<discover>>
             abm == ab \o m
             users == [op |-> "users"]
             groups == [op |-> "groups"]
  <1>1. Lined(a) /\ Tasks(a) \subseteq {users, groups}
    <2>1. Lined(load_full_identities) /\ Tasks(load_full_identities) \subseteq {users, groups}
      BY DEF load_full_identities, Lined, Tasks, Orderly, Guarded, Gates
    <2> QED
      BY <2>1, NoTask
  <1>2. discover.op = "discover" /\ ensure.op = "ensure" /\ Mat(FALSE).op = "mat"
        /\ users.op = "users" /\ groups.op = "groups"
    BY DEF Mat
  <1>3. Lined(<<discover>>) /\ Tasks(<<discover>>) = {discover}
    BY <1>2, OneTask
  <1>4. Lined(<<ensure>>) /\ Tasks(<<ensure>>) = {ensure}
    BY <1>2, OneTask
  <1>5. Lined(m) /\ Tasks(m) \subseteq {Mat(FALSE)} /\ (rewrite => Mat(FALSE) \in Tasks(m))
    BY Zenon, <1>2, OneTask, NoTask
  <1> DEFINE one == <<discover>>
             last == <<ensure>>
  <1> HIDE DEF a, discover, ensure, m, users, groups, one, last
  <1>6. Lined(ab) /\ Tasks(ab) = Tasks(a) \union {discover}
    <2>1. Follows(a, one)
      BY <1>1, <1>2, <1>3 DEF Follows, Loads, one
    <2> QED
      BY <1>1, <1>3, <2>1, Joined DEF one
  <1> HIDE DEF ab
  <1>7. Lined(abm) /\ Tasks(abm) = Tasks(a) \union {discover} \union Tasks(m)
    <2>1. Follows(ab, m)
      BY Zenon, <1>2, <1>5 DEF Follows, Gates
    <2> QED
      BY <1>5, <1>6, <2>1, Joined
  <1> HIDE DEF abm
  <1>8. Lined(abm \o last) /\ Tasks(abm \o last) = Tasks(a) \union {discover} \union Tasks(m) \union {ensure}
    <2>1. Follows(abm, last)
      BY <1>2, <1>4 DEF Follows, Gates, last
    <2> QED
      BY <1>4, <1>7, <2>1, Joined DEF last
  <1>9. ServeGroups(p, fresh, rewrite) = abm \o last
    BY DEF ServeGroups, abm, ab, a, m, discover, ensure, one, last
  <1> QED
    BY Zenon, <1>1, <1>5, <1>8, <1>9 DEF discover, ensure, users, groups

\* The tasks of ServeGroups are ready when the principal has an entry.
LEMMA ServingReady ==
  ASSUME NEW p, NEW fresh, NEW rewrite, NEW L, NEW c, p \in DOMAIN c,
         Tasks(ServeGroups(p, fresh, rewrite)) \subseteq L
  PROVE  \A t \in Tasks(ServeGroups(p, fresh, rewrite)) : Ready(t, L, c) /\ Uncommitted(t, L)
  <1> TAKE t \in Tasks(ServeGroups(p, fresh, rewrite))
  <1>1. t.op \in {"users", "groups", "discover", "mat", "ensure"} /\ (t.op = "discover" => t.p = p)
    <2>1. t \in {[op |-> "users"], [op |-> "groups"], [op |-> "discover", p |-> p, fresh |-> fresh],
                 Mat(FALSE), [op |-> "ensure", p |-> p]}
      BY Zenon, Serving
    <2> QED
      BY <2>1 DEF Mat
  <1>2. \E e \in L : e.op = "ensure" /\ e.p = p
    <2>1. [op |-> "ensure", p |-> p] \in L
      BY Zenon, Serving
    <2> QED
      BY <2>1
  <1> QED
    BY <1>1, <1>2 DEF Ready, Uncommitted

-----------------------------------------------------------------------------
(***************************************************************************)
(* Steps that keep the memory and the stores.                              *)
(***************************************************************************)

\* A disturbance is counted, and none is forgotten.
LEMMA Counted ==
  ASSUME spent \in [Kinds -> Nat], UNCHANGED spent \/ \E k \in Kinds : Spend(k)
  PROVE  /\ spent' \in [Kinds -> Nat] /\ (NoWriteFailed' => NoWriteFailed)
         /\ Spend("fail") => ~NoWriteFailed'
  <1>1. \A k \in Kinds : Spend(k) =>
          /\ spent' \in [Kinds -> Nat] /\ spent'[k] = spent[k] + 1
          /\ \A j \in Kinds \ {k} : spent'[j] = spent[j]
    BY DEF Spend
  <1>2. "fail" \in Kinds /\ spent["fail"] \in Nat
    BY DEF Kinds
  <1> QED
    BY <1>1, <1>2 DEF NoWriteFailed

\* The groups the resolver finds are groups of the directory.
LEMMA ResolvedGroups ==
  ASSUME Types, NEW p
  PROVE  resolve_groups_for_principal(p) \subseteq Groups
  <1>1. {g \in DOMAIN rGroups : p \in rGroups[g]} \subseteq Groups
    BY DEF Types
  <1>2. ASSUME p \in Users PROVE MemberOfNames(p) \subseteq Groups
    BY <1>2 DEF MemberOfNames, Types, GroupsOf
  <1> QED
    BY <1>1, <1>2 DEF resolve_groups_for_principal

\* What the resolver remembers of them keeps its type.
LEMMA RememberedGroups ==
  ASSUME Types, NEW p, NEW gs \in SUBSET Groups, RememberGroups(p, gs)
  PROVE  DOMAIN rGroups' \subseteq Groups /\ GroupsOf(rMember)'
  <1>1. DOMAIN rGroups' = DOMAIN rGroups \union FetchedByGid(gs)
    BY DEF RememberGroups
  <1>2. FetchedByGid(gs) \subseteq Groups
    BY DEF FetchedByGid
  <1>3. GroupsOf(rMember)'
    <2>1. CASE p \in Users /\ MemberOfLive(p)
      <3>1. rMember' = With(rMember, p, memberOf[p])
        BY <2>1 DEF RememberGroups
      <3>2. memberOf[p] \in SUBSET Groups
        BY <2>1 DEF Types
      <3> QED
        BY <3>1, <3>2 DEF Types, GroupsOf, With
    <2>2. CASE ~(p \in Users /\ MemberOfLive(p))
      <3>1. rMember' = rMember
        BY <2>2 DEF RememberGroups
      <3> QED
        BY <3>1 DEF Types, GroupsOf
    <2> QED
      BY <2>1, <2>2
  <1> QED
    BY <1>1, <1>2, <1>3 DEF Types

\* A step of the world that the daemon does not take part in.
LEMMA QuietStep ==
  ASSUME Sound, UNCHANGED <<cache, cacheFile, passwd, group, alive, todo>>, Types'
  PROVE  Sound'
  BY DEF Sound

\* A search is over.
LEMMA LoadStep ==
  ASSUME Sound, alive, todo # <<>>, Head(todo).op \in Loads, todo' = Tail(todo),
         UNCHANGED <<cache, cacheFile, passwd, group, alive>>, Types'
  PROVE  Sound'
  <1> DEFINE h == Head(todo)
             R == Tasks(Tail(todo))
  <1>1. Lined(todo') /\ Tasks(todo') = R /\ Tasks(todo) = {h} \union R
    BY FirstTask DEF Sound
  <1>2. h.op \notin {"mat", "write", "ensure"} /\ ~Saves(h)
    BY DEF Loads, Saves
  <1>3. Fit(Tasks(todo), cache) /\ Served(Tasks(todo), cache, passwd, group)
        /\ Saved(Tasks(todo), cache, cacheFile)
    BY DEF Sound
  <1> HIDE DEF h, R
  <1>4. Fit(R, cache)
    BY <1>1, <1>3, LoadedFit DEF h
  <1>5. Served({} \union R, cache, passwd, group)
    BY Zenon, <1>1, <1>2, <1>3, ServedStays
  <1>6. Saved({} \union R, cache, cacheFile)
    BY Zenon, <1>1, <1>2, <1>3, SavedStays
  <1>7. {} \union R = R
    OBVIOUS
  <1> QED
    BY <1>1, <1>4, <1>5, <1>6, <1>7 DEF Sound

\* The task at hand is replaced by others.
LEMMA Replaces ==
  ASSUME Lined(todo), todo # <<>>, Head(todo).op \notin Loads
  PROVE  /\ Tasks(todo) = {Head(todo)} \union Tasks(Tail(todo)) /\ Lined(Tail(todo))
         /\ \A b \in Tasks(Tail(todo)) : b.op # "write" /\ b.op \notin Gates
         /\ \A pre : Lined(pre) => /\ Lined(pre \o Tail(todo))
                                   /\ Tasks(pre \o Tail(todo)) = Tasks(pre) \union Tasks(Tail(todo))
  <1>1. /\ Tasks(todo) = {Head(todo)} \union Tasks(Tail(todo)) /\ Lined(Tail(todo))
        /\ \A b \in Tasks(Tail(todo)) : b.op # "write" /\ b.op \notin Gates
    BY FirstTask
  <1>2. ASSUME NEW pre, Lined(pre)
        PROVE  Lined(pre \o Tail(todo)) /\ Tasks(pre \o Tail(todo)) = Tasks(pre) \union Tasks(Tail(todo))
    <2>1. Follows(pre, Tail(todo))
      BY <1>1 DEF Follows
    <2> QED
      BY <1>1, <1>2, <2>1, Joined
  <1> QED
    BY <1>1, <1>2

\* A task that neither writes nor saves makes way for the tasks N.
LEMMA PlainStep ==
  ASSUME Sound, alive, todo # <<>>, Head(todo).op \notin Loads \union {"mat", "write", "ensure"},
         ~Saves(Head(todo)), NEW N,
         Lined(todo'), Tasks(todo') = N \union Tasks(Tail(todo)),
         UNCHANGED <<cache, cacheFile, passwd, group, alive>>, Types',
         \A t \in N : Ready(t, Tasks(todo'), cache) /\ Uncommitted(t, Tasks(todo')),
         Head(todo).op \in {"lookup", "retry"} =>
           \E l \in N : l.op \in {"lookup", "retry"} /\ l.p = Head(todo).p
  PROVE  Sound'
  <1> DEFINE h == Head(todo)
             R == Tasks(Tail(todo))
  <1>1. /\ Tasks(todo) = {h} \union R
        /\ \A b \in R : b.op # "write" /\ b.op \notin Gates
    BY Replaces DEF Sound
  <1>2. Fit(Tasks(todo), cache) /\ Served(Tasks(todo), cache, passwd, group)
        /\ Saved(Tasks(todo), cache, cacheFile)
    BY DEF Sound
  <1>3. /\ Tasks(todo') = N \union R
        /\ h.op \in {"lookup", "retry"} => \E l \in N : l.op \in {"lookup", "retry"} /\ l.p = h.p
        /\ h.op \notin {"mat", "write", "ensure"} /\ ~Saves(h)
    OBVIOUS
  <1> HIDE DEF h, R
  <1>4. Fit(N \union R, cache)
    <2>1. Fit({h} \union R, cache)
      BY <1>1, <1>2
    <2>2. \A t \in N : Ready(t, N \union R, cache) /\ Uncommitted(t, N \union R)
      BY Zenon, <1>3
    <2> QED
      BY Zenon, <1>1, <1>3, <2>1, <2>2, ReplacedFit
  <1>5. Served(N \union R, cache, passwd, group)
    BY Zenon, <1>1, <1>2, <1>3, ServedStays
  <1>6. Saved(N \union R, cache, cacheFile)
    BY Zenon, <1>1, <1>2, <1>3, SavedStays
  <1> QED
    BY Zenon, <1>3, <1>4, <1>5, <1>6 DEF Sound

\* The directory, SSSD and the misses that are forgotten.
LEMMA WorldKeeps ==
  ASSUME Sound, \/ ForgetMiss \/ EditMember \/ EditMemberOf \/ AddUser \/ RemoveUser
                \/ Outage \/ Recover \/ SssdSync
  PROVE  Sound'
  <1> USE DEF ldapVars, resolverVars, cacheVars, storeVars
  <1>1. UNCHANGED <<rUsers, rGroups, rMember, cache, cacheFile, passwd, group, alive, todo>>
    BY DEF ForgetMiss, EditMember, EditMemberOf, AddUser, RemoveUser, Edit, Outage, Recover, SssdSync
  <1>2. dirUsers' \subseteq Users /\ DOMAIN member' = Groups /\ memberOf' \in [Users -> SUBSET Groups]
    <2>1. dirUsers \subseteq Users /\ DOMAIN member = Groups /\ memberOf \in [Users -> SUBSET Groups]
      BY DEF Sound, Types
    <2>2. CASE ForgetMiss \/ Outage \/ Recover \/ SssdSync
      BY <2>1, <2>2 DEF ForgetMiss, Outage, Recover, SssdSync
    <2>3. CASE EditMember
      BY <2>1, <2>3 DEF EditMember, Edit
    <2>4. CASE EditMemberOf
      <3>1. PICK u \in dirUsers, g \in Groups :
              dirUsers' = dirUsers /\ member' = member /\ memberOf' = [memberOf EXCEPT ![u] = Toggle(@, g)]
        BY Zenon, <2>4 DEF EditMemberOf, Edit
      <3>2. \A S \in SUBSET Groups : Toggle(S, g) \in SUBSET Groups
        BY DEF Toggle
      <3> QED
        BY <2>1, <3>1, <3>2
    <2>5. CASE AddUser
      BY <2>1, <2>5 DEF AddUser, Edit
    <2>6. CASE RemoveUser
      BY <2>1, <2>6 DEF RemoveUser, Edit
    <2> QED
      BY SMTT(30), Zenon, <2>2, <2>3, <2>4, <2>5, <2>6
  <1>3. Types'
    BY <1>1, <1>2 DEF Sound, Types, GroupsOf
  <1> QED
    BY <1>1, <1>3, QuietStep

\* load_full_identities, either search.
LEMMA LoadKeeps ==
  ASSUME Sound, LoadUsers \/ LoadGroups
  PROVE  Sound'
  <1> USE DEF ldapVars, resolverVars, cacheVars, storeVars
  <1>1. /\ alive /\ todo # <<>> /\ Head(todo).op \in Loads /\ todo' = Tail(todo)
        /\ UNCHANGED <<dirUsers, member, memberOf, cache, cacheFile, passwd, group, alive>>
    BY DEF LoadUsers, LoadGroups, At, Loads
  <1>2. rUsers' \subseteq Users /\ DOMAIN rGroups' \subseteq Groups /\ GroupsOf(rMember)'
    <2>1. DOMAIN Nothing = {} /\ GroupsOf(Nothing)
      BY DEF Nothing, GroupsOf
    <2>2. CASE LoadUsers
      BY <2>1, <2>2 DEF LoadUsers, Sound, Types
    <2>3. CASE LoadGroups
      BY <2>3 DEF LoadGroups, Sound, Types, GroupsOf
    <2> QED
      BY <2>2, <2>3
  <1>3. Types'
    BY SMTT(30), Zenon, <1>1, <1>2 DEF Sound, Types, GroupsOf
  <1> QED
    BY <1>1, <1>3, LoadStep

\* The rest of the operation after the task at hand.
LEMMA NextTask ==
  ASSUME Sound, alive, todo # <<>>, Head(todo).op \notin Loads \union {"mat", "write", "ensure"},
         ~Saves(Head(todo)), Head(todo).op \notin {"lookup", "retry"}, todo' = Tail(todo),
         UNCHANGED <<cache, cacheFile, passwd, group, alive>>, Types'
  PROVE  Sound'
  <1>1. Lined(todo') /\ Tasks(todo') = {} \union Tasks(Tail(todo))
    BY Replaces DEF Sound
  <1> QED
    BY <1>1, PlainStep

\* The second lookup of a GRPS, and the repairs after a rebulk.
LEMMA AgainKeeps ==
  ASSUME Sound, GroupsAgain \/ RefreshAll \/ RefreshOne
  PROVE  Sound'
  <1> USE DEF ldapVars, resolverVars, cacheVars, storeVars
  <1> DEFINE h == Head(todo)
             R == Tasks(Tail(todo))
  <1>1. /\ alive /\ todo # <<>> /\ h.op \in {"groups_again", "refresh_all", "refresh"}
        /\ UNCHANGED <<dirUsers, member, memberOf, rUsers, rGroups, rMember, cache, cacheFile, passwd, group, alive>>
    BY Zenon DEF GroupsAgain, RefreshAll, RefreshOne, At
  <1>2. Types'
    BY <1>1 DEF Sound, Types, GroupsOf
  <1>3. h.op \notin Loads \union {"mat", "write", "ensure", "lookup", "retry"} /\ ~Saves(h)
    BY <1>1 DEF Loads, Saves
  <1>4. /\ Tasks(todo) = {h} \union R /\ Lined(Tail(todo))
        /\ \A b \in R : b.op # "write" /\ b.op \notin Gates
        /\ \A pre : Lined(pre) => /\ Lined(pre \o Tail(todo))
                                  /\ Tasks(pre \o Tail(todo)) = Tasks(pre) \union R
    BY <1>1, <1>3, Replaces DEF Sound
  <1>5. Ready(h, Tasks(todo), cache)
    BY Zenon, <1>4 DEF Sound, Fit
  <1>6. CASE GroupsAgain
    <2> DEFINE s == ServeGroups(h.p, FALSE, TRUE)
    <2>1. todo' = s \o Tail(todo) /\ h.op = "groups_again"
      BY <1>6 DEF GroupsAgain, At
    <2>2. h.p \in DOMAIN cache
      <3>1. \A l \in Tasks(todo) : l.op \notin {"lookup", "retry"}
        BY <1>3, <1>4 DEF Gates
      <3> QED
        BY <1>5, <2>1, <3>1 DEF Ready
    <2>3. Lined(s)
      BY Zenon, Serving
    <2>4. Lined(todo') /\ Tasks(todo') = Tasks(s) \union R
      BY Zenon, <1>4, <2>1, <2>3
    <2>5. \A t \in Tasks(s) : Ready(t, Tasks(todo'), cache) /\ Uncommitted(t, Tasks(todo'))
      BY Zenon, <2>2, <2>4, ServingReady
    <2> HIDE DEF s
    <2> QED
      BY Zenon, <1>1, <1>2, <1>3, <2>4, <2>5, PlainStep
  <1>7. CASE RefreshAll
    <2> DEFINE r == [op |-> "refresh", left |-> DOMAIN cache]
               s == <<r>>
    <2>1. todo' = s \o Tail(todo)
      BY <1>7 DEF RefreshAll
    <2>2. Lined(s) /\ Tasks(s) = {r}
      BY OneTask
    <2>3. Lined(todo') /\ Tasks(todo') = Tasks(s) \union R
      BY <1>4, <2>1, <2>2
    <2>4. Ready(r, Tasks(todo'), cache) /\ Uncommitted(r, Tasks(todo'))
      BY DEF Ready, Uncommitted
    <2> HIDE DEF s, r
    <2>5. \A t \in Tasks(s) : Ready(t, Tasks(todo'), cache) /\ Uncommitted(t, Tasks(todo'))
      BY <2>2, <2>4
    <2> QED
      BY <1>1, <1>2, <1>3, <2>3, <2>5, PlainStep
  <1>8. CASE RefreshOne
    <2>1. h.op = "refresh" /\ DOMAIN h = {"op", "left"} /\ h.left \subseteq DOMAIN cache
      BY <1>5, <1>8 DEF RefreshOne, At, Ready
    <2>2. CASE todo' = Tail(todo)
      BY <1>1, <1>2, <1>3, <2>2, NextTask
    <2>3. ASSUME NEW p \in h.left,
                 todo' = ServeGroups(p, FALSE, TRUE) \o <<[h EXCEPT !.left = @ \ {p}]>> \o Tail(todo)
          PROVE  Sound'
      <3> DEFINE s == ServeGroups(p, FALSE, TRUE)
                 r == [h EXCEPT !.left = @ \ {p}]
                 one == <<r>>
                 pre == s \o one
      <3>1. r.op = "refresh" /\ DOMAIN r = {"op", "left"} /\ r.left \subseteq DOMAIN cache
        BY <2>1
      <3> HIDE DEF r
      <3>2. Lined(one) /\ Tasks(one) = {r}
        BY <3>1, OneTask
      <3>3. Lined(s) /\ p \in DOMAIN cache
        BY Zenon, <2>1, Serving
      <3> HIDE DEF s, one
      <3>4. Follows(s, one)
        BY <3>1, <3>2 DEF Follows, Gates
      <3>5. Lined(pre) /\ Tasks(pre) = Tasks(s) \union {r}
        BY <3>2, <3>3, <3>4, Joined
      <3>6. todo' = pre \o Tail(todo)
        BY <2>3 DEF s, r, one
      <3> HIDE DEF pre
      <3>7. Lined(todo') /\ Tasks(todo') = Tasks(pre) \union R
        BY <1>4, <3>5, <3>6
      <3>8. \A t \in Tasks(s) : Ready(t, Tasks(todo'), cache) /\ Uncommitted(t, Tasks(todo'))
        BY Zenon, <3>3, <3>5, <3>7, ServingReady DEF s
      <3>9. Ready(r, Tasks(todo'), cache) /\ Uncommitted(r, Tasks(todo'))
        BY <3>1 DEF Ready, Uncommitted
      <3>10. \A t \in Tasks(pre) : Ready(t, Tasks(todo'), cache) /\ Uncommitted(t, Tasks(todo'))
        BY <3>5, <3>8, <3>9
      <3> QED
        BY Zenon, <1>1, <1>2, <1>3, <3>7, <3>10, PlainStep
    <2> QED
      BY Zenon, <1>8, <2>2, <2>3 DEF RefreshOne
  <1> QED
    BY <1>6, <1>7, <1>8

-----------------------------------------------------------------------------
(***************************************************************************)
(* Resolving a principal for the first time.                               *)
(***************************************************************************)

\* A new entry is empty, is persisted with its groups, and the stores are
\* rewritten after that.
LEMMA AdmitStep ==
  ASSUME Sound, alive, NEW p, NEW rest, Lined(rest), Admit(p, rest),
         \A b \in Tasks(rest) : b.op # "write" /\ b.op \notin Gates,
         \A t \in Tasks(rest) : Ready(t, Tasks(todo'), cache'),
         UNCHANGED <<dirUsers, member, memberOf, rGroups, rMember, cacheFile, passwd, group, alive>>,
         rUsers' \subseteq Users
  PROVE  Sound'
  <1> DEFINE s == ServeGroups(p, TRUE, TRUE)
             L == Tasks(todo')
  <1>1. cache' = With(cache, p, {}) /\ todo' = s \o rest
    BY DEF Admit
  <1>2. GroupsOf(cache') /\ p \in DOMAIN cache'
    BY <1>1 DEF Sound, Types, GroupsOf, With
  <1>3. Types'
    BY <1>2 DEF Sound, Types, GroupsOf
  <1>4. /\ Lined(s) /\ Mat(FALSE) \in Tasks(s)
        /\ [op |-> "discover", p |-> p, fresh |-> TRUE] \in Tasks(s)
    BY Zenon, Serving
  <1>5. Lined(todo') /\ L = Tasks(s) \union Tasks(rest)
    <2>1. Follows(s, rest)
      BY Zenon DEF Follows
    <2> HIDE DEF s
    <2> QED
      BY <1>1, <1>4, <2>1, Joined
  <1>6. Fit(L, cache')
    <2>1. \A t \in Tasks(s) : Ready(t, L, cache') /\ Uncommitted(t, L)
      BY Zenon, <1>2, <1>5, ServingReady
    <2>2. \A t \in Tasks(rest) : Ready(t, L, cache') /\ Uncommitted(t, L)
      BY DEF Uncommitted, Gates
    <2> QED
      BY Zenon, <1>5, <2>1, <2>2 DEF Fit
  <1>7. Served(L, cache', passwd', group')
    <2>1. Mat(FALSE) \in L /\ Mat(FALSE).op = "mat"
      BY Zenon, <1>4, <1>5 DEF Mat
    <2> HIDE DEF L
    <2> QED
      BY Zenon, <2>1, ServedLater
  <1>8. Saved(L, cache', cacheFile')
    <2> DEFINE d == [op |-> "discover", p |-> p, fresh |-> TRUE]
    <2>1. d \in L /\ Saves(d)
      BY Zenon, <1>4, <1>5 DEF Saves
    <2> HIDE DEF L, d
    <2> QED
      BY <2>1 DEF Saved
  <1> QED
    BY <1>3, <1>5, <1>6, <1>7, <1>8 DEF Sound

\* resolve_via_nss, at first and after the reload.
LEMMA LookupKeeps ==
  ASSUME Sound, LookupUser \/ RetryUser
  PROVE  Sound'
  <1> USE DEF ldapVars, resolverVars, cacheVars, storeVars
  <1> DEFINE h == Head(todo)
             R == Tasks(Tail(todo))
  <1>1. /\ alive /\ todo # <<>> /\ h.op \in {"lookup", "retry"}
        /\ UNCHANGED <<dirUsers, member, memberOf, rGroups, rMember, cacheFile, passwd, group, alive>>
    BY Zenon DEF LookupUser, RetryUser, At
  <1>2. h.op \notin Loads \union {"mat", "write", "ensure"} /\ ~Saves(h)
    BY <1>1 DEF Loads, Saves
  <1>3. /\ Tasks(todo) = {h} \union R /\ Lined(Tail(todo))
        /\ \A b \in R : b.op # "write" /\ b.op \notin Gates
        /\ \A pre : Lined(pre) => /\ Lined(pre \o Tail(todo))
                                  /\ Tasks(pre \o Tail(todo)) = Tasks(pre) \union R
    BY <1>1, <1>2, Replaces DEF Sound
  <1>4. /\ h.p \in Users
        /\ \A x \in R : x.op \in Loads \/ (x.op = "groups_again" /\ x.p = h.p)
    <2>1. Ready(h, Tasks(todo), cache) /\ Uncommitted(h, Tasks(todo))
      BY Zenon, <1>3 DEF Sound, Fit
    <2>2. h.op \in Gates
      BY <1>1 DEF Gates
    <2>3. \A x \in R : x # h
      BY <1>3, <2>2
    <2> QED
      BY <1>1, <1>3, <2>1, <2>3 DEF Ready, Uncommitted
  <1>5. rUsers \subseteq Users
    BY Zenon DEF Sound, Types
  <1>6. CASE Admit(h.p, Tail(todo)) /\ rUsers' \subseteq Users
    <2>1. h.p \in DOMAIN cache'
      BY SMTT(30), Zenon, <1>6 DEF Admit, With
    <2>2. \A t \in R : Ready(t, Tasks(todo'), cache')
      BY <1>4, <2>1 DEF Ready, Loads
    <2> QED
      BY <1>1, <1>3, <1>6, <2>2, AdmitStep
  <1>7. CASE /\ todo' = load_full_identities \o <<[op |-> "retry", p |-> h.p]>> \o Tail(todo)
             /\ UNCHANGED <<rUsers, cache>>
    <2> DEFINE r == [op |-> "retry", p |-> h.p]
               one == <<r>>
               pre == load_full_identities \o one
    <2>1. Types'
      BY <1>1, <1>7 DEF Sound, Types, GroupsOf
    <2>2. Lined(one) /\ Tasks(one) = {r} /\ r.op = "retry" /\ r.p = h.p
      BY OneTask
    <2> HIDE DEF r, one
    <2>3. /\ Lined(load_full_identities)
          /\ \A t \in Tasks(load_full_identities) : t.op \in Loads
      BY DEF load_full_identities, Lined, Tasks, Orderly, Guarded, Gates, Loads
    <2>4. Follows(load_full_identities, one)
      BY <2>2, <2>3 DEF Follows
    <2>5. Lined(pre) /\ Tasks(pre) = Tasks(load_full_identities) \union {r}
      BY <2>2, <2>3, <2>4, Joined
    <2>6. todo' = pre \o Tail(todo)
      BY <1>7 DEF r, one
    <2> HIDE DEF pre
    <2>7. Lined(todo') /\ Tasks(todo') = Tasks(pre) \union R
      BY <1>3, <2>5, <2>6
    <2>8. Ready(r, Tasks(todo'), cache) /\ Uncommitted(r, Tasks(todo'))
      <3>1. \A x \in Tasks(todo') : x = r \/ x.op \in Loads \/ (x.op = "groups_again" /\ x.p = r.p)
        BY <1>4, <2>2, <2>3, <2>5, <2>7
      <3> QED
        BY <1>4, <2>2, <3>1 DEF Ready, Uncommitted
    <2>9. \A t \in Tasks(load_full_identities) : Ready(t, Tasks(todo'), cache) /\ Uncommitted(t, Tasks(todo'))
      BY <2>3 DEF Ready, Uncommitted, Loads
    <2>10. \A t \in Tasks(pre) : Ready(t, Tasks(todo'), cache) /\ Uncommitted(t, Tasks(todo'))
      BY <2>5, <2>8, <2>9
    <2>11. \E l \in Tasks(pre) : l.op \in {"lookup", "retry"} /\ l.p = h.p
      BY <2>2, <2>5
    <2> QED
      BY <1>1, <1>2, <1>7, <2>1, <2>7, <2>10, <2>11, PlainStep
  <1>8. CASE todo' = <<>> /\ UNCHANGED <<rUsers, cache>>
    <2>1. Types'
      BY <1>1, <1>8 DEF Sound, Types, GroupsOf
    <2>2. \A x \in Tasks(todo) : x.op \notin {"mat", "write", "ensure", "discover", "save"}
      BY <1>1, <1>3, <1>4 DEF Loads
    <2>3. Served({}, cache, passwd, group)
      <3>1. Served(Tasks(todo), cache, passwd, group)
        BY DEF Sound
      <3> QED
        BY <2>2, <3>1, ServedNow
    <2>4. Saved({}, cache, cacheFile)
      <3>1. Saved(Tasks(todo), cache, cacheFile)
        BY <1>1 DEF Sound
      <3> QED
        BY <2>2, <3>1 DEF Saved, Saves
    <2>5. Fit({}, cache)
      BY DEF Fit
    <2> QED
      BY Zenon, <1>1, <1>8, <2>1, <2>3, <2>4, <2>5, NoTask DEF Sound
  <1> QED
    BY Zenon, <1>4, <1>5, <1>6, <1>7, <1>8 DEF LookupUser, RetryUser

\* The server's own principals.
LEMMA PreresolveKeeps ==
  ASSUME Sound, Preresolve
  PROVE  Sound'
  <1> USE DEF ldapVars, resolverVars, cacheVars, storeVars
  <1> DEFINE h == Head(todo)
             R == Tasks(Tail(todo))
  <1>1. /\ alive /\ todo # <<>> /\ h.op = "preresolve"
        /\ UNCHANGED <<dirUsers, member, memberOf, rUsers, rGroups, rMember, cacheFile, passwd, group, alive>>
    BY DEF Preresolve, At
  <1>2. /\ h.op \notin Loads \union {"mat", "write", "ensure"} /\ ~Saves(h)
        /\ h.op \notin {"lookup", "retry"}
    BY <1>1 DEF Loads, Saves
  <1>3. /\ Tasks(todo) = {h} \union R /\ Lined(Tail(todo))
        /\ \A b \in R : b.op # "write" /\ b.op \notin Gates
        /\ \A pre : Lined(pre) => /\ Lined(pre \o Tail(todo))
                                  /\ Tasks(pre \o Tail(todo)) = Tasks(pre) \union R
    BY <1>1, <1>2, Replaces DEF Sound
  <1>4. DOMAIN h = {"op", "left"}
    <2>1. Ready(h, Tasks(todo), cache)
      BY Zenon, <1>3 DEF Sound, Fit
    <2> QED
      BY <1>1, <2>1 DEF Ready
  <1>5. UNCHANGED cache => Types'
    BY <1>1 DEF Sound, Types, GroupsOf
  <1>6. CASE todo' = Tail(todo) /\ UNCHANGED cache
    BY <1>1, <1>2, <1>5, <1>6, NextTask
  <1>7. ASSUME NEW m \in h.left,
               LET after == <<[h EXCEPT !.left = @ \ {m}]>> \o Tail(todo)
               IN IF m \in DOMAIN cache THEN todo' = after /\ UNCHANGED cache
                                        ELSE Admit(m, after)
        PROVE  Sound'
    <2> DEFINE r == [h EXCEPT !.left = @ \ {m}]
               one == <<r>>
               after == one \o Tail(todo)
    <2>1. r.op = "preresolve" /\ DOMAIN r = {"op", "left"}
      BY <1>1, <1>4
    <2> HIDE DEF r
    <2>2. Lined(one) /\ Tasks(one) = {r}
      BY <2>1, OneTask
    <2>3. IF m \in DOMAIN cache THEN todo' = after /\ UNCHANGED cache ELSE Admit(m, after)
      BY Zenon, <1>7 DEF r
    <2> HIDE DEF one
    <2>4. Lined(after) /\ Tasks(after) = {r} \union R
      BY <1>3, <2>2
    <2> HIDE DEF after
    <2>5. \A L, c : Ready(r, L, c) /\ Uncommitted(r, L)
      BY <2>1 DEF Ready, Uncommitted
    <2>6. CASE m \in DOMAIN cache
      <3>1. Lined(todo') /\ Tasks(todo') = {r} \union R /\ UNCHANGED cache
        BY <2>3, <2>4, <2>6
      <3>2. \A t \in {r} : Ready(t, Tasks(todo'), cache) /\ Uncommitted(t, Tasks(todo'))
        BY <2>5
      <3> QED
        BY Zenon, <1>1, <1>2, <1>5, <3>1, <3>2, PlainStep
    <2>7. CASE m \notin DOMAIN cache
      <3>1. Admit(m, after)
        BY <2>3, <2>7
      <3>2. DOMAIN cache \subseteq DOMAIN cache'
        BY <3>1 DEF Admit, With
      <3>3. \A t \in R : Ready(t, Tasks(todo'), cache')
        <4> TAKE t \in R
        <4>1. Ready(t, Tasks(todo), cache)
          BY Zenon, <1>3 DEF Sound, Fit
        <4>2. t.op \notin {"write", "loaded", "warm", "lookup", "retry", "discover"}
          BY <1>3 DEF Gates
        <4>3. \A l \in Tasks(todo) : l.op \notin {"lookup", "retry"}
          BY <1>2, <1>3 DEF Gates
        <4> QED
          BY <3>2, <4>1, <4>2, <4>3 DEF Ready
      <3>4. \A t \in Tasks(after) : Ready(t, Tasks(todo'), cache')
        BY <2>4, <2>5, <3>3
      <3>5. \A b \in Tasks(after) : b.op # "write" /\ b.op \notin Gates
        BY SMTT(30), Zenon, <1>3, <2>1, <2>4 DEF Gates
      <3>6. rUsers' \subseteq Users
        BY <1>1 DEF Sound, Types
      <3> QED
        BY <1>1, <2>4, <3>1, <3>4, <3>5, <3>6, AdmitStep
    <2> QED
      BY <2>6, <2>7
  <1> QED
    BY Zenon, <1>6, <1>7 DEF Preresolve

\* Between operations the stores serve every entry and the file is the memory.
LEMMA IdleServes ==
  ASSUME Sound, Idle
  PROVE  /\ Tasks(todo) = {} /\ alive /\ cacheFile = cache
         /\ \A L : Served(L, cache, passwd, group)
  <1>1. Tasks(todo) = {} /\ alive
    BY NoTask DEF Idle
  <1>2. cacheFile = cache
    <2>1. Saved({}, cache, cacheFile)
      BY <1>1 DEF Sound
    <2> QED
      BY <2>1 DEF Saved
  <1>3. ASSUME NEW L PROVE Served(L, cache, passwd, group)
    <2>1. Served({}, cache, passwd, group)
      BY <1>1 DEF Sound
    <2> QED
      BY <2>1, ServedNow
  <1> QED
    BY <1>1, <1>2, <1>3

\* An operation begins that finds the memory and the stores as they were.
LEMMA BeginStep ==
  ASSUME Sound, Idle, Lined(todo'), Fit(Tasks(todo'), cache), Types',
         UNCHANGED <<cache, cacheFile, passwd, group, alive>>
  PROVE  Sound'
  <1>1. Served(Tasks(todo'), cache, passwd, group) /\ cacheFile = cache /\ alive
    BY IdleServes
  <1>2. Saved(Tasks(todo'), cache, cacheFile)
    BY <1>1 DEF Saved
  <1> QED
    BY <1>1, <1>2 DEF Sound

\* RESOLVE and GRPS.
LEMMA RequestKeeps ==
  ASSUME Sound, NEW p \in Principals, NEW verb, Request(p, verb)
  PROVE  Sound'
  <1> USE DEF ldapVars, resolverVars, cacheVars, storeVars
  <1> DEFINE g == [op |-> "groups_again", p |-> p]
             again == IF verb = "GRPS" THEN <<g>> ELSE <<>>
  <1>1. /\ Idle /\ alive
        /\ UNCHANGED <<dirUsers, member, memberOf, rUsers, rGroups, rMember, cacheFile, passwd, group, alive>>
    BY DEF Request, Idle
  <1>2. UNCHANGED cache => Types'
    BY <1>1 DEF Sound, Types, GroupsOf
  <1>3. Lined(again) /\ Tasks(again) \subseteq {g} /\ g.op = "groups_again" /\ g.p = p
    BY OneTask, NoTask
  <1>4. \/ todo' = ServeGroups(p, FALSE, FALSE) /\ p \in DOMAIN cache /\ UNCHANGED cache
        \/ Admit(p, again)
        \/ todo' = <<[op |-> "lookup", p |-> p]>> \o again /\ p \in Users /\ UNCHANGED cache
    BY Zenon DEF Request
  <1> HIDE DEF g, again
  <1>5. CASE todo' = ServeGroups(p, FALSE, FALSE) /\ p \in DOMAIN cache /\ UNCHANGED cache
    <2>1. Lined(todo')
      BY Zenon, <1>5, Serving
    <2>2. Fit(Tasks(todo'), cache)
      BY Zenon, <1>5, ServingReady DEF Fit
    <2> QED
      BY <1>1, <1>2, <1>5, <2>1, <2>2, BeginStep
  <1>6. CASE Admit(p, again)
    <2>1. p \in DOMAIN cache'
      BY <1>6 DEF Admit, With
    <2>2. \A t \in Tasks(again) : Ready(t, Tasks(todo'), cache')
      BY <1>3, <2>1 DEF Ready
    <2>3. \A b \in Tasks(again) : b.op # "write" /\ b.op \notin Gates
      BY <1>3 DEF Gates
    <2>4. rUsers' \subseteq Users
      BY <1>1 DEF Sound, Types
    <2> QED
      BY <1>1, <1>3, <1>6, <2>2, <2>3, <2>4, AdmitStep
  <1>7. CASE todo' = <<[op |-> "lookup", p |-> p]>> \o again /\ p \in Users /\ UNCHANGED cache
    <2> DEFINE l == [op |-> "lookup", p |-> p]
               one == <<l>>
    <2>1. l.op = "lookup" /\ l.p = p /\ Lined(one) /\ Tasks(one) = {l}
      BY OneTask
    <2>2. todo' = one \o again
      BY <1>7
    <2> HIDE DEF l, one
    <2>3. Follows(one, again)
      BY <1>3 DEF Follows, Gates
    <2>4. Lined(todo') /\ Tasks(todo') = {l} \union Tasks(again)
      BY <1>3, <2>1, <2>2, <2>3, Joined
    <2>5. Ready(l, Tasks(todo'), cache) /\ Uncommitted(l, Tasks(todo'))
      BY Zenon, <1>3, <1>7, <2>1, <2>4 DEF Ready, Uncommitted
    <2>6. Ready(g, Tasks(todo'), cache) /\ Uncommitted(g, Tasks(todo'))
      BY <1>3, <2>1, <2>4 DEF Ready, Uncommitted
    <2>7. Fit(Tasks(todo'), cache)
      BY <1>3, <2>4, <2>5, <2>6 DEF Fit
    <2> QED
      BY <1>1, <1>2, <1>7, <2>4, <2>7, BeginStep
  <1> QED
    BY Zenon, <1>4, <1>5, <1>6, <1>7

-----------------------------------------------------------------------------
(***************************************************************************)
(* The rebulk.                                                             *)
(***************************************************************************)

\* The tasks of a rebulk.
LEMMA RebulkTasks ==
  /\ Lined(rebulk_ldap_users)
  /\ Tasks(rebulk_ldap_users) \subseteq {[op |-> "users"], [op |-> "groups"], [op |-> "loaded"],
                                        [op |-> "save", changed |-> FALSE]}
  <1> DEFINE users == [op |-> "users"]
             groups == [op |-> "groups"]
             loaded == [op |-> "loaded"]
             save == [op |-> "save", changed |-> FALSE]
             last == <<loaded, save>>
  <1>1. users.op = "users" /\ groups.op = "groups" /\ loaded.op = "loaded" /\ save.op = "save"
    OBVIOUS
  <1>2. /\ Lined(load_full_identities) /\ Tasks(load_full_identities) \subseteq {users, groups}
    BY DEF load_full_identities, Lined, Tasks, Orderly, Guarded, Gates
  <1>3. rebulk_ldap_users = load_full_identities \o last
    BY DEF rebulk_ldap_users
  <1> HIDE DEF users, groups, loaded, save
  <1>4. Tasks(last) = {loaded, save}
    BY DEF Tasks
  <1>5. Lined(last)
    BY <1>1, <1>4 DEF Lined, Orderly, Guarded, Gates
  <1> HIDE DEF last
  <1>6. Follows(load_full_identities, last)
    BY <1>1, <1>2, <1>4 DEF Follows, Loads
  <1>7. /\ Lined(rebulk_ldap_users)
        /\ Tasks(rebulk_ldap_users) = Tasks(load_full_identities) \union Tasks(last)
    BY <1>2, <1>3, <1>5, <1>6, Joined
  <1> QED
    BY <1>2, <1>4, <1>7 DEF users, groups, loaded, save

\* A rebulk begins.
LEMMA RebulkKeeps ==
  ASSUME Sound, Rebulk
  PROVE  Sound'
  <1> USE DEF ldapVars, resolverVars, cacheVars, storeVars
  <1>1. /\ Idle /\ todo' = rebulk_ldap_users
        /\ UNCHANGED <<dirUsers, member, memberOf, rUsers, rGroups, rMember, cache, cacheFile, passwd, group, alive>>
    BY DEF Rebulk
  <1>2. Types'
    BY <1>1 DEF Sound, Types, GroupsOf
  <1>3. \A t \in Tasks(todo') : t.op \in {"users", "groups", "loaded", "save"} /\ (t.op = "save" => ~t.changed)
    BY SMTT(30), Zenon, <1>1, RebulkTasks
  <1>4. Fit(Tasks(todo'), cache)
    BY <1>3 DEF Fit, Ready, Uncommitted, Loads
  <1> QED
    BY <1>1, <1>2, <1>4, RebulkTasks, BeginStep

\* The rest of a rebulk of which only the save is left.
LEMMA Abandoned ==
  ASSUME NEW S, NEW s \in Seq(S), s # <<>>, Head(s).op = "save"
  PROVE  AbandonRebulk(s) = Tail(s)
  <1> DEFINE First(i) == s[i].op = "save" /\ \A j \in 1 .. i - 1 : s[j].op # "save"
             end == CHOOSE i \in 1 .. Len(s) : First(i)
  <1>1. Len(s) \in Nat /\ Len(s) >= 1 /\ Head(s) = s[1]
    OBVIOUS
  <1>2. 1 \in 1 .. Len(s) /\ First(1)
    BY <1>1
  <1>3. \A i \in 1 .. Len(s) : First(i) => i = 1
    <2> TAKE i \in 1 .. Len(s)
    <2> HAVE First(i)
    <2>1. CASE i > 1
      <3>1. 1 \in 1 .. i - 1
        BY <2>1
      <3> QED
        BY <1>1, <3>1
    <2> QED
      BY <2>1
  <1> HIDE DEF First
  <1>4. end \in 1 .. Len(s) /\ First(end)
    BY <1>2
  <1>5. end = 1
    BY <1>3, <1>4
  <1>6. AbandonRebulk(s) = SubSeq(s, end + 1, Len(s))
    BY DEF AbandonRebulk, First
  <1> HIDE DEF end
  <1>7. end + 1 = 2
    BY <1>5
  <1>8. Tail(s) = SubSeq(s, 2, Len(s))
    OBVIOUS
  <1> QED
    BY <1>6, <1>7, <1>8

\* Of the rest of a rebulk that has not applied its load.
LEMMA BulkRest ==
  ASSUME Sound, alive, todo # <<>>, Head(todo).op \in {"loaded", "warm"}
  PROVE  LET R == Tasks(Tail(todo))
             rest == Tail(Tail(todo))
         IN  /\ Tasks(todo) = {Head(todo)} \union R /\ Lined(Tail(todo))
             /\ Tail(todo) # <<>> /\ Head(Tail(todo)).op = "save" /\ ~Head(Tail(todo)).changed
             /\ \A x \in R : /\ x.op \in Loads \union {"save", "preresolve", "mat", "refresh_all"}
                             /\ x.op = "save" => ~x.changed
             /\ R = {Head(Tail(todo))} \union Tasks(rest) /\ Lined(rest)
             /\ Ready(Head(todo), Tasks(todo), cache)
  <1> DEFINE h == Head(todo)
             R == Tasks(Tail(todo))
             rest == Tail(Tail(todo))
  <1>1. /\ Tasks(todo) = {h} \union R /\ Lined(Tail(todo))
        /\ \A b \in R : b.op # "write" /\ b.op \notin Gates
        /\ Tail(todo) # <<>> /\ Head(Tail(todo)).op = "save"
    BY FirstTask DEF Sound, Loads
  <1>2. Ready(h, Tasks(todo), cache) /\ Uncommitted(h, Tasks(todo))
    BY Zenon, <1>1 DEF Sound, Fit
  <1>3. \A x \in R : /\ x.op \in Loads \union {"save", "preresolve", "mat", "refresh_all"}
                     /\ x.op = "save" => ~x.changed
    BY <1>1, <1>2 DEF Uncommitted, Gates
  <1>4. R = {Head(Tail(todo))} \union Tasks(rest) /\ Lined(rest)
    BY Zenon, <1>1, FirstTask
  <1>5. ~Head(Tail(todo)).changed
    BY <1>1, <1>3, <1>4
  <1> QED
    BY <1>1, <1>2, <1>3, <1>4, <1>5

\* The load is looked at, and warmed or given up.
LEMMA BulkKeeps ==
  ASSUME Sound, Loaded \/ WarmUser
  PROVE  Sound'
  <1> USE DEF ldapVars, resolverVars, cacheVars, storeVars
  <1> DEFINE h == Head(todo)
             R == Tasks(Tail(todo))
             s == Head(Tail(todo))
             rest == Tail(Tail(todo))
  <1>1. /\ alive /\ todo # <<>> /\ h.op \in {"loaded", "warm"}
        /\ UNCHANGED <<dirUsers, member, memberOf, rUsers, cache, cacheFile, passwd, group, alive>>
    BY Zenon DEF Loaded, WarmUser, RememberGroups, At
  <1>2. h.op \notin Loads \union {"mat", "write", "ensure"} /\ ~Saves(h) /\ h.op \notin {"lookup", "retry"}
    BY <1>1 DEF Loads, Saves
  <1>3. /\ Tasks(todo) = {h} \union R /\ Lined(Tail(todo))
        /\ Tail(todo) # <<>> /\ s.op = "save" /\ ~s.changed
        /\ \A x \in R : /\ x.op \in Loads \union {"save", "preresolve", "mat", "refresh_all"}
                        /\ x.op = "save" => ~x.changed
        /\ R = {s} \union Tasks(rest) /\ Lined(rest)
        /\ Ready(h, Tasks(todo), cache)
    BY <1>1, BulkRest
  <1>4. ASSUME NEW w, w.op = "warm", DOMAIN w = {"op", "left", "live"}, GroupsOf(w.live),
               todo' = <<w>> \o Tail(todo), Types'
        PROVE  Sound'
    <2>1. Follows(<<w>>, Tail(todo))
      BY <1>3 DEF Follows, Loads, Gates
    <2>2. Lined(todo') /\ Tasks(todo') = {w} \union R
      <3>1. w.op \in {"loaded", "warm"} /\ Head(Tail(todo)).op = "save"
        BY <1>3, <1>4
      <3>2. /\ Lined(<<w>> \o Tail(todo))
            /\ Tasks(<<w>> \o Tail(todo)) = {w} \union Tasks(Tail(todo))
        BY Zenon, <1>3, <2>1, <3>1, BulkTask
      <3> QED
        BY <1>4, <3>2
    <2>3. Ready(w, Tasks(todo'), cache)
      BY <1>4 DEF Ready
    <2>4. Uncommitted(w, Tasks(todo'))
      BY <1>3, <1>4, <2>2 DEF Uncommitted
    <2>5. Types' /\ \A t \in {w} : Ready(t, Tasks(todo'), cache) /\ Uncommitted(t, Tasks(todo'))
      BY <1>4, <2>3, <2>4
    <2> QED
      BY Zenon, <1>1, <1>2, <2>2, <2>5, PlainStep
  <1>5. CASE Loaded /\ rUsers = {}
    <2>1. Types'
      BY <1>1, <1>5 DEF Loaded, Sound, Types, GroupsOf
    <2>2. todo' = rest
      <3>1. todo' = AbandonRebulk(Tail(todo))
        BY <1>5 DEF Loaded
      <3>2. Tail(todo) \in Seq(R)
        BY <1>3 DEF Lined
      <3> QED
        BY Zenon, <1>3, <3>1, <3>2, Abandoned
    <2> DEFINE Q == Tasks(rest)
    <2>3. /\ Fit({h} \union ({s} \union Q), cache) /\ Served({h} \union ({s} \union Q), cache, passwd, group)
          /\ Saved({h} \union ({s} \union Q), cache, cacheFile)
      BY Zenon, <1>1, <1>3 DEF Sound
    <2>4. /\ ~Saves(s) /\ s.op \notin {"mat", "write", "ensure", "lookup", "retry"}
          /\ \A b \in {s} \union Q : b.op # "write" /\ b.op \notin Gates
      BY <1>3 DEF Saves, Loads, Gates
    <2>5. \A S : {} \union S = S
      OBVIOUS
    <2> HIDE DEF h, s, Q
    <2>6. Fit({s} \union Q, cache)
      BY <1>2, <2>3, <2>4, DoneFit
    <2>7. Fit(Q, cache)
      <3>1. s.op \notin {"lookup", "retry"} /\ \A b \in Q : b.op # "write" /\ b.op \notin Gates
        BY <2>4
      <3> QED
        BY <2>6, <3>1, DoneFit
    <2>8. Served(Q, cache, passwd, group)
      <3>1. Served({} \union ({s} \union Q), cache, passwd, group)
        BY Zenon, <1>2, <2>3, ServedStays
      <3>2. Served({s} \union Q, cache, passwd, group)
        BY <2>5, <3>1
      <3>3. Served({} \union Q, cache, passwd, group)
        BY Zenon, <2>4, <3>2, ServedStays
      <3> QED
        BY <2>5, <3>3
    <2>9. Saved(Q, cache, cacheFile)
      <3>1. Saved({} \union ({s} \union Q), cache, cacheFile)
        BY Zenon, <1>2, <2>3, SavedStays
      <3>2. Saved({s} \union Q, cache, cacheFile)
        BY <2>5, <3>1
      <3>3. Saved({} \union Q, cache, cacheFile)
        BY Zenon, <2>4, <3>2, SavedStays
      <3> QED
        BY <2>5, <3>3
    <2> QED
      BY SMTT(30), Zenon, <1>1, <1>3, <2>1, <2>2, <2>7, <2>8, <2>9 DEF Sound, Q
  <1>6. CASE Loaded /\ rUsers # {}
    <2> DEFINE w == [op |-> "warm", left |-> rUsers, live |-> Nothing]
    <2>1. Types'
      BY SMTT(30), Zenon, <1>1, <1>6 DEF Loaded, Sound, Types, GroupsOf
    <2>2. w.op = "warm" /\ DOMAIN w = {"op", "left", "live"} /\ GroupsOf(w.live)
      BY Zenon DEF GroupsOf, Nothing
    <2>3. todo' = <<w>> \o Tail(todo)
      BY <1>6 DEF Loaded
    <2> HIDE DEF w
    <2> QED
      BY <1>4, <2>1, <2>2, <2>3
  <1>7. CASE WarmUser
    <2>1. h.op = "warm" /\ DOMAIN h = {"op", "left", "live"} /\ GroupsOf(h.live)
      BY Zenon, <1>3, <1>7 DEF WarmUser, At, Ready
    <2>2. PICK u \in h.left :
            /\ RememberGroups(u, resolve_groups_for_principal(u))
            /\ todo' = <<[h EXCEPT !.left = @ \ {u},
                                   !.live = With(@, u, resolve_groups_for_principal(u))]>> \o Tail(todo)
      BY Zenon, <1>7 DEF WarmUser
    <2> DEFINE gids == resolve_groups_for_principal(u)
               w == [h EXCEPT !.left = @ \ {u}, !.live = With(@, u, gids)]
    <2>3. gids \in SUBSET Groups
      BY SMTT(30), Zenon, ResolvedGroups DEF Sound
    <2> HIDE DEF gids
    <2>4. DOMAIN rGroups' \subseteq Groups /\ GroupsOf(rMember)'
      BY <2>2, <2>3, RememberedGroups DEF Sound, gids
    <2>5. Types'
      BY <1>1, <2>4 DEF Sound, Types, GroupsOf
    <2>6. w.op = "warm" /\ DOMAIN w = {"op", "left", "live"} /\ w.live = With(h.live, u, gids)
      BY SMTT(30), Zenon, <2>1
    <2>7. GroupsOf(With(h.live, u, gids))
      BY <2>1, <2>3 DEF GroupsOf, With
    <2>8. todo' = <<w>> \o Tail(todo)
      BY <2>2 DEF gids
    <2> HIDE DEF w
    <2> QED
      BY <1>4, <2>5, <2>6, <2>7, <2>8
  <1> QED
    BY <1>5, <1>6, <1>7

\* The tasks of rebulk_apply_sync.
LEMMA SyncTasks ==
  ASSUME NEW a, NEW b, NEW c, NEW d,
         \A t \in {a, b, c, d} : t.op # "write" /\ t.op \notin Gates
  PROVE  Lined(<<a, b, c, d>>) /\ Tasks(<<a, b, c, d>>) = {a, b, c, d}
  <1>1. Tasks(<<a, b, c, d>>) = {a, b, c, d}
    BY DEF Tasks
  <1>2. \A j \in 1 .. 4 : <<a, b, c, d>>[j] \in {a, b, c, d}
    OBVIOUS
  <1>3. Orderly(<<a, b, c, d>>)
    BY <1>2 DEF Orderly
  <1>4. Guarded(<<a, b, c, d>>)
    BY <1>2 DEF Guarded, Gates
  <1> QED
    BY <1>1, <1>3, <1>4 DEF Lined

\* The cache is replaced by the load: the stores are rewritten and, when it
\* changed, the file.
LEMMA SyncKeeps ==
  ASSUME Sound, RebulkSync
  PROVE  Sound'
  <1> USE DEF ldapVars, resolverVars, cacheVars, storeVars
  <1> DEFINE h == Head(todo)
             R == Tasks(Tail(todo))
             s == Head(Tail(todo))
             rest == Tail(Tail(todo))
             m == MatOf(rGroups)
             ra == [op |-> "refresh_all"]
             sv == [op |-> "save", changed |-> cache' # cache]
             four == <<m, ra, m, sv>>
             L == Tasks(todo')
  <1>1. /\ alive /\ todo # <<>> /\ h.op = "warm"
        /\ UNCHANGED <<dirUsers, member, memberOf, rUsers, rGroups, rMember, cacheFile, passwd, group, alive>>
        /\ cache' = sync_user_cache_from_snapshot(h.live) /\ todo' = four \o rest
    BY DEF RebulkSync, At
  <1>2. /\ Tasks(todo) = {h} \union R
        /\ \A x \in R : /\ x.op \in Loads \union {"save", "preresolve", "mat", "refresh_all"}
                        /\ x.op = "save" => ~x.changed
        /\ R = {s} \union Tasks(rest) /\ Lined(rest)
        /\ Ready(h, Tasks(todo), cache)
    BY <1>1, BulkRest
  <1>3. m.op = "mat" /\ ra.op = "refresh_all" /\ sv.op = "save" /\ (sv.changed <=> cache' # cache)
    BY Zenon DEF MatOf
  <1> HIDE DEF m, ra, sv
  <1>4. Lined(four) /\ Tasks(four) = {m, ra, m, sv}
    BY <1>3, SyncTasks DEF Gates
  <1> HIDE DEF four
  <1>5. Lined(todo') /\ L = {m, ra, m, sv} \union Tasks(rest)
    <2>1. Follows(four, rest)
      BY <1>2 DEF Follows, Loads, Gates
    <2> QED
      BY <1>1, <1>2, <1>4, <2>1, Joined
  <1>6. GroupsOf(cache')
    <2>1. GroupsOf(h.live)
      BY SMTT(30), Zenon, <1>1, <1>2 DEF Ready
    <2>2. GroupsOf(cache) /\ DOMAIN rGroups \subseteq Groups /\ rUsers \subseteq Users
      BY DEF Sound, Types
    <2>3. Users \intersect Machines = {}
      BY NssAssumption
    <2>4. DOMAIN cache' = rUsers \union (DOMAIN cache \intersect Machines)
      BY <1>1 DEF sync_user_cache_from_snapshot
    <2>5. ASSUME NEW p \in DOMAIN cache' PROVE cache'[p] \in SUBSET Groups
      <3>1. CASE p \in Machines
        <4>1. p \in DOMAIN cache /\ cache'[p] = cache[p]
          BY <1>1, <2>2, <2>3, <2>4, <3>1 DEF sync_user_cache_from_snapshot
        <4> QED
          BY <2>2, <4>1 DEF GroupsOf
      <3>2. CASE p \notin Machines
        <4>1. cache'[p] = {g \in DOMAIN rGroups : p \in rGroups[g]}
                            \union (IF p \in DOMAIN h.live THEN h.live[p] ELSE {})
          BY <1>1, <2>4, <3>2 DEF sync_user_cache_from_snapshot
        <4>2. p \in DOMAIN h.live => h.live[p] \in SUBSET Groups
          BY <2>1 DEF GroupsOf
        <4> QED
          BY <2>2, <4>1, <4>2
      <3> QED
        BY <3>1, <3>2
    <2>6. cache' = [p \in DOMAIN cache' |-> cache'[p]]
      BY <1>1 DEF sync_user_cache_from_snapshot
    <2> QED
      BY <2>5, <2>6 DEF GroupsOf
  <1>7. Types'
    BY <1>1, <1>6 DEF Sound, Types, GroupsOf
  <1>8. \A t \in L : t.op \in Loads \union {"save", "preresolve", "mat", "refresh_all"}
    BY SMTT(30), Zenon, <1>2, <1>3, <1>5
  <1>9. Fit(L, cache')
    <2> SUFFICES ASSUME NEW t \in L PROVE Ready(t, L, cache') /\ Uncommitted(t, L)
      BY DEF Fit
    <2>1. t.op \in {"users", "groups", "save", "preresolve", "mat", "refresh_all"}
      BY SMTT(30), Zenon, <1>8 DEF Loads
    <2>2. t.op = "preresolve" => DOMAIN t = {"op", "left"}
      <3> SUFFICES ASSUME t.op = "preresolve" PROVE DOMAIN t = {"op", "left"}
        OBVIOUS
      <3>1. t \in Tasks(todo)
        BY <1>2, <1>3, <1>5
      <3>2. Ready(t, Tasks(todo), cache)
        BY <3>1 DEF Sound, Fit
      <3> QED
        BY <3>2 DEF Ready
    <2> QED
      BY <2>1, <2>2 DEF Ready, Uncommitted
  <1>10. Served(L, cache', passwd', group')
    <2>1. m \in L
      BY <1>5
    <2> HIDE DEF L
    <2> QED
      BY <1>3, <2>1, ServedLater
  <1>11. Saved(L, cache', cacheFile')
    <2>1. cacheFile = cache
      <3>1. Saved(Tasks(todo), cache, cacheFile)
        BY <1>1 DEF Sound
      <3>2. \A t \in Tasks(todo) : ~Saves(t)
        BY Zenon, <1>1, <1>2 DEF Saves, Loads
      <3> QED
        BY <3>1, <3>2 DEF Saved
    <2>2. CASE cache' = cache
      BY <1>1, <2>1, <2>2 DEF Saved
    <2>3. CASE cache' # cache
      <3>1. sv \in L /\ Saves(sv)
        BY <1>3, <1>5, <2>3 DEF Saves
      <3> QED
        BY <3>1 DEF Saved
    <2> QED
      BY <2>2, <2>3
  <1> QED
    BY SMTT(30), Zenon, <1>1, <1>5, <1>7, <1>9, <1>10, <1>11 DEF Sound

\* The cache's file is replaced.
LEMMA SaveKeeps ==
  ASSUME Sound, SaveCache, ~Spend("fail")
  PROVE  Sound'
  <1> USE DEF ldapVars, resolverVars, cacheVars, storeVars
  <1> DEFINE h == Head(todo)
             R == Tasks(Tail(todo))
  <1>1. /\ alive /\ todo # <<>> /\ h.op = "save" /\ todo' = Tail(todo)
        /\ UNCHANGED <<dirUsers, member, memberOf, rUsers, rGroups, rMember, cache, passwd, group, alive>>
        /\ IF h.changed THEN cacheFile' = cache ELSE UNCHANGED cacheFile
    BY DEF SaveCache, At, Persist
  <1>2. h.op \notin Loads \union {"mat", "write", "ensure"} /\ h.op \notin {"lookup", "retry"}
    BY <1>1 DEF Loads
  <1>3. Types'
    BY <1>1 DEF Sound, Types, GroupsOf
  <1>4. CASE ~h.changed
    <2>1. ~Saves(h)
      BY <1>1, <1>4 DEF Saves
    <2> QED
      BY <1>1, <1>2, <1>3, <1>4, <2>1, NextTask
  <1>5. CASE h.changed
    <2>1. /\ Tasks(todo) = {h} \union R /\ Lined(todo') /\ Tasks(todo') = R
          /\ \A b \in R : b.op # "write" /\ b.op \notin Gates
      BY <1>1, <1>2, Replaces DEF Sound
    <2>2. Fit({h} \union R, cache) /\ Served({h} \union R, cache, passwd, group)
      BY <2>1 DEF Sound
    <2>3. {} \union R = R
      OBVIOUS
    <2> HIDE DEF h, R
    <2>4. Fit(R, cache)
      BY <1>2, <2>1, <2>2, DoneFit
    <2>5. Served({} \union R, cache, passwd, group)
      BY Zenon, <1>2, <2>2, ServedStays
    <2>6. Saved(R, cache, cacheFile')
      BY <1>1, <1>5 DEF Saved
    <2> QED
      BY <1>1, <1>3, <2>1, <2>3, <2>4, <2>5, <2>6 DEF Sound
  <1> QED
    BY <1>4, <1>5

-----------------------------------------------------------------------------
(***************************************************************************)
(* The entries and the stores.                                             *)
(***************************************************************************)

\* The groups found are added to the entry, which is persisted when it is new
\* or has grown; the rows that lack it are repaired next.
LEMMA DiscoverKeeps ==
  ASSUME Sound, Discover, ~Spend("fail")
  PROVE  Sound'
  <1> USE DEF ldapVars, resolverVars, cacheVars, storeVars
  <1> DEFINE h == Head(todo)
             R == Tasks(Tail(todo))
             p == h.p
             found == resolve_groups_for_principal(p) \union (IF p \in Machines THEN cache[p] ELSE {})
             gids == found \union cache[p]
  <1>1. /\ alive /\ todo # <<>> /\ h.op = "discover" /\ todo' = Tail(todo)
        /\ UNCHANGED <<dirUsers, member, memberOf, passwd, group, alive>>
    BY SMTT(30), Zenon DEF Discover, At
  <1>2. /\ RememberGroups(p, found) /\ cache' = [cache EXCEPT ![p] = gids]
        /\ IF h.fresh \/ gids # cache[p] THEN cacheFile' = cache' ELSE UNCHANGED cacheFile
    BY Zenon DEF Discover, Persist
  <1>3. h.op \notin Loads \union {"mat", "write", "ensure"} /\ h.op \notin {"lookup", "retry"}
    BY <1>1 DEF Loads
  <1>4. /\ Tasks(todo) = {h} \union R /\ Lined(todo') /\ Tasks(todo') = R
        /\ \A b \in R : b.op # "write" /\ b.op \notin Gates
    BY <1>1, <1>3, Replaces DEF Sound
  <1>5. p \in DOMAIN cache /\ \E e \in R : e.op = "ensure" /\ e.p = p
    <2>1. Ready(h, {h} \union R, cache)
      BY Zenon, <1>4 DEF Sound, Fit
    <2> QED
      BY <1>1, <1>3, <2>1 DEF Ready
  <1>6. found \in SUBSET Groups /\ gids \in SUBSET Groups /\ cache[p] \subseteq gids
    <2>1. cache[p] \in SUBSET Groups
      BY <1>5 DEF Sound, Types, GroupsOf
    <2>2. resolve_groups_for_principal(p) \subseteq Groups
      BY SMTT(30), Zenon, ResolvedGroups DEF Sound
    <2> QED
      BY <2>1, <2>2
  <1>7. rUsers' = rUsers
    BY Zenon, <1>2 DEF RememberGroups
  <1> HIDE DEF found, gids, p
  <1>8. DOMAIN rGroups' \subseteq Groups /\ GroupsOf(rMember)'
    BY <1>2, <1>6, RememberedGroups DEF Sound
  <1>9. DOMAIN cache' = DOMAIN cache /\ GroupsOf(cache')
    BY Zenon, <1>2, <1>6 DEF Sound, Types, GroupsOf
  <1>10. Types'
    BY <1>1, <1>2, <1>7, <1>8, <1>9 DEF Sound, Types, GroupsOf
  <1>11. Fit(R, cache')
    <2>1. Fit({h} \union R, cache)
      BY SMTT(30), Zenon, <1>4 DEF Sound
    <2> HIDE DEF h, R
    <2> QED
      BY <1>3, <1>4, <1>9, <2>1, DoneFit
  <1>12. Served(R, cache', passwd, group)
    <2>1. Served({h} \union R, cache, passwd, group)
      BY <1>4 DEF Sound
    <2>2. {} \union R = R
      OBVIOUS
    <2> HIDE DEF h, R
    <2>3. Served({} \union R, cache, passwd, group)
      BY Zenon, <1>3, <2>1, ServedStays
    <2>4. Served(R, cache, passwd, group)
      BY <2>2, <2>3
    <2> SUFFICES ASSUME NEW d \in Dirs, NEW q \in DOMAIN cache
                 PROVE  /\ q \in passwd[d] \/ \E t \in R : Rewrites(t, "passwd", d)
                        /\ \A g \in cache'[q] :
                             \/ Login(q) \in group[d][g]
                             \/ \E t \in R : Rewrites(t, "group", d) \/ (t.op = "ensure" /\ t.p = q)
      BY Zenon, <1>9 DEF Served
    <2>5. q \in passwd[d] \/ \E t \in R : Rewrites(t, "passwd", d)
      BY Zenon, <2>4 DEF Served
    <2>6. CASE q = p
      BY <1>5, <2>5, <2>6
    <2>7. CASE q # p
      <3>1. cache'[q] = cache[q]
        BY <1>2, <2>7
      <3>2. \A g \in cache[q] :
              \/ Login(q) \in group[d][g]
              \/ \E t \in R : Rewrites(t, "group", d) \/ (t.op = "ensure" /\ t.p = q)
        BY Zenon, <2>4 DEF Served
      <3> QED
        BY <2>5, <3>1, <3>2
    <2> QED
      BY <2>6, <2>7
  <1>13. Saved(R, cache', cacheFile')
    <2>1. CASE h.fresh \/ gids # cache[p]
      BY <1>2, <2>1 DEF Saved
    <2>2. CASE ~(h.fresh \/ gids # cache[p])
      <3>1. cache' = cache
        <4>1. cache = [q \in DOMAIN cache |-> cache[q]]
          BY DEF Sound, Types, GroupsOf
        <4> QED
          BY <1>2, <2>2, <4>1
      <3>2. Saved({h} \union R, cache, cacheFile) /\ ~Saves(h)
        BY <1>1, <1>4, <2>2 DEF Sound, Saves
      <3>3. {} \union R = R
        OBVIOUS
      <3> HIDE DEF h, R
      <3>4. Saved({} \union R, cache, cacheFile)
        BY Zenon, <3>2, SavedStays
      <3> QED
        BY <1>2, <2>2, <3>1, <3>3, <3>4
    <2> QED
      BY <2>1, <2>2
  <1> QED
    BY SMTT(30), Zenon, <1>1, <1>4, <1>10, <1>11, <1>12, <1>13 DEF Sound

\* The files that differ from what is to be shown are the ones replaced.
LEMMA OutdatedFiles ==
  ASSUME NEW rows
  PROVE  LET files == Outdated(rows)
         IN  /\ files \in Seq(File)
             /\ \A d \in Dirs :
                  /\ passwd[d] # DOMAIN cache => [kind |-> "passwd", dir |-> d] \in Tasks(files)
                  /\ group[d] # rows => [kind |-> "group", dir |-> d] \in Tasks(files)
  <1> DEFINE Pf(d) == [kind |-> "passwd", dir |-> d]
             Gf(d) == [kind |-> "group", dir |-> d]
             P(d) == IF passwd[d] # DOMAIN cache THEN <<Pf(d)>> ELSE <<>>
             G(d) == IF group[d] # rows THEN <<Gf(d)>> ELSE <<>>
  <1>1. ASSUME NEW d \in Dirs
        PROVE  /\ P(d) \in Seq(File) /\ (passwd[d] # DOMAIN cache => Pf(d) \in Tasks(P(d)))
               /\ G(d) \in Seq(File) /\ (group[d] # rows => Gf(d) \in Tasks(G(d)))
    <2>1. Pf(d) \in File /\ Gf(d) \in File
      BY DEF File
    <2> HIDE DEF Pf, Gf
    <2>2. P(d) \in Seq(File) /\ G(d) \in Seq(File)
      BY <2>1
    <2> QED
      BY <2>2, OneTask
  <1>2. Outdated(rows) = P("nss") \o G("nss") \o P("extrausers") \o G("extrausers")
    BY DEF Outdated
  <1>3. Dirs = {"nss", "extrausers"}
    BY DEF Dirs
  <1> DEFINE a == P("nss") \o G("nss")
             b == a \o P("extrausers")
             c == b \o G("extrausers")
  <1> HIDE DEF P, G
  <1>4. a \in Seq(File) /\ Tasks(a) = Tasks(P("nss")) \union Tasks(G("nss"))
    BY <1>1, <1>3, JoinedTasks
  <1> HIDE DEF a
  <1>5. b \in Seq(File) /\ Tasks(b) = Tasks(a) \union Tasks(P("extrausers"))
    BY <1>1, <1>3, <1>4, JoinedTasks
  <1> HIDE DEF b
  <1>6. c \in Seq(File) /\ Tasks(c) = Tasks(b) \union Tasks(G("extrausers"))
    BY <1>1, <1>3, <1>5, JoinedTasks
  <1>7. Outdated(rows) = c
    BY <1>2 DEF a, b, c
  <1> HIDE DEF c, Pf, Gf
  <1>8. \A d \in Dirs : /\ passwd[d] # DOMAIN cache => Pf(d) \in Tasks(c)
                        /\ group[d] # rows => Gf(d) \in Tasks(c)
    BY <1>1, <1>3, <1>4, <1>5, <1>6
  <1> QED
    BY Zenon, <1>6, <1>7, <1>8 DEF Pf, Gf

\* The content of the stores is built from the entries as they are.
LEMMA MaterializeKeeps ==
  ASSUME Sound, Materialize
  PROVE  Sound'
  <1> USE DEF ldapVars, resolverVars, cacheVars, storeVars
  <1> DEFINE h == Head(todo)
             R == Tasks(Tail(todo))
             rows == build_nss_snapshot(IF h.fixed THEN h.groups ELSE rGroups)
             files == Outdated(rows)
             w == [op |-> "write", files |-> files, rows |-> rows, strict |-> h.strict]
             pre == IF files = <<>> THEN <<>> ELSE <<w>>
             N == IF files = <<>> THEN {} ELSE {w}
  <1>1. /\ alive /\ todo # <<>> /\ h.op = "mat" /\ todo' = pre \o Tail(todo)
        /\ UNCHANGED <<dirUsers, member, memberOf, rUsers, rGroups, rMember, cache, cacheFile, passwd, group, alive>>
    BY DEF Materialize, At
  <1>2. h.op \notin Loads /\ h.op \notin {"lookup", "retry"} /\ ~Saves(h)
    BY SMTT(30), Zenon, <1>1 DEF Loads, Saves
  <1>3. /\ Tasks(todo) = {h} \union R
        /\ \A b \in R : b.op # "write" /\ b.op \notin Gates
        /\ \A s : Lined(s) => /\ Lined(s \o Tail(todo))
                              /\ Tasks(s \o Tail(todo)) = Tasks(s) \union R
    BY Zenon, <1>1, <1>2, Replaces DEF Sound
  <1>4. Types'
    BY <1>1 DEF Sound, Types, GroupsOf
  <1>5. /\ DOMAIN rows = Groups
        /\ \A p \in DOMAIN cache : \A g \in cache[p] : Login(p) \in rows[g]
    <2>1. GroupsOf(cache)
      BY DEF Sound, Types
    <2>2. \A p \in DOMAIN cache : \A g \in cache[p] : g \in Groups
      BY SMTT(30), Zenon, <2>1 DEF GroupsOf
    <2> QED
      BY <2>2 DEF build_nss_snapshot
  <1> HIDE DEF rows
  <1>6. /\ files \in Seq(File)
        /\ \A d \in Dirs :
             /\ passwd[d] # DOMAIN cache => [kind |-> "passwd", dir |-> d] \in Tasks(files)
             /\ group[d] # rows => [kind |-> "group", dir |-> d] \in Tasks(files)
    BY OutdatedFiles
  <1> HIDE DEF files
  <1>7. /\ w.op = "write" /\ DOMAIN w = {"op", "files", "rows", "strict"}
        /\ w.files = files /\ w.rows = rows
    OBVIOUS
  <1> HIDE DEF w
  <1>8. Lined(pre) /\ Tasks(pre) = N
    BY Zenon, <1>7, OneTask, NoTask
  <1>9. Lined(todo') /\ Tasks(todo') = N \union R
    BY <1>1, <1>3, <1>8
  <1>10. Fit(N \union R, cache)
    <2>1. Fit({h} \union R, cache)
      BY <1>3 DEF Sound
    <2>2. \A t \in N : Ready(t, N \union R, cache) /\ Uncommitted(t, N \union R)
      <3>1. files # <<>> => Ready(w, N \union R, cache) /\ Uncommitted(w, N \union R)
        BY <1>5, <1>6, <1>7 DEF Ready, Uncommitted
      <3> QED
        BY SMTT(30), Zenon, <3>1
    <2>3. DOMAIN cache \subseteq DOMAIN cache
      OBVIOUS
    <2> HIDE DEF h, R, N
    <2> QED
      BY Zenon, <1>2, <1>3, <2>1, <2>2, <2>3, ReplacedFit
  <1>11. Served(N \union R, cache, passwd, group)
    <2> SUFFICES ASSUME NEW d \in Dirs, NEW p \in DOMAIN cache
                 PROVE  /\ p \in passwd[d] \/ \E t \in N \union R : Rewrites(t, "passwd", d)
                        /\ \A g \in cache[p] :
                             \/ Login(p) \in group[d][g]
                             \/ \E t \in N \union R : Rewrites(t, "group", d) \/ (t.op = "ensure" /\ t.p = p)
      BY Zenon DEF Served
    <2>1. ASSUME NEW kind, [kind |-> kind, dir |-> d] \in Tasks(files)
          PROVE  \E t \in N \union R : Rewrites(t, kind, d)
      <3>1. files # <<>>
        BY <2>1, NoTask
      <3>2. w \in N \union R
        BY <3>1
      <3>3. Rewrites(w, kind, d)
        BY <1>7, <2>1 DEF Rewrites
      <3> QED
        BY <3>2, <3>3
    <2>2. p \in passwd[d] \/ \E t \in N \union R : Rewrites(t, "passwd", d)
      <3>1. CASE passwd[d] = DOMAIN cache
        BY <3>1
      <3>2. CASE passwd[d] # DOMAIN cache
        BY Zenon, <1>6, <2>1, <3>2
      <3> QED
        BY <3>1, <3>2
    <2>3. CASE group[d] = rows
      BY SMTT(30), Zenon, <1>5, <2>2, <2>3
    <2>4. CASE group[d] # rows
      <3>1. \E t \in N \union R : Rewrites(t, "group", d)
        BY Zenon, <1>6, <2>1, <2>4
      <3> QED
        BY <2>2, <3>1
    <2> QED
      BY <2>3, <2>4
  <1>12. Saved(N \union R, cache, cacheFile)
    <2>1. Saved({h} \union R, cache, cacheFile)
      BY <1>1, <1>3 DEF Sound
    <2> HIDE DEF h, R, N
    <2> QED
      BY Zenon, <1>2, <2>1, SavedStays
  <1> QED
    BY Zenon, <1>1, <1>4, <1>9, <1>10, <1>11, <1>12 DEF Sound

\* The files left after the first.
LEMMA FilesLeft ==
  ASSUME NEW S, NEW s \in Seq(S), s # <<>>
  PROVE  /\ Head(s) \in S /\ Tail(s) \in Seq(S) /\ Tasks(s) = {Head(s)} \union Tasks(Tail(s))
         /\ Len(s) = 1 => Tasks(Tail(s)) = {}
         /\ Len(s) # 1 => Tail(s) # <<>>
  <1> DEFINE r == Tail(s)
  <1>1. /\ Len(s) \in Nat /\ Len(s) >= 1 /\ Head(s) = s[1] /\ s[1] \in S
        /\ r \in Seq(S) /\ Len(r) = Len(s) - 1 /\ \A i \in 1 .. Len(r) : r[i] = s[i + 1]
    OBVIOUS
  <1> HIDE DEF r
  <1>2. Len(s) # 1 => r # <<>>
    <2>1. Len(<<>>) = 0
      OBVIOUS
    <2>2. Len(s) # 1 => Len(r) # 0
      BY <1>1
    <2> QED
      BY <2>1, <2>2
  <1>3. ASSUME NEW x \in Tasks(s) PROVE x \in {Head(s)} \union Tasks(r)
    <2>1. PICK i \in 1 .. Len(s) : x = s[i]
      BY DEF Tasks
    <2>2. CASE i = 1
      BY SMTT(30), Zenon, <1>1, <2>1, <2>2
    <2>3. CASE i # 1
      <3>1. i - 1 \in 1 .. Len(r) /\ (i - 1) + 1 = i
        BY <1>1, <2>3
      <3>2. r[i - 1] = x
        BY <1>1, <2>1, <3>1
      <3> QED
        BY <3>1, <3>2 DEF Tasks
    <2> QED
      BY <2>2, <2>3
  <1>4. Head(s) \in Tasks(s)
    BY <1>1 DEF Tasks
  <1>5. ASSUME NEW x \in Tasks(r) PROVE x \in Tasks(s)
    <2>1. PICK i \in 1 .. Len(r) : x = r[i]
      BY DEF Tasks
    <2>2. i + 1 \in 1 .. Len(s) /\ s[i + 1] = x
      BY <1>1, <2>1
    <2> QED
      BY <2>2 DEF Tasks
  <1>6. Len(s) = 1 => Tasks(r) = {}
    BY <1>1 DEF Tasks
  <1> QED
    BY <1>1, <1>2, <1>3, <1>4, <1>5, <1>6 DEF r

\* A rewrite with files left and a row for every entry is ready.
LEMMA WriteReady ==
  ASSUME NEW t, NEW L, NEW c, t.op = "write", DOMAIN t = {"op", "files", "rows", "strict"},
         t.files \in Seq(File), t.files # <<>>, DOMAIN t.rows = Groups,
         \A p \in DOMAIN c : \A g \in c[p] : Login(p) \in t.rows[g]
  PROVE  Ready(t, L, c) /\ Uncommitted(t, L)
  <1>1. t.op \notin {"discover", "refresh", "preresolve", "lookup", "retry", "groups_again", "loaded", "warm"}
    OBVIOUS
  <1> QED
    BY Zenon, <1>1 DEF Ready, Uncommitted

\* One file is replaced.
LEMMA WriteKeeps ==
  ASSUME Sound, WriteStore
  PROVE  Sound'
  <1> USE DEF ldapVars, resolverVars, cacheVars, storeVars
  <1> DEFINE h == Head(todo)
             R == Tasks(Tail(todo))
             f == Head(h.files)
             w == [h EXCEPT !.files = Tail(@)]
             N == IF Len(h.files) = 1 THEN {} ELSE {w}
  <1>1. /\ alive /\ todo # <<>> /\ h.op = "write"
        /\ todo' = IF Len(h.files) = 1 THEN Tail(todo) ELSE <<w>> \o Tail(todo)
        /\ passwd' = IF f.kind = "passwd" THEN [passwd EXCEPT ![f.dir] = DOMAIN cache] ELSE passwd
        /\ group' = IF f.kind = "group" THEN [group EXCEPT ![f.dir] = h.rows] ELSE group
        /\ UNCHANGED <<dirUsers, member, memberOf, rUsers, rGroups, rMember, cache, cacheFile, alive>>
    BY DEF WriteStore, At
  <1>2. h.op \notin Loads /\ h.op \notin {"lookup", "retry"} /\ ~Saves(h)
    BY SMTT(30), Zenon, <1>1 DEF Loads, Saves
  <1>3. /\ Tasks(todo) = {h} \union R /\ Lined(Tail(todo))
        /\ \A b \in R : b.op # "write" /\ b.op \notin Gates
        /\ \A s : Lined(s) => /\ Lined(s \o Tail(todo))
                              /\ Tasks(s \o Tail(todo)) = Tasks(s) \union R
    BY Zenon, <1>1, <1>2, Replaces DEF Sound
  <1>4. /\ DOMAIN h = {"op", "files", "rows", "strict"}
        /\ h.files \in Seq(File) /\ h.files # <<>> /\ DOMAIN h.rows = Groups
        /\ \A p \in DOMAIN cache : \A g \in cache[p] : Login(p) \in h.rows[g]
    <2>1. Ready(h, Tasks(todo), cache)
      BY Zenon, <1>3 DEF Sound, Fit
    <2> QED
      BY <1>1, <2>1 DEF Ready
  <1>5. /\ f \in File /\ Tail(h.files) \in Seq(File)
        /\ Tasks(h.files) = {f} \union Tasks(Tail(h.files))
        /\ Len(h.files) = 1 => Tasks(Tail(h.files)) = {}
        /\ Len(h.files) # 1 => Tail(h.files) # <<>>
    BY <1>4, FilesLeft
  <1>6. /\ w.op = "write" /\ DOMAIN w = {"op", "files", "rows", "strict"}
        /\ w.files = Tail(h.files) /\ w.rows = h.rows
    BY <1>1, <1>4
  <1> HIDE DEF w, f
  <1>7. Lined(todo') /\ Tasks(todo') = N \union R
    <2>1. CASE Len(h.files) = 1
      BY <1>1, <1>3, <2>1
    <2>2. CASE Len(h.files) # 1
      <3>1. Lined(<<w>>) /\ Tasks(<<w>>) = {w}
        BY <1>6, OneTask
      <3> QED
        BY <1>1, <1>3, <2>2, <3>1
    <2> QED
      BY <2>1, <2>2
  <1>8. f.kind \in {"passwd", "group"} /\ f.dir \in Dirs /\ f = [kind |-> f.kind, dir |-> f.dir]
    BY SMTT(30), Zenon, <1>5 DEF File
  <1>9. DOMAIN passwd = Dirs /\ DOMAIN group = Dirs /\ \A d \in Dirs : DOMAIN group[d] = Groups
    BY DEF Sound, Types
  <1>10. DOMAIN passwd' = Dirs /\ DOMAIN group' = Dirs /\ \A d \in Dirs : DOMAIN group'[d] = Groups
    BY <1>1, <1>4, <1>8, <1>9
  <1>11. Types'
    BY <1>1, <1>10 DEF Sound, Types, GroupsOf
  <1>12. Fit(N \union R, cache)
    <2>1. Fit({h} \union R, cache)
      BY <1>3 DEF Sound
    <2>2. \A t \in N : Ready(t, N \union R, cache) /\ Uncommitted(t, N \union R)
      <3>1. Len(h.files) # 1 => Ready(w, N \union R, cache) /\ Uncommitted(w, N \union R)
        BY Zenon, <1>4, <1>5, <1>6, WriteReady
      <3> QED
        BY <3>1
    <2>3. DOMAIN cache \subseteq DOMAIN cache
      OBVIOUS
    <2> HIDE DEF h, R, N
    <2> QED
      BY Zenon, <1>2, <1>3, <2>1, <2>2, <2>3, ReplacedFit
  <1>13. Served(N \union R, cache, passwd', group')
    <2> SUFFICES ASSUME NEW d \in Dirs, NEW p \in DOMAIN cache
                 PROVE  /\ p \in passwd'[d] \/ \E t \in N \union R : Rewrites(t, "passwd", d)
                        /\ \A g \in cache[p] :
                             \/ Login(p) \in group'[d][g]
                             \/ \E t \in N \union R : Rewrites(t, "group", d) \/ (t.op = "ensure" /\ t.p = p)
      BY Zenon DEF Served
    <2>1. ASSUME NEW kind, NEW t \in {h} \union R, Rewrites(t, kind, d), f # [kind |-> kind, dir |-> d]
          PROVE  \E u \in N \union R : Rewrites(u, kind, d)
      <3>1. CASE t \in R
        BY <2>1, <3>1
      <3>2. CASE t = h
        <4>1. [kind |-> kind, dir |-> d] \in Tasks(Tail(h.files))
          BY <1>1, <1>5, <2>1, <3>2 DEF Rewrites
        <4>2. w \in N \union R
          BY <1>5, <4>1
        <4>3. Rewrites(w, kind, d)
          BY <1>6, <4>1 DEF Rewrites
        <4> QED
          BY SMTT(30), Zenon, <4>2, <4>3
      <3> QED
        BY <3>1, <3>2
    <2>2. /\ p \in passwd[d] \/ \E t \in {h} \union R : Rewrites(t, "passwd", d)
          /\ \A g \in cache[p] :
               \/ Login(p) \in group[d][g]
               \/ \E t \in {h} \union R : Rewrites(t, "group", d) \/ (t.op = "ensure" /\ t.p = p)
      <3>1. Served({h} \union R, cache, passwd, group)
        BY SMTT(30), Zenon, <1>3 DEF Sound
      <3> QED
        BY Zenon, <3>1 DEF Served
    <2>3. p \in passwd'[d] \/ \E t \in N \union R : Rewrites(t, "passwd", d)
      <3>1. CASE f = [kind |-> "passwd", dir |-> d]
        BY SMTT(30), Zenon, <1>1, <1>8, <1>9, <3>1
      <3>2. CASE f # [kind |-> "passwd", dir |-> d]
        <4>1. passwd'[d] = passwd[d]
          BY SMTT(30), Zenon, <1>1, <1>8, <1>9, <3>2
        <4> QED
          BY <2>1, <2>2, <3>2, <4>1
      <3> QED
        BY <3>1, <3>2
    <2>4. ASSUME NEW g \in cache[p]
          PROVE  \/ Login(p) \in group'[d][g]
                 \/ \E t \in N \union R : Rewrites(t, "group", d) \/ (t.op = "ensure" /\ t.p = p)
      <3>1. CASE f = [kind |-> "group", dir |-> d]
        <4>1. group'[d] = h.rows
          BY SMTT(30), Zenon, <1>1, <1>8, <1>9, <3>1
        <4> QED
          BY <1>4, <4>1
      <3>2. CASE f # [kind |-> "group", dir |-> d]
        <4>1. group'[d] = group[d]
          BY <1>1, <1>8, <1>9, <3>2
        <4>2. CASE Login(p) \in group[d][g]
          BY SMTT(30), Zenon, <4>1, <4>2
        <4>3. ASSUME NEW t \in {h} \union R, Rewrites(t, "group", d)
              PROVE  \E u \in N \union R : Rewrites(u, "group", d)
          BY <2>1, <3>2, <4>3
        <4>4. ASSUME NEW t \in {h} \union R, t.op = "ensure", t.p = p
              PROVE  \E u \in N \union R : u.op = "ensure" /\ u.p = p
          BY <1>1, <4>4
        <4> QED
          BY <2>2, <4>2, <4>3, <4>4
      <3> QED
        BY <3>1, <3>2
    <2> QED
      BY <2>3, <2>4
  <1>14. Saved(N \union R, cache, cacheFile)
    <2>1. Saved({h} \union R, cache, cacheFile)
      BY <1>1, <1>3 DEF Sound
    <2> HIDE DEF h, R, N
    <2> QED
      BY <1>2, <2>1, SavedStays
  <1> QED
    BY Zenon, <1>1, <1>7, <1>11, <1>12, <1>13, <1>14 DEF Sound

\* A row is repaired, or all of them are.
LEMMA EnsureKeeps ==
  ASSUME Sound, EnsureMember
  PROVE  Sound'
  <1> USE DEF ldapVars, resolverVars, cacheVars, storeVars
  <1> DEFINE h == Head(todo)
             R == Tasks(Tail(todo))
             p == h.p
  <1>1. /\ alive /\ todo # <<>> /\ h.op = "ensure"
        /\ UNCHANGED <<dirUsers, member, memberOf, rUsers, rGroups, rMember, cache, cacheFile, passwd, alive>>
    BY DEF EnsureMember, At
  <1>2. h.op \notin Loads /\ h.op \notin {"lookup", "retry"} /\ ~Saves(h)
    BY <1>1 DEF Loads, Saves
  <1>3. /\ Tasks(todo) = {h} \union R /\ Lined(Tail(todo))
        /\ \A b \in R : b.op # "write" /\ b.op \notin Gates
    BY Zenon, <1>1, <1>2, Replaces DEF Sound
  <1>4. Served(Tasks(todo), cache, passwd, group)
    BY DEF Sound
  <1>5. CASE (\A d \in Dirs : Missing(p, d) = {}) /\ todo' = Tail(todo) /\ UNCHANGED group
    <2>1. Types'
      BY <1>1, <1>5 DEF Sound, Types, GroupsOf
    <2>2. Fit(R, cache)
      <3>1. Fit({h} \union R, cache)
        BY SMTT(30), Zenon, <1>3 DEF Sound
      <3> HIDE DEF h, R
      <3> QED
        BY <1>2, <1>3, <3>1, DoneFit
    <2>3. Served(R, cache, passwd, group)
      <3> SUFFICES ASSUME NEW d \in Dirs, NEW q \in DOMAIN cache
                   PROVE  /\ q \in passwd[d] \/ \E t \in R : Rewrites(t, "passwd", d)
                          /\ \A g \in cache[q] :
                               \/ Login(q) \in group[d][g]
                               \/ \E t \in R : Rewrites(t, "group", d) \/ (t.op = "ensure" /\ t.p = q)
        BY Zenon DEF Served
      <3>1. /\ q \in passwd[d] \/ \E t \in {h} \union R : Rewrites(t, "passwd", d)
            /\ \A g \in cache[q] :
                 \/ Login(q) \in group[d][g]
                 \/ \E t \in {h} \union R : Rewrites(t, "group", d) \/ (t.op = "ensure" /\ t.p = q)
        BY Zenon, <1>3, <1>4 DEF Served
      <3>2. \A kind : ~Rewrites(h, kind, d)
        BY <1>1 DEF Rewrites
      <3>3. \A g \in cache[p] : Login(p) \in group[d][g]
        BY SMTT(30), Zenon, <1>5 DEF Missing
      <3> HIDE DEF h, R
      <3>4. CASE q = p
        BY <3>1, <3>2, <3>3, <3>4
      <3>5. CASE q # p
        BY <3>1, <3>2, <3>5
      <3> QED
        BY <3>4, <3>5
    <2>4. Saved(R, cache, cacheFile)
      <3>1. Saved({h} \union R, cache, cacheFile) /\ {} \union R = R
        BY <1>1, <1>3 DEF Sound
      <3> HIDE DEF h, R
      <3>2. Saved({} \union R, cache, cacheFile)
        BY Zenon, <1>2, <3>1, SavedStays
      <3> QED
        BY <3>1, <3>2
    <2> QED
      BY <1>1, <1>3, <1>5, <2>1, <2>2, <2>3, <2>4 DEF Sound
  <1>6. ASSUME NEW d \in Dirs, NEW g, UNCHANGED todo,
               group' = [group EXCEPT ![d][g] = @ \union {Login(p)}]
        PROVE  Sound'
    <2>1. DOMAIN group = Dirs /\ \A e \in Dirs : DOMAIN group[e] = Groups
      BY Zenon DEF Sound, Types
    <2>2. DOMAIN group' = Dirs /\ \A e \in Dirs : DOMAIN group'[e] = Groups
      BY <1>6, <2>1
    <2>3. Types'
      BY <1>1, <2>2 DEF Sound, Types, GroupsOf
    <2>4. \A e \in Dirs, k \in Groups : group[e][k] \subseteq group'[e][k]
      BY <1>6, <2>1
    <2>5. \A q \in DOMAIN cache : cache[q] \subseteq Groups
      BY SMTT(30), Zenon DEF Sound, Types, GroupsOf
    <2> DEFINE L == Tasks(todo)
    <2>6. Served(L, cache, passwd, group')
      <3> SUFFICES ASSUME NEW e \in Dirs, NEW q \in DOMAIN cache
                   PROVE  /\ q \in passwd[e] \/ \E t \in L : Rewrites(t, "passwd", e)
                          /\ \A k \in cache[q] :
                               \/ Login(q) \in group'[e][k]
                               \/ \E t \in L : Rewrites(t, "group", e) \/ (t.op = "ensure" /\ t.p = q)
        BY Zenon DEF Served
      <3>1. /\ q \in passwd[e] \/ \E t \in L : Rewrites(t, "passwd", e)
            /\ \A k \in cache[q] :
                 \/ Login(q) \in group[e][k]
                 \/ \E t \in L : Rewrites(t, "group", e) \/ (t.op = "ensure" /\ t.p = q)
        BY Zenon, <1>4 DEF Served
      <3> QED
        BY Zenon, <2>4, <2>5, <3>1
    <2> QED
      BY SMTT(30), Zenon, <1>1, <1>6, <2>3, <2>6 DEF Sound
  <1> QED
    BY Zenon, <1>5, <1>6 DEF EnsureMember

-----------------------------------------------------------------------------
(***************************************************************************)
(* The daemon's life, and the theorems.                                    *)
(***************************************************************************)

\* A daemon starts from the cache's file and rewrites the stores from it.
LEMMA StartKeeps ==
  ASSUME Sound, Start
  PROVE  Sound'
  <1> USE DEF ldapVars, resolverVars, cacheVars, storeVars
  <1> DEFINE pr == [op |-> "preresolve", left |-> Servers]
             m == Mat(FALSE)
             ra == [op |-> "refresh_all"]
             last == <<pr, m, ra>>
             L == Tasks(todo')
  <1>1. /\ alive' /\ cache' = cacheFile /\ todo' = rebulk_ldap_users \o last
        /\ UNCHANGED <<dirUsers, member, memberOf, rUsers, rGroups, rMember, cacheFile, passwd, group>>
    BY DEF Start, run_daemon
  <1>2. Types'
    BY SMTT(30), Zenon, <1>1 DEF Sound, Types, GroupsOf
  <1>3. pr.op = "preresolve" /\ DOMAIN pr = {"op", "left"} /\ m.op = "mat" /\ ra.op = "refresh_all"
    BY DEF Mat
  <1> HIDE DEF pr, m, ra
  <1>4. Tasks(last) = {pr, m, ra}
    BY DEF Tasks
  <1>5. Lined(last)
    <2>1. \A j \in 1 .. 3 : last[j] \in {pr, m, ra}
      OBVIOUS
    <2>2. Orderly(last)
      BY <1>3, <2>1 DEF Orderly, Gates
    <2>3. Guarded(last)
      BY SMTT(30), Zenon, <1>3, <2>1 DEF Guarded
    <2> QED
      BY <1>4, <2>2, <2>3 DEF Lined
  <1> HIDE DEF last
  <1>6. Lined(todo') /\ L = Tasks(rebulk_ldap_users) \union {pr, m, ra}
    <2>1. Follows(rebulk_ldap_users, last)
      BY <1>3, <1>4 DEF Follows, Gates
    <2> QED
      BY Zenon, <1>1, <1>4, <1>5, <2>1, RebulkTasks, Joined
  <1>7. \A t \in L : /\ t.op \in {"users", "groups", "loaded", "save", "preresolve", "mat", "refresh_all"}
                     /\ t.op = "save" => ~t.changed
                     /\ t.op = "preresolve" => DOMAIN t = {"op", "left"}
    <2>1. \A t \in Tasks(rebulk_ldap_users) :
            /\ t.op \in {"users", "groups", "loaded", "save"} /\ (t.op = "save" => ~t.changed)
      BY SMTT(30), Zenon, RebulkTasks
    <2> QED
      BY <1>3, <1>6, <2>1
  <1>8. Fit(L, cache')
    BY <1>7 DEF Fit, Ready, Uncommitted, Loads
  <1>9. Served(L, cache', passwd', group')
    <2>1. m \in L
      BY <1>6
    <2> HIDE DEF L
    <2> QED
      BY <1>3, <2>1, ServedLater
  <1>10. Saved(L, cache', cacheFile')
    BY <1>1 DEF Saved
  <1> QED
    BY <1>1, <1>2, <1>6, <1>8, <1>9, <1>10 DEF Sound

\* No daemon runs, and nothing is promised.
LEMMA StoppedSound ==
  ASSUME Types, ~alive, todo = <<>>, cache = Nothing
  PROVE  Sound
  <1>1. Fit({}, cache)
    BY DEF Fit
  <1>2. Served({}, cache, passwd, group)
    BY DEF Served, Nothing
  <1> QED
    BY Zenon, <1>1, <1>2, NoTask DEF Sound

\* A kill.
LEMMA KillKeeps ==
  ASSUME Sound, Kill
  PROVE  Sound'
  <1> USE DEF ldapVars, resolverVars, cacheVars, storeVars
  <1>1. DOMAIN Nothing = {} /\ GroupsOf(Nothing)
    BY DEF Nothing, GroupsOf
  <1>2. /\ alive' = FALSE /\ todo' = <<>> /\ cache' = Nothing /\ rUsers' = {} /\ rGroups' = Nothing
        /\ rMember' = Nothing /\ UNCHANGED <<dirUsers, member, memberOf, cacheFile, passwd, group>>
    BY DEF Kill
  <1>3. Types'
    BY <1>1, <1>2 DEF Sound, Types, GroupsOf
  <1>4. Fit({}, cache')
    BY DEF Fit
  <1>5. Served({}, cache', passwd', group')
    BY Zenon, <1>1, <1>2 DEF Served
  <1> QED
    BY Zenon, <1>2, <1>3, <1>4, <1>5, NoTask DEF Sound

\* At first no daemon runs.
LEMMA StoresInit ==
  ASSUME Init
  PROVE  StoresInv
  <1>1. DOMAIN Nothing = {} /\ GroupsOf(Nothing)
    BY DEF Nothing, GroupsOf
  <1>2. dirUsers \subseteq Users /\ DOMAIN member = Groups /\ memberOf \in [Users -> SUBSET Groups]
    <2>1. PICK d \in Directories : dirUsers = d.users /\ member = d.member /\ memberOf = d.memberOf
      BY DEF Init
    <2>2. d.users \subseteq Users /\ DOMAIN d.member = Groups /\ d.memberOf \in [Users -> SUBSET Groups]
      BY SMTT(30), Zenon, NssAssumption
    <2> QED
      BY <2>1, <2>2
  <1>3. Types
    BY Zenon, <1>1, <1>2 DEF Init, Types
  <1>4. Sound
    BY <1>3, StoppedSound DEF Init
  <1>5. spent \in [Kinds -> Nat]
    BY DEF Init
  <1> QED
    BY <1>4, <1>5 DEF StoresInv

\* Every step counts at most one disturbance.
LEMMA NextCounts ==
  ASSUME [Next]_vars
  PROVE  UNCHANGED spent \/ \E k \in Kinds : Spend(k)
  <1>1. {"edit", "outage", "kill", "fail", "request"} = Kinds
    BY DEF Kinds
  <1>2. CASE Step
    BY Zenon, <1>1, <1>2 DEF Step, LoadUsers, LoadGroups, Materialize, WriteStore, EnsureMember, Discover,
       LookupUser, RetryUser, GroupsAgain, Loaded, WarmUser, RebulkSync, RefreshAll, RefreshOne,
       SaveCache, Preresolve, Persist
  <1>3. CASE World
    BY <1>1, <1>3 DEF World, WriteFails, EnsureFails, ForgetMiss, Kill, EditMember, EditMemberOf,
       AddUser, RemoveUser, Edit, Outage, Recover, SssdSync
  <1>4. CASE UNCHANGED vars
    BY <1>4 DEF vars
  <1>5. CASE Rebulk \/ Start \/ \E p \in Principals, verb \in {"RESOLVE", "GRPS"} : Request(p, verb)
    BY Zenon, <1>1, <1>5 DEF Rebulk, Start, Request
  <1> QED
    BY <1>2, <1>3, <1>4, <1>5 DEF Next

\* Every step keeps the invariant.
LEMMA StoresNext ==
  ASSUME StoresInv, [Next]_vars
  PROVE  StoresInv'
  <1>1. /\ spent' \in [Kinds -> Nat] /\ (NoWriteFailed' => NoWriteFailed)
        /\ Spend("fail") => ~NoWriteFailed'
    BY NextCounts, Counted DEF StoresInv
  <1> SUFFICES ASSUME NoWriteFailed' PROVE Sound'
    BY <1>1 DEF StoresInv
  <1>2. Sound /\ ~Spend("fail")
    BY <1>1 DEF StoresInv
  <1>3. CASE Step
    BY <1>2, <1>3, LoadKeeps, MaterializeKeeps, WriteKeeps, EnsureKeeps, DiscoverKeeps, LookupKeeps,
       AgainKeeps, BulkKeeps, SyncKeeps, SaveKeeps, PreresolveKeeps DEF Step
  <1>4. CASE World
    <2>1. ~WriteFails /\ ~EnsureFails
      BY <1>2 DEF WriteFails, EnsureFails
    <2> QED
      BY <1>2, <1>4, <2>1, WorldKeeps, KillKeeps DEF World
  <1>5. CASE UNCHANGED vars
    <2>1. Types'
      BY <1>2, <1>5 DEF vars, Sound, Types, GroupsOf
    <2> QED
      BY SMTT(30), Zenon, <1>2, <1>5, <2>1, QuietStep DEF vars
  <1>6. CASE Rebulk \/ Start
    BY <1>2, <1>6, RebulkKeeps, StartKeeps
  <1>7. CASE \E p \in Principals, verb \in {"RESOLVE", "GRPS"} : Request(p, verb)
    BY <1>2, <1>7, RequestKeeps
  <1> QED
    BY <1>3, <1>4, <1>5, <1>6, <1>7 DEF Next

\* The invariant holds of every behaviour: what the stores and the cache's file
\* lack of the entries in memory is still among the tasks the operation has left.
THEOREM StoresInvariance == Spec => []StoresInv
  <1>1. Init => StoresInv
    BY StoresInit
  <1>2. StoresInv /\ [Next]_vars => StoresInv'
    BY StoresNext
  <1> QED
    BY <1>1, <1>2, PTL DEF Spec

\* EntriesServed: between operations of a daemon none of whose writes has failed,
\* both pairs of stores show every cached principal and every group its entry
\* claims, for any directory, any number of requests, rebulks, kills and outages,
\* and whichever rewrite, repair or abandoned rebulk came last.
THEOREM EveryEntryServed == Spec => []EntriesServed
  <1>1. StoresInv => EntriesServed
    <2> SUFFICES ASSUME StoresInv, Idle, NoWriteFailed, NEW d \in Dirs, NEW p \in DOMAIN cache
                 PROVE  p \in passwd[d] /\ \A g \in cache[p] : Login(p) \in group[d][g]
      BY DEF EntriesServed
    <2>1. Served({}, cache, passwd, group)
      BY IdleServes DEF StoresInv
    <2> QED
      BY <2>1 DEF Served
  <1> QED
    BY <1>1, StoresInvariance, PTL

\* PersistedCache: between operations of such a daemon idmap.cache holds what its
\* memory holds, so that a kill loses no discovered group and brings no deleted
\* user back.
THEOREM CacheOnDisk == Spec => []PersistedCache
  <1>1. StoresInv => PersistedCache
    BY IdleServes DEF StoresInv, PersistedCache
  <1> QED
    BY <1>1, StoresInvariance, PTL

=============================================================================
