--------------------------- MODULE NssHeldProofs ---------------------------
(***************************************************************************)
(* A theorem about NssStores: until the first outage, the memberships the  *)
(* directory has held since the last rebulk began stay in the stores.  The *)
(* proof does without the invariant Sound, which a failed write ends; its  *)
(* own, HeldInv, follows what the snapshot, the memory and the tasks hold  *)
(* of those memberships.                                                   *)
(* It holds for any users, machines and groups, any directory and any      *)
(* number of edits, requests, kills and failed writes.                     *)
(***************************************************************************)
EXTENDS NssStoresProofs

-----------------------------------------------------------------------------
(* The tasks an operation has left, once more *)

\* After the i-th task the save of a rebulk is next, or third.
SaveNear(s, i) ==
  \/ i + 1 <= Len(s) /\ s[i + 1].op = "save"
  \/ i + 3 <= Len(s) /\ s[i + 1].op # "save" /\ s[i + 2].op # "save" /\ s[i + 3].op = "save"

\* The task is a rewrite of the stores by the rebulk itself.
Strict(t) == t.op \in {"mat", "write"} /\ t.strict

\* The two searches of a load go together, and a rewrite of the rebulk has the
\* rebulk's save after it.
Chained(s) ==
  \A i \in 1 .. Len(s) :
    /\ s[i].op = "users" => i < Len(s) /\ s[i + 1].op = "groups"
    /\ Strict(s[i]) => SaveNear(s, i)

\* The fields of the tasks that are rewritten in place.
Shaped(t) ==
  /\ t.op = "write" => DOMAIN t = {"op", "files", "rows", "strict"}
  /\ t.op = "warm" => DOMAIN t = {"op", "left", "live"}
  /\ t.op \in {"refresh", "preresolve"} => DOMAIN t = {"op", "left"}

Line(s) == Lined(s) /\ Chained(s) /\ \A t \in Tasks(s) : Shaped(t)

\* The n first tasks of s left out.
LEMMA LaterSave ==
  ASSUME NEW S, NEW s \in Seq(S), NEW r \in Seq(S), NEW n \in Nat, Len(s) = n + Len(r),
         \A i \in 1 .. Len(r) : s[i + n] = r[i], NEW k \in 0 .. Len(r)
  PROVE  SaveNear(s, k + n) <=> SaveNear(r, k)
  <1>1. Len(s) \in Nat /\ Len(r) \in Nat
    OBVIOUS
  <1>2. ASSUME NEW j \in 1 .. 3, k + j <= Len(r)
        PROVE  s[(k + n) + j] = r[k + j]
    <2>1. k \in Nat /\ j \in Nat /\ j >= 1
      BY <1>1, <1>2
    <2>2. k + j \in 1 .. Len(r)
      BY <1>1, <1>2, <2>1
    <2>3. (k + j) + n = (k + n) + j
      BY <2>1
    <2>4. s[(k + j) + n] = r[k + j]
      BY <2>2
    <2> QED
      BY <2>3, <2>4
  <1>3. \A j \in 1 .. 3 : (k + n) + j <= Len(s) <=> k + j <= Len(r)
    BY <1>1
  <1>4. \A j \in 1 .. 3 : k + j <= Len(r) => s[(k + n) + j] = r[k + j]
    BY <1>2
  <1>5. k + 3 <= Len(r) => k + 1 <= Len(r) /\ k + 2 <= Len(r)
    BY <1>1
  <1> QED
    BY <1>3, <1>4, <1>5 DEF SaveNear

\* What is left when the n first tasks of s are left out.
LEMMA ChainedRest ==
  ASSUME NEW S, NEW s \in Seq(S), NEW r \in Seq(S), NEW n \in Nat, Len(s) = n + Len(r),
         \A i \in 1 .. Len(r) : s[i + n] = r[i], Chained(s)
  PROVE  Chained(r)
  <1> SUFFICES ASSUME NEW i \in 1 .. Len(r)
               PROVE  /\ r[i].op = "users" => i < Len(r) /\ r[i + 1].op = "groups"
                      /\ Strict(r[i]) => SaveNear(r, i)
    BY DEF Chained
  <1>1. Len(s) \in Nat /\ Len(r) \in Nat /\ i + n \in 1 .. Len(s) /\ i \in 0 .. Len(r)
    OBVIOUS
  <1>2. s[i + n] = r[i]
    OBVIOUS
  <1>3. /\ s[i + n].op = "users" => i + n < Len(s) /\ s[(i + n) + 1].op = "groups"
        /\ Strict(s[i + n]) => SaveNear(s, i + n)
    BY <1>1 DEF Chained
  <1>4. i + n < Len(s) => i < Len(r) /\ s[(i + n) + 1] = r[i + 1]
    <2> HAVE i + n < Len(s)
    <2>1. i + 1 \in 1 .. Len(r) /\ (i + 1) + n = (i + n) + 1
      BY <1>1
    <2> QED
      BY <1>1, <2>1
  <1>5. SaveNear(s, i + n) <=> SaveNear(r, i)
    BY <1>1, LaterSave
  <1> QED
    BY <1>2, <1>3, <1>4, <1>5

\* One operation's tasks in front of another's.
LEMMA ChainedJoin ==
  ASSUME NEW S, NEW s \in Seq(S), NEW t \in Seq(S), Chained(s), Chained(t)
  PROVE  Chained(s \o t)
  <1> DEFINE r == s \o t
  <1>1. /\ r \in Seq(S) /\ Len(r) = Len(s) + Len(t) /\ Len(s) \in Nat /\ Len(t) \in Nat
        /\ \A i \in 1 .. Len(s) : r[i] = s[i]
        /\ \A i \in 1 .. Len(t) : r[i + Len(s)] = t[i]
        /\ \A i \in 1 .. Len(s) + Len(t) : i \in 1 .. Len(s) \/ i - Len(s) \in 1 .. Len(t)
    BY JoinedTasks
  <1> HIDE DEF r
  <1> SUFFICES ASSUME NEW i \in 1 .. Len(r)
               PROVE  /\ r[i].op = "users" => i < Len(r) /\ r[i + 1].op = "groups"
                      /\ Strict(r[i]) => SaveNear(r, i)
    BY DEF Chained, r
  <1>2. CASE i \in 1 .. Len(s)
    <2>1. /\ s[i].op = "users" => i < Len(s) /\ s[i + 1].op = "groups"
          /\ Strict(s[i]) => SaveNear(s, i)
      BY <1>2 DEF Chained
    <2>2. r[i] = s[i] /\ \A j \in 1 .. 3 : i + j <= Len(s) => i + j <= Len(r) /\ r[i + j] = s[i + j]
      BY <1>1, <1>2
    <2>3. i < Len(s) => i < Len(r) /\ r[i + 1] = s[i + 1]
      BY <1>1, <1>2
    <2>4. SaveNear(s, i) => SaveNear(r, i)
      <3>1. i + 3 <= Len(s) => i + 2 <= Len(s) /\ i + 1 <= Len(s)
        BY <1>1, <1>2
      <3> QED
        BY <2>2, <3>1 DEF SaveNear
    <2> QED
      BY <2>1, <2>2, <2>3, <2>4
  <1>3. CASE i - Len(s) \in 1 .. Len(t)
    <2> DEFINE k == i - Len(s)
               n == Len(s)
    <2>1. k \in 1 .. Len(t) /\ k \in 0 .. Len(t) /\ n \in Nat /\ k + n = i /\ Len(r) = n + Len(t)
      BY <1>1, <1>3
    <2>2. /\ t[k].op = "users" => k < Len(t) /\ t[k + 1].op = "groups"
          /\ Strict(t[k]) => SaveNear(t, k)
      BY <2>1 DEF Chained
    <2>3. SaveNear(r, k + n) <=> SaveNear(t, k)
      BY Zenon, <1>1, <2>1, LaterSave
    <2>4. r[k + n] = t[k]
      BY <1>1, <2>1
    <2>5. k < Len(t) => k + n < Len(r) /\ r[(k + n) + 1] = t[k + 1]
      <3> HAVE k < Len(t)
      <3>1. k + 1 \in 1 .. Len(t) /\ (k + 1) + n = (k + n) + 1 /\ k + n < Len(r)
        BY <1>1, <2>1
      <3> QED
        BY <1>1, <3>1
    <2> HIDE DEF k, n
    <2> QED
      BY <2>1, <2>2, <2>3, <2>4, <2>5
  <1> QED
    BY <1>1, <1>2, <1>3

\* One more task in front.
LEMMA ChainedFront ==
  ASSUME NEW S, NEW a \in S, NEW t \in Seq(S), Chained(t), a.op # "users",
         Strict(a) => SaveNear(t, 0)
  PROVE  Chained(<<a>> \o t)
  <1> DEFINE r == <<a>> \o t
  <1>1. <<a>> \in Seq(S) /\ Len(<<a>>) = 1 /\ <<a>>[1] = a
    OBVIOUS
  <1>2. /\ r \in Seq(S) /\ Len(r) = 1 + Len(t) /\ Len(t) \in Nat /\ r[1] = a
        /\ \A i \in 1 .. Len(t) : r[i + 1] = t[i]
    BY <1>1, JoinedTasks
  <1> HIDE DEF r
  <1> SUFFICES ASSUME NEW i \in 1 .. Len(r)
               PROVE  /\ r[i].op = "users" => i < Len(r) /\ r[i + 1].op = "groups"
                      /\ Strict(r[i]) => SaveNear(r, i)
    BY DEF Chained, r
  <1>3. \A k \in 0 .. Len(t) : SaveNear(r, k + 1) <=> SaveNear(t, k)
    <2> TAKE k \in 0 .. Len(t)
    <2> QED
      BY <1>2, LaterSave
  <1>4. CASE i = 1
    <2>1. SaveNear(r, 0 + 1) <=> SaveNear(t, 0)
      BY <1>2, <1>3
    <2> QED
      BY <1>2, <1>4, <2>1
  <1>5. CASE i # 1
    <2> DEFINE k == i - 1
    <2>1. k \in 1 .. Len(t) /\ k \in 0 .. Len(t) /\ k + 1 = i
      BY <1>2, <1>5
    <2>2. /\ t[k].op = "users" => k < Len(t) /\ t[k + 1].op = "groups"
          /\ Strict(t[k]) => SaveNear(t, k)
      BY <2>1 DEF Chained
    <2>3. SaveNear(r, k + 1) <=> SaveNear(t, k)
      BY <1>3, <2>1
    <2>4. r[k + 1] = t[k]
      BY <1>2, <2>1
    <2>5. k < Len(t) => k + 1 < Len(r) /\ r[(k + 1) + 1] = t[k + 1]
      <3> HAVE k < Len(t)
      <3>1. k + 1 \in 1 .. Len(t) /\ k + 1 < Len(r)
        BY <1>2, <2>1
      <3> QED
        BY <1>2, <3>1
    <2> HIDE DEF k
    <2> QED
      BY <2>1, <2>2, <2>3, <2>4, <2>5
  <1> QED
    BY <1>4, <1>5

\* An operation that is over, or has one task left.
LEMMA LineOne ==
  ASSUME NEW a, Shaped(a), a.op \notin {"loaded", "warm", "users"}, ~Strict(a)
  PROVE  Line(<<>>) /\ Line(<<a>>) /\ Tasks(<<a>>) = {a}
  <1>1. Chained(<<>>) /\ Chained(<<a>>)
    BY DEF Chained
  <1> QED
    BY Zenon, <1>1, NoTask, OneTask DEF Line

\* The tasks after the one at hand.
LEMMA LineTail ==
  ASSUME NEW s, Line(s), s # <<>>
  PROVE  /\ Line(Tail(s)) /\ Tasks(s) = {Head(s)} \union Tasks(Tail(s)) /\ Shaped(Head(s))
         /\ \A b \in Tasks(Tail(s)) : b.op # "write" /\ (b.op \in Gates => Head(s).op \in Loads)
         /\ Head(s).op \in {"loaded", "warm"} => Tail(s) # <<>> /\ Head(Tail(s)).op = "save"
         /\ Head(s).op = "users" => Tail(s) # <<>> /\ Head(Tail(s)).op = "groups"
         /\ Strict(Head(s)) => SaveNear(Tail(s), 0)
  <1> DEFINE S == Tasks(s)
             r == Tail(s)
  <1>1. /\ Lined(r) /\ S = {Head(s)} \union Tasks(r)
        /\ \A b \in Tasks(r) : b.op # "write" /\ (b.op \in Gates => Head(s).op \in Loads)
        /\ Head(s).op \in {"loaded", "warm"} => r # <<>> /\ Head(r).op = "save"
    BY FirstTask DEF Line
  <1>2. s \in Seq(S) /\ Chained(s)
    BY DEF Line, Lined
  <1>3. /\ Len(s) \in Nat /\ Len(s) >= 1 /\ Head(s) = s[1] /\ r \in Seq(S) /\ Len(r) \in Nat
        /\ Len(s) = 1 + Len(r) /\ \A i \in 1 .. Len(r) : s[i + 1] = r[i]
    BY <1>2
  <1>4. \A t \in S : Shaped(t)
    BY DEF Line
  <1> HIDE DEF S, r
  <1>5. Len(r) # 0 => r # <<>> /\ Head(r) = r[1]
    <2>1. r = <<>> => Len(r) = 0
      OBVIOUS
    <2>2. r # <<>> => Head(r) = r[1]
      BY <1>3
    <2> QED
      BY Zenon, <2>1, <2>2
  <1>6. Chained(r)
    BY <1>2, <1>3, ChainedRest
  <1>7. /\ s[1].op = "users" => 1 < Len(s) /\ s[1 + 1].op = "groups"
        /\ Strict(s[1]) => SaveNear(s, 1)
    BY <1>2, <1>3 DEF Chained
  <1>8. 1 < Len(s) => Len(r) # 0 /\ s[1 + 1] = r[1]
    BY <1>3
  <1>9. SaveNear(s, 0 + 1) <=> SaveNear(r, 0)
    <2>1. 0 \in 0 .. Len(r)
      BY <1>3
    <2> QED
      BY <1>2, <1>3, <2>1, LaterSave
  <1>10. Strict(s[1]) => SaveNear(r, 0)
    BY <1>7, <1>9
  <1>11. s[1].op = "users" => r # <<>> /\ Head(r).op = "groups"
    BY <1>5, <1>7, <1>8
  <1>12. Line(r) /\ Shaped(Head(s))
    BY Zenon, <1>1, <1>4, <1>6 DEF Line
  <1> QED
    BY Zenon, <1>1, <1>3, <1>10, <1>11, <1>12 DEF S, r

\* Tasks in front of others they may precede.
LEMMA LineJoin ==
  ASSUME NEW s, NEW t, Line(s), Line(t), Follows(s, t)
  PROVE  Line(s \o t) /\ Tasks(s \o t) = Tasks(s) \union Tasks(t)
  <1> DEFINE S == Tasks(s) \union Tasks(t)
  <1>1. Lined(s \o t) /\ Tasks(s \o t) = S
    BY Joined DEF Line
  <1>2. s \in Seq(S) /\ t \in Seq(S)
    BY DEF Line, Lined
  <1> HIDE DEF S
  <1>3. Chained(s \o t)
    BY <1>2, ChainedJoin DEF Line
  <1>4. \A x \in S : Shaped(x)
    BY Zenon DEF Line, S
  <1> QED
    BY Zenon, <1>1, <1>3, <1>4 DEF Line, S

\* The task at hand is replaced by others.
LEMMA LineOn ==
  ASSUME Line(todo), todo # <<>>, Head(todo).op \notin Loads
  PROVE  /\ Line(Tail(todo)) /\ Tasks(todo) = {Head(todo)} \union Tasks(Tail(todo))
         /\ \A b \in Tasks(Tail(todo)) : b.op # "write" /\ b.op \notin Gates
         /\ \A pre : Line(pre) => /\ Line(pre \o Tail(todo))
                                  /\ Tasks(pre \o Tail(todo)) = Tasks(pre) \union Tasks(Tail(todo))
  <1>1. /\ Line(Tail(todo)) /\ Tasks(todo) = {Head(todo)} \union Tasks(Tail(todo))
        /\ \A b \in Tasks(Tail(todo)) : b.op # "write" /\ b.op \notin Gates
    BY LineTail
  <1>2. ASSUME NEW pre, Line(pre)
        PROVE  Line(pre \o Tail(todo)) /\ Tasks(pre \o Tail(todo)) = Tasks(pre) \union Tasks(Tail(todo))
    <2>1. Follows(pre, Tail(todo))
      BY <1>1 DEF Follows
    <2> QED
      BY Zenon, <1>1, <1>2, <2>1, LineJoin
  <1> QED
    BY <1>1, <1>2

\* The task at hand is replaced by one that needs no save it did not need.
LEMMA LineSwap ==
  ASSUME Line(todo), todo # <<>>, Head(todo).op \notin Loads, NEW a, Shaped(a), a.op # "users",
         a.op \in {"loaded", "warm"} => Head(todo).op \in {"loaded", "warm"},
         Strict(a) => Strict(Head(todo))
  PROVE  Line(<<a>> \o Tail(todo)) /\ Tasks(<<a>> \o Tail(todo)) = {a} \union Tasks(Tail(todo))
  <1> DEFINE t == Tail(todo)
             S == {a} \union Tasks(t)
  <1>1. /\ Line(t)
        /\ \A b \in Tasks(t) : b.op # "write" /\ b.op \notin Gates
        /\ Head(todo).op \in {"loaded", "warm"} => t # <<>> /\ Head(t).op = "save"
        /\ Strict(Head(todo)) => SaveNear(t, 0)
    BY LineTail
  <1> HIDE DEF t
  <1>2. Follows(<<a>>, t)
    BY <1>1 DEF Follows
  <1>3. Lined(<<a>> \o t) /\ Tasks(<<a>> \o t) = S
    <2>1. CASE a.op \in {"loaded", "warm"}
      BY Zenon, <1>1, <1>2, <2>1, BulkTask DEF Line
    <2>2. CASE a.op \notin {"loaded", "warm"}
      <3>1. Lined(<<a>>) /\ Tasks(<<a>>) = {a}
        BY <2>2, OneTask
      <3> QED
        BY Zenon, <1>1, <1>2, <3>1, Joined DEF Line
    <2> QED
      BY <2>1, <2>2
  <1>4. a \in S /\ t \in Seq(S)
    BY <1>1 DEF Line, Lined
  <1> HIDE DEF S
  <1>5. Chained(<<a>> \o t)
    BY <1>1, <1>4, ChainedFront DEF Line
  <1>6. \A x \in S : Shaped(x)
    BY Zenon, <1>1 DEF Line, S
  <1> QED
    BY Zenon, <1>3, <1>5, <1>6 DEF Line, S, t

\* A rebulk given up before its save.
LEMMA LineGivenUp ==
  ASSUME NEW s, Line(s), SaveNear(s, 0), \A b \in Tasks(s) : b.op # "write" /\ b.op \notin Gates
  PROVE  Line(AbandonRebulk(s)) /\ Tasks(AbandonRebulk(s)) \subseteq Tasks(s)
  <1> DEFINE First(i) == s[i].op = "save" /\ \A j \in 1 .. i - 1 : s[j].op # "save"
             end == CHOOSE i \in 1 .. Len(s) : First(i)
             S == Tasks(s)
             r == SubSeq(s, end + 1, Len(s))
  <1>1. s \in Seq(S) /\ Chained(s) /\ Len(s) \in Nat /\ \A t \in S : Shaped(t)
    BY DEF Line, Lined
  <1>2. \E i \in 1 .. Len(s) : First(i)
    <2>1. CASE 1 <= Len(s) /\ s[1].op = "save"
      <3>1. 1 \in 1 .. Len(s) /\ First(1)
        BY <1>1, <2>1
      <3> QED
        BY <3>1
    <2>2. CASE 3 <= Len(s) /\ s[1].op # "save" /\ s[2].op # "save" /\ s[3].op = "save"
      <3>1. \A j \in 1 .. 3 - 1 : j = 1 \/ j = 2
        OBVIOUS
      <3>2. 3 \in 1 .. Len(s) /\ First(3)
        BY <1>1, <2>2, <3>1
      <3> QED
        BY <3>2
    <2> QED
      BY <2>1, <2>2 DEF SaveNear
  <1>3. AbandonRebulk(s) = r
    BY DEF AbandonRebulk
  <1> HIDE DEF First
  <1>4. end \in 1 .. Len(s)
    BY <1>2
  <1> HIDE DEF end, S
  <1>5. /\ r \in Seq(S) /\ Len(r) \in Nat /\ end \in Nat /\ Len(s) = end + Len(r)
        /\ \A i \in 1 .. Len(r) : i + end \in 1 .. Len(s) /\ s[i + end] = r[i]
    BY <1>1, <1>4
  <1> HIDE DEF r
  <1>6. Chained(r)
    BY <1>1, <1>5, ChainedRest
  <1>7. Tasks(r) \subseteq S
    BY <1>5 DEF Tasks, S
  <1>8. \A i \in 1 .. Len(r) : r[i] \in Tasks(r) /\ r[i].op # "write" /\ r[i].op \notin Gates
    BY Zenon, <1>7 DEF Tasks, S
  <1>9. Orderly(r) /\ Guarded(r)
    BY <1>5, <1>8 DEF Orderly, Guarded, Gates
  <1>10. r \in Seq(Tasks(r))
    BY <1>5, <1>8
  <1> QED
    BY Zenon, <1>1, <1>3, <1>6, <1>7, <1>9, <1>10 DEF Line, Lined, S

\* The two searches of a load.
LEMMA LineLoad ==
  Line(load_full_identities) /\ Tasks(load_full_identities) = {[op |-> "users"], [op |-> "groups"]}
  <1>1. Lined(load_full_identities) /\ Tasks(load_full_identities) = {[op |-> "users"], [op |-> "groups"]}
    BY DEF load_full_identities, Lined, Tasks, Orderly, Guarded, Gates
  <1>2. Chained(load_full_identities)
    BY DEF load_full_identities, Chained, Strict
  <1> QED
    BY <1>1, <1>2 DEF Line, Shaped

\* The tasks of ServeGroups.
LEMMA LineServes ==
  ASSUME NEW p, NEW fresh, NEW rewrite
  PROVE  Line(ServeGroups(p, fresh, rewrite))
  <1> DEFINE a == IF DOMAIN rGroups = {} THEN load_full_identities ELSE <<>>
             discover == [op |-> "discover", p |-> p, fresh |-> fresh]
             ensure == [op |-> "ensure", p |-> p]
             m == IF rewrite THEN <<Mat(FALSE)>> ELSE <<>>
             one == <<discover>>
             last == <<ensure>>
             ab == a \o one
             abm == ab \o m
  <1>1. /\ discover.op = "discover" /\ ensure.op = "ensure" /\ Mat(FALSE).op = "mat" /\ ~Mat(FALSE).strict
        /\ \A t \in Tasks(load_full_identities) : t.op \in Loads
    BY LineLoad DEF Mat, Loads
  <1>2. /\ Shaped(discover) /\ Shaped(ensure) /\ Shaped(Mat(FALSE))
        /\ ~Strict(discover) /\ ~Strict(ensure) /\ ~Strict(Mat(FALSE))
    BY Zenon, <1>1 DEF Shaped, Strict
  <1> HIDE DEF discover, ensure
  <1>3. Line(one) /\ Tasks(one) = {discover} /\ Line(<<>>)
    BY <1>1, <1>2, LineOne
  <1>4. Line(last) /\ Tasks(last) = {ensure}
    BY <1>1, <1>2, LineOne
  <1>5. Line(<<Mat(FALSE)>>) /\ Tasks(<<Mat(FALSE)>>) = {Mat(FALSE)}
    BY Zenon, <1>1, <1>2, LineOne
  <1>6. Line(m) /\ \A t \in Tasks(m) : t.op = "mat"
    BY Zenon, <1>1, <1>3, <1>5, NoTask
  <1>7. Line(a) /\ \A t \in Tasks(a) : t.op \in Loads
    BY Zenon, <1>1, <1>3, LineLoad, NoTask
  <1> HIDE DEF one, last, m, a
  <1>8. Line(ab)
    <2>1. Follows(a, one)
      BY <1>1, <1>3, <1>7 DEF Follows
    <2> QED
      BY <1>3, <1>7, <2>1, LineJoin
  <1> HIDE DEF ab
  <1>9. Line(abm)
    <2>1. Follows(ab, m)
      BY <1>6 DEF Follows, Gates
    <2> QED
      BY <1>6, <1>8, <2>1, LineJoin
  <1> HIDE DEF abm
  <1>10. Line(abm \o last)
    <2>1. Follows(abm, last)
      BY <1>1, <1>4 DEF Follows, Gates
    <2> QED
      BY <1>4, <1>9, <2>1, LineJoin
  <1>11. ServeGroups(p, fresh, rewrite) = abm \o last
    BY DEF ServeGroups, abm, ab, a, m, one, last, discover, ensure
  <1> QED
    BY <1>10, <1>11

-----------------------------------------------------------------------------
(***************************************************************************)
(* What is kept of the held edges H, wherever the daemon is.  An edge is   *)
(* <<user, group, the end that lists it>>.                                 *)
(***************************************************************************)

Bulk == {"loaded", "warm"}

\* The snapshot's member lists f have them, and the memory's entries f do.
Listed(H, f) == \A e \in H : e[3] = "member" => e[2] \in DOMAIN f /\ e[1] \in f[e[2]]
Claimed(H, f) == \A e \in H : e[3] = "memberOf" => e[1] \in DOMAIN f /\ e[2] \in f[e[1]]

\* The group rows about to be written have them.
Shown(H, rows) == \A e \in H : e[1] \in rows[e[2]]

\* The resolver answers with them when it is asked for their user's memberOf.
Answerable(H, rm, neg) ==
  \A e \in H : /\ <<"mo", e[1]>> \notin neg
               /\ e[3] = "memberOf" /\ e[1] \in DOMAIN rm => e[2] \in rm[e[1]]

\* What a task carries of the snapshot, the memory or the rows has them.
Carries(t, H, c) ==
  /\ t.op = "mat" /\ t.fixed => Listed(H, t.groups)
  /\ t.op = "write" => DOMAIN t.rows = Groups /\ Shown(H, t.rows)
  /\ t.op = "warm" =>
       \A e \in H : /\ e[1] \in t.left \union DOMAIN t.live
                    /\ e[3] = "memberOf" /\ e[1] \in DOMAIN t.live => e[2] \in t.live[e[1]]
  /\ t.op \in {"lookup", "retry"} => t.p \notin DOMAIN c

Before(ops) == todo # <<>> /\ Head(todo).op \in ops
Pending(L) == \E t \in L : t.op \in Bulk

\* The snapshot has them once it is loaded, the memory once a rebulk has applied
\* its load; until then the rebulk has their users to warm.
Known ==
  /\ ~Before(Loads) => Groups \subseteq DOMAIN rGroups /\ Listed(held, rGroups)
  /\ ~Before({"users"}) => Answerable(held, rMember, negative)
  /\ ~Pending(Tasks(todo)) => Claimed(held, cache)
  /\ Pending(Tasks(todo)) /\ ~Before({"users"}) => \A e \in held : e[1] \in rUsers

GroupRows == DOMAIN group = Dirs /\ \A d \in Dirs : DOMAIN group[d] = Groups

Kept == up /\ GroupRows /\ (\A t \in Tasks(todo) : Carries(t, held, cache)) /\ (alive => Known)

HeldTypes ==
  /\ spent \in [Kinds -> Nat] /\ dirUsers \subseteq Users /\ DOMAIN member = Groups
  /\ held \subseteq Edges

HeldInv == HeldTypes /\ Line(todo) /\ (~alive => todo = <<>>) /\ (NoOutage => Kept)

\* Known, when no search and no load of a rebulk is pending.
Settled ==
  /\ up /\ GroupRows /\ Groups \subseteq DOMAIN rGroups
  /\ Listed(held, rGroups) /\ Answerable(held, rMember, negative) /\ Claimed(held, cache)

\* A held edge is an edge of the directory.
LEMMA HeldEdge ==
  ASSUME HeldTypes, NEW e \in held
  PROVE  /\ e[1] \in dirUsers /\ e[1] \in Users /\ e[1] \notin Machines /\ e[2] \in Groups
         /\ e[3] \in {"member", "memberOf"}
         /\ e[3] = "member" => e[1] \in member[e[2]]
         /\ e[3] = "memberOf" => e[2] \in memberOf[e[1]]
  <1>1. e \in Edges /\ dirUsers \subseteq Users
    BY DEF HeldTypes
  <1>2. /\ e \in dirUsers \X Groups \X {"member", "memberOf"}
        /\ IF e[3] = "member" THEN e[1] \in member[e[2]] ELSE e[2] \in memberOf[e[1]]
    BY <1>1 DEF Edges
  <1>3. e[1] \in dirUsers /\ e[2] \in Groups /\ e[3] \in {"member", "memberOf"}
    BY <1>2
  <1> QED
    BY <1>1, <1>2, <1>3, NssAssumption

\* The steps count, and the types are kept.
LEMMA HeldCounts ==
  ASSUME HeldTypes, [Next]_vars
  PROVE  HeldTypes' /\ (NoOutage' => NoOutage) /\ (Outage => ~NoOutage')
  <1>1. UNCHANGED spent \/ \E k \in Kinds : Spend(k)
    BY NextCounts
  <1>2. /\ spent' \in [Kinds -> Nat] /\ (NoOutage' => NoOutage) /\ (Spend("outage") => ~NoOutage')
    <2>1. \A k \in Kinds : Spend(k) =>
            /\ spent' \in [Kinds -> Nat] /\ spent'[k] = spent[k] + 1
            /\ \A j \in Kinds \ {k} : spent'[j] = spent[j]
      BY DEF Spend, HeldTypes
    <2>2. "outage" \in Kinds /\ spent["outage"] \in Nat
      BY DEF Kinds, HeldTypes
    <2> QED
      BY <1>1, <2>1, <2>2 DEF NoOutage, HeldTypes
  <1>3. \/ UNCHANGED <<dirUsers, member, memberOf>> /\ (held' = held \/ held' = Edges)
        \/ dirUsers' \subseteq Users /\ DOMAIN member' = Groups /\ held' = held \intersect Edges'
    <2>1. CASE Step
      BY Zenon, <2>1 DEF Step, LoadUsers, LoadGroups, Materialize, WriteStore, EnsureMember, Discover,
         LookupUser, RetryUser, GroupsAgain, Loaded, WarmUser, RebulkSync, RefreshAll, RefreshOne,
         SaveCache, Preresolve, ldapVars
    <2>2. CASE EditMember \/ EditMemberOf \/ AddUser \/ RemoveUser
      BY <2>2 DEF EditMember, EditMemberOf, AddUser, RemoveUser, Edit, HeldTypes
    <2>3. CASE WriteFails \/ EnsureFails \/ ForgetMiss \/ Kill \/ Outage \/ Recover \/ SssdSync \/ UNCHANGED vars
      BY Zenon, <2>3 DEF WriteFails, EnsureFails, ForgetMiss, Kill, Outage, Recover, SssdSync, ldapVars, vars
    <2>4. CASE Rebulk \/ Start \/ \E p \in Principals, verb \in {"RESOLVE", "GRPS"} : Request(p, verb)
      BY Zenon, <2>4 DEF Rebulk, Start, Request, ldapVars
    <2> QED
      BY Zenon, <2>1, <2>2, <2>3, <2>4 DEF Next, World
  <1>4. UNCHANGED <<dirUsers, member, memberOf>> => Edges' = Edges
    BY DEF Edges
  <1>5. dirUsers' \subseteq Users /\ DOMAIN member' = Groups /\ held' \subseteq Edges'
    BY <1>3, <1>4 DEF HeldTypes
  <1>6. Outage => Spend("outage")
    BY DEF Outage
  <1> QED
    BY <1>2, <1>5, <1>6 DEF HeldTypes

\* Nothing is pending when an operation is over or at a task that neither
\* searches nor belongs to a rebulk's load.
LEMMA Settles ==
  ASSUME Line(todo), Kept, alive, todo = <<>> \/ Head(todo).op \notin Loads \union Bulk
  PROVE  Settled /\ ~Pending(Tasks(todo))
  <1>1. ~Pending(Tasks(todo))
    <2>1. CASE todo = <<>>
      BY <2>1, NoTask DEF Pending
    <2>2. CASE todo # <<>>
      <3>1. Tasks(todo) = {Head(todo)} \union Tasks(Tail(todo)) /\ \A b \in Tasks(Tail(todo)) : b.op \notin Gates
        BY <2>2, LineOn
      <3> QED
        BY <2>2, <3>1 DEF Pending, Bulk, Gates
    <2> QED
      BY <2>1, <2>2
  <1>2. ~Before(Loads) /\ ~Before({"users"})
    BY DEF Before, Loads
  <1> QED
    BY <1>1, <1>2 DEF Settled, Kept, Known

\* A step that leaves things settled.
LEMMA StepOn ==
  ASSUME HeldInv, HeldTypes', NoOutage' => NoOutage, alive,
         todo = <<>> \/ Head(todo).op \notin Loads \union Bulk,
         NEW N, NEW R, R \subseteq Tasks(todo), \A b \in R : b.op \notin Gates,
         Line(todo'), Tasks(todo') \subseteq N \union R, alive', held' = held,
         NoOutage' /\ Kept /\ Settled =>
           Settled' /\ \A t \in N : Carries(t, held, cache') /\ t.op \notin Bulk
  PROVE  HeldInv'
  <1> SUFFICES ASSUME NoOutage' PROVE Kept'
    BY DEF HeldInv
  <1>1. Kept /\ Settled
    BY Settles DEF HeldInv
  <1>2. Settled' /\ \A t \in N : Carries(t, held, cache') /\ t.op \notin Bulk
    BY <1>1
  <1>3. \A t \in R : Carries(t, held, cache') /\ t.op \notin Bulk
    <2> TAKE t \in R
    <2>1. Carries(t, held, cache) /\ t.op \notin Gates
      BY <1>1 DEF Kept
    <2> QED
      BY <2>1 DEF Carries, Gates, Bulk
  <1>4. \A t \in Tasks(todo') : Carries(t, held', cache') /\ t.op \notin Bulk
    BY Zenon, <1>2, <1>3
  <1>5. (\A t \in Tasks(todo) : Carries(t, held, cache))'
    BY Zenon, <1>4
  <1>6. Known'
    BY <1>2, <1>4 DEF Known, Settled, Pending
  <1> QED
    BY <1>2, <1>5, <1>6 DEF Kept, Settled

\* The tasks of ServeGroups carry nothing.
LEMMA ServesCarry ==
  ASSUME NEW p, NEW fresh, NEW rewrite, NEW H, NEW c
  PROVE  \A t \in Tasks(ServeGroups(p, fresh, rewrite)) :
           Carries(t, H, c) /\ t.op \notin Bulk /\ t.op # "write"
  <1> TAKE t \in Tasks(ServeGroups(p, fresh, rewrite))
  <1>1. t \in {[op |-> "users"], [op |-> "groups"], [op |-> "discover", p |-> p, fresh |-> fresh],
               Mat(FALSE), [op |-> "ensure", p |-> p]}
    BY Zenon, Serving
  <1>2. t.op \in {"users", "groups", "discover", "mat", "ensure"} /\ (t.op = "mat" => ~t.fixed)
    BY <1>1 DEF Mat
  <1> QED
    BY <1>2 DEF Carries, Bulk

\* What the lookups of a principal's groups leave in the resolver's caches.
LEMMA RemembersHeld ==
  ASSUME HeldTypes, up, Groups \subseteq DOMAIN rGroups, Listed(held, rGroups),
         Answerable(held, rMember, negative), NEW p, NEW gs, RememberGroups(p, gs)
  PROVE  /\ Groups \subseteq DOMAIN rGroups' /\ Listed(held, rGroups')
         /\ Answerable(held, rMember', negative')
  <1>1. DOMAIN rGroups' = DOMAIN rGroups \union FetchedByGid(gs) /\ \A g \in DOMAIN rGroups : rGroups'[g] = rGroups[g]
    BY DEF RememberGroups
  <1>2. Listed(held, rGroups')
    BY <1>1 DEF Listed
  <1>3. ASSUME NEW e \in held PROVE <<"mo", e[1]>> \notin negative'
    <2>1. <<"mo", e[1]>> \notin negative /\ e[1] \in dirUsers
      BY HeldEdge DEF Answerable
    <2>2. e[1] = p => p \in DOMAIN rMember \/ MemberOfLive(p)
      BY <2>1 DEF MemberOfLive
    <2>3. ASSUME <<"mo", e[1]>> \in negative' PROVE e[1] = p /\ p \notin DOMAIN rMember /\ ~MemberOfLive(p)
      BY <2>1, <2>3 DEF RememberGroups
    <2> QED
      BY <2>2, <2>3
  <1>4. ASSUME NEW e \in held, e[3] = "memberOf", e[1] \in DOMAIN rMember' PROVE e[2] \in rMember'[e[1]]
    <2>1. e[2] \in memberOf[e[1]] /\ (e[1] \in DOMAIN rMember => e[2] \in rMember[e[1]])
      BY Zenon, <1>4, HeldEdge DEF Answerable
    <2>2. rMember' = rMember \/ rMember' = With(rMember, p, memberOf[p])
      BY DEF RememberGroups
    <2> QED
      BY <1>4, <2>1, <2>2 DEF With
  <1> QED
    BY <1>1, <1>2, <1>3, <1>4 DEF Answerable

-----------------------------------------------------------------------------
(***************************************************************************)
(* The steps of operations in a settled state.                             *)
(***************************************************************************)

\* The caches and the stores stay.
LEMMA SettledStays ==
  ASSUME Settled, UNCHANGED <<up, group, rGroups, rMember, negative, cache, held>>
  PROVE  Settled'
  BY DEF Settled, GroupRows

\* A step that leaves fewer tasks.
LEMMA TaskOver ==
  ASSUME HeldInv, HeldTypes', NoOutage' => NoOutage, alive,
         todo = <<>> \/ Head(todo).op \notin Loads \union Bulk,
         NEW R, R \subseteq Tasks(todo), \A b \in R : b.op \notin Gates,
         Line(todo'), Tasks(todo') \subseteq R, alive', held' = held,
         NoOutage' /\ Kept /\ Settled => Settled'
  PROVE  HeldInv'
  <1> DEFINE N == {}
  <1>1. Tasks(todo') \subseteq N \union R /\ \A t \in N : Carries(t, held, cache') /\ t.op \notin Bulk
    OBVIOUS
  <1> HIDE DEF N
  <1> QED
    BY Zenon, <1>1, StepOn

\* GRPS again, and the refresh of the entries.
LEMMA AgainHolds ==
  ASSUME HeldInv, HeldTypes', NoOutage' => NoOutage, GroupsAgain \/ RefreshAll \/ RefreshOne
  PROVE  HeldInv'
  <1> USE DEF ldapVars, resolverVars, cacheVars, storeVars
  <1> DEFINE h == Head(todo)
             R == Tasks(Tail(todo))
  <1>1. /\ alive /\ todo # <<>> /\ h.op \in {"groups_again", "refresh_all", "refresh"} /\ alive'
        /\ UNCHANGED <<up, group, rGroups, rMember, negative, cache, held>>
    <2>1. CASE GroupsAgain
      BY <2>1 DEF GroupsAgain, At
    <2>2. CASE RefreshAll
      BY <2>2 DEF RefreshAll, At
    <2>3. CASE RefreshOne
      BY Zenon, <2>3 DEF RefreshOne, At
    <2> QED
      BY <2>1, <2>2, <2>3
  <1>2. h.op \notin Loads \union Bulk /\ h.op \notin Loads
    BY <1>1 DEF Loads, Bulk
  <1>3. Line(todo) /\ Shaped(h)
    BY <1>1, LineTail DEF HeldInv
  <1>4. /\ Line(Tail(todo)) /\ R \subseteq Tasks(todo) /\ \A b \in R : b.op # "write" /\ b.op \notin Gates
        /\ \A pre : Line(pre) => /\ Line(pre \o Tail(todo)) /\ Tasks(pre \o Tail(todo)) = Tasks(pre) \union R
    BY <1>1, <1>2, <1>3, LineOn
  <1>5. Settled => Settled'
    BY <1>1, SettledStays
  <1> DEFINE Good(N) == /\ Line(todo') /\ Tasks(todo') \subseteq N \union R
                        /\ \A t \in N : Carries(t, held, cache') /\ t.op \notin Bulk
  <1>6. ASSUME NEW N, Good(N) PROVE HeldInv'
    <2> HIDE DEF h, R
    <2> QED
      BY <1>1, <1>2, <1>4, <1>5, <1>6, StepOn DEF h
  <1> HIDE DEF Good
  <1>7. CASE GroupsAgain
    <2> DEFINE sv == ServeGroups(h.p, FALSE, TRUE)
    <2>1. todo' = sv \o Tail(todo)
      BY <1>7 DEF GroupsAgain
    <2>2. Line(sv) /\ \A t \in Tasks(sv) : Carries(t, held, cache') /\ t.op \notin Bulk
      BY Zenon, LineServes, ServesCarry
    <2> HIDE DEF sv
    <2>3. Good(Tasks(sv))
      BY Zenon, <1>4, <2>1, <2>2 DEF Good
    <2> QED
      BY <1>6, <2>3
  <1>8. CASE RefreshAll
    <2> DEFINE a == [op |-> "refresh", left |-> DOMAIN cache]
    <2>1. todo' = <<a>> \o Tail(todo)
      BY <1>8 DEF RefreshAll
    <2>2. a.op = "refresh" /\ Shaped(a) /\ ~Strict(a) /\ Carries(a, held, cache')
      BY DEF Shaped, Strict, Carries
    <2> HIDE DEF a
    <2>3. Line(<<a>>) /\ Tasks(<<a>>) = {a}
      BY <2>2, LineOne
    <2>4. Good({a})
      <3>1. a.op \notin Bulk
        BY <2>2 DEF Bulk
      <3> QED
        BY Zenon, <1>4, <2>1, <2>2, <2>3, <3>1 DEF Good
    <2> QED
      BY <1>6, <2>4
  <1>9. CASE RefreshOne
    <2>1. CASE h.left = {} /\ todo' = Tail(todo)
      <3>1. Good({})
        BY Zenon, <1>4, <2>1 DEF Good
      <3> QED
        BY <1>6, <3>1
    <2>2. CASE \E p \in h.left : todo' = ServeGroups(p, FALSE, TRUE) \o <<[h EXCEPT !.left = @ \ {p}]>> \o Tail(todo)
      <3>1. PICK p \in h.left : todo' = ServeGroups(p, FALSE, TRUE) \o <<[h EXCEPT !.left = @ \ {p}]>> \o Tail(todo)
        BY Zenon, <2>2
      <3> DEFINE a == [h EXCEPT !.left = @ \ {p}]
                 sv == ServeGroups(p, FALSE, TRUE)
                 rest == <<a>> \o Tail(todo)
      <3>2. h.op = "refresh"
        BY <1>9 DEF RefreshOne, At
      <3>3. DOMAIN h = {"op", "left"}
        BY <1>3, <3>2 DEF Shaped
      <3>4. a.op = "refresh" /\ DOMAIN a = {"op", "left"}
        BY <3>2, <3>3
      <3>5. Line(sv) /\ \A t \in Tasks(sv) : Carries(t, held, cache') /\ t.op \notin Bulk
        BY Zenon, LineServes, ServesCarry
      <3> HIDE DEF a, sv
      <3>6. Shaped(a) /\ ~Strict(a) /\ Carries(a, held, cache') /\ a.op \notin Bulk
        BY <3>4 DEF Shaped, Strict, Carries, Bulk
      <3>7. Line(<<a>>) /\ Tasks(<<a>>) = {a}
        BY <3>4, <3>6, LineOne
      <3>8. Line(rest) /\ Tasks(rest) = {a} \union R
        BY <1>4, <3>7
      <3>9. todo' = sv \o rest
        <4>1. /\ sv \in Seq(Tasks(sv)) /\ <<a>> \in Seq({a}) /\ Tail(todo) \in Seq(R)
          BY <1>4, <3>5 DEF Line, Lined
        <4>2. todo' = (sv \o <<a>>) \o Tail(todo)
          BY <3>1 DEF a, sv
        <4> QED
          BY <4>1, <4>2
      <3> HIDE DEF rest
      <3>10. Line(todo') /\ Tasks(todo') = Tasks(sv) \union Tasks(rest)
        <4>1. Follows(sv, rest)
          <5>1. a.op # "write" /\ a.op \notin Gates
            BY <3>4 DEF Gates
          <5> QED
            BY <1>4, <3>8, <5>1 DEF Follows
        <4> QED
          BY <3>5, <3>8, <3>9, <4>1, LineJoin
      <3>11. Good(Tasks(sv) \union {a})
        <4>1. \A t \in Tasks(sv) \union {a} : Carries(t, held, cache') /\ t.op \notin Bulk
          BY Zenon, <3>5, <3>6
        <4>2. Tasks(todo') \subseteq (Tasks(sv) \union {a}) \union R
          BY Zenon, <3>8, <3>10
        <4> QED
          BY Zenon, <3>10, <4>1, <4>2 DEF Good
      <3> QED
        BY <1>6, <3>11
    <2> QED
      BY Zenon, <1>9, <2>1, <2>2 DEF RefreshOne
  <1> QED
    BY <1>7, <1>8, <1>9

\* The cache's file is written, and a repair of the member rows fails.
LEMMA SaveHolds ==
  ASSUME HeldInv, HeldTypes', NoOutage' => NoOutage, SaveCache \/ EnsureFails
  PROVE  HeldInv'
  <1> USE DEF ldapVars, resolverVars, cacheVars, storeVars
  <1> DEFINE R == Tasks(Tail(todo))
  <1>1. /\ alive /\ todo # <<>> /\ Head(todo).op \in {"save", "ensure"} /\ alive' /\ todo' = Tail(todo)
        /\ UNCHANGED <<up, group, rGroups, rMember, negative, cache, held>>
    <2>1. CASE SaveCache
      BY Zenon, <2>1 DEF SaveCache, At
    <2>2. CASE EnsureFails
      BY Zenon, <2>2 DEF EnsureFails, At
    <2> QED
      BY <2>1, <2>2
  <1>2. Head(todo).op \notin Loads \union Bulk /\ Head(todo).op \notin Loads
    BY <1>1 DEF Loads, Bulk
  <1>3. Line(Tail(todo)) /\ R \subseteq Tasks(todo) /\ \A b \in R : b.op \notin Gates
    BY <1>1, <1>2, LineOn DEF HeldInv
  <1>4. Settled => Settled'
    BY <1>1, SettledStays
  <1>5. Line(todo') /\ Tasks(todo') \subseteq R
    BY Zenon, <1>1, <1>3
  <1> HIDE DEF R
  <1> QED
    BY Zenon, <1>1, <1>2, <1>3, <1>4, <1>5, TaskOver

\* The member rows are repaired, one at a time.
LEMMA EnsureHolds ==
  ASSUME HeldInv, HeldTypes', NoOutage' => NoOutage, EnsureMember
  PROVE  HeldInv'
  <1> USE DEF ldapVars, resolverVars, cacheVars, storeVars
  <1> DEFINE R == Tasks(Tail(todo))
  <1>1. /\ alive /\ todo # <<>> /\ Head(todo).op = "ensure" /\ alive'
        /\ UNCHANGED <<up, rGroups, rMember, negative, cache, held>>
        /\ \/ todo' = Tail(todo) /\ UNCHANGED group
           \/ /\ todo' = todo
              /\ \E d \in Dirs : \E g \in Missing(Head(todo).p, d) :
                   group' = [group EXCEPT ![d][g] = @ \union {Login(Head(todo).p)}]
    BY Zenon DEF EnsureMember, At
  <1>2. Head(todo).op \notin Loads \union Bulk /\ Head(todo).op \notin Loads /\ Head(todo).op \notin Gates
    BY <1>1 DEF Loads, Bulk, Gates
  <1>3. /\ Line(todo) /\ Line(Tail(todo)) /\ Tasks(todo) = {Head(todo)} \union R
        /\ \A b \in R : b.op \notin Gates
    BY <1>1, <1>2, LineOn DEF HeldInv
  <1>4. Settled => Settled'
    <2>1. GroupRows => GroupRows'
      BY <1>1 DEF GroupRows
    <2> QED
      BY <1>1, <2>1 DEF Settled
  <1>5. Line(todo') /\ Tasks(todo') \subseteq Tasks(todo)
    BY Zenon, <1>1, <1>3
  <1>6. \A b \in Tasks(todo) : b.op \notin Gates
    BY <1>2, <1>3
  <1> HIDE DEF R
  <1> QED
    BY Zenon, <1>1, <1>2, <1>4, <1>5, <1>6, TaskOver

\* The rows of a rewrite show what the member lists and the memory have.
LEMMA RowsShow ==
  ASSUME HeldTypes, NEW f, Listed(held, f), Claimed(held, cache)
  PROVE  DOMAIN build_nss_snapshot(f) = Groups /\ Shown(held, build_nss_snapshot(f))
  <1> SUFFICES ASSUME NEW e \in held PROVE e[1] \in build_nss_snapshot(f)[e[2]]
    BY DEF Shown, build_nss_snapshot
  <1>1. /\ e[1] \in Users /\ e[1] \notin Machines /\ e[2] \in Groups
        /\ e[3] \in {"member", "memberOf"}
    BY HeldEdge
  <1>2. CASE e[3] = "member"
    <2>1. e[2] \in DOMAIN f /\ e[1] \in f[e[2]]
      BY <1>2 DEF Listed
    <2> QED
      BY <1>1, <2>1 DEF build_nss_snapshot
  <1>3. CASE e[3] = "memberOf"
    <2>1. e[1] \in DOMAIN cache /\ e[2] \in cache[e[1]] /\ Login(e[1]) = e[1]
      BY <1>1, <1>3 DEF Claimed, Login
    <2> QED
      BY <1>1, <2>1 DEF build_nss_snapshot
  <1> QED
    BY <1>1, <1>2, <1>3

\* The rows are built, and what is to be written of them goes first.
LEMMA MaterializeHolds ==
  ASSUME HeldInv, HeldTypes', NoOutage' => NoOutage, Materialize
  PROVE  HeldInv'
  <1> USE DEF ldapVars, resolverVars, cacheVars, storeVars
  <1> DEFINE h == Head(todo)
             R == Tasks(Tail(todo))
             f == IF h.fixed THEN h.groups ELSE rGroups
             rows == build_nss_snapshot(f)
             files == Outdated(rows)
             w == [op |-> "write", files |-> files, rows |-> rows, strict |-> h.strict]
  <1>1. /\ alive /\ todo # <<>> /\ h.op = "mat" /\ alive'
        /\ UNCHANGED <<up, group, rGroups, rMember, negative, cache, held>>
        /\ todo' = (IF files = <<>> THEN <<>> ELSE <<w>>) \o Tail(todo)
    BY DEF Materialize, At
  <1>2. h.op \notin Loads \union Bulk /\ h.op \notin Loads
    BY <1>1 DEF Loads, Bulk
  <1>3. w.op = "write" /\ w.rows = rows /\ DOMAIN w = {"op", "files", "rows", "strict"} /\ w.strict = h.strict
    OBVIOUS
  <1> HIDE DEF w, rows, files
  <1>4. /\ Line(Tail(todo)) /\ R \subseteq Tasks(todo) /\ h \in Tasks(todo) /\ \A b \in R : b.op \notin Gates
    BY <1>1, <1>2, LineOn DEF HeldInv
  <1>5. Settled => Settled'
    BY <1>1, SettledStays
  <1>6. CASE files = <<>>
    <2>1. Tail(todo) \in Seq(R)
      BY <1>4 DEF Line, Lined
    <2>2. todo' = Tail(todo)
      BY <1>1, <1>6, <2>1
    <2>3. Line(todo') /\ Tasks(todo') \subseteq R
      BY Zenon, <1>4, <2>2
    <2> HIDE DEF R
    <2> QED
      BY Zenon, <1>1, <1>2, <1>4, <1>5, <2>3, TaskOver
  <1>7. CASE files # <<>>
    <2> DEFINE N == {w}
    <2>1. Shaped(w) /\ w.op \notin Bulk /\ w.op # "users" /\ (Strict(w) => Strict(h))
      BY <1>1, <1>3 DEF Shaped, Bulk, Strict
    <2>2. todo' = <<w>> \o Tail(todo)
      BY <1>1, <1>7
    <2>3. Line(todo') /\ Tasks(todo') \subseteq N \union R
      BY <1>1, <1>2, <2>1, <2>2, LineSwap DEF HeldInv, Bulk
    <2>4. Kept /\ Settled => \A t \in N : Carries(t, held, cache') /\ t.op \notin Bulk
      <3> HAVE Kept /\ Settled
      <3>1. Listed(held, f) /\ Claimed(held, cache)
        BY <1>1, <1>4 DEF Kept, Settled, Carries
      <3>2. DOMAIN rows = Groups /\ Shown(held, rows)
        BY <3>1, RowsShow DEF HeldInv, rows
      <3>3. Carries(w, held, cache')
        BY <1>3, <3>2 DEF Carries
      <3> QED
        BY <2>1, <3>3
    <2> HIDE DEF N, R
    <2> QED
      BY Zenon, <1>1, <1>2, <1>4, <1>5, <2>3, <2>4, StepOn
  <1> QED
    BY <1>6, <1>7

\* A store is replaced, or its write fails.
LEMMA WriteHolds ==
  ASSUME HeldInv, HeldTypes', NoOutage' => NoOutage, WriteStore \/ WriteFails
  PROVE  HeldInv'
  <1> USE DEF ldapVars, resolverVars, cacheVars, storeVars
  <1> DEFINE h == Head(todo)
             R == Tasks(Tail(todo))
             w == [h EXCEPT !.files = Tail(@)]
  <1>1. /\ alive /\ todo # <<>> /\ h.op = "write" /\ alive'
        /\ UNCHANGED <<up, rGroups, rMember, negative, cache, held>>
    <2>1. CASE WriteStore
      BY <2>1 DEF WriteStore, At
    <2>2. CASE WriteFails
      BY Zenon, <2>2 DEF WriteFails, At
    <2> QED
      BY <2>1, <2>2
  <1>2. h.op \notin Loads \union Bulk /\ h.op \notin Loads
    BY <1>1 DEF Loads, Bulk
  <1>3. /\ Line(Tail(todo)) /\ R \subseteq Tasks(todo) /\ h \in Tasks(todo)
        /\ \A b \in R : b.op # "write" /\ b.op \notin Gates
    BY <1>1, <1>2, LineOn DEF HeldInv
  <1>4. Shaped(h) /\ (Strict(h) => SaveNear(Tail(todo), 0))
    BY <1>1, LineTail DEF HeldInv
  <1>5. CASE WriteFails
    <2>1. UNCHANGED group /\ todo' = IF h.strict THEN AbandonRebulk(Tail(todo)) ELSE Tail(todo)
      BY Zenon, <1>5 DEF WriteFails
    <2>2. Settled => Settled'
      BY <1>1, <2>1, SettledStays
    <2>3. Line(todo') /\ Tasks(todo') \subseteq R
      <3>1. CASE h.strict
        <4>1. SaveNear(Tail(todo), 0)
          BY <1>1, <1>4, <3>1 DEF Strict
        <4>2. todo' = AbandonRebulk(Tail(todo))
          BY <2>1, <3>1
        <4> QED
          BY Zenon, <1>3, <4>1, <4>2, LineGivenUp
      <3>2. CASE ~h.strict
        BY Zenon, <1>3, <2>1, <3>2
      <3> QED
        BY <3>1, <3>2
    <2> HIDE DEF R
    <2> QED
      BY <1>1, <1>2, <1>3, <2>2, <2>3, TaskOver
  <1>6. CASE WriteStore
    <2>1. /\ todo' = Tail(todo) \/ todo' = <<w>> \o Tail(todo)
          /\ group' = group \/ group' = [group EXCEPT ![Head(h.files).dir] = h.rows]
      BY Zenon, <1>6 DEF WriteStore
    <2>2. Kept => DOMAIN h.rows = Groups /\ Shown(held, h.rows)
      BY <1>1, <1>3 DEF Kept, Carries
    <2>3. Kept /\ Settled => Settled'
      <3>1. Kept /\ GroupRows => GroupRows'
        BY <2>1, <2>2 DEF GroupRows
      <3> QED
        BY <1>1, <3>1 DEF Settled
    <2>4. CASE todo' = Tail(todo)
      <3>1. Line(todo') /\ Tasks(todo') \subseteq R
        BY Zenon, <1>3, <2>4
      <3> HIDE DEF R
      <3> QED
        BY <1>1, <1>2, <1>3, <2>3, <3>1, TaskOver
    <2>5. CASE todo' = <<w>> \o Tail(todo)
      <3> DEFINE N == {w}
      <3>1. DOMAIN h = {"op", "files", "rows", "strict"}
        BY <1>1, <1>4 DEF Shaped
      <3>2. w.op = "write" /\ w.rows = h.rows /\ w.strict = h.strict /\ DOMAIN w = {"op", "files", "rows", "strict"}
        BY <1>1, <3>1
      <3> HIDE DEF w
      <3>3. Shaped(w) /\ w.op \notin Bulk /\ w.op # "users" /\ (Strict(w) => Strict(h))
        BY <1>1, <3>2 DEF Shaped, Bulk, Strict
      <3>4. Line(todo') /\ Tasks(todo') \subseteq N \union R
        BY <1>1, <1>2, <2>5, <3>3, LineSwap DEF HeldInv, Bulk
      <3>5. Kept => \A t \in N : Carries(t, held, cache') /\ t.op \notin Bulk
        BY <2>2, <3>2, <3>3 DEF Carries
      <3> HIDE DEF N, R
      <3> QED
        BY Zenon, <1>1, <1>2, <1>3, <2>3, <3>4, <3>5, StepOn
    <2> QED
      BY Zenon, <2>1, <2>4, <2>5
  <1> QED
    BY <1>5, <1>6

\* The groups of a principal are looked up and added to its entry.
LEMMA DiscoverHolds ==
  ASSUME HeldInv, HeldTypes', NoOutage' => NoOutage, Discover
  PROVE  HeldInv'
  <1> USE DEF ldapVars, resolverVars, cacheVars, storeVars
  <1> DEFINE R == Tasks(Tail(todo))
             p == Head(todo).p
             found == resolve_groups_for_principal(p) \union (IF p \in Machines THEN cache[p] ELSE {})
  <1>1. /\ alive /\ todo # <<>> /\ Head(todo).op = "discover" /\ alive' /\ todo' = Tail(todo)
        /\ RememberGroups(p, found) /\ cache' = [cache EXCEPT ![p] = found \union cache[p]]
        /\ UNCHANGED <<up, group, held>>
    BY Zenon DEF Discover, At
  <1>2. Head(todo).op \notin Loads \union Bulk /\ Head(todo).op \notin Loads
    BY <1>1 DEF Loads, Bulk
  <1>3. Line(Tail(todo)) /\ R \subseteq Tasks(todo) /\ \A b \in R : b.op \notin Gates
    BY <1>1, <1>2, LineOn DEF HeldInv
  <1> HIDE DEF found, p
  <1>4. Settled => Settled'
    <2> HAVE Settled
    <2>1. /\ Groups \subseteq DOMAIN rGroups' /\ Listed(held, rGroups')
          /\ Answerable(held, rMember', negative')
      BY <1>1, RemembersHeld DEF Settled, HeldInv
    <2>2. Claimed(held, cache')
      BY <1>1 DEF Settled, Claimed
    <2> QED
      BY <1>1, <2>1, <2>2 DEF Settled, GroupRows
  <1>5. Line(todo') /\ Tasks(todo') \subseteq R
    BY Zenon, <1>1, <1>3
  <1> HIDE DEF R
  <1> QED
    BY Zenon, <1>1, <1>2, <1>3, <1>4, <1>5, TaskOver

\* A principal met for the first time gets its entry.
LEMMA AdmitHolds ==
  ASSUME HeldInv, HeldTypes', NoOutage' => NoOutage, alive,
         todo = <<>> \/ Head(todo).op \notin Loads \union Bulk,
         NEW N, NEW R, R \subseteq Tasks(todo), \A b \in R : b.op \notin Gates,
         NEW p, NEW rest, Admit(p, rest), Line(rest), Tasks(rest) \subseteq N \union R,
         \A b \in Tasks(rest) : b.op # "write" /\ b.op \notin Gates,
         \A t \in N : Carries(t, held, cache') /\ t.op \notin Bulk,
         Kept => p \notin DOMAIN cache, alive',
         UNCHANGED <<up, group, rGroups, rMember, negative, held>>
  PROVE  HeldInv'
  <1> DEFINE sv == ServeGroups(p, TRUE, TRUE)
             M == Tasks(sv) \union N
  <1>1. cache' = With(cache, p, {}) /\ todo' = sv \o rest
    BY DEF Admit
  <1>2. Line(sv) /\ \A t \in Tasks(sv) : Carries(t, held, cache') /\ t.op \notin Bulk
    BY Zenon, LineServes, ServesCarry
  <1> HIDE DEF sv
  <1>3. Line(todo') /\ Tasks(todo') = Tasks(sv) \union Tasks(rest)
    <2>1. Follows(sv, rest)
      BY Zenon DEF Follows
    <2> QED
      BY <1>1, <1>2, <2>1, LineJoin
  <1>4. Tasks(todo') \subseteq M \union R
    BY Zenon, <1>3
  <1>5. \A t \in M : Carries(t, held, cache') /\ t.op \notin Bulk
    BY Zenon, <1>2
  <1>6. Kept /\ Settled => Settled'
    <2> HAVE Kept /\ Settled
    <2>1. Claimed(held, cache')
      BY <1>1 DEF Settled, Claimed, With
    <2> QED
      BY Zenon, <2>1 DEF Settled, GroupRows
  <1> HIDE DEF M
  <1> QED
    BY Zenon, <1>3, <1>4, <1>5, <1>6, StepOn

\* A name is looked up, and once more after a load when it is unknown.
LEMMA LookupHolds ==
  ASSUME HeldInv, HeldTypes', NoOutage' => NoOutage, LookupUser \/ RetryUser
  PROVE  HeldInv'
  <1> USE DEF ldapVars, resolverVars, cacheVars, storeVars
  <1> DEFINE h == Head(todo)
             R == Tasks(Tail(todo))
             u == h.p
             again == [op |-> "retry", p |-> u]
             more == load_full_identities \o <<again>>
  <1>1. /\ alive /\ todo # <<>> /\ h.op \in {"lookup", "retry"} /\ alive'
        /\ UNCHANGED <<up, group, rGroups, rMember, held>>
        /\ \/ Admit(u, Tail(todo)) /\ UNCHANGED negative
           \/ /\ negative' = negative \union {<<"u", u>>} /\ UNCHANGED cache
              /\ todo' = <<>> \/ todo' = load_full_identities \o <<again>> \o Tail(todo)
    <2>1. CASE LookupUser
      BY Zenon, <2>1 DEF LookupUser, At
    <2>2. CASE RetryUser
      BY Zenon, <2>2 DEF RetryUser, At
    <2> QED
      BY Zenon, <2>1, <2>2
  <1>2. h.op \notin Loads \union Bulk /\ h.op \notin Loads
    BY <1>1 DEF Loads, Bulk
  <1>3. /\ Line(Tail(todo)) /\ R \subseteq Tasks(todo) /\ h \in Tasks(todo)
        /\ \A b \in R : b.op # "write" /\ b.op \notin Gates
        /\ \A pre : Line(pre) => /\ Line(pre \o Tail(todo)) /\ Tasks(pre \o Tail(todo)) = Tasks(pre) \union R
    BY <1>1, <1>2, LineOn DEF HeldInv
  <1>4. Kept => u \notin DOMAIN cache
    BY <1>1, <1>3 DEF Kept, Carries
  <1>5. again.op = "retry" /\ again.p = u
    OBVIOUS
  <1> HIDE DEF again, u
  <1>6. CASE Admit(u, Tail(todo)) /\ UNCHANGED negative
    <2> DEFINE N == {}
    <2>1. R \subseteq N \union R /\ \A t \in N : Carries(t, held, cache') /\ t.op \notin Bulk
      OBVIOUS
    <2> HIDE DEF N
    <2> QED
      BY Zenon, <1>1, <1>2, <1>3, <1>4, <1>6, <2>1, AdmitHolds
  <1>7. CASE /\ negative' = negative \union {<<"u", u>>} /\ UNCHANGED cache
             /\ todo' = <<>> \/ todo' = load_full_identities \o <<again>> \o Tail(todo)
    <2>1. Settled => Settled'
      <3>1. Answerable(held, rMember, negative) => Answerable(held, rMember, negative')
        BY <1>7 DEF Answerable
      <3> QED
        BY Zenon, <1>1, <1>7, <3>1 DEF Settled, GroupRows
    <2>2. CASE todo' = <<>>
      <3> DEFINE E == {}
      <3>1. Line(todo') /\ Tasks(todo') \subseteq E
        BY <1>3, <2>2, NoTask DEF Line, Chained
      <3>2. E \subseteq Tasks(todo) /\ \A b \in E : b.op \notin Gates
        OBVIOUS
      <3> HIDE DEF E
      <3> QED
        BY <1>1, <1>2, <2>1, <3>1, <3>2, TaskOver
    <2>3. CASE todo' = load_full_identities \o <<again>> \o Tail(todo)
      <3>1. Shaped(again) /\ ~Strict(again)
        BY <1>5 DEF Shaped, Strict
      <3>2. Line(<<again>>) /\ Tasks(<<again>>) = {again}
        BY <1>5, <3>1, LineOne
      <3>3. Follows(load_full_identities, <<again>>)
        BY <1>5, <3>2, LineLoad DEF Follows, Loads
      <3>4. Line(more) /\ Tasks(more) = {[op |-> "users"], [op |-> "groups"]} \union {again}
        BY <3>2, <3>3, LineLoad, LineJoin
      <3>5. todo' = more \o Tail(todo)
        BY <2>3
      <3> HIDE DEF more
      <3>6. Line(todo') /\ Tasks(todo') \subseteq Tasks(more) \union R
        BY Zenon, <1>3, <3>4, <3>5
      <3>7. Kept => \A t \in Tasks(more) : Carries(t, held, cache') /\ t.op \notin Bulk
        <4> HAVE Kept
        <4>1. Carries(again, held, cache') /\ again.op \notin Bulk
          BY <1>4, <1>5, <1>7 DEF Carries, Bulk
        <4>2. \A t \in {[op |-> "users"], [op |-> "groups"]} : Carries(t, held, cache') /\ t.op \notin Bulk
          BY DEF Carries, Bulk
        <4> QED
          BY Zenon, <3>4, <4>1, <4>2
      <3> HIDE DEF R
      <3> QED
        BY Zenon, <1>1, <1>2, <1>3, <2>1, <3>6, <3>7, StepOn
    <2> QED
      BY Zenon, <1>7, <2>2, <2>3
  <1> QED
    BY Zenon, <1>1, <1>6, <1>7

\* The server's own principals.
LEMMA PreresolveHolds ==
  ASSUME HeldInv, HeldTypes', NoOutage' => NoOutage, Preresolve
  PROVE  HeldInv'
  <1> USE DEF ldapVars, resolverVars, cacheVars, storeVars
  <1> DEFINE h == Head(todo)
             R == Tasks(Tail(todo))
             After(m) == [h EXCEPT !.left = @ \ {m}]
  <1>1. /\ alive /\ todo # <<>> /\ h.op = "preresolve" /\ alive'
        /\ UNCHANGED <<up, group, rGroups, rMember, negative, held>>
        /\ \/ todo' = Tail(todo) /\ UNCHANGED cache
           \/ \E m \in h.left : IF m \in DOMAIN cache THEN todo' = <<After(m)>> \o Tail(todo) /\ UNCHANGED cache
                                                      ELSE Admit(m, <<After(m)>> \o Tail(todo))
    BY Zenon DEF Preresolve, At
  <1>2. h.op \notin Loads \union Bulk /\ h.op \notin Loads
    BY <1>1 DEF Loads, Bulk
  <1>3. /\ Line(Tail(todo)) /\ R \subseteq Tasks(todo)
        /\ \A b \in R : b.op # "write" /\ b.op \notin Gates
    BY <1>1, <1>2, LineOn DEF HeldInv
  <1>4. DOMAIN h = {"op", "left"}
    BY <1>1, LineTail DEF HeldInv, Shaped
  <1>5. CASE todo' = Tail(todo) /\ UNCHANGED cache
    <2>1. Settled => Settled'
      BY <1>1, <1>5, SettledStays
    <2>2. Line(todo') /\ Tasks(todo') \subseteq R
      BY Zenon, <1>3, <1>5
    <2> HIDE DEF R
    <2> QED
      BY <1>1, <1>2, <1>3, <2>1, <2>2, TaskOver
  <1>6. CASE \E m \in h.left : IF m \in DOMAIN cache THEN todo' = <<After(m)>> \o Tail(todo) /\ UNCHANGED cache
                                                     ELSE Admit(m, <<After(m)>> \o Tail(todo))
    <2>1. PICK m \in h.left : IF m \in DOMAIN cache THEN todo' = <<After(m)>> \o Tail(todo) /\ UNCHANGED cache
                                                    ELSE Admit(m, <<After(m)>> \o Tail(todo))
      BY Zenon, <1>6
    <2> DEFINE a == After(m)
               rest == <<a>> \o Tail(todo)
               N == {a}
    <2>2. a.op = "preresolve" /\ DOMAIN a = {"op", "left"}
      BY <1>1, <1>4
    <2>3. IF m \in DOMAIN cache THEN todo' = rest /\ UNCHANGED cache ELSE Admit(m, rest)
      BY Zenon, <2>1
    <2> HIDE DEF a, After
    <2>4. Shaped(a) /\ ~Strict(a) /\ Carries(a, held, cache') /\ a.op \notin Bulk
      BY <2>2 DEF Shaped, Strict, Carries, Bulk
    <2>5. Line(rest) /\ Tasks(rest) = {a} \union R
      BY <1>1, <1>2, <2>2, <2>4, LineSwap DEF HeldInv, Bulk
    <2>6. \A t \in N : Carries(t, held, cache') /\ t.op \notin Bulk
      BY <2>4
    <2>7. Tasks(rest) \subseteq N \union R /\ \A b \in Tasks(rest) : b.op # "write" /\ b.op \notin Gates
      BY <1>3, <2>2, <2>5 DEF Gates
    <2> HIDE DEF N, R, rest
    <2>8. CASE m \in DOMAIN cache
      <3>1. Settled => Settled'
        BY <1>1, <2>3, <2>8, SettledStays
      <3>2. Line(todo') /\ Tasks(todo') \subseteq N \union R
        BY Zenon, <2>3, <2>5, <2>7, <2>8
      <3> QED
        BY Zenon, <1>1, <1>2, <1>3, <2>6, <3>1, <3>2, StepOn
    <2>9. CASE m \notin DOMAIN cache
      BY Zenon, <1>1, <1>2, <1>3, <2>3, <2>5, <2>6, <2>7, <2>9, AdmitHolds
    <2> QED
      BY <2>8, <2>9
  <1> QED
    BY Zenon, <1>1, <1>5, <1>6

\* A request arrives.
LEMMA RequestHolds ==
  ASSUME HeldInv, HeldTypes', NoOutage' => NoOutage, NEW p, NEW verb, Request(p, verb)
  PROVE  HeldInv'
  <1> USE DEF ldapVars, resolverVars, cacheVars, storeVars
  <1> DEFINE ga == [op |-> "groups_again", p |-> p]
             again == IF verb = "GRPS" THEN <<ga>> ELSE <<>>
             sv == ServeGroups(p, FALSE, FALSE)
             look == [op |-> "lookup", p |-> p]
             R == {}
  <1>1. /\ alive /\ todo = <<>> /\ alive' /\ UNCHANGED <<up, group, rGroups, rMember, negative, held>>
        /\ \/ todo' = sv /\ UNCHANGED cache
           \/ p \notin DOMAIN cache /\ Admit(p, again)
           \/ p \notin DOMAIN cache /\ todo' = <<look>> \o again /\ UNCHANGED cache
    BY Zenon DEF Request, Idle
  <1>2. R \subseteq Tasks(todo) /\ \A b \in R : b.op \notin Gates
    OBVIOUS
  <1>3. ga.op = "groups_again" /\ look.op = "lookup" /\ look.p = p
    OBVIOUS
  <1> HIDE DEF ga, look
  <1>4. /\ Shaped(ga) /\ ~Strict(ga) /\ Carries(ga, held, cache') /\ Shaped(look) /\ ~Strict(look)
    BY <1>3 DEF Shaped, Strict, Carries
  <1>5. Line(<<>>) /\ Line(<<ga>>) /\ Tasks(<<ga>>) = {ga} /\ Line(<<look>>) /\ Tasks(<<look>>) = {look}
    BY <1>3, <1>4, LineOne
  <1>6. Line(again) /\ Tasks(again) \subseteq {ga}
    BY Zenon, <1>5, NoTask
  <1>7. /\ \A t \in Tasks(again) : Carries(t, held, cache') /\ t.op \notin Bulk
        /\ \A b \in Tasks(again) : b.op # "write" /\ b.op \notin Gates
    BY <1>3, <1>4, <1>6 DEF Bulk, Gates
  <1> HIDE DEF again
  <1>8. UNCHANGED cache /\ Settled => Settled'
    BY <1>1, SettledStays
  <1>9. CASE todo' = sv /\ UNCHANGED cache
    <2>1. Line(sv) /\ \A t \in Tasks(sv) : Carries(t, held, cache') /\ t.op \notin Bulk
      BY Zenon, LineServes, ServesCarry
    <2>2. Line(todo') /\ Tasks(todo') \subseteq Tasks(sv) \union R
      BY Zenon, <1>9, <2>1
    <2> HIDE DEF sv, R
    <2> QED
      BY Zenon, <1>1, <1>2, <1>8, <1>9, <2>1, <2>2, StepOn
  <1>10. CASE p \notin DOMAIN cache /\ Admit(p, again)
    <2>1. Tasks(again) \subseteq Tasks(again) \union R
      OBVIOUS
    <2> HIDE DEF R
    <2> QED
      BY Zenon, <1>1, <1>2, <1>6, <1>7, <1>10, <2>1, AdmitHolds
  <1>11. CASE p \notin DOMAIN cache /\ todo' = <<look>> \o again /\ UNCHANGED cache
    <2> DEFINE N == {look} \union Tasks(again)
    <2>1. Carries(look, held, cache') /\ look.op \notin Bulk
      BY <1>3, <1>11 DEF Carries, Bulk
    <2>2. Follows(<<look>>, again)
      BY Zenon, <1>7 DEF Follows
    <2>3. Line(todo') /\ Tasks(todo') = N
      BY Zenon, <1>5, <1>6, <1>11, <2>2, LineJoin
    <2>4. Line(todo') /\ Tasks(todo') \subseteq N \union R
      BY <2>3
    <2>5. \A t \in N : Carries(t, held, cache') /\ t.op \notin Bulk
      BY Zenon, <1>7, <2>1
    <2> HIDE DEF N, R
    <2> QED
      BY Zenon, <1>1, <1>2, <1>8, <1>11, <2>4, <2>5, StepOn
  <1> QED
    BY Zenon, <1>1, <1>9, <1>10, <1>11

-----------------------------------------------------------------------------
(***************************************************************************)
(* The load and the rebulk.                                                *)
(***************************************************************************)

\* The searches of a load.
LEMMA LoadHolds ==
  ASSUME HeldInv, HeldTypes', NoOutage' => NoOutage, LoadUsers \/ LoadGroups
  PROVE  HeldInv'
  <1> USE DEF ldapVars, resolverVars, cacheVars, storeVars
  <1> DEFINE h == Head(todo)
             R == Tasks(Tail(todo))
  <1>1. /\ alive /\ todo # <<>> /\ h.op \in Loads /\ alive' /\ todo' = Tail(todo)
        /\ UNCHANGED <<up, group, cache, held>>
    <2>1. CASE LoadUsers
      BY <2>1 DEF LoadUsers, At, Loads
    <2>2. CASE LoadGroups
      BY <2>2 DEF LoadGroups, At, Loads
    <2> QED
      BY <2>1, <2>2
  <1>2. /\ Line(Tail(todo)) /\ Tasks(todo) = {h} \union R
        /\ h.op = "users" => Tail(todo) # <<>> /\ Head(Tail(todo)).op = "groups"
    BY <1>1, LineTail DEF HeldInv
  <1> SUFFICES ASSUME NoOutage' PROVE Kept'
    BY <1>1, <1>2 DEF HeldInv
  <1>3. up /\ GroupRows /\ (\A t \in Tasks(todo) : Carries(t, held, cache)) /\ Known
    BY <1>1 DEF HeldInv, Kept
  <1>4. Pending(R) <=> Pending(Tasks(todo))
    BY <1>1, <1>2 DEF Pending, Bulk, Loads
  <1>5. \A t \in Tasks(todo') : Carries(t, held', cache')
    BY Zenon, <1>1, <1>2, <1>3
  <1>6. ~Pending(Tasks(todo')) => Claimed(held', cache')
    BY <1>1, <1>3, <1>4 DEF Known
  <1>7. up' /\ GroupRows'
    BY <1>1, <1>3 DEF GroupRows
  <1> SUFFICES Known'
    BY <1>5, <1>7 DEF Kept
  <1>8. CASE LoadUsers
    <2>1. h.op = "users" /\ rUsers' = dirUsers /\ rMember' = Nothing /\ negative' = {}
      BY <1>3, <1>8 DEF LoadUsers, At
    <2>2. Before(Loads)'
      BY <1>1, <1>2, <2>1 DEF Before, Loads
    <2>3. Answerable(held', rMember', negative')
      BY <2>1 DEF Answerable, Nothing
    <2>4. \A e \in held' : e[1] \in rUsers'
      BY <1>1, <2>1, HeldEdge DEF HeldInv
    <2> QED
      BY <1>6, <2>2, <2>3, <2>4 DEF Known
  <1>9. CASE LoadGroups
    <2>1. h.op = "groups" /\ rGroups' = member /\ UNCHANGED <<rUsers, rMember, negative>>
      BY <1>3, <1>9 DEF LoadGroups, At
    <2>2. ~Before({"users"})
      BY <2>1 DEF Before
    <2>3. DOMAIN member = Groups /\ Listed(held, member)
      BY HeldEdge DEF HeldInv, HeldTypes, Listed
    <2>4. Answerable(held, rMember, negative) /\ (Pending(Tasks(todo)) => \A e \in held : e[1] \in rUsers)
      BY <1>3, <2>2 DEF Known
    <2>5. Pending(Tasks(todo')) => Pending(Tasks(todo))
      BY <1>1, <1>4
    <2> QED
      BY <1>1, <1>6, <2>1, <2>3, <2>4, <2>5 DEF Known
  <1> QED
    BY <1>8, <1>9

\* What is known when a rebulk looks at its load or warms it.
LEMMA BulkKnows ==
  ASSUME HeldInv, NoOutage, alive, todo # <<>>, Head(todo).op \in Bulk
  PROVE  /\ up /\ GroupRows /\ Groups \subseteq DOMAIN rGroups /\ Listed(held, rGroups)
         /\ Answerable(held, rMember, negative) /\ \A e \in held : e[1] \in rUsers
         /\ \A t \in Tasks(todo) : Carries(t, held, cache)
  <1>1. up /\ GroupRows /\ (\A t \in Tasks(todo) : Carries(t, held, cache)) /\ Known
    BY DEF HeldInv, Kept
  <1>2. Head(todo) \in Tasks(todo)
    BY LineTail DEF HeldInv
  <1>3. Pending(Tasks(todo))
    BY <1>2 DEF Pending
  <1>4. ~Before(Loads) /\ ~Before({"users"})
    BY DEF Before, Loads, Bulk
  <1> QED
    BY <1>1, <1>3, <1>4 DEF Known

\* The task at hand of a rebulk's load is followed by one more of it.
LEMMA BulkOn ==
  ASSUME HeldInv, HeldTypes', NoOutage' => NoOutage, alive, todo # <<>>, Head(todo).op \in Bulk,
         NEW a, a.op = "warm", DOMAIN a = {"op", "left", "live"},
         todo' = <<a>> \o Tail(todo), alive', UNCHANGED <<up, group, cache, held, rUsers>>,
         NoOutage => /\ Groups \subseteq DOMAIN rGroups' /\ Listed(held, rGroups')
                     /\ Answerable(held, rMember', negative') /\ Carries(a, held, cache)
  PROVE  HeldInv'
  <1> DEFINE R == Tasks(Tail(todo))
  <1>1. Head(todo).op \notin Loads /\ Shaped(a) /\ ~Strict(a) /\ a.op \in Bulk /\ a.op # "users"
    BY DEF Loads, Bulk, Shaped, Strict
  <1>2. Line(todo') /\ Tasks(todo') = {a} \union R
    BY Zenon, <1>1, LineSwap DEF HeldInv, Bulk
  <1>3. R \subseteq Tasks(todo)
    BY LineTail DEF HeldInv
  <1> SUFFICES ASSUME NoOutage' PROVE Kept'
    BY <1>2 DEF HeldInv
  <1>4. /\ up /\ GroupRows /\ \A e \in held : e[1] \in rUsers
        /\ \A t \in Tasks(todo) : Carries(t, held, cache)
    BY BulkKnows
  <1>5. \A t \in Tasks(todo') : Carries(t, held', cache')
    BY Zenon, <1>2, <1>3, <1>4
  <1>6. Pending(Tasks(todo'))
    BY <1>1, <1>2 DEF Pending
  <1>7. up' /\ GroupRows'
    BY <1>4 DEF GroupRows
  <1>8. Known'
    BY <1>4, <1>6 DEF Known
  <1> QED
    BY <1>5, <1>7, <1>8 DEF Kept

\* The load is looked at, and warmed or given up.
LEMMA LoadedHolds ==
  ASSUME HeldInv, HeldTypes', NoOutage' => NoOutage, Loaded
  PROVE  HeldInv'
  <1> USE DEF ldapVars, resolverVars, cacheVars, storeVars
  <1> DEFINE h == Head(todo)
             R == Tasks(Tail(todo))
             a == [op |-> "warm", left |-> rUsers, live |-> Nothing]
  <1>1. /\ alive /\ todo # <<>> /\ h.op = "loaded" /\ alive'
        /\ UNCHANGED <<up, group, rUsers, rGroups, rMember, negative, cache, held>>
        /\ todo' = IF rUsers = {} THEN AbandonRebulk(Tail(todo)) ELSE <<a>> \o Tail(todo)
    BY DEF Loaded, At
  <1>2. h.op \in Bulk /\ h.op \notin Loads
    BY <1>1 DEF Bulk, Loads
  <1>3. CASE rUsers = {}
    <2>1. /\ Line(Tail(todo)) /\ R \subseteq Tasks(todo) /\ Tail(todo) # <<>> /\ Head(Tail(todo)).op = "save"
          /\ \A b \in R : b.op # "write" /\ b.op \notin Gates
      BY Zenon, <1>1, <1>2, LineTail DEF HeldInv
    <2>2. SaveNear(Tail(todo), 0)
      <3> DEFINE s == Tail(todo)
      <3>1. s \in Seq(R) /\ s # <<>> /\ Head(s).op = "save"
        BY <2>1 DEF Line, Lined
      <3> HIDE DEF s, R
      <3>2. Len(s) \in Nat /\ Len(s) >= 1 /\ Head(s) = s[1]
        BY <3>1
      <3> QED
        BY <3>1, <3>2 DEF SaveNear, s
    <2>3. todo' = AbandonRebulk(Tail(todo))
      BY <1>1, <1>3
    <2>4. Line(todo') /\ Tasks(todo') \subseteq R
      BY Zenon, <2>1, <2>2, <2>3, LineGivenUp
    <2> SUFFICES ASSUME NoOutage' PROVE Kept'
      BY <1>1, <2>4 DEF HeldInv
    <2>5. /\ up /\ GroupRows /\ Groups \subseteq DOMAIN rGroups /\ Listed(held, rGroups)
          /\ Answerable(held, rMember, negative) /\ \A e \in held : e[1] \in rUsers
          /\ \A t \in Tasks(todo) : Carries(t, held, cache)
      BY <1>1, <1>2, BulkKnows
    <2>6. \A t \in Tasks(todo') : Carries(t, held', cache') /\ t.op \notin Gates
      BY Zenon, <1>1, <2>1, <2>4, <2>5
    <2>7. ~Pending(Tasks(todo'))
      BY <2>6 DEF Pending, Bulk, Gates
    <2>8. Claimed(held', cache')
      BY Zenon, <1>1, <1>3, <2>5 DEF Claimed
    <2>9. Known'
      BY <1>1, <2>5, <2>7, <2>8 DEF Known
    <2>10. up' /\ GroupRows'
      BY Zenon, <1>1, <2>5 DEF GroupRows
    <2> QED
      BY <2>6, <2>9, <2>10 DEF Kept
  <1>4. CASE rUsers # {}
    <2>1. a.op = "warm" /\ a.left = rUsers /\ a.live = Nothing /\ DOMAIN a = {"op", "left", "live"}
      OBVIOUS
    <2>2. todo' = <<a>> \o Tail(todo)
      BY <1>1, <1>4
    <2> HIDE DEF a
    <2>3. NoOutage => /\ Groups \subseteq DOMAIN rGroups' /\ Listed(held, rGroups')
                      /\ Answerable(held, rMember', negative') /\ Carries(a, held, cache)
      <3> HAVE NoOutage
      <3>1. /\ Groups \subseteq DOMAIN rGroups /\ Listed(held, rGroups)
            /\ Answerable(held, rMember, negative) /\ \A e \in held : e[1] \in rUsers
        BY <1>1, <1>2, BulkKnows
      <3>2. Carries(a, held, cache)
        BY <2>1, <3>1 DEF Carries, Nothing
      <3> QED
        BY <1>1, <3>1, <3>2
    <2> QED
      BY Zenon, <1>1, <1>2, <2>1, <2>2, <2>3, BulkOn
  <1> QED
    BY <1>3, <1>4

\* The groups of a loaded user are looked up.
LEMMA WarmHolds ==
  ASSUME HeldInv, HeldTypes', NoOutage' => NoOutage, WarmUser
  PROVE  HeldInv'
  <1> USE DEF ldapVars, resolverVars, cacheVars, storeVars
  <1> DEFINE h == Head(todo)
  <1>1. /\ alive /\ todo # <<>> /\ h.op = "warm" /\ alive'
        /\ UNCHANGED <<up, group, cache, held>>
        /\ \E u \in h.left :
             LET gids == resolve_groups_for_principal(u)
             IN /\ RememberGroups(u, gids)
                /\ todo' = <<[h EXCEPT !.left = @ \ {u}, !.live = With(@, u, gids)]>> \o Tail(todo)
    BY Zenon DEF WarmUser, At
  <1>2. h.op \in Bulk
    BY <1>1 DEF Bulk
  <1>3. DOMAIN h = {"op", "left", "live"} /\ h \in Tasks(todo)
    BY <1>1, LineTail DEF HeldInv, Shaped
  <1>4. PICK u \in h.left :
          LET gids == resolve_groups_for_principal(u)
          IN /\ RememberGroups(u, gids)
             /\ todo' = <<[h EXCEPT !.left = @ \ {u}, !.live = With(@, u, gids)]>> \o Tail(todo)
    BY Zenon, <1>1
  <1> DEFINE gids == resolve_groups_for_principal(u)
             a == [h EXCEPT !.left = @ \ {u}, !.live = With(@, u, gids)]
  <1>5. RememberGroups(u, gids) /\ todo' = <<a>> \o Tail(todo) /\ UNCHANGED rUsers
    BY Zenon, <1>4 DEF RememberGroups
  <1> HIDE DEF gids
  <1>6. /\ a.op = "warm" /\ DOMAIN a = {"op", "left", "live"}
        /\ a.left = h.left \ {u} /\ a.live = With(h.live, u, gids)
    BY <1>1, <1>3
  <1> HIDE DEF a
  <1>7. NoOutage => /\ Groups \subseteq DOMAIN rGroups' /\ Listed(held, rGroups')
                    /\ Answerable(held, rMember', negative') /\ Carries(a, held, cache)
    <2> HAVE NoOutage
    <2>1. /\ up /\ Groups \subseteq DOMAIN rGroups /\ Listed(held, rGroups)
          /\ Answerable(held, rMember, negative) /\ Carries(h, held, cache)
      BY Zenon, <1>1, <1>2, <1>3, BulkKnows
    <2>2. /\ Groups \subseteq DOMAIN rGroups' /\ Listed(held, rGroups')
          /\ Answerable(held, rMember', negative')
      <3>1. HeldTypes
        BY DEF HeldInv
      <3> QED
        BY Zenon, <1>5, <2>1, <3>1, RemembersHeld
    <2>3. ASSUME NEW e \in held, e[3] = "memberOf", e[1] = u PROVE e[2] \in gids
      <3>1. /\ u \in Users /\ u \in dirUsers /\ e[2] \in Groups /\ e[2] \in memberOf[u]
        BY <2>3, HeldEdge DEF HeldInv
      <3>2. <<"mo", u>> \notin negative /\ (u \in DOMAIN rMember => e[2] \in rMember[u])
        BY Zenon, <2>1, <2>3 DEF Answerable
      <3>3. e[2] \in MemberOfNames(u)
        BY <2>1, <3>1, <3>2 DEF MemberOfNames, MemberOfLive
      <3>4. Numbered(e[2])
        BY <2>1, <3>1 DEF Numbered
      <3> QED
        BY <3>1, <3>3, <3>4 DEF gids, resolve_groups_for_principal
    <2>4. ASSUME NEW e \in held
          PROVE  /\ e[1] \in a.left \union DOMAIN a.live
                 /\ e[3] = "memberOf" /\ e[1] \in DOMAIN a.live => e[2] \in a.live[e[1]]
      <3>1. /\ e[1] \in h.left \union DOMAIN h.live
            /\ e[3] = "memberOf" /\ e[1] \in DOMAIN h.live => e[2] \in h.live[e[1]]
        BY <1>1, <2>1 DEF Carries
      <3> QED
        BY <1>6, <2>3, <3>1 DEF With
    <2>5. Carries(a, held, cache)
      BY <1>6, <2>4 DEF Carries
    <2> QED
      BY <2>2, <2>5
  <1> QED
    BY Zenon, <1>1, <1>2, <1>5, <1>6, <1>7, BulkOn

\* The load is applied: the memory has the live memberOf edges, and the two
\* rewrites have the snapshot's member lists.
LEMMA SyncHolds ==
  ASSUME HeldInv, HeldTypes', NoOutage' => NoOutage, RebulkSync
  PROVE  HeldInv'
  <1> USE DEF ldapVars, resolverVars, cacheVars, storeVars
  <1> DEFINE h == Head(todo)
             m == MatOf(rGroups)
             ra == [op |-> "refresh_all"]
             sv == [op |-> "save", changed |-> cache' # cache]
             four == <<m, ra, m, sv>>
             rest == Tail(Tail(todo))
  <1>1. /\ alive /\ todo # <<>> /\ h.op = "warm" /\ h.left = {} /\ alive'
        /\ UNCHANGED <<up, group, rUsers, rGroups, rMember, negative, held>>
        /\ cache' = sync_user_cache_from_snapshot(h.live) /\ todo' = four \o rest
    BY DEF RebulkSync, At
  <1>2. h.op \in Bulk /\ h.op \notin Loads
    BY <1>1 DEF Bulk, Loads
  <1>3. /\ Line(Tail(todo)) /\ Tasks(todo) = {h} \union Tasks(Tail(todo)) /\ Tail(todo) # <<>>
        /\ \A b \in Tasks(Tail(todo)) : b.op # "write" /\ b.op \notin Gates
    BY <1>1, <1>2, LineTail DEF HeldInv
  <1>4. Line(rest) /\ Tasks(rest) \subseteq Tasks(Tail(todo))
    BY Zenon, <1>3, LineTail
  <1>5. /\ m.op = "mat" /\ m.groups = rGroups /\ ra.op = "refresh_all" /\ sv.op = "save"
    BY DEF MatOf
  <1> HIDE DEF m, ra, sv
  <1>6. Line(four) /\ Tasks(four) = {m, ra, sv}
    <2>1. \A t \in {m, ra, m, sv} : t.op # "write" /\ t.op \notin Gates /\ t.op # "users" /\ Shaped(t)
      BY <1>5 DEF Gates, Shaped
    <2>2. Lined(four) /\ Tasks(four) = {m, ra, m, sv}
      BY <2>1, SyncTasks
    <2>3. /\ Len(four) = 4 /\ four[1] = m /\ four[2] = ra /\ four[3] = m /\ four[4] = sv
      OBVIOUS
    <2> HIDE DEF four
    <2>4. \A i \in 1 .. Len(four) : i = 1 \/ i = 2 \/ i = 3 \/ i = 4
      BY <2>3
    <2>5. SaveNear(four, 1) /\ SaveNear(four, 3)
      BY <1>5, <2>3 DEF SaveNear
    <2>6. Chained(four)
      <3>1. ~Strict(ra) /\ ~Strict(sv)
        BY <1>5 DEF Strict
      <3> QED
        BY Zenon, <2>1, <2>3, <2>4, <2>5, <3>1 DEF Chained
    <2> QED
      BY Zenon, <2>1, <2>2, <2>6 DEF Line
  <1> HIDE DEF four, rest
  <1>7. Line(todo') /\ Tasks(todo') = {m, ra, sv} \union Tasks(rest)
    <2>1. Follows(four, rest)
      BY <1>3, <1>4 DEF Follows
    <2> QED
      BY <1>1, <1>4, <1>6, <2>1, LineJoin
  <1> SUFFICES ASSUME NoOutage' PROVE Kept'
    BY <1>1, <1>7 DEF HeldInv
  <1>8. /\ up /\ GroupRows /\ Groups \subseteq DOMAIN rGroups /\ Listed(held, rGroups)
        /\ Answerable(held, rMember, negative) /\ \A e \in held : e[1] \in rUsers
        /\ \A t \in Tasks(todo) : Carries(t, held, cache)
    BY <1>1, <1>2, BulkKnows
  <1>9. Claimed(held, cache')
    <2> SUFFICES ASSUME NEW e \in held, e[3] = "memberOf"
                 PROVE  e[1] \in DOMAIN cache' /\ e[2] \in cache'[e[1]]
      BY DEF Claimed
    <2>1. Carries(h, held, cache)
      BY Zenon, <1>3, <1>8
    <2>2. e[1] \in DOMAIN h.live /\ e[2] \in h.live[e[1]]
      BY <1>1, <2>1 DEF Carries
    <2>3. e[1] \in rUsers /\ e[1] \notin Machines
      BY Zenon, <1>8, HeldEdge DEF HeldInv
    <2> QED
      BY <1>1, <2>2, <2>3 DEF sync_user_cache_from_snapshot
  <1>10. \A t \in {m, ra, sv} : Carries(t, held, cache') /\ t.op \notin Bulk
    BY Zenon, <1>5, <1>8 DEF Carries, Bulk
  <1>11. \A t \in Tasks(rest) : Carries(t, held, cache') /\ t.op \notin Bulk
    <2> TAKE t \in Tasks(rest)
    <2>1. Carries(t, held, cache) /\ t.op \notin Gates
      BY Zenon, <1>3, <1>4, <1>8
    <2> QED
      BY <2>1 DEF Carries, Gates, Bulk
  <1>12. \A t \in Tasks(todo') : Carries(t, held', cache') /\ t.op \notin Bulk
    BY Zenon, <1>1, <1>7, <1>10, <1>11
  <1>13. ~Pending(Tasks(todo'))
    BY <1>12 DEF Pending
  <1>14. Known'
    BY Zenon, <1>1, <1>8, <1>9, <1>13 DEF Known
  <1>15. up' /\ GroupRows'
    BY <1>1, <1>8 DEF GroupRows
  <1> QED
    BY <1>12, <1>14, <1>15 DEF Kept

\* The tasks of a rebulk begin with a search and carry nothing.
LEMMA LineRebulk ==
  /\ Line(rebulk_ldap_users) /\ rebulk_ldap_users # <<>> /\ Head(rebulk_ldap_users).op = "users"
  /\ [op |-> "loaded"] \in Tasks(rebulk_ldap_users)
  /\ \A t \in Tasks(rebulk_ldap_users) : t.op \in {"users", "groups", "loaded", "save"}
  <1>1. Lined(rebulk_ldap_users) /\ \A t \in Tasks(rebulk_ldap_users) : t.op \in {"users", "groups", "loaded", "save"}
    BY RebulkTasks
  <1> DEFINE load == load_full_identities
             loaded == [op |-> "loaded"]
             save == [op |-> "save", changed |-> FALSE]
             last == <<loaded, save>>
             S == Tasks(load) \union Tasks(last)
  <1>2. Tasks(last) = {loaded, save} /\ Chained(last) /\ last \in Seq({loaded, save})
    <2>1. loaded.op = "loaded" /\ save.op = "save"
      OBVIOUS
    <2> HIDE DEF loaded, save
    <2>2. Tasks(last) = {loaded, save}
      BY DEF Tasks
    <2>3. \A i \in 1 .. Len(last) : last[i].op # "users" /\ ~Strict(last[i])
      BY <2>1 DEF Strict
    <2> QED
      BY <2>2, <2>3 DEF Chained
  <1>3. load # <<>> /\ Head(load).op = "users" /\ load \in Seq(Tasks(load)) /\ Chained(load)
    BY LineLoad DEF load_full_identities, Line, Lined
  <1>4. rebulk_ldap_users = load \o last
    BY DEF rebulk_ldap_users
  <1> HIDE DEF loaded, save
  <1>5. load \in Seq(S) /\ last \in Seq(S)
    BY <1>2, <1>3
  <1> HIDE DEF load, last, S
  <1>6. Chained(load \o last) /\ Tasks(load \o last) = Tasks(load) \union Tasks(last)
    BY <1>2, <1>3, <1>5, ChainedJoin, JoinedTasks
  <1>7. load \o last # <<>> /\ Head(load \o last) = Head(load)
    <2>1. Len(load) >= 1 /\ Len(load) \in Nat /\ Len(last) \in Nat
      BY <1>3, <1>5
    <2> QED
      BY <1>3, <1>5, <2>1
  <1>8. \A t \in Tasks(rebulk_ldap_users) : Shaped(t)
    BY <1>1 DEF Shaped
  <1>9. loaded \in Tasks(load \o last)
    BY <1>2, <1>6
  <1> QED
    BY Zenon, <1>1, <1>3, <1>4, <1>6, <1>7, <1>8, <1>9 DEF Line, load, loaded

\* A rebulk begins, alone or with a daemon.
LEMMA BeginHolds ==
  ASSUME HeldInv, HeldTypes', NoOutage' => NoOutage, Rebulk \/ Start
  PROVE  HeldInv'
  <1> USE DEF ldapVars, resolverVars, cacheVars, storeVars
  <1> DEFINE pr == [op |-> "preresolve", left |-> Servers]
             m == Mat(FALSE)
             ra == [op |-> "refresh_all"]
             last == <<pr, m, ra>>
  <1>1. UNCHANGED <<up, group>> /\ alive' /\ (todo' = rebulk_ldap_users \/ todo' = rebulk_ldap_users \o last)
    <2>1. CASE Rebulk
      BY <2>1 DEF Rebulk, Idle
    <2>2. CASE Start
      BY <2>2 DEF Start, run_daemon
    <2> QED
      BY Zenon, <2>1, <2>2
  <1>2. /\ pr.op = "preresolve" /\ DOMAIN pr = {"op", "left"} /\ m.op = "mat" /\ ~m.strict /\ ~m.fixed
        /\ ra.op = "refresh_all"
    BY DEF Mat
  <1> HIDE DEF pr, m, ra
  <1>3. Line(last) /\ Tasks(last) = {pr, m, ra}
    <2>1. Tasks(last) = {pr, m, ra} /\ Len(last) = 3 /\ \A j \in 1 .. 3 : last[j] \in {pr, m, ra}
      BY DEF Tasks
    <2>2. last \in Seq(Tasks(last))
      BY <2>1
    <2> HIDE DEF last
    <2>3. \A t \in {pr, m, ra} : /\ t.op # "write" /\ t.op \notin Gates /\ t.op # "users"
                                 /\ Shaped(t) /\ ~Strict(t)
      BY <1>2 DEF Gates, Shaped, Strict
    <2>4. Orderly(last)
      BY <2>1, <2>3 DEF Orderly
    <2>5. Guarded(last)
      BY <2>1, <2>3 DEF Guarded, Gates
    <2>6. Chained(last)
      BY <2>1, <2>3 DEF Chained
    <2> QED
      BY Zenon, <2>1, <2>2, <2>3, <2>4, <2>5, <2>6 DEF Line, Lined
  <1> HIDE DEF last
  <1>4. /\ Line(todo') /\ todo' # <<>> /\ Head(todo').op = "users" /\ [op |-> "loaded"] \in Tasks(todo')
        /\ Tasks(todo') \subseteq Tasks(rebulk_ldap_users) \union {pr, m, ra}
    <2>1. CASE todo' = rebulk_ldap_users
      BY Zenon, <2>1, LineRebulk
    <2>2. CASE todo' = rebulk_ldap_users \o last
      <3>1. Follows(rebulk_ldap_users, last)
        BY <1>2, <1>3 DEF Follows, Gates
      <3>2. Line(todo') /\ Tasks(todo') = Tasks(rebulk_ldap_users) \union {pr, m, ra}
        BY <1>3, <2>2, <3>1, LineRebulk, LineJoin
      <3>3. todo' # <<>> /\ Head(todo').op = "users"
        <4> DEFINE s == rebulk_ldap_users
                   S == Tasks(s) \union Tasks(last)
        <4>1. s \in Seq(S) /\ last \in Seq(S) /\ s # <<>> /\ Head(s).op = "users"
          BY <1>3, LineRebulk DEF Line, Lined
        <4>2. todo' = s \o last
          BY <2>2
        <4> HIDE DEF s, S
        <4>3. Len(s) >= 1 /\ Len(s) \in Nat /\ Len(last) \in Nat
          BY <4>1
        <4>4. s \o last # <<>> /\ Head(s \o last) = Head(s)
          BY <4>1, <4>3
        <4> QED
          BY <4>1, <4>2, <4>4
      <3> QED
        BY Zenon, <3>2, <3>3, LineRebulk
    <2> QED
      BY <1>1, <2>1, <2>2
  <1> SUFFICES ASSUME NoOutage' PROVE Kept'
    BY <1>1, <1>4 DEF HeldInv
  <1>5. up' /\ GroupRows'
    BY <1>1 DEF HeldInv, Kept, GroupRows
  <1>6. \A t \in Tasks(todo') : Carries(t, held', cache')
    <2>1. \A t \in Tasks(rebulk_ldap_users) : Carries(t, held', cache')
      BY LineRebulk DEF Carries
    <2>2. \A t \in {pr, m, ra} : Carries(t, held', cache')
      BY <1>2 DEF Carries
    <2> QED
      BY Zenon, <1>4, <2>1, <2>2
  <1>7. Before(Loads)' /\ Before({"users"})'
    BY <1>4 DEF Before, Loads
  <1>8. Pending(Tasks(todo'))
    BY <1>4 DEF Pending, Bulk
  <1>9. Known'
    BY <1>7, <1>8 DEF Known
  <1> QED
    BY <1>5, <1>6, <1>9 DEF Kept

-----------------------------------------------------------------------------
(***************************************************************************)
(* The world, and the theorem.                                             *)
(***************************************************************************)

\* The daemon is killed.
LEMMA KillHolds ==
  ASSUME HeldInv, HeldTypes', NoOutage' => NoOutage, Kill
  PROVE  HeldInv'
  <1> USE DEF ldapVars, resolverVars, cacheVars, storeVars
  <1>1. alive' = FALSE /\ todo' = <<>> /\ UNCHANGED <<up, group>>
    BY DEF Kill
  <1>2. Line(todo') /\ Tasks(todo') = {}
    BY <1>1, NoTask DEF Line, Chained
  <1> SUFFICES ASSUME NoOutage' PROVE Kept'
    BY <1>1, <1>2 DEF HeldInv
  <1>3. up' /\ GroupRows'
    BY <1>1 DEF HeldInv, Kept, GroupRows
  <1> QED
    BY <1>1, <1>2, <1>3 DEF Kept

\* The daemon does nothing, while held edges go and misses are forgotten.
LEMMA QuietHolds ==
  ASSUME HeldInv, HeldTypes', NoOutage' => NoOutage,
         UNCHANGED <<group, rUsers, rGroups, rMember, cache, alive, todo>>,
         NoOutage' /\ up => up', negative' \subseteq negative, held' \subseteq held
  PROVE  HeldInv'
  <1> SUFFICES ASSUME NoOutage' PROVE Kept'
    BY DEF HeldInv
  <1>1. up /\ GroupRows /\ (\A t \in Tasks(todo) : Carries(t, held, cache)) /\ (alive => Known)
    BY DEF HeldInv, Kept
  <1>2. \A t \in Tasks(todo) : Carries(t, held', cache)
    <2> TAKE t \in Tasks(todo)
    <2>1. Carries(t, held, cache)
      BY <1>1
    <2> QED
      BY Zenon, <2>1 DEF Carries, Listed, Shown
  <1>3. /\ Listed(held, rGroups) => Listed(held', rGroups)
        /\ Claimed(held, cache) => Claimed(held', cache)
        /\ Answerable(held, rMember, negative) => Answerable(held', rMember, negative')
    BY DEF Listed, Claimed, Answerable
  <1>4. alive' => Known'
    BY Zenon, <1>1, <1>3 DEF Known, Before
  <1>5. up' /\ GroupRows'
    BY <1>1 DEF GroupRows
  <1>6. (\A t \in Tasks(todo) : Carries(t, held, cache))'
    BY Zenon, <1>2
  <1> QED
    BY <1>4, <1>5, <1>6 DEF Kept

\* The directory, the network and the minutes.
LEMMA WorldHolds ==
  ASSUME HeldInv, HeldTypes', NoOutage' => NoOutage, Outage => ~NoOutage',
         \/ ForgetMiss \/ EditMember \/ EditMemberOf \/ AddUser \/ RemoveUser
         \/ Outage \/ Recover \/ SssdSync \/ UNCHANGED vars
  PROVE  HeldInv'
  <1> USE DEF ldapVars, resolverVars, cacheVars, storeVars
  <1>1. CASE ForgetMiss
    <2>1. /\ UNCHANGED <<up, group, rUsers, rGroups, rMember, cache, alive, todo, held>>
          /\ negative' \subseteq negative
      BY <1>1 DEF ForgetMiss
    <2> QED
      BY <2>1, QuietHolds
  <1>2. CASE EditMember \/ EditMemberOf \/ AddUser \/ RemoveUser
    <2>1. /\ UNCHANGED <<up, group, rUsers, rGroups, rMember, negative, cache, alive, todo>>
          /\ held' \subseteq held
      BY <1>2 DEF EditMember, EditMemberOf, AddUser, RemoveUser, Edit
    <2> QED
      BY <2>1, QuietHolds
  <1>3. CASE Outage \/ Recover \/ SssdSync
    <2>1. /\ UNCHANGED <<group, rUsers, rGroups, rMember, negative, cache, alive, todo, held>>
          /\ NoOutage' /\ up => up'
      BY <1>3 DEF Outage, Recover, SssdSync
    <2> QED
      BY <2>1, QuietHolds
  <1>4. CASE UNCHANGED vars
    <2>1. UNCHANGED <<up, group, rUsers, rGroups, rMember, negative, cache, alive, todo, held>>
      BY <1>4 DEF vars
    <2> QED
      BY <2>1, QuietHolds
  <1> QED
    BY <1>1, <1>2, <1>3, <1>4

\* At first no daemon runs and no edge is held.
LEMMA HeldInit ==
  ASSUME Init
  PROVE  HeldInv
  <1>1. PICK d \in Directories : dirUsers = d.users /\ member = d.member /\ memberOf = d.memberOf
    BY DEF Init
  <1>2. HeldTypes
    BY <1>1, NssAssumption DEF Init, HeldTypes
  <1>3. Line(todo) /\ Tasks(todo) = {} /\ todo = <<>> /\ alive = FALSE
    BY NoTask DEF Init, Line, Chained
  <1>4. up /\ GroupRows
    BY DEF Init, GroupRows
  <1>5. Kept
    BY <1>3, <1>4 DEF Kept
  <1> QED
    BY <1>2, <1>3, <1>5 DEF HeldInv

\* Every step keeps the invariant.
LEMMA HeldNext ==
  ASSUME HeldInv, [Next]_vars
  PROVE  HeldInv'
  <1>1. HeldTypes' /\ (NoOutage' => NoOutage) /\ (Outage => ~NoOutage')
    BY HeldCounts DEF HeldInv
  <1>2. CASE Step
    BY <1>1, <1>2, LoadHolds, MaterializeHolds, WriteHolds, EnsureHolds, DiscoverHolds, LookupHolds,
       AgainHolds, LoadedHolds, WarmHolds, SyncHolds, SaveHolds, PreresolveHolds DEF Step
  <1>3. CASE World
    BY <1>1, <1>3, WriteHolds, SaveHolds, KillHolds, WorldHolds DEF World
  <1>4. CASE UNCHANGED vars
    BY <1>1, <1>4, WorldHolds
  <1>5. CASE Rebulk \/ Start
    BY <1>1, <1>5, BeginHolds
  <1>6. CASE \E p \in Principals, verb \in {"RESOLVE", "GRPS"} : Request(p, verb)
    BY <1>1, <1>6, RequestHolds
  <1> QED
    BY <1>2, <1>3, <1>4, <1>5, <1>6 DEF Next

\* A step that changes the group rows shows every held edge it found shown.
LEMMA RowsKeepHeld ==
  ASSUME HeldInv, [Next]_vars, NoOutage', NEW d \in Dirs, NEW e \in held, e[1] \in group[d][e[2]]
  PROVE  e[1] \in group'[d][e[2]]
  <1>1. NoOutage
    BY HeldCounts DEF HeldInv
  <1>2. GroupRows /\ (\A t \in Tasks(todo) : Carries(t, held, cache)) /\ e[2] \in Groups
    BY <1>1, HeldEdge DEF HeldInv, Kept
  <1>3. CASE WriteStore
    <2> DEFINE h == Head(todo)
    <2>1. /\ todo # <<>> /\ h.op = "write"
          /\ group' = group \/ group' = [group EXCEPT ![Head(h.files).dir] = h.rows]
      BY Zenon, <1>3 DEF WriteStore, At
    <2>2. h \in Tasks(todo)
      BY Zenon, <2>1, LineTail DEF HeldInv
    <2>3. e[1] \in h.rows[e[2]]
      BY <1>2, <2>1, <2>2 DEF Carries, Shown
    <2> HIDE DEF h
    <2> QED
      BY <1>2, <2>1, <2>3 DEF GroupRows
  <1>4. CASE EnsureMember
    <2>1. \/ group' = group
          \/ \E x \in Dirs : \E g \in Missing(Head(todo).p, x) :
               group' = [group EXCEPT ![x][g] = @ \union {Login(Head(todo).p)}]
      BY Zenon, <1>4 DEF EnsureMember
    <2> QED
      BY <1>2, <2>1 DEF GroupRows
  <1>5. CASE group' = group
    BY <1>5
  <1>6. WriteStore \/ EnsureMember \/ group' = group
    <2>1. CASE Step
      BY Zenon, <2>1 DEF Step, LoadUsers, LoadGroups, Materialize, Discover, LookupUser, RetryUser,
         GroupsAgain, Loaded, WarmUser, RebulkSync, RefreshAll, RefreshOne, SaveCache, Preresolve, storeVars
    <2>2. CASE World \/ UNCHANGED vars
      BY Zenon, <2>2 DEF World, WriteFails, EnsureFails, ForgetMiss, Kill, EditMember, EditMemberOf,
         AddUser, RemoveUser, Edit, Outage, Recover, SssdSync, storeVars, vars
    <2>3. CASE Rebulk \/ Start \/ \E p \in Principals, verb \in {"RESOLVE", "GRPS"} : Request(p, verb)
      BY Zenon, <2>3 DEF Rebulk, Start, Request, storeVars
    <2> QED
      BY <2>1, <2>2, <2>3 DEF Next
  <1> QED
    BY <1>3, <1>4, <1>5, <1>6

\* KeepsHeldWhileUp: until the first outage, and for any directory, number of
\* edits, requests, kills and failed writes, no step takes a membership from the
\* stores that the directory has held since the last rebulk began: neither a
\* rewrite in the middle of an operation nor the one at its end, from whichever
\* snapshot.
THEOREM HeldMembershipsStay == Spec => KeepsHeldWhileUp
  <1>1. Init => HeldInv
    BY HeldInit
  <1>2. HeldInv /\ [Next]_vars => HeldInv'
    BY HeldNext
  <1>3. HeldInv /\ [Next]_vars =>
          [NoOutage' =>
             \A d \in Dirs, e \in held :
               e[1] \in group[d][e[2]] => e[1] \in group'[d][e[2]]]_vars
    BY RowsKeepHeld
  <1> QED
    BY <1>1, <1>2, <1>3, PTL DEF Spec, KeepsHeldWhileUp

=============================================================================
