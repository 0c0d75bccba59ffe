--------------------------- MODULE PermissionApply ---------------------------
(***************************************************************************)
(* The permission editor's two mutating endpoints, /apply and /acl-apply,  *)
(* with the tasks they spawn, the one slot their progress lives in, the    *)
(* page that polls it, and the cancel button (permission_tree.rs), and the *)
(* walks that carry an apply out (FsManager of fs.rs).                     *)
(*                                                                         *)
(* A request is one post of the form.  A handler is cut where it awaits;   *)
(* a walk is cut at every entry, because the cancel flag is read there and *)
(* clients of the share create and remove files meanwhile.  The scan       *)
(* before a walk only feeds the counters of the page and is one step.      *)
(***************************************************************************)
EXTENDS PosixAcl, FiniteSets

CONSTANTS
  Requests,    \* posts of the form
  Forms,       \* what each post may hold
  Entries,     \* paths below one share; Top is the share root
  Top, Kind, Parent, Depth,
  Later,       \* paths that do not exist yet
  Chunk,       \* CHUNK of fs.rs: paths per setfacl
  Fresh,       \* the owner and ACL of a path nobody has edited
  Faults,      \* ldap, chown, chmod, setfacl, panic, restart
  MaxTrouble   \* bound: failures other than LDAP's, files that clients create or
               \* remove, and configurations that drop or restore the share

ASSUME ApplyAssumption ==
  /\ "none" \notin Requests
  /\ Top \in Entries \ Later /\ Chunk \in Nat \ {0}
  /\ \A e \in Entries \ {Top} : Parent[e] \in Entries
  /\ MaxTrouble \in Nat
  /\ Faults \subseteq {"ldap", "chown", "chmod", "setfacl", "panic", "restart"}

VARIABLES
  pc,         \* where a request is
  form,       \* what was posted
  plan,       \* what the handler made of it
  slot,       \* AppState.apply_progress: the request whose progress it holds
  finished, cancelled, text,   \* of ApplyProgress
  walk,       \* the walk of the task: entries to come, chunks, ACL edit
  disk,       \* owner and ACL of every path
  present,    \* the paths that exist
  shared,     \* the configuration has the share
  polling,    \* the page of a request polls /apply-progress
  trouble,    \* how many of MaxTrouble have happened
  steady      \* history: paths that exist since the claim

progress == <<slot, finished, cancelled, text>>
env == <<present, shared>>
locals == <<form, plan, walk, steady>>
applyVars == <<pc, locals, progress, disk, polling, env, trouble>>

NoSlot == "none"
NoForm == [kind |-> "none"]
NoPlan == [own |-> "old", scope |-> "none", allowed |-> FALSE, is_dir |-> TRUE]
NoWalk == [todo |-> {}, dirs |-> {}, files |-> {}, op |-> 0, errors |-> FALSE, clean |-> TRUE]

\* The task of the request lives.
Running(r) == pc[r] \in {"scan", "posix", "acl", "aclwalk"}

ApplyInit ==
  /\ pc = [r \in Requests |-> "idle"]
  /\ form = [r \in Requests |-> NoForm]
  /\ plan = [r \in Requests |-> NoPlan]
  /\ slot = NoSlot
  /\ finished = [r \in Requests |-> FALSE]
  /\ cancelled = [r \in Requests |-> FALSE]
  /\ text = [r \in Requests |-> "none"]
  /\ walk = [r \in Requests |-> NoWalk]
  /\ disk = [e \in Entries |-> Fresh]
  /\ present = Entries \ Later
  /\ shared = TRUE
  /\ polling = [r \in Requests |-> FALSE]
  /\ trouble = 0
  /\ steady = [r \in Requests |-> {}]

\* One of the bounded events, and none of them.
Happens ==
  /\ trouble < MaxTrouble
  /\ trouble' = trouble + 1
Smooth == UNCHANGED trouble

-----------------------------------------------------------------------------
(***************************************************************************)
(* The handlers.                                                           *)
(***************************************************************************)

apply_in_progress == slot # NoSlot /\ ~finished[slot]

\* What a handler or its task knew goes with it.
Leave(r, how) ==
  /\ pc' = [pc EXCEPT ![r] = how]
  /\ form' = [form EXCEPT ![r] = NoForm]
  /\ plan' = [plan EXCEPT ![r] = NoPlan]
  /\ walk' = [walk EXCEPT ![r] = NoWalk]
  /\ steady' = [steady EXCEPT ![r] = {}]

Refuse(r) == Leave(r, "refused")

\* The courtesy check both handlers begin with.
Post(r, f) ==
  /\ pc[r] = "idle"
  /\ \/ apply_in_progress /\ Refuse(r)
     \/ /\ ~apply_in_progress
        /\ form' = [form EXCEPT ![r] = f]
        /\ pc' = [pc EXCEPT ![r] = "checked"]
        /\ UNCHANGED <<plan, walk, steady>>
  /\ UNCHANGED <<progress, disk, polling, env, trouble>>

\* The paths lie below a share of the configuration and map to its serve path.
is_allowed == shared

\* get_node_meta answers for an allowed path that exists.
Readable(e) == is_allowed /\ e \in present

(***************************************************************************)
(* /apply: the owner is an id, a name that LDAP resolves, or left blank,   *)
(* which keeps the owner the directory has now; then mode, scope and the   *)
(* bits for files are settled.                                             *)
(***************************************************************************)
ResolveOwner(r) ==
  LET f == form[r]
      target_is_file == Readable(f.path) /\ Kind[f.path] # "dir"
      scope == IF target_is_file THEN "none" ELSE f.scope
      Settled(own) ==
        IF scope # "none" /\ ~(f.file_mode \subseteq Bits)
        THEN Refuse(r)
        ELSE /\ pc' = [pc EXCEPT ![r] = "resolved"]
             /\ plan' = [plan EXCEPT ![r] = [own |-> own, scope |-> scope, allowed |-> FALSE,
                                             is_dir |-> ~target_is_file]]
             /\ UNCHANGED <<form, walk, steady>>
  IN /\ pc[r] = "checked" /\ f.kind = "posix"
     /\ \/ f.owner = "id" /\ Settled(r)
        \/ f.owner = "name" /\ Settled(r)
        \/ f.owner = "name" /\ "ldap" \in Faults /\ Refuse(r)
        \/ f.owner = "blank" /\ Readable(f.path) /\ Settled(disk[f.path].owner)
        \/ f.owner = "blank" /\ ~Readable(f.path) /\ Refuse(r)
     /\ UNCHANGED <<progress, disk, polling, env, trouble>>

\* acl_apply_gate: the share's setting and the verdicts for its serve root and
\* for the mount of the node.
acl_apply_gate(editable) ==
  \E mode \in Modes, root \in Verdicts, node \in Verdicts \cup {"same"} :
    editable = (is_allowed /\ acl_capability_decision(mode, root, node))

(***************************************************************************)
(* The staged ACL edits of /apply: parsed, gated and resolved before       *)
(* anything is written, so that a bad edit refuses the whole apply.        *)
(***************************************************************************)
PrepareBatch(r) ==
  LET ops == form[r].ops
      bad == \E i \in DOMAIN ops : (ops[i].default /\ ~plan[r].is_dir) \/ ~KnownOp(ops[i])
  IN /\ pc[r] = "resolved"
     /\ \/ /\ ops = <<>> \/ (acl_apply_gate(TRUE) /\ ~bad)
           /\ pc' = [pc EXCEPT ![r] = "prepared"]
           /\ UNCHANGED locals
        \/ ops # <<>> /\ (bad \/ acl_apply_gate(FALSE)) /\ Refuse(r)
        \/ "ldap" \in Faults /\ (\E i \in DOMAIN ops : ops[i].op # "mask") /\ Refuse(r)
     /\ UNCHANGED <<progress, disk, polling, env, trouble>>

(***************************************************************************)
(* /acl-apply up to the claim: the gate, no default entry outside a        *)
(* directory, the principal resolved, the scope for directories only.      *)
(***************************************************************************)
acl_apply(r) ==
  LET f == form[r]
      node_is_dir == Readable(f.path) /\ Kind[f.path] = "dir"
      bad == (f.ops[1].default /\ ~node_is_dir) \/ ~KnownOp(f.ops[1])
  IN /\ pc[r] = "checked" /\ f.kind = "acl"
     /\ \/ /\ acl_apply_gate(TRUE) /\ ~bad
           /\ pc' = [pc EXCEPT ![r] = "prepared"]
           /\ plan' = [plan EXCEPT ![r] = [NoPlan EXCEPT !.scope = IF node_is_dir THEN f.scope ELSE "none",
                                                         !.is_dir = node_is_dir]]
           /\ UNCHANGED <<form, walk, steady>>
        \/ (bad \/ acl_apply_gate(FALSE)) /\ Refuse(r)
        \/ "ldap" \in Faults /\ f.ops[1].op \notin {"delete", "mask"} /\ Refuse(r)
     /\ UNCHANGED <<progress, disk, polling, env, trouble>>

\* Slip: only the courtesy check guards the slot.
try_claim_apply_slot_Unchecked(r) ==
  /\ slot' = r
  /\ UNCHANGED <<finished, cancelled, text>>

\* Check and write under one lock.
try_claim_apply_slot(r) ==
  /\ ~apply_in_progress
  /\ slot' = r
  /\ UNCHANGED <<finished, cancelled, text>>

\* The claim, the snapshot of the manager, the task; the answer starts the
\* page's poll.
Claim(r) ==
  /\ pc[r] = "prepared"
  /\ try_claim_apply_slot(r)
  /\ pc' = [pc EXCEPT ![r] = IF form[r].kind = "posix" THEN "scan" ELSE "acl"]
  /\ plan' = [plan EXCEPT ![r].allowed = is_allowed]
  /\ walk' = [walk EXCEPT ![r] = [NoWalk EXCEPT !.op = 1]]
  /\ polling' = [polling EXCEPT ![r] = TRUE]
  /\ steady' = [steady EXCEPT ![r] = present]
  /\ UNCHANGED <<form, disk, env, trouble>>

ClaimBusy(r) ==
  /\ pc[r] = "prepared" /\ apply_in_progress
  /\ Refuse(r)
  /\ UNCHANGED <<progress, disk, polling, env, trouble>>

-----------------------------------------------------------------------------
(***************************************************************************)
(* The task.                                                               *)
(***************************************************************************)

\* The final text, then the flag.
Finish(r, clean) ==
  /\ text' = [text EXCEPT ![r] = IF clean THEN "clean" ELSE "trouble"]
  /\ finished' = [finished EXCEPT ![r] = TRUE]
  /\ Leave(r, "done")
  /\ UNCHANGED <<slot, cancelled>>

Turns(r, where) ==
  /\ pc' = [pc EXCEPT ![r] = where]
  /\ UNCHANGED <<progress, form, plan, steady>>

Begin(r, where) ==
  /\ Turns(r, where)
  /\ walk' = [walk EXCEPT ![r] = [@ EXCEPT !.todo = {form[r].path}, !.dirs = {}, !.files = {},
                                           !.errors = FALSE]]

\* apply_permissions_with_progress: below a share, no setuid bit.
Admitted(r) == plan[r].allowed /\ form[r].mode \subseteq Bits

\* The scan, whose errors are only shown, then the walk.
Scan(r) ==
  /\ pc[r] = "scan"
  /\ IF Admitted(r)
     THEN Begin(r, "posix")
     ELSE Finish(r, FALSE)
  /\ UNCHANGED <<disk, polling, env, trouble>>

RelDepth(r, e) == Depth[e] - Depth[form[r].path]
MaxDepth(r) == max_depth(plan[r].scope, Cardinality(Entries))

\* What the walk still has to see once it has seen e: a directory is read when
\* the walk leaves it, down to the depth budget.
After(r, e) ==
  (walk[r].todo \ {e}) \cup
    (IF Kind[e] = "dir" /\ RelDepth(r, e) < MaxDepth(r)
     THEN {c \in present \ {Top} : Parent[c] = e} ELSE {})

\* Directories take the fused mode, files the bits chosen for them; a file
\* that is itself the target takes the mode as it is.
EntryMode(r, e) ==
  CASE Kind[e] = "dir" -> dir_mode_r_implies_x(form[r].mode)
    [] Kind[e] # "dir" /\ plan[r].scope = "none" -> form[r].mode
    [] OTHER -> IF form[r].file_mode = {} THEN form[r].mode \cap {"r", "w"} ELSE form[r].file_mode

Applies(r, e) == should_apply_entry(Kind[e], RelDepth(r, e), plan[r].scope)

(***************************************************************************)
(* One entry of apply_tree_with_progress.  A failed chown leaves the mode  *)
(* alone; a failed chmod leaves the new owner; neither stops the walk.     *)
(***************************************************************************)
PosixVisit(r) ==
  /\ pc[r] = "posix" /\ ~cancelled[r]
  /\ \E e \in walk[r].todo :
       LET chowned == [disk EXCEPT ![e].owner = plan[r].own]
           chmodded == [chowned EXCEPT ![e].acl = chmod(@, EntryMode(r, e))]
           Seen(d, failed) ==
             /\ disk' = d
             /\ walk' = [walk EXCEPT ![r].todo = After(r, e), ![r].clean = @ /\ ~failed]
       IN \/ e \in present /\ ~Applies(r, e) /\ Seen(disk, FALSE) /\ Smooth
          \/ e \in present /\ Applies(r, e) /\ Seen(chmodded, FALSE) /\ Smooth
          \/ e \notin present /\ Seen(disk, Applies(r, e) \/ e = form[r].path) /\ Smooth
          \/ e \in present /\ Applies(r, e) /\ "chown" \in Faults /\ Seen(disk, TRUE) /\ Happens
          \/ e \in present /\ Applies(r, e) /\ "chmod" \in Faults /\ Seen(chowned, TRUE) /\ Happens
  /\ UNCHANGED <<pc, form, plan, progress, polling, env, steady>>

\* The walk is over: the result, and the staged ACL edits unless cancelled.
PosixEnds(r) ==
  /\ pc[r] = "posix" /\ (cancelled[r] \/ walk[r].todo = {})
  /\ IF cancelled[r] \/ form[r].ops = <<>>
     THEN Finish(r, walk[r].clean /\ ~cancelled[r])
     ELSE Turns(r, "acl") /\ UNCHANGED walk
  /\ UNCHANGED <<disk, polling, env, trouble>>

Modification(r) == build_acl_modification(form[r].ops[walk[r].op], plan[r].is_dir)

\* An ACL edit is through: the next one, or the end; a failure ends the batch.
\* The batch does not look at the cancel flag again after its last edit.
OpDone(r, w, ok) ==
  IF ok /\ w.op < Len(form[r].ops)
  THEN /\ Turns(r, "acl")
       /\ walk' = [walk EXCEPT ![r] = [w EXCEPT !.op = @ + 1]]
  ELSE Finish(r, ok /\ w.clean /\ (form[r].kind = "acl" /\ plan[r].scope # "none" => ~cancelled[r]))

\* One setfacl over a chunk: the disks it may leave, and whether it failed.  A
\* path that is gone fails the chunk and not its other paths; a tool that is
\* killed or refused leaves any part of it written.
Flushes(d, chunk, m) ==
  LET there == chunk \cap present
      Written(part, failed, n) ==
        [disk |-> [e \in Entries |-> IF e \in part THEN [d[e] EXCEPT !.acl = setfacl(@, m)]
                                                    ELSE d[e]],
         failed |-> failed, trouble |-> n]
  IN {Written(there, there # chunk, 0)}
     \cup (IF "setfacl" \in Faults /\ chunk # {} /\ trouble < MaxTrouble
           THEN {Written(part, TRUE, 1) : part \in SUBSET there}
           ELSE {})

\* The next ACL edit: on the node itself, or by a walk.
AclOp(r) ==
  LET path == form[r].path
      batch == form[r].kind = "posix"
  IN /\ pc[r] = "acl"
     /\ \/ /\ batch /\ cancelled[r]
           /\ Finish(r, FALSE)
           /\ UNCHANGED <<disk, trouble>>
        \/ /\ ~(batch /\ cancelled[r])
           /\ plan[r].scope = "none"
           /\ \E x \in Flushes(disk, {path}, Modification(r).dir) :
                /\ plan[r].allowed
                /\ disk' = x.disk
                /\ OpDone(r, walk[r], ~x.failed)
                /\ trouble' = trouble + x.trouble
        \/ /\ ~(batch /\ cancelled[r])
           /\ ~plan[r].allowed
           /\ Finish(r, FALSE)
           /\ UNCHANGED <<disk, trouble>>
        \/ /\ ~(batch /\ cancelled[r])
           /\ plan[r].scope # "none" /\ plan[r].allowed
           /\ Begin(r, "aclwalk")
           /\ UNCHANGED <<disk, trouble>>
     /\ UNCHANGED <<polling, env>>

(***************************************************************************)
(* One entry of apply_acl_with_progress: directories and files collect in  *)
(* chunks of their own, and a full chunk is written.                       *)
(***************************************************************************)
AclVisit(r) ==
  /\ pc[r] = "aclwalk" /\ ~cancelled[r]
  /\ \E e \in walk[r].todo :
       LET w == [walk[r] EXCEPT !.todo = After(r, e)]
           m == Modification(r)
           applies == acl_entry_applies(Kind[e], RelDepth(r, e), plan[r].scope, m.dir.default)
           dirs == w.dirs \cup (IF Kind[e] = "dir" THEN {e} ELSE {})
           files == w.files \cup (IF Kind[e] = "dir" THEN {} ELSE {e})
           gone == e = form[r].path /\ e \notin present
       IN \/ /\ gone \/ ~applies
             /\ walk' = [walk EXCEPT ![r] = [w EXCEPT !.errors = @ \/ gone]]
             /\ UNCHANGED <<disk, trouble>>
          \/ /\ ~gone /\ applies
             /\ Cardinality(dirs) < Chunk /\ Cardinality(files) < Chunk
             /\ walk' = [walk EXCEPT ![r] = [w EXCEPT !.dirs = dirs, !.files = files]]
             /\ UNCHANGED <<disk, trouble>>
          \/ /\ ~gone /\ applies
             /\ LET full == Cardinality(dirs) >= Chunk
                IN /\ full \/ Cardinality(files) >= Chunk
                   /\ \E x \in Flushes(disk, IF full THEN dirs ELSE files,
                                       IF full THEN m.dir ELSE m.file) :
                        /\ disk' = x.disk
                        /\ trouble' = trouble + x.trouble
                        /\ walk' = [walk EXCEPT ![r] =
                             [w EXCEPT !.dirs = IF full THEN {} ELSE dirs,
                                       !.files = IF full THEN files ELSE {},
                                       !.errors = @ \/ x.failed]]
  /\ UNCHANGED <<pc, form, plan, progress, polling, env, steady>>

\* Slip: the chunks that are not full are dropped with the walk.
AclEnds_NoFlush(r) ==
  /\ pc[r] = "aclwalk" /\ (cancelled[r] \/ walk[r].todo = {})
  /\ OpDone(r, [walk[r] EXCEPT !.dirs = {}, !.files = {}], ~walk[r].errors)
  /\ UNCHANGED <<disk, polling, env, trouble>>

\* The walk is over, or cancelled: what the chunks hold is still written.
AclEnds(r) ==
  /\ pc[r] = "aclwalk" /\ (cancelled[r] \/ walk[r].todo = {})
  /\ \E x \in Flushes(disk, walk[r].dirs, Modification(r).dir) :
     \E y \in Flushes(x.disk, walk[r].files, Modification(r).file) :
       /\ disk' = y.disk
       /\ trouble' = trouble + x.trouble + y.trouble
       /\ OpDone(r, [walk[r] EXCEPT !.dirs = {}, !.files = {}],
                 ~(walk[r].errors \/ x.failed \/ y.failed))
  /\ UNCHANGED <<polling, env>>

Task(r) ==
  Scan(r) \/ PosixVisit(r) \/ PosixEnds(r) \/ AclOp(r) \/ AclVisit(r) \/ AclEnds(r)

\* Slip: a panic takes the task and leaves the flag.
Panic_NoFinish(r) ==
  /\ "panic" \in Faults /\ Running(r) /\ Happens
  /\ Leave(r, "done")
  /\ UNCHANGED <<disk, polling, progress, env>>

\* FinishOnDrop: a panic finishes the progress without a text.
Panic(r) ==
  /\ "panic" \in Faults /\ Running(r) /\ Happens
  /\ finished' = [finished EXCEPT ![r] = TRUE]
  /\ Leave(r, "done")
  /\ UNCHANGED <<disk, polling, slot, cancelled, text, env>>

-----------------------------------------------------------------------------
(***************************************************************************)
(* The page, and the world.                                                *)
(***************************************************************************)

\* Whoever presses the button, the flag is that of the slot.  Nobody reads the
\* flag of a finished apply any more.
cancel_apply ==
  /\ apply_in_progress
  /\ cancelled' = [cancelled EXCEPT ![slot] = TRUE]
  /\ UNCHANGED <<pc, locals, disk, polling, slot, finished, text, env, trouble>>

\* Status 286 ends the poll; while the apply runs the page only learns its
\* counters, and nothing here depends on them.
apply_progress(r) ==
  /\ polling[r]
  /\ ~apply_in_progress
  /\ polling' = [polling EXCEPT ![r] = FALSE]
  /\ UNCHANGED <<pc, locals, disk, progress, env, trouble>>

\* The WebUI process ends: tasks and slot go with it, the pages stay.
ApplyRestart ==
  /\ "restart" \in Faults /\ Happens
  /\ slot' = NoSlot
  /\ pc' = [r \in Requests |-> IF pc[r] = "idle" THEN "idle" ELSE "done"]
  /\ form' = [r \in Requests |-> NoForm] /\ plan' = [r \in Requests |-> NoPlan]
  /\ walk' = [r \in Requests |-> NoWalk] /\ steady' = [r \in Requests |-> {}]
  /\ UNCHANGED <<disk, polling, finished, cancelled, text, env>>

Reload ==
  /\ Happens
  /\ shared' = ~shared
  /\ UNCHANGED <<pc, locals, disk, polling, progress, present>>

\* A client of the share makes or deletes a file.
Client(e) ==
  /\ Happens
  /\ \/ /\ e \in present
        /\ ~\E c \in present \ {Top} : Parent[c] = e
        /\ present' = present \ {e}
        /\ steady' = [r \in Requests |-> steady[r] \ {e}]
        /\ UNCHANGED disk
     \/ /\ e \notin present /\ Parent[e] \in present
        /\ present' = present \cup {e}
        /\ disk' = [disk EXCEPT ![e] = Fresh]
        /\ UNCHANGED steady
  /\ UNCHANGED <<pc, form, plan, walk, polling, progress, shared>>

ApplyNext ==
  \/ \E r \in Requests :
       \/ \E f \in Forms[r] : Post(r, f)
       \/ ResolveOwner(r) \/ PrepareBatch(r) \/ acl_apply(r)
       \/ Claim(r) \/ ClaimBusy(r)
       \/ Task(r) \/ Panic(r) \/ apply_progress(r)
  \/ cancel_apply \/ ApplyRestart \/ Reload
  \/ \E e \in Entries \ {Top} : Client(e)

ApplySpec == ApplyInit /\ [][ApplyNext]_applyVars

\* The runtime polls the task that runs, and a page that waits asks every
\* second.
Fairness ==
  /\ WF_applyVars(\E r \in Requests : Task(r))
  /\ WF_applyVars(\E r \in Requests : apply_progress(r))

FairSpec == ApplySpec /\ Fairness

-----------------------------------------------------------------------------
(***************************************************************************)
(* Properties.                                                             *)
(***************************************************************************)

\* One apply at a time: a task that still writes is the one whose progress the
\* slot holds, unfinished, although the handlers' first check lets two posts
\* through; so the page and the cancel button always speak of that task.
OneApplyWrites == \A r \in Requests : Running(r) => slot = r /\ ~finished[r]

\* The entries the chosen scope names, whatever the walk did.
InScope(r) ==
  LET below(d) == {e \in Entries \ {Top} : Parent[e] \in d}
      self == {form[r].path}
      files == {e \in below(self) : Kind[e] = "file"}
      all == self \cup below(self) \cup below(below(self))
  IN {e \in CASE plan[r].scope = "none" -> self
               [] plan[r].scope = "single" -> self \cup files
               [] plan[r].scope = "all" -> all : Kind[e] \in {"dir", "file"}}

\* What a post without staged ACL edits, and the last ACL edit of a post,
\* ask for one entry: reading a directory comes with entering it.
AsAsked(r, e, entry) ==
  LET f == form[r]
      Fused(perms) == IF Kind[e] = "dir" /\ "r" \in perms THEN perms \cup {"x"} ELSE perms
      mode == IF Kind[e] = "dir" \/ plan[r].scope = "none" THEN Fused(f.mode)
              ELSE IF f.file_mode = {} THEN f.mode \ {"x"} ELSE f.file_mode
      last == f.ops[Len(f.ops)]
      grant == Fused(IF last.perms = {} THEN {"r"} ELSE last.perms)
      acl == entry.acl
  IN /\ f.kind = "posix" => entry.owner = plan[r].own
     /\ f.ops = <<>> => StatMode(acl) = mode
     /\ f.ops # <<>> /\ last.op = "add" /\ ~last.default => effective_perms(acl.access) = {grant}
     /\ f.ops # <<>> /\ last.op = "add" /\ last.default /\ Kind[e] = "dir"
          => UNION {effective_perms(l) : l \in acl.default} = {grant}
     /\ f.ops # <<>> /\ last.op = "delete" /\ ~last.default => acl.access.named = {}

CleanReport(r) == ~finished[r] /\ finished'[r] /\ text'[r] = "clean"

\* The Apply Log is true: an apply that was not cancelled and reports neither
\* an error nor a failed ACL edit has brought every entry in scope that existed
\* all the while to what was asked, masks included; and no step of an apply,
\* whatever its end, writes outside the scope or to a symlink.
LogIsTrue ==
  [][\A r \in Requests :
       /\ Running(r) /\ <<pc[r], walk[r]>>' # <<pc[r], walk[r]>>
            => \A e \in Entries : disk'[e] # disk[e] => e \in InScope(r)
       /\ CleanReport(r) /\ ~cancelled[r]
            => \A e \in InScope(r) \cap steady[r] : AsAsked(r, e, disk'[e])]_applyVars

\* The page of an accepted post stops polling: its apply, and every later one
\* that took the slot, ends and says so, panics and restarts included.
PagesSettle == \A r \in Requests : polling[r] ~> ~polling[r]

=============================================================================
