---------------------------- MODULE RespawnBudget ----------------------------
(***************************************************************************)
(* The steady-state respawn limiter of the pid-1 supervisor: RespawnBudget *)
(* (supervisor/respawn.rs) driven by check_and_respawn_services            *)
(* (supervisor/mod.rs).                                                    *)
(*                                                                         *)
(* The code stores the Instant of every attempt and only ever uses         *)
(* now.duration_since(t).  The model stores that duration directly: an     *)
(* attempt is its age in ticks.  A service's attempts are a set of ages    *)
(* instead of a Vec, because two attempts of one service are never         *)
(* recorded with the same Instant (the cooldown is positive).  Ages stop   *)
(* growing at Horizon, where no comparison of the code can tell them apart.*)
(*                                                                         *)
(* One pass of check_and_respawn_services captures `now` once, before the  *)
(* loop over the services, and a respawn inside the loop may block for a   *)
(* long time (SSSD, idhelper and D-Bus are waited for).  `stamp` is the    *)
(* age of that captured Instant.                                           *)
(***************************************************************************)
EXTENDS Naturals, Sequences, FiniteSets

CONSTANTS
  Services,   \* the supervised services
  Order,      \* the order in which a pass visits them, a sequence
  Window,     \* RESPAWN_WINDOW, in ticks
  Budget,     \* RESPAWN_BUDGET
  Cooldown,   \* RESPAWN_COOLDOWN, in ticks
  MaxPass     \* bound: the longest one pass may take, in ticks

ASSUME BudgetAssumption ==
  /\ Window \in Nat \ {0}
  /\ Budget \in Nat \ {0}
  /\ Cooldown \in 1 .. Window
  /\ MaxPass \in Nat
  /\ Order \in Seq(Services)
  /\ Order # <<>>

VARIABLES
  attempts,   \* attempts[s]: the ages of the recorded attempts of s
  logged,     \* exhausted_logged[s]
  down,       \* the services that need a respawn (respawn_needed)
  cursor,     \* 0 between passes, else the index in Order being visited
  stamp,      \* age of the Instant captured by the running pass
  busy,       \* the running pass has started to respawn a service
  actual,     \* history: ages (< Window) of the respawns really performed
  fatal       \* history: fatal-degraded lines logged since the last Go

budgetVars == <<attempts, logged, down, cursor, stamp, busy, actual, fatal>>

Horizon == Window + MaxPass

Older(a) == IF a < Horizon THEN a + 1 ELSE Horizon

BudgetInit ==
  /\ attempts = [s \in Services |-> {}]
  /\ logged = [s \in Services |-> FALSE]
  /\ down = {}
  /\ cursor = 0
  /\ stamp = 0
  /\ busy = FALSE
  /\ actual = [s \in Services |-> {}]
  /\ fatal = [s \in Services |-> 0]

-----------------------------------------------------------------------------
(***************************************************************************)
(* RespawnBudget::decide.                                                  *)
(***************************************************************************)

\* Slips in this code that the properties below must notice: the cooldown is
\* not looked at, the budget is off by one.
CoolingDown_Ignored(s) == FALSE
Exhausted_OffByOne(s) == Cardinality({a \in attempts[s] : a < stamp + Window}) > Budget

\* hist.retain(|t| now.duration_since(*t) < RESPAWN_WINDOW)
Retained(s) == {a \in attempts[s] : a < stamp + Window}

\* The last attempt is the youngest one: it is inside the cooldown exactly
\* when some retained attempt is.
CoolingDown(s) == \E a \in Retained(s) : a < stamp + Cooldown

Exhausted(s) == Cardinality(Retained(s)) >= Budget

Decision(s) == IF CoolingDown(s) THEN "Cooldown"
               ELSE IF Exhausted(s) THEN "Exhausted" ELSE "Go"

\* Slip: exhausted_logged is never set.
Decide_ForgetsLogged(s) ==
  LET d == Decision(s) IN
  /\ attempts' = [attempts EXCEPT ![s] =
                    IF d = "Go" THEN Retained(s) \union {stamp} ELSE Retained(s)]
  /\ logged' = [logged EXCEPT ![s] = FALSE]
  /\ actual' = IF d = "Go" THEN [actual EXCEPT ![s] = @ \union {0}] ELSE actual
  /\ fatal' = CASE d = "Go" -> [fatal EXCEPT ![s] = 0]
                [] d = "Exhausted" /\ ~logged[s] -> [fatal EXCEPT ![s] = @ + 1]
                [] OTHER -> fatal

\* Slip: the attempt is recorded before the checks, so that a refusal counts.
Decide_RecordsRefusals(s) ==
  LET d == Decision(s) IN
  /\ attempts' = [attempts EXCEPT ![s] = Retained(s) \union {stamp}]
  /\ logged' = [logged EXCEPT ![s] = d = "Exhausted"]
  /\ actual' = IF d = "Go" THEN [actual EXCEPT ![s] = @ \union {0}] ELSE actual
  /\ UNCHANGED fatal

\* decide's effect on the limiter, whatever it answers.
Decide(s) ==
  LET d == Decision(s) IN
  /\ attempts' = [attempts EXCEPT ![s] =
                    IF d = "Go" THEN Retained(s) \union {stamp} ELSE Retained(s)]
  /\ logged' = CASE d = "Go" -> [logged EXCEPT ![s] = FALSE]
                 [] d = "Exhausted" -> [logged EXCEPT ![s] = TRUE]
                 [] OTHER -> logged
  /\ actual' = IF d = "Go" THEN [actual EXCEPT ![s] = @ \union {0}] ELSE actual
  /\ fatal' = CASE d = "Go" -> [fatal EXCEPT ![s] = 0]
                [] d = "Exhausted" /\ ~logged[s] -> [fatal EXCEPT ![s] = @ + 1]
                [] OTHER -> fatal

-----------------------------------------------------------------------------
(***************************************************************************)
(* check_and_respawn_services: one pass over the services.                 *)
(***************************************************************************)

BeginPass ==
  /\ cursor = 0
  /\ cursor' = 1
  /\ UNCHANGED <<attempts, logged, down, stamp, busy, actual, fatal>>

\* The loop goes on to the next service, or the pass ends.
Advance(b) ==
  IF cursor = Len(Order)
  THEN cursor' = 0 /\ stamp' = 0 /\ busy' = FALSE
  ELSE cursor' = cursor + 1 /\ busy' = b /\ UNCHANGED stamp

\* respawn_needed is false: the service is skipped.
Skip ==
  /\ cursor > 0
  /\ Order[cursor] \notin down
  /\ Advance(busy)
  /\ UNCHANGED <<attempts, logged, down, actual, fatal>>

\* The service is down: decide, and on Go respawn it.  A respawn that fails
\* leaves the service down.
Visit ==
  /\ cursor > 0
  /\ LET s == Order[cursor]
         go == Decision(s) = "Go"
     IN /\ s \in down
        /\ Decide(s)
        /\ down' \in IF go THEN {down, down \ {s}} ELSE {down}
        /\ Advance(busy \/ go)

\* A service dies, at any time.
Die(s) ==
  /\ s \notin down
  /\ down' = down \union {s}
  /\ UNCHANGED <<attempts, logged, cursor, stamp, busy, actual, fatal>>

\* One tick of the clock, between passes or while a pass waits for a service
\* it respawned; a pass as a whole takes at most MaxPass.
Tick ==
  /\ cursor > 0 => busy /\ stamp < MaxPass
  /\ attempts' = [s \in Services |-> {Older(a) : a \in attempts[s]}]
  /\ stamp' = IF cursor > 0 THEN stamp + 1 ELSE 0
  /\ actual' = [s \in Services |-> {a + 1 : a \in {b \in actual[s] : b + 1 < Window}}]
  /\ UNCHANGED <<logged, down, cursor, busy, fatal>>

BudgetNext ==
  \/ BeginPass
  \/ Skip
  \/ Visit
  \/ \E s \in Services : Die(s)
  \/ Tick

BudgetSpec == BudgetInit /\ [][BudgetNext]_budgetVars

\* pid 1 runs its loop for ever and sleeps between two passes, so that time
\* passes however often the clock is stopped by a pass; nothing is assumed of
\* when services die.
BudgetFairness ==
  /\ WF_budgetVars(BeginPass)
  /\ WF_budgetVars(Skip)
  /\ WF_budgetVars(Visit)
  /\ SF_budgetVars(Tick)

FairSpec == BudgetSpec /\ BudgetFairness

-----------------------------------------------------------------------------
(***************************************************************************)
(* Properties.                                                             *)
(***************************************************************************)

\* Every variable has its type; an attempt is never younger than the Instant
\* of the pass that could have recorded it.
TypeOK ==
  /\ attempts \in [Services -> SUBSET (0 .. Horizon)]
  /\ logged \in [Services -> BOOLEAN]
  /\ down \in SUBSET Services
  /\ cursor \in 0 .. Len(Order)
  /\ stamp \in 0 .. MaxPass
  /\ busy \in BOOLEAN
  /\ actual \in [Services -> SUBSET (0 .. Window - 1)]
  /\ fatal \in [Services -> Nat]

\* The promise of respawn.rs, "at most RESPAWN_BUDGET revivals per sliding
\* RESPAWN_WINDOW per service", on the recorded Instants: at any moment the
\* attempts recorded less than Window ago are at most Budget, although
\* pruning only happens when decide is called.
BudgetPerWindow ==
  \A s \in Services : Cardinality({a \in attempts[s] : a < Window}) <= Budget

\* "with a RESPAWN_COOLDOWN gap between attempts", on the recorded Instants.
\* Ages that reached Horizon can no longer be compared.
CooldownGap ==
  \A s \in Services : \A a, b \in attempts[s] :
    (b < a /\ a < Horizon) => b + Cooldown <= a

\* "exhausted_logged keeps the fatal-degraded line to one per exhaustion
\* episode": between two Go decisions the line is logged at most once.
OneFatalLinePerEpisode == \A s \in Services : fatal[s] <= 1

\* The limiter delays but never abandons a service: one that stays down is
\* always tried again, because the window slides past its old attempts.
NeverAbandoned ==
  \A s \in Services : (s \in down) ~> (s \notin down \/ 0 \in actual[s])

=============================================================================
