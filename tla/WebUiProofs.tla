---------------------------- MODULE WebUiProofs -----------------------------
(***************************************************************************)
(* Theorems about the handlers of the WebUI: Access (with Wizard and       *)
(* Sessions), for any number of tabs and browsers, any servers and         *)
(* credentials, any number of sessions and any faults; and                 *)
(* PermissionApply, for any number of posts, any tree, any forms and any   *)
(* faults.                                                                 *)
(***************************************************************************)
EXTENDS Access, PermissionApply, TLAPS

-----------------------------------------------------------------------------
(***************************************************************************)
(* The wizard.                                                             *)
(***************************************************************************)

Conf ==
  [parses : BOOLEAN, rest : BOOLEAN, uri : Uris \cup {"none"}, creds : Creds \cup {"blank"}]

(***************************************************************************)
(* The inductive invariant of the wizard.  A remembered test is the last   *)
(* one of its step to end; a Continue forgets the memory and not the       *)
(* verdict, so the two differ only by "none".                              *)
(***************************************************************************)
WizardInv ==
  /\ volume \in BOOLEAN /\ keytab \in BOOLEAN /\ marker \in BOOLEAN
  /\ conf \in Conf
  /\ setup_test \in [Steps -> Uris \cup Creds \cup {"none"}]
  /\ verdict \in [Steps -> Uris \cup Creds \cup {"none"}]
  /\ probe \in [Tabs -> [step : Steps, value : Uris \cup Creds] \cup {NoProbe}]
  /\ \A s \in Steps : setup_test[s] \in {verdict[s], "none"}

\* Every configuration a container may start with is one.
LEMMA StartConfsType == StartConfs \subseteq Conf
  <1>1. [parses |-> TRUE, rest |-> TRUE, uri |-> "none", creds |-> "blank"] \in Conf
    BY DEF Conf
  <1>2. [parses : {TRUE}, rest : BOOLEAN, uri : Uris, creds : Creds] \subseteq Conf
    BY Zenon DEF Conf
  <1> QED
    BY Zenon, <1>1, <1>2 DEF StartConfs

\* The container starts with a configuration, and no test has run.
LEMMA WizardInitInv == ASSUME WizardInit PROVE WizardInv
  <1>1. is_preconfigured_deployment \in BOOLEAN
    BY DEF is_preconfigured_deployment
  <1>2. conf \in Conf
    BY StartConfsType DEF WizardInit
  <1> QED
    BY <1>1, <1>2 DEF WizardInit, WizardInv, NoTest

\* The end of a test keeps memory and verdict together.
LEMMA TestEndsKeeps ==
  ASSUME WizardInv, NEW step \in Steps, NEW value, NEW ok \in BOOLEAN,
         ok => value \in Uris \cup Creds,
         TestEnds(step, value, ok)
  PROVE  /\ setup_test' \in [Steps -> Uris \cup Creds \cup {"none"}]
         /\ verdict' \in [Steps -> Uris \cup Creds \cup {"none"}]
         /\ \A s \in Steps : setup_test'[s] \in {verdict'[s], "none"}
  BY DEF WizardInv, TestEnds

\* What Continue starts from is a configuration.
LEMMA DocumentType == ASSUME WizardInv PROVE Document \in Conf
  BY DEF WizardInv, Document, Conf

\* Every step of the wizard, its restart included, keeps the invariant.
LEMMA WizardStepInv ==
  ASSUME WizardInv, WizardNext \/ WizardRestarts \/ UNCHANGED wizardVars
  PROVE  WizardInv'
  <1> USE DEF unchangedFiles
  <1> "uri" \in Steps /\ "creds" \in Steps
    BY DEF Steps
  <1>1. ASSUME NEW t \in Tabs, setup_step2_test(t) PROVE WizardInv'
    <2>1. CASE TestEnds("uri", "bad", FALSE) /\ UNCHANGED probe
      BY Zenon, <1>1, <2>1, TestEndsKeeps DEF setup_step2_test, WizardInv
    <2>2. ASSUME NEW uri \in Uris, Probes(t, "uri", uri) PROVE WizardInv'
      BY <1>1, <2>2 DEF setup_step2_test, Probes, WizardInv
    <2> QED
      BY Zenon, <1>1, <2>1, <2>2 DEF setup_step2_test
  <1>2. ASSUME NEW t \in Tabs, setup_step3_test(t) PROVE WizardInv'
    <2>1. ASSUME NEW value, TestEnds("creds", value, FALSE) /\ UNCHANGED probe PROVE WizardInv'
      BY Zenon, <1>2, <2>1, TestEndsKeeps DEF setup_step3_test, WizardInv
    <2>2. ASSUME NEW creds \in Creds, Probes(t, "creds", creds) PROVE WizardInv'
      BY <1>2, <2>2 DEF setup_step3_test, Probes, WizardInv
    <2> QED
      BY Zenon, <1>2, <2>1, <2>2 DEF setup_step3_test
  <1>3. ASSUME NEW t \in Tabs, ProbeEnds(t) PROVE WizardInv'
    <2>1. probe[t] \in [step : Steps, value : Uris \cup Creds]
      BY <1>3 DEF ProbeEnds, WizardInv
    <2>2. PICK answer \in Answers(probe[t].step) :
            TestEnds(probe[t].step, probe[t].value, answer \in Passed)
      BY <1>3 DEF ProbeEnds
    <2>3. (answer \in Passed) \in BOOLEAN
      OBVIOUS
    <2>4. /\ setup_test' \in [Steps -> Uris \cup Creds \cup {"none"}]
          /\ verdict' \in [Steps -> Uris \cup Creds \cup {"none"}]
          /\ \A s \in Steps : setup_test'[s] \in {verdict'[s], "none"}
      BY Zenon, <2>1, <2>2, <2>3, TestEndsKeeps
    <2> QED
      BY <1>3, <2>4 DEF ProbeEnds, WizardInv
  <1>4. ASSUME NEW t \in Tabs, setup_step2_continue(t) PROVE WizardInv'
    BY <1>4, DocumentType DEF setup_step2_continue, WriteFails, WizardInv, Conf
  <1>5. ASSUME NEW t \in Tabs, setup_step3_continue(t) PROVE WizardInv'
    <2>1. PICK creds \in Creds :
            \/ UNCHANGED <<conf, marker, setup_test>>
            \/ /\ conf' = [Document EXCEPT !.creds = creds]
               /\ marker' \in {TRUE, marker}
               /\ setup_test' = [setup_test EXCEPT !["creds"] = "none"]
      BY Zenon, <1>5 DEF setup_step3_continue, WriteFails
    <2>2. conf' \in Conf
      <3>1. CASE conf' = conf
        BY <3>1 DEF WizardInv
      <3>2. CASE conf' = [Document EXCEPT !.creds = creds]
        BY <3>2, DocumentType DEF Conf
      <3> QED
        BY Zenon, <2>1, <3>1, <3>2
    <2>5. marker' \in BOOLEAN
      BY Zenon, <2>1 DEF WizardInv
    <2>3. UNCHANGED <<volume, keytab, probe, verdict>>
      BY <1>5 DEF setup_step3_continue
    <2>4. /\ setup_test' \in [Steps -> Uris \cup Creds \cup {"none"}]
          /\ \A s \in Steps : setup_test'[s] \in {verdict[s], "none"}
      BY Zenon, <2>1 DEF WizardInv
    <2> QED
      BY <2>2, <2>3, <2>4, <2>5 DEF WizardInv
  <1>6. ASSUME NEW t \in Tabs, TabLeaves(t) PROVE WizardInv'
    BY <1>6 DEF TabLeaves, WizardInv
  <1>7. CASE Recreate
    <2>1. is_preconfigured_deployment' \in BOOLEAN
      BY DEF is_preconfigured_deployment
    <2>2. conf' \in Conf
      BY <1>7, StartConfsType DEF Recreate, WizardInv
    <2> QED
      BY <1>7, <2>1, <2>2 DEF Recreate, WizardInv, NoTest
  <1>8. CASE EditConf
    <2>1. conf' \in Conf
      BY Zenon, <1>8 DEF EditConf, WizardInv, Conf
    <2> QED
      BY <1>8, <2>1 DEF EditConf, WizardInv
  <1>9. CASE WizardRestarts
    BY <1>9 DEF WizardRestarts, WizardInv, NoTest
  <1>10. CASE UNCHANGED wizardVars
    BY <1>10 DEF wizardVars, WizardInv
  <1> QED
    BY <1>1, <1>2, <1>3, <1>4, <1>5, <1>6, <1>7, <1>8, <1>9, <1>10 DEF WizardNext

(***************************************************************************)
(* Where a page leads, by the three facts the handlers look at.            *)
(***************************************************************************)
LEMMA Landing == ASSUME WizardInv PROVE PagesLand
  <1> SUFFICES ASSUME NEW page \in Pages, NEW signed \in BOOLEAN
               PROVE  LET hop1 == Route(page, signed)
                          hop2 == Route(hop1, signed)
                          hop3 == Route(hop2, signed)
                      IN  /\ Route(hop3, signed) = hop3
                          /\ setup_wizard_required =>
                               hop3 \in {wizard_index(compute_wizard_step), "/setup/1/verify"}
    BY DEF PagesLand
  <1> DEFINE Due == wizard_index(compute_wizard_step)
  <1>1. /\ ~volume => compute_wizard_step = "WaitForPersistentVolume"
        /\ volume => compute_wizard_step \in {"SetLdapUri", "AddBindCredentials", "Ready"}
        /\ compute_wizard_step = "Ready" => marker
    BY DEF compute_wizard_step, check_persistent_writable, WizardInv
  <1>2. CASE marker
    <2>1. ~setup_wizard_required /\ setup_redirect_for_step = "/login"
      BY <1>2 DEF setup_wizard_required, setup_redirect_for_step
    <2>2. \A p \in Pages : Route(p, signed) =
            CASE p = "/setup/1/verify" -> (IF volume THEN "/setup/2" ELSE "/setup/1/verify")
              [] p \in {"/", "/login"} -> (IF signed THEN "/" ELSE "/login")
              [] OTHER -> "/login"
      BY <1>2, <2>1 DEF Route, Pages, require_setup_complete, login_page, setup_step1,
         setup_step1_verify, setup_step2, setup_step3, check_persistent_writable
    <2> HIDE DEF Route
    <2> QED
      BY <2>1, <2>2 DEF Pages, WizardInv
  <1>3. CASE ~marker /\ is_preconfigured_deployment
    <2>1. ~setup_wizard_required /\ setup_redirect_for_step = "/login" /\ volume
      BY <1>3 DEF setup_wizard_required, setup_redirect_for_step, is_preconfigured_deployment,
         check_persistent_writable
    <2>2. compute_wizard_step \in {"SetLdapUri", "AddBindCredentials"}
      BY <1>1, <1>3, <2>1
    <2>3. \A p \in Pages : Route(p, signed) =
            CASE p = "/setup/1/verify" -> "/setup/2"
              [] p \in {"/", "/login"} -> (IF signed THEN "/" ELSE "/login")
              [] p = "/setup/2" ->
                   (IF compute_wizard_step = "SetLdapUri" THEN "/setup/2" ELSE "/setup/3")
              [] p = "/setup/3" ->
                   (IF compute_wizard_step = "SetLdapUri" THEN "/setup/2" ELSE "/setup/3")
              [] OTHER -> "/login"
      BY <1>3, <2>1, <2>2 DEF Route, Pages, require_setup_complete, login_page, setup_step1,
         setup_step1_verify, setup_step2, setup_step3, check_persistent_writable, wizard_index
    <2> HIDE DEF Route
    <2> QED
      BY <2>1, <2>2, <2>3 DEF Pages
  <1>4. CASE ~marker /\ ~is_preconfigured_deployment
    <2>1. setup_wizard_required /\ setup_redirect_for_step = Due
      BY <1>4 DEF setup_wizard_required, setup_redirect_for_step
    <2>2. CASE ~volume
      <3>1. compute_wizard_step = "WaitForPersistentVolume" /\ Due = "/setup/1"
        BY <1>1, <2>2 DEF wizard_index
      <3>2. \A p \in Pages : Route(p, signed) =
              IF p = "/setup/1/verify" THEN "/setup/1/verify" ELSE "/setup/1"
        BY <1>4, <2>1, <2>2, <3>1 DEF Route, Pages, require_setup_complete, login_page, setup_step1,
           setup_step1_verify, setup_step2, setup_step3, check_persistent_writable, wizard_index
      <3> HIDE DEF Route
      <3> QED
        BY <3>1, <3>2 DEF Pages
    <2>3. CASE volume
      <3>1. \/ compute_wizard_step = "SetLdapUri" /\ Due = "/setup/2"
            \/ compute_wizard_step = "AddBindCredentials" /\ Due = "/setup/3"
        BY <1>1, <1>4, <2>3 DEF wizard_index
      <3>2. \A p \in Pages : Route(p, signed) = IF p = "/setup/1/verify" THEN "/setup/2" ELSE Due
        BY <1>4, <2>1, <2>3, <3>1 DEF Route, Pages, require_setup_complete, login_page, setup_step1,
           setup_step1_verify, setup_step2, setup_step3, check_persistent_writable, wizard_index
      <3> HIDE DEF Route
      <3> QED
        BY <3>1, <3>2 DEF Pages
    <2> QED
      BY <2>2, <2>3 DEF WizardInv
  <1> QED
    BY <1>2, <1>3, <1>4 DEF WizardInv

\* Under the invariant a Continue writes only what the last test has passed.
LEMMA ContinueWritesTested ==
  ASSUME WizardInv, NEW t \in Tabs
  PROVE  /\ setup_step2_continue(t) /\ conf' # conf => conf'.uri = verdict["uri"]
         /\ setup_step3_continue(t) /\ conf' # conf => conf'.creds = verdict["creds"]
  <1> "uri" \in Steps /\ "creds" \in Steps
    BY DEF Steps
  <1>1. ASSUME setup_step2_continue(t), conf' # conf PROVE conf'.uri = verdict["uri"]
    <2>1. PICK uri \in Uris :
            setup_test["uri"] = uri /\ conf' = [Document EXCEPT !.uri = uri]
      BY <1>1 DEF setup_step2_continue, WriteFails
    <2>2. uri = verdict["uri"]
      BY <2>1, WizardAssumption DEF WizardInv
    <2> QED
      BY <2>1, <2>2, DocumentType DEF Conf
  <1>2. ASSUME setup_step3_continue(t), conf' # conf PROVE conf'.creds = verdict["creds"]
    <2>1. PICK creds \in Creds :
            setup_test["creds"] = creds /\ conf' = [Document EXCEPT !.creds = creds]
      BY <1>2 DEF setup_step3_continue, WriteFails
    <2>2. creds = verdict["creds"]
      BY <2>1, WizardAssumption DEF WizardInv
    <2> QED
      BY <2>1, <2>2, DocumentType DEF Conf
  <1> QED
    BY <1>1, <1>2

-----------------------------------------------------------------------------
(***************************************************************************)
(* The theorems about the wizard.                                          *)
(***************************************************************************)

\* The wizard's invariant holds in every state of the process.
LEMMA WizardInvariance == Spec => []WizardInv
  <1>1. Init => WizardInv
    BY WizardInitInv DEF Init
  <1>2. WizardInv /\ [Next]_vars => WizardInv'
    BY WizardStepInv DEF Next, Restart, vars
  <1> QED
    BY <1>1, <1>2, PTL DEF Spec

\* No page starts a redirect loop (setup_redirect_for_step and the handlers of
\* web/setup.rs).
THEOREM NoRedirectLoop == Spec => []PagesLand
  BY WizardInvariance, Landing, PTL

\* The handlers of Continue write only inputs whose test passed last.
THEOREM OnlyTestedIsSaved == Spec => SavedWasTested
  <1>1. WizardInv =>
          [\A t \in Tabs :
             /\ setup_step2_continue(t) /\ conf' # conf => conf'.uri = verdict["uri"]
             /\ setup_step3_continue(t) /\ conf' # conf => conf'.creds = verdict["creds"]
          ]_wizardVars
    BY ContinueWritesTested
  <1> QED
    BY <1>1, WizardInvariance, PTL DEF SavedWasTested

-----------------------------------------------------------------------------
(***************************************************************************)
(* The sessions.                                                           *)
(***************************************************************************)

Session == [user : {"localhost", "admin"}, expires : Nat]
Maps == UNION {[D -> Session] : D \in SUBSET Nat}
Stages == {"idle", "matched", "lookup", "bind", "member", "first", "live", "rotate", "rotate_live"}
Request == [at : Stages, groups : BOOLEAN, was : BOOLEAN]

\* Two maps hold the same sessions that are still valid.
SameValid(f, g) ==
  /\ Unexpired(f) = Unexpired(g)
  /\ \A t \in Unexpired(f) : f[t].expires = g[t].expires

(***************************************************************************)
(* The inductive invariant of the sessions, in two halves that no action   *)
(* relates.  The map: after a restart the sidecar still has the sessions   *)
(* that had expired, so map and sidecar agree on the valid ones only;      *)
(* expiries are compared because time goes on.                             *)
(***************************************************************************)
MapInv ==
  /\ now \in Nat /\ issued \in Nat /\ saved \in BOOLEAN
  /\ sessions \in Maps /\ sidecar \subseteq Maps
  /\ saved => \E map \in Maps : sidecar = {map} /\ SameValid(map, sessions)

(***************************************************************************)
(* The requests: one that may rotate was let through while the admin was   *)
(* in the group, and one that is being checked remembers that the admin    *)
(* is.                                                                     *)
(***************************************************************************)
RequestInv ==
  /\ member \in BOOLEAN
  /\ req \in [Browsers -> Request]
  /\ \A b \in Browsers :
       /\ req[b].at = "live" /\ member => req[b].was
       /\ req[b].at = "rotate_live" => req[b].was

SessionInv == MapInv /\ RequestInv

\* No request is a request.
LEMMA NoReqType == NoReq \in Request
  BY DEF NoReq, Request, Stages

\* What is left of a map is a map.
LEMMA RestrictedType ==
  ASSUME NEW f \in Maps, NEW keep \in SUBSET DOMAIN f
  PROVE  /\ Restricted(f, keep) \in Maps
         /\ DOMAIN Restricted(f, keep) = keep
         /\ \A t \in keep : Restricted(f, keep)[t] = f[t]
         /\ keep = DOMAIN f => Restricted(f, keep) = f
  BY DEF Restricted, Maps

\* What a map of sessions is.
LEMMA MapFacts ==
  ASSUME NEW f \in Maps
  PROVE  /\ f = [t \in DOMAIN f |-> f[t]]
         /\ DOMAIN f \subseteq Nat
         /\ \A t \in DOMAIN f : f[t] \in Session
  BY Zenon DEF Maps

\* The map without sessions.
LEMMA EmptyMap == <<>> \in Maps
  <1>1. <<>> \in [{} -> Session] /\ {} \in SUBSET Nat
    OBVIOUS
  <1> QED
    BY Zenon, <1>1 DEF Maps

\* The first process starts with no session, saved as such.
LEMMA SessionInitInv == ASSUME SessionInit PROVE SessionInv
  <1>1. <<>> \in Maps
    BY EmptyMap
  <1>2. req \in [Browsers -> Request]
    BY NoReqType DEF SessionInit
  <1>3. SameValid(<<>>, <<>>)
    BY DEF SameValid
  <1> QED
    BY <1>1, <1>2, <1>3 DEF SessionInit, SessionInv, MapInv, RequestInv, NoReq

-----------------------------------------------------------------------------
(***************************************************************************)
(* The operations on the session map.                                      *)
(***************************************************************************)

\* A sidecar that was written with the map, or is known to be behind it.
LEMMA WrittenKeeps ==
  ASSUME NEW map \in Maps, sessions' = map, now' \in Nat, issued' \in Nat, saved' \in BOOLEAN,
         sidecar' \subseteq Maps, saved' => sidecar' = {map}
  PROVE  MapInv'
  BY DEF MapInv, SameValid

\* persist_sessions, whether it succeeds or not.
LEMMA PersistKeeps ==
  ASSUME MapInv, NEW map \in Maps, sessions' = map, persist_sessions(map), now' \in Nat,
         issued' \in Nat
  PROVE  MapInv'
  BY Zenon, WrittenKeeps DEF MapInv, persist_sessions

\* Signing out takes one session from the map and from its file.
LEMMA LogoutKeeps ==
  ASSUME MapInv, NEW tokens, logout(tokens), UNCHANGED <<now, issued>>
  PROVE  MapInv'
  <1> DEFINE left == Restricted(sessions, DOMAIN sessions \ tokens)
  <1>1. sessions' = left /\ left \in Maps
    BY RestrictedType DEF MapInv, logout
  <1>2. CASE tokens \cap DOMAIN sessions = {}
    <2>1. left = sessions
      BY Zenon, <1>2, RestrictedType DEF MapInv
    <2> QED
      BY <1>1, <1>2, <2>1 DEF logout, MapInv, SameValid, Unexpired
  <1>3. CASE tokens \cap DOMAIN sessions # {}
    BY <1>1, <1>3, PersistKeeps DEF logout, MapInv
  <1> QED
    BY <1>2, <1>3

\* Signing a user out elsewhere takes their other sessions from both.
LEMMA InvalidateKeeps ==
  ASSUME MapInv, NEW user, NEW keep, invalidate_sessions_for_user_except(user, keep),
         UNCHANGED <<now, issued>>
  PROVE  MapInv'
  <1> DEFINE dropped == {t \in DOMAIN sessions : sessions[t].user = user} \ keep
             left == Restricted(sessions, DOMAIN sessions \ dropped)
  <1>1. sessions' = left /\ left \in Maps
    BY RestrictedType DEF MapInv, invalidate_sessions_for_user_except
  <1>2. CASE dropped = {}
    <2>1. left = sessions
      BY <1>2, RestrictedType DEF MapInv
    <2> QED
      BY Zenon, <1>1, <1>2, <2>1 DEF invalidate_sessions_for_user_except, MapInv, SameValid, Unexpired
  <1>3. CASE dropped # {}
    BY <1>1, <1>3, PersistKeeps DEF invalidate_sessions_for_user_except, MapInv
  <1> QED
    BY <1>2, <1>3

\* A new session is stored with an expiry and a number nobody has.
LEMMA CreateKeeps ==
  ASSUME MapInv, NEW user \in {"localhost", "admin"}, NEW old,
         create_privileged_session(user, old), UNCHANGED now
  PROVE  MapInv'
  <1> DEFINE token == issued + 1
             rest == Restricted(sessions, Unexpired(sessions) \ old)
             map == [t \in DOMAIN rest \cup {token} |->
                       IF t = token THEN [user |-> user, expires |-> now + Ttl] ELSE rest[t]]
  <1>1. issued' = token /\ sessions' = map
    BY DEF create_privileged_session
  <1>2. rest \in Maps
    BY RestrictedType DEF MapInv, Unexpired
  <1>3. token \in Nat /\ [user |-> user, expires |-> now + Ttl] \in Session
    BY SessionAssumption DEF MapInv, Session
  <1>4. DOMAIN rest \cup {token} \in SUBSET Nat
    BY <1>2, <1>3, MapFacts
  <1> HIDE DEF rest, token
  <1>5. map \in [DOMAIN rest \cup {token} -> Session]
    BY <1>2, <1>3, MapFacts
  <1>6. map \in Maps
    BY Zenon, <1>4, <1>5 DEF Maps
  <1> DEFINE left == Restricted(sessions, DOMAIN sessions \ old)
  <1>7. \/ persist_sessions(map)
        \/ sidecar' = {left} /\ saved' = FALSE
    BY Zenon, <1>1 DEF create_privileged_session
  <1>8. left \in Maps
    BY RestrictedType DEF MapInv
  <1> HIDE DEF map, left
  <1>9. now' \in Nat /\ issued' \in Nat
    BY <1>1, <1>3 DEF MapInv
  <1>10. CASE persist_sessions(map)
    BY <1>1, <1>6, <1>9, <1>10, PersistKeeps
  <1>11. CASE sidecar' = {left} /\ saved' = FALSE
    BY Zenon, <1>1, <1>6, <1>8, <1>9, <1>11, WrittenKeeps
  <1> QED
    BY Zenon, <1>7, <1>10, <1>11

\* Time only ages the sessions, in the map and in the file alike.
LEMMA TickKeeps == ASSUME MapInv, SessionTick PROVE MapInv'
  <1>1. now' = now + 1 /\ UNCHANGED <<sessions, sidecar, issued, saved>>
    BY DEF SessionTick
  <1>2. ASSUME NEW map \in Maps, SameValid(map, sessions) PROVE SameValid(map, sessions)'
    <2>1. \A f \in Maps : Unexpired(f)' = {t \in Unexpired(f) : f[t].expires > now + 1}
      BY <1>1, MapFacts DEF Unexpired, MapInv, Session
    <2>2. UNCHANGED <<map, sessions>>
      BY <1>1
    <2> QED
      BY Zenon, <1>2, <2>1, <2>2 DEF SameValid, MapInv
  <1> QED
    BY <1>1, <1>2 DEF MapInv

\* A restart reads the sidecar, and drops from it what has expired.
LEMMA RestartKeeps ==
  ASSUME MapInv, SessionsRestart
  PROVE  MapInv' /\ (saved => Unexpired(sessions)' = Unexpired(sessions))
  <1>1. UNCHANGED <<now, sidecar, issued, saved>> /\ sessions' = load_sessions(sidecar)
    BY DEF SessionsRestart
  <1>2. CASE sidecar = {}
    <2>1. sessions' = <<>> /\ ~saved
      BY <1>1, <1>2 DEF load_sessions, MapInv
    <2> QED
      BY <1>1, <2>1, EmptyMap DEF MapInv
  <1>3. CASE sidecar # {}
    <2> DEFINE map == CHOOSE f \in sidecar : TRUE
               valid == Restricted(map, Unexpired(map))
    <2>1. map \in Maps /\ map \in sidecar
      BY <1>3 DEF MapInv
    <2>2. sessions' = valid
      BY <1>1, <1>3 DEF load_sessions
    <2> HIDE DEF map
    <2>3. /\ valid \in Maps /\ DOMAIN valid = Unexpired(map)
          /\ \A t \in Unexpired(map) : valid[t] = map[t]
      BY <2>1, RestrictedType DEF Unexpired
    <2>4. Unexpired(valid) = Unexpired(map)
      BY <2>3 DEF Unexpired
    <2>5. saved => sidecar = {map} /\ SameValid(map, sessions)
      BY <2>1 DEF MapInv
    <2> HIDE DEF valid
    <2>6. SameValid(map, valid)
      BY <2>3, <2>4 DEF SameValid
    <2>7. \A f \in Maps : sessions' = f => Unexpired(sessions)' = Unexpired(f)
      BY <1>1 DEF Unexpired
    <2>8. \A f, g \in Maps : sessions' = g /\ SameValid(f, g) => SameValid(f, sessions)'
      BY <1>1 DEF SameValid, Unexpired
    <2>9. saved => Unexpired(sessions)' = Unexpired(sessions)
      BY <2>2, <2>3, <2>4, <2>5, <2>7 DEF SameValid
    <2>10. MapInv'
      BY <1>1, <2>1, <2>2, <2>3, <2>5, <2>6, <2>8 DEF MapInv
    <2> QED
      BY <2>9, <2>10
  <1> QED
    BY <1>2, <1>3

\* An action that has no part in the map.
LEMMA MapStays ==
  ASSUME MapInv, UNCHANGED <<now, sessions, sidecar, issued, saved>> PROVE MapInv'
  BY DEF MapInv, SameValid, Unexpired

-----------------------------------------------------------------------------
(***************************************************************************)
(* The requests.                                                           *)
(***************************************************************************)

\* The request of one browser changes and the group does not.
LEMMA RequestChanges ==
  ASSUME RequestInv, NEW b \in Browsers, NEW r \in Request, req' = [req EXCEPT ![b] = r],
         UNCHANGED member, r.at = "live" /\ member => r.was, r.at = "rotate_live" => r.was
  PROVE  RequestInv'
  BY DEF RequestInv

\* A request ends.
LEMMA AnsweredKeeps ==
  ASSUME RequestInv, NEW b \in Browsers, Answered(b), UNCHANGED member PROVE RequestInv'
  <1>1. NoReq.at = "idle"
    BY DEF NoReq
  <1> QED
    BY Zenon, <1>1, NoReqType, RequestChanges DEF Answered

\* A request begins, or goes on to a stage that no check of the group guards.
LEMMA WaitsKeeps ==
  ASSUME RequestInv, NEW b \in Browsers, NEW at \in Stages \ {"live", "rotate_live"},
         req' = Waits(b, at), UNCHANGED member
  PROVE  RequestInv'
  <1> DEFINE r == [NoReq EXCEPT !.at = at]
  <1>1. r \in Request /\ r.at = at
    BY Zenon DEF NoReq, Request
  <1>2. req' = [req EXCEPT ![b] = r]
    BY DEF Waits
  <1> HIDE DEF r
  <1> QED
    BY Zenon, <1>1, <1>2, RequestChanges

\* The group changes under the requests that are being checked.
LEMMA GroupChangesKeeps == ASSUME RequestInv, GroupChanges PROVE RequestInv'
  BY Zenon DEF RequestInv, GroupChanges, Request

\* A restart forgets every request.
LEMMA RestartForgets == ASSUME RequestInv, SessionsRestart PROVE RequestInv'
  BY NoReqType DEF RequestInv, SessionsRestart, NoReq

-----------------------------------------------------------------------------
(***************************************************************************)
(* The steps.                                                              *)
(***************************************************************************)

\* A session is created for a request, and the request answered.
LEMMA SignedInKeeps ==
  ASSUME SessionInv, NEW b \in Browsers, NEW user \in {"localhost", "admin"},
         create_privileged_session(user, Cookies(b)), Answered(b), UNCHANGED <<now, directoryVars>>
  PROVE  SessionInv'
  BY CreateKeeps, AnsweredKeeps DEF SessionInv, directoryVars

\* A request is refused and nothing else happens.
LEMMA RefusedKeeps ==
  ASSUME SessionInv, NEW b \in Browsers, Refused(b) PROVE SessionInv'
  BY MapStays, AnsweredKeeps DEF SessionInv, Refused, directoryVars

\* The steps of a browser's request, each the whole of a handler between two
\* awaits.
LEMMA BrowserStepInv ==
  ASSUME SessionInv, NEW b \in Browsers, NEW required,
         \/ login(b) \/ setup_password(b, required) \/ FirstPassword(b)
         \/ LocalhostSignsIn(b) \/ LookUp(b) \/ verify_user_credentials(b)
         \/ user_is_member_of(b) \/ Logout(b) \/ require_auth(b)
         \/ settings_change_password(b)
         \/ verify_admin_group_membership_live(b) \/ Rotate(b)
  PROVE  SessionInv'
  <1> USE DEF SessionInv
  <1>1. CASE login(b)
    <2>1. \E at \in {"lookup", "matched"} : req' = Waits(b, at)
      BY <1>1 DEF login
    <2> QED
      BY <1>1, <2>1, WaitsKeeps, MapStays DEF login, directoryVars, Stages
  <1>2. CASE setup_password(b, required)
    BY <1>2, WaitsKeeps, MapStays DEF setup_password, directoryVars, Stages
  <1>3. CASE FirstPassword(b)
    BY Zenon, <1>3, SignedInKeeps, RefusedKeeps DEF FirstPassword
  <1>4. CASE LocalhostSignsIn(b)
    BY Zenon, <1>4, SignedInKeeps DEF LocalhostSignsIn, SignedIn
  <1>5. CASE LookUp(b)
    <2>1. CASE req' = [req EXCEPT ![b].at = "bind", ![b].groups = member]
      <3> DEFINE r == [req[b] EXCEPT !.at = "bind", !.groups = member]
      <3>1. r \in Request /\ r.at = "bind"
        BY Zenon DEF RequestInv, Request, Stages
      <3>2. req' = [req EXCEPT ![b] = r]
        BY Zenon, <2>1 DEF RequestInv
      <3> HIDE DEF r
      <3>3. UNCHANGED <<now, sessions, sidecar, issued, saved, member>>
        BY <1>5 DEF LookUp, Refused, directoryVars
      <3> QED
        BY Zenon, <3>1, <3>2, <3>3, RequestChanges, MapStays
    <2> QED
      BY <1>5, <2>1, RefusedKeeps DEF LookUp
  <1>6. CASE verify_user_credentials(b)
    <2>1. CASE req' = Waits(b, "member")
      BY Zenon, <1>6, <2>1, WaitsKeeps, MapStays DEF verify_user_credentials, Stages, Refused, directoryVars
    <2> QED
      BY <1>6, <2>1, RefusedKeeps DEF verify_user_credentials
  <1>7. CASE user_is_member_of(b)
    BY Zenon, <1>7, SignedInKeeps, RefusedKeeps DEF user_is_member_of, SignedIn
  <1>8. CASE Logout(b)
    BY <1>8, LogoutKeeps DEF Logout, directoryVars, RequestInv
  <1>9. CASE require_auth(b)
    BY Zenon, <1>9, LogoutKeeps DEF require_auth, directoryVars, RequestInv
  <1>10. CASE settings_change_password(b)
    <2>1. UNCHANGED <<now, sessions, sidecar, issued, saved, member>>
      BY <1>10 DEF settings_change_password, directoryVars
    <2>2. CASE req' = Waits(b, "rotate")
      BY <2>1, <2>2, WaitsKeeps, MapStays DEF Stages
    <2>3. CASE req' = [req EXCEPT ![b] = [NoReq EXCEPT !.at = "live", !.was = member]]
      <3> DEFINE r == [NoReq EXCEPT !.at = "live", !.was = member]
      <3>1. r \in Request /\ r.at = "live" /\ r.was = member
        BY Zenon DEF NoReq, RequestInv, Request, Stages
      <3>2. req' = [req EXCEPT ![b] = r]
        BY <2>3
      <3> HIDE DEF r
      <3> QED
        BY Zenon, <2>1, <3>1, <3>2, RequestChanges, MapStays
    <2> QED
      BY <1>10, <2>2, <2>3 DEF settings_change_password
  <1>11. CASE verify_admin_group_membership_live(b)
    <2>1. CASE req[b].at = "live" /\ member /\ Moves(b, "rotate_live")
      <3> DEFINE r == [req[b] EXCEPT !.at = "rotate_live"]
      <3>1. r \in Request /\ r.at = "rotate_live" /\ r.was
        BY <2>1 DEF RequestInv, Request, Stages
      <3>2. req' = [req EXCEPT ![b] = r]
        BY SMTT(30), <2>1 DEF Moves, Goes, RequestInv
      <3> HIDE DEF r
      <3>3. UNCHANGED <<now, sessions, sidecar, issued, saved, member>>
        BY Zenon, <2>1 DEF Moves, directoryVars
      <3> QED
        BY Zenon, <3>1, <3>2, <3>3, RequestChanges, MapStays
    <2> QED
      BY <1>11, <2>1, RefusedKeeps DEF verify_admin_group_membership_live
  <1>12. CASE Rotate(b)
    <2>1. CASE /\ invalidate_sessions_for_user_except("localhost", current_session_token(b))
               /\ Answered(b)
               /\ UNCHANGED <<now, issued, jar, directoryVars>>
      BY <2>1, InvalidateKeeps, AnsweredKeeps DEF directoryVars
    <2> QED
      BY <1>12, <2>1, RefusedKeeps DEF Rotate
  <1> QED
    BY <1>1, <1>2, <1>3, <1>4, <1>5, <1>6, <1>7, <1>8, <1>9, <1>10, <1>11, <1>12

\* Every step of the process, with the surroundings.
LEMMA SessionStepInv == SessionInv /\ [Next]_vars => SessionInv'
  <1> SUFFICES ASSUME SessionInv, [Next]_vars PROVE SessionInv'
    OBVIOUS
  <1>1. CASE UNCHANGED sessionVars
    BY <1>1, MapStays DEF SessionInv, RequestInv, sessionVars
  <1>2. CASE SessionNext(setup_wizard_required)
    <2>1. CASE SessionTick
      BY <2>1, TickKeeps DEF SessionTick, SessionInv, RequestInv, directoryVars
    <2>2. CASE CacheForgets
      BY <2>2, MapStays DEF CacheForgets, SessionInv, RequestInv
    <2>3. CASE GroupChanges
      BY <2>3, MapStays, GroupChangesKeeps DEF GroupChanges, SessionInv
    <2>4. CASE Damage
      BY Zenon, <2>4 DEF Damage, SessionInv, MapInv, RequestInv, directoryVars
    <2> HIDE DEF setup_wizard_required
    <2> QED
      BY <1>2, <2>1, <2>2, <2>3, <2>4, BrowserStepInv DEF SessionNext
  <1>3. CASE SessionsRestart
    BY <1>3, RestartKeeps, RestartForgets DEF SessionInv
  <1> QED
    BY <1>1, <1>2, <1>3 DEF Next, Restart, vars

-----------------------------------------------------------------------------
(***************************************************************************)
(* The theorems about the sessions.                                        *)
(***************************************************************************)

\* The sessions' invariant holds in every state of the process.
LEMMA SessionInvariance == Spec => []SessionInv
  <1>1. Init => SessionInv
    BY SessionInitInv DEF Init
  <1> QED
    BY <1>1, SessionStepInv, PTL DEF Spec

\* A restart of the WebUI process signs nobody out and nobody in while the sidecar
\* is saved (AuthManager::new, persist_sessions and load_sessions of auth.rs).
THEOREM RestartSignsNobodyOut == Spec => RestartKeepsSessions
  <1>1. SessionInv =>
          [SessionsRestart /\ saved => Unexpired(sessions)' = Unexpired(sessions)]_sessionVars
    BY RestartKeeps DEF SessionInv
  <1> QED
    BY <1>1, SessionInvariance, PTL DEF RestartKeepsSessions

\* Nobody whose membership was revoked before the request rotates the localhost
\* password (settings_change_password and verify_admin_group_membership_live).
THEOREM RevocationHolds == Spec => RevokedCannotRotate
  <1>1. SessionInv =>
          [\A b \in Browsers :
             req[b].at = "rotate_live" /\ password' # password /\ req'[b] = NoReq
               => req[b].was]_sessionVars
    BY DEF SessionInv, RequestInv
  <1> QED
    BY <1>1, SessionInvariance, PTL DEF RevokedCannotRotate

-----------------------------------------------------------------------------
(***************************************************************************)
(* The permission editor.                                                  *)
(***************************************************************************)

Early == {"idle", "checked", "resolved", "prepared"}
Late == {"scan", "posix", "acl", "aclwalk"}

(***************************************************************************)
(* The inductive invariant.  OneApplyWrites alone is not inductive: the    *)
(* claim must meet a progress nobody has finished, and a slot it may look  *)
(* up.                                                                     *)
(***************************************************************************)
SlotInv ==
  /\ pc \in [Requests -> Early \cup Late \cup {"refused", "done"}]
  /\ finished \in [Requests -> BOOLEAN]
  /\ slot \in Requests \cup {NoSlot}
  /\ \A r \in Requests : pc[r] \in Early => ~finished[r]
  /\ OneApplyWrites

USE DEF Early, Late

\* A step that leaves the slot and the flags alone, moves one request at most
\* and starts no task keeps the invariant.
LEMMA MovesKeep ==
  ASSUME SlotInv, NEW r \in Requests, NEW v \in Early \cup Late \cup {"refused", "done"},
         pc' = [pc EXCEPT ![r] = v], v \in Late => pc[r] \in Late,
         v \in Early => pc[r] \in Early, UNCHANGED <<slot, finished>>
  PROVE  SlotInv'
  BY DEF SlotInv, OneApplyWrites, Running

\* A refused post leaves before it has a task.
LEMMA RefusalKeeps ==
  ASSUME SlotInv, NEW r \in Requests, Refuse(r), UNCHANGED progress
  PROVE  SlotInv'
  BY Zenon, MovesKeep DEF Refuse, Leave, progress

\* A task that goes on is still the one task.
LEMMA GoingKeeps ==
  ASSUME SlotInv, NEW r \in Requests, NEW v \in Late, Running(r), Turns(r, v)
  PROVE  SlotInv'
  BY Zenon, MovesKeep DEF Turns, Running, progress

\* The end of a task frees the slot it holds.
LEMMA EndKeeps ==
  ASSUME SlotInv, NEW r \in Requests, Running(r), Leave(r, "done"),
         finished' = [finished EXCEPT ![r] = TRUE], slot' = slot
  PROVE  SlotInv'
  BY DEF SlotInv, OneApplyWrites, Running, Leave

\* A task that finishes gives its progress up.
LEMMA FinishKeeps ==
  ASSUME SlotInv, NEW r \in Requests, NEW clean, Running(r), Finish(r, clean)
  PROVE  SlotInv'
  BY Zenon, EndKeeps DEF Finish

\* The end of one ACL operation starts the next or finishes the task.
LEMMA OpDoneKeeps ==
  ASSUME SlotInv, NEW r \in Requests, NEW w, NEW ok, Running(r), OpDone(r, w, ok)
  PROVE  SlotInv'
  <1>1. CASE ok /\ w.op < Len(form[r].ops)
    BY <1>1, GoingKeeps DEF OpDone
  <1>2. CASE ~(ok /\ w.op < Len(form[r].ops))
    BY <1>2, FinishKeeps DEF OpDone
  <1> QED
    BY <1>1, <1>2

\* Every step of a task keeps the invariant.
LEMMA TaskKeeps ==
  ASSUME SlotInv, NEW r \in Requests, Task(r)
  PROVE  SlotInv'
  <1> Running(r)
    BY Zenon DEF Task, Scan, PosixVisit, PosixEnds, AclOp, AclVisit, AclEnds, Running
  <1>1. CASE Scan(r)
    <2>1. CASE Turns(r, "posix")
      BY <2>1, GoingKeeps
    <2>2. CASE Finish(r, FALSE)
      BY Zenon, <2>2, FinishKeeps
    <2> QED
      BY Zenon, <1>1, <2>1, <2>2 DEF Scan, Begin
  <1>2. CASE PosixVisit(r)
    BY <1>2 DEF PosixVisit, SlotInv, OneApplyWrites, Running, progress
  <1>3. CASE PosixEnds(r)
    BY <1>3, GoingKeeps, FinishKeeps DEF PosixEnds, Running
  <1>4. CASE AclOp(r)
    <2>1. CASE Turns(r, "aclwalk")
      BY <2>1, GoingKeeps
    <2>2. CASE Finish(r, FALSE)
      BY Zenon, <2>2, FinishKeeps
    <2>3. CASE \E ok : OpDone(r, walk[r], ok)
      BY <2>3, OpDoneKeeps
    <2> QED
      BY Zenon, <1>4, <2>1, <2>2, <2>3 DEF AclOp, Begin
  <1>5. CASE AclVisit(r)
    BY Zenon, <1>5 DEF AclVisit, SlotInv, OneApplyWrites, Running, progress
  <1>6. CASE AclEnds(r)
    BY <1>6, OpDoneKeeps DEF AclEnds, Running
  <1> QED
    BY <1>1, <1>2, <1>3, <1>4, <1>5, <1>6 DEF Task

\* The claim checks and writes under one lock, so it meets no running task.
LEMMA ClaimKeeps ==
  ASSUME SlotInv, NEW r \in Requests, Claim(r)
  PROVE  SlotInv'
  <1>1. \A q \in Requests : ~Running(q)
    BY ApplyAssumption
       DEF Claim, try_claim_apply_slot, apply_in_progress, SlotInv, OneApplyWrites, NoSlot, Running
  <1>2. pc[r] = "prepared" /\ ~finished[r] /\ slot' = r /\ finished' = finished
    BY DEF Claim, try_claim_apply_slot, SlotInv
  <1>3. PICK v \in {"scan", "acl"} : pc' = [pc EXCEPT ![r] = v]
    BY Zenon DEF Claim
  <1> QED
    BY <1>1, <1>2, <1>3 DEF SlotInv, OneApplyWrites, Running

\* What a handler does before the claim.
LEMMA HandlerKeeps ==
  ASSUME SlotInv, NEW r \in Requests,
         \/ \E f \in Forms[r] : Post(r, f)
         \/ ResolveOwner(r) \/ PrepareBatch(r) \/ acl_apply(r) \/ ClaimBusy(r)
  PROVE  SlotInv'
  <1>1. CASE \E f \in Forms[r] : Post(r, f)
    BY Zenon, <1>1, MovesKeep, RefusalKeeps DEF Post, progress
  <1>2. CASE ResolveOwner(r)
    BY Zenon, <1>2, MovesKeep, RefusalKeeps DEF ResolveOwner, progress
  <1>3. CASE PrepareBatch(r)
    BY Zenon, <1>3, MovesKeep, RefusalKeeps DEF PrepareBatch, progress
  <1>4. CASE acl_apply(r)
    BY Zenon, <1>4, MovesKeep, RefusalKeeps DEF acl_apply, progress
  <1>5. CASE ClaimBusy(r)
    BY Zenon, <1>5, RefusalKeeps DEF ClaimBusy
  <1> QED
    BY Zenon, <1>1, <1>2, <1>3, <1>4, <1>5

\* Every step of the editor keeps the invariant.
LEMMA SlotInvInductive == SlotInv /\ [ApplyNext]_applyVars => SlotInv'
  <1> SUFFICES ASSUME SlotInv, [ApplyNext]_applyVars PROVE SlotInv'
    OBVIOUS
  <1>1. ASSUME NEW r \in Requests, Panic(r) PROVE SlotInv'
    BY Zenon, <1>1, EndKeeps DEF Panic
  <1>2. ASSUME NEW r \in Requests, apply_progress(r) PROVE SlotInv'
    BY <1>2 DEF apply_progress, SlotInv, OneApplyWrites, Running, progress
  <1>3. CASE cancel_apply
    BY <1>3 DEF cancel_apply, SlotInv, OneApplyWrites, Running
  <1>4. CASE ApplyRestart
    BY <1>4 DEF ApplyRestart, SlotInv, OneApplyWrites, Running
  <1>5. CASE Reload
    BY <1>5 DEF Reload, SlotInv, OneApplyWrites, Running, progress
  <1>6. ASSUME NEW e \in Entries, Client(e) PROVE SlotInv'
    BY <1>6 DEF Client, SlotInv, OneApplyWrites, Running, progress
  <1>7. CASE UNCHANGED applyVars
    BY <1>7 DEF applyVars, SlotInv, OneApplyWrites, Running, progress
  <1> QED
    BY Zenon, <1>1, <1>2, <1>3, <1>4, <1>5, <1>6, <1>7, HandlerKeeps, ClaimKeeps, TaskKeeps DEF ApplyNext

\* try_claim_apply_slot is the gate: whatever passes the courtesy check, at most
\* one apply writes, and the slot holds its unfinished progress.
THEOREM ApplyExclusion == ApplySpec => []OneApplyWrites
  <1>1. ApplyInit => SlotInv
    BY DEF ApplyInit, SlotInv, OneApplyWrites, Running, NoSlot
  <1>2. SlotInv => OneApplyWrites
    BY DEF SlotInv
  <1> QED
    BY <1>1, <1>2, SlotInvInductive, PTL DEF ApplySpec

=============================================================================
