------------------------------- MODULE Wizard -------------------------------
(***************************************************************************)
(* The first-run wizard of the WebUI (web/setup.rs) over the step machine  *)
(* of startup.rs: volume, LDAP server, bind credentials.  Its state is the *)
(* configuration file, the completion marker and the last passed test of   *)
(* each step, which is all that ties a Continue to the Test before it.     *)
(*                                                                         *)
(* A tab is a browser tab on the wizard.  A probe runs on a blocking       *)
(* thread, so the tests of two tabs end in any order.  The post handlers   *)
(* look at neither the marker nor the current step, and neither do the     *)
(* actions.                                                                *)
(***************************************************************************)
EXTENDS Naturals

CONSTANTS
  Tabs,         \* browser tabs that may be on the wizard
  Uris,         \* well-formed ldap_uri values
  Creds,        \* pairs of bind DN and password
  WizardFaults  \* write, marker: what may fail

ASSUME WizardAssumption ==
  /\ {"none", "bad"} \cap Uris = {} /\ {"none", "blank"} \cap Creds = {}
  /\ WizardFaults \subseteq {"write", "marker"}

VARIABLES
  volume,      \* /config is a writable bind mount
  keytab,      \* the keytab is a file
  conf,        \* nfs-klldap.conf
  marker,      \* .setup_wizard_done, in the container's own layer
  setup_test,  \* SetupTestState: the inputs that passed last
  probe,       \* the test a tab waits for
  open,        \* the tabs still on the wizard
  verdict      \* history: the last test of each step to end in this process, if it passed

wizardVars == <<volume, keytab, conf, marker, setup_test, probe, open, verdict>>

Steps == {"uri", "creds"}
NoTest == [s \in Steps |-> "none"]
NoProbe == [step |-> "none", value |-> "none"]

\* The template, a file somebody filled in, and one only the strict load refuses.
StartConfs ==
  {[parses |-> TRUE, rest |-> TRUE, uri |-> "none", creds |-> "blank"]}
    \cup [parses : {TRUE}, rest : BOOLEAN, uri : Uris, creds : Creds]

-----------------------------------------------------------------------------
(***************************************************************************)
(* startup.rs.                                                             *)
(***************************************************************************)

check_persistent_writable == volume

ldap_uri_is_structurally_valid(uri) == uri \in Uris

config_has_required_startup_fields ==
  ldap_uri_is_structurally_valid(conf.uri) /\ conf.creds # "blank"

\* The validated load; `rest` stands for what the wizard does not ask for.
StrictLoad == conf.parses /\ conf.rest /\ config_has_required_startup_fields

is_preconfigured_deployment ==
  keytab /\ check_persistent_writable /\ StrictLoad

compute_wizard_step ==
  CASE ~check_persistent_writable -> "WaitForPersistentVolume"
    [] check_persistent_writable
         /\ ~(conf.parses /\ ldap_uri_is_structurally_valid(conf.uri)) -> "SetLdapUri"
    [] OTHER -> IF conf.creds # "blank" /\ marker THEN "Ready" ELSE "AddBindCredentials"

wizard_index(step) ==
  CASE step = "WaitForPersistentVolume" -> "/setup/1"
    [] step = "SetLdapUri" -> "/setup/2"
    [] step = "AddBindCredentials" -> "/setup/3"
    [] step = "Ready" -> "/login"

-----------------------------------------------------------------------------
(***************************************************************************)
(* The pages.  Route gives the page a request is sent to, or the page      *)
(* itself when it is rendered; `signed` says that the request is signed in.*)
(***************************************************************************)

setup_wizard_required == ~is_preconfigured_deployment /\ ~marker

setup_redirect_for_step ==
  IF is_preconfigured_deployment \/ marker
  THEN "/login" ELSE wizard_index(compute_wizard_step)

Pages ==
  {"/", "/login", "/setup", "/setup/1", "/setup/1/verify", "/setup/2", "/setup/3"}

require_setup_complete(signed) ==
  IF setup_wizard_required THEN setup_redirect_for_step
  ELSE IF signed THEN "/" ELSE "/login"

login_page(signed) ==
  IF setup_wizard_required THEN setup_redirect_for_step
  ELSE IF signed THEN "/" ELSE "/login"

setup_step1 ==
  CASE marker -> "/login"
    [] ~marker /\ compute_wizard_step # "WaitForPersistentVolume" -> setup_redirect_for_step
    [] OTHER -> "/setup/1"

setup_step1_verify == IF check_persistent_writable THEN "/setup/2" ELSE "/setup/1/verify"

setup_step2 ==
  CASE marker -> "/login"
    [] ~marker /\ compute_wizard_step \in {"WaitForPersistentVolume", "AddBindCredentials"} ->
         wizard_index(compute_wizard_step)
    [] OTHER -> "/setup/2"

\* The step is not looked at once the volume is there.
setup_step3_NoUriCheck ==
  CASE marker -> "/login"
    [] ~marker /\ compute_wizard_step = "WaitForPersistentVolume" -> "/setup/1"
    [] OTHER -> "/setup/3"

setup_step3 ==
  CASE marker -> "/login"
    [] ~marker /\ compute_wizard_step \in {"WaitForPersistentVolume", "SetLdapUri"} ->
         wizard_index(compute_wizard_step)
    [] OTHER -> "/setup/3"

Route(page, signed) ==
  CASE page = "/" -> require_setup_complete(signed)
    [] page = "/login" -> login_page(signed)
    [] page = "/setup" -> setup_redirect_for_step
    [] page = "/setup/1" -> setup_step1
    [] page = "/setup/1/verify" -> setup_step1_verify
    [] page = "/setup/2" -> setup_step2
    [] page = "/setup/3" -> setup_step3

-----------------------------------------------------------------------------
WizardInit ==
  /\ volume \in BOOLEAN /\ keytab \in BOOLEAN /\ conf \in StartConfs
  /\ marker = is_preconfigured_deployment
  /\ setup_test = NoTest /\ verdict = NoTest
  /\ probe = [t \in Tabs |-> NoProbe]
  /\ open = Tabs

Asks(t) == t \in open /\ probe[t] = NoProbe

unchangedFiles == UNCHANGED <<volume, keytab, conf, marker>>

\* A test that passes is remembered; any other ending forgets the one before.
TestEnds(step, value, ok) ==
  LET kept == IF ok THEN value ELSE "none"
  IN  /\ setup_test' = [setup_test EXCEPT ![step] = kept]
      /\ verdict' = [verdict EXCEPT ![step] = kept]

Probes(t, step, value) ==
  /\ probe' = [probe EXCEPT ![t] = [step |-> step, value |-> value]]
  /\ UNCHANGED <<setup_test, verdict>>

setup_step2_test(t) ==
  /\ Asks(t)
  /\ \/ TestEnds("uri", "bad", FALSE) /\ UNCHANGED probe
     \/ \E uri \in Uris : Probes(t, "uri", uri)
  /\ unchangedFiles /\ UNCHANGED open

\* run_bind_probe_blocking needs a file that parses and names a server.
setup_step3_test(t) ==
  /\ Asks(t)
  /\ \/ TestEnds("creds", "blank", FALSE) /\ UNCHANGED probe
     \/ \E creds \in Creds :
          IF conf.parses /\ conf.uri # "none"
          THEN Probes(t, "creds", creds)
          ELSE TestEnds("creds", creds, FALSE) /\ UNCHANGED probe
  /\ unchangedFiles /\ UNCHANGED open

\* What getent and nc can find out about a server, and ldapsearch about a bind;
\* a command that cannot be run, or runs into its timeout, is a failure too.
check_ldap_reachability == {"Reachable", "DnsFailure", "Unreachable"}
check_ldap_bind == {"Ok", "InvalidCredentials", "NoContact", "OtherError"}

Answers(step) == IF step = "uri" THEN check_ldap_reachability ELSE check_ldap_bind
Passed == {"Reachable", "Ok"}

\* A late failure leaves the inputs of an earlier pass in place.
ProbeEnds_KeepsOld(t) ==
  /\ probe[t] # NoProbe
  /\ \E answer \in Answers(probe[t].step) :
       /\ setup_test' = IF answer \in Passed
                        THEN [setup_test EXCEPT ![probe[t].step] = probe[t].value]
                        ELSE setup_test
       /\ verdict' = [verdict EXCEPT ![probe[t].step] =
                        IF answer \in Passed THEN probe[t].value ELSE "none"]
  /\ probe' = [probe EXCEPT ![t] = NoProbe]
  /\ unchangedFiles /\ UNCHANGED open

\* The blocking thread answers; a task that was lost counts as a failure.
ProbeEnds(t) ==
  /\ probe[t] # NoProbe
  /\ \E answer \in Answers(probe[t].step) :
       TestEnds(probe[t].step, probe[t].value, answer \in Passed)
  /\ probe' = [probe EXCEPT ![t] = NoProbe]
  /\ unchangedFiles /\ UNCHANGED open

\* A file that does not parse is replaced by an empty document.
Document ==
  IF conf.parses THEN conf
  ELSE [parses |-> TRUE, rest |-> conf.rest, uri |-> "none", creds |-> "blank"]

WriteFails == "write" \in WizardFaults /\ UNCHANGED <<conf, marker, setup_test, open>>

setup_step2_continue(t) ==
  /\ Asks(t)
  /\ \E uri \in Uris :
       /\ setup_test["uri"] = uri
       /\ \/ WriteFails
          \/ /\ conf' = [Document EXCEPT !.uri = uri]
             /\ setup_test' = [setup_test EXCEPT !["uri"] = "none"]
             /\ UNCHANGED <<marker, open>>
  /\ UNCHANGED <<volume, keytab, probe, verdict>>

\* The recycle that follows is RecycleLatch's; its restart is Restart below.  The
\* tab leaves the wizard unless the marker could not be written.
setup_step3_continue(t) ==
  /\ Asks(t)
  /\ UNCHANGED <<volume, keytab, probe, verdict>>
  /\ \E creds \in Creds :
       /\ setup_test["creds"] = creds
       /\ \/ WriteFails
          \/ /\ conf' = [Document EXCEPT !.creds = creds]
             /\ \/ marker' = TRUE
                \/ "marker" \in WizardFaults /\ UNCHANGED marker
             /\ setup_test' = [setup_test EXCEPT !["creds"] = "none"]
             /\ open' = IF setup_wizard_required' THEN open ELSE open \ {t}

\* A tab that reloads its page is sent to the login page.
TabLeaves(t) ==
  /\ Asks(t) /\ ~setup_wizard_required
  /\ open' = open \ {t}
  /\ unchangedFiles /\ UNCHANGED <<setup_test, probe, verdict>>

-----------------------------------------------------------------------------
(***************************************************************************)
(* The surroundings.                                                       *)
(***************************************************************************)

\* The WebUI process starts anew: AppState holds no test, and answers are lost.
WizardRestarts ==
  /\ setup_test' = NoTest /\ verdict' = NoTest
  /\ probe' = [t \in Tabs |-> NoProbe]
  /\ unchangedFiles /\ UNCHANGED open

\* A new container, with or without volume and keytab, has no marker until the
\* supervisor finds a complete configuration.
Recreate ==
  /\ open = Tabs
  /\ volume' \in BOOLEAN /\ keytab' \in BOOLEAN
  /\ IF volume /\ volume' THEN UNCHANGED conf ELSE conf' \in StartConfs
  /\ marker' = is_preconfigured_deployment'
  /\ setup_test' = NoTest /\ verdict' = NoTest
  /\ probe' = [t \in Tabs |-> NoProbe]
  /\ UNCHANGED open

\* Somebody breaks or mends the file in an editor.
EditConf ==
  /\ open = Tabs
  /\ conf' \in {[conf EXCEPT !.parses = ~@], [conf EXCEPT !.rest = ~@]}
  /\ UNCHANGED <<volume, keytab, marker, setup_test, probe, open, verdict>>

WizardNext ==
  \/ \E t \in Tabs : \/ setup_step2_test(t) \/ setup_step2_continue(t)
                     \/ setup_step3_test(t) \/ setup_step3_continue(t)
                     \/ ProbeEnds(t) \/ TabLeaves(t)
  \/ Recreate \/ EditConf

-----------------------------------------------------------------------------
(***************************************************************************)
(* Properties.                                                             *)
(***************************************************************************)

\* No page starts a redirect loop, although the gate, the login page and the
\* three steps decide by different functions: from any page three hops reach a
\* page that is rendered, and while the wizard is required it is the page of the
\* step that is due, never the login page.
PagesLand ==
  \A page \in Pages, signed \in BOOLEAN :
    LET hop1 == Route(page, signed)
        hop2 == Route(hop1, signed)
        hop3 == Route(hop2, signed)
    IN  /\ Route(hop3, signed) = hop3
        /\ setup_wizard_required =>
             hop3 \in {wizard_index(compute_wizard_step), "/setup/1/verify"}

\* Continue writes a server or credentials only when the last test of that step
\* to end, in whatever tab, was a pass of exactly these inputs ("Test settings
\* before continuing"), however the tests of two tabs overlap.
SavedWasTested ==
  [][\A t \in Tabs :
       /\ setup_step2_continue(t) /\ conf' # conf => conf'.uri = verdict["uri"]
       /\ setup_step3_continue(t) /\ conf' # conf => conf'.creds = verdict["creds"]
    ]_wizardVars

=============================================================================
