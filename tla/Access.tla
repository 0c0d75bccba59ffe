------------------------------- MODULE Access -------------------------------
(***************************************************************************)
(* The way in to the WebUI: the first-run wizard and the sessions, in one  *)
(* process that is restarted when the wizard is finished, when settings    *)
(* are applied, and when it crashes.                                       *)
(***************************************************************************)
EXTENDS Wizard, Sessions

CONSTANT SignInConf   \* bound: the configuration that people sign in with

vars == <<wizardVars, sessionVars>>

Init == WizardInit /\ SessionInit

Restart == WizardRestarts /\ SessionsRestart

\* Bound: people sign in when every tab has left the wizard and the restart that
\* ends it is over.
SettledDown ==
  open = {} /\ setup_test = NoTest /\ verdict = NoTest /\ conf = SignInConf /\ volume /\ ~keytab

Next ==
  \/ WizardNext /\ UNCHANGED sessionVars
  \/ SettledDown /\ SessionNext(setup_wizard_required) /\ UNCHANGED wizardVars
  \/ Restart

Spec == Init /\ [][Next]_vars

=============================================================================
