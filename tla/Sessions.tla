------------------------------ MODULE Sessions ------------------------------
(***************************************************************************)
(* Who is signed in to the WebUI: the session map of AuthManager and its   *)
(* sidecar file (auth.rs), the login handlers and cookies (web/auth.rs),   *)
(* the admin check of LdapClient (ldap.rs) and the password change         *)
(* (settings/mod.rs).                                                      *)
(*                                                                         *)
(* There are two accounts: "localhost", with the password sidecar, and     *)
(* "admin", whose password and group membership are the directory's.  A    *)
(* token is a number, given out once.  A handler is cut where it awaits    *)
(* the directory, and between reading the password file and using the      *)
(* answer, since the handlers of two browsers run on different threads.    *)
(***************************************************************************)
EXTENDS Naturals, Sequences, Functions

CONSTANTS
  Browsers,
  MaxTokens,      \* bound: sessions created
  MaxTime, Ttl,   \* bound: clock ticks; a session's life in ticks
  MaxPasswords,   \* bound: passwords that the sidecar ever holds
  SessionFaults   \* save, password, ldap: what may fail

ASSUME SessionAssumption ==
  /\ MaxTokens \in Nat /\ MaxTime \in Nat /\ Ttl \in Nat \ {0} /\ MaxPasswords \in Nat
  /\ SessionFaults \subseteq {"save", "password", "ldap"}

VARIABLES
  now,
  sessions,    \* AuthManager.sessions: token |-> user and expiry
  sidecar,     \* webui-sessions, as a set that is empty when it cannot be read
  issued,      \* tokens given out
  password,    \* webui-password: 0 for no file, else the number of the password
  jar,         \* the session cookies of a browser, oldest first
  req,         \* the request a browser waits for
  recent,      \* last_verified_memberofs: the admin's groups, as {} or {is admin}
  member,      \* the directory has the admin in the admin group
  saved        \* history: the last save of the sidecar succeeded

sessionVars == <<now, sessions, sidecar, issued, password, jar, req, recent, member, saved>>

\* `groups` is what the lookup of a login said; `was` is history: the admin was in
\* the group at some time since this change of the password began.
NoReq == [at |-> "idle", groups |-> FALSE, was |-> FALSE]

Restricted(f, keep) == [t \in keep |-> f[t]]

SessionInit ==
  /\ now = 0 /\ issued = 0 /\ password = 0
  /\ sessions = <<>> /\ sidecar = {<<>>}
  /\ jar = [b \in Browsers |-> <<>>]
  /\ req = [b \in Browsers |-> NoReq]
  /\ recent = {} /\ member = TRUE /\ saved = TRUE

-----------------------------------------------------------------------------
(***************************************************************************)
(* AuthManager.  Every operation holds the write lock, its save included.  *)
(***************************************************************************)

persist_sessions(map) ==
  \/ sidecar' = {map} /\ saved' = TRUE
  \/ "save" \in SessionFaults /\ UNCHANGED sidecar /\ saved' = FALSE

Unexpired(map) == {t \in DOMAIN map : map[t].expires > now}

load_sessions(files) ==
  IF files = {} THEN <<>>
  ELSE LET map == CHOOSE f \in files : TRUE IN Restricted(map, Unexpired(map))

\* The cookies are dropped from the map but not from the sidecar.
logout_NoSave(tokens) ==
  /\ sessions' = Restricted(sessions, DOMAIN sessions \ tokens)
  /\ UNCHANGED <<sidecar, saved>>

logout(tokens) ==
  /\ sessions' = Restricted(sessions, DOMAIN sessions \ tokens)
  /\ IF tokens \cap DOMAIN sessions = {}
     THEN UNCHANGED <<sidecar, saved>> ELSE persist_sessions(sessions')

\* logout of the old cookies, then create_privileged_session, which also drops the
\* expired.  A failed save of the first leaves no trace when the second succeeds.
create_privileged_session(user, old) ==
  LET token == issued + 1
      rest == Restricted(sessions, Unexpired(sessions) \ old)
  IN  /\ issued < MaxTokens
      /\ issued' = token
      /\ sessions' = [t \in DOMAIN rest \cup {token} |->
                        IF t = token THEN [user |-> user, expires |-> now + Ttl] ELSE rest[t]]
      /\ \/ persist_sessions(sessions')
         \/ /\ "save" \in SessionFaults /\ old \cap DOMAIN sessions # {}
            /\ sidecar' = {Restricted(sessions, DOMAIN sessions \ old)}
            /\ saved' = FALSE

invalidate_sessions_for_user_except(user, keep) ==
  LET dropped == {t \in DOMAIN sessions : sessions[t].user = user} \ keep
  IN  /\ sessions' = Restricted(sessions, DOMAIN sessions \ dropped)
      /\ IF dropped = {} THEN UNCHANGED <<sidecar, saved>> ELSE persist_sessions(sessions')

has_simple_password == password # 0

-----------------------------------------------------------------------------
(***************************************************************************)
(* Cookies.                                                                *)
(***************************************************************************)

Cookies(b) == Range(jar[b])

\* validate_session_in_headers: the newest cookie that is valid.
current_session_token(b) ==
  LET valid == Cookies(b) \cap Unexpired(sessions)
  IN  IF valid = {} THEN {}
      ELSE {jar[b][CHOOSE i \in DOMAIN jar[b] :
                     jar[b][i] \in valid /\ \A k \in DOMAIN jar[b] : jar[b][k] \in valid => k <= i]}

\* A cookie set over the other scheme stays beside the new one.
insert_session_cookie(b, token) ==
  jar' \in {[jar EXCEPT ![b] = <<token>>],
            [jar EXCEPT ![b] = IF @ = <<>> THEN <<token>> ELSE <<@[Len(@)], token>>]}

Idle(b) == req[b].at = "idle"

Waits(b, at) == [req EXCEPT ![b] = [NoReq EXCEPT !.at = at]]

Answered(b) == req' = [req EXCEPT ![b] = NoReq]

Goes(b, at) == req' = [req EXCEPT ![b].at = at]

directoryVars == <<recent, member>>

\* validate drops the expired cookies that it tries, newest first, up to a valid one.
require_auth(b) ==
  LET tried == {t \in Cookies(b) :
                  \A i, k \in DOMAIN jar[b] :
                    jar[b][k] = t /\ {jar[b][i]} = current_session_token(b) => k >= i}
      stale == (tried \cap DOMAIN sessions) \ Unexpired(sessions)
  IN  /\ Idle(b) /\ stale # {}
      /\ logout(stale)
      /\ UNCHANGED <<now, issued, password, jar, req, directoryVars>>

-----------------------------------------------------------------------------
(***************************************************************************)
(* Signing in and out.                                                     *)
(***************************************************************************)

SignedIn(b, user) ==
  /\ create_privileged_session(user, Cookies(b))
  /\ insert_session_cookie(b, issued')
  /\ Answered(b)
  /\ UNCHANGED <<now, password, directoryVars>>

Refused(b) ==
  /\ Answered(b)
  /\ UNCHANGED <<now, sessions, sidecar, issued, password, jar, directoryVars, saved>>

Moves(b, at) ==
  /\ Goes(b, at)
  /\ UNCHANGED <<now, sessions, sidecar, issued, password, jar, directoryVars, saved>>

\* POST /login: localhost is compared with the sidecar, anybody else is looked up.
login(b) ==
  /\ Idle(b)
  /\ req' \in {Waits(b, "lookup")} \cup (IF has_simple_password THEN {Waits(b, "matched")} ELSE {})
  /\ UNCHANGED <<now, sessions, sidecar, issued, password, jar, directoryVars, saved>>

\* POST /setup-password, behind the wizard; two of them may pass the check.
setup_password(b, wizard_required) ==
  /\ Idle(b) /\ ~wizard_required /\ ~has_simple_password
  /\ req' = Waits(b, "first")
  /\ UNCHANGED <<now, sessions, sidecar, issued, password, jar, directoryVars, saved>>

\* set_simple_password replaces the file, or fails and leaves it.
FirstPassword(b) ==
  /\ req[b].at = "first"
  /\ \/ /\ password < MaxPasswords /\ password' = password + 1
        /\ create_privileged_session("localhost", Cookies(b))
        /\ insert_session_cookie(b, issued')
        /\ Answered(b)
        /\ UNCHANGED <<now, directoryVars>>
     \/ "password" \in SessionFaults /\ Refused(b)

LocalhostSignsIn(b) == req[b].at = "matched" /\ SignedIn(b, "localhost")

\* lookup_user_dn_and_memberof.
LookUp(b) ==
  /\ req[b].at = "lookup"
  /\ \/ /\ req' = [req EXCEPT ![b].at = "bind", ![b].groups = member]
        /\ UNCHANGED <<now, sessions, sidecar, issued, password, jar, directoryVars, saved>>
     \/ "ldap" \in SessionFaults /\ Refused(b)

\* try_simple_bind with the given password; a bind that fails, for whatever reason,
\* refuses.  The groups of the lookup are recorded, over what a login that
\* overlapped this one has recorded.
verify_user_credentials(b) ==
  /\ req[b].at = "bind"
  /\ \/ /\ recent' = {req[b].groups}
        /\ req' = Waits(b, "member")
        /\ UNCHANGED <<now, sessions, sidecar, issued, password, jar, member, saved>>
     \/ Refused(b)

has_recent_memberof == recent = {TRUE}

\* user_is_member_of: the group's DN, then the record, then the directory.
user_is_member_of(b) ==
  /\ req[b].at = "member"
  /\ \/ (has_recent_memberof \/ member) /\ SignedIn(b, "admin")
     \/ ~has_recent_memberof /\ ~member /\ Refused(b)
     \/ "ldap" \in SessionFaults /\ Refused(b)

\* GET or POST /logout.
Logout(b) ==
  /\ Idle(b) /\ jar[b] # <<>>
  /\ logout(Cookies(b))
  /\ jar' = [jar EXCEPT ![b] = <<>>]
  /\ UNCHANGED <<now, issued, password, req, directoryVars>>

-----------------------------------------------------------------------------
(***************************************************************************)
(* POST /settings/change-password.                                         *)
(***************************************************************************)

User(b) == {sessions[t].user : t \in current_session_token(b)}

\* require_auth; localhost must give the current password, the admin is checked in
\* the directory.
settings_change_password(b) ==
  /\ Idle(b)
  /\ \/ User(b) = {"localhost"} /\ has_simple_password /\ req' = Waits(b, "rotate")
     \/ User(b) = {"admin"} /\ req' = [req EXCEPT ![b] = [NoReq EXCEPT !.at = "live", !.was = member]]
  /\ UNCHANGED <<now, sessions, sidecar, issued, password, jar, directoryVars, saved>>

\* The record of the last login is taken for an answer.
verify_admin_group_membership_live_Recent(b) ==
  /\ req[b].at = "live"
  /\ \/ (has_recent_memberof \/ member) /\ Moves(b, "rotate_live")
     \/ ~member /\ Refused(b)
     \/ "ldap" \in SessionFaults /\ Refused(b)

\* The last of three fresh queries; each of them may fail.
verify_admin_group_membership_live(b) ==
  /\ req[b].at = "live"
  /\ \/ member /\ Moves(b, "rotate_live")
     \/ ~member /\ Refused(b)
     \/ "ldap" \in SessionFaults /\ Refused(b)

Rotating == {"rotate", "rotate_live"}

\* A new password that is confirmed and long enough replaces the file and signs the
\* other localhost sessions out.
Rotate(b) ==
  /\ req[b].at \in Rotating
  /\ \/ /\ password < MaxPasswords /\ password' = password + 1
        /\ invalidate_sessions_for_user_except("localhost", current_session_token(b))
        /\ Answered(b)
        /\ UNCHANGED <<now, issued, jar, directoryVars>>
     \/ "password" \in SessionFaults /\ Refused(b)

-----------------------------------------------------------------------------
(***************************************************************************)
(* The surroundings.                                                       *)
(***************************************************************************)

SessionTick ==
  /\ now < MaxTime /\ now' = now + 1
  /\ UNCHANGED <<sessions, sidecar, issued, password, jar, req, directoryVars, saved>>

\* clear_cache and evict_expired drop the record; reload_nfs_client replaces the
\* client that holds it.
CacheForgets ==
  /\ recent # {} /\ recent' = {}
  /\ UNCHANGED <<now, sessions, sidecar, issued, password, jar, req, member, saved>>

\* The directory's administrators change the group.
GroupChanges ==
  /\ member' = ~member
  /\ req' = [b \in Browsers |->
               IF req[b].at \in {"live", "rotate_live"}
               THEN [req[b] EXCEPT !.was = @ \/ member'] ELSE req[b]]
  /\ UNCHANGED <<now, sessions, sidecar, issued, password, jar, recent, saved>>

\* The WebUI process starts anew and reads the sidecar.
SessionsRestart ==
  /\ sessions' = load_sessions(sidecar)
  /\ req' = [b \in Browsers |-> NoReq]
  /\ recent' = {}
  /\ UNCHANGED <<now, sidecar, issued, password, jar, member, saved>>

\* The sidecar is damaged from outside.
Damage ==
  /\ "save" \in SessionFaults /\ sidecar # {}
  /\ sidecar' = {} /\ saved' = FALSE
  /\ UNCHANGED <<now, sessions, issued, password, jar, req, directoryVars>>

SessionNext(wizard_required) ==
  \/ \E b \in Browsers : \/ login(b) \/ setup_password(b, wizard_required) \/ FirstPassword(b)
                         \/ LocalhostSignsIn(b) \/ LookUp(b) \/ verify_user_credentials(b)
                         \/ user_is_member_of(b) \/ Logout(b) \/ require_auth(b)
                         \/ settings_change_password(b)
                         \/ verify_admin_group_membership_live(b) \/ Rotate(b)
  \/ SessionTick \/ CacheForgets \/ GroupChanges \/ Damage

-----------------------------------------------------------------------------
(***************************************************************************)
(* Properties.                                                             *)
(***************************************************************************)

\* A restart signs nobody out and nobody in: as long as the last save of the
\* sidecar succeeded, the sessions that are valid before the process is replaced
\* are those valid after it, whichever logins, logouts, expiries and password
\* changes came before ("a service recycle never logs users out").
RestartKeepsSessions ==
  [][SessionsRestart /\ saved => Unexpired(sessions)' = Unexpired(sessions)]_sessionVars

\* "A stale 12h session or revoked membership cannot rotate the account": a session
\* of the directory's admin changes the localhost password only if the admin was in
\* the group at some time during that request, whatever the cache of the last login
\* says.
RevokedCannotRotate ==
  [][\A b \in Browsers :
       req[b].at = "rotate_live" /\ password' # password /\ req'[b] = NoReq => req[b].was]_sessionVars

=============================================================================
