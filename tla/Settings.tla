------------------------------ MODULE Settings ------------------------------
(***************************************************************************)
(* The editor of nfs-klldap.conf in the WebUI: the page rendered from the  *)
(* file, the edits an administrator makes in it, and the three handlers    *)
(* that save (settings_save_raw, settings_save_structured and              *)
(* settings_save_shares), which read the file, compute and write without a *)
(* lock, with validate_and_derive as their gate.                           *)
(*                                                                         *)
(* One field stands for each FieldKind of spec.rs.  A share is known by    *)
(* its container path; a pseudo path is named by the share name it is      *)
(* derived from, or "custom".  `raw` stands for the keys without a control *)
(* (source_path, attr_expiration_secs), and `opts` for the keys that are   *)
(* only checked against their range.  The ACL gate of a shares save is in  *)
(* AclShares, the recycle it schedules in RecycleLatch.                    *)
(***************************************************************************)
EXTENDS Naturals, Sequences, FiniteSets

CONSTANTS
  Admins,
  Names,      \* share names
  Paths,      \* container paths
  Files,      \* contents an editor may save as raw TOML; the first file is one
  Forms,      \* what the scalar panes may be set to
  Envs,       \* NFS_KLLDAP_* overrides a container may be started with
  Deletable,  \* which rows an administrator deletes: "last", "any"
  MaxEdits,   \* bound: edits between two saves
  MaxSaves    \* bound: saves

VARIABLES
  file,    \* nfs-klldap.conf
  env,     \* the overrides of this container
  page,    \* the open settings page of each administrator
  flight,  \* the save each administrator has in flight
  last,    \* history: the handler that wrote the file
  saves

settingsVars == <<file, env, page, flight, last, saves>>

\* The keys of a file and of one of its shares; "unset" is the value of a key that
\* is not there.
ConfigKeys ==
  {"uri", "realm", "base", "sec", "pw", "timeout", "nav", "tls", "probe", "tuning", "shares"}
ShareKeys == {"name", "path", "pseudo", "squash", "raw", "nav", "opts"}

IsShare(s) == DOMAIN s = ShareKeys /\ s.nav \in BOOLEAN /\ s.path # "new"
IsConfig(f) ==
  /\ DOMAIN f = ConfigKeys /\ f.nav \in BOOLEAN
  /\ Len(f.shares) \in Nat /\ DOMAIN f.shares = 1 .. Len(f.shares)
  /\ \A i \in DOMAIN f.shares : IsShare(f.shares[i])

ASSUME SettingsAssumption ==
  /\ \A f \in Files : IsConfig(f)
  /\ \A form \in Forms : form.nav \in BOOLEAN /\ form.sec.v # "unset"
  /\ "new" \notin Paths
  /\ Admins # {} /\ Deletable \subseteq {"last", "any"}
  /\ MaxEdits \in Nat /\ MaxSaves \in Nat
  /\ \A e \in Envs : e \subseteq {"uri", "realm", "pw", "sec"}

\* A form names the realm it sets to Custom, and sets it if the URI has no domain:
\* otherwise the two sides of apply_structured_form disagree, and the handler
\* validates a configuration that is not the one it writes.
ASSUME RealmAssumption ==
  \A form \in Forms :
    IF form.realm.custom THEN form.realm.v # "blank" ELSE form.uri = "dns"

-----------------------------------------------------------------------------
(* Loading: parse_str, then validate_and_derive *)

apply_core_env_overrides(c) ==
  [c EXCEPT !.uri   = IF "uri" \in env THEN "dns" ELSE @,
            !.realm = IF "realm" \in env THEN "REALM" ELSE @,
            !.pw    = IF "pw" \in env THEN "secret" ELSE @,
            !.sec   = IF "sec" \in env THEN "krb5p" ELSE @]

derive_share_pseudo(s) == IF s.pseudo \in {"unset", "blank"} THEN s.name ELSE s.pseudo

\* A realm follows from a host name with a domain; an address or a bare name has none.
derive_realm_from_uri(uri) == IF uri = "dns" THEN "REALM" ELSE "unset"

DerivedScalars(c) ==
  [c EXCEPT !.realm = IF @ = "unset" THEN derive_realm_from_uri(c.uri) ELSE @,
            !.base  = IF @ \in {"unset", "blank"} THEN "derived" ELSE @,
            !.sec   = IF @ \in {"unset", "blank"} THEN "krb5p" ELSE @]

derive(c) ==
  [DerivedScalars(apply_core_env_overrides(c)) EXCEPT
     !.shares = [i \in DOMAIN @ |-> [@[i] EXCEPT !.pseudo = derive_share_pseudo(c.shares[i])]]]

\* The [ganesha] tuning keys are in Ganesha's ranges.
validate_ganesha_tuning(c) == c.tuning = "ok"

ValidScalars(c) ==
  /\ c.uri \notin {"blank", "ip"}
  /\ c.timeout # "short"
  /\ c.realm = "REALM"
  /\ c.sec \in {"krb5p", "sys"}
  /\ c.pw # "blank"

ValidShare(s) == s.name # "blank" /\ s.opts = "ok"
UnderRoot(s) == s.path # "outside"

Distinct(shares, Key(_)) ==
  \A i, j \in DOMAIN shares : Key(shares[i]) = Key(shares[j]) => i = j

ValidShares(shares) ==
  /\ \A i \in DOMAIN shares : ValidShare(shares[i]) /\ UnderRoot(shares[i])
  /\ Distinct(shares, LAMBDA s : s.name)
  /\ Distinct(shares, LAMBDA s : s.path)
  /\ Distinct(shares, derive_share_pseudo)

validate_and_derive(c) ==
  LET d == derive(c)
  IN ValidScalars(d) /\ ValidShares(d.shares) /\ validate_ganesha_tuning(d)

DefaultConfig ==
  [uri |-> "blank", realm |-> "unset", base |-> "unset", sec |-> "unset", pw |-> "blank",
   timeout |-> "unset", nav |-> FALSE, tls |-> "unset", probe |-> "unset", tuning |-> "ok", shares |-> <<>>]

\* load(..).unwrap_or_default().
load(f) == IF validate_and_derive(f) THEN derive(f) ELSE DefaultConfig

-----------------------------------------------------------------------------
(* The page *)

\* Slip: Custom is shown for a key that only has an effective value.
has_explicit_Effective(f, key) == load(f)[key] # "unset"

has_explicit(f, key) == f[key] # "unset"

\* An explicit key of the file puts an Auto/Custom pair on Custom.
ScalarForm(f) ==
  LET c == load(f)
  IN [uri |-> c.uri, pw |-> "blank", timeout |-> c.timeout, nav |-> c.nav,
      realm |-> [custom |-> has_explicit(f, "realm"), v |-> c.realm],
      base  |-> [custom |-> has_explicit(f, "base"), v |-> c.base],
      sec   |-> [custom |-> f.sec \notin {"unset", "krb5p"}, v |-> c.sec],
      tls   |-> [custom |-> has_explicit(f, "tls"), v |-> c.tls = "on"],
      probe |-> [auto |-> ~has_explicit(f, "probe"), v |-> c.probe]]

\* A row; `of` remembers the share it was rendered from.
ShareRow(f, c, i) ==
  LET s == c.shares[i]
  IN [name |-> s.name, path |-> s.path, of |-> s.path,
      pseudo |-> IF f.shares[i].pseudo \notin {"unset", "blank"} THEN f.shares[i].pseudo
                 ELSE s.name,
      squash |-> s.squash = "root",
      nav |-> s.nav]

build_settings_template(f) ==
  LET c == load(f)
  IN [base |-> f, edits |-> 0, scalars |-> ScalarForm(f),
      rows |-> [i \in DOMAIN c.shares |-> ShareRow(f, c, i)]]

\* The card of "+ Add share".
BlankRow(name, path) ==
  [name |-> name, path |-> path, of |-> "new", pseudo |-> name, squash |-> TRUE, nav |-> FALSE]

NoPage == [base |-> "none"]

-----------------------------------------------------------------------------
(* The structured form: applied to the validated configuration and, by the *)
(* same rows of FIELDS, to the document that is saved.                     *)

\* [probe]: the auto box and a blank field both remove it.
ProbeValue(form) ==
  IF form.probe.auto \/ form.probe.v \in {"blank", "unset"} THEN "unset" ELSE form.probe.v

\* Slip: a blank password is written like any text.
DocPassword_Verbatim(v, old) == v

\* A blank password keeps the stored one.
DocPassword(v, old) == IF v = "blank" THEN old ELSE v

apply_structured_form_to_toml_doc(form, doc) ==
  [doc EXCEPT
     !.uri     = form.uri,                                          \* Text
     !.pw      = DocPassword(form.pw, @),                           \* Password
     !.timeout = IF form.timeout = "junk" THEN @ ELSE form.timeout, \* U16OrClear
     !.nav     = form.nav,                                          \* BoolAlways
     !.realm   = IF form.realm.custom THEN form.realm.v ELSE "unset",
     !.base    = IF form.base.custom /\ form.base.v # "blank" THEN form.base.v ELSE "unset",
     !.sec     = IF form.sec.custom /\ form.sec.v # "blank" THEN form.sec.v ELSE "krb5p",
     !.tls     = IF form.tls.custom THEN IF form.tls.v THEN "on" ELSE "off" ELSE "unset",
     !.probe   = ProbeValue(form)]

\* The configuration side: Auto leaves what was loaded, a blank Custom is None.
apply_structured_form_to_config(form, c) ==
  [c EXCEPT
     !.uri     = form.uri,
     !.pw      = IF form.pw = "blank" THEN @ ELSE form.pw,
     !.timeout = IF form.timeout = "junk" THEN @ ELSE form.timeout,
     !.nav     = form.nav,
     !.realm   = IF form.realm.custom THEN IF form.realm.v = "blank" THEN "unset" ELSE form.realm.v
                 ELSE @,
     !.base    = IF form.base.custom THEN IF form.base.v = "blank" THEN "unset" ELSE form.base.v
                 ELSE @,
     !.sec     = IF form.sec.custom /\ form.sec.v # "blank" THEN form.sec.v ELSE "krb5p",
     !.tls     = IF form.tls.custom THEN IF form.tls.v THEN "on" ELSE "off" ELSE @,
     !.probe   = ProbeValue(form)]

-----------------------------------------------------------------------------
(* The shares form *)

\* The box is explicit both ways; a muted Navahi box is not submitted, and a
\* pseudo path equal to the derived one counts as unset.
collect_shares_from_structured_form(rows, navGlobal) ==
  [i \in DOMAIN rows |->
     [name |-> rows[i].name, path |-> rows[i].path,
      pseudo |-> IF rows[i].pseudo = rows[i].name THEN "unset" ELSE rows[i].pseudo,
      squash |-> IF rows[i].squash THEN "root" ELSE "none",
      raw |-> "unset", nav |-> navGlobal /\ rows[i].nav, opts |-> "ok"]]

\* Slip: the old share is looked up by name alone.
OldShare_ByName(shares, i, s) == {j \in DOMAIN shares : shares[j].name = s.name}

\* The old share of a row: by index first, then by name.
OldShare(shares, i, s) ==
  IF i \in DOMAIN shares THEN {i} ELSE {j \in DOMAIN shares : shares[j].name = s.name}

MergedPseudo(doc, i, s, old) ==
  IF s.pseudo = "unset" /\ i \in DOMAIN doc.shares /\ doc.shares[i].pseudo # "unset"
  THEN old.pseudo ELSE s.pseudo

\* Keys that live in raw TOML only are carried over from the old share.
Merged(doc, cfg, i, s) ==
  LET hit == OldShare(cfg.shares, i, s)
  IN IF hit = {} THEN s
     ELSE LET old == cfg.shares[CHOOSE j \in hit : \A k \in hit : j <= k]
          IN [s EXCEPT !.pseudo = MergedPseudo(doc, i, s, old),
                       !.raw = old.raw,
                       !.nav = @ \/ (~cfg.nav /\ old.nav)]

\* doc is the text that was read first, cfg the configuration loaded after it.
NewShares(doc, cfg, rows, navGlobal) ==
  LET new == collect_shares_from_structured_form(rows, navGlobal)
  IN [i \in DOMAIN new |-> Merged(doc, cfg, i, new[i])]

\* The shares that are written are those of the validated configuration.
apply_shares_to_toml_doc(doc, cfg) == [doc EXCEPT !.shares = derive(cfg).shares]

SavedShares(doc, cfg, rows, navGlobal) ==
  [cfg EXCEPT !.shares = NewShares(doc, cfg, rows, navGlobal)]

-----------------------------------------------------------------------------
NoSave == [does |-> "none"]

SettingsInit ==
  /\ env \in Envs
  /\ file \in {f \in Files : validate_and_derive(f)}
  /\ page = [a \in Admins |-> NoPage] /\ flight = [a \in Admins |-> NoSave]
  /\ last = "raw" /\ saves = 0

settings_page(a) ==
  /\ flight[a] = NoSave
  /\ page' = [page EXCEPT ![a] = build_settings_template(file)]
  /\ UNCHANGED <<file, env, flight, last, saves>>

Edited(a, rows) == page' = [page EXCEPT ![a].rows = rows, ![a].edits = @ + 1]

Without(rows, i) == [j \in 1 .. Len(rows) - 1 |-> rows[IF j < i THEN j ELSE j + 1]]

\* Edits in the browser: delete a card, rename a share, tick a box, type a
\* pseudo path, add a card.
Edit(a) ==
  /\ flight[a] = NoSave /\ page[a] # NoPage /\ page[a].edits < MaxEdits
  /\ LET rows == page[a].rows
     IN \/ \E i \in DOMAIN rows :
             /\ "any" \in Deletable \/ ("last" \in Deletable /\ i = Len(rows))
             /\ Edited(a, Without(rows, i))
        \/ \E i \in DOMAIN rows, n \in Names :
             rows[i].name # n /\ Edited(a, [rows EXCEPT ![i].name = n])
        \/ \E i \in DOMAIN rows : Edited(a, [rows EXCEPT ![i].squash = ~@])
        \/ \E i \in DOMAIN rows : Edited(a, [rows EXCEPT ![i].nav = ~@])
        \/ \E i \in DOMAIN rows : Edited(a, [rows EXCEPT ![i].pseudo = "custom"])
        \/ \E n \in Names, p \in Paths : Edited(a, Append(rows, BlankRow(n, p)))
  /\ UNCHANGED <<file, env, flight, last, saves>>

Started(a, save) ==
  /\ flight[a] = NoSave /\ saves < MaxSaves
  /\ saves' = saves + 1
  /\ flight' = [flight EXCEPT ![a] = save]
  /\ UNCHANGED <<file, env, page, last>>

\* The handler of an accepted or refused save answers with a fresh page.
Answered(a, f) ==
  /\ flight' = [flight EXCEPT ![a] = NoSave]
  /\ page' = [page EXCEPT ![a] = build_settings_template(f)]

Written(a, f, kind) == file' = f /\ last' = kind /\ Answered(a, f) /\ UNCHANGED <<env, saves>>
Refused(a) == Answered(a, file) /\ UNCHANGED <<file, env, last, saves>>

\* settings_save_raw: the text is validated in a file of its own, then saved.
settings_save_raw(a) ==
  /\ \E f \in Files : Started(a, [does |-> "raw", doc |-> f])
WriteRaw(a) ==
  /\ flight[a].does = "raw"
  /\ IF validate_and_derive(flight[a].doc) THEN Written(a, flight[a].doc, "raw") ELSE Refused(a)

\* settings_save_structured: the text read, then validated and saved.
settings_save_structured(a) ==
  /\ page[a] # NoPage
  /\ \E form \in Forms \union {page[a].scalars} :
       Started(a, [does |-> "structured", doc |-> file, form |-> form])
WriteStructured(a) ==
  /\ flight[a].does = "structured"
  /\ LET doc == flight[a].doc
         form == flight[a].form
     IN IF validate_and_derive(apply_structured_form_to_config(form, load(doc)))
        THEN Written(a, apply_structured_form_to_toml_doc(form, doc), "structured")
        ELSE Refused(a)

\* settings_save_shares: the text, then the configuration, read apart; then the
\* ACL gate, which may refuse, the validation and the write.
settings_save_shares(a) ==
  /\ page[a] # NoPage
  /\ Started(a, [does |-> "text", doc |-> file])
LoadOld(a) ==
  /\ flight[a].does = "text"
  /\ flight' = [flight EXCEPT ![a] = [does |-> "shares", doc |-> @.doc, cfg |-> load(file)]]
  /\ UNCHANGED <<file, env, page, last, saves>>
WriteShares(a) ==
  /\ flight[a].does = "shares"
  /\ LET cfg == SavedShares(flight[a].doc, flight[a].cfg, page[a].rows, page[a].base.nav)
     IN \/ /\ validate_and_derive(cfg)
           /\ Written(a, apply_shares_to_toml_doc(flight[a].doc, cfg), "shares")
        \/ Refused(a)

Step(a) ==
  \/ settings_page(a) \/ Edit(a)
  \/ settings_save_raw(a) \/ WriteRaw(a)
  \/ settings_save_structured(a) \/ WriteStructured(a)
  \/ settings_save_shares(a) \/ LoadOld(a) \/ WriteShares(a)

SettingsNext == \E a \in Admins : Step(a)

SettingsSpec == SettingsInit /\ [][SettingsNext]_settingsVars

-----------------------------------------------------------------------------
(* Properties *)

(***************************************************************************)
(* The file in place always loads: whatever the saves interleave with, no  *)
(* handler leaves a file that the next start, recycle or page would        *)
(* refuse, although the handlers validate one configuration and write      *)
(* another document (settings/mod.rs:523-535, :630-636).  It needs         *)
(* RealmAssumption.                                                        *)
(***************************************************************************)
SavedFileLoads == validate_and_derive(file)

(***************************************************************************)
(* What a pane has saved it reads back: opening the page after a save and  *)
(* saving the same pane again without an edit leaves the file as it is.    *)
(* The page shows derived values, strips them on the way in and merges the *)
(* old ones back (settings/mod.rs:299-306, :560-598); this is the sense in *)
(* which the three agree.                                                  *)
(***************************************************************************)
ResavingIsNeutral ==
  LET p == build_settings_template(file)
  IN /\ last = "shares" =>
          apply_shares_to_toml_doc(file, SavedShares(file, load(file), p.rows, file.nav)) = file
     /\ last = "structured" => apply_structured_form_to_toml_doc(p.scalars, file) = file

Fresh(a) == page[a].base = file /\ flight[a].doc = file /\ flight[a].cfg = load(file)

(***************************************************************************)
(* "Raw-TOML-only fields survive a structured save" (settings/mod.rs:573): *)
(* a shares save whose page and whose two reads were of the file it        *)
(* replaces leaves the raw keys of every share it still lists, and its     *)
(* muted Navahi flag, as they were.                                        *)
(***************************************************************************)
RowsKeepSettings ==
  [][\A a \in Admins :
       flight[a].does = "shares" /\ file' # file /\ flight'[a] = NoSave /\ Fresh(a) =>
         \A i \in DOMAIN file.shares, j \in DOMAIN page[a].rows :
           page[a].rows[j].of = file.shares[i].path =>
             /\ file'.shares[j].raw = file.shares[i].raw
             /\ ~file.nav => file'.shares[j].nav = file.shares[i].nav]_settingsVars

=============================================================================
