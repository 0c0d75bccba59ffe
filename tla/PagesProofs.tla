---------------------------- MODULE PagesProofs -----------------------------
(***************************************************************************)
(* Theorems about two pages of the WebUI: the settings page (Settings),    *)
(* for any number of administrators, any files and any forms; and the      *)
(* lists of the directory that the pickers of the other pages are served   *)
(* from (DirectoryLists), for any number of browsers, lists, servers and   *)
(* clients, and for any lifetimes.                                         *)
(***************************************************************************)
EXTENDS Settings, DirectoryLists, SequenceTheorems, TLAPS

-----------------------------------------------------------------------------
(***************************************************************************)
(* The settings page.                                                      *)
(***************************************************************************)

PageKeys == {"base", "edits", "scalars", "rows"}
RowKeys == {"name", "path", "of", "pseudo", "squash", "nav"}

IsSeq(s) == Len(s) \in Nat /\ DOMAIN s = 1 .. Len(s)
IsForm(form) == form.nav \in BOOLEAN /\ form.sec.v # "unset"
IsRows(rows) ==
  /\ IsSeq(rows) /\ rows = [j \in DOMAIN rows |-> rows[j]]
  /\ \A j \in DOMAIN rows : DOMAIN rows[j] = RowKeys /\ rows[j].path # "new"
IsPage(p) == DOMAIN p = PageKeys /\ IsConfig(p.base) /\ IsForm(p.scalars) /\ IsRows(p.rows)

\* The realm of a form is written, derived, or set by an override.
HasRealm(form, e) ==
  IF form.realm.custom THEN form.realm.v # "blank" ELSE form.uri = "dns" \/ "realm" \in e

\* What a file needs to load, with the overrides e.
HasRealmIn(f, e) ==
  \/ "realm" \in e
  \/ f.realm = "REALM"
  \/ f.realm = "unset" /\ ("uri" \in e \/ f.uri = "dns")
Loads(f, e) ==
  /\ "uri" \in e \/ f.uri \notin {"blank", "ip"}
  /\ f.timeout # "short"
  /\ HasRealmIn(f, e)
  /\ "sec" \in e \/ f.sec \in {"unset", "blank", "krb5p", "sys"}
  /\ "pw" \in e \/ f.pw # "blank"
  /\ ValidShares(f.shares) /\ f.tuning = "ok"

\* A row that remembers a share is at its position.
InPlace(rows, base) ==
  \A j \in DOMAIN rows :
    rows[j].of # "new" => j \in DOMAIN base.shares /\ rows[j].of = base.shares[j].path

\* What a shares save and a structured save leave in the file.
SavedShare(s) ==
  /\ s = [k \in ShareKeys |-> s[k]]
  /\ s.squash \in {"root", "none"} /\ s.opts = "ok"
  /\ s.pseudo \in {"unset", "blank"} => s.pseudo = s.name
SavedPane(f) ==
  /\ f.base # "blank" /\ f.sec \notin {"unset", "blank"} /\ f.probe # "blank"
  /\ f.tls \in {"on", "off", "unset"}

(***************************************************************************)
(* The inductive invariant.  A save in flight goes back to files that      *)
(* loaded when they were read, and they still do, since the overrides do   *)
(* not change; a page shows a realm it can save again, because the file it *)
(* was rendered from had one; and a row that was rendered from a share is  *)
(* at the position of that share, as long as only last rows are deleted.   *)
(***************************************************************************)
PageInv(p, e) ==
  /\ IsPage(p) /\ HasRealm(p.scalars, e)
  /\ Deletable \subseteq {"last"} => InPlace(p.rows, p.base)

FlightInv(s, p, e) ==
  /\ s.does \in {"raw", "structured", "text", "shares"} => IsConfig(s.doc)
  /\ s.does \in {"structured", "text", "shares"} => Loads(s.doc, e)
  /\ s.does = "structured" => IsForm(s.form) /\ HasRealm(s.form, e)
  /\ s.does \in {"text", "shares"} => p # NoPage
  /\ s.does = "shares" => IsConfig(s.cfg)

LastInv(f, how) ==
  /\ f = [k \in ConfigKeys |-> f[k]] \/ how = "raw"
  /\ how = "shares" => /\ f.shares = [i \in DOMAIN f.shares |-> f.shares[i]]
                       /\ \A i \in DOMAIN f.shares : SavedShare(f.shares[i])
  /\ how = "structured" => SavedPane(f)

SettingsInv ==
  /\ env \in Envs /\ IsConfig(file) /\ Loads(file, env) /\ LastInv(file, last)
  /\ DOMAIN page = Admins /\ DOMAIN flight = Admins
  /\ \A a \in Admins : page[a] # NoPage => PageInv(page[a], env)
  /\ \A a \in Admins : FlightInv(flight[a], page[a], env)

-----------------------------------------------------------------------------
(* Loading. *)

\* A sequence is known by its domain.
LEMMA SameLength == ASSUME NEW s, NEW t, IsSeq(s), DOMAIN t = DOMAIN s PROVE IsSeq(t)
  BY DEF IsSeq

\* What load computes, key by key.
DerivedFrom(d, c, e) ==
  /\ d.uri = IF "uri" \in e THEN "dns" ELSE c.uri
  /\ d.realm = IF "realm" \in e THEN "REALM"
               ELSE IF c.realm = "unset" THEN derive_realm_from_uri(d.uri) ELSE c.realm
  /\ d.base = IF c.base \in {"unset", "blank"} THEN "derived" ELSE c.base
  /\ d.sec = IF "sec" \in e \/ c.sec \in {"unset", "blank"} THEN "krb5p" ELSE c.sec
  /\ d.pw = IF "pw" \in e THEN "secret" ELSE c.pw
  /\ d.timeout = c.timeout /\ d.nav = c.nav /\ d.tls = c.tls /\ d.probe = c.probe
  /\ d.tuning = c.tuning
  /\ d.shares = [i \in DOMAIN c.shares |->
                   [c.shares[i] EXCEPT !.pseudo = derive_share_pseudo(c.shares[i])]]

\* Loading derives every key, and the result is a configuration.
LEMMA Derived ==
  ASSUME NEW c, IsConfig(c)
  PROVE  IsConfig(derive(c)) /\ DerivedFrom(derive(c), c, env)
  <1> DEFINE core == apply_core_env_overrides(c)
             scal == DerivedScalars(core)
             shares == [i \in DOMAIN scal.shares |->
                          [scal.shares[i] EXCEPT !.pseudo = derive_share_pseudo(c.shares[i])]]
  <1>1. /\ DOMAIN core = ConfigKeys /\ core.shares = c.shares
        /\ core.uri = IF "uri" \in env THEN "dns" ELSE c.uri
        /\ core.realm = IF "realm" \in env THEN "REALM" ELSE c.realm
        /\ core.pw = IF "pw" \in env THEN "secret" ELSE c.pw
        /\ core.sec = IF "sec" \in env THEN "krb5p" ELSE c.sec
        /\ core.base = c.base /\ core.timeout = c.timeout /\ core.nav = c.nav /\ core.tls = c.tls
        /\ core.probe = c.probe /\ core.tuning = c.tuning
    BY DEF apply_core_env_overrides, IsConfig, ConfigKeys
  <1> HIDE DEF core
  <1>2. /\ DOMAIN scal = ConfigKeys /\ scal.shares = core.shares /\ scal.uri = core.uri
        /\ scal.realm = IF core.realm = "unset" THEN derive_realm_from_uri(core.uri) ELSE core.realm
        /\ scal.base = IF core.base \in {"unset", "blank"} THEN "derived" ELSE core.base
        /\ scal.sec = IF core.sec \in {"unset", "blank"} THEN "krb5p" ELSE core.sec
        /\ scal.pw = core.pw /\ scal.timeout = core.timeout /\ scal.nav = core.nav
        /\ scal.tls = core.tls /\ scal.probe = core.probe /\ scal.tuning = core.tuning
    BY <1>1 DEF DerivedScalars, ConfigKeys
  <1> HIDE DEF scal
  <1>3. derive(c) = [scal EXCEPT !.shares = shares]
    BY DEF derive, core, scal
  <1>4. shares = [i \in DOMAIN c.shares |->
                    [c.shares[i] EXCEPT !.pseudo = derive_share_pseudo(c.shares[i])]]
    BY <1>1, <1>2
  <1>5. \A i \in DOMAIN shares : IsShare(shares[i])
    <2> SUFFICES ASSUME NEW i \in DOMAIN c.shares PROVE IsShare(shares[i])
      BY Zenon, <1>4
    <2>1. IsShare(c.shares[i])
      BY DEF IsConfig
    <2>2. shares[i] = [c.shares[i] EXCEPT !.pseudo = derive_share_pseudo(c.shares[i])]
      BY <1>4
    <2> HIDE DEF shares
    <2> QED
      BY <2>1, <2>2 DEF IsShare, ShareKeys
  <1>6. IsSeq(shares)
    BY <1>4, SameLength DEF IsConfig, IsSeq
  <1> HIDE DEF shares
  <1>7. /\ DOMAIN derive(c) = ConfigKeys /\ derive(c).shares = shares
        /\ derive(c).uri = scal.uri /\ derive(c).realm = scal.realm /\ derive(c).base = scal.base
        /\ derive(c).sec = scal.sec /\ derive(c).pw = scal.pw /\ derive(c).timeout = scal.timeout
        /\ derive(c).nav = scal.nav /\ derive(c).tls = scal.tls /\ derive(c).probe = scal.probe
        /\ derive(c).tuning = scal.tuning
    BY <1>2, <1>3 DEF ConfigKeys
  <1>8. IsConfig(derive(c))
    BY <1>1, <1>2, <1>5, <1>6, <1>7 DEF IsConfig, IsSeq
  <1> QED
    BY <1>1, <1>2, <1>4, <1>7, <1>8 DEF DerivedFrom

\* A derived pseudo path is not derived again.
LEMMA PseudoOnce ==
  ASSUME NEW s, IsShare(s), NEW d, d = [s EXCEPT !.pseudo = derive_share_pseudo(s)]
  PROVE  /\ derive_share_pseudo(d) = derive_share_pseudo(s) /\ IsShare(d)
         /\ d.pseudo = derive_share_pseudo(s) /\ d.name = s.name /\ d.path = s.path
         /\ d.opts = s.opts /\ d.squash = s.squash /\ d.raw = s.raw /\ d.nav = s.nav
  BY DEF IsShare, ShareKeys, derive_share_pseudo

\* The shares of a derived configuration are valid exactly when those of the
\* configuration are.
LEMMA SharesDerived ==
  ASSUME NEW c, IsConfig(c)
  PROVE  ValidShares(derive(c).shares) <=> ValidShares(c.shares)
  <1> DEFINE d == derive(c).shares
  <1>1. /\ DOMAIN d = DOMAIN c.shares
        /\ \A i \in DOMAIN c.shares :
             d[i] = [c.shares[i] EXCEPT !.pseudo = derive_share_pseudo(c.shares[i])]
    <2>1. d = [i \in DOMAIN c.shares |->
                [c.shares[i] EXCEPT !.pseudo = derive_share_pseudo(c.shares[i])]]
      BY Zenon, Derived DEF DerivedFrom
    <2> HIDE DEF d
    <2> QED
      BY <2>1
  <1> HIDE DEF d
  <1>2. \A i \in DOMAIN c.shares :
          /\ d[i].name = c.shares[i].name /\ d[i].path = c.shares[i].path
          /\ d[i].opts = c.shares[i].opts
          /\ derive_share_pseudo(d[i]) = derive_share_pseudo(c.shares[i])
    <2> TAKE i \in DOMAIN c.shares
    <2>1. IsShare(c.shares[i])
      BY DEF IsConfig
    <2> QED
      BY ZenonT(40), <1>1, <2>1, PseudoOnce
  <1>3. ValidShares(d) <=> ValidShares(c.shares)
    BY <1>1, <1>2 DEF ValidShares, Distinct, ValidShare, UnderRoot
  <1> QED
    BY <1>3 DEF d

\* What a file must have to load.
LEMMA Valid ==
  ASSUME NEW c, IsConfig(c)
  PROVE  validate_and_derive(c) <=>
           ValidScalars(derive(c)) /\ ValidShares(c.shares) /\ c.tuning = "ok"
  BY Zenon, Derived, SharesDerived DEF validate_and_derive, validate_ganesha_tuning, DerivedFrom

\* Loading asks for no more and no less.
LEMMA LoadsIff ==
  ASSUME NEW c, IsConfig(c)
  PROVE  validate_and_derive(c) <=> Loads(c, env)
  <1> DEFINE d == derive(c)
  <1>1. DerivedFrom(d, c, env)
    BY Derived
  <1>2. validate_and_derive(c) <=> ValidScalars(d) /\ ValidShares(c.shares) /\ c.tuning = "ok"
    BY Valid
  <1> HIDE DEF d
  <1>3. /\ d.uri = IF "uri" \in env THEN "dns" ELSE c.uri
        /\ d.realm = IF "realm" \in env THEN "REALM"
                     ELSE IF c.realm = "unset" THEN derive_realm_from_uri(d.uri) ELSE c.realm
        /\ d.sec = IF "sec" \in env \/ c.sec \in {"unset", "blank"} THEN "krb5p" ELSE c.sec
        /\ d.pw = IF "pw" \in env THEN "secret" ELSE c.pw
        /\ d.timeout = c.timeout
    BY <1>1 DEF DerivedFrom
  <1>4. (d.realm = "REALM") <=> HasRealmIn(c, env)
    BY <1>3 DEF HasRealmIn, derive_realm_from_uri
  <1>5. d.uri \notin {"blank", "ip"} <=> ("uri" \in env \/ c.uri \notin {"blank", "ip"})
    BY <1>3
  <1>6. (d.pw # "blank") <=> ("pw" \in env \/ c.pw # "blank")
    BY <1>3
  <1>7. d.sec \in {"krb5p", "sys"} <=>
          ("sec" \in env \/ c.sec \in {"unset", "blank", "krb5p", "sys"})
    BY <1>3
  <1> QED
    BY <1>2, <1>3, <1>4, <1>5, <1>6, <1>7 DEF ValidScalars, Loads

\* A file that loads is derived.
LEMMA Loaded ==
  ASSUME NEW f, validate_and_derive(f)
  PROVE  load(f) = derive(f)
  BY DEF load

-----------------------------------------------------------------------------
(* The three writes. *)

\* What a structured save writes, key by key.
PaneOf(f, form, doc) ==
  /\ DOMAIN f = ConfigKeys /\ f = [k \in ConfigKeys |-> f[k]]
  /\ f.uri = form.uri /\ f.pw = DocPassword(form.pw, doc.pw)
  /\ f.timeout = IF form.timeout = "junk" THEN doc.timeout ELSE form.timeout
  /\ f.nav = form.nav
  /\ f.realm = IF form.realm.custom THEN form.realm.v ELSE "unset"
  /\ f.base = IF form.base.custom /\ form.base.v # "blank" THEN form.base.v ELSE "unset"
  /\ f.sec = IF form.sec.custom /\ form.sec.v # "blank" THEN form.sec.v ELSE "krb5p"
  /\ f.tls = IF form.tls.custom THEN IF form.tls.v THEN "on" ELSE "off" ELSE "unset"
  /\ f.probe = ProbeValue(form) /\ f.tuning = doc.tuning /\ f.shares = doc.shares

\* The document side of apply_structured_form.
LEMMA PaneWritten ==
  ASSUME NEW form, NEW doc, DOMAIN doc = ConfigKeys
  PROVE  PaneOf(apply_structured_form_to_toml_doc(form, doc), form, doc)
  BY ZenonT(60) DEF apply_structured_form_to_toml_doc, ConfigKeys, PaneOf

\* A structured save that passes the gate writes a file that loads.
LEMMA StructuredLoads ==
  ASSUME NEW doc, IsConfig(doc), validate_and_derive(doc), NEW form, IsForm(form),
         HasRealm(form, env),
         validate_and_derive(apply_structured_form_to_config(form, load(doc)))
  PROVE  LET f == apply_structured_form_to_toml_doc(form, doc)
         IN /\ IsConfig(f) /\ validate_and_derive(f) /\ LastInv(f, "structured")
  <1> DEFINE f == apply_structured_form_to_toml_doc(form, doc)
             d == derive(doc)
             c == apply_structured_form_to_config(form, d)
  <1>1. load(doc) = d
    BY Loaded
  <1>2. PaneOf(f, form, doc)
    BY PaneWritten DEF IsConfig
  <1>3. IsConfig(d)
    BY Derived
  <1> HIDE DEF f, d
  <1>4. /\ DOMAIN c = ConfigKeys /\ c.shares = d.shares /\ c.nav = form.nav
        /\ c.uri = form.uri /\ c.pw = IF form.pw = "blank" THEN d.pw ELSE form.pw
        /\ c.timeout = IF form.timeout = "junk" THEN d.timeout ELSE form.timeout
        /\ c.realm = IF form.realm.custom
                     THEN IF form.realm.v = "blank" THEN "unset" ELSE form.realm.v
                     ELSE d.realm
        /\ c.sec = IF form.sec.custom /\ form.sec.v # "blank" THEN form.sec.v ELSE "krb5p"
    BY <1>3 DEF apply_structured_form_to_config, IsConfig, ConfigKeys
  <1> HIDE DEF c
  <1>5. IsConfig(c) /\ validate_and_derive(c)
    BY <1>1, <1>3, <1>4 DEF IsConfig, IsForm, c
  <1>6. IsConfig(f)
    BY <1>2 DEF PaneOf, IsConfig, IsForm
  <1>7. ValidScalars(derive(c)) /\ ValidShares(doc.shares) /\ doc.tuning = "ok"
    BY <1>5, Valid
  <1>8. ValidScalars(derive(f))
    <2> DEFINE df == derive(f)
               dc == derive(c)
    <2>1. DerivedFrom(df, f, env) /\ DerivedFrom(dc, c, env) /\ DerivedFrom(d, doc, env)
      BY <1>5, <1>6, Derived DEF d
    <2>2. ValidScalars(dc)
      BY <1>7
    <2> HIDE DEF df, dc
    <2>3. df.uri = dc.uri /\ df.sec = dc.sec
      BY <1>2, <1>4, <2>1 DEF PaneOf, DerivedFrom
    <2>4. df.pw = dc.pw
      BY <1>2, <1>4, <2>1 DEF PaneOf, DerivedFrom, DocPassword
    <2>5. df.timeout = dc.timeout
      BY <1>2, <1>4, <2>1 DEF PaneOf, DerivedFrom
    <2>6. df.realm = "REALM"
      <3>1. CASE form.realm.custom
        <4>1. f.realm = c.realm
          BY <1>2, <1>4, <3>1 DEF PaneOf, HasRealm
        <4> QED
          BY <2>1, <2>2, <2>3, <4>1 DEF DerivedFrom, ValidScalars
      <3>2. CASE ~form.realm.custom
        <4>1. f.realm = "unset" /\ (f.uri = "dns" \/ "realm" \in env)
          BY <1>2, <3>2 DEF PaneOf, HasRealm
        <4> QED
          BY <2>1, <4>1 DEF DerivedFrom, derive_realm_from_uri
      <3> QED
        BY <3>1, <3>2
    <2>7. ValidScalars(df)
      BY <2>2, <2>3, <2>4, <2>5, <2>6 DEF ValidScalars
    <2> QED
      BY <2>7 DEF df
  <1>9. SavedPane(f)
    BY <1>2 DEF PaneOf, SavedPane, IsForm, ProbeValue
  <1> QED
    BY <1>2, <1>6, <1>7, <1>8, <1>9, Valid DEF PaneOf, LastInv, f

\* What a share of the form keeps whatever is merged into it.
FromRow(s, r) ==
  /\ DOMAIN s = ShareKeys /\ s.nav \in BOOLEAN
  /\ s.name = r.name /\ s.path = r.path /\ s.opts = "ok"
  /\ s.squash = IF r.squash THEN "root" ELSE "none"

\* The merge takes the keys without a control, the pseudo path and the muted flag
\* from the old share, and nothing else.
LEMMA MergedShare ==
  ASSUME NEW doc, NEW cfg, NEW rows, NEW nav, NEW i \in DOMAIN rows
  PROVE  FromRow(NewShares(doc, cfg, rows, nav)[i], rows[i])
  <1> DEFINE new == collect_shares_from_structured_form(rows, nav)
             hit == OldShare(cfg.shares, i, new[i])
             old == cfg.shares[CHOOSE j \in hit : \A k \in hit : j <= k]
  <1>1. FromRow(new[i], rows[i]) /\ DOMAIN new = DOMAIN rows
    BY Zenon DEF collect_shares_from_structured_form, FromRow, ShareKeys
  <1>2. NewShares(doc, cfg, rows, nav)[i] = Merged(doc, cfg, i, new[i])
    BY <1>1 DEF NewShares
  <1> HIDE DEF new
  <1>3. Merged(doc, cfg, i, new[i]) =
          IF hit = {} THEN new[i]
          ELSE [new[i] EXCEPT !.pseudo = MergedPseudo(doc, i, new[i], old), !.raw = old.raw,
                              !.nav = @ \/ (~cfg.nav /\ old.nav)]
    BY DEF Merged
  <1> HIDE DEF hit, old
  <1>4. CASE hit = {}
    BY Zenon, <1>1, <1>2, <1>3, <1>4
  <1>5. CASE hit # {}
    <2> DEFINE n == new[i].nav \/ (~cfg.nav /\ old.nav)
               m == [new[i] EXCEPT !.pseudo = MergedPseudo(doc, i, new[i], old), !.raw = old.raw,
                                   !.nav = n]
    <2>1. n \in BOOLEAN
      BY Zenon
    <2>2. NewShares(doc, cfg, rows, nav)[i] = m
      BY <1>1, <1>2, <1>3, <1>5 DEF FromRow, ShareKeys
    <2> HIDE DEF n
    <2>3. FromRow(m, rows[i])
      BY <1>1, <2>1 DEF FromRow, ShareKeys
    <2> QED
      BY Zenon, <2>2, <2>3
  <1> QED
    BY <1>4, <1>5

\* The configuration a shares save validates.
LEMMA SharesMerged ==
  ASSUME NEW doc, NEW cfg, IsConfig(cfg), NEW rows, IsRows(rows), NEW nav
  PROVE  LET c == SavedShares(doc, cfg, rows, nav)
         IN /\ IsConfig(c) /\ DOMAIN c.shares = DOMAIN rows
            /\ c.shares = NewShares(doc, cfg, rows, nav)
            /\ \A i \in DOMAIN rows : FromRow(c.shares[i], rows[i])
  <1> DEFINE c == SavedShares(doc, cfg, rows, nav)
             new == NewShares(doc, cfg, rows, nav)
  <1>1. DOMAIN new = DOMAIN rows
    BY DEF NewShares, collect_shares_from_structured_form
  <1>2. \A i \in DOMAIN rows : FromRow(new[i], rows[i])
    BY MergedShare
  <1> HIDE DEF new
  <1>3. DOMAIN c = ConfigKeys /\ c.shares = new /\ c.nav = cfg.nav
    BY DEF SavedShares, IsConfig, ConfigKeys, new
  <1> HIDE DEF c
  <1>4. IsSeq(new)
    BY <1>1, SameLength DEF IsRows
  <1>5. \A i \in DOMAIN new : IsShare(new[i])
    BY <1>1, <1>2 DEF FromRow, IsShare, IsRows
  <1>6. IsConfig(c)
    BY <1>3, <1>4, <1>5 DEF IsConfig, IsSeq
  <1> QED
    BY <1>1, <1>2, <1>3, <1>6 DEF c, new

\* A shares save that passes the gate writes a file that loads.
LEMMA SharesLoad ==
  ASSUME NEW doc, IsConfig(doc), validate_and_derive(doc), NEW c, IsConfig(c),
         validate_and_derive(c), NEW rows, DOMAIN c.shares = DOMAIN rows,
         \A i \in DOMAIN rows : FromRow(c.shares[i], rows[i])
  PROVE  LET f == apply_shares_to_toml_doc(doc, c)
         IN IsConfig(f) /\ validate_and_derive(f) /\ LastInv(f, "shares")
  <1> DEFINE f == apply_shares_to_toml_doc(doc, c)
             d == derive(c)
  <1>1. IsConfig(d) /\ DerivedFrom(d, c, env)
    BY Derived
  <1>2. ValidShares(d.shares)
    BY DEF validate_and_derive
  <1> HIDE DEF d
  <1>3. /\ DOMAIN f = ConfigKeys /\ f = [k \in ConfigKeys |-> f[k]] /\ f.shares = d.shares
        /\ f.uri = doc.uri /\ f.realm = doc.realm /\ f.base = doc.base /\ f.sec = doc.sec
        /\ f.pw = doc.pw /\ f.timeout = doc.timeout /\ f.nav = doc.nav /\ f.tls = doc.tls
        /\ f.probe = doc.probe /\ f.tuning = doc.tuning
    BY DEF apply_shares_to_toml_doc, IsConfig, ConfigKeys, d
  <1> HIDE DEF f
  <1>4. IsConfig(f)
    BY <1>1, <1>3 DEF IsConfig
  <1>5. ValidScalars(derive(f))
    <2> DEFINE df == derive(f)
               dd == derive(doc)
    <2>1. DerivedFrom(df, f, env) /\ DerivedFrom(dd, doc, env) /\ ValidScalars(dd)
      BY <1>4, Derived, Valid
    <2> HIDE DEF df, dd
    <2>2. df.uri = dd.uri /\ df.sec = dd.sec /\ df.pw = dd.pw /\ df.timeout = dd.timeout
      BY <1>3, <2>1 DEF DerivedFrom
    <2>3. df.realm = dd.realm
      BY <1>3, <2>1, <2>2 DEF DerivedFrom
    <2>4. ValidScalars(df)
      BY <2>1, <2>2, <2>3 DEF ValidScalars
    <2> QED
      BY <2>4 DEF df
  <1>6. validate_and_derive(f)
    BY <1>2, <1>3, <1>4, <1>5, Valid
  <1>7. \A i \in DOMAIN d.shares : SavedShare(d.shares[i])
    <2> SUFFICES ASSUME NEW i \in DOMAIN c.shares PROVE SavedShare(d.shares[i])
      BY <1>1 DEF DerivedFrom
    <2>1. d.shares[i] = [c.shares[i] EXCEPT !.pseudo = derive_share_pseudo(c.shares[i])]
      BY <1>1 DEF DerivedFrom
    <2>2. IsShare(c.shares[i]) /\ FromRow(c.shares[i], rows[i])
      BY DEF IsConfig
    <2>3. /\ d.shares[i].pseudo = derive_share_pseudo(c.shares[i])
          /\ d.shares[i].name = c.shares[i].name /\ d.shares[i].opts = c.shares[i].opts
          /\ d.shares[i].squash = c.shares[i].squash
      BY <2>1, <2>2, PseudoOnce
    <2>4. d.shares[i] = [k \in ShareKeys |-> d.shares[i][k]]
      BY <2>1, <2>2 DEF IsShare
    <2> QED
      BY <2>2, <2>3, <2>4 DEF SavedShare, FromRow, derive_share_pseudo
  <1>8. d.shares = [i \in DOMAIN d.shares |-> d.shares[i]]
    BY <1>1 DEF DerivedFrom
  <1> QED
    BY <1>3, <1>4, <1>6, <1>7, <1>8 DEF LastInv, f

\* A page rendered from a file that loads can be saved again.
LEMMA Rendered ==
  ASSUME NEW f, IsConfig(f), validate_and_derive(f)
  PROVE  PageInv(build_settings_template(f), env)
  <1> DEFINE p == build_settings_template(f)
             d == derive(f)
             form == ScalarForm(f)
             rows == [i \in DOMAIN d.shares |-> ShareRow(f, d, i)]
  <1>1. IsConfig(d) /\ DerivedFrom(d, f, env) /\ ValidScalars(d) /\ load(f) = d
    BY Derived, Loaded DEF validate_and_derive
  <1> HIDE DEF d
  <1>2. p = [base |-> f, edits |-> 0, scalars |-> form, rows |-> rows]
    BY <1>1 DEF build_settings_template
  <1>3. /\ form.uri = d.uri /\ form.nav = d.nav /\ form.sec.v = d.sec
        /\ form.realm.custom = (f.realm # "unset") /\ form.realm.v = d.realm
    BY <1>1 DEF ScalarForm, has_explicit
  <1>4. rows = [i \in DOMAIN f.shares |-> ShareRow(f, d, i)]
    BY <1>1 DEF DerivedFrom
  <1>5. \A i \in DOMAIN f.shares :
          /\ DOMAIN rows[i] = RowKeys /\ rows[i].path = d.shares[i].path
          /\ rows[i].of = d.shares[i].path
    BY <1>4 DEF ShareRow, RowKeys
  <1>6. \A i \in DOMAIN f.shares : d.shares[i].path = f.shares[i].path /\ IsShare(f.shares[i])
    <2> TAKE i \in DOMAIN f.shares
    <2>1. d.shares[i] = [f.shares[i] EXCEPT !.pseudo = derive_share_pseudo(f.shares[i])]
      BY <1>1 DEF DerivedFrom
    <2>2. IsShare(f.shares[i])
      BY DEF IsConfig
    <2> QED
      BY <2>1, <2>2, PseudoOnce
  <1>7. IsSeq(rows) /\ DOMAIN rows = DOMAIN f.shares /\ rows = [i \in DOMAIN rows |-> rows[i]]
    BY <1>4, SameLength DEF IsConfig, IsSeq
  <1> HIDE DEF form, rows
  <1>8. IsForm(form)
    BY <1>1, <1>3 DEF IsForm, IsConfig, ValidScalars
  <1>9. HasRealm(form, env)
    BY Zenon, <1>1, <1>3 DEF HasRealm, DerivedFrom, ValidScalars, derive_realm_from_uri
  <1>10. IsRows(rows) /\ InPlace(rows, f)
    BY <1>5, <1>6, <1>7 DEF IsRows, InPlace, IsShare
  <1>11. /\ DOMAIN p = PageKeys /\ p.base = f /\ p.scalars = form /\ p.rows = rows
    BY <1>2 DEF PageKeys
  <1> HIDE DEF p
  <1>12. PageInv(p, env)
    BY <1>8, <1>9, <1>10, <1>11 DEF PageInv, IsPage
  <1> QED
    BY <1>12 DEF p

-----------------------------------------------------------------------------
(* The steps. *)

\* A step of one administrator, by what it leaves.
LEMMA StepKeeps ==
  ASSUME SettingsInv, NEW a \in Admins, UNCHANGED env,
         IsConfig(file'), Loads(file', env), LastInv(file', last'),
         DOMAIN page' = Admins, DOMAIN flight' = Admins,
         \A b \in Admins \ {a} : page'[b] = page[b] /\ flight'[b] = flight[b],
         page'[a] # NoPage => PageInv(page'[a], env),
         FlightInv(flight'[a], page'[a], env)
  PROVE  SettingsInv'
  BY Zenon DEF SettingsInv

\* A write of a file that loads, answered with its page.
LEMMA WrittenKeeps ==
  ASSUME SettingsInv, NEW a \in Admins, NEW f, NEW how, IsConfig(f), validate_and_derive(f),
         LastInv(f, how), Written(a, f, how)
  PROVE  SettingsInv'
  <1> DEFINE p == build_settings_template(f)
  <1>1. PageInv(p, env) /\ Loads(f, env)
    BY Rendered, LoadsIff
  <1> HIDE DEF p
  <1>2. /\ page' = [page EXCEPT ![a] = p] /\ flight' = [flight EXCEPT ![a] = NoSave]
        /\ file' = f /\ last' = how /\ env' = env
    BY DEF Written, Answered, p
  <1>3. DOMAIN page = Admins /\ DOMAIN flight = Admins
    BY DEF SettingsInv
  <1>4. FlightInv(NoSave, p, env)
    BY DEF FlightInv, NoSave
  <1>5. page'[a] = p /\ flight'[a] = NoSave
    BY <1>2, <1>3
  <1> QED
    BY <1>1, <1>2, <1>3, <1>4, <1>5, StepKeeps

\* A refused save is answered with the page of the file in place.
LEMMA RefusedSaveKeeps ==
  ASSUME SettingsInv, NEW a \in Admins, Refused(a)
  PROVE  SettingsInv'
  <1>1. IsConfig(file) /\ validate_and_derive(file) /\ LastInv(file, last)
    BY LoadsIff DEF SettingsInv
  <1>2. Written(a, file, last)
    BY DEF Refused, Written
  <1> QED
    BY <1>1, <1>2, WrittenKeeps

\* A step that only changes the page of an administrator.
LEMMA PageKeeps ==
  ASSUME SettingsInv, NEW a \in Admins, NEW p, page' = [page EXCEPT ![a] = p],
         flight[a] = NoSave, p # NoPage => PageInv(p, env),
         UNCHANGED <<file, env, flight, last>>
  PROVE  SettingsInv'
  <1>1. DOMAIN page = Admins /\ DOMAIN flight = Admins
    BY DEF SettingsInv
  <1>2. FlightInv(NoSave, p, env)
    BY DEF FlightInv, NoSave
  <1>3. page'[a] = p /\ \A b \in Admins \ {a} : page'[b] = page[b]
    BY <1>1
  <1>4. IsConfig(file) /\ Loads(file, env) /\ LastInv(file, last)
    BY DEF SettingsInv
  <1> QED
    BY <1>1, <1>2, <1>3, <1>4, StepKeeps

\* A step that only changes the save of an administrator.
LEMMA SaveInFlight ==
  ASSUME SettingsInv, NEW a \in Admins, NEW s, flight' = [flight EXCEPT ![a] = s],
         FlightInv(s, page[a], env), UNCHANGED <<file, env, page, last>>
  PROVE  SettingsInv'
  <1>1. DOMAIN page = Admins /\ DOMAIN flight = Admins
    BY DEF SettingsInv
  <1>2. flight'[a] = s /\ \A b \in Admins \ {a} : flight'[b] = flight[b]
    BY <1>1
  <1>3. IsConfig(file) /\ Loads(file, env) /\ LastInv(file, last)
    BY DEF SettingsInv
  <1>4. page[a] # NoPage => PageInv(page[a], env)
    BY DEF SettingsInv
  <1> QED
    BY <1>1, <1>2, <1>3, <1>4, StepKeeps

\* One row changed leaves the rows in their places.
LEMMA RowChanged ==
  ASSUME NEW rows, IsRows(rows), NEW i \in DOMAIN rows, NEW r, DOMAIN r = RowKeys,
         r.path # "new", r.of = rows[i].of, NEW base
  PROVE  /\ IsRows([rows EXCEPT ![i] = r])
         /\ InPlace(rows, base) => InPlace([rows EXCEPT ![i] = r], base)
  <1> DEFINE new == [rows EXCEPT ![i] = r]
  <1>1. /\ DOMAIN new = DOMAIN rows /\ new = [j \in DOMAIN new |-> new[j]]
        /\ \A j \in DOMAIN rows : new[j] = IF j = i THEN r ELSE rows[j]
    OBVIOUS
  <1> HIDE DEF new
  <1>2. IsSeq(new)
    BY <1>1, SameLength DEF IsRows
  <1>3. IsRows(new)
    BY <1>1, <1>2 DEF IsRows
  <1>4. InPlace(rows, base) => InPlace(new, base)
    BY <1>1 DEF InPlace
  <1> QED
    BY <1>3, <1>4 DEF new

\* A deleted row leaves rows, and the others in their places if it was the last.
LEMMA RowDeleted ==
  ASSUME NEW rows, IsRows(rows), NEW i \in DOMAIN rows, NEW base
  PROVE  /\ IsRows(Without(rows, i))
         /\ InPlace(rows, base) /\ i = Len(rows) => InPlace(Without(rows, i), base)
  <1> DEFINE new == Without(rows, i)
  <1>1. /\ DOMAIN new = 1 .. Len(rows) - 1 /\ new = [j \in DOMAIN new |-> new[j]]
        /\ \A j \in DOMAIN new : new[j] = rows[IF j < i THEN j ELSE j + 1]
    BY DEF Without
  <1>2. Len(rows) \in Nat \ {0} /\ DOMAIN rows = 1 .. Len(rows) /\ i \in Nat
    BY DEF IsRows, IsSeq
  <1> HIDE DEF new
  <1>3. IsSeq(new)
    <2> DEFINE n == Len(rows) - 1
    <2>1. n \in Nat /\ DOMAIN new = 1 .. n
      BY <1>1, <1>2
    <2> HIDE DEF n
    <2> QED
      BY <2>1 DEF IsSeq
  <1>4. \A j \in DOMAIN new : (IF j < i THEN j ELSE j + 1) \in DOMAIN rows
    BY <1>1, <1>2
  <1>5. IsRows(new)
    <2>1. \A j \in DOMAIN new : DOMAIN new[j] = RowKeys /\ new[j].path # "new"
      BY <1>1, <1>4 DEF IsRows
    <2> QED
      BY Zenon, <1>1, <1>3, <2>1 DEF IsRows
  <1>6. InPlace(rows, base) /\ i = Len(rows) => InPlace(new, base)
    <2> SUFFICES ASSUME InPlace(rows, base), i = Len(rows) PROVE InPlace(new, base)
      OBVIOUS
    <2>1. \A j \in DOMAIN new : j \in DOMAIN rows /\ new[j] = rows[j]
      BY <1>1, <1>2
    <2> QED
      BY <2>1 DEF InPlace
  <1> QED
    BY <1>5, <1>6 DEF new

\* A new card remembers no share.
LEMMA RowAdded ==
  ASSUME NEW rows, IsRows(rows), NEW n, NEW p, p # "new", NEW base
  PROVE  /\ IsRows(Append(rows, BlankRow(n, p)))
         /\ InPlace(rows, base) => InPlace(Append(rows, BlankRow(n, p)), base)
  <1> DEFINE r == BlankRow(n, p)
             new == Append(rows, r)
             S == {rows[j] : j \in DOMAIN rows} \cup {r}
  <1>1. DOMAIN r = RowKeys /\ r.path = p /\ r.of = "new"
    BY DEF BlankRow, RowKeys
  <1> HIDE DEF r
  <1>2. rows \in [1 .. Len(rows) -> S] /\ Len(rows) \in Nat
    BY DEF IsRows, IsSeq
  <1>3. rows \in Seq(S) /\ r \in S
    BY <1>2
  <1> HIDE DEF S
  <1>4. /\ new \in Seq(S) /\ Len(new) = Len(rows) + 1 /\ new[Len(rows) + 1] = r
        /\ \A j \in 1 .. Len(rows) : new[j] = rows[j]
    BY <1>3
  <1>5. DOMAIN new = 1 .. Len(rows) + 1 /\ new = [j \in DOMAIN new |-> new[j]]
    <2>1. new \in [1 .. Len(rows) + 1 -> S]
      <3> HIDE DEF new
      <3> QED
        BY <1>2, <1>4
    <2> HIDE DEF new
    <2> QED
      BY <2>1
  <1>6. DOMAIN rows = 1 .. Len(rows)
    BY DEF IsRows, IsSeq
  <1> HIDE DEF new
  <1>7. \A j \in DOMAIN new : (j \in DOMAIN rows /\ new[j] = rows[j]) \/ new[j] = r
    BY <1>2, <1>4, <1>5, <1>6
  <1>8. IsSeq(new)
    BY <1>2, <1>4, <1>5 DEF IsSeq
  <1>9. IsRows(new)
    <2>1. \A j \in DOMAIN new : DOMAIN new[j] = RowKeys /\ new[j].path # "new"
      BY <1>1, <1>7 DEF IsRows
    <2> QED
      BY Zenon, <1>5, <1>8, <2>1 DEF IsRows
  <1>10. InPlace(rows, base) => InPlace(new, base)
    BY <1>1, <1>7 DEF InPlace
  <1> QED
    BY <1>9, <1>10 DEF new, r

\* An edit leaves a page whose other parts are as they were.
LEMMA EditedKeeps ==
  ASSUME SettingsInv, NEW a \in Admins, flight[a] = NoSave, page[a] # NoPage, NEW rows,
         IsRows(rows), Deletable \subseteq {"last"} => InPlace(rows, page[a].base),
         Edited(a, rows), UNCHANGED <<file, env, flight, last>>
  PROVE  SettingsInv'
  <1> DEFINE p == [page[a] EXCEPT !.rows = rows, !.edits = @ + 1]
  <1>1. PageInv(page[a], env) /\ DOMAIN page = Admins
    BY DEF SettingsInv
  <1>2. page' = [page EXCEPT ![a] = p]
    BY Zenon, <1>1 DEF Edited
  <1>3. /\ DOMAIN p = PageKeys /\ p.rows = rows /\ p.base = page[a].base
        /\ p.scalars = page[a].scalars
    BY <1>1 DEF PageInv, IsPage, PageKeys
  <1> HIDE DEF p
  <1>4. PageInv(p, env)
    BY <1>1, <1>3 DEF PageInv, IsPage
  <1> QED
    BY Zenon, <1>2, <1>4, PageKeeps

\* Every edit in the browser keeps the invariant.
LEMMA EditKeeps ==
  ASSUME SettingsInv, NEW a \in Admins, Edit(a)
  PROVE  SettingsInv'
  <1> DEFINE rows == page[a].rows
             base == page[a].base
  <1>1. /\ flight[a] = NoSave /\ page[a] # NoPage /\ UNCHANGED <<file, env, flight, last>>
    BY DEF Edit
  <1>2. IsRows(rows) /\ (Deletable \subseteq {"last"} => InPlace(rows, base))
    BY <1>1 DEF SettingsInv, PageInv, IsPage
  <1> HIDE DEF rows, base
  <1>3. ASSUME NEW new, IsRows(new), Deletable \subseteq {"last"} => InPlace(new, base),
               Edited(a, new)
        PROVE  SettingsInv'
    BY <1>1, <1>3, EditedKeeps DEF base
  <1>4. ASSUME NEW i \in DOMAIN rows, NEW r, DOMAIN r = RowKeys, r.path # "new",
               r.of = rows[i].of, Edited(a, [rows EXCEPT ![i] = r])
        PROVE  SettingsInv'
    BY <1>2, <1>3, <1>4, RowChanged
  <1>5. \A i \in DOMAIN rows : DOMAIN rows[i] = RowKeys /\ rows[i].path # "new"
    BY <1>2 DEF IsRows
  <1>6. ASSUME NEW i \in DOMAIN rows,
               "any" \in Deletable \/ ("last" \in Deletable /\ i = Len(rows)),
               Edited(a, Without(rows, i))
        PROVE  SettingsInv'
    <2>1. /\ IsRows(Without(rows, i))
          /\ InPlace(rows, base) /\ i = Len(rows) => InPlace(Without(rows, i), base)
      BY <1>2, RowDeleted
    <2>2. Deletable \subseteq {"last"} => i = Len(rows)
      BY <1>6
    <2> QED
      BY <1>2, <1>3, <1>6, <2>1, <2>2
  <1>7. ASSUME NEW i \in DOMAIN rows, NEW n, Edited(a, [rows EXCEPT ![i].name = n])
        PROVE  SettingsInv'
    <2> DEFINE r == [rows[i] EXCEPT !.name = n]
    <2>1. DOMAIN r = RowKeys /\ r.path # "new" /\ r.of = rows[i].of
      BY <1>5 DEF RowKeys
    <2>2. [rows EXCEPT ![i].name = n] = [rows EXCEPT ![i] = r]
      OBVIOUS
    <2> HIDE DEF r
    <2> QED
      BY Zenon, <1>4, <1>7, <2>1, <2>2
  <1>8. ASSUME NEW i \in DOMAIN rows, Edited(a, [rows EXCEPT ![i].squash = ~@])
        PROVE  SettingsInv'
    <2> DEFINE r == [rows[i] EXCEPT !.squash = ~@]
    <2>1. DOMAIN r = RowKeys /\ r.path # "new" /\ r.of = rows[i].of
      BY <1>5 DEF RowKeys
    <2>2. [rows EXCEPT ![i].squash = ~@] = [rows EXCEPT ![i] = r]
      OBVIOUS
    <2> HIDE DEF r
    <2> QED
      BY Zenon, <1>4, <1>8, <2>1, <2>2
  <1>9. ASSUME NEW i \in DOMAIN rows, Edited(a, [rows EXCEPT ![i].nav = ~@])
        PROVE  SettingsInv'
    <2> DEFINE r == [rows[i] EXCEPT !.nav = ~@]
    <2>1. DOMAIN r = RowKeys /\ r.path # "new" /\ r.of = rows[i].of
      BY <1>5 DEF RowKeys
    <2>2. [rows EXCEPT ![i].nav = ~@] = [rows EXCEPT ![i] = r]
      OBVIOUS
    <2> HIDE DEF r
    <2> QED
      BY Zenon, <1>4, <1>9, <2>1, <2>2
  <1>10. ASSUME NEW i \in DOMAIN rows, Edited(a, [rows EXCEPT ![i].pseudo = "custom"])
         PROVE  SettingsInv'
    <2> DEFINE r == [rows[i] EXCEPT !.pseudo = "custom"]
    <2>1. DOMAIN r = RowKeys /\ r.path # "new" /\ r.of = rows[i].of
      BY <1>5 DEF RowKeys
    <2>2. [rows EXCEPT ![i].pseudo = "custom"] = [rows EXCEPT ![i] = r]
      OBVIOUS
    <2> HIDE DEF r
    <2> QED
      BY Zenon, <1>4, <1>10, <2>1, <2>2
  <1>11. ASSUME NEW n, NEW p \in Paths, Edited(a, Append(rows, BlankRow(n, p)))
         PROVE  SettingsInv'
    BY <1>2, <1>3, <1>11, RowAdded, SettingsAssumption
  <1> QED
    BY ZenonT(40), <1>6, <1>7, <1>8, <1>9, <1>10, <1>11 DEF Edit, rows

\* A save in flight holds a file that loaded when it was read.
LEMMA StartKeeps ==
  ASSUME SettingsInv, NEW a \in Admins, NEW s, Started(a, s), FlightInv(s, page[a], env)
  PROVE  SettingsInv'
  BY Zenon, SaveInFlight DEF Started

\* Every step of an administrator keeps the invariant.
LEMMA StepInv ==
  ASSUME SettingsInv, NEW a \in Admins, Step(a)
  PROVE  SettingsInv'
  <1>1. /\ IsConfig(file) /\ Loads(file, env) /\ validate_and_derive(file)
        /\ FlightInv(flight[a], page[a], env)
    BY LoadsIff DEF SettingsInv
  <1>2. CASE settings_page(a)
    <2>1. PageInv(build_settings_template(file), env)
      BY <1>1, Rendered
    <2> QED
      BY Zenon, <1>2, <2>1, PageKeeps DEF settings_page
  <1>3. CASE settings_save_raw(a)
    <2>1. PICK f \in Files : Started(a, [does |-> "raw", doc |-> f])
      BY <1>3 DEF settings_save_raw
    <2>2. FlightInv([does |-> "raw", doc |-> f], page[a], env)
      BY SettingsAssumption DEF FlightInv
    <2> QED
      BY <2>1, <2>2, StartKeeps
  <1>4. CASE WriteRaw(a)
    <2>1. IsConfig(flight[a].doc) /\ LastInv(flight[a].doc, "raw")
      BY <1>1, <1>4 DEF WriteRaw, FlightInv, LastInv
    <2> QED
      BY Zenon, <1>4, <2>1, WrittenKeeps, RefusedSaveKeeps DEF WriteRaw
  <1>5. CASE settings_save_structured(a)
    <2>1. PICK form \in Forms \cup {page[a].scalars} :
            Started(a, [does |-> "structured", doc |-> file, form |-> form])
      BY <1>5 DEF settings_save_structured
    <2>2. IsForm(form) /\ HasRealm(form, env)
      <3>1. CASE form \in Forms
        BY SMTT(30), <3>1, SettingsAssumption, RealmAssumption DEF IsForm, HasRealm
      <3>2. CASE form = page[a].scalars
        BY SMTT(30), <1>5, <3>2 DEF settings_save_structured, SettingsInv, PageInv, IsPage
      <3> QED
        BY <3>1, <3>2
    <2>3. FlightInv([does |-> "structured", doc |-> file, form |-> form], page[a], env)
      BY <1>1, <2>2 DEF FlightInv
    <2> QED
      BY <2>1, <2>3, StartKeeps
  <1>6. CASE WriteStructured(a)
    <2> DEFINE doc == flight[a].doc
               form == flight[a].form
               f == apply_structured_form_to_toml_doc(form, doc)
    <2>1. /\ IsConfig(doc) /\ validate_and_derive(doc) /\ IsForm(form) /\ HasRealm(form, env)
      BY <1>1, <1>6, LoadsIff DEF WriteStructured, FlightInv
    <2>2. CASE /\ validate_and_derive(apply_structured_form_to_config(form, load(doc)))
               /\ Written(a, f, "structured")
      <3>1. IsConfig(f) /\ validate_and_derive(f) /\ LastInv(f, "structured")
        BY <2>1, <2>2, StructuredLoads
      <3> HIDE DEF f
      <3> QED
        BY <2>2, <3>1, WrittenKeeps
    <2>3. CASE Refused(a)
      BY <2>3, RefusedSaveKeeps
    <2> QED
      BY SMTT(30), <1>6, <2>2, <2>3 DEF WriteStructured
  <1>7. CASE settings_save_shares(a)
    <2>1. FlightInv([does |-> "text", doc |-> file], page[a], env)
      BY <1>1, <1>7 DEF FlightInv, settings_save_shares
    <2> QED
      BY SMTT(30), <1>7, <2>1, StartKeeps DEF settings_save_shares
  <1>8. CASE LoadOld(a)
    <2> DEFINE s == [does |-> "shares", doc |-> flight[a].doc, cfg |-> load(file)]
    <2>1. IsConfig(load(file))
      BY <1>1, Loaded, Derived
    <2>2. FlightInv(s, page[a], env)
      BY <1>1, <1>8, <2>1 DEF FlightInv, LoadOld
    <2>3. flight' = [flight EXCEPT ![a] = s] /\ UNCHANGED <<file, env, page, last>>
      BY <1>8 DEF LoadOld
    <2> HIDE DEF s
    <2> QED
      BY Zenon, <2>2, <2>3, SaveInFlight
  <1>9. CASE WriteShares(a)
    <2> DEFINE doc == flight[a].doc
               rows == page[a].rows
               c == SavedShares(doc, flight[a].cfg, rows, page[a].base.nav)
               f == apply_shares_to_toml_doc(doc, c)
    <2>1. /\ IsConfig(doc) /\ validate_and_derive(doc) /\ IsConfig(flight[a].cfg)
          /\ page[a] # NoPage
      BY SMTT(30), <1>1, <1>9, LoadsIff DEF WriteShares, FlightInv
    <2>2. IsRows(rows)
      BY SMTT(30), <2>1 DEF SettingsInv, PageInv, IsPage
    <2>3. /\ IsConfig(c) /\ DOMAIN c.shares = DOMAIN rows
          /\ \A i \in DOMAIN rows : FromRow(c.shares[i], rows[i])
      BY <2>1, <2>2, SharesMerged
    <2> HIDE DEF c
    <2>4. CASE validate_and_derive(c) /\ Written(a, f, "shares")
      <3>1. IsConfig(f) /\ validate_and_derive(f) /\ LastInv(f, "shares")
        BY <2>1, <2>3, <2>4, SharesLoad
      <3> HIDE DEF f
      <3> QED
        BY <2>4, <3>1, WrittenKeeps
    <2>5. CASE Refused(a)
      BY <2>5, RefusedSaveKeeps
    <2> QED
      BY SMTT(30), <1>9, <2>4, <2>5 DEF WriteShares, c
  <1> QED
    BY <1>2, <1>3, <1>4, <1>5, <1>6, <1>7, <1>8, <1>9, EditKeeps DEF Step

\* The file in place at the start loads, and no page is open.
LEMMA SettingsInitInv == ASSUME SettingsInit PROVE SettingsInv
  <1>1. IsConfig(file) /\ Loads(file, env)
    BY SettingsAssumption, LoadsIff DEF SettingsInit
  <1>2. \A p : FlightInv(NoSave, p, env)
    BY DEF FlightInv, NoSave
  <1> QED
    BY <1>1, <1>2 DEF SettingsInit, SettingsInv, LastInv

\* The invariant holds in every reachable state.
LEMMA SettingsInvariance == SettingsSpec => []SettingsInv
  <1>1. SettingsInv /\ [SettingsNext]_settingsVars => SettingsInv'
    <2> SUFFICES ASSUME SettingsInv, [SettingsNext]_settingsVars PROVE SettingsInv'
      OBVIOUS
    <2>1. CASE SettingsNext
      BY <2>1, StepInv DEF SettingsNext
    <2>2. CASE UNCHANGED settingsVars
      BY Zenon, <2>2 DEF SettingsInv, settingsVars
    <2> QED
      BY <2>1, <2>2
  <1> QED
    BY <1>1, SettingsInitInv, PTL DEF SettingsSpec

\* No handler leaves a file that does not load: for any administrators and any
\* number of saves in flight, any files, any overrides and any panes that set a
\* realm where none can be derived.
THEOREM FileLoads == SettingsSpec => []SavedFileLoads
  <1>1. SettingsInv => SavedFileLoads
    BY SMTT(30), LoadsIff DEF SettingsInv, SavedFileLoads
  <1> QED
    BY <1>1, SettingsInvariance, PTL

-----------------------------------------------------------------------------
(* What a save leaves alone. *)

\* A share s of the form, merged with the share at its position i.
MergedFrom(m, doc, cfg, i, s) ==
  /\ DOMAIN m = ShareKeys /\ m.name = s.name /\ m.path = s.path /\ m.opts = s.opts
  /\ m.squash = s.squash /\ m.pseudo = MergedPseudo(doc, i, s, cfg.shares[i])
  /\ m.raw = cfg.shares[i].raw /\ m.nav = (s.nav \/ (~cfg.nav /\ cfg.shares[i].nav))

\* A row at the position of a share is merged with that share.
LEMMA MergedAt ==
  ASSUME NEW doc, NEW cfg, IsConfig(cfg), NEW i \in DOMAIN cfg.shares,
         NEW s, DOMAIN s = ShareKeys
  PROVE  MergedFrom(Merged(doc, cfg, i, s), doc, cfg, i, s)
  <1> DEFINE hit == OldShare(cfg.shares, i, s)
             j0 == CHOOSE j \in hit : \A k \in hit : j <= k
             old == cfg.shares[j0]
             ps == MergedPseudo(doc, i, s, old)
             n == s.nav \/ (~cfg.nav /\ old.nav)
             m == Merged(doc, cfg, i, s)
  <1>1. hit = {i} /\ i \in Nat
    BY DEF OldShare, IsConfig
  <1> HIDE DEF hit
  <1>2. j0 = i
    BY <1>1
  <1>3. m = [s EXCEPT !.pseudo = ps, !.raw = old.raw, !.nav = n]
    BY <1>1 DEF Merged, hit, ShareKeys
  <1> HIDE DEF j0, old, ps, n, m
  <1>4. /\ DOMAIN m = ShareKeys /\ m.name = s.name /\ m.path = s.path /\ m.opts = s.opts
        /\ m.squash = s.squash /\ m.pseudo = ps /\ m.raw = old.raw /\ m.nav = n
    BY <1>3 DEF ShareKeys
  <1> QED
    BY <1>2, <1>4 DEF old, ps, n, m, MergedFrom

\* A share that a save has written is written again as it is.
LEMMA ShareResaved ==
  ASSUME NEW f, IsConfig(f), validate_and_derive(f), NEW i \in DOMAIN f.shares,
         SavedShare(f.shares[i]), NEW rows,
         rows = [j \in DOMAIN f.shares |-> ShareRow(f, derive(f), j)],
         NEW s, s = NewShares(f, derive(f), rows, f.nav)[i]
  PROVE  [s EXCEPT !.pseudo = derive_share_pseudo(s)] = f.shares[i]
  <1> DEFINE d == derive(f)
             old == f.shares[i]
             ds == d.shares[i]
             r == rows[i]
             new == collect_shares_from_structured_form(rows, f.nav)[i]
             n == new.nav \/ (~d.nav /\ ds.nav)
             ps == MergedPseudo(f, i, new, ds)
  <1>1. IsConfig(d) /\ DerivedFrom(d, f, env)
    BY Derived
  <1>2. IsShare(old) /\ old.name # "blank"
    <2>1. ValidShares(f.shares)
      BY Valid
    <2> QED
      BY <2>1 DEF IsConfig, ValidShares, ValidShare
  <1>3. ds = [old EXCEPT !.pseudo = derive_share_pseudo(old)] /\ i \in DOMAIN d.shares
    BY <1>1 DEF DerivedFrom
  <1>4. r = ShareRow(f, d, i) /\ DOMAIN rows = DOMAIN f.shares
    BY SMTT(30)
  <1>5. new = [name |-> r.name, path |-> r.path,
               pseudo |-> IF r.pseudo = r.name THEN "unset" ELSE r.pseudo,
               squash |-> IF r.squash THEN "root" ELSE "none",
               raw |-> "unset", nav |-> f.nav /\ r.nav, opts |-> "ok"]
    BY SMTT(30), <1>4 DEF collect_shares_from_structured_form
  <1>6. s = Merged(f, d, i, new)
    BY <1>4 DEF NewShares, collect_shares_from_structured_form
  <1> HIDE DEF d, new, r
  <1>7. /\ ds.pseudo = old.pseudo /\ ds.name = old.name /\ ds.path = old.path
        /\ ds.squash = old.squash /\ ds.raw = old.raw /\ ds.nav = old.nav
    BY <1>2, <1>3 DEF IsShare, ShareKeys, derive_share_pseudo, SavedShare
  <1> HIDE DEF ds
  <1>8. /\ r.name = old.name /\ r.path = old.path /\ r.squash = (old.squash = "root")
        /\ r.nav = old.nav /\ r.pseudo = old.pseudo
    BY Zenon, <1>4, <1>7 DEF ShareRow, SavedShare, ds
  <1>9. /\ DOMAIN new = ShareKeys /\ new.name = old.name /\ new.path = old.path
        /\ new.opts = old.opts /\ new.squash = old.squash
        /\ new.pseudo = IF old.pseudo = old.name THEN "unset" ELSE old.pseudo
    BY Zenon, <1>5, <1>8 DEF ShareKeys, SavedShare
  <1>10. n = old.nav
    <2>1. d.nav = f.nav /\ f.nav \in BOOLEAN /\ old.nav \in BOOLEAN
      BY SMTT(30), <1>1, <1>2 DEF DerivedFrom, IsConfig, IsShare
    <2>2. new.nav = (f.nav /\ old.nav)
      BY <1>5, <1>8
    <2> QED
      BY <1>7, <2>1, <2>2
  <1>11. /\ DOMAIN s = ShareKeys /\ s.name = new.name /\ s.path = new.path /\ s.opts = new.opts
         /\ s.squash = new.squash /\ s.pseudo = ps /\ s.raw = ds.raw /\ s.nav = n
    <2>1. MergedFrom(s, f, d, i, new)
      BY Zenon, <1>1, <1>3, <1>6, <1>9, MergedAt
    <2> QED
      BY Zenon, <2>1 DEF MergedFrom, ds
  <1>12. ps = IF new.pseudo = "unset" /\ old.pseudo # "unset" THEN old.pseudo ELSE new.pseudo
    BY <1>7 DEF MergedPseudo
  <1> HIDE DEF n, ps
  <1>13. /\ DOMAIN s = ShareKeys /\ s.name = old.name /\ s.path = old.path /\ s.opts = old.opts
         /\ s.squash = old.squash /\ s.raw = old.raw /\ s.nav = old.nav /\ s.pseudo = ps
    BY Zenon, <1>7, <1>9, <1>10, <1>11
  <1>14. derive_share_pseudo(s) = old.pseudo
    <2>1. CASE old.pseudo = old.name
      BY <1>2, <1>9, <1>12, <1>13, <2>1 DEF derive_share_pseudo
    <2>2. CASE old.pseudo # old.name
      BY Zenon, <1>9, <1>12, <1>13, <2>2 DEF derive_share_pseudo, SavedShare
    <2> QED
      BY SMTT(30), <2>1, <2>2
  <1> DEFINE t == [s EXCEPT !.pseudo = derive_share_pseudo(s)]
  <1>15. /\ t = [k \in ShareKeys |-> t[k]]
         /\ t.name = old.name /\ t.path = old.path /\ t.opts = old.opts /\ t.raw = old.raw
         /\ t.squash = old.squash /\ t.nav = old.nav /\ t.pseudo = old.pseudo
    BY <1>13, <1>14 DEF ShareKeys
  <1> HIDE DEF t, old
  <1>16. \A k \in ShareKeys : t[k] = old[k]
    BY <1>15 DEF ShareKeys
  <1>17. t = old
    BY <1>15, <1>16 DEF SavedShare, old
  <1> QED
    BY <1>17 DEF t, old

\* Saving the shares of a file again leaves it as a shares save has left it.
LEMMA SharesResaved ==
  ASSUME NEW f, IsConfig(f), validate_and_derive(f), LastInv(f, "shares")
  PROVE  LET rows == build_settings_template(f).rows
         IN apply_shares_to_toml_doc(f, SavedShares(f, load(f), rows, f.nav)) = f
  <1> DEFINE d == derive(f)
             rows == [i \in DOMAIN f.shares |-> ShareRow(f, d, i)]
             c == SavedShares(f, d, rows, f.nav)
             e == derive(c)
  <1>1. IsConfig(d) /\ DerivedFrom(d, f, env) /\ load(f) = d
    BY Derived, Loaded
  <1>2. build_settings_template(f).rows = rows
    <2>1. DOMAIN d.shares = DOMAIN f.shares
      BY SMTT(30), <1>1 DEF DerivedFrom
    <2> HIDE DEF d
    <2> QED
      BY <1>1, <2>1 DEF build_settings_template
  <1>3. IsRows(rows) /\ DOMAIN rows = DOMAIN f.shares
    BY <1>2, Rendered DEF PageInv, IsPage
  <1>4. /\ IsConfig(c) /\ DOMAIN c.shares = DOMAIN f.shares
        /\ c.shares = NewShares(f, d, rows, f.nav)
    BY <1>1, <1>3, SharesMerged
  <1>5. \A i \in DOMAIN f.shares :
          [c.shares[i] EXCEPT !.pseudo = derive_share_pseudo(c.shares[i])] = f.shares[i]
    <2> TAKE i \in DOMAIN f.shares
    <2>1. SavedShare(f.shares[i])
      BY DEF LastInv
    <2>2. c.shares[i] = NewShares(f, d, rows, f.nav)[i]
      BY <1>4
    <2> HIDE DEF c
    <2> QED
      BY <2>1, <2>2, ShareResaved
  <1> HIDE DEF c
  <1>6. DerivedFrom(e, c, env)
    BY <1>4, Derived
  <1> HIDE DEF e
  <1>7. e.shares = f.shares
    <2>1. e.shares = [i \in DOMAIN f.shares |->
                        [c.shares[i] EXCEPT !.pseudo = derive_share_pseudo(c.shares[i])]]
      BY <1>4, <1>6 DEF DerivedFrom
    <2>2. f.shares = [i \in DOMAIN f.shares |-> f.shares[i]]
      BY DEF LastInv
    <2> QED
      BY Zenon, <1>5, <2>1, <2>2
  <1>8. apply_shares_to_toml_doc(f, c) = [f EXCEPT !.shares = f.shares]
    BY <1>7 DEF apply_shares_to_toml_doc, e
  <1>9. f = [k \in ConfigKeys |-> f[k]] /\ DOMAIN f = ConfigKeys
    BY DEF LastInv, IsConfig
  <1>10. [f EXCEPT !.shares = f.shares] = f
    BY <1>9
  <1> QED
    BY <1>1, <1>2, <1>8, <1>10 DEF c

\* Saving the panes again leaves the file as a structured save has left it, if no
\* key that a pane shows is overridden.
LEMMA PanesResaved ==
  ASSUME NEW f, IsConfig(f), validate_and_derive(f), LastInv(f, "structured"),
         env \subseteq {"pw"}
  PROVE  apply_structured_form_to_toml_doc(build_settings_template(f).scalars, f) = f
  <1> DEFINE d == derive(f)
             form == ScalarForm(f)
             g == apply_structured_form_to_toml_doc(form, f)
  <1>1. DerivedFrom(d, f, env) /\ ValidScalars(d) /\ load(f) = d
    BY Derived, Loaded DEF validate_and_derive
  <1> HIDE DEF d
  <1>2. build_settings_template(f).scalars = form
    BY DEF build_settings_template
  <1>3. /\ form.uri = d.uri /\ form.pw = "blank" /\ form.timeout = d.timeout /\ form.nav = d.nav
        /\ form.realm.custom = (f.realm # "unset") /\ form.realm.v = d.realm
        /\ form.base.custom = (f.base # "unset") /\ form.base.v = d.base
        /\ form.sec.custom = (f.sec \notin {"unset", "krb5p"}) /\ form.sec.v = d.sec
        /\ form.tls.custom = (f.tls # "unset") /\ form.tls.v = (d.tls = "on")
        /\ form.probe.auto = (f.probe = "unset") /\ form.probe.v = d.probe
    BY Zenon, <1>1 DEF ScalarForm, has_explicit
  <1>4. /\ d.uri = f.uri /\ d.timeout = f.timeout /\ d.nav = f.nav /\ d.tls = f.tls
        /\ d.probe = f.probe
        /\ f.realm # "unset" => d.realm = f.realm
        /\ f.base # "unset" => d.base = f.base
        /\ d.sec = f.sec
    BY <1>1 DEF DerivedFrom, LastInv, SavedPane
  <1>5. PaneOf(g, form, f)
    <2> HIDE DEF form
    <2> QED
      BY PaneWritten DEF IsConfig
  <1> HIDE DEF form, g
  <1>6. g.uri = f.uri /\ g.pw = f.pw /\ g.timeout = f.timeout /\ g.nav = f.nav
    BY <1>3, <1>4, <1>5 DEF PaneOf, DocPassword
  <1>7. g.realm = f.realm /\ g.base = f.base
    BY Zenon, <1>3, <1>4, <1>5 DEF PaneOf, LastInv, SavedPane
  <1>8. g.sec = f.sec /\ g.tls = f.tls
    BY Zenon, <1>3, <1>4, <1>5 DEF PaneOf, LastInv, SavedPane
  <1>9. g.probe = f.probe
    BY Zenon, <1>3, <1>4, <1>5 DEF PaneOf, LastInv, SavedPane, ProbeValue
  <1>10. \A k \in ConfigKeys : g[k] = f[k]
    BY <1>5, <1>6, <1>7, <1>8, <1>9 DEF PaneOf, ConfigKeys
  <1>11. g = f
    BY <1>5, <1>10 DEF PaneOf, LastInv
  <1> QED
    BY <1>2, <1>11 DEF g

\* What a pane has saved it reads back.  The pages show effective values: with an
\* override of a key that a pane shows, saving the pane writes the override into
\* the file, so the containers are the ones that override the password only.
THEOREM ResavingLeavesTheFile ==
  ASSUME \A e \in Envs : e \subseteq {"pw"}
  PROVE  SettingsSpec => []ResavingIsNeutral
  <1>1. SettingsInv => ResavingIsNeutral
    <2> SUFFICES ASSUME SettingsInv PROVE ResavingIsNeutral
      OBVIOUS
    <2>1. IsConfig(file) /\ validate_and_derive(file) /\ LastInv(file, last)
      BY Zenon, LoadsIff DEF SettingsInv
    <2>2. env \subseteq {"pw"}
      BY DEF SettingsInv
    <2>3. last = "shares" =>
            apply_shares_to_toml_doc(file, SavedShares(file, load(file),
                                       build_settings_template(file).rows, file.nav)) = file
      BY <2>1, SharesResaved
    <2>4. last = "structured" =>
            apply_structured_form_to_toml_doc(build_settings_template(file).scalars, file) = file
      BY <2>1, <2>2, PanesResaved
    <2> QED
      BY Zenon, <2>3, <2>4 DEF ResavingIsNeutral
  <1> QED
    BY <1>1, SettingsInvariance, PTL

\* A shares save whose page and whose reads were of the file it replaces carries
\* the keys without a control over to the row of the share.  Rows are matched by
\* position, so the rows an administrator deletes are the last ones.
THEOREM RawKeysSurvive ==
  ASSUME Deletable \subseteq {"last"}
  PROVE  SettingsSpec => RowsKeepSettings
  <1> DEFINE Kept(a) ==
        flight[a].does = "shares" /\ file' # file /\ flight'[a] = NoSave /\ Fresh(a) =>
          \A i \in DOMAIN file.shares, j \in DOMAIN page[a].rows :
            page[a].rows[j].of = file.shares[i].path =>
              /\ file'.shares[j].raw = file.shares[i].raw
              /\ ~file.nav => file'.shares[j].nav = file.shares[i].nav
  <1>1. ASSUME SettingsInv, [SettingsNext]_settingsVars, NEW a \in Admins
        PROVE  Kept(a)
    <2> SUFFICES ASSUME flight[a].does = "shares", file' # file, flight'[a] = NoSave, Fresh(a),
                        NEW i \in DOMAIN file.shares, NEW j \in DOMAIN page[a].rows,
                        page[a].rows[j].of = file.shares[i].path
                 PROVE  /\ file'.shares[j].raw = file.shares[i].raw
                        /\ ~file.nav => file'.shares[j].nav = file.shares[i].nav
      OBVIOUS
    <2> DEFINE d == derive(file)
               rows == page[a].rows
               c == SavedShares(file, d, rows, file.nav)
               new == collect_shares_from_structured_form(rows, file.nav)
    <2>1. /\ IsConfig(file) /\ validate_and_derive(file) /\ DOMAIN flight = Admins
          /\ page[a] # NoPage
      <3>1. IsConfig(file) /\ Loads(file, env) /\ DOMAIN flight = Admins
        BY <1>1 DEF SettingsInv
      <3>2. FlightInv(flight[a], page[a], env)
        BY <1>1 DEF SettingsInv
      <3>3. page[a] # NoPage
        BY <3>2 DEF FlightInv
      <3> QED
        BY <3>1, <3>3, LoadsIff
    <2>2. PICK b \in Admins : Step(b)
      BY <1>1 DEF SettingsNext, settingsVars
    <2>3. b = a
      <3>1. flight'[a] # flight[a]
        BY DEF NoSave
      <3>2. ASSUME b # a PROVE flight'[a] = flight[a]
        BY Zenon, <2>1, <2>2, <3>2 DEF Step, settings_page, Edit, settings_save_raw, WriteRaw,
             settings_save_structured, WriteStructured, settings_save_shares, LoadOld,
             WriteShares, Started, Written, Refused, Answered
      <3> QED
        BY <3>1, <3>2
    <2>4. WriteShares(a)
      <3>1. flight[a] # NoSave
        BY DEF NoSave
      <3> QED
        BY Zenon, <2>2, <2>3, <3>1 DEF Step, settings_page, Edit, settings_save_raw, WriteRaw,
             settings_save_structured, WriteStructured, settings_save_shares, LoadOld, Started
    <2>5. page[a].base = file /\ flight[a].doc = file /\ flight[a].cfg = d
      BY <2>1, Loaded DEF Fresh
    <2>6. IsConfig(d) /\ DerivedFrom(d, file, env)
      BY <2>1, Derived
    <2> HIDE DEF d
    <2>7. file' = apply_shares_to_toml_doc(file, c)
      <3> DEFINE w == apply_shares_to_toml_doc(flight[a].doc,
                        SavedShares(flight[a].doc, flight[a].cfg, rows, page[a].base.nav))
      <3>1. Written(a, w, "shares") \/ Refused(a)
        BY Zenon, <2>4 DEF WriteShares
      <3>2. file' = w
        BY SMTT(30), <3>1 DEF Written, Refused
      <3> QED
        BY Zenon, <2>5, <3>2
    <2>8. IsRows(rows) /\ InPlace(rows, file)
      <3>1. PageInv(page[a], env)
        BY <1>1, <2>1 DEF SettingsInv
      <3> QED
        BY <2>5, <3>1 DEF PageInv, IsPage
    <2>9. i = j
      <3>1. IsShare(file.shares[i]) /\ ValidShares(file.shares)
        BY Zenon, <2>1, Valid DEF IsConfig
      <3>2. j \in DOMAIN file.shares /\ file.shares[j].path = file.shares[i].path
        <4>1. j \in DOMAIN rows /\ rows[j].of = file.shares[i].path
          OBVIOUS
        <4> HIDE DEF rows
        <4> QED
          BY <2>8, <3>1, <4>1 DEF InPlace, IsShare
      <3> QED
        BY <3>1, <3>2 DEF ValidShares, Distinct
    <2>10. /\ IsConfig(c) /\ DOMAIN c.shares = DOMAIN rows
           /\ c.shares = NewShares(file, d, rows, file.nav)
      <3>1. IsConfig(d) /\ IsRows(rows)
        BY Zenon, <2>6, <2>8
      <3> HIDE DEF rows
      <3> QED
        BY <3>1, SharesMerged
    <2> HIDE DEF c
    <2> DEFINE w == derive(c).shares[i]
    <2>11. /\ file'.shares[i] = w
           /\ w = [c.shares[i] EXCEPT !.pseudo = derive_share_pseudo(c.shares[i])]
      <3>1. DerivedFrom(derive(c), c, env)
        BY <2>10, Derived
      <3>2. file'.shares = derive(c).shares
        BY <2>1, <2>7 DEF apply_shares_to_toml_doc, IsConfig, ConfigKeys
      <3> QED
        BY <2>9, <2>10, <3>1, <3>2 DEF DerivedFrom
    <2>12. IsShare(c.shares[i])
      BY <2>9, <2>10 DEF IsConfig
    <2> HIDE DEF w
    <2>13. file'.shares[i].raw = c.shares[i].raw /\ file'.shares[i].nav = c.shares[i].nav
      <3>1. w.raw = c.shares[i].raw /\ w.nav = c.shares[i].nav
        BY <2>11, <2>12, PseudoOnce
      <3> QED
        BY Zenon, <2>11, <3>1
    <2>14. c.shares[i] = Merged(file, d, i, new[i]) /\ DOMAIN new = DOMAIN rows
      <3>1. NewShares(file, d, rows, file.nav) = [k \in DOMAIN new |-> Merged(file, d, k, new[k])]
        BY SMTT(30) DEF NewShares
      <3>2. DOMAIN new = DOMAIN rows
        BY DEF collect_shares_from_structured_form
      <3> HIDE DEF new
      <3> QED
        BY <2>9, <2>10, <3>1, <3>2
    <2>15. DOMAIN new[i] = ShareKeys /\ new[i].nav = (file.nav /\ rows[i].nav)
      BY Zenon, <2>9 DEF collect_shares_from_structured_form, ShareKeys
    <2> HIDE DEF new
    <2>16. i \in DOMAIN d.shares /\ d.nav = file.nav /\ IsShare(file.shares[i])
           /\ d.shares[i] = [file.shares[i] EXCEPT !.pseudo = derive_share_pseudo(file.shares[i])]
      BY <2>1, <2>6 DEF DerivedFrom, IsConfig
    <2>17. d.shares[i].raw = file.shares[i].raw /\ d.shares[i].nav = file.shares[i].nav
      BY SMTT(30), <2>16, PseudoOnce
    <2>18. /\ c.shares[i].raw = d.shares[i].raw
           /\ c.shares[i].nav = (new[i].nav \/ (~d.nav /\ d.shares[i].nav))
      <3>1. MergedFrom(Merged(file, d, i, new[i]), file, d, i, new[i])
        <4>1. IsConfig(d) /\ i \in DOMAIN d.shares /\ DOMAIN new[i] = ShareKeys
          BY <2>6, <2>15, <2>16
        <4> QED
          BY Zenon, <4>1, MergedAt
      <3>2. MergedFrom(c.shares[i], file, d, i, new[i])
        <4>1. c.shares[i] = Merged(file, d, i, new[i])
          BY <2>14
        <4> QED
          BY Zenon, <3>1, <4>1
      <3> QED
        BY <3>2 DEF MergedFrom
    <2>19. ~file.nav => c.shares[i].nav = file.shares[i].nav
      BY <2>15, <2>16, <2>17, <2>18 DEF IsShare
    <2> QED
      BY <2>9, <2>13, <2>17, <2>18, <2>19
  <1>2. SettingsInv /\ [SettingsNext]_settingsVars => [\A a \in Admins : Kept(a)]_settingsVars
    BY <1>1
  <1>3. RowsKeepSettings <=> [][\A a \in Admins : Kept(a)]_settingsVars
    BY PTL DEF RowsKeepSettings
  <1> QED
    BY <1>2, <1>3, SettingsInvariance, PTL DEF SettingsSpec

-----------------------------------------------------------------------------
(***************************************************************************)
(* The lists of the directory.                                             *)
(***************************************************************************)

ListNames == Range(Lists)

Rows == [server : Servers, v : Nat, old : Nat, age : 0 .. Ttl]
LdapClient == [server : Servers, slot : [ListNames -> SUBSET Rows], refreshed : SUBSET Nat]
Working ==
  [does : {"search", "refresh"}, client : Nat, todo : Seq(ListNames), at : {"ask", "wait", "got"},
   got : Nat, age : 0 .. Slow]

\* A list of the client's own server, stored within one search of having been read.
FreshLists(client) ==
  \A l \in ListNames : \A rows \in client.slot[l] :
    rows.server = client.server /\ rows.old <= rows.age + Slow

Sound(cs) ==
  /\ cs \in Seq(LdapClient) /\ cs # <<>>
  /\ \A c \in DOMAIN cs : FreshLists(cs[c])

(***************************************************************************)
(* The inductive invariant.  ListsFresh itself is not inductive: it says   *)
(* nothing of a list that is stored late, nor of the task that is about to *)
(* store one.  A list is never older than its age in the cache by more     *)
(* than one search, and a task that has an answer has it for at most one   *)
(* search.                                                                 *)
(***************************************************************************)
ListsInv ==
  /\ content \in [Servers -> Nat] /\ lists \in Seq(ListNames) /\ lists # <<>>
  /\ Sound(clients)
  /\ task \in [Tasks -> Working \cup {NoTask}]
  /\ \A t \in Tasks : task[t] # NoTask => task[t].client \in DOMAIN clients /\ task[t].todo # <<>>

-----------------------------------------------------------------------------
(***************************************************************************)
(* The clients.                                                            *)
(***************************************************************************)

\* A function on 1 .. n is a sequence of length n.
LEMMA FunIsSeq ==
  ASSUME NEW S, NEW n \in Nat, NEW f \in [1 .. n -> S]
  PROVE  f \in Seq(S) /\ Len(f) = n /\ DOMAIN f = 1 .. n
  BY SMTT(30), SeqDef

\* A client that was just built has no lists.
LEMMA NewClientSound ==
  ASSUME NEW s \in Servers PROVE NewClient(s) \in LdapClient /\ FreshLists(NewClient(s))
  BY DEF NewClient, LdapClient, FreshLists, ListNames

\* One client is replaced by another one.
LEMMA ReplacedSound ==
  ASSUME NEW cs, Sound(cs), NEW c \in DOMAIN cs, NEW client \in LdapClient, FreshLists(client),
         NEW ds, ds = [cs EXCEPT ![c] = client]
  PROVE  Sound(ds) /\ DOMAIN ds = DOMAIN cs
  <1>1. ds \in Seq(LdapClient) /\ Len(ds) = Len(cs) /\ Len(cs) # 0
    BY DEF Sound
  <1> QED
    BY <1>1 DEF Sound

\* Clients are freed.
LEMMA HeldSound ==
  ASSUME NEW cs, Sound(cs), NEW tasks
  PROVE  Sound(Held(cs, tasks)) /\ DOMAIN Held(cs, tasks) = DOMAIN cs
  <1> DEFINE held == Held(cs, tasks)
  <1>1. /\ DOMAIN held = 1 .. Len(cs) /\ DOMAIN held = DOMAIN cs
        /\ Len(cs) \in Nat \ {0}
    BY DEF Sound, Held
  <1>2. ASSUME NEW c \in DOMAIN cs PROVE held[c] \in LdapClient /\ FreshLists(held[c])
    <2>1. cs[c] \in LdapClient /\ FreshLists(cs[c])
      BY DEF Sound
    <2>3. cs[c].server \in Servers
      BY <2>1 DEF LdapClient
    <2>2. held[c] \in {cs[c], NewClient(cs[c].server)}
      BY DEF Held
    <2> QED
      BY <2>1, <2>2, <2>3, NewClientSound
  <1>3. held \in [1 .. Len(cs) -> LdapClient]
    BY <1>1, <1>2 DEF Held
  <1>4. held \in Seq(LdapClient) /\ Len(held) = Len(cs)
    BY <1>1, <1>3, FunIsSeq
  <1> QED
    BY <1>1, <1>2, <1>4 DEF Sound

\* Lists that have expired are dropped.
LEMMA EvictedSound ==
  ASSUME Sound(clients), NEW c \in DOMAIN clients
  PROVE  Sound(Evicted(c)) /\ DOMAIN Evicted(c) = DOMAIN clients
  <1> DEFINE client == [clients[c] EXCEPT !.slot = [l \in ListNames |-> evict_expired(@[l])]]
  <1>1. clients[c] \in LdapClient /\ FreshLists(clients[c])
    BY DEF Sound
  <1>2. client \in LdapClient /\ FreshLists(client)
    BY <1>1 DEF LdapClient, FreshLists, evict_expired
  <1>3. Evicted(c) = [clients EXCEPT ![c] = client]
    BY DEF Evicted, ListNames
  <1> HIDE DEF client
  <1> QED
    BY Zenon, <1>2, <1>3, ReplacedSound

\* The lists of one client are cleared.
LEMMA ClearedSound ==
  ASSUME Sound(clients), NEW c \in DOMAIN clients
  PROVE  Sound(clear_cache(c)) /\ DOMAIN clear_cache(c) = DOMAIN clients
  <1> DEFINE client == [clients[c] EXCEPT !.slot = [l \in ListNames |-> {}]]
  <1>1. clients[c] \in LdapClient
    BY DEF Sound
  <1>2. client \in LdapClient /\ FreshLists(client)
    BY <1>1 DEF LdapClient, FreshLists
  <1>3. clear_cache(c) = [clients EXCEPT ![c] = client]
    BY DEF clear_cache, ListNames
  <1> HIDE DEF client
  <1> QED
    BY Zenon, <1>2, <1>3, ReplacedSound

\* An answer that is at most one search old is stored in the client that asked.
LEMMA StoredSound ==
  ASSUME Sound(clients), NEW c \in DOMAIN clients, NEW l \in ListNames, NEW rows \in Rows,
         rows.server = clients[c].server, rows.old <= rows.age + Slow
  PROVE  Sound(store_full_list(c, l, rows)) /\ DOMAIN store_full_list(c, l, rows) = DOMAIN clients
  <1> DEFINE client == [clients[c] EXCEPT !.slot = [@ EXCEPT ![l] = {rows}]]
  <1>1. clients[c] \in LdapClient /\ FreshLists(clients[c])
    BY DEF Sound
  <1>2. client \in LdapClient /\ FreshLists(client)
    BY <1>1 DEF LdapClient, FreshLists
  <1>3. store_full_list(c, l, rows) = [clients EXCEPT ![c] = client]
    BY <1>1 DEF store_full_list, LdapClient
  <1> HIDE DEF client
  <1> QED
    BY Zenon, <1>2, <1>3, ReplacedSound

\* The end of a refresh is noted.
LEMMA RefreshedSound ==
  ASSUME NEW cs, Sound(cs), NEW t, task[t].client \in DOMAIN cs
  PROVE  Sound(Refreshed(t, cs)) /\ DOMAIN Refreshed(t, cs) = DOMAIN cs
  <1> DEFINE c == task[t].client
             client == [cs[c] EXCEPT !.refreshed = {0}]
  <1>1. cs[c] \in LdapClient /\ FreshLists(cs[c])
    BY DEF Sound
  <1>2. client \in LdapClient /\ FreshLists(client)
    BY <1>1 DEF LdapClient, FreshLists
  <1>3. Refreshed(t, cs) = cs \/ Refreshed(t, cs) = [cs EXCEPT ![c] = client]
    BY DEF Refreshed
  <1> HIDE DEF client
  <1> QED
    BY <1>2, <1>3, ReplacedSound

\* Time passes: a list and what it was read from grow old together.
LEMMA TickSound ==
  ASSUME Sound(clients), Tick PROVE Sound(clients') /\ DOMAIN clients' = DOMAIN clients
  <1>1. Len(clients) \in Nat \ {0} /\ DOMAIN clients = 1 .. Len(clients)
    BY DEF Sound
  <1>2. ASSUME NEW c \in DOMAIN clients PROVE clients'[c] \in LdapClient /\ FreshLists(clients'[c])
    <2> DEFINE client == clients[c]
               grown(rows) == [rows EXCEPT !.age = Older(@, Ttl), !.old = Older(@, Ttl + Slow)]
               slot == [l \in ListNames |-> {grown(rows) : rows \in client.slot[l]}]
               noted == {Older(age, Every) : age \in client.refreshed}
    <2>1. client \in LdapClient /\ FreshLists(client)
      BY DEF Sound
    <2>2. clients'[c] = [client EXCEPT !.slot = slot, !.refreshed = noted]
      BY Zenon DEF Tick, ListNames
    <2>3. ASSUME NEW l \in ListNames, NEW rows \in client.slot[l]
          PROVE  /\ grown(rows) \in Rows
                 /\ grown(rows).server = client.server
                 /\ grown(rows).old <= grown(rows).age + Slow
      <3>1. rows \in Rows /\ rows.server = client.server /\ rows.old <= rows.age + Slow
        BY <2>1 DEF LdapClient, FreshLists
      <3> DEFINE age == Older(rows.age, Ttl)
                 old == Older(rows.old, Ttl + Slow)
      <3>2. age \in 0 .. Ttl /\ old \in Nat /\ old <= age + Slow
        BY <3>1, ListsAssumption DEF Rows, Older
      <3>3. grown(rows) = [rows EXCEPT !.age = age, !.old = old]
        OBVIOUS
      <3> HIDE DEF age, old, grown
      <3> QED
        BY Zenon, <3>1, <3>2, <3>3 DEF Rows
    <2> HIDE DEF grown
    <2>4. slot \in [ListNames -> SUBSET Rows]
      BY <2>3
    <2>5. noted \in SUBSET Nat
      BY <2>1 DEF LdapClient, Older
    <2>6. \A l \in ListNames : \A rows \in slot[l] :
            rows.server = client.server /\ rows.old <= rows.age + Slow
      BY <2>3
    <2> HIDE DEF slot, noted, client
    <2> QED
      BY Zenon, <2>1, <2>2, <2>4, <2>5, <2>6 DEF LdapClient, FreshLists
  <1>3. clients' \in [1 .. Len(clients) -> LdapClient]
    BY Zenon, <1>1, <1>2 DEF Tick
  <1>4. /\ clients' \in Seq(LdapClient)
        /\ Len(clients') = Len(clients) /\ DOMAIN clients' = DOMAIN clients
    BY SMTT(30), <1>1, <1>3, FunIsSeq
  <1> QED
    BY <1>1, <1>2, <1>4 DEF Sound

-----------------------------------------------------------------------------
(***************************************************************************)
(* The tasks.                                                              *)
(***************************************************************************)

\* One task changes.
LEMMA TaskChanges ==
  ASSUME ListsInv, NEW t \in Tasks, NEW w \in Working \cup {NoTask},
         w # NoTask => w.client \in DOMAIN clients /\ w.todo # <<>>,
         task' = [task EXCEPT ![t] = w], Sound(clients'), DOMAIN clients' = DOMAIN clients,
         UNCHANGED <<content, lists>>
  PROVE  ListsInv'
  BY DEF ListsInv

\* What is known of a task that is at work.
LEMMA AtWork ==
  ASSUME ListsInv, NEW t \in Tasks, task[t].at # "none"
  PROVE  /\ task[t] \in Working /\ task[t].client \in DOMAIN clients
         /\ task[t].todo # <<>> /\ Head(task[t].todo) \in ListNames
  <1>1. task[t] \in Working /\ task[t] # NoTask
    BY DEF ListsInv, NoTask
  <1>2. task[t].todo \in Seq(ListNames) /\ task[t].todo # <<>>
    BY <1>1 DEF ListsInv, Working
  <1>3. Head(task[t].todo) \in ListNames
    BY SMTT(30), <1>2
  <1> QED
    BY <1>1, <1>2, <1>3 DEF ListsInv

\* A task takes the client that is in use.
LEMMA BeginsKeeps ==
  ASSUME ListsInv, NEW t \in Tasks, NEW does \in {"search", "refresh"},
         NEW todo \in Seq(ListNames), todo # <<>>, Begins(t, does, todo),
         UNCHANGED <<clients, content, lists>>
  PROVE  ListsInv'
  <1> DEFINE w == [does |-> does, client |-> Client, todo |-> todo, at |-> AtFirst(does),
                   got |-> 0, age |-> 0]
  <1>1. Client \in Nat /\ Client \in DOMAIN clients
    <2>1. clients \in Seq(LdapClient) /\ clients # <<>>
      BY Zenon DEF ListsInv, Sound
    <2> QED
      BY <2>1 DEF Client
  <1>2. w \in Working /\ w.client \in DOMAIN clients /\ w.todo # <<>>
    <2>1. AtFirst(does) \in {"ask", "wait", "got"}
      BY DEF AtFirst
    <2>2. 0 \in Nat /\ 0 \in 0 .. Slow
      BY ListsAssumption
    <2> QED
      BY Zenon, <1>1, <2>1, <2>2 DEF Working
  <1>3. task' = [task EXCEPT ![t] = w]
    BY DEF Begins
  <1> HIDE DEF w
  <1> QED
    BY <1>2, <1>3, TaskChanges DEF ListsInv

\* What is left of the lists to do, after one of several.
LEMMA TailLeft ==
  ASSUME NEW S, NEW todo \in Seq(S), todo # <<>>, Len(todo) # 1
  PROVE  Tail(todo) \in Seq(S) /\ Tail(todo) # <<>>
  <1>1. Tail(todo) \in Seq(S) /\ Len(Tail(todo)) = Len(todo) - 1
    BY HeadTailProperties
  <1>2. Len(todo) \in Nat \ {0, 1}
    BY EmptySeq
  <1>3. Len(Tail(todo)) # 0
    BY <1>1, <1>2
  <1> QED
    BY Zenon, <1>1, <1>3, EmptySeq

\* A task goes on to its next list, or ends.
LEMMA ProceedsKeeps ==
  ASSUME ListsInv, NEW t \in Tasks, task[t].at # "none", Proceeds(t), Sound(clients'),
         DOMAIN clients' = DOMAIN clients, UNCHANGED <<content, lists>>
  PROVE  ListsInv'
  <1> DEFINE next == [task[t] EXCEPT !.todo = Tail(@), !.at = AtFirst(task[t].does),
                                     !.got = 0, !.age = 0]
  <1>1. task[t] \in Working /\ task[t].client \in DOMAIN clients /\ task[t].todo # <<>>
    BY AtWork
  <1>2. CASE Len(task[t].todo) = 1
    <2>1. task' = [task EXCEPT ![t] = NoTask]
      BY <1>2 DEF Proceeds
    <2> QED
      BY Zenon, <2>1, TaskChanges
  <1>3. CASE Len(task[t].todo) # 1
    <2>1. task' = [task EXCEPT ![t] = next]
      <3> DEFINE w == IF Len(task[t].todo) = 1 THEN NoTask ELSE next
      <3>1. task' = [task EXCEPT ![t] = w]
        BY DEF Proceeds
      <3>2. w = next
        BY <1>3
      <3> HIDE DEF w, next
      <3> QED
        BY <3>1, <3>2
    <2>2. task[t].todo \in Seq(ListNames)
      BY <1>1 DEF Working
    <2>3. Tail(task[t].todo) \in Seq(ListNames) /\ Tail(task[t].todo) # <<>>
      BY <1>1, <1>3, <2>2, TailLeft
    <2>4. next \in Working /\ next.client = task[t].client /\ next.todo = Tail(task[t].todo)
      <3> DEFINE rest == Tail(task[t].todo)
                 at == AtFirst(task[t].does)
      <3>1. rest \in Seq(ListNames) /\ at \in {"ask", "wait"} /\ 0 \in 0 .. Slow
        BY <2>3, ListsAssumption DEF AtFirst
      <3>2. next = [task[t] EXCEPT !.todo = rest, !.at = at, !.got = 0, !.age = 0]
        OBVIOUS
      <3> HIDE DEF rest, at, next
      <3>3. next \in Working /\ next.client = task[t].client /\ next.todo = rest
        BY Zenon, <1>1, <3>1, <3>2 DEF Working
      <3> QED
        BY <3>3 DEF rest
    <2> HIDE DEF next
    <2> QED
      BY Zenon, <1>1, <2>1, <2>3, <2>4, TaskChanges
  <1> QED
    BY <1>2, <1>3

-----------------------------------------------------------------------------
(***************************************************************************)
(* The steps.                                                              *)
(***************************************************************************)

\* The process starts with one client that has no lists.
LEMMA ListsInitInv == Init => ListsInv
  <1> SUFFICES ASSUME Init PROVE ListsInv
    OBVIOUS
  <1>1. Sound(clients)
    BY NewClientSound, ListsAssumption DEF Init, Sound
  <1>2. Lists \in Seq(ListNames) /\ Lists # <<>> /\ Head(Lists) \in ListNames
    BY ListsAssumption, HeadTailProperties DEF ListNames
  <1>3. lists \in Seq(ListNames) /\ lists # <<>>
    <2>1. \A l \in ListNames : <<l>> \in Seq(ListNames) /\ <<l>> # <<>>
      OBVIOUS
    <2>2. lists = Lists \/ lists = <<Head(Lists)>>
      BY DEF Init
    <2> QED
      BY Zenon, <1>2, <2>1, <2>2
  <1>4. /\ content \in [Servers -> Nat]
        /\ task \in [Tasks -> Working \cup {NoTask}] /\ \A t \in Tasks : task[t] = NoTask
    BY DEF Init
  <1> QED
    BY <1>1, <1>3, <1>4 DEF ListsInv

\* The steps of a task.
LEMMA TaskStepInv == ASSUME ListsInv, NEW t \in Tasks, TaskStep(t) PROVE ListsInv'
  <1> USE DEF chosen
  <1> DEFINE c == task[t].client
  <1>1. task[t].at # "none"
    BY DEF TaskStep, full_list_rows, SearchReads, SearchFails, fetch_and_store_full_list
  <1>2. /\ task[t] \in Working /\ c \in DOMAIN clients
        /\ task[t].todo # <<>> /\ Head(task[t].todo) \in ListNames
    BY <1>1, AtWork
  <1>3. Sound(clients)
    BY DEF ListsInv
  <1>4. CASE full_list_rows(t)
    <2>1. Sound(clients') /\ DOMAIN clients' = DOMAIN clients /\ UNCHANGED <<content, lists>>
      BY <1>2, <1>3, <1>4, EvictedSound, HeldSound DEF full_list_rows
    <2>2. CASE Proceeds(t)
      BY <1>1, <2>1, <2>2, ProceedsKeeps
    <2>3. CASE task' = [task EXCEPT ![t].at = "wait"]
      <3> DEFINE w == [task[t] EXCEPT !.at = "wait"]
      <3>1. w \in Working /\ w.client = c /\ w.todo = task[t].todo
        BY <1>2 DEF Working
      <3>2. task' = [task EXCEPT ![t] = w]
        BY <2>3
      <3> HIDE DEF w
      <3> QED
        BY Zenon, <1>2, <2>1, <3>1, <3>2, TaskChanges
    <2> QED
      BY <1>4, <2>2, <2>3 DEF full_list_rows
  <1>5. CASE SearchReads(t)
    <2> DEFINE read == content[clients[c].server]
               w == [task[t] EXCEPT !.at = "got", !.got = read]
    <2>1. clients[c] \in LdapClient
      BY <1>2, <1>3 DEF Sound
    <2>2. read \in Nat
      BY <2>1 DEF LdapClient, ListsInv
    <2>3. task' = [task EXCEPT ![t] = w] /\ UNCHANGED <<clients, content, lists>>
      BY Zenon, <1>5 DEF SearchReads
    <2> HIDE DEF read
    <2>4. w \in Working /\ w.client = c /\ w.todo = task[t].todo
      BY Zenon, <1>2, <2>2 DEF Working
    <2> HIDE DEF w
    <2> QED
      BY Zenon, <1>2, <1>3, <2>3, <2>4, TaskChanges
  <1>6. CASE SearchFails(t)
    <2>1. Sound(clients') /\ DOMAIN clients' = DOMAIN clients /\ UNCHANGED <<content, lists>>
      <3>1. Sound(Refreshed(t, clients)) /\ DOMAIN Refreshed(t, clients) = DOMAIN clients
        BY Zenon, <1>2, <1>3, RefreshedSound
      <3>2. clients' = Held(Refreshed(t, clients), task') /\ UNCHANGED <<content, lists>>
        BY Zenon, <1>6 DEF SearchFails
      <3> QED
        BY Zenon, <3>1, <3>2, HeldSound
    <2> QED
      BY Zenon, <1>1, <1>6, <2>1, ProceedsKeeps DEF SearchFails
  <1>7. CASE fetch_and_store_full_list(t)
    <2> DEFINE l == Head(task[t].todo)
               rows == [server |-> clients[c].server, v |-> task[t].got, old |-> task[t].age, age |-> 0]
               cs == store_full_list(c, l, rows)
    <2>1. clients[c] \in LdapClient
      BY <1>2, <1>3 DEF Sound
    <2>2. rows \in Rows /\ rows.server = clients[c].server /\ rows.old <= rows.age + Slow
      BY <1>2, <2>1, ListsAssumption DEF LdapClient, Working, Rows
    <2>3. clients' = Held(Refreshed(t, cs), task') /\ UNCHANGED <<content, lists>> /\ Proceeds(t)
      BY ZenonT(40), <1>7 DEF fetch_and_store_full_list
    <2> HIDE DEF rows
    <2>4. Sound(cs) /\ DOMAIN cs = DOMAIN clients
      <3>1. c \in DOMAIN clients /\ l \in ListNames
        BY Zenon, <1>2
      <3> HIDE DEF c, l
      <3> QED
        BY Zenon, <1>3, <2>2, <3>1, StoredSound
    <2> HIDE DEF cs
    <2>5. Sound(clients') /\ DOMAIN clients' = DOMAIN clients
      <3>1. Sound(Refreshed(t, cs)) /\ DOMAIN Refreshed(t, cs) = DOMAIN clients
        BY Zenon, <1>2, <2>4, RefreshedSound
      <3> QED
        BY Zenon, <2>3, <3>1, HeldSound
    <2> QED
      BY Zenon, <1>1, <2>3, <2>5, ProceedsKeeps
  <1> QED
    BY <1>4, <1>5, <1>6, <1>7 DEF TaskStep

\* Every step.
LEMMA ListsStepInv == ListsInv /\ [Next]_vars => ListsInv'
  <1> SUFFICES ASSUME ListsInv, [Next]_vars PROVE ListsInv'
    OBVIOUS
  <1> USE DEF chosen
  <1>1. Sound(clients) /\ Client \in DOMAIN clients
    BY DEF ListsInv, Sound, Client
  <1>2. Browsers \subseteq Tasks /\ "refresher" \in Tasks
    BY DEF Tasks
  <1>3. ASSUME NEW b \in Browsers, search(b) PROVE ListsInv'
    <2>1. PICK todo \in {<<l>> : l \in Range(lists)} \cup {lists} : Begins(b, "search", todo)
      BY <1>3 DEF search
    <2>2. todo \in Seq(ListNames) /\ todo # <<>>
      <3>1. lists \in Seq(ListNames) /\ Range(lists) \subseteq ListNames /\ lists # <<>>
        BY DEF ListsInv, Range
      <3>2. \A l \in ListNames : <<l>> \in Seq(ListNames) /\ <<l>> # <<>>
        OBVIOUS
      <3> QED
        BY Zenon, <3>1, <3>2
    <2> QED
      BY <1>2, <1>3, <2>1, <2>2, BeginsKeeps DEF search
  <1>4. lists \in Seq(ListNames) /\ lists # <<>>
    BY DEF ListsInv
  <1>5. ASSUME NEW b \in Browsers, settings_refresh_identity(b) PROVE ListsInv'
    BY <1>2, <1>4, <1>5, BeginsKeeps DEF settings_refresh_identity
  <1>6. ASSUME NEW b \in Browsers, clear_ldap_cache(b) PROVE ListsInv'
    <2>1. Sound(clients') /\ DOMAIN clients' = DOMAIN clients /\ UNCHANGED <<task, content, lists>>
      BY <1>1, <1>6, ClearedSound DEF clear_ldap_cache
    <2> QED
      BY <2>1 DEF ListsInv
  <1>7. ASSUME NEW b \in Browsers, reload_nfs_client(b) PROVE ListsInv'
    <2>1. PICK s \in Servers : clients' = Held(Append(clients, NewClient(s)), task)
      BY <1>7 DEF reload_nfs_client
    <2>2. /\ Sound(Append(clients, NewClient(s)))
          /\ DOMAIN clients \subseteq DOMAIN Append(clients, NewClient(s))
      <3> DEFINE client == NewClient(s)
      <3>1. client \in LdapClient /\ FreshLists(client)
        BY NewClientSound
      <3> HIDE DEF client
      <3> DEFINE cs == Append(clients, client)
      <3>2. /\ cs \in Seq(LdapClient) /\ Len(cs) = Len(clients) + 1
            /\ \A c \in DOMAIN clients : cs[c] = clients[c]
            /\ cs[Len(clients) + 1] = client
        BY <1>1, <3>1 DEF Sound
      <3>3. DOMAIN cs = 1 .. Len(clients) + 1 /\ DOMAIN clients = 1 .. Len(clients) /\ Len(clients) \in Nat
        BY <1>1, <3>2 DEF Sound
      <3> HIDE DEF cs
      <3>4. \A c \in DOMAIN cs : FreshLists(cs[c])
        BY <1>1, <3>1, <3>2, <3>3 DEF Sound
      <3>5. Sound(cs) /\ DOMAIN clients \subseteq DOMAIN cs
        BY <3>2, <3>3, <3>4 DEF Sound
      <3> QED
        BY <3>5 DEF cs, client
    <2>3. Sound(clients') /\ DOMAIN clients \subseteq DOMAIN clients'
      BY ZenonT(40), <2>1, <2>2, HeldSound
    <2> QED
      BY <1>7, <2>3 DEF ListsInv, reload_nfs_client
  <1>8. CASE RefresherWakes
    BY SMTT(30), <1>2, <1>4, <1>8, BeginsKeeps DEF RefresherWakes, ListsInv
  <1>9. CASE Tick
    <2>1. Sound(clients') /\ DOMAIN clients' = DOMAIN clients /\ UNCHANGED <<content, lists>>
      BY Zenon, <1>1, <1>9, TickSound DEF Tick
    <2>2. ASSUME NEW t \in Tasks
          PROVE  /\ task'[t] \in Working \cup {NoTask}
                 /\ task'[t] # NoTask => task[t] # NoTask /\ task'[t].client = task[t].client
                                          /\ task'[t].todo = task[t].todo
      <3>1. CASE task[t].at = "got"
        <4>1. task[t] \in Working /\ task[t].age < Slow
          BY Zenon, <1>9, <3>1, AtWork DEF Tick
        <4>3. task[t] # NoTask
          BY <3>1 DEF NoTask
        <4>2. task'[t] = [task[t] EXCEPT !.age = @ + 1]
          BY Zenon, <1>9, <3>1 DEF Tick
        <4> DEFINE age == task[t].age + 1
        <4>4. age \in 0 .. Slow
          BY <4>1, ListsAssumption DEF Working
        <4> HIDE DEF age
        <4>5. task'[t] = [task[t] EXCEPT !.age = age]
          BY <4>2 DEF age
        <4> QED
          BY <4>1, <4>3, <4>4, <4>5 DEF Working
      <3>2. CASE task[t].at # "got"
        BY Zenon, <1>9, <3>2 DEF Tick, ListsInv
      <3> QED
        BY <3>1, <3>2
    <2>3. task' \in [Tasks -> Working \cup {NoTask}]
      BY Zenon, <1>9, <2>2 DEF Tick
    <2> QED
      BY <2>1, <2>2, <2>3 DEF ListsInv
  <1>10. CASE Outage
    BY <1>10 DEF Outage, ListsInv
  <1>11. ASSUME NEW s \in Servers, EditEntries(s) PROVE ListsInv'
    BY <1>11 DEF EditEntries, ListsInv
  <1>12. CASE UNCHANGED vars
    BY <1>12 DEF vars, ListsInv
  <1> QED
    BY <1>3, <1>5, <1>6, <1>7, <1>8, <1>9, <1>10, <1>11, <1>12, TaskStepInv DEF Next

-----------------------------------------------------------------------------
(***************************************************************************)
(* The theorem.                                                            *)
(***************************************************************************)

\* The invariant holds in every state.
LEMMA ListsInvariance == Spec => []ListsInv
  BY ListsInitInv, ListsStepInv, PTL DEF Spec

\* The search fields are answered from the client's own server as it was within
\* one lifetime of a list and one search (full_list_rows, cached_full_list and
\* fetch_and_store_full_list of ldap.rs).
THEOREM SearchesFresh == Spec => []ListsFresh
  <1>1. ListsInv => ListsFresh
    <2> SUFFICES ASSUME ListsInv, NEW c \in DOMAIN clients, NEW l \in ListNames,
                        NEW rows \in cached_full_list(c, l)
                 PROVE  rows.server = clients[c].server /\ rows.old < Ttl + Slow
      BY DEF ListsFresh, ListNames
    <2>1. clients[c] \in LdapClient /\ FreshLists(clients[c])
      BY DEF ListsInv, Sound
    <2>2. rows \in clients[c].slot[l] /\ rows.age < Ttl
      BY DEF cached_full_list, evict_expired
    <2>3. rows \in Rows
      BY <2>1, <2>2 DEF LdapClient
    <2> QED
      BY <2>1, <2>2, <2>3, ListsAssumption DEF FreshLists, Rows
  <1> QED
    BY <1>1, ListsInvariance, PTL

=============================================================================
