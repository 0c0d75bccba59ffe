----------------------------- MODULE MCSettings -----------------------------
(***************************************************************************)
(* Instances of Settings for TLC.                                          *)
(***************************************************************************)
EXTENDS Settings, TLC

Scalars ==
  [uri |-> "dns", realm |-> "unset", base |-> "unset", sec |-> "unset", pw |-> "secret",
   timeout |-> "unset", nav |-> FALSE, tls |-> "unset", probe |-> "unset",
   tuning |-> "ok", shares |-> <<>>]

Share(name, path, pseudo, squash, raw, nav) ==
  [name |-> name, path |-> path, pseudo |-> pseudo, squash |-> squash, raw |-> raw,
   nav |-> nav, opts |-> "ok"]

\* Two shares with everything explicit, and the same without the optional keys.
Full == [Scalars EXCEPT !.realm = "REALM", !.timeout = "long", !.sec = "sys", !.base = "DN",
           !.shares = <<Share("one", "p1", "custom", "root", "set", TRUE),
                        Share("two", "p2", "unset", "none", "unset", FALSE)>>]
Bare == [Scalars EXCEPT !.nav = TRUE, !.pw = "blank",
           !.shares = <<Share("one", "p1", "unset", "unset", "unset", FALSE)>>]
Broken == [Full EXCEPT !.shares = <<[Full.shares[1] EXCEPT !.opts = "bad"]>>]
TomlFiles == {Full, Bare, Broken}

Form(uri, timeout, nav) ==
  [uri |-> uri, pw |-> "blank", timeout |-> timeout, nav |-> nav,
   realm |-> [custom |-> TRUE, v |-> "REALM"], base |-> [custom |-> TRUE, v |-> "blank"],
   sec |-> [custom |-> TRUE, v |-> "sys"], tls |-> [custom |-> TRUE, v |-> TRUE],
   probe |-> [auto |-> FALSE, v |-> "user"]]
Panes == {Form("dns", "junk", TRUE), Form("dns", "short", FALSE), Form("ip", "unset", FALSE),
          [Form("dns", "unset", FALSE) EXCEPT !.pw = "secret", !.base.custom = FALSE,
                                             !.sec.custom = FALSE, !.tls.custom = FALSE,
                                             !.probe.auto = TRUE]}
Symm == Permutations(Admins)
Overrides == {{}, {"pw"}}

=============================================================================
