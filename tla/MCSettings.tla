------------------------------ MODULE MCSettings ------------------------------
(* A small installation for TLC. *)
EXTENDS Settings, TLC

CONSTANTS s1, s2

TwoSavers == {s1, s2}
Swaps == Permutations(TwoSavers)

App  == <<"app", "test">>
Mail == <<"mail", "app", "test">>
Web  == <<"web", "test">>
Recipients == {App, Mail, Web}
Targets == {"u1", "u2"}

Row(url, key, verify) == [url |-> url, format |-> Blank, key |-> key, verify |-> verify]
Set(f, v) == [g \in {f} |-> v]
Doc(set, routes) == [set |-> set @@ Empty.set, routes |-> routes]

Words == {Blank, Bad, Default, Keep, "on", "off", "a", "b", "flag",
          "u1", "u2", "u3", "k0", "k1", "k2", "k3"}
Parts == {"app", "mail", "web", "test"}

FlagsGiven == Set("smtp_addr", "flag")
EnvGiven == Set("webhook.url", "u2")

Asked == {
  [NoPatch EXCEPT !.set = Set("max_message_bytes", "b")],
  [NoPatch EXCEPT !.set = Set("webhook.signing_key", "k0")],
  [NoPatch EXCEPT !.set = Set("smtp_addr", "b")],
  [NoPatch EXCEPT !.set = Set("webhook.url", "u3")],
  [NoPatch EXCEPT !.set = Set("webhook.format", Bad)],
  [NoPatch EXCEPT !.set = Set("http_addr", Bad)],
  [set |-> Nothing, table |-> TRUE,
   rows |-> Plain(Pattern(FALSE, App)) :> Row("u1", Keep, Blank)],
  [set |-> Set("webhook.verify_tls", "off"), table |-> TRUE,
   rows |-> Plain(Pattern(TRUE, App)) :> Row("u2", "k2", "on")
            @@ Odd(Pattern(TRUE, <<"test">>)) :> Row("u1", "k1", Blank)],
  [set |-> Nothing, table |-> TRUE,
   rows |-> Plain(Pattern(FALSE, App)) :> [Row("u1", Keep, Blank) EXCEPT !.format = Bad]],
  [set |-> Nothing, table |-> TRUE,
   rows |-> Plain(Pattern(FALSE, App)) :> Row(Blank, Keep, Blank)]}

Written == {
  Empty,
  Doc(Set("webhook.format", Bad), NoRows),
  Doc(Set("http_addr", "a"),
      Plain(Pattern(FALSE, App)) :> Row("u1", "k1", "off")),
  Doc(Set("webhook.signing_key", "k3"),
      Odd(Pattern(FALSE, App)) :> Row("u1", "k1", Blank)
      @@ Plain(Pattern(TRUE, Mail)) :> Row("u2", Blank, Blank))}
=============================================================================
