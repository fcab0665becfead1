------------------------------- MODULE Routing -------------------------------
(***************************************************************************)
(* The pure rules of the configuration (internal/config): which document   *)
(* is worth writing, what a document resolves to under the environment and *)
(* the flags, and which route a reply to a domain follows.                 *)
(*                                                                         *)
(* A document is [set, routes]: a value for each field, and a table of      *)
(* routes under the domains as somebody typed them.  A resolved             *)
(* configuration has the same shape, its table under normal domains.        *)
(***************************************************************************)
EXTENDS Naturals, Sequences, SequencesExt, FiniteSetsExt

Blank == ""
Bad == "malformed"   \* no host:port, no http URL, no known format, a number below zero
Default == "default"

Listeners == {"http_addr", "smtp_addr", "max_message_bytes"}
Fields == Listeners \cup
  {"webhook.url", "webhook.format", "webhook.signing_key", "webhook.timeout_seconds", "webhook.verify_tls"}

(* A domain is the sequence of its labels.  A pattern covers one domain, or,  *)
(* when it starts with "*.", that domain and everything below it.            *)
NoDomain == <<>>
Pattern(wild, labels) == [wild |-> wild, labels |-> labels]

(* How somebody typed a pattern: in lower case without spaces, or not.        *)
Plain(p) == [to |-> p, plain |-> TRUE]
Odd(p)   == [to |-> p, plain |-> FALSE]

NoRows == [s \in {} |-> Blank]
Empty  == [set |-> [f \in Fields |-> Blank], routes |-> NoRows]

-----------------------------------------------------------------------------
(* Document.Validate: what a form may get wrong *)

ValidRow(row) == row.url \notin {Blank, Bad} /\ row.format # Bad

(* Faulty variant: only the fields of the document itself are looked at. *)
ValidFieldsOnly(doc) == \A f \in Fields : doc.set[f] # Bad

Valid(doc) ==
  /\ \A f \in Fields : doc.set[f] # Bad
  /\ \A s \in DOMAIN doc.routes : s.to.labels # NoDomain /\ ValidRow(doc.routes[s])

(* Config.Validate: what keeps the program from starting.  A size below zero *)
(* in the file was already ignored; a malformed address or URL passes.       *)
Loads(cfg) ==
  /\ cfg.set["webhook.format"] # Bad
  /\ \A p \in DOMAIN cfg.routes : cfg.routes[p].format # Bad

-----------------------------------------------------------------------------
(* Resolve: defaults, then the document, then what is held above it *)

(* A table under normal domains: every key takes the row of one of its        *)
(* spellings.  Two spellings of a domain meet in the order Go ranges over a   *)
(* map, which is none.                                                       *)
Merged(typed) ==
  LET keys == {s.to : s \in DOMAIN typed}
  IN  {t \in [keys -> Range(typed)] :
         \A k \in keys : \E s \in DOMAIN typed : s.to = k /\ t[k] = typed[s]}

(* normalize *)
Tables(routes) ==
  Merged(Restrict(routes, {s \in DOMAIN routes : s.to.labels # NoDomain /\ routes[s].url # Blank}))

Unset(f, v) ==
  \/ v = Blank
  \/ v = Bad /\ f \in {"max_message_bytes", "webhook.timeout_seconds"}

(* VerifyTLS is on unless somebody turned it off; no URL and no key is a real *)
(* state.                                                                    *)
DefaultOf(f) == CASE f \in {"webhook.url", "webhook.signing_key"} -> Blank
                  [] f = "webhook.verify_tls" -> "on"
                  [] OTHER -> Default

(* held is a function from the fields a variable or a flag supplies.          *)
Resolve(doc, held) ==
  {[set |-> [f \in Fields |-> IF f \in DOMAIN held THEN held[f]
                              ELSE IF Unset(f, doc.set[f]) THEN DefaultOf(f)
                              ELSE doc.set[f]],
    routes |-> t] : t \in Tables(doc.routes)}

-----------------------------------------------------------------------------
(* RouteFor *)

Covers(p, domain) ==
  \/ ~p.wild /\ p.labels = domain
  \/ p.wild /\ p.labels # NoDomain /\ IsSuffix(p.labels, domain)

(* Faulty variant: the shortest pattern wins. *)
Shortest(wilds) == {p \in wilds : \A q \in wilds : Len(p.labels) <= Len(q.labels)}

(* wildcard: of the patterns that cover one domain the longest. *)
Longest(wilds) == {p \in wilds : \A q \in wilds : Len(q.labels) <= Len(p.labels)}

First(v, otherwise) == IF v # Blank THEN v ELSE otherwise

NoTarget == [url |-> Blank, format |-> Blank, key |-> Blank, verify |-> Blank]

(* resolve: what a route leaves unset comes from the top level; its timeout  *)
(* does too, in the same way.                                                *)
Target(cfg, row) ==
  [url    |-> row.url,
   format |-> First(row.format, cfg.set["webhook.format"]),
   key    |-> First(row.key, cfg.set["webhook.signing_key"]),
   verify |-> First(row.verify, cfg.set["webhook.verify_tls"])]

Fallback(cfg) ==
  IF cfg.set["webhook.url"] = Blank
  THEN NoTarget
  ELSE Target(cfg, [url |-> cfg.set["webhook.url"], format |-> Blank, key |-> Blank, verify |-> Blank])

(* The exact key, else the longest wildcard; {} when neither matches. *)
Matched(cfg, domain) ==
  LET exact == {p \in DOMAIN cfg.routes : p = Pattern(FALSE, domain)}
      wilds == {p \in DOMAIN cfg.routes : p.wild /\ Covers(p, domain)}
  IN  IF domain = NoDomain THEN {} ELSE IF exact # {} THEN exact ELSE Longest(wilds)

RouteFor(cfg, domain) ==
  LET hit == Matched(cfg, domain)
  IN  IF hit = {} THEN Fallback(cfg)
      ELSE Target(cfg, cfg.routes[CHOOSE p \in hit : TRUE])

=============================================================================
