---------------------------- MODULE Settings_proofs ----------------------------
(***************************************************************************)
(* Theorems about the settings page and the configuration behind it, for   *)
(* any number of saves, any patches, documents, environment and flags.     *)
(***************************************************************************)
EXTENDS Settings, FiniteSetTheorems, SequenceTheorems, TLAPS

-----------------------------------------------------------------------------
(* What a document resolves to *)

(* A field comes from what is held above the document, else from the document, *)
(* else from the defaults.                                                    *)
LEMMA ResolvedField ==
  ASSUME NEW d, NEW held, NEW c \in Resolve(d, held), NEW f \in Fields
  PROVE  c.set[f] = IF f \in DOMAIN held THEN held[f]
                    ELSE IF Unset(f, d.set[f]) THEN DefaultOf(f) ELSE d.set[f]
BY DEF Resolve

(* A route comes from a row of the document that names a domain and a URL.     *)
LEMMA ResolvedRoute ==
  ASSUME NEW d, NEW held, NEW c \in Resolve(d, held), NEW p \in DOMAIN c.routes
  PROVE  \E s \in DOMAIN d.routes : /\ s.to = p /\ p.labels # NoDomain
                                    /\ d.routes[s].url # Blank /\ c.routes[p] = d.routes[s]
<1> DEFINE kept == {s \in DOMAIN d.routes : s.to.labels # NoDomain /\ d.routes[s].url # Blank}
           typed == Restrict(d.routes, kept)
<1>1. DOMAIN typed = kept /\ \A s \in kept : typed[s] = d.routes[s]
  BY DEF Restrict
<1>2. c.routes \in Merged(typed)
  BY DEF Resolve, Tables
<1>3. p \in {s.to : s \in DOMAIN typed} /\ \E s \in DOMAIN typed : s.to = p /\ c.routes[p] = typed[s]
  <2> HIDE DEF typed
  <2> QED
    BY <1>2 DEF Merged
<1> QED
  BY <1>1, <1>3

(* Everything one document resolves to has the same fields.                    *)
LEMMA SameFields ==
  ASSUME NEW d, NEW held, NEW b \in Resolve(d, held), NEW c \in Resolve(d, held)
  PROVE  b.set = c.set
BY DEF Resolve

(* A document that passes Validate starts the program by itself, when nothing   *)
(* in the environment covers for it.                                         *)
LEMMA ValidStarts ==
  ASSUME NEW d, Valid(d), NEW c \in Resolve(d, Nothing)
  PROVE  Startable(c)
<1>1. \A f \in Fields : c.set[f] # Bad
  <2> TAKE f \in Fields
  <2>1. c.set[f] = IF Unset(f, d.set[f]) THEN DefaultOf(f) ELSE d.set[f]
    BY ResolvedField DEF Nothing
  <2>2. DefaultOf(f) # Bad
    BY DEF DefaultOf, Blank, Bad, Default
  <2> QED
    BY <2>1, <2>2 DEF Valid
<1>2. ASSUME NEW p \in DOMAIN c.routes PROVE c.routes[p].format # Bad
  <2>1. PICK s \in DOMAIN d.routes : c.routes[p] = d.routes[s]
    BY ResolvedRoute
  <2> QED
    BY <2>1 DEF Valid, ValidRow
<1> QED
  BY <1>1, <1>2 DEF Startable, Loads, Fields, Listeners

(* What the program loads has no route for no domain; neither has nothing.     *)
LEMMA LoadedRouted ==
  ASSUME NEW c \in Load, NEW p \in DOMAIN c.routes PROVE p.labels # NoDomain
BY ResolvedRoute DEF Load

(* A configuration of nothing has no routes. *)
LEMMA NoRoutes == DOMAIN Empty.routes = {}
BY DEF Empty, NoRows

(* A patch's fields have its values in every document it may leave.            *)
LEMMA ApplySets ==
  ASSUME NEW p \in Patches, NEW doc, NEW d \in Apply(doc, p), NEW f \in DOMAIN p.set
  PROVE  d.set[f] = p.set[f]
<1>1. f \in Fields
  BY SettingsAssumption
<1>2. d.set = [g \in Fields |-> IF g \in DOMAIN p.set THEN p.set[g] ELSE doc.set[g]]
  BY DEF Apply
<1> QED
  BY <1>1, <1>2

-----------------------------------------------------------------------------
(* Types of documents *)

(* A document as it is written, and a resolved one: whose domains, or patterns, *)
(* are what they should be.                                                   *)
Written(d) == IsDocument(d) /\ \A s \in DOMAIN d.routes : IsSpelling(s)
Resolved(c) == IsDocument(c) /\ \A p \in DOMAIN c.routes : IsPattern(p)

(* The words of the program are text. *)
LEMMA WordsAreText ==
  Blank \in Texts /\ Bad \in Texts /\ Default \in Texts /\ "on" \in Texts /\ "off" \in Texts
BY SettingsAssumption

(* What is held above the document is text. *)
LEMMA HeldIsText == ASSUME NEW f \in DOMAIN Held PROVE Held[f] \in Texts
BY SettingsAssumption DEF Held

(* A default is text. *)
LEMMA DefaultIsText == ASSUME NEW f PROVE DefaultOf(f) \in Texts
BY WordsAreText DEF DefaultOf

(* The empty document is both. *)
LEMMA EmptyIsBoth == Written(Empty) /\ Resolved(Empty)
<1>1. DOMAIN Empty.routes = {} /\ Empty.set = [f \in Fields |-> Blank]
  BY DEF Empty, NoRows
<1>2. Empty = [set |-> Empty.set, routes |-> Empty.routes]
  BY DEF Empty
<1>3. Empty.set \in [Fields -> Texts]
  BY <1>1, WordsAreText
<1> QED
  BY <1>1, <1>2, <1>3 DEF Written, Resolved, IsDocument

(* Resolving a written document gives a resolved one. *)
LEMMA ResolveTypes ==
  ASSUME NEW d, Written(d), NEW c \in Resolve(d, Held)
  PROVE  Resolved(c)
<1>1. c = [set |-> c.set, routes |-> c.routes]
  BY DEF Resolve
<1>2. c.set \in [Fields -> Texts]
  <2>1. c.set = [f \in Fields |-> c.set[f]]
    BY DEF Resolve
  <2>2. ASSUME NEW f \in Fields PROVE c.set[f] \in Texts
    <3>1. d.set[f] \in Texts
      BY DEF Written, IsDocument
    <3> QED
      BY <3>1, ResolvedField, HeldIsText, DefaultIsText
  <2> QED
    BY <2>1, <2>2
<1>3. ASSUME NEW p \in DOMAIN c.routes
      PROVE  IsPattern(p) /\ IsRow(c.routes[p]) /\ c.routes[p].key # Keep
  <2>1. PICK s \in DOMAIN d.routes : s.to = p /\ c.routes[p] = d.routes[s]
    BY ResolvedRoute
  <2> QED
    BY <2>1 DEF Written, IsDocument, IsSpelling
<1> QED
  BY <1>1, <1>2, <1>3 DEF Resolved, IsDocument

(* A row that is merged is a row with a key. *)
LEMMA MergeRowTypes ==
  ASSUME NEW old, \A s \in DOMAIN old : IsRow(old[s]) /\ old[s].key # Keep,
         NEW p, NEW row, IsRow(row)
  PROVE  IsRow(MergeRow(old, p, row)) /\ MergeRow(old, p, row).key # Keep
<1>1. CASE row.key # Keep
  BY <1>1 DEF MergeRow
<1>2. CASE row.key = Keep
  <2> DEFINE key == IF Plain(p) \in DOMAIN old THEN old[Plain(p)].key ELSE Blank
  <2>1. key \in Texts /\ key # Keep
    BY WordsAreText DEF IsRow, Blank, Keep
  <2>2. MergeRow(old, p, row) = [row EXCEPT !.key = key]
    BY <1>2 DEF MergeRow
  <2>3. [row EXCEPT !.key = key] = [url |-> row.url, format |-> row.format, key |-> key, verify |-> row.verify]
    <3> HIDE DEF key
    <3>1. row = [url |-> row.url, format |-> row.format, key |-> row.key, verify |-> row.verify]
      BY DEF IsRow
    <3> QED
      BY <3>1
  <2>4. row.url \in Texts /\ row.format \in Texts /\ row.verify \in Texts
    BY DEF IsRow
  <2> HIDE DEF key
  <2> QED
    BY <2>1, <2>2, <2>3, <2>4 DEF IsRow
<1> QED
  BY <1>1, <1>2

(* The table that a patch leaves: every row under a plain domain that one of    *)
(* the patch's rows is for, and merged from it.                              *)
LEMMA AppliedRows ==
  ASSUME NEW p, p.table, NEW doc, NEW d \in Apply(doc, p), NEW s \in DOMAIN d.routes
  PROVE  \E r \in DOMAIN p.rows : /\ s = Plain(r.to)
                                  /\ d.routes[s] = MergeRow(doc.routes, r.to, p.rows[r])
<1> DEFINE typed == [r \in DOMAIN p.rows |-> MergeRow(doc.routes, r.to, p.rows[r])]
           Renamed(t) == [q \in {Plain(k) : k \in DOMAIN t} |-> t[q.to]]
<1>1. PICK t \in Merged(typed) : d.routes = Renamed(t)
  <2>1. d.routes \in ApplyRows(doc.routes, p.rows)
    BY DEF Apply
  <2> QED
    BY <2>1 DEF ApplyRows
<1>2. PICK k \in DOMAIN t : s = Plain(k) /\ d.routes[s] = t[k]
  <2>1. s \in {Plain(k) : k \in DOMAIN t} /\ d.routes[s] = t[s.to]
    BY <1>1
  <2> QED
    BY <2>1 DEF Plain
<1>3. \E r \in DOMAIN typed : r.to = k /\ t[k] = typed[r]
  <2> HIDE DEF typed
  <2> QED
    BY <1>1, <1>2 DEF Merged
<1> QED
  BY <1>2, <1>3

(* Applying a patch to a written document leaves one. *)
LEMMA ApplyTypes ==
  ASSUME NEW p \in Patches, NEW doc, Written(doc), NEW d \in Apply(doc, p)
  PROVE  Written(d)
<1>1. d = [set |-> d.set, routes |-> d.routes]
  BY DEF Apply
<1>2. d.set \in [Fields -> Texts]
  <2>1. d.set = [f \in Fields |-> IF f \in DOMAIN p.set THEN p.set[f] ELSE doc.set[f]]
    BY DEF Apply
  <2>2. \A f \in DOMAIN p.set : p.set[f] \in Texts
    BY SettingsAssumption
  <2>3. doc.set \in [Fields -> Texts]
    BY DEF Written, IsDocument
  <2> QED
    BY <2>1, <2>2, <2>3
<1>3. CASE ~p.table
  <2>1. d.routes = doc.routes
    BY <1>3 DEF Apply
  <2> QED
    BY <1>1, <1>2, <2>1 DEF Written, IsDocument
<1>4. CASE p.table
  <2>1. ASSUME NEW s \in DOMAIN d.routes
        PROVE  IsSpelling(s) /\ IsRow(d.routes[s]) /\ d.routes[s].key # Keep
    <3>1. PICK r \in DOMAIN p.rows : s = Plain(r.to) /\ d.routes[s] = MergeRow(doc.routes, r.to, p.rows[r])
      BY <1>4, AppliedRows
    <3>2. IsSpelling(r) /\ IsRow(p.rows[r])
      BY SettingsAssumption
    <3>3. IsSpelling(s)
      BY <3>1, <3>2 DEF IsSpelling, Plain
    <3>4. \A q \in DOMAIN doc.routes : IsRow(doc.routes[q]) /\ doc.routes[q].key # Keep
      BY DEF Written, IsDocument
    <3> QED
      BY <3>1, <3>2, <3>3, <3>4, MergeRowTypes
  <2> QED
    BY <1>1, <1>2, <2>1 DEF Written, IsDocument
<1> QED
  BY <1>3, <1>4

-----------------------------------------------------------------------------
(* Which route is nearest *)

(* A set of numbers has a least one. *)
LEMMA LeastOf ==
  ASSUME NEW T, T \subseteq Nat, T # {}
  PROVE  \E x \in T : \A y \in T : x <= y
<1> DEFINE less == OpToRel(<, Nat)
<1>1. PICK x \in T : \A y \in T : ~(<<y, x>> \in less)
  <2> HIDE DEF less
  <2>1. IsWellFoundedOn(less, Nat)
    BY NatLessThanWellFounded, Zenon DEF less
  <2> QED
    BY <2>1, WFMin
<1>2. \A y \in T : ~(y < x)
  BY <1>1 DEF OpToRel
<1> QED
  BY <1>2

(* Of some patterns of bounded length one is longest. *)
LEMMA LongestExists ==
  ASSUME NEW wilds, wilds # {}, NEW n \in Nat, \A p \in wilds : Len(p.labels) \in 0..n
  PROVE  Longest(wilds) # {}
<1> DEFINE spare == {n - Len(p.labels) : p \in wilds}
<1>1. spare \subseteq Nat /\ spare # {}
  OBVIOUS
<1>2. PICK x \in spare : \A y \in spare : x <= y
  <2> HIDE DEF spare
  <2> QED
    BY <1>1, LeastOf
<1>3. PICK p \in wilds : x = n - Len(p.labels)
  OBVIOUS
<1>4. ASSUME NEW q \in wilds PROVE Len(q.labels) <= Len(p.labels)
  <2>1. n - Len(p.labels) <= n - Len(q.labels)
    BY <1>2, <1>3
  <2> QED
    BY <2>1
<1> QED
  BY <1>4 DEF Longest

(* One sequence ends another when its elements are the last ones there. *)
LEMMA SuffixByIndex ==
  ASSUME NEW S, NEW s \in Seq(S), NEW t \in Seq(S)
  PROVE  IsSuffix(s, t) <=> /\ Len(s) <= Len(t)
                            /\ \A i \in 1..Len(s) : s[i] = t[Len(t) - Len(s) + i]
<1>1. /\ Len(s) \in Nat /\ Len(t) \in Nat
  OBVIOUS
<1>2. /\ Len(Reverse(s)) = Len(s) /\ Len(Reverse(t)) = Len(t)
      /\ Reverse(s) \in Seq(S) /\ Reverse(t) \in Seq(S)
      /\ \A i \in 1..Len(s) : Reverse(s)[i] = s[Len(s) - i + 1]
      /\ \A i \in 1..Len(t) : Reverse(t)[i] = t[Len(t) - i + 1]
  BY DEF Reverse
<1>3. CASE Len(s) <= Len(t)
  <2> DEFINE a == SubSeq(Reverse(s), 1, Len(s))
             b == SubSeq(Reverse(t), 1, Len(s))
  <2>1. /\ a \in Seq(S) /\ Len(a) = Len(s) /\ \A i \in 1..Len(s) : a[i] = s[Len(s) - i + 1]
    BY <1>1, <1>2
  <2>2. /\ b \in Seq(S) /\ Len(b) = Len(s) /\ \A i \in 1..Len(s) : b[i] = t[Len(t) - i + 1]
    BY <1>1, <1>2, <1>3
  <2>3. IsSuffix(s, t) <=> a = b
    BY <1>2, <1>3 DEF IsSuffix, IsPrefix
  <2> HIDE DEF a, b
  <2>4. ASSUME \A i \in 1..Len(s) : a[i] = b[i] PROVE a = b
    <3>1. \A i \in 1..Len(a) : a[i] = b[i]
      BY <2>1, <2>4
    <3> QED
      BY <2>1, <2>2, <3>1, SeqEqual, Zenon
  <2>5. (\A i \in 1..Len(s) : s[Len(s) - i + 1] = t[Len(t) - i + 1])
          <=> \A i \in 1..Len(s) : s[i] = t[Len(t) - Len(s) + i]
    <3>1. ASSUME \A i \in 1..Len(s) : s[Len(s) - i + 1] = t[Len(t) - i + 1], NEW i \in 1..Len(s)
          PROVE  s[i] = t[Len(t) - Len(s) + i]
      <4> DEFINE j == Len(s) - i + 1
      <4>1. j \in 1..Len(s) /\ Len(s) - j + 1 = i /\ Len(t) - j + 1 = Len(t) - Len(s) + i
        BY <1>1
      <4> QED
        BY <3>1, <4>1
    <3>2. ASSUME \A i \in 1..Len(s) : s[i] = t[Len(t) - Len(s) + i], NEW i \in 1..Len(s)
          PROVE  s[Len(s) - i + 1] = t[Len(t) - i + 1]
      <4> DEFINE j == Len(s) - i + 1
      <4>1. j \in 1..Len(s) /\ Len(t) - Len(s) + j = Len(t) - i + 1
        BY <1>1
      <4> QED
        BY <3>2, <4>1
    <3> QED
      BY <3>1, <3>2
  <2> QED
    BY <1>3, <2>1, <2>2, <2>3, <2>4, <2>5
<1>4. CASE ~(Len(s) <= Len(t))
  BY <1>2, <1>4 DEF IsSuffix, IsPrefix
<1> QED
  BY <1>3, <1>4

(* Of two ends of one domain the shorter one ends whatever the longer one does: *)
(* what matches a longer pattern matches the shorter one too.                  *)
LEMMA SuffixesNest ==
  ASSUME NEW S, NEW p \in Seq(S), NEW q \in Seq(S), NEW d \in Seq(S), NEW e \in Seq(S),
         IsSuffix(p, d), IsSuffix(q, d), Len(q) <= Len(p), IsSuffix(p, e)
  PROVE  IsSuffix(q, e)
<1>1. Len(p) \in Nat /\ Len(q) \in Nat /\ Len(d) \in Nat /\ Len(e) \in Nat
  OBVIOUS
<1>2. Len(p) <= Len(d) /\ \A i \in 1..Len(p) : p[i] = d[Len(d) - Len(p) + i]
  BY SuffixByIndex
<1>3. Len(q) <= Len(d) /\ \A i \in 1..Len(q) : q[i] = d[Len(d) - Len(q) + i]
  BY SuffixByIndex
<1>4. Len(p) <= Len(e) /\ \A i \in 1..Len(p) : p[i] = e[Len(e) - Len(p) + i]
  BY SuffixByIndex
<1>5. ASSUME NEW i \in 1..Len(q) PROVE q[i] = e[Len(e) - Len(q) + i]
  <2> DEFINE j == Len(p) - Len(q) + i
  <2>1. j \in 1..Len(p) /\ Len(d) - Len(p) + j = Len(d) - Len(q) + i
        /\ Len(e) - Len(p) + j = Len(e) - Len(q) + i
    BY <1>1
  <2> HIDE DEF j
  <2>2. p[j] = d[Len(d) - Len(q) + i] /\ p[j] = e[Len(e) - Len(q) + i]
    BY <1>2, <1>4, <2>1
  <2> QED
    BY <1>3, <2>2
<1>6. Len(q) <= Len(e)
  BY <1>1, <1>4
<1> QED
  BY <1>5, <1>6, SuffixByIndex

(* No route of a configuration is one for no domain. *)
Routed(c) == \A p \in DOMAIN c.routes : p.labels # NoDomain

(* Of the routes that cover a domain the one a reply follows covers least.     *)
LEMMA NearestRoute ==
  ASSUME NEW cfg, Resolved(cfg), Routed(cfg), NEW d \in Domains
  PROVE  LET covering == {p \in DOMAIN cfg.routes : Covers(p, d)}
             reach(p) == {e \in Domains : Covers(p, e)}
         IN  IF covering = {} THEN RouteFor(cfg, d) = Fallback(cfg)
             ELSE \E p \in covering : /\ RouteFor(cfg, d) = Target(cfg, cfg.routes[p])
                                      /\ \A q \in covering : reach(p) \subseteq reach(q)
<1> DEFINE covering == {p \in DOMAIN cfg.routes : Covers(p, d)}
           reach(p) == {e \in Domains : Covers(p, e)}
           exact == {p \in DOMAIN cfg.routes : p = Pattern(FALSE, d)}
           wilds == {p \in DOMAIN cfg.routes : p.wild /\ Covers(p, d)}
           hit == Matched(cfg, d)
<1>1. \A p \in DOMAIN cfg.routes : /\ p = Pattern(p.wild, p.labels) /\ p.wild \in BOOLEAN
                                   /\ p.labels \in Seq(Labels) /\ p.labels # NoDomain
  BY DEF Resolved, Routed, IsPattern
<1>2. Domains \subseteq Seq(Labels) /\ d \in Seq(Labels) /\ Len(d) \in Nat
  BY SettingsAssumption
<1>3. \A p \in covering : ~p.wild => p \in exact
  BY <1>1 DEF Covers
<1>4. exact \subseteq covering
  BY DEF Covers, Pattern
<1>5. \A p \in wilds : Len(p.labels) \in 0..Len(d)
  <2> TAKE p \in wilds
  <2>1. p.labels \in Seq(Labels) /\ IsSuffix(p.labels, d)
    BY <1>1 DEF Covers
  <2>2. Len(p.labels) <= Len(d) /\ Len(p.labels) \in Nat
    BY <1>2, <2>1, SuffixByIndex
  <2> QED
    BY <1>2, <2>2
<1>6. covering # {} => d # NoDomain
  <2> SUFFICES ASSUME NEW p \in covering, d = NoDomain PROVE FALSE
    OBVIOUS
  <2>1. CASE p.wild
    <3>1. Len(p.labels) \in 0..0
      BY <1>5, <2>1 DEF NoDomain
    <3> QED
      BY <1>1, <3>1 DEF NoDomain
  <2>2. CASE ~p.wild
    BY <1>1, <2>2 DEF Covers
  <2> QED
    BY <2>1, <2>2
<1>7. hit = IF d = NoDomain THEN {} ELSE IF exact # {} THEN exact ELSE Longest(wilds)
  BY DEF Matched
<1>8. RouteFor(cfg, d) = IF hit = {} THEN Fallback(cfg)
                         ELSE Target(cfg, cfg.routes[CHOOSE p \in hit : TRUE])
  BY DEF RouteFor
<1>9. hit \subseteq covering
  BY <1>4, <1>7 DEF Longest
<1>10. covering # {} => hit # {}
  <2> SUFFICES ASSUME covering # {}, exact = {} PROVE Longest(wilds) # {}
    BY <1>6, <1>7
  <2>1. wilds # {}
    BY <1>3
  <2> HIDE DEF wilds
  <2> QED
    BY <1>2, <1>5, <2>1, LongestExists
<1>11. ASSUME NEW p \in hit, NEW q \in covering PROVE reach(p) \subseteq reach(q)
  <2>1. CASE p \in exact
    BY <2>1 DEF Covers, Pattern
  <2>2. CASE p \notin exact
    <3>1. p \in Longest(wilds) /\ exact = {}
      BY <1>7, <2>2
    <3>2. p \in wilds /\ q \in wilds /\ Len(q.labels) <= Len(p.labels)
      BY <1>1, <1>3, <3>1 DEF Longest
    <3>3. ASSUME NEW e \in Domains, Covers(p, e) PROVE Covers(q, e)
      <4>1. /\ p.labels \in Seq(Labels) /\ q.labels \in Seq(Labels) /\ e \in Seq(Labels)
            /\ IsSuffix(p.labels, d) /\ IsSuffix(q.labels, d) /\ IsSuffix(p.labels, e)
            /\ q.wild /\ q.labels # NoDomain
        BY <1>1, <1>2, <3>2, <3>3 DEF Covers
      <4>2. IsSuffix(q.labels, e)
        BY <1>2, <3>2, <4>1, SuffixesNest
      <4> QED
        BY <4>1, <4>2 DEF Covers
    <3> QED
      BY <3>3
  <2> QED
    BY <2>1, <2>2
<1> HIDE DEF hit, covering, reach
<1>12. covering = {} => RouteFor(cfg, d) = Fallback(cfg)
  BY <1>8, <1>9
<1>13. ASSUME covering # {}
       PROVE  \E p \in covering : /\ RouteFor(cfg, d) = Target(cfg, cfg.routes[p])
                                  /\ \A q \in covering : reach(p) \subseteq reach(q)
  <2>1. (CHOOSE p \in hit : TRUE) \in hit
    BY <1>10, <1>13
  <2>2. RouteFor(cfg, d) = Target(cfg, cfg.routes[CHOOSE p \in hit : TRUE])
    BY <1>8, <1>10, <1>13
  <2> QED
    BY <1>9, <1>11, <2>1, <2>2
<1>14. IF covering = {} THEN RouteFor(cfg, d) = Fallback(cfg)
       ELSE \E p \in covering : /\ RouteFor(cfg, d) = Target(cfg, cfg.routes[p])
                                /\ \A q \in covering : reach(p) \subseteq reach(q)
  BY <1>12, <1>13
<1> QED
  BY <1>14 DEF covering, reach

-----------------------------------------------------------------------------
(* What a save holds *)

(* A save's record has its four parts. *)
Shape ==
  /\ at \in [Savers -> {"idle"} \cup Busy \cup Over]
  /\ my = [h \in Savers |-> [patch |-> my[h].patch, doc |-> my[h].doc,
                             next |-> my[h].next, alone |-> my[h].alone]]

(* A save that is refused before it writes, and one that goes on to write d.   *)
Declined(h) ==
  /\ up /\ at[h] = "idle"
  /\ \E s \in {"failed", "held", "refused"} : Finish(h, s)
  /\ UNCHANGED <<file, temps, process, settled, probe, bounds>>

Begins(h, p, d) ==
  /\ up /\ at[h] = "idle"
  /\ PatchFields(p) \cap DOMAIN Held = {}
  /\ d \in Apply(Basis, p) /\ Valid(d)
  /\ Goto(h, "write")
  /\ my' = [g \in Savers |-> [patch |-> IF g = h THEN p ELSE my[g].patch,
                              doc   |-> IF g = h THEN d ELSE my[g].doc,
                              next  |-> IF g = h THEN Empty ELSE my[g].next,
                              alone |-> g = h /\ InFlight = {}]]
  /\ UNCHANGED <<file, temps, process, settled, probe, bounds>>

(* A save's record, with somebody else at the file.                           *)
LEMMA NotAlone ==
  ASSUME NEW m, m = [patch |-> m.patch, doc |-> m.doc, next |-> m.next, alone |-> m.alone], NEW v
  PROVE  [m EXCEPT !.alone = v] = [patch |-> m.patch, doc |-> m.doc, next |-> m.next, alone |-> v]
OBVIOUS

(* A save is declined or begins. *)
LEMMA SaveCases ==
  ASSUME Shape, NEW h \in Savers, NEW p \in Patches, Save(h, p)
  PROVE  Declined(h) \/ \E d : Begins(h, p, d)
<1>0. up /\ at[h] = "idle" /\ UNCHANGED <<file, temps, process, settled, probe, bounds>>
  BY DEF Save
<1>1. CASE Finish(h, "failed") \/ Finish(h, "held") \/ Finish(h, "refused")
  BY <1>0, <1>1 DEF Declined
<1>2. CASE ~(Finish(h, "failed") \/ Finish(h, "held") \/ Finish(h, "refused"))
  <2> DEFINE docs == Apply(Basis, p)
             good == {d \in docs : Valid(d) /\ \A c \in Resolve(d, Env) : Loads(c)}
  <2>1. PatchFields(p) \cap DOMAIN Held = {}
    BY <1>2 DEF Save
  <2>2. PICK d \in good :
          /\ Goto(h, "write")
          /\ my' = [g \in Savers |->
                      IF g = h THEN [patch |-> p, doc |-> d, next |-> Empty, alone |-> InFlight = {}]
                      ELSE [my[g] EXCEPT !.alone = FALSE]]
    BY <1>2 DEF Save
  <2>3. my' = [g \in Savers |-> [patch |-> IF g = h THEN p ELSE my[g].patch,
                                 doc   |-> IF g = h THEN d ELSE my[g].doc,
                                 next  |-> IF g = h THEN Empty ELSE my[g].next,
                                 alone |-> g = h /\ InFlight = {}]]
    <3>1. ASSUME NEW g \in Savers, g # h
          PROVE  [my[g] EXCEPT !.alone = FALSE]
                   = [patch |-> my[g].patch, doc |-> my[g].doc, next |-> my[g].next, alone |-> FALSE]
      <4>1. my[g] = [patch |-> my[g].patch, doc |-> my[g].doc, next |-> my[g].next, alone |-> my[g].alone]
        BY DEF Shape
      <4> QED
        BY <4>1, NotAlone
    <3> HIDE DEF good
    <3> QED
      BY <2>2, <3>1
  <2> QED
    BY <1>0, <2>1, <2>2, <2>3 DEF Begins
<1> QED
  BY <1>1, <1>2

(* What a save that ends leaves, and what one that loads again holds.         *)
LEMMA FinishLeaves ==
  ASSUME Shape, NEW h \in Savers, NEW s, Finish(h, s), s \in Over
  PROVE  /\ Shape' /\ at'[h] = s /\ my'[h] = Fresh
         /\ \A g \in Savers : g # h => at'[g] = at[g] /\ my'[g] = my[g]
<1>1. at' = [at EXCEPT ![h] = s] /\ my' = [my EXCEPT ![h] = Fresh]
  BY DEF Finish, Goto
<1>2. at'[h] = s /\ my'[h] = Fresh /\ \A g \in Savers : g # h => at'[g] = at[g] /\ my'[g] = my[g]
  BY <1>1 DEF Shape
<1>3. my' = [g \in Savers |-> [patch |-> my'[g].patch, doc |-> my'[g].doc,
                               next |-> my'[g].next, alone |-> my'[g].alone]]
  <2>1. my' = [g \in Savers |-> IF g = h THEN Fresh ELSE my[g]]
    BY <1>1 DEF Shape
  <2>2. ASSUME NEW g \in Savers
        PROVE  my'[g] = [patch |-> my'[g].patch, doc |-> my'[g].doc,
                         next |-> my'[g].next, alone |-> my'[g].alone]
    <3>1. CASE g = h
      BY <1>2, <3>1 DEF Fresh
    <3>2. CASE g # h
      <4>1. my[g] = [patch |-> my[g].patch, doc |-> my[g].doc, next |-> my[g].next, alone |-> my[g].alone]
        BY DEF Shape
      <4> QED
        BY <1>2, <3>2, <4>1
    <3> QED
      BY <3>1, <3>2
  <2> QED
    BY <2>1, <2>2
<1> QED
  BY <1>1, <1>2, <1>3 DEF Shape

(* One that has loaded the file again holds that, and what it held. *)
LEMMA ReloadLeaves ==
  ASSUME Shape, NEW h \in Savers, NEW c, Goto(h, "set"), my' = [my EXCEPT ![h].next = c]
  PROVE  /\ Shape' /\ at'[h] = "set" /\ my'[h] = [my[h] EXCEPT !.next = c]
         /\ my'[h].patch = my[h].patch /\ my'[h].doc = my[h].doc
         /\ my'[h].next = c /\ my'[h].alone = my[h].alone
         /\ \A g \in Savers : g # h => at'[g] = at[g] /\ my'[g] = my[g]
<1>0. my[h] = [patch |-> my[h].patch, doc |-> my[h].doc, next |-> my[h].next, alone |-> my[h].alone]
  BY DEF Shape
<1>1. at' = [at EXCEPT ![h] = "set"] /\ my' = [my EXCEPT ![h] = [my[h] EXCEPT !.next = c]]
  BY DEF Goto
<1>2. at'[h] = "set" /\ my'[h] = [my[h] EXCEPT !.next = c]
      /\ \A g \in Savers : g # h => at'[g] = at[g] /\ my'[g] = my[g]
  BY <1>1 DEF Shape
<1>3. my'[h] = [patch |-> my[h].patch, doc |-> my[h].doc, next |-> c, alone |-> my[h].alone]
  BY <1>0, <1>2
<1>4. my' = [g \in Savers |-> [patch |-> my'[g].patch, doc |-> my'[g].doc,
                               next |-> my'[g].next, alone |-> my'[g].alone]]
  <2>1. my' = [g \in Savers |-> my'[g]]
    BY <1>1 DEF Shape
  <2>2. ASSUME NEW g \in Savers
        PROVE  my'[g] = [patch |-> my'[g].patch, doc |-> my'[g].doc,
                         next |-> my'[g].next, alone |-> my'[g].alone]
    <3>1. CASE g = h
      BY <1>3, <3>1
    <3>2. CASE g # h
      <4>1. my[g] = [patch |-> my[g].patch, doc |-> my[g].doc, next |-> my[g].next, alone |-> my[g].alone]
        BY DEF Shape
      <4> QED
        BY <1>2, <3>2, <4>1
    <3> QED
      BY <3>1, <3>2
  <2> QED
    BY <2>1, <2>2
<1> QED
  BY <1>1, <1>2, <1>3, <1>4 DEF Shape, Busy

(* A hand in the file leaves nobody alone with it.                            *)
LEMMA EditLeaves ==
  ASSUME Shape, Edit
  PROVE  /\ Shape' /\ UNCHANGED at
         /\ \A g \in Savers : /\ my'[g].patch = my[g].patch /\ my'[g].doc = my[g].doc
                              /\ my'[g].next = my[g].next /\ my'[g].alone = FALSE
<1>1. my' = [h \in Savers |-> [my[h] EXCEPT !.alone = FALSE]] /\ at' = at
  BY DEF Edit
<1>2. ASSUME NEW g \in Savers
      PROVE  my'[g] = [patch |-> my[g].patch, doc |-> my[g].doc, next |-> my[g].next, alone |-> FALSE]
  <2>1. my[g] = [patch |-> my[g].patch, doc |-> my[g].doc, next |-> my[g].next, alone |-> my[g].alone]
    BY DEF Shape
  <2> QED
    BY <1>1, <2>1
<1>3. my' = [g \in Savers |-> [patch |-> my'[g].patch, doc |-> my'[g].doc,
                               next |-> my'[g].next, alone |-> my'[g].alone]]
  BY <1>1, <1>2
<1> QED
  BY <1>1, <1>2, <1>3 DEF Shape

(* The same for each step by itself. *)
LEMMA DeclineLeaves ==
  ASSUME Shape, NEW h \in Savers, Declined(h)
  PROVE  /\ Shape' /\ at[h] = "idle" /\ at'[h] \in {"failed", "held", "refused"} /\ my'[h] = Fresh
         /\ \A g \in Savers : g # h => at'[g] = at[g] /\ my'[g] = my[g]
<1>1. PICK s \in {"failed", "held", "refused"} : Finish(h, s)
  BY DEF Declined
<1> QED
  BY <1>1, FinishLeaves DEF Declined, Over

(* A save that begins holds its patch and its document. *)
LEMMA BeginLeaves ==
  ASSUME Shape, NEW h \in Savers, NEW p, NEW d, Begins(h, p, d)
  PROVE  /\ Shape' /\ at[h] = "idle" /\ at'[h] = "write"
         /\ my'[h].patch = p /\ my'[h].doc = d /\ my'[h].next = Empty /\ my'[h].alone = (InFlight = {})
         /\ \A g \in Savers : g # h => /\ at'[g] = at[g] /\ my'[g].alone = FALSE
                                      /\ my'[g].patch = my[g].patch /\ my'[g].doc = my[g].doc
                                      /\ my'[g].next = my[g].next
BY DEF Begins, Goto, Shape, Busy

(* Writing and renaming change nothing of what a save holds. *)
LEMMA WriteLeaves ==
  ASSUME Shape, NEW h \in Savers, Write(h)
  PROVE  /\ Shape' /\ at[h] = "write" /\ at'[h] = "rename" /\ UNCHANGED my
         /\ \A g \in Savers : g # h => at'[g] = at[g]
BY DEF Write, Goto, Shape, Busy

(* The rename makes the file what the save holds. *)
LEMMA RenameLeaves ==
  ASSUME Shape, NEW h \in Savers, Rename(h)
  PROVE  /\ Shape' /\ at[h] = "rename" /\ at'[h] = "reload" /\ UNCHANGED my
         /\ \A g \in Savers : g # h => at'[g] = at[g]
BY DEF Rename, Goto, Shape, Busy

(* A refused write, a file that does not load, and an answer end a save.       *)
LEMMA RefuseLeaves ==
  ASSUME Shape, NEW h \in Savers, Refuse(h)
  PROVE  /\ Shape' /\ at[h] \in {"write", "rename"} /\ at'[h] = "failed" /\ my'[h] = Fresh
         /\ \A g \in Savers : g # h => at'[g] = at[g] /\ my'[g] = my[g]
BY FinishLeaves DEF Refuse, Over

(* A save whose file does not load is over, with nothing adopted. *)
LEMMA GiveUpLeaves ==
  ASSUME Shape, NEW h \in Savers, Reload(h), Finish(h, "unadopted")
  PROVE  /\ Shape' /\ at[h] = "reload" /\ at'[h] = "unadopted" /\ my'[h] = Fresh
         /\ \A g \in Savers : g # h => at'[g] = at[g] /\ my'[g] = my[g]
BY FinishLeaves DEF Reload, Over

(* Publishing ends the save and changes what runs, and nothing else. *)
LEMMA PublishLeaves ==
  ASSUME Shape, NEW h \in Savers, Publish(h)
  PROVE  /\ Shape' /\ at[h] = "set" /\ at'[h] = "saved" /\ my'[h] = Fresh
         /\ \A g \in Savers : g # h => at'[g] = at[g] /\ my'[g] = my[g]
BY FinishLeaves DEF Publish, Over

(* A crash ends them all. *)
LEMMA CrashLeaves ==
  ASSUME Shape, Crash
  PROVE  /\ Shape'
         /\ \A g \in Savers : /\ my'[g] = Fresh /\ at'[g] \notin Busy
                              /\ at'[g] = IF g \in InFlight THEN "killed" ELSE at[g]
<1>1. Shape'
  BY DEF Crash, Shape, Fresh, Over
<1> QED
  BY <1>1 DEF Crash, InFlight, Busy

-----------------------------------------------------------------------------
(* What holds between the steps *)

(* A save that has had the file to itself is the only one under way. *)
Undisturbed == \A h \in Savers : my[h].alone => InFlight = {h}

(* What a save under way is to write passed Validate, names no field that       *)
(* another source holds, and has what the patch says.                        *)
Checked ==
  \A h \in Savers : at[h] \in Busy =>
    /\ Valid(my[h].doc) /\ my[h].patch \in Patches
    /\ PatchFields(my[h].patch) \cap DOMAIN Held = {}
    /\ \A f \in DOMAIN my[h].patch.set : my[h].doc.set[f] = my[h].patch.set[f]

(* Until it is renamed it is what the patch makes of the file that is there,    *)
(* and from then on it is the file, if nobody came in between.               *)
Merging ==
  \A h \in Savers : my[h].alone /\ at[h] \in {"write", "rename"} =>
    my[h].doc \in Apply(OnDisk, my[h].patch)

Adopting ==
  \A h \in Savers : my[h].alone =>
    /\ at[h] \in {"reload", "set"} => file.form = "whole" /\ file.doc = my[h].doc
    /\ at[h] = "set" => my[h].next \in Load

(* What runs is what a start would load, unless the file changed since.        *)
InForce == up /\ settled => running \in Load

(* No configuration that runs or is about to has a route for no domain.        *)
AllRouted == Routed(running) /\ \A h \in Savers : Routed(my[h].next)

(* Documents and configurations are typed as they should be.                    *)
Typed ==
  /\ file.form \in Forms /\ file.by \in {"nobody", "hand", "save"} /\ Written(file.doc)
  /\ up \in BOOLEAN /\ settled \in BOOLEAN
  /\ Resolved(running) /\ Resolved(booted)
  /\ \A h \in Savers : /\ my[h].patch \in Patches \cup {NoPatch} /\ my[h].alone \in BOOLEAN
                       /\ Written(my[h].doc) /\ Resolved(my[h].next)
  /\ crashes \in Nat /\ edits \in Nat

(* Only a save that is between its rename's two sides has a temporary file.    *)
Tidy == temps \subseteq Savers /\ NothingLeftBehind

(* Shape is kept. *)
LEMMA ShapeNext == Shape /\ [Next]_vars => Shape'
<1> SUFFICES ASSUME Shape, [Next]_vars PROVE Shape'
  OBVIOUS
<1>1. ASSUME NEW h \in Savers, NEW p \in Patches, Save(h, p) PROVE Shape'
  <2>1. CASE Declined(h)
    BY <2>1, DeclineLeaves DEF Declined, Shape
  <2>2. ASSUME NEW d, Begins(h, p, d) PROVE Shape'
    BY <2>2, BeginLeaves
  <2> QED
    BY <1>1, <2>1, <2>2, SaveCases
<1>2. ASSUME NEW h \in Savers, Write(h) PROVE Shape'
  BY <1>2, WriteLeaves DEF Write, Shape
<1>3. ASSUME NEW h \in Savers, Rename(h) PROVE Shape'
  BY <1>3, RenameLeaves DEF Rename, Shape
<1>4. ASSUME NEW h \in Savers, Refuse(h) PROVE Shape'
  BY <1>4, RefuseLeaves DEF Refuse, Shape
<1>5. ASSUME NEW h \in Savers, Reload(h) PROVE Shape'
  <2>1. CASE Load = {} /\ Finish(h, "unadopted")
    BY <1>5, <2>1, GiveUpLeaves DEF Reload, Shape
  <2>2. ASSUME NEW c \in Load, Goto(h, "set"), my' = [my EXCEPT ![h].next = c] PROVE Shape'
    BY <1>5, <2>2, ReloadLeaves DEF Reload, Shape
  <2> QED
    BY <1>5, <2>1, <2>2 DEF Reload
<1>6. ASSUME NEW h \in Savers, Publish(h) PROVE Shape'
  BY <1>6, PublishLeaves DEF Publish, Shape
<1>7. ASSUME NEW url \in Urls, NEW domain \in Domains, Test(url, domain) PROVE Shape'
  BY <1>7 DEF Test, Shape
<1>8. CASE Crash
  BY <1>8, CrashLeaves DEF Crash, Shape
<1>9. CASE Boot
  BY <1>9 DEF Boot, Shape
<1>10. CASE Edit
  BY <1>10, EditLeaves DEF Edit, Shape
<1>11. CASE UNCHANGED vars
  BY <1>11 DEF vars, Shape
<1> QED
  BY <1>1, <1>2, <1>3, <1>4, <1>5, <1>6, <1>7, <1>8, <1>9, <1>10, <1>11 DEF Next

(* No other temporary file stays. *)
LEMMA TidyNext == Shape /\ Tidy /\ [Next]_vars => Tidy'
<1> SUFFICES ASSUME Shape, Tidy, [Next]_vars PROVE Tidy'
  OBVIOUS
<1>1. ASSUME NEW h \in Savers, NEW p \in Patches, Save(h, p) PROVE Tidy'
  <2>1. CASE Declined(h)
    BY <2>1, DeclineLeaves DEF Declined, Tidy, NothingLeftBehind, process, bounds
  <2>2. ASSUME NEW d, Begins(h, p, d) PROVE Tidy'
    BY <2>2, BeginLeaves DEF Begins, Tidy, NothingLeftBehind, process, bounds
  <2> QED
    BY <1>1, <2>1, <2>2, SaveCases
<1>2. ASSUME NEW h \in Savers, Write(h) PROVE Tidy'
  BY <1>2, WriteLeaves DEF Write, Tidy, NothingLeftBehind, process, bounds
<1>3. ASSUME NEW h \in Savers, Rename(h) PROVE Tidy'
  BY <1>3, RenameLeaves DEF Rename, Tidy, NothingLeftBehind, process, bounds
<1>4. ASSUME NEW h \in Savers, Refuse(h) PROVE Tidy'
  BY <1>4, RefuseLeaves DEF Refuse, Tidy, NothingLeftBehind, process, bounds
<1>5. ASSUME NEW h \in Savers, Reload(h) PROVE Tidy'
  <2>1. CASE Load = {} /\ Finish(h, "unadopted")
    BY <1>5, <2>1, GiveUpLeaves DEF Reload, Tidy, NothingLeftBehind, process, bounds
  <2>2. ASSUME NEW c \in Load, Goto(h, "set"), my' = [my EXCEPT ![h].next = c] PROVE Tidy'
    BY <1>5, <2>2, ReloadLeaves DEF Reload, Tidy, NothingLeftBehind, process, bounds
  <2> QED
    BY <1>5, <2>1, <2>2 DEF Reload
<1>6. ASSUME NEW h \in Savers, Publish(h) PROVE Tidy'
  BY <1>6, PublishLeaves DEF Publish, Tidy, NothingLeftBehind, process, bounds
<1>7. ASSUME NEW url \in Urls, NEW domain \in Domains, Test(url, domain) PROVE Tidy'
  BY <1>7 DEF Test, Tidy, NothingLeftBehind
<1>8. CASE Crash
  BY <1>8, CrashLeaves DEF Crash, Tidy, NothingLeftBehind, process, bounds
<1>9. CASE Boot
  BY <1>9 DEF Boot, Tidy, NothingLeftBehind, process, bounds
<1>10. CASE Edit
  BY <1>10, EditLeaves DEF Edit, Tidy, NothingLeftBehind, process, bounds
<1>11. CASE UNCHANGED vars
  BY <1>11 DEF vars, Tidy, NothingLeftBehind, process, bounds
<1> QED
  BY <1>1, <1>2, <1>3, <1>4, <1>5, <1>6, <1>7, <1>8, <1>9, <1>10, <1>11 DEF Next

(* A save stays undisturbed until another comes. *)
LEMMA UndisturbedNext == Shape /\ Undisturbed /\ [Next]_vars => Undisturbed'
<1> SUFFICES ASSUME Shape, Undisturbed, [Next]_vars PROVE Undisturbed'
  OBVIOUS
<1>1. ASSUME NEW h \in Savers, NEW p \in Patches, Save(h, p) PROVE Undisturbed'
  <2>1. CASE Declined(h)
    <3>1. /\ at[h] = "idle" /\ at'[h] \in {"failed", "held", "refused"} /\ my'[h] = Fresh
         /\ \A g \in Savers : g # h => at'[g] = at[g] /\ my'[g] = my[g]
      BY <2>1, DeclineLeaves
    <3> QED
      BY <2>1, <3>1 DEF Declined, Undisturbed, InFlight, Busy, Fresh, Shape
  <2>2. ASSUME NEW d, Begins(h, p, d) PROVE Undisturbed'
    <3>1. /\ at[h] = "idle" /\ at'[h] = "write"
         /\ my'[h].patch = p /\ my'[h].doc = d /\ my'[h].next = Empty /\ my'[h].alone = (InFlight = {})
         /\ \A g \in Savers : g # h => /\ at'[g] = at[g] /\ my'[g].alone = FALSE
                                      /\ my'[g].patch = my[g].patch /\ my'[g].doc = my[g].doc
      BY <2>2 DEF Begins, Goto, Shape
    <3> QED
      BY <2>2, <3>1 DEF Begins, Undisturbed, InFlight, Busy, Fresh, Shape
  <2> QED
    BY <1>1, <2>1, <2>2, SaveCases
<1>2. ASSUME NEW h \in Savers, Write(h) PROVE Undisturbed'
  BY <1>2, WriteLeaves DEF Write, Undisturbed, InFlight, Busy, Fresh, Shape
<1>3. ASSUME NEW h \in Savers, Rename(h) PROVE Undisturbed'
  BY <1>3, RenameLeaves DEF Rename, Undisturbed, InFlight, Busy, Fresh, Shape
<1>4. ASSUME NEW h \in Savers, Refuse(h) PROVE Undisturbed'
  BY <1>4, RefuseLeaves DEF Refuse, Undisturbed, InFlight, Busy, Fresh, Shape
<1>5. ASSUME NEW h \in Savers, Reload(h) PROVE Undisturbed'
  <2>1. CASE Load = {} /\ Finish(h, "unadopted")
    BY <1>5, <2>1, GiveUpLeaves DEF Reload, Undisturbed, InFlight, Busy, Fresh, Shape
  <2>2. ASSUME NEW c \in Load, Goto(h, "set"), my' = [my EXCEPT ![h].next = c] PROVE Undisturbed'
    <3>1. /\ at[h] = "reload" /\ at'[h] = "set" /\ my'[h].patch = my[h].patch /\ my'[h].doc = my[h].doc
         /\ my'[h].next = c /\ my'[h].alone = my[h].alone
         /\ \A g \in Savers : g # h => at'[g] = at[g] /\ my'[g] = my[g]
      BY <1>5, <2>2, ReloadLeaves DEF Reload
    <3> QED
      BY <1>5, <2>2, <3>1 DEF Reload, Undisturbed, InFlight, Busy, Fresh, Shape
  <2> QED
    BY <1>5, <2>1, <2>2 DEF Reload
<1>6. ASSUME NEW h \in Savers, Publish(h) PROVE Undisturbed'
  BY <1>6, PublishLeaves DEF Publish, Undisturbed, InFlight, Busy, Fresh, Shape
<1>7. ASSUME NEW url \in Urls, NEW domain \in Domains, Test(url, domain) PROVE Undisturbed'
  BY <1>7 DEF Test, Undisturbed, InFlight, Busy, Fresh, Shape
<1>8. CASE Crash
  BY <1>8, CrashLeaves DEF Crash, Undisturbed, InFlight, Busy, Fresh, Shape
<1>9. CASE Boot
  BY <1>9 DEF Boot, Undisturbed, InFlight, Busy, Fresh, Shape
<1>10. CASE Edit
  BY <1>10, EditLeaves DEF Edit, Undisturbed, InFlight, Busy, Fresh, Shape
<1>11. CASE UNCHANGED vars
  BY <1>11 DEF vars, Undisturbed, InFlight, Busy, Fresh, Shape
<1> QED
  BY <1>1, <1>2, <1>3, <1>4, <1>5, <1>6, <1>7, <1>8, <1>9, <1>10, <1>11 DEF Next

(* What is to be written stays checked. *)
LEMMA CheckedNext == Shape /\ Checked /\ [Next]_vars => Checked'
<1> SUFFICES ASSUME Shape, Checked, [Next]_vars PROVE Checked'
  OBVIOUS
<1>1. ASSUME NEW h \in Savers, NEW p \in Patches, Save(h, p) PROVE Checked'
  <2>1. CASE Declined(h)
    BY <2>1, DeclineLeaves DEF Declined, Checked, Busy, Over
  <2>2. ASSUME NEW d, Begins(h, p, d) PROVE Checked'
    <3>1. /\ at[h] = "idle" /\ at'[h] = "write"
         /\ my'[h].patch = p /\ my'[h].doc = d /\ my'[h].next = Empty /\ my'[h].alone = (InFlight = {})
         /\ \A g \in Savers : g # h => /\ at'[g] = at[g] /\ my'[g].alone = FALSE
                                      /\ my'[g].patch = my[g].patch /\ my'[g].doc = my[g].doc
      BY <2>2 DEF Begins, Goto, Shape
    <3> QED
      BY <2>2, <3>1, ApplySets DEF Begins, Checked, PatchFields
  <2> QED
    BY <1>1, <2>1, <2>2, SaveCases
<1>2. ASSUME NEW h \in Savers, Write(h) PROVE Checked'
  BY <1>2, WriteLeaves DEF Write, Checked, Busy, Over
<1>3. ASSUME NEW h \in Savers, Rename(h) PROVE Checked'
  BY <1>3, RenameLeaves DEF Rename, Checked, Busy, Over
<1>4. ASSUME NEW h \in Savers, Refuse(h) PROVE Checked'
  BY <1>4, RefuseLeaves DEF Refuse, Checked, Busy, Over
<1>5. ASSUME NEW h \in Savers, Reload(h) PROVE Checked'
  <2>1. CASE Load = {} /\ Finish(h, "unadopted")
    BY <1>5, <2>1, GiveUpLeaves DEF Reload, Checked, Busy, Over
  <2>2. ASSUME NEW c \in Load, Goto(h, "set"), my' = [my EXCEPT ![h].next = c] PROVE Checked'
    <3>1. /\ at[h] = "reload" /\ at'[h] = "set" /\ my'[h].patch = my[h].patch /\ my'[h].doc = my[h].doc
         /\ my'[h].next = c /\ my'[h].alone = my[h].alone
         /\ \A g \in Savers : g # h => at'[g] = at[g] /\ my'[g] = my[g]
      BY <1>5, <2>2, ReloadLeaves DEF Reload
    <3> QED
      BY <1>5, <2>2, <3>1 DEF Reload, Checked, Busy, Over
  <2> QED
    BY <1>5, <2>1, <2>2 DEF Reload
<1>6. ASSUME NEW h \in Savers, Publish(h) PROVE Checked'
  BY <1>6, PublishLeaves DEF Publish, Checked, Busy, Over
<1>7. ASSUME NEW url \in Urls, NEW domain \in Domains, Test(url, domain) PROVE Checked'
  BY <1>7 DEF Test, Checked, Busy, Over
<1>8. CASE Crash
  BY <1>8, CrashLeaves DEF Crash, Checked, Busy, Over
<1>9. CASE Boot
  BY <1>9 DEF Boot, Checked, Busy, Over
<1>10. CASE Edit
  <2>1. /\ UNCHANGED at
       /\ \A g \in Savers : /\ my'[g].patch = my[g].patch /\ my'[g].doc = my[g].doc
                            /\ my'[g].next = my[g].next /\ my'[g].alone = FALSE
    BY <1>10, EditLeaves
  <2> QED
    BY <1>10, <2>1 DEF Edit, Checked, Busy, Over
<1>11. CASE UNCHANGED vars
  BY <1>11 DEF vars, Checked, Busy, Over
<1> QED
  BY <1>1, <1>2, <1>3, <1>4, <1>5, <1>6, <1>7, <1>8, <1>9, <1>10, <1>11 DEF Next

(* Between its read and its rename a save that is undisturbed has merged what is there. *)
LEMMA MergingNext == Shape /\ Undisturbed /\ Merging /\ [Next]_vars => Merging'
<1> SUFFICES ASSUME Shape, Undisturbed, Merging, [Next]_vars PROVE Merging'
  OBVIOUS
<1>1. ASSUME NEW h \in Savers, NEW p \in Patches, Save(h, p) PROVE Merging'
  <2>1. CASE Declined(h)
    BY <2>1, DeclineLeaves DEF Declined, Merging, Undisturbed, InFlight, Busy, OnDisk, Basis, Fresh
  <2>2. ASSUME NEW d, Begins(h, p, d) PROVE Merging'
    BY <2>2, BeginLeaves DEF Begins, Merging, Undisturbed, InFlight, Busy, OnDisk, Basis, Fresh
  <2> QED
    BY <1>1, <2>1, <2>2, SaveCases
<1>2. ASSUME NEW h \in Savers, Write(h) PROVE Merging'
  BY <1>2, WriteLeaves DEF Write, Merging, Undisturbed, InFlight, Busy, OnDisk, Basis, Fresh
<1>3. ASSUME NEW h \in Savers, Rename(h) PROVE Merging'
  BY <1>3, RenameLeaves DEF Rename, Merging, Undisturbed, InFlight, Busy, OnDisk, Basis, Fresh
<1>4. ASSUME NEW h \in Savers, Refuse(h) PROVE Merging'
  BY <1>4, RefuseLeaves DEF Refuse, Merging, Undisturbed, InFlight, Busy, OnDisk, Basis, Fresh
<1>5. ASSUME NEW h \in Savers, Reload(h) PROVE Merging'
  <2>1. CASE Load = {} /\ Finish(h, "unadopted")
    BY <1>5, <2>1, GiveUpLeaves DEF Reload, Merging, Undisturbed, InFlight, Busy, OnDisk, Basis, Fresh
  <2>2. ASSUME NEW c \in Load, Goto(h, "set"), my' = [my EXCEPT ![h].next = c] PROVE Merging'
    BY <1>5, <2>2, ReloadLeaves DEF Reload, Merging, Undisturbed, InFlight, Busy, OnDisk, Basis, Fresh
  <2> QED
    BY <1>5, <2>1, <2>2 DEF Reload
<1>6. ASSUME NEW h \in Savers, Publish(h) PROVE Merging'
  BY <1>6, PublishLeaves DEF Publish, Merging, Undisturbed, InFlight, Busy, OnDisk, Basis, Fresh
<1>7. ASSUME NEW url \in Urls, NEW domain \in Domains, Test(url, domain) PROVE Merging'
  BY <1>7 DEF Test, Merging, Undisturbed, InFlight, Busy, OnDisk, Basis, Fresh
<1>8. CASE Crash
  BY <1>8, CrashLeaves DEF Crash, Merging, Undisturbed, InFlight, Busy, OnDisk, Basis, Fresh
<1>9. CASE Boot
  BY <1>9 DEF Boot, Merging, Undisturbed, InFlight, Busy, OnDisk, Basis, Fresh
<1>10. CASE Edit
  BY <1>10, EditLeaves DEF Edit, Merging, Undisturbed, InFlight, Busy, OnDisk, Basis, Fresh
<1>11. CASE UNCHANGED vars
  BY <1>11 DEF vars, Merging, Undisturbed, InFlight, Busy, OnDisk, Basis, Fresh
<1> QED
  BY <1>1, <1>2, <1>3, <1>4, <1>5, <1>6, <1>7, <1>8, <1>9, <1>10, <1>11 DEF Next

(* After its rename it has the file. *)
LEMMA AdoptingNext == Shape /\ Undisturbed /\ Adopting /\ [Next]_vars => Adopting'
<1> SUFFICES ASSUME Shape, Undisturbed, Adopting, [Next]_vars PROVE Adopting'
  OBVIOUS
<1>1. ASSUME NEW h \in Savers, NEW p \in Patches, Save(h, p) PROVE Adopting'
  <2>1. CASE Declined(h)
    BY <2>1, DeclineLeaves DEF Declined, Adopting, Undisturbed, InFlight, Busy, Load, Readable, OnDisk, Fresh
  <2>2. ASSUME NEW d, Begins(h, p, d) PROVE Adopting'
    <3>1. at'[h] = "write" /\ \A g \in Savers : g # h => ~my'[g].alone
      BY <2>2, BeginLeaves
    <3> QED
      BY <3>1 DEF Adopting
  <2> QED
    BY <1>1, <2>1, <2>2, SaveCases
<1>2. ASSUME NEW h \in Savers, Write(h) PROVE Adopting'
  BY <1>2, WriteLeaves DEF Write, Adopting, Undisturbed, InFlight, Busy, Load, Readable, OnDisk, Fresh
<1>3. ASSUME NEW h \in Savers, Rename(h) PROVE Adopting'
  BY <1>3, RenameLeaves DEF Rename, Adopting, Undisturbed, InFlight, Busy, Load, Readable, OnDisk, Fresh
<1>4. ASSUME NEW h \in Savers, Refuse(h) PROVE Adopting'
  BY <1>4, RefuseLeaves DEF Refuse, Adopting, Undisturbed, InFlight, Busy, Load, Readable, OnDisk, Fresh
<1>5. ASSUME NEW h \in Savers, Reload(h) PROVE Adopting'
  <2>1. CASE Load = {} /\ Finish(h, "unadopted")
    BY <1>5, <2>1, GiveUpLeaves DEF Reload, Adopting, Undisturbed, InFlight, Busy, Load, Readable, OnDisk, Fresh
  <2>2. ASSUME NEW c \in Load, Goto(h, "set"), my' = [my EXCEPT ![h].next = c] PROVE Adopting'
    <3>1. /\ at[h] = "reload" /\ at'[h] = "set" /\ my'[h].patch = my[h].patch /\ my'[h].doc = my[h].doc
         /\ my'[h].next = c /\ my'[h].alone = my[h].alone
         /\ \A g \in Savers : g # h => at'[g] = at[g] /\ my'[g] = my[g]
      BY <1>5, <2>2, ReloadLeaves DEF Reload
    <3>2. file' = file /\ Load' = Load
      BY <1>5 DEF Reload, Load, Readable, OnDisk
    <3> HIDE DEF Adopting
    <3>3. ASSUME NEW g \in Savers, my'[g].alone
          PROVE  /\ at'[g] \in {"reload", "set"} => file'.form = "whole" /\ file'.doc = my'[g].doc
                 /\ at'[g] = "set" => my'[g].next \in Load'
      <4>1. CASE g = h
        BY <2>2, <3>1, <3>2, <3>3, <4>1 DEF Adopting
      <4>2. CASE g # h
        BY <3>1, <3>2, <3>3, <4>2 DEF Adopting
      <4> QED
        BY <4>1, <4>2
    <3> QED
      BY <3>3 DEF Adopting
  <2> QED
    BY <1>5, <2>1, <2>2 DEF Reload
<1>6. ASSUME NEW h \in Savers, Publish(h) PROVE Adopting'
  BY <1>6, PublishLeaves DEF Publish, Adopting, Undisturbed, InFlight, Busy, Load, Readable, OnDisk, Fresh
<1>7. ASSUME NEW url \in Urls, NEW domain \in Domains, Test(url, domain) PROVE Adopting'
  BY <1>7 DEF Test, Adopting, Undisturbed, InFlight, Busy, Load, Readable, OnDisk, Fresh
<1>8. CASE Crash
  BY <1>8, CrashLeaves DEF Crash, Adopting, Undisturbed, InFlight, Busy, Load, Readable, OnDisk, Fresh
<1>9. CASE Boot
  BY <1>9 DEF Boot, Adopting, Undisturbed, InFlight, Busy, Load, Readable, OnDisk, Fresh
<1>10. CASE Edit
  BY <1>10, EditLeaves DEF Edit, Adopting, Undisturbed, InFlight, Busy, Load, Readable, OnDisk, Fresh
<1>11. CASE UNCHANGED vars
  BY <1>11 DEF vars, Adopting, Undisturbed, InFlight, Busy, Load, Readable, OnDisk, Fresh
<1> QED
  BY <1>1, <1>2, <1>3, <1>4, <1>5, <1>6, <1>7, <1>8, <1>9, <1>10, <1>11 DEF Next

(* What runs stays in force. *)
LEMMA InForceNext == Shape /\ Adopting /\ InForce /\ [Next]_vars => InForce'
<1> SUFFICES ASSUME Shape, Adopting, InForce, [Next]_vars PROVE InForce'
  OBVIOUS
<1>1. ASSUME NEW h \in Savers, NEW p \in Patches, Save(h, p) PROVE InForce'
  <2>1. CASE Declined(h)
    BY <2>1, DeclineLeaves DEF Declined, InForce, Load, Readable, OnDisk, process, Adopting
  <2>2. ASSUME NEW d, Begins(h, p, d) PROVE InForce'
    BY <2>2, BeginLeaves DEF Begins, InForce, Load, Readable, OnDisk, process, Adopting
  <2> QED
    BY <1>1, <2>1, <2>2, SaveCases
<1>2. ASSUME NEW h \in Savers, Write(h) PROVE InForce'
  BY <1>2, WriteLeaves DEF Write, InForce, Load, Readable, OnDisk, process, Adopting
<1>3. ASSUME NEW h \in Savers, Rename(h) PROVE InForce'
  BY <1>3, RenameLeaves DEF Rename, InForce, Load, Readable, OnDisk, process, Adopting
<1>4. ASSUME NEW h \in Savers, Refuse(h) PROVE InForce'
  BY <1>4, RefuseLeaves DEF Refuse, InForce, Load, Readable, OnDisk, process, Adopting
<1>5. ASSUME NEW h \in Savers, Reload(h) PROVE InForce'
  <2>1. CASE Load = {} /\ Finish(h, "unadopted")
    BY <1>5, <2>1, GiveUpLeaves DEF Reload, InForce, Load, Readable, OnDisk, process, Adopting
  <2>2. ASSUME NEW c \in Load, Goto(h, "set"), my' = [my EXCEPT ![h].next = c] PROVE InForce'
    BY <1>5, <2>2, ReloadLeaves DEF Reload, InForce, Load, Readable, OnDisk, process, Adopting
  <2> QED
    BY <1>5, <2>1, <2>2 DEF Reload
<1>6. ASSUME NEW h \in Savers, Publish(h) PROVE InForce'
  BY <1>6, PublishLeaves DEF Publish, InForce, Load, Readable, OnDisk, process, Adopting
<1>7. ASSUME NEW url \in Urls, NEW domain \in Domains, Test(url, domain) PROVE InForce'
  BY <1>7 DEF Test, InForce, Load, Readable, OnDisk, process, Adopting
<1>8. CASE Crash
  BY <1>8, CrashLeaves DEF Crash, InForce, Load, Readable, OnDisk, process, Adopting
<1>9. CASE Boot
  BY <1>9 DEF Boot, InForce, Load, Readable, OnDisk, process, Adopting
<1>10. CASE Edit
  BY <1>10, EditLeaves DEF Edit, InForce, Load, Readable, OnDisk, process, Adopting
<1>11. CASE UNCHANGED vars
  BY <1>11 DEF vars, InForce, Load, Readable, OnDisk, process, Adopting
<1> QED
  BY <1>1, <1>2, <1>3, <1>4, <1>5, <1>6, <1>7, <1>8, <1>9, <1>10, <1>11 DEF Next

(* A save leaves a file that boots. *)
LEMMA SavedFileBootsNext == Shape /\ Checked /\ SavedFileBoots /\ [Next]_vars => SavedFileBoots'
<1> SUFFICES ASSUME Shape, Checked, SavedFileBoots, [Next]_vars PROVE SavedFileBoots'
  OBVIOUS
<1>1. ASSUME NEW h \in Savers, NEW p \in Patches, Save(h, p) PROVE SavedFileBoots'
  <2>1. CASE Declined(h)
    BY <2>1, DeclineLeaves DEF Declined, SavedFileBoots, Checked, Busy
  <2>2. ASSUME NEW d, Begins(h, p, d) PROVE SavedFileBoots'
    BY <2>2, BeginLeaves DEF Begins, SavedFileBoots, Checked, Busy
  <2> QED
    BY <1>1, <2>1, <2>2, SaveCases
<1>2. ASSUME NEW h \in Savers, Write(h) PROVE SavedFileBoots'
  BY <1>2, WriteLeaves DEF Write, SavedFileBoots, Checked, Busy
<1>3. ASSUME NEW h \in Savers, Rename(h) PROVE SavedFileBoots'
  BY <1>3, RenameLeaves, ValidStarts DEF Rename, SavedFileBoots, Checked, Busy
<1>4. ASSUME NEW h \in Savers, Refuse(h) PROVE SavedFileBoots'
  BY <1>4, RefuseLeaves DEF Refuse, SavedFileBoots, Checked, Busy
<1>5. ASSUME NEW h \in Savers, Reload(h) PROVE SavedFileBoots'
  <2>1. CASE Load = {} /\ Finish(h, "unadopted")
    BY <1>5, <2>1, GiveUpLeaves DEF Reload, SavedFileBoots, Checked, Busy
  <2>2. ASSUME NEW c \in Load, Goto(h, "set"), my' = [my EXCEPT ![h].next = c] PROVE SavedFileBoots'
    BY <1>5, <2>2, ReloadLeaves DEF Reload, SavedFileBoots, Checked, Busy
  <2> QED
    BY <1>5, <2>1, <2>2 DEF Reload
<1>6. ASSUME NEW h \in Savers, Publish(h) PROVE SavedFileBoots'
  BY <1>6, PublishLeaves DEF Publish, SavedFileBoots, Checked, Busy
<1>7. ASSUME NEW url \in Urls, NEW domain \in Domains, Test(url, domain) PROVE SavedFileBoots'
  BY <1>7 DEF Test, SavedFileBoots, Checked, Busy
<1>8. CASE Crash
  BY <1>8, CrashLeaves DEF Crash, SavedFileBoots, Checked, Busy
<1>9. CASE Boot
  BY <1>9 DEF Boot, SavedFileBoots, Checked, Busy
<1>10. CASE Edit
  BY <1>10, EditLeaves DEF Edit, SavedFileBoots, Checked, Busy
<1>11. CASE UNCHANGED vars
  BY <1>11 DEF vars, SavedFileBoots, Checked, Busy
<1> QED
  BY <1>1, <1>2, <1>3, <1>4, <1>5, <1>6, <1>7, <1>8, <1>9, <1>10, <1>11 DEF Next

(* Routes keep their domains. *)
LEMMA AllRoutedNext == Shape /\ AllRouted /\ [Next]_vars => AllRouted'
<1> SUFFICES ASSUME Shape, AllRouted, [Next]_vars PROVE AllRouted'
  OBVIOUS
<1>1. ASSUME NEW h \in Savers, NEW p \in Patches, Save(h, p) PROVE AllRouted'
  <2>1. CASE Declined(h)
    BY <2>1, DeclineLeaves, LoadedRouted, NoRoutes DEF Declined, AllRouted, Routed, process, Fresh
  <2>2. ASSUME NEW d, Begins(h, p, d) PROVE AllRouted'
    BY <2>2, BeginLeaves, LoadedRouted, NoRoutes DEF Begins, AllRouted, Routed, process, Fresh
  <2> QED
    BY <1>1, <2>1, <2>2, SaveCases
<1>2. ASSUME NEW h \in Savers, Write(h) PROVE AllRouted'
  BY <1>2, WriteLeaves, LoadedRouted, NoRoutes DEF Write, AllRouted, Routed, process, Fresh
<1>3. ASSUME NEW h \in Savers, Rename(h) PROVE AllRouted'
  BY <1>3, RenameLeaves, LoadedRouted, NoRoutes DEF Rename, AllRouted, Routed, process, Fresh
<1>4. ASSUME NEW h \in Savers, Refuse(h) PROVE AllRouted'
  BY <1>4, RefuseLeaves, LoadedRouted, NoRoutes DEF Refuse, AllRouted, Routed, process, Fresh
<1>5. ASSUME NEW h \in Savers, Reload(h) PROVE AllRouted'
  <2>1. CASE Load = {} /\ Finish(h, "unadopted")
    BY <1>5, <2>1, GiveUpLeaves, LoadedRouted, NoRoutes DEF Reload, AllRouted, Routed, process, Fresh
  <2>2. ASSUME NEW c \in Load, Goto(h, "set"), my' = [my EXCEPT ![h].next = c] PROVE AllRouted'
    BY <1>5, <2>2, ReloadLeaves, LoadedRouted, NoRoutes DEF Reload, AllRouted, Routed, process, Fresh
  <2> QED
    BY <1>5, <2>1, <2>2 DEF Reload
<1>6. ASSUME NEW h \in Savers, Publish(h) PROVE AllRouted'
  BY <1>6, PublishLeaves, LoadedRouted, NoRoutes DEF Publish, AllRouted, Routed, process, Fresh
<1>7. ASSUME NEW url \in Urls, NEW domain \in Domains, Test(url, domain) PROVE AllRouted'
  BY <1>7, LoadedRouted, NoRoutes DEF Test, AllRouted, Routed, process, Fresh
<1>8. CASE Crash
  BY <1>8, CrashLeaves, LoadedRouted, NoRoutes DEF Crash, AllRouted, Routed, process, Fresh
<1>9. CASE Boot
  BY <1>9, LoadedRouted, NoRoutes DEF Boot, AllRouted, Routed, process, Fresh
<1>10. CASE Edit
  BY <1>10, EditLeaves, LoadedRouted, NoRoutes DEF Edit, AllRouted, Routed, process, Fresh
<1>11. CASE UNCHANGED vars
  BY <1>11, LoadedRouted, NoRoutes DEF vars, AllRouted, Routed, process, Fresh
<1> QED
  BY <1>1, <1>2, <1>3, <1>4, <1>5, <1>6, <1>7, <1>8, <1>9, <1>10, <1>11 DEF Next

(* What a start would load is resolved from a written document. *)
LEMMA LoadTypes ==
  ASSUME Written(file.doc), NEW c \in Load PROVE Resolved(c)
<1>1. Written(OnDisk)
  BY EmptyIsBoth DEF OnDisk
<1>2. c \in Resolve(OnDisk, Held)
  BY DEF Load
<1> QED
  BY <1>1, <1>2, ResolveTypes

(* What a patch makes of the file is a written document. *)
LEMMA MergeTypes ==
  ASSUME Written(file.doc), NEW p \in Patches, NEW d \in Apply(Basis, p) PROVE Written(d)
<1>1. Written(Basis)
  BY EmptyIsBoth DEF Basis, OnDisk
<1> QED
  BY <1>1, ApplyTypes

(* Nobody's record is typed. *)
LEMMA FreshIsTyped ==
  /\ Fresh.patch = NoPatch /\ Written(Fresh.doc) /\ Resolved(Fresh.next) /\ Fresh.alone = FALSE
BY EmptyIsBoth DEF Fresh

(* Documents stay typed. *)
LEMMA TypedNext == Shape /\ Typed /\ [Next]_vars => Typed'
<1> SUFFICES ASSUME Shape, Typed, [Next]_vars PROVE Typed'
  OBVIOUS
<1>1. ASSUME NEW h \in Savers, NEW p \in Patches, Save(h, p) PROVE Typed'
  <2>1. CASE Declined(h)
    <3>1. /\ at[h] = "idle" /\ at'[h] \in {"failed", "held", "refused"} /\ my'[h] = Fresh
         /\ \A g \in Savers : g # h => at'[g] = at[g] /\ my'[g] = my[g]
      BY <2>1, DeclineLeaves
    <3> QED
      BY <2>1, <3>1, FreshIsTyped DEF Declined, Typed, process, bounds
  <2>2. ASSUME NEW d, Begins(h, p, d) PROVE Typed'
    <3>1. /\ at[h] = "idle" /\ at'[h] = "write"
         /\ my'[h].patch = p /\ my'[h].doc = d /\ my'[h].next = Empty /\ my'[h].alone = (InFlight = {})
         /\ \A g \in Savers : g # h => /\ at'[g] = at[g] /\ my'[g].alone = FALSE
                                      /\ my'[g].patch = my[g].patch /\ my'[g].doc = my[g].doc
      BY <2>2 DEF Begins, Goto, Shape
    <3> QED
      BY <2>2, <3>1, EmptyIsBoth, MergeTypes DEF Begins, process, bounds, Typed
  <2> QED
    BY <1>1, <2>1, <2>2, SaveCases
<1>2. ASSUME NEW h \in Savers, Write(h) PROVE Typed'
  BY <1>2, WriteLeaves, FreshIsTyped DEF Write, Typed, process, bounds
<1>3. ASSUME NEW h \in Savers, Rename(h) PROVE Typed'
  <2>1. file'.form = "whole" /\ file'.by = "save" /\ file'.doc = my[h].doc
    BY <1>3 DEF Rename
  <2>2. file'.form \in Forms /\ file'.by \in {"nobody", "hand", "save"} /\ Written(file'.doc)
    BY <2>1 DEF Typed, Forms
  <2>3. settled' = FALSE /\ UNCHANGED <<my, process, bounds>>
    BY <1>3 DEF Rename
  <2> QED
    BY <2>2, <2>3 DEF Typed, process, bounds
<1>4. ASSUME NEW h \in Savers, Refuse(h) PROVE Typed'
  BY <1>4, RefuseLeaves, FreshIsTyped DEF Refuse, Typed, process, bounds
<1>5. ASSUME NEW h \in Savers, Reload(h) PROVE Typed'
  <2>1. CASE Load = {} /\ Finish(h, "unadopted")
    BY <1>5, <2>1, GiveUpLeaves, FreshIsTyped, LoadTypes DEF Reload, Typed, process, bounds
  <2>2. ASSUME NEW c \in Load, Goto(h, "set"), my' = [my EXCEPT ![h].next = c] PROVE Typed'
    <3>1. /\ at[h] = "reload" /\ at'[h] = "set" /\ my'[h].patch = my[h].patch /\ my'[h].doc = my[h].doc
         /\ my'[h].next = c /\ my'[h].alone = my[h].alone
         /\ \A g \in Savers : g # h => at'[g] = at[g] /\ my'[g] = my[g]
      BY <1>5, <2>2, ReloadLeaves DEF Reload
    <3> QED
      BY <1>5, <2>2, <3>1, FreshIsTyped, LoadTypes DEF Reload, Typed, process, bounds
  <2> QED
    BY <1>5, <2>1, <2>2 DEF Reload
<1>6. ASSUME NEW h \in Savers, Publish(h) PROVE Typed'
  BY <1>6, PublishLeaves, FreshIsTyped DEF Publish, Typed, process, bounds
<1>7. ASSUME NEW url \in Urls, NEW domain \in Domains, Test(url, domain) PROVE Typed'
  BY <1>7 DEF Test, Typed, process, bounds
<1>8. CASE Crash
  <2>1. \A g \in Savers : my'[g] = Fresh
    BY <1>8, CrashLeaves
  <2>2. up' = FALSE /\ crashes' = crashes + 1 /\ UNCHANGED <<file, running, booted, settled, edits>>
    BY <1>8 DEF Crash
  <2>3. crashes \in Nat /\ crashes' \in Nat
    BY <2>2 DEF Typed
  <2>4. \A g \in Savers : /\ my'[g].patch \in Patches \cup {NoPatch} /\ my'[g].alone \in BOOLEAN
                          /\ Written(my'[g].doc) /\ Resolved(my'[g].next)
    BY <2>1, FreshIsTyped
  <2> QED
    BY <2>2, <2>3, <2>4 DEF Typed
<1>9. CASE Boot
  BY <1>9, LoadTypes DEF Boot, Typed, bounds
<1>10. CASE Edit
  <2>1. PICK d \in ByHand \cup {Empty} : file'.doc = d /\ file'.form \in {"whole", "torn"} /\ file'.by = "hand"
    BY <1>10 DEF Edit
  <2>2. Written(d)
    BY SettingsAssumption, EmptyIsBoth DEF Written
  <2>3. file'.form \in Forms /\ file'.by \in {"nobody", "hand", "save"} /\ Written(file'.doc)
    BY <2>1, <2>2 DEF Forms
  <2>4. settled' = FALSE /\ edits' = edits + 1 /\ UNCHANGED <<process, crashes>>
    BY <1>10 DEF Edit
  <2>5. \A g \in Savers : /\ my'[g].patch = my[g].patch /\ my'[g].doc = my[g].doc
                          /\ my'[g].next = my[g].next /\ my'[g].alone = FALSE
    BY <1>10, EditLeaves
  <2>6. edits \in Nat /\ edits' \in Nat
    BY <2>4 DEF Typed
  <2>7. \A g \in Savers : /\ my'[g].patch \in Patches \cup {NoPatch} /\ my'[g].alone \in BOOLEAN
                          /\ Written(my'[g].doc) /\ Resolved(my'[g].next)
    BY <2>5 DEF Typed
  <2> QED
    BY <2>3, <2>4, <2>6, <2>7 DEF Typed, process
<1>11. CASE UNCHANGED vars
  BY <1>11 DEF vars, Typed, bounds
<1> QED
  BY <1>1, <1>2, <1>3, <1>4, <1>5, <1>6, <1>7, <1>8, <1>9, <1>10, <1>11 DEF Next

-----------------------------------------------------------------------------
(* The theorems *)

(* The inductive invariant. *)
IInv ==
  /\ Shape /\ Typed /\ Tidy
  /\ Undisturbed /\ Checked /\ Merging /\ Adopting
  /\ InForce /\ SavedFileBoots /\ AllRouted

(* It holds at first. *)
LEMMA InvInit == Init => IInv
<1> SUFFICES ASSUME Init PROVE IInv
  OBVIOUS
<1>1. \A h \in Savers : at[h] = "idle" /\ my[h] = Fresh
  BY DEF Init
<1>2. /\ Fresh.alone = FALSE /\ Fresh.patch = NoPatch /\ Fresh.doc = Empty /\ Fresh.next = Empty
      /\ Fresh = [patch |-> Fresh.patch, doc |-> Fresh.doc, next |-> Fresh.next, alone |-> Fresh.alone]
  BY DEF Fresh
<1>3. Shape
  BY <1>1, <1>2 DEF Init, Shape
<1>4. Written(file.doc) /\ file.form \in Forms /\ file.by \in {"nobody", "hand", "save"} /\ file.by # "save"
  <2>1. CASE file = [form |-> "absent", by |-> "nobody", doc |-> Empty]
    BY <2>1, EmptyIsBoth DEF Forms
  <2>2. ASSUME NEW d \in ByHand, file = [form |-> "whole", by |-> "hand", doc |-> d]
        PROVE  Written(file.doc) /\ file.form \in Forms /\ file.by = "hand"
    BY <2>2, SettingsAssumption DEF Written, Forms
  <2> QED
    BY <2>1, <2>2 DEF Init
<1>5. running \in Load /\ booted = running
  BY DEF Init
<1>6. Resolved(running)
  BY <1>4, <1>5, LoadTypes
<1>7. Typed
  BY <1>1, <1>2, <1>4, <1>5, <1>6, EmptyIsBoth DEF Typed, Init
<1>8. Tidy
  BY DEF Init, Tidy, NothingLeftBehind
<1>9. Undisturbed /\ Checked /\ Merging /\ Adopting
  BY <1>1, <1>2 DEF Undisturbed, Checked, Merging, Adopting, Busy
<1>10. InForce /\ SavedFileBoots
  BY <1>4, <1>5 DEF InForce, SavedFileBoots
<1>11. AllRouted
  BY <1>1, <1>2, <1>5, LoadedRouted, NoRoutes DEF AllRouted, Routed
<1> QED
  BY <1>3, <1>7, <1>8, <1>9, <1>10, <1>11 DEF IInv

(* Every step keeps it. *)
LEMMA InvNext == IInv /\ [Next]_vars => IInv'
<1> SUFFICES ASSUME IInv, [Next]_vars PROVE IInv'
  OBVIOUS
<1>1. /\ Shape /\ Typed /\ Tidy /\ Undisturbed /\ Checked /\ Merging /\ Adopting
      /\ InForce /\ SavedFileBoots /\ AllRouted
  BY DEF IInv
<1>2. Shape' /\ Typed' /\ Tidy'
  BY <1>1, ShapeNext, TypedNext, TidyNext
<1>3. Undisturbed' /\ Checked' /\ Merging' /\ Adopting'
  BY <1>1, UndisturbedNext, CheckedNext, MergingNext, AdoptingNext
<1>4. InForce' /\ SavedFileBoots' /\ AllRouted'
  BY <1>1, InForceNext, SavedFileBootsNext, AllRoutedNext
<1> QED
  BY <1>2, <1>3, <1>4 DEF IInv

(* So it always does. *)
LEMMA Invariant == Spec => []IInv
<1>1. Init => IInv
  BY InvInit
<1>2. IInv /\ [Next]_vars => IInv'
  BY InvNext
<1> QED
  BY <1>1, <1>2, PTL DEF Spec

(* Every variable keeps its type: what runs and what is written are documents,  *)
(* and no stored row is left with the mark that keeps its key.               *)
THEOREM TypesCorrect == Spec => []TypeOK
<1>1. IInv => TypeOK
  BY DEF IInv, Shape, Typed, Tidy, Written, Resolved, TypeOK
<1> QED
  BY <1>1, Invariant, PTL

(* A file that a save left is whole and starts the program by itself.          *)
THEOREM SavedFileBootsAlways == Spec => []SavedFileBoots
<1>1. IInv => SavedFileBoots
  BY DEF IInv
<1> QED
  BY <1>1, Invariant, PTL

(* What runs is what a start would load, but for overlapping saves, hands and   *)
(* files that could not be adopted.                                          *)
THEOREM QuietIsInForceAlways == Spec => []QuietIsInForce
<1>1. IInv => QuietIsInForce
  BY DEF IInv, InForce, QuietIsInForce
<1> QED
  BY <1>1, Invariant, PTL

(* A temporary file stays only where the process died around the rename.       *)
THEOREM NothingLeftBehindAlways == Spec => []NothingLeftBehind
<1>1. IInv => NothingLeftBehind
  BY DEF IInv, Tidy
<1> QED
  BY <1>1, Invariant, PTL

(* The route a recipient's reply follows is, of all that cover its domain, the  *)
(* one that covers least, and the top-level URL only when none does.          *)
THEOREM RouteIsNearestAlways == Spec => []RouteIsNearest
<1>1. ASSUME IInv PROVE RouteIsNearest
  <2>1. Resolved(running) /\ Routed(running)
    BY <1>1 DEF IInv, Typed, AllRouted
  <2> QED
    BY <2>1, NearestRoute DEF RouteIsNearest
<1>2. IInv => RouteIsNearest
  BY <1>1
<1> QED
  BY <1>2, Invariant, PTL

(* The page shows what a delivery would use, and announces a restart exactly    *)
(* when one would change what the process listens on or accepts.             *)
THEOREM PageTellsTruthAlways == Spec => []PageTellsTruth
<1>1. ASSUME IInv PROVE PageTellsTruth
  <2>1. ASSUME NEW p \in DOMAIN running.routes
        PROVE  LET t == Target(running, running.routes[p])
               IN  Described(running, running.routes[p]) =
                     [url |-> t.url, format |-> t.format, signed |-> t.key # Blank, verify |-> t.verify = "on"]
    <3> DEFINE row == running.routes[p]
               t == Target(running, row)
    <3>1. /\ t.url = row.url /\ t.format = First(row.format, running.set["webhook.format"])
          /\ t.key = First(row.key, running.set["webhook.signing_key"])
          /\ t.verify = First(row.verify, running.set["webhook.verify_tls"])
      BY DEF Target
    <3>2. (row.key # Blank \/ running.set["webhook.signing_key"] # Blank) = (t.key # Blank)
      BY <3>1 DEF First
    <3>3. ((row.verify = Blank /\ running.set["webhook.verify_tls"] = "on") \/ row.verify = "on")
            = (t.verify = "on")
      BY <3>1 DEF First, Blank
    <3>4. Described(running, row) =
            [url |-> row.url, format |-> First(row.format, running.set["webhook.format"]),
             signed |-> row.key # Blank \/ running.set["webhook.signing_key"] # Blank,
             verify |-> (row.verify = Blank /\ running.set["webhook.verify_tls"] = "on") \/ row.verify = "on"]
      BY DEF Described
    <3>5. Described(running, row) = [url |-> t.url, format |-> t.format, signed |-> t.key # Blank, verify |-> t.verify = "on"]
      BY <3>1, <3>2, <3>3, <3>4, Zenon
    <3> QED
      BY <3>5
  <2>2. ASSUME up, InFlight = {}, settled
        PROVE  NeedsRestart(running) <=> \A c \in Load : \E f \in Listeners : c.set[f] # booted.set[f]
    <3>1. running \in Load
      BY <1>1, <2>2 DEF IInv, InForce
    <3>2. \A c \in Load : c.set = running.set
      BY <3>1, SameFields DEF Load
    <3> QED
      BY <3>1, <3>2 DEF NeedsRestart
  <2> QED
    BY <2>1, <2>2 DEF PageTellsTruth
<1>2. IInv => PageTellsTruth
  BY <1>1
<1> QED
  BY <1>2, Invariant, PTL

(* Only the answer takes a save from its load to success, and only the rename   *)
(* takes it on to loading.                                                   *)
LEMMA WhoMoves ==
  ASSUME Shape, [Next]_vars, NEW h \in Savers
  PROVE  /\ at[h] = "set" /\ at'[h] = "saved" => Publish(h)
         /\ at[h] = "rename" /\ at'[h] = "reload" => Rename(h)
<1> DEFINE Moved == \/ at[h] = "set" /\ at'[h] = "saved"
                    \/ at[h] = "rename" /\ at'[h] = "reload"
<1>1. ASSUME NEW g \in Savers, Publish(g), Moved PROVE g = h /\ at[h] = "set"
  BY <1>1, PublishLeaves
<1>2. ASSUME NEW g \in Savers, Rename(g), Moved PROVE g = h /\ at[h] = "rename"
  BY <1>2, RenameLeaves
<1>3. ASSUME NEW g \in Savers, NEW p \in Patches, Save(g, p) PROVE ~Moved
  <2>1. CASE Declined(g)
    BY <2>1, DeclineLeaves
  <2>2. ASSUME NEW d, Begins(g, p, d) PROVE ~Moved
    BY <2>2, BeginLeaves
  <2> QED
    BY <1>3, <2>1, <2>2, SaveCases
<1>4. ASSUME NEW g \in Savers, Write(g) \/ Refuse(g) PROVE ~Moved
  BY <1>4, WriteLeaves, RefuseLeaves
<1>5. ASSUME NEW g \in Savers, Reload(g) PROVE ~Moved
  BY <1>5, GiveUpLeaves, ReloadLeaves DEF Reload
<1>6. ASSUME (\E url \in Urls, domain \in Domains : Test(url, domain)) \/ Boot \/ Edit \/ UNCHANGED vars
      PROVE  ~Moved
  BY <1>6 DEF Test, Boot, Edit, vars
<1>7. ASSUME Crash PROVE ~Moved
  BY <1>7, CrashLeaves
<1>8. Moved => \E g \in Savers : Publish(g) \/ Rename(g)
  <2> HIDE DEF Moved
  <2> QED
    BY <1>3, <1>4, <1>5, <1>6, <1>7 DEF Next, Busy
<1>9. ASSUME Moved PROVE (at[h] = "set" /\ Publish(h)) \/ (at[h] = "rename" /\ Rename(h))
  BY <1>1, <1>2, <1>8, <1>9
<1>10. "set" # "rename"
  OBVIOUS
<1>11. ASSUME at[h] = "set", at'[h] = "saved" PROVE Publish(h)
  BY <1>9, <1>10, <1>11, Zenon
<1>12. ASSUME at[h] = "rename", at'[h] = "reload" PROVE Rename(h)
  BY <1>9, <1>10, <1>12, Zenon
<1> QED
  BY <1>11, <1>12

(* A save that is answered with success is in force.                           *)
THEOREM AnsweredIsInForceAlways == Spec => AnsweredIsInForce
<1>1. ASSUME IInv, [Next]_vars, NEW h \in Savers, at'[h] = "saved", at[h] = "set", my[h].alone,
             NEW f \in DOMAIN my[h].patch.set, my[h].patch.set[f] # Blank
      PROVE  running'.set[f] = my[h].patch.set[f]
  <2>1. Shape /\ Checked /\ Adopting
    BY <1>1 DEF IInv
  <2>2. Publish(h)
    BY <1>1, <2>1, WhoMoves
  <2>3. running' = my[h].next /\ my[h].next \in Load /\ file.form = "whole" /\ file.doc = my[h].doc
    BY <1>1, <2>1, <2>2 DEF Publish, Adopting
  <2>4. my[h].next \in Resolve(my[h].doc, Held)
    BY <2>3 DEF Load, OnDisk
  <2>5. /\ Valid(my[h].doc) /\ my[h].patch \in Patches /\ f \notin DOMAIN Held
        /\ my[h].doc.set[f] = my[h].patch.set[f]
    BY <1>1, <2>1 DEF Checked, Busy, PatchFields
  <2>6. f \in Fields
    BY <2>5, SettingsAssumption
  <2>7. my[h].doc.set[f] # Bad
    BY <2>5, <2>6 DEF Valid
  <2>8. ~Unset(f, my[h].doc.set[f])
    BY <1>1, <2>5, <2>7 DEF Unset
  <2> QED
    BY <2>3, <2>4, <2>5, <2>6, <2>8, ResolvedField
<1> DEFINE Ok == \A h \in Savers :
                   (at'[h] = "saved" /\ at[h] = "set" /\ my[h].alone) =>
                     \A f \in DOMAIN my[h].patch.set :
                        my[h].patch.set[f] # Blank => running'.set[f] = my[h].patch.set[f]
<1>2. IInv /\ [Next]_vars => Ok
  BY <1>1
<1>3. IInv /\ [Next]_vars => [Ok]_vars
  BY <1>2
<1> QED
  BY <1>3, Invariant, PTL DEF Spec, AnsweredIsInForce

(* A save changes the fields it names, and of the routes only the table when it *)
(* sends one, in which a row without a key keeps its domain's.               *)
THEOREM SavesKeepTheRestAlways == Spec => SavesKeepTheRest
<1> DEFINE Kept(h) ==
      LET old == OnDisk  new == file'.doc  p == my[h].patch
      IN  /\ \A f \in Fields \ DOMAIN p.set : new.set[f] = old.set[f]
          /\ ~p.table => new.routes = old.routes
          /\ p.table => \A s \in DOMAIN new.routes :
               \/ \E r \in DOMAIN p.rows : r.to = s.to /\ p.rows[r].key = new.routes[s].key
               \/ new.routes[s].key \in {old.routes[r].key : r \in {r \in DOMAIN old.routes : r.to = s.to}}
               \/ Plain(s.to) \notin DOMAIN old.routes /\ new.routes[s].key = Blank
<1>1. ASSUME IInv, [Next]_vars, NEW h \in Savers, at[h] = "rename", at'[h] = "reload", my[h].alone
      PROVE  Kept(h)
  <2> DEFINE old == OnDisk
             new == file'.doc
             p == my[h].patch
  <2>1. Shape /\ Checked /\ Merging
    BY <1>1 DEF IInv
  <2>2. Rename(h)
    BY <1>1, <2>1, WhoMoves
  <2>3. new = my[h].doc /\ new \in Apply(old, p) /\ p \in Patches
    BY <1>1, <2>1, <2>2 DEF Rename, Merging, Checked, Busy
  <2>4. new.set = [f \in Fields |-> IF f \in DOMAIN p.set THEN p.set[f] ELSE old.set[f]]
    BY <2>3 DEF Apply
  <2>5. ~p.table => new.routes = old.routes
    BY <2>3 DEF Apply
  <2>6. ASSUME p.table, NEW s \in DOMAIN new.routes
        PROVE  \/ \E r \in DOMAIN p.rows : r.to = s.to /\ p.rows[r].key = new.routes[s].key
               \/ new.routes[s].key \in {old.routes[r].key : r \in {r \in DOMAIN old.routes : r.to = s.to}}
               \/ Plain(s.to) \notin DOMAIN old.routes /\ new.routes[s].key = Blank
    <3>1. PICK r \in DOMAIN p.rows : s = Plain(r.to) /\ new.routes[s] = MergeRow(old.routes, r.to, p.rows[r])
      BY <2>3, <2>6, AppliedRows
    <3>2. s.to = r.to
      BY <3>1 DEF Plain
    <3>3. CASE p.rows[r].key # Keep
      BY <3>1, <3>2, <3>3 DEF MergeRow
    <3>4. CASE p.rows[r].key = Keep
      <4> DEFINE row == p.rows[r]
                 key == IF Plain(r.to) \in DOMAIN old.routes THEN old.routes[Plain(r.to)].key ELSE Blank
      <4>1. new.routes[s] = [row EXCEPT !.key = key]
        BY <3>1, <3>4 DEF MergeRow
      <4>2. row = [url |-> row.url, format |-> row.format, key |-> row.key, verify |-> row.verify]
        BY <2>3, SettingsAssumption DEF IsRow
      <4>3. new.routes[s].key = key
        <5> HIDE DEF key, row
        <5> QED
          BY <4>1, <4>2
      <4>4. Plain(r.to).to = r.to
        BY DEF Plain
      <4> HIDE DEF row
      <4> QED
        BY <3>2, <4>3, <4>4
    <3> QED
      BY <3>3, <3>4
  <2> HIDE DEF old, new, p
  <2>7. \A f \in Fields \ DOMAIN p.set : new.set[f] = old.set[f]
    BY <2>4
  <2> QED
    BY <2>5, <2>6, <2>7 DEF old, new, p
<1> DEFINE Ok == \A h \in Savers : (at[h] = "rename" /\ at'[h] = "reload" /\ my[h].alone) => Kept(h)
<1>2. IInv /\ [Next]_vars => Ok
  <2> HIDE DEF Kept
  <2> QED
    BY <1>1
<1>3. IInv /\ [Next]_vars => [Ok]_vars
  BY <1>2
<1> QED
  BY <1>3, Invariant, PTL DEF Spec, SavesKeepTheRest

(* A stored key signs only a request to a URL that the configuration in force   *)
(* pairs with it.                                                            *)
THEOREM KeyGoesHomeAlways == Spec => KeyGoesHome
<1> DEFINE Home == \/ probe'.key = Blank
                   \/ \E t \in {RouteFor(running, d) : d \in Domains} \cup {Fallback(running)} :
                        t.url = probe'.url /\ t.key = probe'.key
<1>1. ASSUME IInv, NEW url \in Urls, NEW domain \in Domains, Test(url, domain) PROVE Home
  <2> DEFINE exact == Pattern(FALSE, domain)
  <2>1. probe'.url = url /\ probe'.key = StoredKey(running, url, domain) /\ url # Blank
    BY <1>1 DEF Test
  <2>2. CASE exact \in DOMAIN running.routes /\ running.routes[exact].url = url
    <3>1. domain # NoDomain
      <4>1. exact.labels = domain
        BY DEF Pattern
      <4> QED
        BY <1>1, <2>2, <4>1 DEF IInv, AllRouted, Routed
    <3>2. Matched(running, domain) = {exact}
      BY <2>2, <3>1 DEF Matched
    <3>3. RouteFor(running, domain) = Target(running, running.routes[exact])
      BY <3>2 DEF RouteFor
    <3>4. probe'.key = running.routes[exact].key
      BY <2>1, <2>2 DEF StoredKey
    <3>5. /\ RouteFor(running, domain).url = url
          /\ RouteFor(running, domain).key = First(running.routes[exact].key, running.set["webhook.signing_key"])
      BY <2>2, <3>3 DEF Target
    <3>6. probe'.key # Blank => RouteFor(running, domain).key = probe'.key
      BY <3>4, <3>5 DEF First
    <3> QED
      BY <2>1, <3>5, <3>6
  <2>3. CASE ~(exact \in DOMAIN running.routes /\ running.routes[exact].url = url)
    <3>1. probe'.key = IF url = running.set["webhook.url"] THEN running.set["webhook.signing_key"] ELSE Blank
      BY <2>1, <2>3 DEF StoredKey
    <3>2. url = running.set["webhook.url"] =>
            Fallback(running).url = url /\ Fallback(running).key = running.set["webhook.signing_key"]
      BY <2>1 DEF Fallback, Target, First
    <3> QED
      BY <2>1, <3>1, <3>2
  <2> QED
    BY <2>2, <2>3
<1>2. ASSUME IInv, [Next]_vars, probe' # probe PROVE Home
  <2>1. \E url \in Urls, domain \in Domains : Test(url, domain)
    BY <1>2 DEF Next, Save, Write, Rename, Refuse, Reload, Publish, Crash, Boot, Edit, vars
  <2> HIDE DEF Home
  <2> QED
    BY <1>1, <1>2, <2>1
<1>3. IInv /\ [Next]_vars => [probe' # probe => Home]_vars
  BY <1>2
<1> QED
  BY <1>3, Invariant, PTL DEF Spec, KeyGoesHome

=============================================================================
