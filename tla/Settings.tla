------------------------------- MODULE Settings -------------------------------
(***************************************************************************)
(* The settings page and the configuration behind it: PUT /config reads    *)
(* config.json, merges a patch into it, replaces the file, loads it again  *)
(* and publishes the result; POST /webhook/test signs with a stored key    *)
(* (httpapi/settings.go, config/save.go, config/live.go, serve.go's load). *)
(*                                                                         *)
(* Saves run concurrently and nothing serialises them.  Somebody may edit  *)
(* the file by hand, the disk may refuse, the process may die at any step; *)
(* it starts again from whatever file is there.                            *)
(***************************************************************************)
EXTENDS Routing

CONSTANTS
  Savers,      \* the PUT requests; each is served once
  Texts,       \* what a field or a part of a row may hold
  Labels,      \* what a domain may be made of
  Patches,     \* what one may ask for
  ByHand,      \* the documents somebody may write into config.json by hand
  Env,         \* what the environment holds, by field
  Flags,       \* what the command line holds, by field: load puts it on top
  Domains,     \* recipients' domains the page or a test may be about
  Urls,        \* targets a test may name
  MaxCrashes,  \* how often the process dies at most (bound)
  MaxEdits     \* how often somebody edits the file at most (bound)

Keep == "keep"   \* a row that does not mention its signing key

Nothing == [f \in {} |-> Blank]
NoPatch == [set |-> Nothing, table |-> FALSE, rows |-> NoRows]

(* What a row of a document or of a resolved table is made of *)
IsRow(row) ==
  /\ row = [url |-> row.url, format |-> row.format, key |-> row.key, verify |-> row.verify]
  /\ {row.url, row.format, row.key, row.verify} \subseteq Texts

IsDocument(d) ==
  /\ d = [set |-> d.set, routes |-> d.routes]
  /\ d.set \in [Fields -> Texts]
  /\ \A s \in DOMAIN d.routes : IsRow(d.routes[s]) /\ d.routes[s].key # Keep

(* A row's domain as somebody typed it *)
IsPattern(p) == p = Pattern(p.wild, p.labels) /\ p.wild \in BOOLEAN /\ p.labels \in Seq(Labels)
IsSpelling(s) == s = [to |-> s.to, plain |-> s.plain] /\ IsPattern(s.to)

ASSUME SettingsAssumption ==
  /\ {Blank, Bad, Default, Keep, "on", "off"} \subseteq Texts
  /\ \A p \in Patches : /\ DOMAIN p.set \subseteq Fields
                        /\ \A f \in DOMAIN p.set : p.set[f] \in Texts
                        /\ \A s \in DOMAIN p.rows : IsSpelling(s) /\ IsRow(p.rows[s])
  /\ \A d \in ByHand : IsDocument(d) /\ \A s \in DOMAIN d.routes : IsSpelling(s)
  /\ Domains \subseteq Seq(Labels)
  /\ DOMAIN Env \subseteq Fields /\ DOMAIN Flags \subseteq Listeners
  /\ \A f \in DOMAIN Env : Env[f] \in Texts \ {Blank, Bad}
  /\ \A f \in DOMAIN Flags : Flags[f] \in Texts \ {Blank, Bad}
  /\ MaxCrashes \in Nat /\ MaxEdits \in Nat

(* Overrides: the fields the file does not decide, and by what. *)
Held == [f \in DOMAIN Env \cup DOMAIN Flags |-> IF f \in DOMAIN Flags THEN Flags[f] ELSE Env[f]]

VARIABLES
  file,     \* config.json: [form, by, doc]
  temps,    \* the savers whose temporary file is in the directory
  up,       \* the process runs
  running,  \* the published snapshot
  booted,   \* the one it bound its listeners from
  at,       \* where each save stands
  my,       \* what it holds: its patch, the document it will write, what it loaded,
            \* and (history) whether it was alone with the file since it read it
  settled,  \* history: the last change of the file was a save that was alone, or a start
  probe,    \* the last test delivery: its URL, its recipient and the key it was signed with
  crashes, edits

vars == <<file, temps, up, running, booted, at, my, settled, probe, crashes, edits>>
process == <<up, running, booted>>
bounds == <<crashes, edits>>

Forms == {"absent", "whole", "torn"}
Busy == {"write", "rename", "reload", "set"}
Over == {"refused", "held", "failed", "unadopted", "saved", "killed"}
Fresh == [patch |-> NoPatch, doc |-> Empty, next |-> Empty, alone |-> FALSE]

(* ReadDocument: a missing file is an empty document, a torn one an error. *)
Readable == file.form # "torn"
OnDisk == IF file.form = "absent" THEN Empty ELSE file.doc

TypeOK ==
  /\ file.form \in Forms /\ file.by \in {"nobody", "hand", "save"} /\ IsDocument(file.doc)
  /\ temps \subseteq Savers
  /\ up \in BOOLEAN /\ settled \in BOOLEAN
  /\ IsDocument(running) /\ IsDocument(booted)
  /\ at \in [Savers -> {"idle"} \cup Busy \cup Over]
  /\ \A h \in Savers : /\ my[h].patch \in Patches \cup {NoPatch}
                       /\ IsDocument(my[h].doc) /\ IsDocument(my[h].next)
                       /\ my[h].alone \in BOOLEAN
  /\ crashes \in Nat /\ edits \in Nat

(* load: the file, the environment, the flags, and Validate; {} when it fails. *)
Load == IF Readable THEN {c \in Resolve(OnDisk, Held) : Loads(c)} ELSE {}

(* A start also needs two addresses it can take apart (preflight). *)
Startable(c) == Loads(c) /\ Bad \notin {c.set["http_addr"], c.set["smtp_addr"]}

Init ==
  /\ file \in {[form |-> "absent", by |-> "nobody", doc |-> Empty]}
              \cup {[form |-> "whole", by |-> "hand", doc |-> d] : d \in ByHand}
  /\ temps = {}
  /\ up = TRUE
  /\ running \in {c \in Load : Startable(c)}
  /\ booted = running
  /\ at = [h \in Savers |-> "idle"]
  /\ my = [h \in Savers |-> Fresh]
  /\ settled = TRUE
  /\ probe = [url |-> Blank, to |-> NoDomain, key |-> Blank]
  /\ crashes = 0 /\ edits = 0

-----------------------------------------------------------------------------
(* The patch and its merge *)

(* Faulty variant: a field that was added to the patch and forgotten here. *)
FieldsWithoutUrl(patch) == DOMAIN patch.set \ {"webhook.url"}

(* settingsPatch.fields *)
PatchFields(patch) == DOMAIN patch.set

(* Faulty variant: what a row says of its key is written as it came. *)
MergeRowKeep(old, p, row) == row

(* Faulty variant: a row that does not mention its key has none. *)
MergeRowBlank(old, p, row) == IF row.key = Keep THEN [row EXCEPT !.key = Blank] ELSE row

(* One row of apply: a key it does not mention is the stored one's. *)
MergeRow(old, p, row) ==
  IF row.key # Keep THEN row
  ELSE [row EXCEPT !.key = IF Plain(p) \in DOMAIN old THEN old[Plain(p)].key ELSE Blank]

(* The table is replaced as a whole, under normal domains. *)
ApplyRows(old, rows) ==
  {[s \in {Plain(p) : p \in DOMAIN t} |-> t[s.to]] :
     t \in Merged([s \in DOMAIN rows |-> MergeRow(old, s.to, rows[s])])}

(* apply: the documents it may leave; {} when it refuses a row. *)
Apply(doc, patch) ==
  LET set == [f \in Fields |-> IF f \in DOMAIN patch.set THEN patch.set[f] ELSE doc.set[f]]
  IN  IF ~patch.table THEN {[set |-> set, routes |-> doc.routes]}
      ELSE IF \E s \in DOMAIN patch.rows : s.to.labels = NoDomain \/ patch.rows[s].url = Blank
      THEN {}
      ELSE {[set |-> set, routes |-> t] : t \in ApplyRows(doc.routes, patch.rows)}

-----------------------------------------------------------------------------
(* saveConfig *)

InFlight == {h \in Savers : at[h] \in Busy}
Goto(h, s) == at' = [at EXCEPT ![h] = s]
Finish(h, s) == Goto(h, s) /\ my' = [my EXCEPT ![h] = Fresh]

(* The document a patch is merged into. *)
Basis == OnDisk

(* Everything before the first write works on values of its own: the file it *)
(* read, the patch, and the overrides, which no save changes.                *)
Save(h, p) ==
  /\ up /\ at[h] = "idle"
  /\ IF ~Readable THEN Finish(h, "failed")
     ELSE IF PatchFields(p) \cap DOMAIN Held # {} THEN Finish(h, "held")
     ELSE LET docs == Apply(Basis, p)
              good == {d \in docs : Valid(d) /\ \A c \in Resolve(d, Env) : Loads(c)}
          IN  \/ docs = {} /\ Finish(h, "refused")
              \/ \E d \in docs \ good : Finish(h, "refused")
              \/ \E d \in good :
                   /\ Goto(h, "write")
                   /\ my' = [g \in Savers |->
                               IF g = h THEN [patch |-> p, doc |-> d, next |-> Empty,
                                              alone |-> InFlight = {}]
                               ELSE [my[g] EXCEPT !.alone = FALSE]]
  /\ UNCHANGED <<file, temps, process, settled, probe, bounds>>

(* Faulty variant: the file is truncated and written in place. *)
WriteInPlace(h) ==
  /\ at[h] = "write"
  /\ Goto(h, "rename") /\ temps' = temps \cup {h}
  /\ file' = [form |-> "torn", by |-> "save", doc |-> Empty]
  /\ UNCHANGED <<my, process, settled, probe, bounds>>

(* WriteDocument up to its rename.  Nothing but this request knows the name. *)
Write(h) ==
  /\ at[h] = "write"
  /\ Goto(h, "rename") /\ temps' = temps \cup {h}
  /\ UNCHANGED <<file, my, process, settled, probe, bounds>>

Rename(h) ==
  /\ at[h] = "rename"
  /\ Goto(h, "reload")
  /\ file' = [form |-> "whole", by |-> "save", doc |-> my[h].doc]
  /\ temps' = temps \ {h}
  /\ settled' = FALSE
  /\ UNCHANGED <<my, process, probe, bounds>>

(* Faulty variant: the temporary file is removed by nobody. *)
RefuseLeaving(h) ==
  /\ at[h] = "rename"
  /\ Finish(h, "failed")
  /\ UNCHANGED <<file, temps, process, settled, probe, bounds>>

(* The disk refuses one of the calls; the deferred Remove runs. *)
Refuse(h) ==
  /\ at[h] \in {"write", "rename"}
  /\ Finish(h, "failed")
  /\ temps' = temps \ {h}
  /\ UNCHANGED <<file, process, settled, probe, bounds>>

(* Faulty variant: what was checked before the write is adopted as it is, *)
(* without the flags.                                                     *)
ReloadChecked(h) ==
  /\ at[h] = "reload"
  /\ \E c \in Resolve(my[h].doc, Env) : Goto(h, "set") /\ my' = [my EXCEPT ![h].next = c]
  /\ UNCHANGED <<file, temps, process, settled, probe, bounds>>

Reload(h) ==
  /\ at[h] = "reload"
  /\ \/ \E c \in Load : Goto(h, "set") /\ my' = [my EXCEPT ![h].next = c]
     \/ Load = {} /\ Finish(h, "unadopted")
  /\ UNCHANGED <<file, temps, process, settled, probe, bounds>>

(* Set, the event and the answer, which describes whatever is published then. *)
Publish(h) ==
  /\ at[h] = "set"
  /\ running' = my[h].next
  /\ settled' = my[h].alone
  /\ Finish(h, "saved")
  /\ UNCHANGED <<file, temps, up, booted, probe, bounds>>

-----------------------------------------------------------------------------
(* testWebhook *)

(* Faulty variant: the top-level key signs whatever has no route. *)
StoredKeyAnywhere(cfg, url, domain) ==
  LET exact == Pattern(FALSE, domain)
  IN  IF exact \in DOMAIN cfg.routes /\ cfg.routes[exact].url = url
      THEN cfg.routes[exact].key
      ELSE cfg.set["webhook.signing_key"]

(* The key of a test whose form left it blank. *)
StoredKey(cfg, url, domain) ==
  LET exact == Pattern(FALSE, domain)
  IN  IF exact \in DOMAIN cfg.routes /\ cfg.routes[exact].url = url
      THEN cfg.routes[exact].key
      ELSE IF url = cfg.set["webhook.url"] THEN cfg.set["webhook.signing_key"] ELSE Blank

Test(url, domain) ==
  /\ up /\ url # Blank
  /\ probe' = [url |-> url, to |-> domain, key |-> StoredKey(running, url, domain)]
  /\ UNCHANGED <<file, temps, process, at, my, settled, bounds>>

-----------------------------------------------------------------------------
(* The world around it *)

Crash ==
  /\ up /\ crashes < MaxCrashes
  /\ up' = FALSE
  /\ at' = [h \in Savers |-> IF h \in InFlight THEN "killed" ELSE at[h]]
  /\ my' = [h \in Savers |-> Fresh]
  /\ crashes' = crashes + 1
  /\ UNCHANGED <<file, temps, running, booted, settled, probe, edits>>

(* A start, from the same environment and with the same flags. *)
Boot ==
  /\ ~up
  /\ \E c \in Load : Startable(c) /\ running' = c /\ booted' = c
  /\ up' = TRUE
  /\ settled' = TRUE
  /\ UNCHANGED <<file, temps, at, my, probe, bounds>>

(* Somebody edits config.json, into any document or into none. *)
Edit ==
  /\ edits < MaxEdits
  /\ file' \in {[form |-> "whole", by |-> "hand", doc |-> d] : d \in ByHand}
               \cup {[form |-> "torn", by |-> "hand", doc |-> Empty]}
  /\ edits' = edits + 1
  /\ settled' = FALSE
  /\ my' = [h \in Savers |-> [my[h] EXCEPT !.alone = FALSE]]
  /\ UNCHANGED <<temps, process, at, probe, crashes>>

Next ==
  \/ \E h \in Savers :
       \/ \E p \in Patches : Save(h, p)
       \/ Write(h) \/ Rename(h) \/ Refuse(h) \/ Reload(h) \/ Publish(h)
  \/ \E url \in Urls, domain \in Domains : Test(url, domain)
  \/ Crash \/ Boot \/ Edit

Spec == Init /\ [][Next]_vars

-----------------------------------------------------------------------------
(* describeSettings *)

(* Faulty variant: the size limit is thought to apply at once. *)
NeedsRestartPorts(cfg) == \E f \in Listeners \ {"max_message_bytes"} : cfg.set[f] # booted.set[f]

(* needsRestart *)
NeedsRestart(cfg) == \E f \in Listeners : cfg.set[f] # booted.set[f]

(* A row of the routes table as the page shows it. *)
Described(cfg, row) ==
  [url |-> row.url,
   format |-> First(row.format, cfg.set["webhook.format"]),
   signed |-> row.key # Blank \/ cfg.set["webhook.signing_key"] # Blank,
   verify |-> \/ row.verify = Blank /\ cfg.set["webhook.verify_tls"] = "on"
              \/ row.verify = "on"]

-----------------------------------------------------------------------------
(* Properties *)

(* A file that a save left is whole, and the next start takes it, with        *)
(* nothing in the environment to cover for it: saveConfig checks before it    *)
(* writes, and WriteDocument never leaves half a file, wherever it is cut off.*)
SavedFileBoots ==
  file.by = "save" =>
    /\ file.form = "whole"
    /\ \A c \in Resolve(file.doc, Nothing) : Startable(c)

(* A save changes the fields it names, and of the routes only the table when  *)
(* it sends one, in which a row without a key keeps the one that was stored   *)
(* for its domain.  What makes it do otherwise is that another save or a      *)
(* hand came between its read and its rename, or that the stored domain was   *)
(* written by hand with a capital or a space: that row's key is lost.         *)
SavesKeepTheRest ==
  [][\A h \in Savers :
       (at[h] = "rename" /\ at'[h] = "reload" /\ my[h].alone) =>
         LET old == OnDisk  new == file'.doc  p == my[h].patch
         IN  /\ \A f \in Fields \ DOMAIN p.set : new.set[f] = old.set[f]
             /\ ~p.table => new.routes = old.routes
             /\ p.table => \A s \in DOMAIN new.routes :
                  \/ \E r \in DOMAIN p.rows : r.to = s.to /\ p.rows[r].key = new.routes[s].key
                  \/ new.routes[s].key \in {old.routes[r].key : r \in {r \in DOMAIN old.routes : r.to = s.to}}
                  \/ Plain(s.to) \notin DOMAIN old.routes /\ new.routes[s].key = Blank]_vars

(* A save that is answered with success is in force: every field it set has   *)
(* its value in the configuration published with the answer, unless another   *)
(* save or a hand came in between.  A field the environment or a flag holds   *)
(* is refused instead of being saved without effect.                          *)
AnsweredIsInForce ==
  [][\A h \in Savers :
       (at'[h] = "saved" /\ at[h] = "set" /\ my[h].alone) =>
         \A f \in DOMAIN my[h].patch.set :
            my[h].patch.set[f] # Blank => running'.set[f] = my[h].patch.set[f]]_vars

(* When no save is under way, what runs is what a start would load, unless    *)
(* saves overlapped, a hand edited the file, or the saved file could not be   *)
(* adopted: a save that starts from the environment only, or publishes what   *)
(* it merged, would lose the flags.                                           *)
QuietIsInForce ==
  (up /\ InFlight = {} /\ settled) => running \in Load

(* Temporary files stay only where the process died around the rename.        *)
NothingLeftBehind ==
  \A h \in temps : at[h] \in {"rename", "killed"}

(* A stored key never signs a request to a URL that the configuration in      *)
(* force does not pair with it: the page can send a test anywhere, and the    *)
(* key it is never shown must not go there.                                   *)
KeyGoesHome ==
  [][probe' # probe =>
       \/ probe'.key = Blank
       \/ \E t \in {RouteFor(running, d) : d \in Domains} \cup {Fallback(running)} :
            t.url = probe'.url /\ t.key = probe'.key]_vars

(* The route a recipient's reply follows is, of all the routes that cover its *)
(* domain, the one that covers least, and the top-level URL only when none    *)
(* does.                                                                      *)
RouteIsNearest ==
  \A d \in Domains :
    LET covering == {p \in DOMAIN running.routes : Covers(p, d)}
        reach(p) == {e \in Domains : Covers(p, e)}
    IN  IF covering = {} THEN RouteFor(running, d) = Fallback(running)
        ELSE \E p \in covering : /\ RouteFor(running, d) = Target(running, running.routes[p])
                                 /\ \A q \in covering : reach(p) \subseteq reach(q)

(* The page shows what a delivery would use: the inherited format, whether it *)
(* is signed and whether certificates are verified.  And it announces a       *)
(* restart exactly when one would change what the process listens on or       *)
(* accepts, as long as what runs is what the file says.                       *)
PageTellsTruth ==
  /\ \A p \in DOMAIN running.routes :
       LET t == Target(running, running.routes[p])
       IN  Described(running, running.routes[p]) =
             [url |-> t.url, format |-> t.format, signed |-> t.key # Blank, verify |-> t.verify = "on"]
  /\ (up /\ InFlight = {} /\ settled) =>
       (NeedsRestart(running) <=>
          \A c \in Load : \E f \in Listeners : c.set[f] # booted.set[f])

(* What the comment of testWebhook says of a form that leaves the key blank:   *)
(* a test of a saved route is signed with the stored key, since unsigned the  *)
(* application would refuse it.  A recipient that follows the tested route     *)
(* should thus see the key a delivery is signed with.                         *)
TestsAreSigned ==
  [][(probe' # probe /\ RouteFor(running, probe'.to).url = probe'.url)
       => probe'.key = RouteFor(running, probe'.to).key]_vars

=============================================================================
