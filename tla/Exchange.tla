------------------------------ MODULE Exchange ------------------------------
(***************************************************************************)
(* Mail going in and out: an application that hands its mail to the SMTP   *)
(* server over connections it reuses (internal/smtpd), somebody who         *)
(* answers it or posts mail through the API (httpapi/reply.go,              *)
(* handlers.go), the one door all of it goes through (Ingestor.Ingest), and *)
(* a client that reads the inbox page by page meanwhile.                    *)
(*                                                                         *)
(* The files of a message and the statements of a deletion are the subject  *)
(* of MailStore; here a message is stored in one step and deleted in one.   *)
(* The SMTP protocol itself is go-smtp's: it calls Mail, Rcpt and Data in    *)
(* that order and Reset after Data, after RSET and on a new greeting.       *)
(***************************************************************************)
EXTENDS Outbound, Reading

CONSTANTS
  Sessions,      \* the SMTP connections that may be open at once
  Writers,       \* the API requests that may be under way at once
  Minted,        \* the Message-ID that would be minted with each ULID
  Scenes         \* what may be going on: records of
                 \*   box       what is stored already, [rows, convs]
                 \*   carriers  the connections and the API requests under way at once
                 \*   letters   what the application sends, [from, rcpts, fits, parses, headers]
                 \*   requests  what API clients fill in,
                 \*             [from, to, cc, bcc, replyTo, subject, body]
                 \*   raw       the complete messages they post, as letters
                 \*   asks      what a reader asks for, [limit, words]: a page size (0 for none)
                 \*             and words of which a subject must have one ({} for no query)
                 \*   faults    "store": storing may fail; "count": counting the unread
                 \*             afterwards may
                 \*   msgs, sends, deletions, time   the bounds: the last ULID, how many SMTP
                 \*             transactions are begun, how often something is deleted, the
                 \*             last second of the clock

NoLetter == [rcpts |-> <<>>]
Posted ==
  [from : Entry, rcpts : Seq(Entry), fits : BOOLEAN, parses : BOOLEAN, headers : Header]
Row ==
  [ulid : Nat, created : Nat, thread : Nat, id : MessageId, inReplyTo : MessageId,
   references : Seq(MessageId), subject : Seq(Token),
   from : Seq(Address), to : Seq(Address), cc : Seq(Address), replyTo : Seq(Address),
   bcc : Seq(Entry), sender : Entry, rcpts : Seq(Entry), outbound : BOOLEAN,
   via : {"smtp", "reply", "inject", "raw"}, told : {NoLetter} \cup Posted \cup Draft, line : SUBSET Nat]
Conv == [thread : Nat \ {0}, key : Seq(Token), activity : Nat]

(* What the schema and DeriveBcc grant of a store; what its authors meant is    *)
(* not known.                                                                *)
Sound(x) ==
  /\ x.box.rows \subseteq Row /\ x.box.convs \subseteq Conv /\ IsFiniteSet(x.box.convs)
  /\ \A r \in x.box.rows :
       /\ r.ulid \in 1..x.msgs /\ r.created <= x.time
       /\ \E c \in x.box.convs : c.thread = r.thread
       /\ \A i \in DOMAIN r.bcc : r.bcc[i] # Nobody
       /\ r.via = "raw" /\ r.line = {}
  /\ \A c \in x.box.convs : c.activity <= x.time
  /\ \A r, s \in x.box.rows : r.ulid = s.ulid => r = s
  /\ \A c, d \in x.box.convs : c.thread = d.thread => c = d

ASSUME ExchangeAssumption ==
  /\ IsFiniteSet(Sessions) /\ Sessions \cap Writers = {} /\ Minted \in Seq(MessageId)
  /\ \A x \in Scenes :
       /\ Sound(x)
       /\ x.carriers \subseteq Sessions \cup Writers
       /\ x.letters \cup x.raw \subseteq Posted /\ x.requests \subseteq Request
       /\ \A l \in x.letters : \A i \in DOMAIN l.rcpts : Bare(l.rcpts[i])
       /\ \A a \in x.asks : a.limit \in Nat
       /\ x.faults \subseteq {"store", "count"}
       /\ {x.msgs, x.sends, x.deletions, x.time} \subseteq Nat
       /\ x.msgs <= Len(Minted)

VARIABLES
  scene,     \* what clients do in this behaviour (fixed at the start)
  rows,      \* messages, each with what its author meant (history: via, told, line)
  convs,     \* conversations
  lastConv,  \* AUTOINCREMENT of conversations
  lastUlid,  \* the latest ULID
  now,       \* the clock, in whole seconds
  session,   \* the SMTP sessions
  at,        \* how far Ingest has come with the message of a session or a writer
  mail,      \* that message
  sends,     \* how many transactions were begun
  sender,    \* what the application heard of each letter and, as history, how many
             \* answers it lost and how often the letter was stored
  reader,    \* the client that pages
  deletions

store == <<scene, rows, convs, lastConv, deletions>>
ingest == <<at, mail>>
sending == <<sends, sender>>
vars == <<store, lastUlid, now, session, ingest, sending, reader>>

Carriers == Sessions \cup Writers
NoMail == [ulid |-> 0]
Off == [phase |-> "off", up |-> FALSE, from |-> Nobody, rcpts |-> <<>>, letter |-> NoLetter, told |-> 0]
Shut == [state |-> "off", limit |-> 0, words |-> {}, cursor |-> NoCursor, first |-> {}, seen |-> {},
         twice |-> {}, rose |-> {}, sank |-> {}, tied |-> {}, used |-> {}, cut |-> FALSE]

TypeOK ==
  /\ \A r \in rows :
       /\ r.ulid \in 1..lastUlid /\ r.thread \in {c.thread : c \in convs}
       /\ r.created \in 0..now
       /\ \A i \in DOMAIN r.bcc : r.bcc[i] # Nobody
  /\ \A r, s \in rows : r.ulid = s.ulid => r = s
  /\ \A c \in convs : c.thread \in 1..lastConv /\ c.activity \in 0..now
  /\ \A c, d \in convs : c.thread = d.thread => c = d
  /\ lastUlid \in 0..scene.msgs /\ now \in 0..scene.time /\ deletions \in 0..scene.deletions
  /\ \A s \in Sessions :
       /\ session[s].phase \in {"off", "open", "mail", "data"}
       /\ session[s].phase \in {"off", "open"} => session[s].rcpts = <<>>
       /\ session[s].phase = "data" <=> at[s] # "none"
  /\ at \in [Carriers -> {"none", "persist", "announce", "stored", "failed"}]
  /\ sends \in 0..scene.sends
  /\ sender \in [scene.letters -> [heard : {"nothing", "250", "451", "552"},
                           lost : Nat, kept : Nat]]
  /\ reader.state \in {"off", "more", "end"}
  /\ reader.state = "more" <=> reader.cursor # NoCursor

Init ==
  /\ scene \in Scenes
  /\ rows = scene.box.rows /\ convs = scene.box.convs
  /\ lastUlid = Max({0} \cup {r.ulid : r \in rows})
  /\ lastConv = Max({0} \cup {c.thread : c \in convs})
  /\ now = Max({0} \cup {c.activity : c \in convs} \cup {r.created : r \in rows})
  /\ session = [s \in Sessions |-> Off]
  /\ at = [c \in Carriers |-> "none"]
  /\ mail = [c \in Carriers |-> NoMail]
  /\ sends = 0
  /\ sender = [l \in scene.letters |-> [heard |-> "nothing", lost |-> 0, kept |-> 0]]
  /\ reader = Shut
  /\ deletions = 0

-----------------------------------------------------------------------------
(* Ingest *)

(* Ingest up to its transaction: the ULID and the time are taken here.  parsed *)
(* are the columns, told what the author meant, line the messages it descends   *)
(* from in truth.                                                            *)
Persist(c, parsed, from, rcpts, via, told, line) ==
  /\ lastUlid < scene.msgs /\ at[c] = "none"
  /\ lastUlid' = lastUlid + 1
  /\ at' = [at EXCEPT ![c] = "persist"]
  /\ mail' = [mail EXCEPT ![c] =
       [ulid |-> lastUlid + 1, created |-> now, thread |-> 0,
        id |-> parsed.id, inReplyTo |-> parsed.inReplyTo, references |-> parsed.references,
        subject |-> parsed.subject, from |-> parsed.from, to |-> parsed.to, cc |-> parsed.cc,
        replyTo |-> parsed.replyTo, bcc |-> DeriveBcc(rcpts, parsed.to, parsed.cc),
        sender |-> from, rcpts |-> rcpts,
        outbound |-> via = "reply", via |-> via, told |-> told, line |-> line]]

(* The threads a message may join; {} when it opens its own. *)
Fits(m) ==
  Matching(rows, convs,
           Ancestors(Stripped(m.inReplyTo), [i \in DOMAIN m.references |-> Stripped(m.references[i])]),
           m.subject)

(* TouchConversation: the time of this message, whatever stood there.         *)
Touched(c, m) ==
  [c EXCEPT !.activity = m.created, !.key = IF @ = <<>> THEN Key(m.subject) ELSE @]

(* What a reader in the middle of the list should know of a thread that moved. *)
Moved(from, to, thread) ==
  CASE to > from -> [reader EXCEPT !.rose = @ \cup {thread}]
    [] to < from -> [reader EXCEPT !.sank = @ \cup {thread}]
    [] OTHER -> reader

Count(l) == [sender EXCEPT ![l].kept = @ + 1]

(* The transaction: find or create the conversation, insert, touch. *)
Commit(c) ==
  LET m == mail[c]
      near == Fits(m)
  IN  /\ at[c] = "persist"
      /\ at' = [at EXCEPT ![c] = "announce"]
      /\ \/ /\ near # {}
            /\ \E d \in convs :
                 /\ d.thread \in near
                 /\ rows' = rows \cup {[m EXCEPT !.thread = d.thread]}
                 /\ convs' = (convs \ {d}) \cup {Touched(d, m)}
                 /\ reader' = Moved(d.activity, m.created, d.thread)
            /\ UNCHANGED lastConv
         \/ /\ near = {}
            /\ lastConv' = lastConv + 1
            /\ rows' = rows \cup {[m EXCEPT !.thread = lastConv + 1]}
            /\ convs' = convs \cup {[thread |-> lastConv + 1, key |-> Key(m.subject), activity |-> m.created]}
            /\ UNCHANGED reader
      /\ sender' = IF m.via = "smtp" THEN Count(m.told) ELSE sender
      /\ UNCHANGED <<scene, mail, deletions, lastUlid, now, session, sends>>

(* A file or a statement fails, or the request of a writer is cut off: nothing *)
(* is stored.  The context of a session is not the connection's.              *)
IngestFails(c) ==
  /\ "store" \in scene.faults /\ at[c] = "persist"
  /\ at' = [at EXCEPT ![c] = "failed"]
  /\ UNCHANGED <<store, mail, lastUlid, now, session, sending, reader>>

(* Faulty variant: a count that fails refuses the message. *)
AnnounceOrRefuse(c) ==
  /\ at[c] = "announce"
  /\ \E outcome \in {"stored"} \cup (IF "count" \in scene.faults THEN {"failed"} ELSE {}) :
       at' = [at EXCEPT ![c] = outcome]
  /\ UNCHANGED <<store, mail, lastUlid, now, session, sending, reader>>

(* announce: whether the unread could be counted or not, the message is in. *)
Announce(c) ==
  /\ at[c] = "announce"
  /\ at' = [at EXCEPT ![c] = "stored"]
  /\ UNCHANGED <<store, mail, lastUlid, now, session, sending, reader>>

-----------------------------------------------------------------------------
(* The SMTP session *)

Connect(s) ==
  /\ session[s].phase = "off"
  /\ session' = [session EXCEPT ![s] = [Off EXCEPT !.phase = "open", !.up = TRUE]]
  /\ UNCHANGED <<store, lastUlid, now, ingest, sending, reader>>

(* A letter goes out again only while nothing is heard of it, or a 451 was.   *)
Due(l) ==
  /\ sends < scene.sends /\ sender[l].heard \in {"nothing", "451"}
  /\ \A s \in Sessions : session[s].letter = l => ~session[s].up

MailFrom(s, l) ==
  /\ session[s].phase = "open" /\ Due(l)
  /\ session' = [session EXCEPT ![s].phase = "mail", ![s].from = l.from, ![s].letter = l, ![s].told = 0]
  /\ sends' = sends + 1
  /\ UNCHANGED <<store, lastUlid, now, ingest, sender, reader>>

RcptTo(s) ==
  LET x == session[s]
  IN  /\ x.phase = "mail" /\ x.told < Len(x.letter.rcpts)
      /\ session' = [session EXCEPT ![s].rcpts = Append(@, x.letter.rcpts[x.told + 1]),
                                    ![s].told = @ + 1]
      /\ UNCHANGED <<store, lastUlid, now, ingest, sending, reader>>

(* Faulty variant: the recipients stay. *)
ResetSender(x) == [x EXCEPT !.from = Nobody, !.letter = NoLetter, !.told = 0]

(* Session.Reset; the last two fields are the client's. *)
Reset(x) == [x EXCEPT !.from = Nobody, !.rcpts = <<>>, !.letter = NoLetter, !.told = 0]

(* The client changes its mind. *)
Rset(s) ==
  /\ session[s].phase = "mail"
  /\ session' = [session EXCEPT ![s] = [Reset(@) EXCEPT !.phase = "open"]]
  /\ UNCHANGED <<store, lastUlid, now, ingest, sending, reader>>

Data(s) ==
  LET x == session[s]
  IN  /\ x.phase = "mail" /\ x.told = Len(x.letter.rcpts) /\ x.letter.fits
      /\ Persist(s, IF x.letter.parses THEN Parse(x.letter.headers) ELSE Garbage,
                 x.from, x.rcpts, "smtp", x.letter, {})
      /\ session' = [session EXCEPT ![s].phase = "data"]
      /\ UNCHANGED <<store, now, sending, reader>>

(* Too big: the error of the read is the answer. *)
DataRefused(s) ==
  LET x == session[s]
  IN  /\ x.phase = "mail" /\ x.told = Len(x.letter.rcpts) /\ ~x.letter.fits
      /\ sender' = [sender EXCEPT ![x.letter].heard = "552"]
      /\ session' = [session EXCEPT ![s] = [Reset(@) EXCEPT !.phase = "open"]]
      /\ UNCHANGED <<store, lastUlid, now, ingest, reader, sends>>

(* The answer to DATA goes out, if anybody is there. *)
Answer(s) ==
  LET x == session[s]
      code == IF at[s] = "stored" THEN "250" ELSE "451"
  IN  /\ at[s] \in {"stored", "failed"}
      /\ at' = [at EXCEPT ![s] = "none"] /\ mail' = [mail EXCEPT ![s] = NoMail]
      /\ session' = [session EXCEPT ![s] = IF x.up THEN [Reset(@) EXCEPT !.phase = "open"] ELSE Off]
      /\ sender' = IF x.up THEN [sender EXCEPT ![x.letter].heard = code] ELSE sender
      /\ UNCHANGED <<store, lastUlid, now, reader, sends>>

(* The connection breaks, or Serve closes it.  Data under way goes on.        *)
HangUp(s) ==
  LET x == session[s]
  IN  /\ x.up
      /\ session' = [session EXCEPT ![s] = IF x.phase = "data" THEN [@ EXCEPT !.up = FALSE] ELSE Off]
      /\ sender' = IF x.phase = "data" THEN [sender EXCEPT ![x.letter].lost = @ + 1] ELSE sender
      /\ UNCHANGED <<store, lastUlid, now, ingest, reader, sends>>

-----------------------------------------------------------------------------
(* The API *)

Mint == IF lastUlid < scene.msgs THEN Minted[lastUlid + 1] ELSE Blank

(* createReply; what Buildable refuses is answered 400 and changes nothing. *)
Send(w, m, line) ==
  /\ Buildable(m)
  /\ Persist(w, Parse(Build(m)), One(Nameless(m.from[1])), Recipients(m), "reply", m, line)
  /\ UNCHANGED <<store, now, session, sending, reader>>

Reply(w, p, typed) == Send(w, Overlay(NewReply(p, Mint), typed), p.line \cup {p.ulid})
Compose(w, typed) == Send(w, Overlay(NewMail(Mint), typed), {})

(* buildInjected: From, To, Cc and Subject only, and the fields themselves are *)
(* the envelope.                                                             *)
Inject(w, typed) ==
  LET m == [NewMail(Mint) EXCEPT !.from = typed.from, !.to = typed.to, !.cc = typed.cc,
                                 !.subject = typed.subject, !.body = typed.body]
  IN  /\ typed.to # <<>> /\ Buildable(m)
      /\ Persist(w, Parse(Build(m)), typed.from, typed.to \o typed.cc, "inject", m, {})
      /\ UNCHANGED <<store, now, session, sending, reader>>

(* A complete message, with the envelope the request says. *)
InjectRaw(w, l) ==
  /\ Persist(w, IF l.parses THEN Parse(l.headers) ELSE Garbage, l.from, l.rcpts, "raw", l, {})
  /\ UNCHANGED <<store, now, session, sending, reader>>

WriterDone(w) ==
  /\ at[w] \in {"stored", "failed"}
  /\ at' = [at EXCEPT ![w] = "none"] /\ mail' = [mail EXCEPT ![w] = NoMail]
  /\ UNCHANGED <<store, lastUlid, now, session, sending, reader>>

Threads == {c.thread : c \in convs}

(* What a query finds: a conversation with a message that has the word. *)
FoundIn(stored, among, words) ==
  {t \in {c.thread : c \in among} : words # {} =>
     \E r \in stored : r.thread = t /\ \E i \in DOMAIN r.subject :
       r.subject[i].kind = "word" /\ r.subject[i].word \in words}
Found(words) == FoundIn(rows, convs, words)

(* What the reader has found all the time. *)
StillFound(stored, among) ==
  [reader EXCEPT !.first = @ \cap FoundIn(stored, among, reader.words)]

(* Faulty variant: the rows of a conversation outlive it. *)
DeleteThreadOnly(gone) ==
  /\ deletions < scene.deletions
  /\ deletions' = deletions + 1
  /\ convs' = {c \in convs : \E r \in rows \ gone : r.thread = c.thread}
  /\ reader' = StillFound(rows, convs')
  /\ UNCHANGED <<scene, rows, lastConv, lastUlid, now, session, ingest, sending>>

(* DeleteMessage and DeleteConversation; an emptied conversation goes too. *)
Delete(gone) ==
  /\ deletions < scene.deletions
  /\ deletions' = deletions + 1
  /\ rows' = rows \ gone
  /\ convs' = {c \in convs : \E r \in rows \ gone : r.thread = c.thread}
  /\ reader' = StillFound(rows', convs')
  /\ UNCHANGED <<scene, lastConv, lastUlid, now, session, ingest, sending>>

-----------------------------------------------------------------------------
(* Reading page by page *)

(* One request for a page. *)
Turn(p, before) ==
  LET page == ListConversations(convs, Found(p.words), before, p.limit)
      next == NextCursor(page, p.limit)
      shown == {page[i] : i \in DOMAIN page}
  IN  [p EXCEPT !.state = IF next = NoCursor THEN "end" ELSE "more",
                !.cursor = next,
                !.seen = p.seen \cup shown,
                !.twice = p.twice \cup (shown \cap p.seen),
                !.used = IF before = NoCursor THEN p.used ELSE p.used \cup {before},
                !.cut = p.cut \/ (before # NoCursor /\ before \notin Threads),
                !.tied = p.tied \cup {c.thread : c \in {c \in convs :
                           \E d \in convs : d.thread = before /\ c.activity = d.activity}}]

OpenList(ask) ==
  /\ reader.state = "off"
  /\ reader' = Turn([Shut EXCEPT !.limit = ask.limit, !.words = ask.words, !.first = Found(ask.words)],
                  NoCursor)
  /\ UNCHANGED <<store, lastUlid, now, session, ingest, sending>>

NextPage ==
  /\ reader.state = "more"
  /\ reader' = Turn(reader, reader.cursor)
  /\ UNCHANGED <<store, lastUlid, now, session, ingest, sending>>

-----------------------------------------------------------------------------
Tick ==
  /\ now < scene.time
  /\ now' = now + 1
  /\ UNCHANGED <<store, lastUlid, session, ingest, sending, reader>>

Smtp(s) ==
  \/ Connect(s) \/ RcptTo(s) \/ Rset(s) \/ Data(s) \/ DataRefused(s) \/ Answer(s) \/ HangUp(s)
  \/ \E l \in scene.letters : MailFrom(s, l)

Api(w) ==
  \/ \E t \in scene.requests : Compose(w, t) \/ Inject(w, t) \/ \E p \in rows : Reply(w, p, t)
  \/ \E l \in scene.raw : InjectRaw(w, l)
  \/ WriterDone(w)

Deleting ==
  \/ \E r \in rows : Delete({r})
  \/ \E t \in Threads : Delete({r \in rows : r.thread = t})

Next ==
  \/ \E s \in Sessions \cap scene.carriers : Smtp(s)
  \/ \E w \in Writers \cap scene.carriers : Api(w)
  \/ \E c \in Carriers : Commit(c) \/ IngestFails(c) \/ Announce(c)
  \/ \E ask \in scene.asks : OpenList(ask)
  \/ NextPage
  \/ Deleting
  \/ Tick

Spec == Init /\ [][Next]_vars

-----------------------------------------------------------------------------
(* Properties *)

(* Every message that came over SMTP carries the sender and the recipients of *)
(* its own transaction, whatever was said on that connection before, and its  *)
(* blind copies are exactly those who are in no header (server.go:120-154,    *)
(* parse.go:215-220).                                                         *)
EnvelopeIsItsOwn ==
  \A r \in rows :
    r.via = "smtp" =>
      /\ r.sender = r.told.from /\ r.rcpts = r.told.rcpts
      /\ Boxes(FlattenSeq(r.bcc)) =
           Boxes(FlattenSeq(r.told.rcpts)) \
             (IF r.told.parses THEN Boxes(r.told.headers.to \o r.told.headers.cc) ELSE {})

(* A letter answered 250 is stored, one answered 451 is not, and a letter is   *)
(* stored again only for an answer its sender never heard (server.go:199-203, *)
(* ingest.go:195-198).                                                        *)
StoredOncePerAnswer ==
  \A l \in scene.letters :
    LET told == sender[l]
        underway == {s \in Sessions : /\ session[s].letter = l /\ session[s].up
                                     /\ at[s] \in {"announce", "stored"}}
    IN  /\ told.heard = "250" => told.kept > 0
        /\ told.kept <= told.lost + (IF told.heard = "250" THEN 1 ELSE 0) + Cardinality(underway)

(* Nobody who was written to is forgotten: the envelope of a reply names       *)
(* everyone that stands in an entry of his own, and its blind copies are those *)
(* of them that no header names (reply.go:91-97, compose.go:168-170).  Posted  *)
(* mail has blind copies only where a recipient was given a display name or    *)
(* came in a list, which the comparison with the headers does not see through. *)
BlindCopiesRecovered ==
  \A r \in rows :
    LET m == r.told
        Alone(entries) == {e[1].box : e \in {e \in Range(entries) : Len(e) = 1}}
    IN  /\ r.via = "reply" =>
             /\ Boxes(FlattenSeq(r.rcpts)) = Alone(m.to \o m.cc \o m.bcc)
             /\ Boxes(FlattenSeq(r.bcc)) = Alone(m.bcc) \ Boxes(FlattenSeq(m.to \o m.cc))
        /\ r.via = "inject" =>
             \A i \in DOMAIN r.bcc : Len(r.bcc[i]) > 1 \/ r.bcc[i][1].named

(* The stored messages a message descends from: as its headers say it, and in   *)
(* truth, of those that can be told from their Message-ID.                      *)
Named(p) == {q \in rows : q.id # Blank /\ (q.id = p.inReplyTo \/ q.id \in Range(p.references))}
Alike(p) == {q \in rows : q.id = p.id /\ q.id # Blank}
Line(p) == {q \in rows : q.ulid \in p.line /\ Alike(q) = {q}}

(* A message joins the conversation its ancestors are in, when that is one and  *)
(* there is no doubt about them, whichever of them are deleted by then: nothing *)
(* but headers that were written, sent and parsed again tells which they were   *)
(* (reply.go:18-27, write.go:46-61).  A reply whose parent alone is stored so   *)
(* joins its parent.  Without a Message-ID of its parent and without other      *)
(* ancestors it still stays under its parent's subject.                        *)
RepliesStayTogether ==
  [][\A r \in rows' \ rows :
       /\ \A q \in Line(r) \cup Named(r) :
            (\A k \in Line(r) \cup Named(r) : k.thread = q.thread) => r.thread = q.thread
       /\ \A p \in rows :
            /\ r.line = {p.ulid} /\ p.id = Blank /\ Named(r) = {}
            /\ r.subject = ReplySubject(p.subject)
            => \E c \in convs' : c.thread = r.thread /\ c.key = Key(p.subject)]_vars

(* A reader who turned pages to the end has seen every conversation that was   *)
(* there from his first page to his last, and none of them twice, as long as   *)
(* nothing moved: one is missed when it rose above the page he was on, when it  *)
(* is as old to the second as a row he turned on, or when that row sank or was  *)
(* deleted; one is shown twice when it sank itself, or a row he turned on rose. *)
PagesAddUp ==
  /\ reader.state = "end" =>
       \A t \in reader.first :
         \/ t \in reader.seen \cup reader.rose \cup reader.tied
         \/ reader.used \cap reader.sank # {} \/ reader.cut
  /\ \A t \in reader.twice : t \in reader.sank \/ reader.used \cap reader.rose # {}

(* No conversation is shown twice to a reader who turns pages while mail       *)
(* arrives: "mail arriving mid-scroll cannot shift the page boundary and        *)
(* duplicate or skip a row" (handlers.go:35-37).  It does not hold.             *)
NoRowTwice == reader.twice = {}

=============================================================================
