-------------------------- MODULE Exchange_proofs --------------------------
(***************************************************************************)
(* Proofs about mail going in and out: that every message carries its own   *)
(* envelope, that a letter is stored once per answer its sender heard, that  *)
(* nobody who was written to is forgotten, that a message joins its          *)
(* ancestors, and what a reader who turns pages sees.                        *)
(*                                                                         *)
(* The inductive invariant follows a message from the moment its ULID is     *)
(* taken: what the columns owe to its author holds of it before it is        *)
(* stored, because nothing reads it again afterwards.                        *)
(***************************************************************************)
EXTENDS Exchange, Outbound_proofs

-----------------------------------------------------------------------------
(* The inductive invariant *)

(* The messages that have a ULID and are not stored yet. *)
Pending == {c \in Carriers : at[c] = "persist"}

NumbersOK ==
  /\ scene \in Scenes
  /\ lastUlid \in 0..scene.msgs /\ now \in 0..scene.time /\ deletions \in 0..scene.deletions
  /\ sends \in 0..scene.sends /\ lastConv \in Nat

(* What holds of a message from the moment it has its ULID. *)
Arrived(m, last, time) ==
  /\ m \in Row /\ m.ulid \in 1..last /\ m.created <= time
  /\ \A i \in DOMAIN m.bcc : m.bcc[i] # Nobody
  /\ m.line \subseteq 1..last

RowsOK ==
  /\ \A r \in rows : Arrived(r, lastUlid, now) /\ \E c \in convs : c.thread = r.thread
  /\ \A r, s \in rows : r.ulid = s.ulid => r = s

ConvsOK ==
  /\ IsFiniteSet(convs)
  /\ \A c \in convs : /\ c = [thread |-> c.thread, key |-> c.key, activity |-> c.activity]
                      /\ c.thread \in 1..lastConv /\ c.activity \in 0..now
  /\ \A c, d \in convs : c.thread = d.thread => c = d

MailOK ==
  /\ at \in [Carriers -> {"none", "persist", "announce", "stored", "failed"}]
  /\ mail = [c \in Carriers |-> mail[c]]
  /\ \A c \in Pending :
       /\ Arrived(mail[c], lastUlid, now)
       /\ \A r \in rows : r.ulid # mail[c].ulid
       /\ \A d \in Pending : mail[c].ulid = mail[d].ulid => c = d
       /\ c \in Writers => mail[c].via # "smtp"

SessionState ==
  [phase : {"off", "open", "mail", "data"}, up : BOOLEAN, from : Entry, rcpts : Seq(Entry),
   letter : {NoLetter} \cup Posted, told : Nat]

(* What a session knows of the letter it is given. *)
Mid(x, letters) ==
  /\ x.letter \in letters /\ x.from = x.letter.from
  /\ x.told = Len(x.rcpts) /\ x.told <= Len(x.letter.rcpts)
  /\ \A i \in 1..x.told : x.rcpts[i] = x.letter.rcpts[i]

(* A session x whose message m has come as far as step in Ingest. *)
Orderly(x, step, m, letters) ==
  /\ x.phase \in {"off", "open"} => x.rcpts = <<>> /\ x.letter = NoLetter
  /\ x.phase = "off" => ~x.up
  /\ x.phase \in {"open", "mail"} => x.up
  /\ x.phase \in {"mail", "data"} => Mid(x, letters)
  /\ x.phase = "data" <=> step # "none"
  /\ step = "persist" => m.via = "smtp" /\ m.told = x.letter

SessionOK ==
  /\ session \in [Sessions -> SessionState]
  /\ \A s \in Sessions : Orderly(session[s], at[s], mail[s], scene.letters)

(* The sessions in which a letter is stored and the answer is still to be heard, *)
(* and those in which it may be stored with nobody there to hear.               *)
Underway(l) == {s \in Sessions : /\ session[s].letter = l /\ session[s].up
                                /\ at[s] \in {"announce", "stored"}}
Unheard(l)  == {s \in Sessions : session[s].letter = l /\ ~session[s].up /\ at[s] = "persist"}

Once(p) == IF p THEN 1 ELSE 0

(* A letter is with one session that is there to hear the answer, at most, and   *)
(* while it is, it has not been answered but for now.                           *)
Square(l) ==
  /\ sender[l].heard = "250" => sender[l].kept > 0
  /\ sender[l].kept + Cardinality(Unheard(l)) <=
       sender[l].lost + (IF sender[l].heard = "250" THEN 1 ELSE 0) + Cardinality(Underway(l))
  /\ \A s \in Sessions : session[s].letter = l /\ session[s].up =>
       /\ sender[l].heard \in {"nothing", "451"}
       /\ \A t \in Sessions : session[t].letter = l /\ session[t].up => t = s
  /\ \A s \in Sessions : session[s].letter = l /\ at[s] \in {"announce", "stored"} =>
       sender[l].kept > 0

SenderState == [heard : {"nothing", "250", "451", "552"}, lost : Nat, kept : Nat]
SenderOK ==
  /\ sender \in [scene.letters -> SenderState]
  /\ \A l \in scene.letters : Square(l)

(* EnvelopeIsItsOwn and BlindCopiesRecovered, of one message. *)
Own(m) ==
  m.via = "smtp" =>
    /\ m.sender = m.told.from /\ m.rcpts = m.told.rcpts
    /\ Boxes(FlattenSeq(m.bcc)) =
         Boxes(FlattenSeq(m.told.rcpts)) \
           (IF m.told.parses THEN Boxes(m.told.headers.to \o m.told.headers.cc) ELSE {})
Copies(m) ==
  /\ m.via = "reply" =>
       /\ Boxes(FlattenSeq(m.rcpts)) = AloneIn(m.told.to \o m.told.cc \o m.told.bcc)
       /\ Boxes(FlattenSeq(m.bcc)) = AloneIn(m.told.bcc) \ Boxes(FlattenSeq(m.told.to \o m.told.cc))
  /\ m.via = "inject" =>
       \A i \in DOMAIN m.bcc : Len(m.bcc[i]) > 1 \/ m.bcc[i][1].named
Owed(m) == Own(m) /\ Copies(m)

OwedOK ==
  /\ \A r \in rows : Owed(r)
  /\ \A c \in Pending : Owed(mail[c])

(* Whatever a message descends from and is stored, its headers name. *)
Descends(m, stored) == \A q \in stored : q.ulid \in m.line /\ q.id # Blank => Holds(m.references, q.id)

LineageOK ==
  /\ \A r \in rows : Descends(r, rows) /\ \A c \in Pending : mail[c].ulid \notin r.line
  /\ \A d \in Pending : Descends(mail[d], rows) /\ \A c \in Pending : mail[c].ulid \notin mail[d].line

Shaped(p) ==
  DOMAIN p = {"state", "limit", "words", "cursor", "first", "seen", "twice", "rose", "sank",
              "tied", "used", "cut"}

(* What was not seen of the list is at the cursor or below it, and what was seen  *)
(* at the cursor or above it, as long as nothing moved.                         *)
ReaderOK ==
  /\ reader.state \in {"off", "more", "end"}
  /\ Shaped(reader) /\ reader.limit \in Nat
  /\ reader.state = "more" <=> reader.cursor # NoCursor
  /\ reader.cursor \in 0..lastConv
  /\ reader.seen \subseteq 1..lastConv
  /\ reader.first \subseteq Found(reader.words)

BelowOK ==
  (reader.state = "more" /\ ~reader.cut /\ reader.used \cap reader.sank = {}) =>
    \A d \in convs : d.thread = reader.cursor /\ d.thread \notin reader.sank =>
      \A c \in convs :
        c.thread \in reader.first \ (reader.seen \cup reader.rose \cup reader.tied) =>
          c.activity <= d.activity

AboveOK ==
  reader.state = "more" /\ reader.used \cap reader.rose = {} =>
    \A d \in convs : d.thread = reader.cursor /\ d.thread \notin reader.rose =>
      \A c \in convs : c.thread \in reader.seen \ reader.sank => c.activity >= d.activity

IInv ==
  /\ NumbersOK /\ RowsOK /\ ConvsOK /\ MailOK /\ SessionOK /\ SenderOK
  /\ OwedOK /\ LineageOK /\ ReaderOK /\ BelowOK /\ AboveOK /\ PagesAddUp
-----------------------------------------------------------------------------
(* What the assumption says of one scene *)

LEMMA SceneIs ==
  ASSUME NumbersOK
  PROVE  /\ scene.letters \subseteq Posted /\ scene.raw \subseteq Posted
         /\ scene.requests \subseteq Request
         /\ \A l \in scene.letters : \A i \in DOMAIN l.rcpts : Bare(l.rcpts[i])
         /\ \A a \in scene.asks : a.limit \in Nat
         /\ scene.msgs \in Nat /\ scene.sends \in Nat /\ scene.deletions \in Nat
         /\ scene.time \in Nat /\ scene.msgs <= Len(Minted)
         /\ Sound(scene)
<1>1. scene \in Scenes
  BY DEF NumbersOK
<1> HIDE DEF Posted, Request
<1>2. /\ Sound(scene)
      /\ scene.letters \cup scene.raw \subseteq Posted /\ scene.requests \subseteq Request
      /\ \A l \in scene.letters : \A i \in DOMAIN l.rcpts : Bare(l.rcpts[i])
      /\ \A a \in scene.asks : a.limit \in Nat
      /\ {scene.msgs, scene.sends, scene.deletions, scene.time} \subseteq Nat
      /\ scene.msgs <= Len(Minted)
  BY <1>1, ExchangeAssumption, Zenon
<1> QED
  BY <1>2

(* The counters are numbers. *)
LEMMA NumbersAre ==
  ASSUME NumbersOK
  PROVE  lastUlid \in Nat /\ now \in Nat /\ sends \in Nat /\ deletions \in Nat /\ lastConv \in Nat
BY SceneIs DEF NumbersOK

LEMMA MintIs ==
  ASSUME NumbersOK
  PROVE  Mint \in MessageId
<1>1. Blank \in MessageId
  BY DEF MessageId
<1>2. CASE lastUlid < scene.msgs
  <2>1. lastUlid + 1 \in 1..Len(Minted) /\ Minted \in Seq(MessageId)
    BY <1>2, SceneIs, NumbersAre, ExchangeAssumption
  <2> HIDE DEF MessageId
  <2>2. Minted[lastUlid + 1] \in MessageId
    BY <2>1
  <2> QED
    BY <1>2, <2>2 DEF Mint
<1> HIDE DEF MessageId
<1> QED
  BY <1>1, <1>2 DEF Mint

LEMMA NoLetterIsNone == NoLetter \notin Posted
BY DEF NoLetter, Posted

-----------------------------------------------------------------------------
(* A message takes its ULID *)

(* The message Persist makes. *)
Bears(m, parsed, from, rcpts, via, told, line) ==
  /\ m \in Row /\ m.ulid = lastUlid + 1 /\ m.created = now
  /\ m.references = parsed.references /\ m.subject = parsed.subject
  /\ m.bcc = DeriveBcc(rcpts, parsed.to, parsed.cc)
  /\ m.sender = from /\ m.rcpts = rcpts /\ m.via = via /\ m.told = told /\ m.line = line

Takes(c, m) ==
  /\ lastUlid < scene.msgs /\ at[c] = "none"
  /\ lastUlid' = lastUlid + 1
  /\ at' = [at EXCEPT ![c] = "persist"]
  /\ mail' = [mail EXCEPT ![c] = m]

LEMMA PersistIs ==
  ASSUME NumbersOK, NEW c, NEW parsed \in Columns, NEW from \in Entry, NEW rcpts \in Seq(Entry),
         NEW via \in {"smtp", "reply", "inject", "raw"},
         NEW told \in {NoLetter} \cup Posted \cup Draft, NEW line \in SUBSET Nat,
         Persist(c, parsed, from, rcpts, via, told, line)
  PROVE  \E m : Takes(c, m) /\ Bears(m, parsed, from, rcpts, via, told, line)
<1> DEFINE m == [ulid |-> lastUlid + 1, created |-> now, thread |-> 0,
        id |-> parsed.id, inReplyTo |-> parsed.inReplyTo, references |-> parsed.references,
        subject |-> parsed.subject, from |-> parsed.from, to |-> parsed.to, cc |-> parsed.cc,
        replyTo |-> parsed.replyTo, bcc |-> DeriveBcc(rcpts, parsed.to, parsed.cc),
        sender |-> from, rcpts |-> rcpts,
        outbound |-> via = "reply", via |-> via, told |-> told, line |-> line]
<1>1. Takes(c, m)
  BY Zenon DEF Persist, Takes
<1>2. DeriveBcc(rcpts, parsed.to, parsed.cc) \in Seq(Entry)
  BY DeriveBccIs DEF BlindCopies
<1>3. lastUlid + 1 \in Nat /\ now \in Nat
  BY NumbersAre
<1> DEFINE bcc == DeriveBcc(rcpts, parsed.to, parsed.cc)
<1> HIDE DEF bcc
<1>4. m \in Row
  <2> HIDE DEF Entry, Address, MessageId, Token, Posted, Draft, NoLetter
  <2> QED
    BY <1>2, <1>3 DEF Row, Columns, bcc
<1>5. Bears(m, parsed, from, rcpts, via, told, line)
  <2> HIDE DEF Row
  <2> QED
    BY <1>4 DEF Bears, bcc
<1> QED
  BY <1>1, <1>5

(* What every message that takes its ULID satisfies. *)
LEMMA BearsIs ==
  ASSUME NumbersOK, NEW m, NEW parsed, NEW from, NEW rcpts \in Seq(Entry), NEW via, NEW told,
         NEW line \in SUBSET (1..lastUlid),
         Bears(m, parsed, from, rcpts, via, told, line)
  PROVE  /\ m \in Row /\ m.ulid = lastUlid + 1 /\ m.created = now
         /\ m.line \subseteq 1..lastUlid
         /\ \A i \in DOMAIN m.bcc : m.bcc[i] # Nobody
         /\ m.via = via /\ m.told = told
<1>1. \A i \in DOMAIN DeriveBcc(rcpts, parsed.to, parsed.cc) :
         DeriveBcc(rcpts, parsed.to, parsed.cc)[i] # Nobody
  BY DeriveBccIs DEF BlindCopies
<1> HIDE DEF Row
<1> QED
  BY <1>1 DEF Bears
(* A message arrives at Ingest with everything it owes. *)
Arrives(c, m) ==
  /\ Takes(c, m)
  /\ m \in Row /\ m.ulid = lastUlid + 1 /\ m.created = now
  /\ m.line \subseteq 1..lastUlid
  /\ \A i \in DOMAIN m.bcc : m.bcc[i] # Nobody
  /\ Owed(m) /\ Descends(m, rows) /\ \A d \in Pending : mail[d].ulid \notin m.line
  /\ UNCHANGED <<store, now, sending, reader>>

LEMMA PostedIs ==
  ASSUME NEW l \in Posted
  PROVE  /\ l.from \in Entry /\ l.rcpts \in Seq(Entry) /\ l.headers \in Header
         /\ (IF l.parses THEN Parse(l.headers) ELSE Garbage) \in Columns
         /\ l.parses => Parse(l.headers).to = l.headers.to /\ Parse(l.headers).cc = l.headers.cc
         /\ l.headers.to \in Seq(Address) /\ l.headers.cc \in Seq(Address)
<1>1. l.from \in Entry /\ l.rcpts \in Seq(Entry) /\ l.headers \in Header
  <2> HIDE DEF Entry, Header
  <2> QED
    BY DEF Posted
<1>2. Parse(l.headers) \in Columns /\ Garbage \in Columns
  BY <1>1, ParseIs, GarbageIs
<1>3. l.headers.to \in Seq(Address) /\ l.headers.cc \in Seq(Address)
  <2> HIDE DEF Address, HeaderId, Token
  <2> QED
    BY <1>1 DEF Header
<1>4. Parse(l.headers).to = l.headers.to /\ Parse(l.headers).cc = l.headers.cc
  BY DEF Parse
<1> HIDE DEF Columns, Garbage, Entry, Header, Posted
<1> QED
  BY <1>1, <1>2, <1>3, <1>4

(* DATA: the message carries the envelope of this transaction. *)
LEMMA DataArrives ==
  ASSUME IInv, NEW s \in Sessions, Data(s)
  PROVE  \E m : /\ Arrives(s, m) /\ m.via = "smtp" /\ m.told = session[s].letter
                /\ session[s].phase = "mail"
                /\ session' = [session EXCEPT ![s].phase = "data"]
<1> DEFINE x == session[s]
           l == x.letter
           parsed == IF l.parses THEN Parse(l.headers) ELSE Garbage
<1>0. NumbersOK /\ SessionOK
  BY DEF IInv
<1>1. /\ x.phase = "mail" /\ x.told = Len(l.rcpts)
      /\ Persist(s, parsed, x.from, x.rcpts, "smtp", l, {})
      /\ session' = [session EXCEPT ![s].phase = "data"]
      /\ UNCHANGED <<store, now, sending, reader>>
  BY DEF Data
<1>2. Mid(x, scene.letters) /\ x.rcpts \in Seq(Entry)
  <2> HIDE DEF Entry, NoLetter, Posted
  <2> QED
    BY <1>0, <1>1 DEF SessionOK, SessionState, Orderly
<1> HIDE DEF x, l
<1>3. l \in Posted /\ l \in scene.letters /\ \A i \in DOMAIN l.rcpts : Bare(l.rcpts[i])
  BY <1>0, <1>2, SceneIs DEF Mid, l
<1>4. /\ l.from \in Entry /\ l.rcpts \in Seq(Entry) /\ parsed \in Columns
      /\ l.headers.to \in Seq(Address) /\ l.headers.cc \in Seq(Address)
      /\ l.parses => parsed.to = l.headers.to /\ parsed.cc = l.headers.cc
  BY <1>3, PostedIs
<1>5. x.rcpts = l.rcpts /\ x.from = l.from
  <2>1. /\ Len(x.rcpts) = Len(l.rcpts) /\ x.from = l.from
        /\ \A i \in 1..Len(l.rcpts) : x.rcpts[i] = l.rcpts[i]
    BY <1>1, <1>2 DEF Mid, l
  <2> HIDE DEF Entry
  <2>2. x.rcpts = l.rcpts
    BY <1>2, <1>4, <2>1, SeqEqual
  <2> QED
    BY <2>1, <2>2
<1>6. ~l.parses => parsed.to = <<>> /\ parsed.cc = <<>>
  BY DEF Garbage
<1> HIDE DEF parsed
<1>7. {} \in SUBSET Nat /\ {} \in SUBSET (1..lastUlid)
  OBVIOUS
<1>8. PICK m : Takes(s, m) /\ Bears(m, parsed, x.from, x.rcpts, "smtp", l, {})
  <2>1. l \in {NoLetter} \cup Posted \cup Draft /\ x.from \in Entry
    BY <1>3, <1>4, <1>5
  <2>2. "smtp" \in {"smtp", "reply", "inject", "raw"}
    OBVIOUS
  <2> HIDE DEF Entry, Columns, NoLetter, Posted, Draft
  <2> QED
    BY <1>0, <1>1, <1>2, <1>4, <1>7, <2>1, <2>2, PersistIs
<1>9. /\ m \in Row /\ m.ulid = lastUlid + 1 /\ m.created = now
      /\ m.line \subseteq 1..lastUlid
      /\ \A i \in DOMAIN m.bcc : m.bcc[i] # Nobody
      /\ m.via = "smtp" /\ m.told = l
  <2> HIDE DEF Entry, Row
  <2> QED
    BY <1>0, <1>2, <1>7, <1>8, BearsIs
<1>10. Own(m)
  <2>1. m.sender = l.from /\ m.rcpts = l.rcpts /\ m.bcc = DeriveBcc(l.rcpts, parsed.to, parsed.cc)
    BY <1>5, <1>8 DEF Bears
  <2>2. Boxes(FlattenSeq(m.bcc)) = Boxes(FlattenSeq(l.rcpts)) \ Boxes(parsed.to \o parsed.cc)
    <3>1. parsed.to \in Seq(Address) /\ parsed.cc \in Seq(Address)
      <4> HIDE DEF Address, Columns
      <4> QED
        BY <1>4 DEF Columns
    <3>2. Boxes(FlattenSeq(DeriveBcc(l.rcpts, parsed.to, parsed.cc))) =
            Boxes(FlattenSeq(l.rcpts)) \ Boxes(parsed.to \o parsed.cc)
      BY <1>3, <1>4, <3>1, DeriveBccOfBare
    <3> QED
      BY <2>1, <3>2
  <2>3. CASE l.parses
    BY <1>4, <1>9, <2>1, <2>2, <2>3 DEF Own
  <2>4. CASE ~l.parses
    <3>1. Boxes(<<>> \o <<>>) = {}
      BY DEF Boxes
    <3> QED
      BY <1>6, <1>9, <2>1, <2>2, <2>4, <3>1 DEF Own
  <2> QED
    BY <2>3, <2>4
<1>11. Copies(m)
  BY <1>9 DEF Copies
<1>12. Descends(m, rows) /\ \A d \in Pending : mail[d].ulid \notin m.line
  BY <1>8 DEF Descends, Bears
<1> QED
  BY <1>1, <1>8, <1>9, <1>10, <1>11, <1>12 DEF Arrives, Owed, x, l
(* The envelope Send makes is everyone who was written to, and the headers name    *)
(* the chain of the draft.                                                      *)
LEMMA SendArrives ==
  ASSUME IInv, NEW w \in Writers, NEW m \in Draft, NEW line \in SUBSET (1..lastUlid),
         \A q \in rows : q.ulid \in line /\ q.id # Blank => Holds(m.references, q.id),
         \A d \in Pending : mail[d].ulid \notin line,
         Send(w, m, line)
  PROVE  \E n : Arrives(w, n) /\ n.via # "smtp" /\ session' = session
<1> DEFINE parsed == Parse(Build(m))
           from == One(Nameless(m.from[1]))
           rcpts == Recipients(m)
<1>0. NumbersOK
  BY DEF IInv
<1>1. /\ Buildable(m) /\ Persist(w, parsed, from, rcpts, "reply", m, line)
      /\ UNCHANGED <<store, now, session, sending, reader>>
  BY DEF Send
<1>2. from \in Entry
  <2>1. m.from \in Seq(Address) /\ Len(m.from) = 1
    <3>1. m.from \in Entry
      <4> HIDE DEF Entry
      <4> QED
        BY DEF Draft
    <3> QED
      BY <1>1, <3>1 DEF Entry, Buildable
  <2>2. m.from[1] \in Address
    <3> HIDE DEF Address
    <3> QED
      BY <2>1
  <2>3. Nameless(m.from[1]) \in Address
    BY <2>2, NamelessIs
  <2> QED
    BY <2>3, SingletonIs DEF One, Entry
<1>3. /\ rcpts \in Seq(Entry)
      /\ Boxes(FlattenSeq(rcpts)) = AloneIn(m.to \o m.cc \o m.bcc)
      /\ Boxes(FlattenSeq(DeriveBcc(rcpts, FlattenSeq(m.to), FlattenSeq(m.cc)))) =
           AloneIn(m.bcc) \ Boxes(FlattenSeq(m.to \o m.cc))
  BY RecipientsAre
<1>4. /\ parsed \in Columns
      /\ parsed.to = FlattenSeq(m.to) /\ parsed.cc = FlattenSeq(m.cc)
      /\ \A x : Holds(parsed.references, x) <=> x # Blank /\ Holds(m.references, x)
  BY BuildIs
<1> HIDE DEF parsed, from, rcpts
<1>5. line \in SUBSET Nat
  BY <1>0, NumbersAre
<1>6. PICK n : Takes(w, n) /\ Bears(n, parsed, from, rcpts, "reply", m, line)
  <2>1. m \in {NoLetter} \cup Posted \cup Draft /\ "reply" \in {"smtp", "reply", "inject", "raw"}
    OBVIOUS
  <2> HIDE DEF Entry, Columns, NoLetter, Posted, Draft
  <2> QED
    BY <1>0, <1>1, <1>2, <1>3, <1>4, <1>5, <2>1, PersistIs
<1>7. /\ n \in Row /\ n.ulid = lastUlid + 1 /\ n.created = now
      /\ n.line \subseteq 1..lastUlid
      /\ \A i \in DOMAIN n.bcc : n.bcc[i] # Nobody
      /\ n.via = "reply" /\ n.told = m
  <2> HIDE DEF Entry, Row
  <2> QED
    BY <1>0, <1>3, <1>6, BearsIs
<1>8. Owed(n)
  <2>1. n.rcpts = rcpts /\ n.bcc = DeriveBcc(rcpts, FlattenSeq(m.to), FlattenSeq(m.cc))
    BY <1>4, <1>6 DEF Bears
  <2>2. /\ Boxes(FlattenSeq(n.rcpts)) = AloneIn(m.to \o m.cc \o m.bcc)
        /\ Boxes(FlattenSeq(n.bcc)) = AloneIn(m.bcc) \ Boxes(FlattenSeq(m.to \o m.cc))
    BY <1>3, <2>1
  <2> QED
    BY <1>7, <2>2 DEF Owed, Own, Copies
<1>9. Descends(n, rows) /\ \A d \in Pending : mail[d].ulid \notin n.line
  <2>1. n.references = parsed.references /\ n.line = line
    BY <1>6 DEF Bears
  <2> QED
    BY <1>4, <2>1 DEF Descends
<1>10. n.via # "smtp"
  BY <1>7
<1> QED
  BY <1>1, <1>6, <1>7, <1>8, <1>9, <1>10 DEF Arrives

(* The fields of a row that a reply is made of. *)
LEMMA RowIs ==
  ASSUME NEW p \in Row
  PROVE  /\ p.id \in MessageId /\ p.references \in Seq(MessageId) /\ p.subject \in Seq(Token)
         /\ p.to \in Seq(Address) /\ p.from \in Seq(Address) /\ p.replyTo \in Seq(Address)
         /\ p.rcpts \in Seq(Entry) /\ p.inReplyTo \in MessageId
         /\ p.ulid \in Nat /\ p.created \in Nat
<1> HIDE DEF MessageId, Token, Address, Entry, Posted, Draft, NoLetter
<1> QED
  BY DEF Row

(* A reply descends from its parent and from what its parent descends from. *)
LEMMA ReplyArrives ==
  ASSUME IInv, NEW w \in Writers, NEW p \in rows, NEW typed \in scene.requests,
         Reply(w, p, typed)
  PROVE  \E n : Arrives(w, n) /\ n.via # "smtp" /\ session' = session
<1> DEFINE seed == NewReply(p, Mint)
           m == Overlay(seed, typed)
           line == p.line \cup {p.ulid}
<1>0. NumbersOK /\ RowsOK /\ LineageOK
  BY DEF IInv
<1>1. Arrived(p, lastUlid, now) /\ Descends(p, rows) /\ typed \in Request /\ Mint \in MessageId
  BY <1>0, SceneIs, MintIs DEF RowsOK, LineageOK
<1>2. p \in Row
  BY <1>1 DEF Arrived
<1>3. seed \in Draft
  BY <1>1, <1>2, RowIs, NewReplyIs
<1>4. m \in Draft /\ m.references = seed.references
  BY <1>1, <1>3, OverlayIs
<1>5. \A x : Holds(seed.references, x) <=> x # Blank /\ (x = p.id \/ Holds(p.references, x))
  <2>1. seed.references = Chain(p)
    BY DEF NewReply
  <2>2. p.id \in MessageId /\ p.references \in Seq(MessageId)
    BY <1>2, RowIs
  <2> HIDE DEF seed
  <2>3. \A x : Holds(Chain(p), x) <=> x # Blank /\ (x = p.id \/ Holds(p.references, x))
    BY <2>2, AncestorsAre DEF Chain
  <2> QED
    BY <2>1, <2>3
<1> HIDE DEF seed, m
<1>6. ASSUME NEW q \in rows, q.ulid \in line, q.id # Blank PROVE Holds(m.references, q.id)
  <2>1. CASE q.ulid = p.ulid
    <3>1. q = p
      BY <1>0, <2>1 DEF RowsOK
    <3> QED
      BY <1>4, <1>5, <1>6, <3>1
  <2>2. CASE q.ulid \in p.line
    <3>1. Holds(p.references, q.id)
      BY <1>1, <1>6, <2>2 DEF Descends
    <3> QED
      BY <1>4, <1>5, <1>6, <3>1
  <2> QED
    BY <1>6, <2>1, <2>2
<1>7. line \in SUBSET (1..lastUlid)
  BY <1>1 DEF Arrived
<1>8. Send(w, m, line)
  BY DEF Reply, m, seed
<1>9. \A d \in Pending : mail[d].ulid \notin line
  <2>1. \A d \in Pending : mail[d].ulid \notin p.line /\ mail[d].ulid # p.ulid
    BY DEF IInv, LineageOK, MailOK
  <2> QED
    BY <2>1
<1> HIDE DEF line, IInv
<1> QED
  BY <1>4, <1>6, <1>7, <1>8, <1>9, SendArrives

LEMMA ComposeArrives ==
  ASSUME IInv, NEW w \in Writers, NEW typed \in scene.requests, Compose(w, typed)
  PROVE  \E n : Arrives(w, n) /\ n.via # "smtp" /\ session' = session
<1> DEFINE m == Overlay(NewMail(Mint), typed)
<1>0. NumbersOK
  BY DEF IInv
<1>1. NewMail(Mint) \in Draft /\ typed \in Request
  BY <1>0, MintIs, NewMailIs, SceneIs
<1>2. m \in Draft
  BY <1>1, OverlayIs
<1>3. Send(w, m, {})
  BY DEF Compose
<1>4. /\ {} \in SUBSET (1..lastUlid) /\ \A d \in Pending : mail[d].ulid \notin {}
      /\ \A q \in rows : q.ulid \in {} /\ q.id # Blank => Holds(m.references, q.id)
  OBVIOUS
<1> HIDE DEF m, IInv
<1> QED
  BY <1>2, <1>3, <1>4, SendArrives

(* Posted mail has the fields of the request for its envelope. *)
LEMMA InjectArrives ==
  ASSUME IInv, NEW w \in Writers, NEW typed \in scene.requests, Inject(w, typed)
  PROVE  \E n : Arrives(w, n) /\ n.via # "smtp" /\ session' = session
<1> DEFINE m == [NewMail(Mint) EXCEPT !.from = typed.from, !.to = typed.to, !.cc = typed.cc,
                                      !.subject = typed.subject, !.body = typed.body]
           parsed == Parse(Build(m))
           rcpts == typed.to \o typed.cc
<1>0. NumbersOK
  BY DEF IInv
<1>1. typed \in Request
  BY <1>0, SceneIs
<1>2. m \in Draft /\ m.to = typed.to /\ m.cc = typed.cc
  BY <1>0, <1>1, MintIs, InjectedIs
<1>3. /\ Persist(w, parsed, typed.from, rcpts, "inject", m, {})
      /\ UNCHANGED <<store, now, session, sending, reader>>
  BY DEF Inject
<1> HIDE DEF m
<1>4. /\ parsed \in Columns
      /\ parsed.to = FlattenSeq(typed.to) /\ parsed.cc = FlattenSeq(typed.cc)
  BY <1>2, BuildIs
<1>5. typed.from \in Entry /\ typed.to \in Seq(Entry) /\ typed.cc \in Seq(Entry)
  <2> HIDE DEF Entry
  <2> QED
    BY <1>1 DEF Request
<1>6. rcpts \in Seq(Entry)
  BY <1>5, BoxesOfBothEntries
<1> HIDE DEF parsed, rcpts
<1>7. {} \in SUBSET Nat /\ {} \in SUBSET (1..lastUlid)
  OBVIOUS
<1>8. PICK n : Takes(w, n) /\ Bears(n, parsed, typed.from, rcpts, "inject", m, {})
  <2>1. m \in {NoLetter} \cup Posted \cup Draft /\ "inject" \in {"smtp", "reply", "inject", "raw"}
    BY <1>2
  <2> HIDE DEF Entry, Columns, NoLetter, Posted, Draft
  <2> QED
    BY <1>0, <1>3, <1>4, <1>5, <1>6, <1>7, <2>1, PersistIs
<1>9. /\ n \in Row /\ n.ulid = lastUlid + 1 /\ n.created = now
      /\ n.line \subseteq 1..lastUlid
      /\ \A i \in DOMAIN n.bcc : n.bcc[i] # Nobody
      /\ n.via = "inject" /\ n.told = m
  <2> HIDE DEF Entry, Row
  <2> QED
    BY <1>0, <1>6, <1>7, <1>8, BearsIs
<1>10. Owed(n)
  <2>1. n.bcc = DeriveBcc(rcpts, FlattenSeq(typed.to), FlattenSeq(typed.cc))
    BY <1>4, <1>8 DEF Bears
  <2>2. \A i \in DOMAIN n.bcc : Len(n.bcc[i]) > 1 \/ n.bcc[i][1].named
    BY <1>5, <2>1, PostedCopiesAre DEF rcpts
  <2> QED
    BY <1>9, <2>2 DEF Owed, Own, Copies
<1>11. Descends(n, rows) /\ \A d \in Pending : mail[d].ulid \notin n.line
  BY <1>8 DEF Descends, Bears
<1>12. n.via # "smtp"
  BY <1>9
<1> QED
  BY <1>3, <1>8, <1>9, <1>10, <1>11, <1>12 DEF Arrives

LEMMA InjectRawArrives ==
  ASSUME IInv, NEW w \in Writers, NEW l \in scene.raw, InjectRaw(w, l)
  PROVE  \E n : Arrives(w, n) /\ n.via # "smtp" /\ session' = session
<1> DEFINE parsed == IF l.parses THEN Parse(l.headers) ELSE Garbage
<1>0. NumbersOK
  BY DEF IInv
<1>1. l \in Posted
  BY <1>0, SceneIs
<1>2. l.from \in Entry /\ l.rcpts \in Seq(Entry) /\ parsed \in Columns
  BY <1>1, PostedIs
<1>3. /\ Persist(w, parsed, l.from, l.rcpts, "raw", l, {})
      /\ UNCHANGED <<store, now, session, sending, reader>>
  BY DEF InjectRaw
<1> HIDE DEF parsed
<1>4. {} \in SUBSET Nat /\ {} \in SUBSET (1..lastUlid)
  OBVIOUS
<1>5. PICK n : Takes(w, n) /\ Bears(n, parsed, l.from, l.rcpts, "raw", l, {})
  <2>1. l \in {NoLetter} \cup Posted \cup Draft /\ "raw" \in {"smtp", "reply", "inject", "raw"}
    BY <1>1
  <2> HIDE DEF Entry, Columns, NoLetter, Posted, Draft
  <2> QED
    BY <1>0, <1>2, <1>3, <1>4, <2>1, PersistIs
<1>6. /\ n \in Row /\ n.ulid = lastUlid + 1 /\ n.created = now
      /\ n.line \subseteq 1..lastUlid
      /\ \A i \in DOMAIN n.bcc : n.bcc[i] # Nobody
      /\ n.via = "raw"
  <2> HIDE DEF Entry, Row
  <2> QED
    BY <1>0, <1>2, <1>4, <1>5, BearsIs
<1>7. Owed(n) /\ n.via # "smtp"
  BY <1>6 DEF Owed, Own, Copies
<1>8. Descends(n, rows) /\ \A d \in Pending : mail[d].ulid \notin n.line
  BY <1>5 DEF Descends, Bears
<1> QED
  BY <1>3, <1>5, <1>6, <1>7, <1>8 DEF Arrives
-----------------------------------------------------------------------------
(* A message is stored *)

(* r is the message m in the thread t. *)
Rowed(r, m, t) ==
  /\ r \in Row /\ r.thread = t
  /\ r.ulid = m.ulid /\ r.created = m.created /\ r.id = m.id /\ r.inReplyTo = m.inReplyTo
  /\ r.references = m.references /\ r.subject = m.subject /\ r.bcc = m.bcc
  /\ r.sender = m.sender /\ r.rcpts = m.rcpts /\ r.via = m.via /\ r.told = m.told
  /\ r.line = m.line

LEMMA RowedIs ==
  ASSUME NEW m \in Row, NEW t \in Nat
  PROVE  Rowed([m EXCEPT !.thread = t], m, t)
<1> DEFINE r == [m EXCEPT !.thread = t]
<1> HIDE DEF MessageId, Token, Address, Entry, Posted, Draft, NoLetter
<1>1. r \in Row
  BY DEF Row
<1>2. /\ r.thread = t
      /\ r.ulid = m.ulid /\ r.created = m.created /\ r.id = m.id /\ r.inReplyTo = m.inReplyTo
      /\ r.references = m.references /\ r.subject = m.subject /\ r.bcc = m.bcc
      /\ r.sender = m.sender /\ r.rcpts = m.rcpts /\ r.via = m.via /\ r.told = m.told
      /\ r.line = m.line
  BY DEF Row
<1> HIDE DEF r, Row
<1> QED
  BY <1>1, <1>2 DEF Rowed, r

(* The message joins the conversation d... *)
Joins(m, r, d, e) ==
  /\ Rowed(r, m, d.thread) /\ d \in convs /\ d.thread \in Fits(m)
  /\ e = [thread |-> d.thread, key |-> IF d.key = <<>> THEN Key(m.subject) ELSE d.key,
          activity |-> m.created]
  /\ rows' = rows \cup {r}
  /\ convs' = (convs \ {d}) \cup {e}
  /\ reader' = Moved(d.activity, e.activity, d.thread)
  /\ lastConv' = lastConv

(* ...or opens the conversation e. *)
Opens(m, r, e) ==
  /\ Rowed(r, m, lastConv + 1) /\ Fits(m) = {}
  /\ e = [thread |-> lastConv + 1, key |-> Key(m.subject), activity |-> m.created]
  /\ rows' = rows \cup {r}
  /\ convs' = convs \cup {e}
  /\ reader' = reader
  /\ lastConv' = lastConv + 1

LEMMA CommitIs ==
  ASSUME IInv, NEW c \in Carriers, Commit(c)
  PROVE  /\ c \in Pending
         /\ at' = [at EXCEPT ![c] = "announce"]
         /\ sender' = (IF mail[c].via = "smtp" THEN Count(mail[c].told) ELSE sender)
         /\ UNCHANGED <<scene, mail, deletions, lastUlid, now, session, sends>>
         /\ \E r, e : (\E d : Joins(mail[c], r, d, e)) \/ Opens(mail[c], r, e)
<1> DEFINE m == mail[c]
<1>0. NumbersOK /\ ConvsOK /\ MailOK
  BY DEF IInv
<1>1. /\ c \in Pending
      /\ at' = [at EXCEPT ![c] = "announce"]
      /\ sender' = (IF m.via = "smtp" THEN Count(m.told) ELSE sender)
      /\ UNCHANGED <<scene, mail, deletions, lastUlid, now, session, sends>>
  BY DEF Commit, Pending
<1>2. m \in Row
  BY <1>0, <1>1 DEF MailOK, Arrived
<1>3. \/ /\ \E d \in convs :
              /\ d.thread \in Fits(m)
              /\ rows' = rows \cup {[m EXCEPT !.thread = d.thread]}
              /\ convs' = (convs \ {d}) \cup {Touched(d, m)}
              /\ reader' = Moved(d.activity, m.created, d.thread)
         /\ lastConv' = lastConv
      \/ /\ Fits(m) = {}
         /\ lastConv' = lastConv + 1
         /\ rows' = rows \cup {[m EXCEPT !.thread = lastConv + 1]}
         /\ convs' = convs \cup {[thread |-> lastConv + 1, key |-> Key(m.subject), activity |-> m.created]}
         /\ reader' = reader
  BY Zenon DEF Commit
<1> HIDE DEF m
<1>4. CASE /\ \E d \in convs :
                /\ d.thread \in Fits(m)
                /\ rows' = rows \cup {[m EXCEPT !.thread = d.thread]}
                /\ convs' = (convs \ {d}) \cup {Touched(d, m)}
                /\ reader' = Moved(d.activity, m.created, d.thread)
           /\ lastConv' = lastConv
  <2>1. PICK d \in convs :
                /\ d.thread \in Fits(m)
                /\ rows' = rows \cup {[m EXCEPT !.thread = d.thread]}
                /\ convs' = (convs \ {d}) \cup {Touched(d, m)}
                /\ reader' = Moved(d.activity, m.created, d.thread)
    BY <1>4
  <2>2. /\ d = [thread |-> d.thread, key |-> d.key, activity |-> d.activity]
        /\ d.thread \in Nat
    BY <1>0, NumbersAre DEF ConvsOK
  <2> DEFINE e == [thread |-> d.thread, key |-> IF d.key = <<>> THEN Key(m.subject) ELSE d.key,
                   activity |-> m.created]
  <2>3. Touched(d, m) = e
    <3> DEFINE k == Key(m.subject)
               t == d.thread
               old == d.key
               a == d.activity
    <3> HIDE DEF k, t, old, a
    <3>1. d = [thread |-> t, key |-> old, activity |-> a]
      BY <2>2 DEF t, old, a
    <3>2. Touched(d, m) = [d EXCEPT !.activity = m.created, !.key = IF @ = <<>> THEN k ELSE @]
      BY Zenon DEF Touched, k
    <3>3. Touched(d, m) = [thread |-> t, key |-> IF old = <<>> THEN k ELSE old, activity |-> m.created]
      BY <3>1, <3>2
    <3> QED
      BY <3>3 DEF k, t, old
  <2>4. Rowed([m EXCEPT !.thread = d.thread], m, d.thread)
    BY <1>2, <2>2, RowedIs
  <2>5. e.activity = m.created
    OBVIOUS
  <2> HIDE DEF e
  <2>6. Joins(m, [m EXCEPT !.thread = d.thread], d, e)
    BY <1>4, <2>1, <2>3, <2>4, <2>5 DEF Joins, e
  <2> QED
    BY <1>1, <2>6 DEF m
<1>5. CASE /\ Fits(m) = {}
           /\ lastConv' = lastConv + 1
           /\ rows' = rows \cup {[m EXCEPT !.thread = lastConv + 1]}
           /\ convs' = convs \cup {[thread |-> lastConv + 1, key |-> Key(m.subject), activity |-> m.created]}
           /\ reader' = reader
  <2>1. lastConv + 1 \in Nat
    BY <1>0, NumbersAre
  <2>2. Rowed([m EXCEPT !.thread = lastConv + 1], m, lastConv + 1)
    BY <1>2, <2>1, RowedIs
  <2>3. Opens(m, [m EXCEPT !.thread = lastConv + 1],
              [thread |-> lastConv + 1, key |-> Key(m.subject), activity |-> m.created])
    BY <1>5, <2>2 DEF Opens
  <2> QED
    BY <1>1, <2>3 DEF m
<1> QED
  BY <1>3, <1>4, <1>5

-----------------------------------------------------------------------------
(* The steps, by what they do *)

Taken(s) ==
  \E m : /\ Arrives(s, m) /\ m.via = "smtp" /\ m.told = session[s].letter
         /\ session[s].phase = "mail"
         /\ session' = [session EXCEPT ![s].phase = "data"]
Filed(w) == \E m : Arrives(w, m) /\ m.via # "smtp" /\ session' = session

(* What one step may be. *)
LEMMA NextIs ==
  ASSUME IInv, [Next]_vars
  PROVE  \/ \E s \in Sessions :
              \/ Connect(s) \/ RcptTo(s) \/ Rset(s) \/ DataRefused(s) \/ Answer(s) \/ HangUp(s)
              \/ \E l \in scene.letters : MailFrom(s, l)
              \/ Taken(s)
         \/ \E w \in Writers : Filed(w) \/ WriterDone(w)
         \/ \E c \in Carriers : Commit(c) \/ IngestFails(c) \/ Announce(c)
         \/ \E ask \in scene.asks : OpenList(ask)
         \/ NextPage
         \/ \E gone : Delete(gone)
         \/ Tick
         \/ UNCHANGED vars
<1> HIDE DEF IInv
<1>1. ASSUME NEW s \in Sessions, Smtp(s)
      PROVE  \/ Connect(s) \/ RcptTo(s) \/ Rset(s) \/ DataRefused(s) \/ Answer(s) \/ HangUp(s)
             \/ \E l \in scene.letters : MailFrom(s, l)
             \/ Taken(s)
  <2>1. Data(s) => Taken(s)
    BY DataArrives, Zenon DEF Taken
  <2> QED
    BY <1>1, <2>1, Zenon DEF Smtp
<1>2. ASSUME NEW w \in Writers, Api(w)
      PROVE  Filed(w) \/ WriterDone(w)
  <2>1. ASSUME NEW t \in scene.requests, Compose(w, t) PROVE Filed(w)
    BY <2>1, ComposeArrives, Zenon DEF Filed
  <2>2. ASSUME NEW t \in scene.requests, Inject(w, t) PROVE Filed(w)
    BY <2>2, InjectArrives, Zenon DEF Filed
  <2>3. ASSUME NEW t \in scene.requests, NEW p \in rows, Reply(w, p, t) PROVE Filed(w)
    BY <2>3, ReplyArrives, Zenon DEF Filed
  <2>4. ASSUME NEW l \in scene.raw, InjectRaw(w, l) PROVE Filed(w)
    BY <2>4, InjectRawArrives, Zenon DEF Filed
  <2> QED
    BY <1>2, <2>1, <2>2, <2>3, <2>4, Zenon DEF Api
<1>3. Deleting => \E gone : Delete(gone)
  BY Zenon DEF Deleting
<1>4. \/ \E s \in Sessions : Smtp(s)
      \/ \E w \in Writers : Api(w)
      \/ \E c \in Carriers : Commit(c) \/ IngestFails(c) \/ Announce(c)
      \/ \E ask \in scene.asks : OpenList(ask)
      \/ NextPage
      \/ Deleting
      \/ Tick
      \/ UNCHANGED vars
  BY Zenon DEF Next
<1> QED
  BY <1>1, <1>2, <1>3, <1>4, Zenon
(* Steps that leave the store, the clock and the reader alone. *)
Calm == UNCHANGED <<scene, rows, convs, lastConv, deletions, lastUlid, now, reader>>

LEMMA StoreSteps ==
  ASSUME IInv, [Next]_vars
  PROVE  \/ Calm
         \/ \E c \in Carriers : \E m : Arrives(c, m)
         \/ \E c \in Carriers : Commit(c)
         \/ \E ask \in scene.asks : OpenList(ask)
         \/ NextPage
         \/ \E gone : Delete(gone)
         \/ Tick
<1> HIDE DEF IInv
<1>1. ASSUME NEW s \in Sessions,
             \/ Connect(s) \/ RcptTo(s) \/ Rset(s) \/ DataRefused(s) \/ Answer(s) \/ HangUp(s)
             \/ \E l \in scene.letters : MailFrom(s, l)
      PROVE  Calm
  BY <1>1 DEF Calm, Connect, RcptTo, Rset, DataRefused, Answer, HangUp, MailFrom, store
<1>2. ASSUME NEW c \in Carriers, WriterDone(c) \/ IngestFails(c) \/ Announce(c)
      PROVE  Calm
  BY <1>2 DEF Calm, WriterDone, IngestFails, Announce, store
<1>3. UNCHANGED vars => Calm
  BY DEF Calm, vars, store
<1>4. \A s \in Sessions : s \in Carriers /\ (Taken(s) => \E m : Arrives(s, m))
  BY Zenon DEF Taken, Carriers
<1>5. \A w \in Writers : w \in Carriers /\ (Filed(w) => \E m : Arrives(w, m))
  BY Zenon DEF Filed, Carriers
<1> QED
  BY NextIs, <1>1, <1>2, <1>3, <1>4, <1>5, Zenon

LEMMA ArrivedKept ==
  ASSUME NEW m, NEW last \in Nat, NEW time \in Nat, Arrived(m, last, time),
         NEW later \in Nat, NEW after \in Nat, last <= later, time <= after
  PROVE  Arrived(m, later, after)
<1>1. m \in Row /\ m.ulid \in 1..later /\ \A i \in DOMAIN m.bcc : m.bcc[i] # Nobody
  BY DEF Arrived
<1>2. m.created <= after
  BY RowIs DEF Arrived
<1>3. m.line \subseteq 1..later
  BY DEF Arrived
<1> QED
  BY <1>1, <1>2, <1>3 DEF Arrived

LEMMA RowedKeeps ==
  ASSUME NEW m, NEW last \in Nat, NEW time \in Nat, Arrived(m, last, time),
         NEW r, NEW t, Rowed(r, m, t)
  PROVE  Arrived(r, last, time)
<1> HIDE DEF Row
<1> QED
  BY DEF Arrived, Rowed

-----------------------------------------------------------------------------
(* Numbers, rows, conversations *)

LEMMA NumbersNext ==
  ASSUME IInv, [Next]_vars
  PROVE  NumbersOK'
<1>0. NumbersOK
  BY DEF IInv
<1>1. /\ scene.msgs \in Nat /\ scene.sends \in Nat /\ scene.deletions \in Nat /\ scene.time \in Nat
  BY <1>0, SceneIs
<1>2. sends' = sends \/ (sends < scene.sends /\ sends' = sends + 1)
  <2> HIDE DEF IInv
  <2>1. ASSUME NEW s \in Sessions,
               Connect(s) \/ RcptTo(s) \/ Rset(s) \/ DataRefused(s) \/ Answer(s) \/ HangUp(s)
        PROVE  sends' = sends
    BY <2>1 DEF Connect, RcptTo, Rset, DataRefused, Answer, HangUp, sending
  <2>2. ASSUME NEW s \in Sessions, NEW l \in scene.letters, MailFrom(s, l)
        PROVE  sends < scene.sends /\ sends' = sends + 1
    BY <2>2 DEF MailFrom, Due
  <2>3. ASSUME NEW s, NEW m, Arrives(s, m) PROVE sends' = sends
    BY <2>3 DEF Arrives, sending
  <2>4. ASSUME NEW c \in Carriers, Commit(c) \/ WriterDone(c) \/ IngestFails(c) \/ Announce(c)
        PROVE  sends' = sends
    BY <2>4 DEF Commit, WriterDone, IngestFails, Announce, sending
  <2>5. ASSUME NEW ask, OpenList(ask) PROVE sends' = sends
    BY <2>5 DEF OpenList, sending
  <2>6. ASSUME NEW gone, Delete(gone) PROVE sends' = sends
    BY <2>6 DEF Delete, sending
  <2>7. NextPage \/ Tick \/ UNCHANGED vars => sends' = sends
    BY DEF NextPage, Tick, vars, sending
  <2>8. \A c \in Writers : c \in Carriers
    BY DEF Carriers
  <2>9. \A s : Taken(s) \/ Filed(s) => sends' = sends
    BY <2>3 DEF Taken, Filed
  <2> QED
    BY NextIs, <2>1, <2>2, <2>4, <2>5, <2>6, <2>7, <2>8, <2>9
<1>3. sends' \in 0..scene.sends
  BY <1>0, <1>1, <1>2 DEF NumbersOK
<1>4. CASE Calm
  BY <1>0, <1>3, <1>4 DEF Calm, NumbersOK
<1>5. ASSUME NEW c, NEW m, Arrives(c, m) PROVE NumbersOK'
  BY <1>0, <1>1, <1>3, <1>5 DEF Arrives, Takes, NumbersOK, store
<1>6. ASSUME NEW c \in Carriers, Commit(c) PROVE NumbersOK'
  <2>1. UNCHANGED <<scene, lastUlid, now, deletions>>
    BY <1>6 DEF Commit
  <2>2. lastConv' = lastConv \/ lastConv' = lastConv + 1
    <3> HIDE DEF IInv
    <3> QED
      BY <1>6, CommitIs DEF Joins, Opens
  <2> QED
    BY <1>0, <1>3, <2>1, <2>2 DEF NumbersOK
<1>7. ASSUME NEW ask, OpenList(ask) PROVE NumbersOK'
  BY <1>0, <1>3, <1>7 DEF OpenList, NumbersOK, store
<1>8. CASE NextPage
  BY <1>0, <1>3, <1>8 DEF NextPage, NumbersOK, store
<1>9. ASSUME NEW gone, Delete(gone) PROVE NumbersOK'
  BY <1>0, <1>1, <1>3, <1>9 DEF Delete, NumbersOK
<1>10. CASE Tick
  BY <1>0, <1>1, <1>3, <1>10 DEF Tick, NumbersOK, store
<1> HIDE DEF IInv
<1> QED
  BY StoreSteps, <1>4, <1>5, <1>6, <1>7, <1>8, <1>9, <1>10

(* The counters only grow. *)
LEMMA Grows ==
  ASSUME IInv, [Next]_vars
  PROVE  lastUlid <= lastUlid' /\ now <= now' /\ lastUlid' \in Nat /\ now' \in Nat /\ scene' = scene
<1>0. NumbersOK /\ NumbersOK'
  BY NumbersNext DEF IInv
<1>1. lastUlid \in Nat /\ now \in Nat /\ lastConv \in Nat
  BY <1>0, NumbersAre
<1>2. scene' = scene /\ lastUlid <= lastUlid' /\ now <= now'
  <2>1. Calm => scene' = scene /\ lastUlid' = lastUlid /\ now' = now
    BY DEF Calm
  <2>2. ASSUME NEW c, NEW m, Arrives(c, m)
        PROVE  scene' = scene /\ lastUlid' = lastUlid + 1 /\ now' = now
    BY <2>2 DEF Arrives, Takes, store
  <2>3. ASSUME NEW c, Commit(c) PROVE scene' = scene /\ lastUlid' = lastUlid /\ now' = now
    BY <2>3 DEF Commit
  <2>4. ASSUME NEW ask, OpenList(ask) PROVE scene' = scene /\ lastUlid' = lastUlid /\ now' = now
    BY <2>4 DEF OpenList, store
  <2>5. NextPage => scene' = scene /\ lastUlid' = lastUlid /\ now' = now
    BY DEF NextPage, store
  <2>6. ASSUME NEW gone, Delete(gone) PROVE scene' = scene /\ lastUlid' = lastUlid /\ now' = now
    BY <2>6 DEF Delete
  <2>7. Tick => scene' = scene /\ lastUlid' = lastUlid /\ now' = now + 1
    BY DEF Tick, store
  <2> HIDE DEF IInv
  <2>8. \/ scene' = scene /\ lastUlid' = lastUlid /\ now' = now
        \/ scene' = scene /\ lastUlid' = lastUlid + 1 /\ now' = now
        \/ scene' = scene /\ lastUlid' = lastUlid /\ now' = now + 1
    BY StoreSteps, <2>1, <2>2, <2>3, <2>4, <2>5, <2>6, <2>7, Zenon
  <2> QED
    BY <1>1, <2>8
<1>3. lastUlid' \in Nat /\ now' \in Nat
  <2>1. scene.msgs \in Nat /\ scene.time \in Nat
    BY <1>0, SceneIs
  <2> QED
    BY <1>0, <1>2, <2>1 DEF NumbersOK
<1> QED
  BY <1>2, <1>3
(* The foreign key holds because a conversation lives as long as a row of it. *)
LEMMA RowsNext ==
  ASSUME IInv, [Next]_vars
  PROVE  RowsOK'
<1>0. NumbersOK /\ RowsOK /\ ConvsOK /\ MailOK
  BY DEF IInv
<1>1. lastUlid \in Nat /\ now \in Nat /\ lastUlid <= lastUlid' /\ now <= now'
        /\ lastUlid' \in Nat /\ now' \in Nat
  BY <1>0, NumbersAre, Grows
<1>2. \A r \in rows : Arrived(r, lastUlid', now')
  <2>1. \A r \in rows : Arrived(r, lastUlid, now)
    BY <1>0 DEF RowsOK
  <2> QED
    BY <1>1, <2>1, ArrivedKept
<1>3. (rows' = rows /\ convs' = convs) => RowsOK'
  BY <1>0, <1>2 DEF RowsOK
<1>4. Calm => rows' = rows /\ convs' = convs
  BY DEF Calm
<1>5. ASSUME NEW c, NEW m, Arrives(c, m) PROVE rows' = rows /\ convs' = convs
  BY <1>5 DEF Arrives, store
<1>6. ASSUME NEW ask, OpenList(ask) PROVE rows' = rows /\ convs' = convs
  BY <1>6 DEF OpenList, store
<1>7. NextPage \/ Tick => rows' = rows /\ convs' = convs
  BY DEF NextPage, Tick, store
<1>8. ASSUME NEW gone, Delete(gone) PROVE RowsOK'
  <2>1. rows' = rows \ gone /\ convs' = {c \in convs : \E r \in rows \ gone : r.thread = c.thread}
    BY <1>8 DEF Delete
  <2>2. \A r \in rows' : \E c \in convs' : c.thread = r.thread
    BY <1>0, <2>1 DEF RowsOK
  <2>3. \A r, s \in rows' : r.ulid = s.ulid => r = s
    BY <1>0, <2>1 DEF RowsOK
  <2> QED
    BY <1>2, <2>1, <2>2, <2>3 DEF RowsOK
<1>9. ASSUME NEW c \in Carriers, Commit(c) PROVE RowsOK'
  <2> HIDE DEF IInv
  <2>1. /\ c \in Pending /\ lastUlid' = lastUlid /\ now' = now
        /\ \E r, e : (\E d : Joins(mail[c], r, d, e)) \/ Opens(mail[c], r, e)
    BY <1>9, CommitIs
  <2>2. Arrived(mail[c], lastUlid, now) /\ \A r \in rows : r.ulid # mail[c].ulid
    BY <1>0, <2>1 DEF MailOK
  <2>3. PICK r, e : (\E d : Joins(mail[c], r, d, e)) \/ Opens(mail[c], r, e)
    BY <2>1
  <2>4. /\ rows' = rows \cup {r}
        /\ \E t : Rowed(r, mail[c], t)
        /\ \A k \in convs : \E j \in convs' : j.thread = k.thread
        /\ \E j \in convs' : j.thread = r.thread
    <3>1. ASSUME NEW d, Joins(mail[c], r, d, e)
          PROVE  /\ rows' = rows \cup {r} /\ Rowed(r, mail[c], d.thread)
                 /\ convs' = (convs \ {d}) \cup {e} /\ e.thread = d.thread /\ r.thread = d.thread
      BY <3>1 DEF Joins, Rowed
    <3>2. Opens(mail[c], r, e) =>
            /\ rows' = rows \cup {r} /\ Rowed(r, mail[c], lastConv + 1)
            /\ convs' = convs \cup {e} /\ e.thread = lastConv + 1 /\ r.thread = lastConv + 1
      BY DEF Opens, Rowed
    <3> QED
      BY <2>3, <3>1, <3>2
  <2>5. Arrived(r, lastUlid, now) /\ r.ulid = mail[c].ulid
    <3>1. PICK t : Rowed(r, mail[c], t)
      BY <2>4
    <3>2. Arrived(r, lastUlid, now)
      BY <2>2, <3>1, <1>1, RowedKeeps
    <3> QED
      BY <3>1, <3>2 DEF Rowed
  <2>6. \A q \in rows' : Arrived(q, lastUlid', now')
    BY <1>2, <2>1, <2>4, <2>5
  <2>7. \A q \in rows' : \E j \in convs' : j.thread = q.thread
    BY <1>0, <2>4 DEF RowsOK
  <2>8. \A p, q \in rows' : p.ulid = q.ulid => p = q
    BY <1>0, <2>2, <2>4, <2>5 DEF RowsOK
  <2> QED
    BY <2>6, <2>7, <2>8 DEF RowsOK
<1> HIDE DEF IInv
<1> QED
  BY StoreSteps, <1>3, <1>4, <1>5, <1>6, <1>7, <1>8, <1>9

LEMMA ConvsNext ==
  ASSUME IInv, [Next]_vars
  PROVE  ConvsOK'
<1>0. NumbersOK /\ RowsOK /\ ConvsOK /\ MailOK
  BY DEF IInv
<1>1. lastUlid \in Nat /\ now \in Nat /\ now <= now' /\ now' \in Nat /\ lastConv \in Nat
  BY <1>0, NumbersAre, Grows
<1>2. (convs' = convs /\ lastConv' = lastConv) => ConvsOK'
  BY <1>0, <1>1 DEF ConvsOK
<1>3. Calm => convs' = convs /\ lastConv' = lastConv
  BY DEF Calm
<1>4. ASSUME NEW c, NEW m, Arrives(c, m) PROVE convs' = convs /\ lastConv' = lastConv
  BY <1>4 DEF Arrives, store
<1>5. ASSUME NEW ask, OpenList(ask) PROVE convs' = convs /\ lastConv' = lastConv
  BY <1>5 DEF OpenList, store
<1>6. NextPage \/ Tick => convs' = convs /\ lastConv' = lastConv
  BY DEF NextPage, Tick, store
<1>7. ASSUME NEW gone, Delete(gone) PROVE ConvsOK'
  <2>1. /\ convs' = {c \in convs : \E r \in rows \ gone : r.thread = c.thread}
        /\ lastConv' = lastConv /\ now' = now
    BY <1>7 DEF Delete
  <2>2. convs' \subseteq convs
    BY <2>1
  <2>3. IsFiniteSet(convs')
    BY <1>0, <2>2, FS_Subset DEF ConvsOK
  <2> QED
    BY <1>0, <2>1, <2>2, <2>3 DEF ConvsOK
<1>8. ASSUME NEW c \in Carriers, Commit(c) PROVE ConvsOK'
  <2> HIDE DEF IInv
  <2>1. /\ c \in Pending /\ now' = now
        /\ \E r, e : (\E d : Joins(mail[c], r, d, e)) \/ Opens(mail[c], r, e)
    BY <1>8, CommitIs
  <2>2. mail[c].created \in 0..now
    <3>1. Arrived(mail[c], lastUlid, now)
      BY <1>0, <2>1 DEF MailOK
    <3>2. mail[c].created \in Nat /\ mail[c].created <= now
      BY <3>1, RowIs DEF Arrived
    <3> QED
      BY <1>1, <3>2
  <2>3. PICK r, e : (\E d : Joins(mail[c], r, d, e)) \/ Opens(mail[c], r, e)
    BY <2>1
  <2>4. ASSUME NEW d, Joins(mail[c], r, d, e) PROVE ConvsOK'
    <3>1. /\ convs' = (convs \ {d}) \cup {e} /\ lastConv' = lastConv /\ d \in convs
          /\ e.thread = d.thread /\ e.activity = mail[c].created
          /\ e = [thread |-> e.thread, key |-> e.key, activity |-> e.activity]
      BY <2>4 DEF Joins
    <3>2. IsFiniteSet(convs')
      BY <1>0, <3>1, FS_Subset, FS_AddElement DEF ConvsOK
    <3>3. e.thread \in 1..lastConv /\ e.activity \in 0..now
      BY <1>0, <2>2, <3>1 DEF ConvsOK
    <3>4. \A j \in convs' : j = e \/ (j \in convs /\ j # d)
      BY <3>1
    <3>5. \A j, k \in convs' : j.thread = k.thread => j = k
      BY <1>0, <3>1, <3>4 DEF ConvsOK
    <3>6. \A j \in convs' : /\ j = [thread |-> j.thread, key |-> j.key, activity |-> j.activity]
                            /\ j.thread \in 1..lastConv /\ j.activity \in 0..now
      BY <1>0, <3>1, <3>3, <3>4 DEF ConvsOK
    <3> QED
      BY <2>1, <3>1, <3>2, <3>5, <3>6 DEF ConvsOK
  <2>5. ASSUME Opens(mail[c], r, e) PROVE ConvsOK'
    <3>1. /\ convs' = convs \cup {e} /\ lastConv' = lastConv + 1
          /\ e.thread = lastConv + 1 /\ e.activity = mail[c].created
          /\ e = [thread |-> e.thread, key |-> e.key, activity |-> e.activity]
      BY <2>5 DEF Opens
    <3>2. IsFiniteSet(convs')
      BY <1>0, <3>1, FS_AddElement DEF ConvsOK
    <3>3. e.thread \in 1..lastConv' /\ e.activity \in 0..now
      BY <1>1, <2>2, <3>1
    <3>4. \A j \in convs' : j = e \/ j \in convs
      BY <3>1
    <3>5. \A j \in convs : j.thread # e.thread /\ j.thread \in 1..lastConv'
      BY <1>0, <1>1, <3>1 DEF ConvsOK
    <3>6. \A j, k \in convs' : j.thread = k.thread => j = k
      BY <1>0, <3>4, <3>5 DEF ConvsOK
    <3>7. \A j \in convs' : /\ j = [thread |-> j.thread, key |-> j.key, activity |-> j.activity]
                            /\ j.thread \in 1..lastConv' /\ j.activity \in 0..now
      BY <1>0, <3>1, <3>3, <3>4, <3>5 DEF ConvsOK
    <3> QED
      BY <2>1, <3>2, <3>6, <3>7 DEF ConvsOK
  <2> QED
    BY <2>3, <2>4, <2>5
<1> HIDE DEF IInv
<1> QED
  BY StoreSteps, <1>2, <1>3, <1>4, <1>5, <1>6, <1>7, <1>8
-----------------------------------------------------------------------------
(* Messages on their way into the store *)

(* Nothing happens to them; one is not stored, or is already; *)
Rests == at' = at /\ mail' = mail /\ rows' \subseteq rows
Leaves(c) ==
  /\ \E v \in {"none", "stored", "failed"} : at' = [at EXCEPT ![c] = v]
  /\ mail' = mail \/ mail' = [mail EXCEPT ![c] = NoMail]
  /\ rows' = rows

LEMMA IngestSteps ==
  ASSUME IInv, [Next]_vars
  PROVE  \/ Rests
         \/ \E c \in Carriers : Leaves(c)
         \/ \E c \in Carriers : Commit(c)
         \/ \E c \in Carriers : \E m : Arrives(c, m) /\ (c \in Writers => m.via # "smtp")
<1> HIDE DEF IInv
<1>1. ASSUME NEW s \in Sessions,
             \/ Connect(s) \/ RcptTo(s) \/ Rset(s) \/ DataRefused(s) \/ HangUp(s)
             \/ \E l \in scene.letters : MailFrom(s, l)
      PROVE  Rests
  BY <1>1 DEF Rests, Connect, RcptTo, Rset, DataRefused, HangUp, MailFrom, store, ingest
<1>2. ASSUME NEW s \in Sessions, Answer(s)
      PROVE  s \in Carriers /\ Leaves(s)
  BY <1>2, Zenon DEF Leaves, Answer, store, Carriers
<1>3. ASSUME NEW w \in Writers, WriterDone(w)
      PROVE  w \in Carriers /\ Leaves(w)
  BY <1>3, Zenon DEF Leaves, WriterDone, store, Carriers
<1>4. ASSUME NEW c \in Carriers, IngestFails(c) \/ Announce(c)
      PROVE  Leaves(c)
  BY <1>4, Zenon DEF Leaves, IngestFails, Announce, store
<1>5. ASSUME NEW ask, OpenList(ask) PROVE Rests
  BY <1>5 DEF Rests, OpenList, store, ingest
<1>6. ASSUME NEW gone, Delete(gone) PROVE Rests
  BY <1>6 DEF Rests, Delete, ingest
<1>7. NextPage \/ Tick \/ UNCHANGED vars => Rests
  BY DEF Rests, NextPage, Tick, vars, store, ingest
<1>8. ASSUME NEW s \in Sessions, Taken(s)
      PROVE  \E c \in Carriers : \E m : Arrives(c, m) /\ (c \in Writers => m.via # "smtp")
  <2>1. s \in Carriers /\ s \notin Writers
    BY ExchangeAssumption DEF Carriers
  <2> QED
    BY <1>8, <2>1, Zenon DEF Taken
<1>9. ASSUME NEW w \in Writers, Filed(w)
      PROVE  \E c \in Carriers : \E m : Arrives(c, m) /\ (c \in Writers => m.via # "smtp")
  <2>1. w \in Carriers
    BY DEF Carriers
  <2> QED
    BY <1>9, <2>1, Zenon DEF Filed
<1> QED
  BY NextIs, <1>1, <1>2, <1>3, <1>4, <1>5, <1>6, <1>7, <1>8, <1>9, Zenon

(* What a step leaves of the pending messages. *)
LEMMA LeavesIs ==
  ASSUME MailOK, NEW c \in Carriers, Leaves(c)
  PROVE  /\ at' \in [Carriers -> {"none", "persist", "announce", "stored", "failed"}]
         /\ mail' = [d \in Carriers |-> mail'[d]]
         /\ Pending' \subseteq Pending /\ \A d \in Pending' : mail'[d] = mail[d]
<1>1. /\ at \in [Carriers -> {"none", "persist", "announce", "stored", "failed"}]
      /\ mail = [d \in Carriers |-> mail[d]]
  BY DEF MailOK
<1>2. PICK v \in {"none", "stored", "failed"} : at' = [at EXCEPT ![c] = v]
  BY DEF Leaves
<1>3. at' \in [Carriers -> {"none", "persist", "announce", "stored", "failed"}]
  BY <1>1, <1>2
<1>4. \A d \in Carriers : at'[d] = IF d = c THEN v ELSE at[d]
  BY <1>1, <1>2
<1>5. Pending' \subseteq Pending /\ c \notin Pending'
  BY <1>4 DEF Pending
<1>6. mail' = [d \in Carriers |-> mail'[d]] /\ \A d \in Carriers : d # c => mail'[d] = mail[d]
  <2>1. CASE mail' = mail
    BY <1>1, <2>1
  <2>2. CASE mail' = [mail EXCEPT ![c] = NoMail]
    BY <1>1, <2>2
  <2> QED
    BY <2>1, <2>2 DEF Leaves
<1> QED
  BY <1>3, <1>5, <1>6 DEF Pending

LEMMA CommitLeaves ==
  ASSUME MailOK, NEW c \in Carriers, c \in Pending,
         at' = [at EXCEPT ![c] = "announce"], mail' = mail
  PROVE  /\ at' \in [Carriers -> {"none", "persist", "announce", "stored", "failed"}]
         /\ Pending' = Pending \ {c}
<1>1. at \in [Carriers -> {"none", "persist", "announce", "stored", "failed"}]
  BY DEF MailOK
<1>2. \A d \in Carriers : at'[d] = IF d = c THEN "announce" ELSE at[d]
  BY <1>1
<1>3. at' \in [Carriers -> {"none", "persist", "announce", "stored", "failed"}]
  BY <1>1
<1> QED
  BY <1>2, <1>3 DEF Pending

LEMMA TakesIs ==
  ASSUME MailOK, NEW c \in Carriers, NEW m, Takes(c, m)
  PROVE  /\ at' \in [Carriers -> {"none", "persist", "announce", "stored", "failed"}]
         /\ mail' = [d \in Carriers |-> mail'[d]]
         /\ Pending' = Pending \cup {c} /\ c \notin Pending
         /\ mail'[c] = m /\ \A d \in Pending : mail'[d] = mail[d]
<1>1. /\ at \in [Carriers -> {"none", "persist", "announce", "stored", "failed"}]
      /\ mail = [d \in Carriers |-> mail[d]]
  BY DEF MailOK
<1>2. /\ at[c] = "none" /\ at' = [at EXCEPT ![c] = "persist"]
      /\ mail' = [mail EXCEPT ![c] = m]
  BY DEF Takes
<1>3. at' \in [Carriers -> {"none", "persist", "announce", "stored", "failed"}]
  BY <1>1, <1>2
<1>4. \A d \in Carriers : at'[d] = IF d = c THEN "persist" ELSE at[d]
  BY <1>1, <1>2
<1>5. /\ mail' = [d \in Carriers |-> mail'[d]] /\ mail'[c] = m
      /\ \A d \in Carriers : d # c => mail'[d] = mail[d]
  BY <1>1, <1>2
<1>6. Pending' = Pending \cup {c} /\ c \notin Pending
  BY <1>2, <1>4 DEF Pending
<1> QED
  BY <1>3, <1>5, <1>6 DEF Pending

LEMMA MailNext ==
  ASSUME IInv, [Next]_vars
  PROVE  MailOK'
<1>0. NumbersOK /\ RowsOK /\ MailOK
  BY DEF IInv
<1>1. lastUlid \in Nat /\ now \in Nat /\ lastUlid <= lastUlid' /\ now <= now'
        /\ lastUlid' \in Nat /\ now' \in Nat
  BY <1>0, NumbersAre, Grows
<1>2. \A c \in Pending :
        /\ Arrived(mail[c], lastUlid', now')
        /\ \A r \in rows : r.ulid # mail[c].ulid
        /\ \A d \in Pending : mail[c].ulid = mail[d].ulid => c = d
        /\ c \in Writers => mail[c].via # "smtp"
  <2>1. \A c \in Pending : Arrived(mail[c], lastUlid, now)
    BY <1>0 DEF MailOK
  <2>2. \A c \in Pending : Arrived(mail[c], lastUlid', now')
    BY <1>1, <2>1, ArrivedKept
  <2> QED
    BY <1>0, <2>2 DEF MailOK
<1>3. ASSUME /\ at' \in [Carriers -> {"none", "persist", "announce", "stored", "failed"}]
             /\ mail' = [c \in Carriers |-> mail'[c]]
             /\ Pending' \subseteq Pending /\ rows' \subseteq rows
             /\ \A c \in Pending' : mail'[c] = mail[c]
      PROVE  MailOK'
  BY <1>2, <1>3 DEF MailOK
<1>4. CASE Rests
  <2>1. /\ at' \in [Carriers -> {"none", "persist", "announce", "stored", "failed"}]
        /\ mail' = [c \in Carriers |-> mail'[c]]
    BY <1>0, <1>4 DEF MailOK, Rests
  <2>2. Pending' = Pending /\ \A c \in Pending' : mail'[c] = mail[c]
    BY <1>4 DEF Rests, Pending
  <2> QED
    BY <1>3, <1>4, <2>1, <2>2 DEF Rests
<1>5. ASSUME NEW c \in Carriers, Leaves(c) PROVE MailOK'
  <2>1. /\ at' \in [Carriers -> {"none", "persist", "announce", "stored", "failed"}]
        /\ mail' = [d \in Carriers |-> mail'[d]]
        /\ Pending' \subseteq Pending /\ \A d \in Pending' : mail'[d] = mail[d]
    BY <1>0, <1>5, LeavesIs
  <2> QED
    BY <1>3, <1>5, <2>1 DEF Leaves
<1>6. ASSUME NEW c \in Carriers, Commit(c) PROVE MailOK'
  <2> HIDE DEF IInv
  <2>1. /\ c \in Pending /\ at' = [at EXCEPT ![c] = "announce"] /\ mail' = mail
        /\ \E r, e : (\E d : Joins(mail[c], r, d, e)) \/ Opens(mail[c], r, e)
    BY <1>6, CommitIs
  <2>2. /\ at' \in [Carriers -> {"none", "persist", "announce", "stored", "failed"}]
        /\ Pending' = Pending \ {c}
    BY <1>0, <2>1, CommitLeaves
  <2>3. PICK r : rows' = rows \cup {r} /\ r.ulid = mail[c].ulid
    BY <2>1 DEF Joins, Opens, Rowed
  <2>4. \A d \in Pending \ {c} : \A q \in rows' : q.ulid # mail[d].ulid
    BY <1>2, <2>1, <2>3
  <2>5. mail' = [d \in Carriers |-> mail'[d]]
    BY <1>0, <2>1 DEF MailOK
  <2> QED
    BY <1>2, <2>1, <2>2, <2>4, <2>5 DEF MailOK
<1>7. ASSUME NEW c \in Carriers, NEW m, Arrives(c, m), c \in Writers => m.via # "smtp"
      PROVE  MailOK'
  <2>1. Takes(c, m) /\ rows' = rows /\ lastUlid' = lastUlid + 1 /\ now' = now
    BY <1>7 DEF Arrives, Takes, store
  <2>2. /\ at' \in [Carriers -> {"none", "persist", "announce", "stored", "failed"}]
        /\ mail' = [d \in Carriers |-> mail'[d]]
        /\ Pending' = Pending \cup {c} /\ c \notin Pending
        /\ mail'[c] = m /\ \A d \in Pending : mail'[d] = mail[d]
    BY <1>0, <2>1, TakesIs
  <2>3. m.ulid = lastUlid + 1 /\ Arrived(m, lastUlid', now')
    <3>1. m \in Row /\ m.ulid = lastUlid + 1 /\ m.created = now /\ m.line \subseteq 1..lastUlid
          /\ \A i \in DOMAIN m.bcc : m.bcc[i] # Nobody
      BY <1>7 DEF Arrives
    <3>2. m.ulid \in 1..lastUlid' /\ m.created <= now' /\ m.line \subseteq 1..lastUlid'
      BY <1>1, <2>1, <3>1
    <3> QED
      BY <3>1, <3>2 DEF Arrived
  <2>4. \A r \in rows : r.ulid # m.ulid
    <3>1. \A r \in rows : r.ulid \in 1..lastUlid
      BY <1>0 DEF RowsOK, Arrived
    <3> QED
      BY <1>1, <2>3, <3>1
  <2>5. \A d \in Pending : mail[d].ulid # m.ulid
    <3>1. \A d \in Pending : mail[d].ulid \in 1..lastUlid
      BY <1>0 DEF MailOK, Arrived
    <3> QED
      BY <1>1, <2>3, <3>1
  <2>6. ASSUME NEW d \in Pending'
        PROVE  /\ Arrived(mail'[d], lastUlid', now')
               /\ \A r \in rows' : r.ulid # mail'[d].ulid
               /\ d \in Writers => mail'[d].via # "smtp"
    BY <1>2, <1>7, <2>1, <2>2, <2>3, <2>4
  <2>7. ASSUME NEW d \in Pending', NEW k \in Pending', mail'[d].ulid = mail'[k].ulid PROVE d = k
    BY <1>2, <2>2, <2>5, <2>7
  <2> QED
    BY <2>2, <2>6, <2>7 DEF MailOK
<1> HIDE DEF IInv
<1> QED
  BY IngestSteps, <1>4, <1>5, <1>6, <1>7
-----------------------------------------------------------------------------
(* What a message owes to its author, and to its ancestors *)

LEMMA OwedNext ==
  ASSUME IInv, [Next]_vars
  PROVE  OwedOK'
<1>0. MailOK /\ OwedOK
  BY DEF IInv
<1>1. (rows' \subseteq rows /\ Pending' \subseteq Pending /\ \A c \in Pending' : mail'[c] = mail[c])
        => OwedOK'
  BY <1>0 DEF OwedOK
<1>2. CASE Rests
  <2>1. Pending' = Pending /\ \A c \in Pending' : mail'[c] = mail[c]
    BY <1>2 DEF Rests, Pending
  <2> QED
    BY <1>1, <1>2, <2>1 DEF Rests
<1>3. ASSUME NEW c \in Carriers, Leaves(c) PROVE OwedOK'
  <2>1. Pending' \subseteq Pending /\ \A d \in Pending' : mail'[d] = mail[d]
    BY <1>0, <1>3, LeavesIs
  <2> QED
    BY <1>1, <1>3, <2>1 DEF Leaves
<1>4. ASSUME NEW c \in Carriers, Commit(c) PROVE OwedOK'
  <2> HIDE DEF IInv
  <2>1. /\ c \in Pending /\ at' = [at EXCEPT ![c] = "announce"] /\ mail' = mail
        /\ \E r, e : (\E d : Joins(mail[c], r, d, e)) \/ Opens(mail[c], r, e)
    BY <1>4, CommitIs
  <2>2. Pending' = Pending \ {c}
    BY <1>0, <2>1, CommitLeaves
  <2>3. PICK r : rows' = rows \cup {r} /\ \E t : Rowed(r, mail[c], t)
    BY <2>1 DEF Joins, Opens
  <2>4. Owed(mail[c])
    BY <1>0, <2>1 DEF OwedOK
  <2>5. Owed(r)
    <3>1. /\ r.via = mail[c].via /\ r.told = mail[c].told /\ r.sender = mail[c].sender
          /\ r.rcpts = mail[c].rcpts /\ r.bcc = mail[c].bcc
      BY <2>3 DEF Rowed
    <3> QED
      BY <2>4, <3>1 DEF Owed, Own, Copies
  <2> QED
    BY <1>0, <2>1, <2>2, <2>3, <2>5 DEF OwedOK
<1>5. ASSUME NEW c \in Carriers, NEW m, Arrives(c, m) PROVE OwedOK'
  <2>1. Takes(c, m) /\ rows' = rows /\ Owed(m)
    BY <1>5 DEF Arrives, store
  <2>2. /\ Pending' = Pending \cup {c} /\ mail'[c] = m
        /\ \A d \in Pending : mail'[d] = mail[d]
    BY <1>0, <2>1, TakesIs
  <2> QED
    BY <1>0, <2>1, <2>2 DEF OwedOK
<1> HIDE DEF IInv
<1> QED
  BY IngestSteps, <1>2, <1>3, <1>4, <1>5

LEMMA LineageNext ==
  ASSUME IInv, [Next]_vars
  PROVE  LineageOK'
<1>0. RowsOK /\ MailOK /\ LineageOK /\ NumbersOK
  BY DEF IInv
<1>1. ASSUME rows' \subseteq rows, Pending' \subseteq Pending, \A c \in Pending' : mail'[c] = mail[c]
      PROVE  LineageOK'
  BY <1>0, <1>1 DEF LineageOK, Descends
<1>2. CASE Rests
  <2>1. Pending' = Pending /\ \A c \in Pending' : mail'[c] = mail[c]
    BY <1>2 DEF Rests, Pending
  <2> QED
    BY <1>1, <1>2, <2>1 DEF Rests
<1>3. ASSUME NEW c \in Carriers, Leaves(c) PROVE LineageOK'
  <2>1. Pending' \subseteq Pending /\ \A d \in Pending' : mail'[d] = mail[d]
    BY <1>0, <1>3, LeavesIs
  <2> QED
    BY <1>1, <1>3, <2>1 DEF Leaves
<1>4. ASSUME NEW c \in Carriers, Commit(c) PROVE LineageOK'
  <2> HIDE DEF IInv
  <2>1. /\ c \in Pending /\ at' = [at EXCEPT ![c] = "announce"] /\ mail' = mail
        /\ \E r, e : (\E d : Joins(mail[c], r, d, e)) \/ Opens(mail[c], r, e)
    BY <1>4, CommitIs
  <2>2. Pending' = Pending \ {c}
    BY <1>0, <2>1, CommitLeaves
  <2>3. PICK r : rows' = rows \cup {r} /\ \E t : Rowed(r, mail[c], t)
    BY <2>1 DEF Joins, Opens
  <2>4. r.ulid = mail[c].ulid /\ r.line = mail[c].line /\ r.references = mail[c].references
    BY <2>3 DEF Rowed
  <2>5. /\ \A q \in rows : r.ulid \notin q.line
        /\ \A d \in Pending : r.ulid \notin mail[d].line
        /\ r.ulid \notin r.line
    BY <1>0, <2>1, <2>4 DEF LineageOK
  <2>6. Descends(r, rows)
    BY <1>0, <2>1, <2>4 DEF LineageOK, Descends
  <2>7. \A q \in rows' : Descends(q, rows')
    BY <1>0, <2>3, <2>5, <2>6 DEF LineageOK, Descends
  <2>8. \A d \in Pending : Descends(mail[d], rows')
    BY <1>0, <2>3, <2>5 DEF LineageOK, Descends
  <2>9. \A q \in rows' : \A d \in Pending' : mail[d].ulid \notin q.line
    BY <1>0, <2>1, <2>2, <2>3, <2>4 DEF LineageOK
  <2>10. \A d, k \in Pending' : mail[k].ulid \notin mail[d].line
    BY <1>0, <2>2 DEF LineageOK
  <2> QED
    BY <2>1, <2>2, <2>7, <2>8, <2>9, <2>10 DEF LineageOK
<1>5. ASSUME NEW c \in Carriers, NEW m, Arrives(c, m) PROVE LineageOK'
  <2>1. /\ Takes(c, m) /\ rows' = rows /\ Descends(m, rows)
        /\ m.ulid = lastUlid + 1 /\ m.line \subseteq 1..lastUlid
        /\ \A d \in Pending : mail[d].ulid \notin m.line
    BY <1>5 DEF Arrives, store
  <2>2. /\ Pending' = Pending \cup {c} /\ mail'[c] = m
        /\ \A d \in Pending : mail'[d] = mail[d]
    BY <1>0, <2>1, TakesIs
  <2>3. lastUlid \in Nat /\ m.ulid \notin 1..lastUlid
    BY <1>0, <2>1, NumbersAre
  <2>4. \A q \in rows : m.ulid \notin q.line
    BY <1>0, <2>3 DEF RowsOK, Arrived
  <2>5. \A d \in Pending : m.ulid \notin mail[d].line
    BY <1>0, <2>3 DEF MailOK, Arrived
  <2>6. m.ulid \notin m.line
    BY <2>1, <2>3
  <2>7. \A q \in rows' : Descends(q, rows') /\ \A d \in Pending' : mail'[d].ulid \notin q.line
    BY <1>0, <2>1, <2>2, <2>4 DEF LineageOK
  <2>8. \A d \in Pending' : Descends(mail'[d], rows')
    BY <1>0, <2>1, <2>2 DEF LineageOK
  <2>9. \A d, k \in Pending' : mail'[k].ulid \notin mail'[d].line
    BY <1>0, <2>1, <2>2, <2>5, <2>6 DEF LineageOK
  <2> QED
    BY <2>7, <2>8, <2>9 DEF LineageOK
<1> HIDE DEF IInv
<1> QED
  BY IngestSteps, <1>2, <1>3, <1>4, <1>5
-----------------------------------------------------------------------------
(* The sessions *)

(* The session s becomes y. *)
Becomes(s, y) ==
  /\ session' = [session EXCEPT ![s] = y] /\ y \in SessionState
  /\ \A t \in Sessions : t # s => at'[t] = at[t] /\ mail'[t] = mail[t]

LEMMA SessionIs ==
  ASSUME SessionOK, NEW s \in Sessions
  PROVE  /\ session[s] \in SessionState
         /\ session[s].phase \in {"off", "open", "mail", "data"} /\ session[s].up \in BOOLEAN
         /\ session[s].rcpts \in Seq(Entry) /\ session[s].told \in Nat
         /\ session[s].from \in Entry
         /\ Orderly(session[s], at[s], mail[s], scene.letters)
<1>1. session[s] \in SessionState /\ Orderly(session[s], at[s], mail[s], scene.letters)
  <2> HIDE DEF SessionState, Orderly
  <2> QED
    BY DEF SessionOK
<1> HIDE DEF Entry, Posted, NoLetter, Orderly
<1> QED
  BY <1>1 DEF SessionState

(* What is left of a session after RSET, and after DATA was answered. *)
LEMMA ResetIs ==
  ASSUME NEW x \in SessionState
  PROVE  LET y == [Reset(x) EXCEPT !.phase = "open"]
         IN  /\ y \in SessionState /\ y.phase = "open" /\ y.up = x.up
             /\ y.rcpts = <<>> /\ y.letter = NoLetter
<1> DEFINE z == Reset(x)
           y == [z EXCEPT !.phase = "open"]
<1>1. Nobody \in Entry /\ <<>> \in Seq(Entry)
  BY DEF Nobody, Entry
<1>2. z = [x EXCEPT !.from = Nobody, !.rcpts = <<>>, !.letter = NoLetter, !.told = 0]
  BY DEF Reset
<1> HIDE DEF z, Entry, Posted, NoLetter, Nobody
<1>3. z \in SessionState /\ z.up = x.up /\ z.rcpts = <<>> /\ z.letter = NoLetter
  BY <1>1, <1>2 DEF SessionState
<1>4. y \in SessionState /\ y.phase = "open" /\ y.up = x.up
      /\ y.rcpts = <<>> /\ y.letter = NoLetter
  BY <1>3 DEF SessionState
<1> QED
  BY <1>4 DEF z

LEMMA OffIs ==
  /\ Off \in SessionState /\ Off.phase = "off" /\ ~Off.up /\ Off.rcpts = <<>> /\ Off.letter = NoLetter
  /\ LET y == [Off EXCEPT !.phase = "open", !.up = TRUE]
     IN  /\ y \in SessionState /\ y.phase = "open" /\ y.up /\ y.rcpts = <<>> /\ y.letter = NoLetter
<1>1. Nobody \in Entry /\ <<>> \in Seq(Entry)
  BY DEF Nobody, Entry
<1> HIDE DEF Entry, Posted, NoLetter, Nobody
<1>2. Off \in SessionState /\ Off.phase = "off" /\ ~Off.up /\ Off.rcpts = <<>> /\ Off.letter = NoLetter
  BY <1>1 DEF Off, SessionState
<1>3. LET y == [Off EXCEPT !.phase = "open", !.up = TRUE]
      IN  /\ y \in SessionState /\ y.phase = "open" /\ y.up /\ y.rcpts = <<>> /\ y.letter = NoLetter
  BY <1>1 DEF Off, SessionState
<1> QED
  BY <1>2, <1>3

LEMMA MailFromIs ==
  ASSUME NEW x \in SessionState, NEW l \in Posted
  PROVE  LET y == [x EXCEPT !.phase = "mail", !.from = l.from, !.letter = l, !.told = 0]
         IN  /\ y \in SessionState /\ y.phase = "mail" /\ y.up = x.up /\ y.from = l.from
             /\ y.rcpts = x.rcpts /\ y.letter = l /\ y.told = 0
<1> DEFINE y == [x EXCEPT !.phase = "mail", !.from = l.from, !.letter = l, !.told = 0]
<1>1. l.from \in Entry
  BY PostedIs
<1> HIDE DEF Entry, Posted, NoLetter
<1>2. y \in SessionState
  BY <1>1 DEF SessionState
<1>3. /\ y.phase = "mail" /\ y.up = x.up /\ y.from = l.from
      /\ y.rcpts = x.rcpts /\ y.letter = l /\ y.told = 0
  BY DEF SessionState
<1> HIDE DEF y
<1> QED
  BY <1>2, <1>3 DEF y

LEMMA RcptToIs ==
  ASSUME NEW x \in SessionState, NEW e \in Entry
  PROVE  LET y == [x EXCEPT !.rcpts = Append(@, e), !.told = @ + 1]
         IN  /\ y \in SessionState /\ y.phase = x.phase /\ y.up = x.up /\ y.from = x.from
             /\ y.rcpts = Append(x.rcpts, e) /\ y.letter = x.letter /\ y.told = x.told + 1
<1> DEFINE more == Append(x.rcpts, e)
           next == x.told + 1
           y == [x EXCEPT !.rcpts = more, !.told = next]
<1> HIDE DEF Entry, Posted, NoLetter
<1>1. more \in Seq(Entry) /\ next \in Nat
  BY AppendHolds DEF SessionState
<1>2. [x EXCEPT !.rcpts = Append(@, e), !.told = @ + 1] = y
  BY DEF SessionState
<1>3. y \in SessionState
  <2> HIDE DEF more, next
  <2> QED
    BY <1>1 DEF SessionState
<1>4. /\ y.phase = x.phase /\ y.up = x.up /\ y.from = x.from
      /\ y.rcpts = more /\ y.letter = x.letter /\ y.told = next
  <2> HIDE DEF more, next
  <2> QED
    BY DEF SessionState
<1> HIDE DEF y
<1> QED
  BY <1>2, <1>3, <1>4

LEMMA DataIs ==
  ASSUME NEW x \in SessionState
  PROVE  LET y == [x EXCEPT !.phase = "data"]
             z == [x EXCEPT !.up = FALSE]
         IN  /\ y \in SessionState /\ y.phase = "data" /\ y.up = x.up /\ y.from = x.from
             /\ y.rcpts = x.rcpts /\ y.letter = x.letter /\ y.told = x.told
             /\ z \in SessionState /\ z.phase = x.phase /\ ~z.up /\ z.from = x.from
             /\ z.rcpts = x.rcpts /\ z.letter = x.letter /\ z.told = x.told
<1> HIDE DEF Entry, Posted, NoLetter
<1> DEFINE y == [x EXCEPT !.phase = "data"]
           z == [x EXCEPT !.up = FALSE]
<1>1. /\ y \in SessionState /\ y.phase = "data" /\ y.up = x.up /\ y.from = x.from
      /\ y.rcpts = x.rcpts /\ y.letter = x.letter /\ y.told = x.told
  BY DEF SessionState
<1>2. /\ z \in SessionState /\ z.phase = x.phase /\ ~z.up /\ z.from = x.from
      /\ z.rcpts = x.rcpts /\ z.letter = x.letter /\ z.told = x.told
  BY DEF SessionState
<1> HIDE DEF y, z
<1> QED
  BY <1>1, <1>2 DEF y, z
(* The steps of a session: it has no letter any more, or the same, or a new one; *)
Drops(s, y) ==
  /\ Becomes(s, y) /\ at' = at /\ at[s] = "none" /\ sender' = sender /\ y.letter = NoLetter
Keeps(s, y) ==
  /\ Becomes(s, y) /\ session[s].phase = "mail" /\ sender' = sender
  /\ y.phase \in {"mail", "data"} /\ y.up = session[s].up /\ y.letter = session[s].letter
  /\ at[s] = "none" /\ at'[s] \in {"none", "persist"}
Starts(s, y, l) ==
  /\ Becomes(s, y) /\ at' = at /\ at[s] = "none" /\ sender' = sender
  /\ session[s].letter = NoLetter
  /\ l \in scene.letters /\ Due(l) /\ y.letter = l /\ y.up /\ y.phase = "mail"

(* its letter is refused or answered, or nobody is there any more to hear it.    *)
Refuses(s, y) ==
  /\ Becomes(s, y) /\ at' = at /\ at[s] = "none" /\ y.letter = NoLetter
  /\ session[s].phase = "mail"
  /\ sender' = [sender EXCEPT ![session[s].letter].heard = "552"]
Replies(s, y) ==
  /\ Becomes(s, y) /\ y.letter = NoLetter /\ at'[s] = "none"
  /\ session[s].phase = "data" /\ at[s] \in {"stored", "failed"}
  /\ sender' = IF session[s].up
               THEN [sender EXCEPT ![session[s].letter].heard =
                       IF at[s] = "stored" THEN "250" ELSE "451"]
               ELSE sender
Parts(s, y) ==
  /\ Becomes(s, y) /\ at' = at /\ session[s].phase = "data" /\ session[s].up
  /\ y.phase = "data" /\ ~y.up /\ y.letter = session[s].letter
  /\ sender' = [sender EXCEPT ![session[s].letter].lost = @ + 1]

LEMMA ConnectIs ==
  ASSUME SessionOK, NEW s \in Sessions, Connect(s)
  PROVE  \E y : Drops(s, y) /\ Orderly(y, at'[s], mail'[s], scene.letters)
<1> DEFINE x == session[s]
           y == [Off EXCEPT !.phase = "open", !.up = TRUE]
<1>1. Orderly(x, at[s], mail[s], scene.letters) /\ x.phase = "off"
  BY SessionIs DEF Connect
<1>2. /\ session' = [session EXCEPT ![s] = y]
      /\ at' = at /\ mail' = mail /\ sender' = sender
  BY Zenon DEF Connect, ingest, sending
<1>3. y \in SessionState /\ y.phase = "open" /\ y.up /\ y.rcpts = <<>> /\ y.letter = NoLetter
  BY OffIs
<1> HIDE DEF x, y, NoLetter
<1>4. at[s] = "none"
  BY <1>1 DEF Orderly, SessionOK
<1>5. Drops(s, y)
  BY <1>2, <1>3, <1>4 DEF Drops, Becomes
<1>6. Orderly(y, at'[s], mail'[s], scene.letters)
  BY <1>2, <1>3, <1>4 DEF Orderly
<1> QED
  BY <1>5, <1>6

LEMMA RsetIs ==
  ASSUME SessionOK, NEW s \in Sessions, Rset(s)
  PROVE  \E y : Drops(s, y) /\ Orderly(y, at'[s], mail'[s], scene.letters)
<1> DEFINE x == session[s]
           y == [Reset(x) EXCEPT !.phase = "open"]
<1>1. Orderly(x, at[s], mail[s], scene.letters) /\ x.phase = "mail" /\ x \in SessionState
  BY SessionIs DEF Rset
<1>2. /\ session' = [session EXCEPT ![s] = y]
      /\ at' = at /\ mail' = mail /\ sender' = sender
  <2>1. session' = [session EXCEPT ![s] = [Reset(@) EXCEPT !.phase = "open"]]
    BY Zenon DEF Rset
  <2>2. session' = [session EXCEPT ![s] = y]
    BY <2>1
  <2> QED
    BY <2>2 DEF Rset, ingest, sending
<1>3. y \in SessionState /\ y.phase = "open" /\ y.up = x.up /\ y.rcpts = <<>> /\ y.letter = NoLetter
  BY <1>1, ResetIs
<1> HIDE DEF x, y, NoLetter
<1>4. at[s] = "none" /\ x.up
  BY <1>1 DEF Orderly
<1>5. Drops(s, y)
  BY <1>2, <1>3, <1>4 DEF Drops, Becomes
<1>6. Orderly(y, at'[s], mail'[s], scene.letters)
  BY <1>2, <1>3, <1>4 DEF Orderly
<1> QED
  BY <1>5, <1>6

(* The envelope is the letter's, as far as it was told. *)
LEMMA RcptToKeeps ==
  ASSUME NumbersOK, SessionOK, NEW s \in Sessions, RcptTo(s)
  PROVE  \E y : Keeps(s, y) /\ Orderly(y, at'[s], mail'[s], scene.letters)
<1> DEFINE x == session[s]
           e == x.letter.rcpts[x.told + 1]
           y == [x EXCEPT !.rcpts = Append(@, e), !.told = @ + 1]
<1>1. /\ x \in SessionState /\ Orderly(x, at[s], mail[s], scene.letters)
      /\ x.phase = "mail" /\ x.told < Len(x.letter.rcpts)
      /\ x.rcpts \in Seq(Entry) /\ x.told \in Nat
  BY SessionIs DEF RcptTo
<1>2. /\ session' = [session EXCEPT ![s] = y]
      /\ at' = at /\ mail' = mail /\ sender' = sender
  <2>1. session' = [session EXCEPT ![s].rcpts = Append(@, e), ![s].told = @ + 1]
    BY Zenon DEF RcptTo
  <2>2. session \in [Sessions -> SessionState]
    BY DEF SessionOK
  <2> HIDE DEF e, SessionState
  <2>3. session' = [session EXCEPT ![s] = y]
    BY <1>1, <2>1, <2>2
  <2> QED
    BY <2>3 DEF RcptTo, ingest, sending
<1>3. Mid(x, scene.letters) /\ x.up /\ at[s] = "none"
  BY <1>1 DEF Orderly
<1>4. x.letter \in Posted /\ x.letter.rcpts \in Seq(Entry)
  BY <1>3, SceneIs, PostedIs DEF Mid
<1>5. e \in Entry
  <2>1. x.told + 1 \in 1..Len(x.letter.rcpts)
    BY <1>1, <1>4
  <2> HIDE DEF Entry
  <2> QED
    BY <1>4, <2>1
<1>6. /\ y \in SessionState /\ y.phase = x.phase /\ y.up = x.up /\ y.from = x.from
      /\ y.rcpts = Append(x.rcpts, e) /\ y.letter = x.letter /\ y.told = x.told + 1
  <2> HIDE DEF e, x
  <2> QED
    BY <1>1, <1>5, RcptToIs
<1> HIDE DEF x, y, NoLetter
<1>7. Mid(y, scene.letters)
  <2>1. /\ Len(y.rcpts) = x.told + 1 /\ y.rcpts[x.told + 1] = e
        /\ \A i \in 1..x.told : y.rcpts[i] = x.rcpts[i]
    <3> HIDE DEF e, Entry
    <3> QED
      BY <1>1, <1>3, <1>5, <1>6 DEF Mid
  <2>2. y.told = Len(y.rcpts) /\ y.told <= Len(y.letter.rcpts)
    <3> HIDE DEF Entry
    <3> QED
      BY <1>1, <1>4, <1>6, <2>1
  <2>3. ASSUME NEW i \in 1..y.told PROVE y.rcpts[i] = y.letter.rcpts[i]
    <3>1. i \in 1..x.told \/ i = x.told + 1
      BY <1>1, <1>6
    <3> QED
      BY <1>3, <1>6, <2>1, <3>1 DEF Mid, e
  <2> QED
    BY <1>3, <1>6, <2>2, <2>3 DEF Mid
<1>8. Keeps(s, y)
  BY <1>1, <1>2, <1>3, <1>6 DEF Keeps, Becomes, x
<1>9. Orderly(y, at'[s], mail'[s], scene.letters)
  BY <1>1, <1>2, <1>3, <1>6, <1>7 DEF Orderly
<1> QED
  BY <1>8, <1>9
LEMMA TakenKeeps ==
  ASSUME SessionOK, MailOK, NEW s \in Sessions, Taken(s)
  PROVE  \E y : Keeps(s, y) /\ Orderly(y, at'[s], mail'[s], scene.letters)
<1> DEFINE x == session[s]
           y == [x EXCEPT !.phase = "data"]
<1>1. /\ x \in SessionState /\ Orderly(x, at[s], mail[s], scene.letters)
  BY SessionIs
<1>2. PICK m : /\ Arrives(s, m) /\ m.via = "smtp" /\ m.told = x.letter
               /\ x.phase = "mail"
               /\ session' = [session EXCEPT ![s].phase = "data"]
  BY DEF Taken
<1>3. session' = [session EXCEPT ![s] = y]
  <2>1. session \in [Sessions -> SessionState]
    BY DEF SessionOK
  <2> HIDE DEF SessionState
  <2> QED
    BY <1>2, <2>1
<1>4. /\ y \in SessionState /\ y.phase = "data" /\ y.up = x.up /\ y.from = x.from
      /\ y.rcpts = x.rcpts /\ y.letter = x.letter /\ y.told = x.told
  <2> HIDE DEF x
  <2> QED
    BY <1>1, DataIs
<1> HIDE DEF x, y, NoLetter
<1>5. Takes(s, m) /\ sender' = sender
  BY <1>2 DEF Arrives, sending
<1>6. /\ at[s] = "none" /\ at'[s] = "persist" /\ mail'[s] = m
      /\ \A t \in Sessions : t # s => at'[t] = at[t] /\ mail'[t] = mail[t]
  <2>1. s \in Carriers /\ \A t \in Sessions : t \in Carriers
    BY DEF Carriers
  <2>2. at \in [Carriers -> {"none", "persist", "announce", "stored", "failed"}]
        /\ mail = [c \in Carriers |-> mail[c]]
    BY DEF MailOK
  <2>3. at[s] = "none" /\ at' = [at EXCEPT ![s] = "persist"] /\ mail' = [mail EXCEPT ![s] = m]
    BY <1>5 DEF Takes
  <2> QED
    BY <2>1, <2>2, <2>3
<1>7. Keeps(s, y)
  BY <1>2, <1>3, <1>4, <1>5, <1>6 DEF Keeps, Becomes, x
<1>8. Orderly(y, at'[s], mail'[s], scene.letters)
  <2>1. Mid(x, scene.letters)
    BY <1>1, <1>2 DEF Orderly
  <2>2. Mid(y, scene.letters)
    BY <1>4, <2>1 DEF Mid
  <2> QED
    BY <1>2, <1>4, <1>6, <2>2 DEF Orderly
<1> QED
  BY <1>7, <1>8

LEMMA MailFromStarts ==
  ASSUME NumbersOK, SessionOK, NEW s \in Sessions, NEW l \in scene.letters, MailFrom(s, l)
  PROVE  \E y : Starts(s, y, l) /\ Orderly(y, at'[s], mail'[s], scene.letters)
<1> DEFINE x == session[s]
           y == [x EXCEPT !.phase = "mail", !.from = l.from, !.letter = l, !.told = 0]
<1>1. /\ x \in SessionState /\ Orderly(x, at[s], mail[s], scene.letters)
      /\ x.phase = "open" /\ Due(l)
  BY SessionIs DEF MailFrom
<1>2. l \in Posted /\ l.rcpts \in Seq(Entry)
  BY SceneIs, PostedIs
<1>3. /\ session' = [session EXCEPT ![s] = y]
      /\ at' = at /\ mail' = mail /\ sender' = sender
  <2>1. session' = [session EXCEPT ![s].phase = "mail", ![s].from = l.from, ![s].letter = l,
                                   ![s].told = 0]
    BY Zenon DEF MailFrom
  <2>2. session \in [Sessions -> SessionState]
    BY DEF SessionOK
  <2> HIDE DEF SessionState
  <2>3. session' = [session EXCEPT ![s] = y]
    BY <2>1, <2>2
  <2> QED
    BY <2>3 DEF MailFrom, ingest
<1>4. /\ y \in SessionState /\ y.phase = "mail" /\ y.up = x.up /\ y.from = l.from
      /\ y.rcpts = x.rcpts /\ y.letter = l /\ y.told = 0
  <2> HIDE DEF x
  <2> QED
    BY <1>1, <1>2, MailFromIs
<1> HIDE DEF x, y, NoLetter
<1>5. x.rcpts = <<>> /\ x.letter = NoLetter /\ x.up /\ at[s] = "none"
  BY <1>1 DEF Orderly
<1>6. Mid(y, scene.letters)
  <2>1. Len(<<>>) = 0 /\ 1..0 = {} /\ Len(l.rcpts) \in Nat
    <3> HIDE DEF Entry
    <3> QED
      BY <1>2
  <2> QED
    BY <1>4, <1>5, <2>1 DEF Mid
<1>7. Starts(s, y, l)
  BY <1>1, <1>3, <1>4, <1>5 DEF Starts, Becomes, x
<1>8. Orderly(y, at'[s], mail'[s], scene.letters)
  BY <1>3, <1>4, <1>5, <1>6 DEF Orderly
<1> QED
  BY <1>7, <1>8

LEMMA DataRefusedIs ==
  ASSUME SessionOK, NEW s \in Sessions, DataRefused(s)
  PROVE  \E y : Refuses(s, y) /\ Orderly(y, at'[s], mail'[s], scene.letters)
<1> DEFINE x == session[s]
           y == [Reset(x) EXCEPT !.phase = "open"]
<1>1. Orderly(x, at[s], mail[s], scene.letters) /\ x.phase = "mail" /\ x \in SessionState
  BY SessionIs DEF DataRefused
<1>2. /\ session' = [session EXCEPT ![s] = y]
      /\ at' = at /\ mail' = mail
      /\ sender' = [sender EXCEPT ![x.letter].heard = "552"]
  <2>1. session' = [session EXCEPT ![s] = [Reset(@) EXCEPT !.phase = "open"]]
    BY Zenon DEF DataRefused
  <2>2. session' = [session EXCEPT ![s] = y]
    BY <2>1
  <2> QED
    BY <2>2 DEF DataRefused, ingest
<1>3. y \in SessionState /\ y.phase = "open" /\ y.up = x.up /\ y.rcpts = <<>> /\ y.letter = NoLetter
  BY <1>1, ResetIs
<1> HIDE DEF x, y, NoLetter
<1>4. at[s] = "none" /\ x.up
  BY <1>1 DEF Orderly
<1>5. Refuses(s, y)
  BY <1>1, <1>2, <1>3, <1>4 DEF Refuses, Becomes, x
<1>6. Orderly(y, at'[s], mail'[s], scene.letters)
  BY <1>2, <1>3, <1>4 DEF Orderly
<1> QED
  BY <1>5, <1>6

LEMMA AnswerIs ==
  ASSUME SessionOK, MailOK, NEW s \in Sessions, Answer(s)
  PROVE  \E y : Replies(s, y) /\ Orderly(y, at'[s], mail'[s], scene.letters)
<1> DEFINE x == session[s]
           z == [Reset(x) EXCEPT !.phase = "open"]
           y == IF x.up THEN z ELSE Off
<1>1. Orderly(x, at[s], mail[s], scene.letters) /\ at[s] \in {"stored", "failed"} /\ x \in SessionState
  BY SessionIs DEF Answer
<1>2. /\ session' = [session EXCEPT ![s] = y]
      /\ sender' = (IF x.up THEN [sender EXCEPT ![x.letter].heard =
                                    IF at[s] = "stored" THEN "250" ELSE "451"] ELSE sender)
  <2>1. session' = [session EXCEPT ![s] = IF x.up THEN [Reset(@) EXCEPT !.phase = "open"] ELSE Off]
    BY Zenon DEF Answer
  <2>2. session' = [session EXCEPT ![s] = y]
    BY <2>1
  <2>3. sender' = (IF x.up THEN [sender EXCEPT ![x.letter].heard =
                                    IF at[s] = "stored" THEN "250" ELSE "451"] ELSE sender)
    BY Zenon DEF Answer
  <2> QED
    BY <2>2, <2>3
<1>3. z \in SessionState /\ z.phase = "open" /\ z.up = x.up /\ z.rcpts = <<>> /\ z.letter = NoLetter
  BY <1>1, ResetIs
<1>4. Off \in SessionState /\ Off.phase = "off" /\ ~Off.up /\ Off.rcpts = <<>> /\ Off.letter = NoLetter
  BY OffIs
<1> HIDE DEF x, z, NoLetter, Off
<1>5. /\ y \in SessionState /\ y.rcpts = <<>> /\ y.letter = NoLetter
      /\ \/ y.phase = "open" /\ y.up
         \/ y.phase = "off" /\ ~y.up
  BY <1>3, <1>4
<1> HIDE DEF y
<1>6. /\ at'[s] = "none"
      /\ \A t \in Sessions : t # s => at'[t] = at[t] /\ mail'[t] = mail[t]
  <2>1. s \in Carriers /\ \A t \in Sessions : t \in Carriers
    BY DEF Carriers
  <2>2. at \in [Carriers -> {"none", "persist", "announce", "stored", "failed"}]
        /\ mail = [c \in Carriers |-> mail[c]]
    BY DEF MailOK
  <2>3. at' = [at EXCEPT ![s] = "none"] /\ mail' = [mail EXCEPT ![s] = NoMail]
    BY Zenon DEF Answer
  <2> QED
    BY <2>1, <2>2, <2>3
<1>7. x.phase = "data"
  <2>1. at[s] # "none"
    BY <1>1
  <2> QED
    BY <1>1, <2>1 DEF Orderly
<1>8. Replies(s, y)
  BY <1>1, <1>2, <1>5, <1>6, <1>7 DEF Replies, Becomes, x
<1>9. Orderly(y, at'[s], mail'[s], scene.letters)
  BY <1>5, <1>6 DEF Orderly
<1> QED
  BY <1>8, <1>9

LEMMA HangUpIs ==
  ASSUME SessionOK, NEW s \in Sessions, HangUp(s)
  PROVE  \E y : (Drops(s, y) \/ Parts(s, y)) /\ Orderly(y, at'[s], mail'[s], scene.letters)
<1> DEFINE x == session[s]
           z == [x EXCEPT !.up = FALSE]
<1>1. Orderly(x, at[s], mail[s], scene.letters) /\ x.up /\ x \in SessionState
  BY SessionIs DEF HangUp
<1>2. /\ session' = [session EXCEPT ![s] = IF x.phase = "data" THEN z ELSE Off]
      /\ sender' = (IF x.phase = "data" THEN [sender EXCEPT ![x.letter].lost = @ + 1] ELSE sender)
      /\ at' = at /\ mail' = mail
  <2>1. session' = [session EXCEPT ![s] = IF x.phase = "data" THEN [@ EXCEPT !.up = FALSE] ELSE Off]
    BY Zenon DEF HangUp
  <2>2. session' = [session EXCEPT ![s] = IF x.phase = "data" THEN z ELSE Off]
    BY <2>1
  <2>3. sender' = (IF x.phase = "data" THEN [sender EXCEPT ![x.letter].lost = @ + 1] ELSE sender)
    BY Zenon DEF HangUp
  <2> QED
    BY <2>2, <2>3 DEF HangUp, ingest
<1>3. /\ z \in SessionState /\ z.phase = x.phase /\ ~z.up /\ z.from = x.from
      /\ z.rcpts = x.rcpts /\ z.letter = x.letter /\ z.told = x.told
  <2> HIDE DEF x
  <2> QED
    BY <1>1, DataIs
<1>4. Off \in SessionState /\ Off.phase = "off" /\ ~Off.up /\ Off.rcpts = <<>> /\ Off.letter = NoLetter
  BY OffIs
<1> HIDE DEF x, z, NoLetter, Off
<1>5. CASE x.phase = "data"
  <2>1. Parts(s, z)
    BY <1>1, <1>2, <1>3, <1>5 DEF Parts, Becomes, x
  <2>2. Mid(z, scene.letters)
    BY <1>1, <1>3, <1>5 DEF Orderly, Mid
  <2>3. Orderly(z, at'[s], mail'[s], scene.letters)
    BY <1>1, <1>2, <1>3, <1>5, <2>2 DEF Orderly
  <2> QED
    BY <2>1, <2>3
<1>6. CASE x.phase # "data"
  <2>1. at[s] = "none"
    BY <1>1, <1>6 DEF Orderly
  <2>2. Drops(s, Off)
    BY <1>2, <1>4, <1>6, <2>1 DEF Drops, Becomes
  <2>3. Orderly(Off, at'[s], mail'[s], scene.letters)
    BY <1>2, <1>4, <2>1 DEF Orderly
  <2> QED
    BY <2>2, <2>3
<1> QED
  BY <1>5, <1>6
(* The session is not concerned, or its message moves on. *)
Aside ==
  /\ session' = session /\ sender' = sender
  /\ \A s \in Sessions : at'[s] = at[s] /\ mail'[s] = mail[s]
Moves(c, before, after) ==
  /\ session' = session /\ mail' = mail
  /\ at[c] = before /\ at' = [at EXCEPT ![c] = after]

LEMMA SessionSteps ==
  ASSUME IInv, [Next]_vars
  PROVE  \/ Aside
         \/ \E s \in Sessions : \E y :
              /\ Orderly(y, at'[s], mail'[s], scene.letters)
              /\ \/ Drops(s, y) \/ Keeps(s, y) \/ Refuses(s, y) \/ Replies(s, y) \/ Parts(s, y)
                 \/ \E l : Starts(s, y, l)
         \/ \E c \in Carriers : \/ Moves(c, "persist", "failed") /\ sender' = sender
                                \/ Moves(c, "announce", "stored") /\ sender' = sender
                                \/ Commit(c)
<1>0. NumbersOK /\ MailOK /\ SessionOK
  BY DEF IInv
<1> HIDE DEF IInv
<1>1. ASSUME NEW s \in Sessions,
             \/ Connect(s) \/ RcptTo(s) \/ Rset(s) \/ DataRefused(s) \/ Answer(s) \/ HangUp(s)
             \/ \E l \in scene.letters : MailFrom(s, l)
             \/ Taken(s)
      PROVE  \E y : /\ Orderly(y, at'[s], mail'[s], scene.letters)
                    /\ \/ Drops(s, y) \/ Keeps(s, y) \/ Refuses(s, y) \/ Replies(s, y)
                       \/ Parts(s, y) \/ \E l : Starts(s, y, l)
  BY <1>0, <1>1, ConnectIs, RcptToKeeps, RsetIs, DataRefusedIs, AnswerIs, HangUpIs, MailFromStarts,
     TakenKeeps, Zenon
<1>2. ASSUME NEW w \in Writers, WriterDone(w) PROVE Aside
  <2>1. session' = session /\ sender' = sender
    BY <1>2 DEF WriterDone, sending
  <2>2. at' = [at EXCEPT ![w] = "none"] /\ mail' = [mail EXCEPT ![w] = NoMail]
    BY <1>2, Zenon DEF WriterDone
  <2>3. \A s \in Sessions : s # w /\ s \in Carriers
    BY ExchangeAssumption DEF Carriers
  <2>4. at \in [Carriers -> {"none", "persist", "announce", "stored", "failed"}]
        /\ mail = [c \in Carriers |-> mail[c]]
    BY <1>0 DEF MailOK
  <2>5. \A s \in Sessions : at'[s] = at[s] /\ mail'[s] = mail[s]
    BY <2>2, <2>3, <2>4
  <2> QED
    BY <2>1, <2>5 DEF Aside
<1>3. ASSUME NEW w \in Writers, Filed(w) PROVE Aside
  <2>1. PICK m : Arrives(w, m) /\ session' = session
    BY <1>3 DEF Filed
  <2>2. Takes(w, m) /\ sender' = sender
    BY <2>1 DEF Arrives, sending
  <2>3. \A s \in Sessions : s # w /\ s \in Carriers
    BY ExchangeAssumption DEF Carriers
  <2>4. at \in [Carriers -> {"none", "persist", "announce", "stored", "failed"}]
        /\ mail = [c \in Carriers |-> mail[c]]
    BY <1>0 DEF MailOK
  <2>5. at' = [at EXCEPT ![w] = "persist"] /\ mail' = [mail EXCEPT ![w] = m]
    BY <2>2 DEF Takes
  <2>6. \A s \in Sessions : at'[s] = at[s] /\ mail'[s] = mail[s]
    BY <2>3, <2>4, <2>5
  <2> QED
    BY <2>1, <2>2, <2>6 DEF Aside
<1>4. ASSUME NEW c \in Carriers, IngestFails(c)
      PROVE  Moves(c, "persist", "failed") /\ sender' = sender
  BY <1>4, Zenon DEF IngestFails, Moves, sending
<1>5. ASSUME NEW c \in Carriers, Announce(c)
      PROVE  Moves(c, "announce", "stored") /\ sender' = sender
  BY <1>5, Zenon DEF Announce, Moves, sending
<1>6. ASSUME NEW ask, OpenList(ask) PROVE Aside
  BY <1>6 DEF OpenList, Aside, ingest, sending
<1>7. ASSUME NEW gone, Delete(gone) PROVE Aside
  BY <1>7 DEF Delete, Aside, ingest, sending
<1>8. NextPage \/ Tick \/ UNCHANGED vars => Aside
  BY DEF NextPage, Tick, vars, Aside, ingest, sending
<1> QED
  BY NextIs, <1>1, <1>2, <1>3, <1>4, <1>5, <1>6, <1>7, <1>8, Zenon

(* A message that moves on in Ingest is still one of its session. *)
LEMMA MovesIs ==
  ASSUME MailOK, SessionOK, NEW c \in Carriers, NEW before, NEW after,
         Moves(c, before, after), before # "none", after \notin {"none", "persist"}
  PROVE  \A s \in Sessions : /\ at'[s] = IF s = c THEN after ELSE at[s]
                             /\ Orderly(session[s], at'[s], mail'[s], scene.letters)
<1> SUFFICES ASSUME NEW s \in Sessions
             PROVE  /\ at'[s] = IF s = c THEN after ELSE at[s]
                    /\ Orderly(session[s], at'[s], mail'[s], scene.letters)
  OBVIOUS
<1>1. at \in [Carriers -> {"none", "persist", "announce", "stored", "failed"}]
  BY DEF MailOK
<1>2. s \in Carriers
  BY DEF Carriers
<1>3. at'[s] = IF s = c THEN after ELSE at[s]
  BY <1>1, <1>2 DEF Moves
<1>4. Orderly(session[s], at[s], mail[s], scene.letters)
  BY SessionIs
<1>5. (at'[s] # "none" <=> at[s] # "none") /\ (at'[s] = "persist" => at[s] = "persist")
        /\ mail' = mail
  BY <1>3 DEF Moves
<1> QED
  BY <1>3, <1>4, <1>5 DEF Orderly

LEMMA CommitMoves ==
  ASSUME IInv, NEW c \in Carriers, Commit(c)
  PROVE  Moves(c, "persist", "announce")
<1> HIDE DEF IInv
<1> QED
  BY CommitIs DEF Moves, Pending

LEMMA SessionNext ==
  ASSUME IInv, [Next]_vars
  PROVE  SessionOK'
<1>0. NumbersOK /\ MailOK /\ SessionOK /\ scene' = scene
  BY Grows DEF IInv
<1>1. \A s \in Sessions : Orderly(session[s], at[s], mail[s], scene.letters)
  BY <1>0 DEF SessionOK
<1>2. session \in [Sessions -> SessionState]
  BY <1>0 DEF SessionOK
<1> HIDE DEF SessionState, Orderly
<1>3. CASE Aside
  BY <1>0, <1>1, <1>2, <1>3 DEF SessionOK, Aside
<1>4. ASSUME NEW s \in Sessions, NEW y,
             Orderly(y, at'[s], mail'[s], scene.letters), Becomes(s, y)
      PROVE  SessionOK'
  <2>1. session' \in [Sessions -> SessionState]
    BY <1>2, <1>4 DEF Becomes
  <2>2. ASSUME NEW t \in Sessions PROVE Orderly(session'[t], at'[t], mail'[t], scene.letters)
    BY <1>1, <1>2, <1>4 DEF Becomes
  <2> QED
    BY <1>0, <2>1, <2>2 DEF SessionOK
<1>5. ASSUME NEW c \in Carriers, NEW before, NEW after,
             Moves(c, before, after), before # "none", after \notin {"none", "persist"}
      PROVE  SessionOK'
  <2>1. \A s \in Sessions : Orderly(session[s], at'[s], mail'[s], scene.letters)
    BY <1>0, <1>5, MovesIs
  <2> QED
    BY <1>0, <1>2, <1>5, <2>1 DEF SessionOK, Moves
<1>6. ASSUME NEW s, NEW y,
             \/ Drops(s, y) \/ Keeps(s, y) \/ Refuses(s, y) \/ Replies(s, y) \/ Parts(s, y)
             \/ \E l : Starts(s, y, l)
      PROVE  Becomes(s, y)
  BY <1>6 DEF Drops, Keeps, Refuses, Replies, Parts, Starts
<1>7. ASSUME NEW c \in Carriers,
             \/ Moves(c, "persist", "failed") \/ Moves(c, "announce", "stored") \/ Commit(c)
      PROVE  SessionOK'
  <2>1. CASE Moves(c, "persist", "failed")
    BY <1>5, <2>1
  <2>2. CASE Moves(c, "announce", "stored")
    BY <1>5, <2>2
  <2>3. CASE Commit(c)
    <3>1. Moves(c, "persist", "announce")
      BY <2>3, CommitMoves
    <3> QED
      BY <1>5, <3>1
  <2> QED
    BY <1>7, <2>1, <2>2, <2>3
<1> HIDE DEF IInv, SessionOK
<1> QED
  BY SessionSteps, <1>3, <1>4, <1>6, <1>7, Zenon
-----------------------------------------------------------------------------
(* Answers and copies *)

(* Two sets that differ in one element at most. *)
LEMMA OneMoves ==
  ASSUME NEW A, IsFiniteSet(A), NEW B, NEW s, A \ {s} = B \ {s}
  PROVE  /\ Cardinality(A) \in Nat /\ Cardinality(B) \in Nat
         /\ s \in A /\ s \in B => Cardinality(B) = Cardinality(A)
         /\ s \notin A /\ s \notin B => Cardinality(B) = Cardinality(A)
         /\ s \notin A /\ s \in B => Cardinality(B) = Cardinality(A) + 1
         /\ s \in A /\ s \notin B => Cardinality(A) = Cardinality(B) + 1
<1> DEFINE C == A \ {s}
<1>1. IsFiniteSet(C) /\ s \notin C
  BY FS_RemoveElement
<1>2. Cardinality(C) \in Nat /\ IsFiniteSet(C \cup {s}) /\ Cardinality(C \cup {s}) = Cardinality(C) + 1
  <2> HIDE DEF C
  <2> QED
    BY <1>1, FS_AddElement, FS_CardinalityType
<1>3. (A = C \/ A = C \cup {s}) /\ (B = C \/ B = C \cup {s})
  OBVIOUS
<1>4. (s \in A => A = C \cup {s}) /\ (s \notin A => A = C)
      /\ (s \in B => B = C \cup {s}) /\ (s \notin B => B = C)
  OBVIOUS
<1> HIDE DEF C
<1> QED
  BY <1>2, <1>4

(* One session does something; how many wait for an answer changes by it alone. *)
LEMMA WaitingIs ==
  ASSUME NEW l, NEW s, \A t \in Sessions : t # s => session'[t] = session[t] /\ at'[t] = at[t]
  PROVE  /\ Cardinality(Underway(l)) \in Nat /\ Cardinality(Underway(l)') \in Nat
         /\ Cardinality(Unheard(l)) \in Nat /\ Cardinality(Unheard(l)') \in Nat
         /\ s \in Underway(l) /\ s \in Underway(l)' => Cardinality(Underway(l)') = Cardinality(Underway(l))
         /\ s \notin Underway(l) /\ s \notin Underway(l)' =>
              Cardinality(Underway(l)') = Cardinality(Underway(l))
         /\ s \notin Underway(l) /\ s \in Underway(l)' =>
              Cardinality(Underway(l)') = Cardinality(Underway(l)) + 1
         /\ s \in Underway(l) /\ s \notin Underway(l)' =>
              Cardinality(Underway(l)) = Cardinality(Underway(l)') + 1
         /\ s \in Unheard(l) /\ s \in Unheard(l)' => Cardinality(Unheard(l)') = Cardinality(Unheard(l))
         /\ s \notin Unheard(l) /\ s \notin Unheard(l)' =>
              Cardinality(Unheard(l)') = Cardinality(Unheard(l))
         /\ s \notin Unheard(l) /\ s \in Unheard(l)' =>
              Cardinality(Unheard(l)') = Cardinality(Unheard(l)) + 1
         /\ s \in Unheard(l) /\ s \notin Unheard(l)' =>
              Cardinality(Unheard(l)) = Cardinality(Unheard(l)') + 1
<1> DEFINE a == Underway(l)
           b == Underway(l)'
           c == Unheard(l)
           d == Unheard(l)'
<1>1. a \ {s} = b \ {s}
  BY DEF Underway
<1>2. c \ {s} = d \ {s}
  BY DEF Unheard
<1>3. IsFiniteSet(a) /\ IsFiniteSet(c)
  <2>1. a \subseteq Sessions /\ c \subseteq Sessions /\ IsFiniteSet(Sessions)
    BY ExchangeAssumption DEF Underway, Unheard
  <2> HIDE DEF a, c
  <2> QED
    BY <2>1, FS_Subset
<1> HIDE DEF a, b, c, d
<1>4. /\ Cardinality(a) \in Nat /\ Cardinality(b) \in Nat
      /\ s \in a /\ s \in b => Cardinality(b) = Cardinality(a)
      /\ s \notin a /\ s \notin b => Cardinality(b) = Cardinality(a)
      /\ s \notin a /\ s \in b => Cardinality(b) = Cardinality(a) + 1
      /\ s \in a /\ s \notin b => Cardinality(a) = Cardinality(b) + 1
  BY <1>1, <1>3, OneMoves
<1>5. /\ Cardinality(c) \in Nat /\ Cardinality(d) \in Nat
      /\ s \in c /\ s \in d => Cardinality(d) = Cardinality(c)
      /\ s \notin c /\ s \notin d => Cardinality(d) = Cardinality(c)
      /\ s \notin c /\ s \in d => Cardinality(d) = Cardinality(c) + 1
      /\ s \in c /\ s \notin d => Cardinality(c) = Cardinality(d) + 1
  BY <1>2, <1>3, OneMoves
<1> QED
  BY <1>4, <1>5 DEF a, b, c, d

(* What one session does to the account of a letter. *)
LEMMA SquareAfter ==
  ASSUME NEW l, Square(l), NEW s \in Sessions,
         \A t \in Sessions : t # s => session'[t] = session[t] /\ at'[t] = at[t],
         sender[l].lost \in Nat, sender[l].kept \in Nat,
         sender'[l].lost \in Nat, sender'[l].kept \in Nat,
         sender'[l].kept + Once(s \in Unheard(l)') + sender[l].lost
             + Once(sender[l].heard = "250") + Once(s \in Underway(l))
           <= sender[l].kept + Once(s \in Unheard(l)) + sender'[l].lost
                + Once(sender'[l].heard = "250") + Once(s \in Underway(l)'),
         sender'[l].heard = "250" => sender'[l].kept > 0,
         sender[l].kept > 0 => sender'[l].kept > 0,
         session'[s].letter = l /\ session'[s].up =>
           /\ sender'[l].heard \in {"nothing", "451"}
           /\ \A t \in Sessions : session[t].letter = l /\ session[t].up => t = s,
         \A t \in Sessions : t # s /\ session[t].letter = l /\ session[t].up =>
           sender'[l].heard \in {"nothing", "451"},
         session'[s].letter = l /\ at'[s] \in {"announce", "stored"} => sender'[l].kept > 0
  PROVE  Square(l)'
<1> DEFINE u == Cardinality(Underway(l))
           v == Cardinality(Underway(l)')
           w == Cardinality(Unheard(l))
           z == Cardinality(Unheard(l)')
           h == Once(sender[l].heard = "250")
           g == Once(sender'[l].heard = "250")
           a == Once(s \in Underway(l))
           b == Once(s \in Underway(l)')
           c == Once(s \in Unheard(l))
           d == Once(s \in Unheard(l)')
<1>1. /\ u \in Nat /\ v \in Nat /\ w \in Nat /\ z \in Nat
      /\ v + a = u + b /\ z + c = w + d
  <2> HIDE DEF Underway, Unheard
  <2> QED
    BY WaitingIs DEF Once
<1>2. /\ a \in Nat /\ b \in Nat /\ c \in Nat /\ d \in Nat /\ h \in Nat /\ g \in Nat
  BY DEF Once
<1>3. sender[l].kept + w <= sender[l].lost + h + u
  BY DEF Square, Once
<1>4. sender'[l].kept + d + sender[l].lost + h + a <= sender[l].kept + c + sender'[l].lost + g + b
  OBVIOUS
<1> HIDE DEF u, v, w, z, a, b, c, d, h, g
<1>5. sender'[l].kept + z <= sender'[l].lost + g + v
  BY <1>1, <1>2, <1>3, <1>4
<1>6. ASSUME NEW t \in Sessions, session'[t].letter = l, session'[t].up
      PROVE  /\ sender'[l].heard \in {"nothing", "451"}
             /\ \A k \in Sessions : session'[k].letter = l /\ session'[k].up => k = t
  <2>1. CASE t = s
    BY <1>6, <2>1
  <2>2. CASE t # s
    <3>1. session[t].letter = l /\ session[t].up
      BY <1>6, <2>2
    <3>2. ~(session'[s].letter = l /\ session'[s].up)
      BY <2>2, <3>1
    <3>3. \A k \in Sessions : session[k].letter = l /\ session[k].up => k = t
      BY <3>1 DEF Square
    <3> QED
      BY <2>2, <3>1, <3>2, <3>3
  <2> QED
    BY <2>1, <2>2
<1>7. ASSUME NEW t \in Sessions, session'[t].letter = l, at'[t] \in {"announce", "stored"}
      PROVE  sender'[l].kept > 0
  <2>1. CASE t = s
    BY <1>7, <2>1
  <2>2. CASE t # s
    BY <1>7, <2>2 DEF Square
  <2> QED
    BY <2>1, <2>2
<1>8. sender'[l].kept + z <= sender'[l].lost + (IF sender'[l].heard = "250" THEN 1 ELSE 0) + v
  BY <1>5 DEF g, Once
<1> QED
  BY <1>6, <1>7, <1>8 DEF Square, v, z

(* A letter that is not with the session that does something. *)
LEMMA SquareElse ==
  ASSUME NEW l, Square(l), NEW s \in Sessions,
         \A t \in Sessions : t # s => session'[t] = session[t] /\ at'[t] = at[t],
         sender'[l] = sender[l], sender[l].lost \in Nat, sender[l].kept \in Nat,
         session[s].letter # l, session'[s].letter # l
  PROVE  Square(l)'
<1>1. s \notin Underway(l) /\ s \notin Underway(l)' /\ s \notin Unheard(l) /\ s \notin Unheard(l)'
  BY DEF Underway, Unheard
<1>2. sender[l].heard = "250" => sender[l].kept > 0
  BY DEF Square
<1>3. \A t \in Sessions : session[t].letter = l /\ session[t].up =>
                            sender[l].heard \in {"nothing", "451"}
  BY DEF Square
<1> HIDE DEF Square, Underway, Unheard
<1>4. sender'[l].kept + Once(s \in Unheard(l)') + sender[l].lost
          + Once(sender[l].heard = "250") + Once(s \in Underway(l))
        <= sender[l].kept + Once(s \in Unheard(l)) + sender'[l].lost
             + Once(sender'[l].heard = "250") + Once(s \in Underway(l)')
  BY <1>1 DEF Once
<1> QED
  BY <1>2, <1>3, <1>4, SquareAfter

(* Nothing happened to a letter at all. *)
LEMMA SquareAside ==
  ASSUME NEW l, Square(l), sender'[l] = sender[l],
         \A t \in Sessions : session'[t] = session[t] /\ at'[t] = at[t]
  PROVE  Square(l)'
<1>1. Underway(l)' = Underway(l) /\ Unheard(l)' = Unheard(l)
  BY DEF Underway, Unheard
<1> QED
  BY <1>1 DEF Square
LEMMA SenderIs ==
  ASSUME SenderOK, NEW l \in scene.letters
  PROVE  /\ sender[l] \in SenderState /\ sender[l].lost \in Nat /\ sender[l].kept \in Nat
         /\ sender[l].heard \in {"nothing", "250", "451", "552"}
         /\ Square(l)
<1>1. sender[l] \in SenderState /\ Square(l)
  <2> HIDE DEF SenderState, Square
  <2> QED
    BY DEF SenderOK
<1> QED
  BY <1>1 DEF SenderState

(* An entry of the sender's book is changed in one field. *)
LEMMA HeardIs ==
  ASSUME SenderOK, NEW k \in scene.letters, NEW code \in {"nothing", "250", "451", "552"},
         sender' = [sender EXCEPT ![k].heard = code]
  PROVE  /\ sender' \in [scene.letters -> SenderState]
         /\ \A l \in scene.letters : l # k => sender'[l] = sender[l]
         /\ sender'[k].heard = code /\ sender'[k].lost = sender[k].lost
         /\ sender'[k].kept = sender[k].kept
<1> DEFINE e == [sender[k] EXCEPT !.heard = code]
<1>1. sender \in [scene.letters -> SenderState] /\ sender[k] \in SenderState
  BY DEF SenderOK
<1>2. e \in SenderState /\ e.heard = code /\ e.lost = sender[k].lost /\ e.kept = sender[k].kept
  BY <1>1 DEF SenderState
<1>3. sender' = [sender EXCEPT ![k] = e]
  <2> HIDE DEF SenderState
  <2> QED
    BY <1>1
<1> HIDE DEF e, SenderState
<1> QED
  BY <1>1, <1>2, <1>3

LEMMA LostIs ==
  ASSUME SenderOK, NEW k \in scene.letters, sender' = [sender EXCEPT ![k].lost = @ + 1]
  PROVE  /\ sender' \in [scene.letters -> SenderState]
         /\ \A l \in scene.letters : l # k => sender'[l] = sender[l]
         /\ sender'[k].heard = sender[k].heard /\ sender'[k].lost = sender[k].lost + 1
         /\ sender'[k].kept = sender[k].kept
<1> DEFINE n == sender[k].lost + 1
           e == [sender[k] EXCEPT !.lost = n]
<1>1. sender \in [scene.letters -> SenderState] /\ sender[k] \in SenderState
  BY DEF SenderOK
<1>2. n \in Nat
  BY <1>1 DEF SenderState
<1>3. sender' = [sender EXCEPT ![k] = e]
  <2> HIDE DEF SenderState
  <2> QED
    BY <1>1
<1> HIDE DEF n
<1>4. e \in SenderState /\ e.lost = n /\ e.heard = sender[k].heard /\ e.kept = sender[k].kept
  BY <1>1, <1>2 DEF SenderState
<1> HIDE DEF e, SenderState
<1> QED
  BY <1>1, <1>3, <1>4 DEF n

LEMMA CountIs ==
  ASSUME SenderOK, NEW k \in scene.letters, sender' = Count(k)
  PROVE  /\ sender' \in [scene.letters -> SenderState]
         /\ \A l \in scene.letters : l # k => sender'[l] = sender[l]
         /\ sender'[k].heard = sender[k].heard /\ sender'[k].lost = sender[k].lost
         /\ sender'[k].kept = sender[k].kept + 1
<1> DEFINE n == sender[k].kept + 1
           e == [sender[k] EXCEPT !.kept = n]
<1>1. sender \in [scene.letters -> SenderState] /\ sender[k] \in SenderState
  BY DEF SenderOK
<1>2. n \in Nat
  BY <1>1 DEF SenderState
<1>3. sender' = [sender EXCEPT ![k] = e]
  <2> HIDE DEF SenderState
  <2> QED
    BY <1>1 DEF Count
<1> HIDE DEF n
<1>4. e \in SenderState /\ e.kept = n /\ e.heard = sender[k].heard /\ e.lost = sender[k].lost
  BY <1>1, <1>2 DEF SenderState
<1> HIDE DEF e, SenderState
<1> QED
  BY <1>1, <1>3, <1>4 DEF n

(* What Becomes leaves alone. *)
LEMMA BecomesIs ==
  ASSUME SessionOK, NEW s \in Sessions, NEW y, Becomes(s, y)
  PROVE  /\ session'[s] = y
         /\ \A t \in Sessions : t # s => session'[t] = session[t] /\ at'[t] = at[t]
<1>1. session \in [Sessions -> SessionState]
  BY DEF SessionOK
<1> HIDE DEF SessionState
<1> QED
  BY <1>1 DEF Becomes
(* What a session that has a letter knows, and the account of that letter. *)
LEMMA LetterIs ==
  ASSUME NumbersOK, SessionOK, SenderOK, NEW s \in Sessions, session[s].phase \in {"mail", "data"}
  PROVE  /\ session[s].letter \in scene.letters
         /\ session[s].phase = "mail" => session[s].up /\ at[s] = "none"
         /\ session[s].phase = "data" => at[s] # "none"
         /\ session[s].up => /\ sender[session[s].letter].heard \in {"nothing", "451"}
                             /\ \A t \in Sessions : session[t].letter = session[s].letter
                                                      /\ session[t].up => t = s
<1>1. Orderly(session[s], at[s], mail[s], scene.letters)
  BY SessionIs
<1>2. session[s].letter \in scene.letters
  BY <1>1 DEF Orderly, Mid
<1>3. Square(session[s].letter)
  BY <1>2, SenderIs
<1>4. session[s].up => /\ sender[session[s].letter].heard \in {"nothing", "451"}
                       /\ \A t \in Sessions : session[t].letter = session[s].letter
                                                /\ session[t].up => t = s
  BY <1>3 DEF Square
<1>5. /\ session[s].phase = "mail" => session[s].up /\ at[s] = "none"
      /\ session[s].phase = "data" => at[s] # "none"
  BY <1>1 DEF Orderly
<1> QED
  BY <1>2, <1>4, <1>5

(* DATA that was refused. *)
LEMMA RefusesSquare ==
  ASSUME NumbersOK, SessionOK, SenderOK, NEW s \in Sessions, NEW y, Refuses(s, y)
  PROVE  sender' \in [scene.letters -> SenderState] /\ \A l \in scene.letters : Square(l)'
<1>1. PICK k \in scene.letters : k = session[s].letter
  BY LetterIs DEF Refuses
<1>2. /\ at[s] = "none" /\ at'[s] = "none" /\ y.letter = NoLetter
      /\ sender' = [sender EXCEPT ![k].heard = "552"] /\ Becomes(s, y)
      /\ \A t \in Sessions : session[t].letter = k /\ session[t].up => t = s
      /\ sender[k].heard \in {"nothing", "451"}
  BY <1>1, LetterIs DEF Refuses
<1>3. /\ sender' \in [scene.letters -> SenderState]
      /\ \A l \in scene.letters : l # k => sender'[l] = sender[l]
      /\ sender'[k].heard = "552" /\ sender'[k].lost = sender[k].lost
      /\ sender'[k].kept = sender[k].kept
  <2>1. "552" \in {"nothing", "250", "451", "552"}
    OBVIOUS
  <2> HIDE DEF SenderState, SenderOK
  <2> QED
    BY <1>2, <2>1, HeardIs
<1>4. /\ session'[s] = y
      /\ \A t \in Sessions : t # s => session'[t] = session[t] /\ at'[t] = at[t]
  BY <1>2, BecomesIs
<1>5. \A l \in scene.letters : session'[s].letter # l
  BY <1>2, <1>4, SceneIs, NoLetterIsNone
<1>6. \A l \in scene.letters : Square(l) /\ sender[l].lost \in Nat /\ sender[l].kept \in Nat
  BY SenderIs
<1>7. ASSUME NEW l \in scene.letters, l # k PROVE Square(l)'
  <2>1. session[s].letter # l /\ session'[s].letter # l /\ sender'[l] = sender[l]
    BY <1>1, <1>3, <1>5, <1>7
  <2> HIDE DEF Square
  <2> QED
    BY <1>4, <1>6, <2>1, SquareElse
<1>8. Square(k)'
  <2>1. s \notin Underway(k) /\ s \notin Underway(k)' /\ s \notin Unheard(k) /\ s \notin Unheard(k)'
    BY <1>2, <1>5 DEF Underway, Unheard
  <2> HIDE DEF Square, Underway, Unheard
  <2>2. sender'[k].kept + Once(s \in Unheard(k)') + sender[k].lost
          + Once(sender[k].heard = "250") + Once(s \in Underway(k))
        <= sender[k].kept + Once(s \in Unheard(k)) + sender'[k].lost
             + Once(sender'[k].heard = "250") + Once(s \in Underway(k)')
    BY <1>2, <1>3, <1>6, <2>1 DEF Once
  <2> QED
    BY <1>2, <1>3, <1>4, <1>5, <1>6, <2>2, SquareAfter
<1> QED
  BY <1>3, <1>7, <1>8

(* The answer to DATA. *)
LEMMA RepliesSquare ==
  ASSUME NumbersOK, SessionOK, SenderOK, NEW s \in Sessions, NEW y, Replies(s, y)
  PROVE  sender' \in [scene.letters -> SenderState] /\ \A l \in scene.letters : Square(l)'
<1>1. PICK k \in scene.letters : k = session[s].letter
  BY LetterIs DEF Replies
<1> DEFINE code == IF at[s] = "stored" THEN "250" ELSE "451"
<1>2. /\ at[s] \in {"stored", "failed"} /\ at'[s] = "none" /\ y.letter = NoLetter
      /\ sender' = (IF session[s].up THEN [sender EXCEPT ![k].heard = code] ELSE sender)
      /\ Becomes(s, y)
      /\ session[s].up => /\ \A t \in Sessions : session[t].letter = k /\ session[t].up => t = s
                          /\ sender[k].heard \in {"nothing", "451"}
  BY <1>1, LetterIs DEF Replies
<1>3. /\ sender' \in [scene.letters -> SenderState]
      /\ \A l \in scene.letters : l # k => sender'[l] = sender[l]
      /\ sender'[k].heard = (IF session[s].up THEN code ELSE sender[k].heard)
      /\ sender'[k].lost = sender[k].lost /\ sender'[k].kept = sender[k].kept
  <2>1. code \in {"nothing", "250", "451", "552"}
    OBVIOUS
  <2>2. CASE session[s].up
    <3> HIDE DEF SenderState, SenderOK, code
    <3>1. sender' = [sender EXCEPT ![k].heard = code]
      BY <1>2, <2>2
    <3>2. /\ sender' \in [scene.letters -> SenderState]
          /\ \A l \in scene.letters : l # k => sender'[l] = sender[l]
          /\ sender'[k].heard = code /\ sender'[k].lost = sender[k].lost
          /\ sender'[k].kept = sender[k].kept
      BY <2>1, <3>1, HeardIs
    <3> QED
      BY <2>2, <3>2
  <2>3. CASE ~session[s].up
    <3>1. sender \in [scene.letters -> SenderState]
      BY DEF SenderOK
    <3> HIDE DEF SenderState, SenderOK, code
    <3> QED
      BY <1>2, <2>3, <3>1
  <2> QED
    BY <2>2, <2>3
<1>4. /\ session'[s] = y
      /\ \A t \in Sessions : t # s => session'[t] = session[t] /\ at'[t] = at[t]
  BY <1>2, BecomesIs
<1>5. \A l \in scene.letters : session'[s].letter # l
  BY <1>2, <1>4, SceneIs, NoLetterIsNone
<1>6. \A l \in scene.letters : Square(l) /\ sender[l].lost \in Nat /\ sender[l].kept \in Nat
  BY SenderIs
<1>7. ASSUME NEW l \in scene.letters, l # k PROVE Square(l)'
  <2>1. session[s].letter # l /\ session'[s].letter # l /\ sender'[l] = sender[l]
    BY <1>1, <1>3, <1>5, <1>7
  <2> HIDE DEF Square
  <2> QED
    BY <1>4, <1>6, <2>1, SquareElse
<1>8. Square(k)'
  <2>1. /\ s \notin Underway(k)' /\ s \notin Unheard(k) /\ s \notin Unheard(k)'
        /\ s \in Underway(k) <=> session[s].up /\ at[s] = "stored"
    BY <1>1, <1>2, <1>5 DEF Underway, Unheard
  <2>2. /\ at[s] = "stored" => sender[k].kept > 0
        /\ sender[k].heard = "250" => sender[k].kept > 0
        /\ \A t \in Sessions : session[t].letter = k /\ session[t].up =>
                                 sender[k].heard \in {"nothing", "451"}
    BY <1>1, <1>6 DEF Square
  <2> HIDE DEF Square, Underway, Unheard
  <2>3. Once(sender[k].heard = "250") + Once(s \in Underway(k)) = Once(sender'[k].heard = "250")
    BY <1>2, <1>3, <2>1 DEF Once
  <2>4. Once(s \in Unheard(k)') = 0 /\ Once(s \in Unheard(k)) = 0 /\ Once(s \in Underway(k)') = 0
    BY <2>1 DEF Once
  <2>5. Once(sender'[k].heard = "250") \in Nat /\ Once(sender[k].heard = "250") \in Nat
        /\ Once(s \in Underway(k)) \in Nat
    BY DEF Once
  <2>6. sender'[k].kept + Once(s \in Unheard(k)') + sender[k].lost
          + Once(sender[k].heard = "250") + Once(s \in Underway(k))
        <= sender[k].kept + Once(s \in Unheard(k)) + sender'[k].lost
             + Once(sender'[k].heard = "250") + Once(s \in Underway(k)')
    BY <1>3, <1>6, <2>3, <2>4, <2>5
  <2>7. sender'[k].heard = "250" => sender'[k].kept > 0
    BY <1>2, <1>3, <2>2
  <2>8. \A t \in Sessions : t # s /\ session[t].letter = k /\ session[t].up =>
                              sender'[k].heard \in {"nothing", "451"}
    BY <1>2, <1>3, <2>2
  <2> QED
    BY <1>3, <1>4, <1>5, <1>6, <2>6, <2>7, <2>8, SquareAfter
<1> QED
  BY <1>3, <1>7, <1>8

(* Nobody hears the answer any more. *)
LEMMA PartsSquare ==
  ASSUME NumbersOK, SessionOK, SenderOK, NEW s \in Sessions, NEW y, Parts(s, y)
  PROVE  sender' \in [scene.letters -> SenderState] /\ \A l \in scene.letters : Square(l)'
<1>1. PICK k \in scene.letters : k = session[s].letter
  BY LetterIs DEF Parts
<1>2. /\ at'[s] = at[s] /\ y.letter = k /\ ~y.up /\ session[s].up
      /\ sender' = [sender EXCEPT ![k].lost = @ + 1] /\ Becomes(s, y)
      /\ \A t \in Sessions : session[t].letter = k /\ session[t].up => t = s
      /\ sender[k].heard \in {"nothing", "451"}
  BY <1>1, LetterIs DEF Parts
<1>3. /\ sender' \in [scene.letters -> SenderState]
      /\ \A l \in scene.letters : l # k => sender'[l] = sender[l]
      /\ sender'[k].heard = sender[k].heard /\ sender'[k].lost = sender[k].lost + 1
      /\ sender'[k].kept = sender[k].kept
  <2> HIDE DEF SenderState, SenderOK
  <2> QED
    BY <1>2, LostIs
<1>4. /\ session'[s] = y
      /\ \A t \in Sessions : t # s => session'[t] = session[t] /\ at'[t] = at[t]
  BY <1>2, BecomesIs
<1>5. \A l \in scene.letters : Square(l) /\ sender[l].lost \in Nat /\ sender[l].kept \in Nat
  BY SenderIs
<1>6. ASSUME NEW l \in scene.letters, l # k PROVE Square(l)'
  <2>1. session[s].letter # l /\ session'[s].letter # l /\ sender'[l] = sender[l]
    BY <1>1, <1>2, <1>3, <1>4, <1>6
  <2> HIDE DEF Square
  <2> QED
    BY <1>4, <1>5, <2>1, SquareElse
<1>7. Square(k)'
  <2>1. /\ s \notin Underway(k)' /\ s \notin Unheard(k)
        /\ s \in Unheard(k)' => s \notin Underway(k)
    BY <1>2, <1>4 DEF Underway, Unheard
  <2>2. session[s].letter = k /\ at[s] \in {"announce", "stored"} => sender[k].kept > 0
    BY <1>5 DEF Square
  <2> HIDE DEF Square, Underway, Unheard
  <2>3. Once(s \in Unheard(k)') + Once(s \in Underway(k)) <= 1
    BY <2>1 DEF Once
  <2>4. Once(s \in Unheard(k)) = 0 /\ Once(s \in Underway(k)') = 0
    BY <2>1 DEF Once
  <2>5. Once(sender[k].heard = "250") = 0 /\ Once(sender'[k].heard = "250") = 0
    BY <1>2, <1>3 DEF Once
  <2>6. Once(s \in Unheard(k)') \in Nat /\ Once(s \in Underway(k)) \in Nat
    BY DEF Once
  <2>7. sender'[k].kept + Once(s \in Unheard(k)') + sender[k].lost
          + Once(sender[k].heard = "250") + Once(s \in Underway(k))
        <= sender[k].kept + Once(s \in Unheard(k)) + sender'[k].lost
             + Once(sender'[k].heard = "250") + Once(s \in Underway(k)')
    BY <1>3, <1>5, <2>3, <2>4, <2>5, <2>6
  <2>8. ~session'[s].up /\ sender'[k].heard # "250" /\ sender'[k].lost \in Nat
    BY <1>2, <1>3, <1>4, <1>5
  <2>9. session'[s].letter = k /\ at'[s] \in {"announce", "stored"} => sender'[k].kept > 0
    BY <1>1, <1>2, <1>3, <2>2
  <2> QED
    BY <1>2, <1>3, <1>4, <1>5, <2>7, <2>8, <2>9, SquareAfter
<1> QED
  BY <1>3, <1>6, <1>7
(* A letter is given up, goes on its way, or is begun. *)
LEMMA DropsSquare ==
  ASSUME NumbersOK, SessionOK, SenderOK, NEW s \in Sessions, NEW y, Drops(s, y),
         NEW l \in scene.letters
  PROVE  Square(l)'
<1>1. at[s] = "none" /\ at' = at /\ sender' = sender /\ y.letter = NoLetter /\ Becomes(s, y)
  BY DEF Drops
<1>2. /\ session'[s] = y
      /\ \A t \in Sessions : t # s => session'[t] = session[t] /\ at'[t] = at[t]
  BY <1>1, BecomesIs
<1>3. session'[s].letter # l
  BY <1>1, <1>2, SceneIs, NoLetterIsNone
<1>4. Square(l) /\ sender[l].lost \in Nat /\ sender[l].kept \in Nat
  BY SenderIs
<1>5. s \notin Underway(l) /\ s \notin Underway(l)' /\ s \notin Unheard(l) /\ s \notin Unheard(l)'
  BY <1>1, <1>3 DEF Underway, Unheard
<1>6. /\ sender[l].heard = "250" => sender[l].kept > 0
      /\ \A t \in Sessions : session[t].letter = l /\ session[t].up =>
                               sender[l].heard \in {"nothing", "451"}
  BY <1>4 DEF Square
<1> HIDE DEF Square, Underway, Unheard
<1>7. sender'[l].kept + Once(s \in Unheard(l)') + sender[l].lost
          + Once(sender[l].heard = "250") + Once(s \in Underway(l))
        <= sender[l].kept + Once(s \in Unheard(l)) + sender'[l].lost
             + Once(sender'[l].heard = "250") + Once(s \in Underway(l)')
  BY <1>1, <1>4, <1>5 DEF Once
<1> QED
  BY <1>1, <1>2, <1>3, <1>4, <1>6, <1>7, SquareAfter

LEMMA KeepsSquare ==
  ASSUME NumbersOK, SessionOK, SenderOK, NEW s \in Sessions, NEW y, Keeps(s, y),
         NEW l \in scene.letters
  PROVE  Square(l)'
<1>1. /\ at[s] = "none" /\ at'[s] \in {"none", "persist"} /\ sender' = sender /\ Becomes(s, y)
      /\ y.letter = session[s].letter /\ y.up = session[s].up /\ session[s].phase = "mail"
  BY DEF Keeps
<1>2. /\ session'[s] = y
      /\ \A t \in Sessions : t # s => session'[t] = session[t] /\ at'[t] = at[t]
  BY <1>1, BecomesIs
<1>3. session[s].up
  BY <1>1, LetterIs
<1>4. Square(l) /\ sender[l].lost \in Nat /\ sender[l].kept \in Nat
  BY SenderIs
<1>5. s \notin Underway(l) /\ s \notin Underway(l)' /\ s \notin Unheard(l) /\ s \notin Unheard(l)'
  BY <1>1, <1>2, <1>3 DEF Underway, Unheard
<1>6. /\ sender[l].heard = "250" => sender[l].kept > 0
      /\ \A t \in Sessions : session[t].letter = l /\ session[t].up =>
           /\ sender[l].heard \in {"nothing", "451"}
           /\ \A k \in Sessions : session[k].letter = l /\ session[k].up => k = t
  BY <1>4 DEF Square
<1> HIDE DEF Square, Underway, Unheard
<1>7. sender'[l].kept + Once(s \in Unheard(l)') + sender[l].lost
          + Once(sender[l].heard = "250") + Once(s \in Underway(l))
        <= sender[l].kept + Once(s \in Unheard(l)) + sender'[l].lost
             + Once(sender'[l].heard = "250") + Once(s \in Underway(l)')
  BY <1>1, <1>4, <1>5 DEF Once
<1>8. session'[s].letter = l /\ session'[s].up => session[s].letter = l /\ session[s].up
  BY <1>1, <1>2
<1>9. ~(at'[s] \in {"announce", "stored"})
  BY <1>1
<1> QED
  BY <1>1, <1>2, <1>4, <1>6, <1>7, <1>8, <1>9, SquareAfter

LEMMA StartsSquare ==
  ASSUME NumbersOK, SessionOK, SenderOK, NEW s \in Sessions, NEW y, NEW k, Starts(s, y, k),
         NEW l \in scene.letters
  PROVE  Square(l)'
<1>1. /\ at[s] = "none" /\ at' = at /\ sender' = sender /\ Becomes(s, y)
      /\ session[s].letter = NoLetter /\ y.letter = k /\ y.up /\ Due(k)
  BY DEF Starts
<1>2. /\ session'[s] = y
      /\ \A t \in Sessions : t # s => session'[t] = session[t] /\ at'[t] = at[t]
  BY <1>1, BecomesIs
<1>3. session[s].letter # l
  BY <1>1, SceneIs, NoLetterIsNone
<1>4. Square(l) /\ sender[l].lost \in Nat /\ sender[l].kept \in Nat
  BY SenderIs
<1>5. s \notin Underway(l) /\ s \notin Underway(l)' /\ s \notin Unheard(l) /\ s \notin Unheard(l)'
  BY <1>1 DEF Underway, Unheard
<1>6. /\ sender[l].heard = "250" => sender[l].kept > 0
      /\ \A t \in Sessions : session[t].letter = l /\ session[t].up =>
                               sender[l].heard \in {"nothing", "451"}
  BY <1>4 DEF Square
<1>7. session'[s].letter = l =>
        /\ sender[l].heard \in {"nothing", "451"}
        /\ \A t \in Sessions : ~(session[t].letter = l /\ session[t].up)
  BY <1>1, <1>2 DEF Due
<1> HIDE DEF Square, Underway, Unheard
<1>8. sender'[l].kept + Once(s \in Unheard(l)') + sender[l].lost
          + Once(sender[l].heard = "250") + Once(s \in Underway(l))
        <= sender[l].kept + Once(s \in Unheard(l)) + sender'[l].lost
             + Once(sender'[l].heard = "250") + Once(s \in Underway(l)')
  BY <1>1, <1>4, <1>5 DEF Once
<1>9. ~(at'[s] \in {"announce", "stored"})
  BY <1>1
<1> QED
  BY <1>1, <1>2, <1>4, <1>6, <1>7, <1>8, <1>9, SquareAfter

(* A message that is not stored for good, or has been counted already. *)
LEMMA MovesSquare ==
  ASSUME NumbersOK, MailOK, SessionOK, SenderOK, NEW c \in Carriers, NEW before, NEW after,
         Moves(c, before, after), sender' = sender,
         \/ before = "persist" /\ after = "failed"
         \/ before = "announce" /\ after = "stored",
         NEW l \in scene.letters
  PROVE  Square(l)'
<1>1. Square(l) /\ sender[l].lost \in Nat /\ sender[l].kept \in Nat
  BY SenderIs
<1>2. /\ session' = session /\ at[c] = before
      /\ \A t \in Sessions : at'[t] = IF t = c THEN after ELSE at[t]
  <2>1. before # "none" /\ after \notin {"none", "persist"}
    OBVIOUS
  <2> QED
    BY <2>1, MovesIs DEF Moves
<1>3. CASE c \notin Sessions
  <2>1. \A t \in Sessions : session'[t] = session[t] /\ at'[t] = at[t]
    BY <1>2, <1>3
  <2> HIDE DEF Square
  <2> QED
    BY <1>1, <2>1, SquareAside
<1>4. CASE c \in Sessions
  <2>1. /\ at'[c] = after
        /\ \A t \in Sessions : t # c => session'[t] = session[t] /\ at'[t] = at[t]
    BY <1>2, <1>4
  <2>2. /\ c \in Underway(l) <=> c \in Underway(l)'
        /\ c \notin Unheard(l)'
    BY <1>2, <1>4, <2>1 DEF Underway, Unheard
  <2>3. /\ sender[l].heard = "250" => sender[l].kept > 0
        /\ \A t \in Sessions : session[t].letter = l /\ session[t].up =>
             /\ sender[l].heard \in {"nothing", "451"}
             /\ \A k \in Sessions : session[k].letter = l /\ session[k].up => k = t
        /\ session[c].letter = l /\ at[c] \in {"announce", "stored"} => sender[l].kept > 0
    BY <1>1, <1>4 DEF Square
  <2> HIDE DEF Square, Underway, Unheard
  <2>4. Once(c \in Underway(l)) = Once(c \in Underway(l)') /\ Once(c \in Underway(l)) \in Nat
        /\ Once(c \in Unheard(l)') = 0 /\ Once(c \in Unheard(l)) \in Nat
        /\ Once(sender[l].heard = "250") \in Nat
    BY <2>2 DEF Once
  <2>5. sender'[l].kept + Once(c \in Unheard(l)') + sender[l].lost
          + Once(sender[l].heard = "250") + Once(c \in Underway(l))
        <= sender[l].kept + Once(c \in Unheard(l)) + sender'[l].lost
             + Once(sender'[l].heard = "250") + Once(c \in Underway(l)')
    BY <1>1, <2>4
  <2>6. session'[c].letter = l /\ at'[c] \in {"announce", "stored"} => sender'[l].kept > 0
    BY <1>2, <2>1, <2>3
  <2> QED
    BY <1>1, <1>2, <1>4, <2>1, <2>3, <2>5, <2>6, SquareAfter
<1> QED
  BY <1>3, <1>4

(* A message is stored: it counts for the letter of its session. *)
LEMMA CommitSquare ==
  ASSUME IInv, NEW c \in Carriers, Commit(c)
  PROVE  sender' \in [scene.letters -> SenderState] /\ \A l \in scene.letters : Square(l)'
<1>0. NumbersOK /\ MailOK /\ SessionOK /\ SenderOK
  BY DEF IInv
<1>1. /\ c \in Pending
      /\ sender' = (IF mail[c].via = "smtp" THEN Count(mail[c].told) ELSE sender)
      /\ Moves(c, "persist", "announce")
  <2> HIDE DEF IInv
  <2> QED
    BY CommitIs, CommitMoves
<1> HIDE DEF IInv
<1>2. /\ session' = session /\ at[c] = "persist"
      /\ \A t \in Sessions : at'[t] = IF t = c THEN "announce" ELSE at[t]
  <2>1. "persist" # "none" /\ "announce" \notin {"none", "persist"}
    OBVIOUS
  <2>2. \A t \in Sessions : at'[t] = IF t = c THEN "announce" ELSE at[t]
    <3> HIDE DEF MailOK, SessionOK, Moves
    <3> QED
      BY <1>0, <1>1, <2>1, MovesIs
  <2> QED
    BY <1>1, <2>2 DEF Moves
<1>3. \A l \in scene.letters : Square(l) /\ sender[l].lost \in Nat /\ sender[l].kept \in Nat
  BY <1>0, SenderIs
<1>4. CASE c \notin Sessions
  <2>1. mail[c].via # "smtp"
    BY <1>0, <1>1, <1>4 DEF MailOK, Carriers
  <2>2. sender' = sender /\ sender \in [scene.letters -> SenderState]
    BY <1>0, <1>1, <2>1 DEF SenderOK
  <2>3. \A t \in Sessions : session'[t] = session[t] /\ at'[t] = at[t]
    BY <1>2, <1>4
  <2> HIDE DEF Square
  <2>4. \A l \in scene.letters : Square(l)'
    BY <1>3, <2>2, <2>3, SquareAside
  <2> QED
    BY <2>2, <2>4
<1>5. CASE c \in Sessions
  <2>1. mail[c].via = "smtp" /\ mail[c].told = session[c].letter /\ session[c].phase = "data"
    <3>1. Orderly(session[c], at[c], mail[c], scene.letters)
      BY <1>0, <1>5, SessionIs
    <3> QED
      BY <1>2, <3>1 DEF Orderly
  <2>2. PICK k \in scene.letters : k = session[c].letter
    BY <1>0, <1>5, <2>1, LetterIs
  <2>3. /\ session[c].up => /\ sender[k].heard \in {"nothing", "451"}
                            /\ \A t \in Sessions : session[t].letter = k /\ session[t].up => t = c
        /\ sender' = Count(k)
    BY <1>0, <1>1, <1>5, <2>1, <2>2, LetterIs
  <2>4. /\ sender' \in [scene.letters -> SenderState]
        /\ \A l \in scene.letters : l # k => sender'[l] = sender[l]
        /\ sender'[k].heard = sender[k].heard /\ sender'[k].lost = sender[k].lost
        /\ sender'[k].kept = sender[k].kept + 1
    <3> HIDE DEF SenderState, SenderOK
    <3> QED
      BY <1>0, <2>3, CountIs
  <2>5. /\ at'[c] = "announce" /\ session'[c] = session[c]
        /\ \A t \in Sessions : t # c => session'[t] = session[t] /\ at'[t] = at[t]
    BY <1>2, <1>5
  <2>6. ASSUME NEW l \in scene.letters, l # k PROVE Square(l)'
    <3>1. session[c].letter # l /\ session'[c].letter # l /\ sender'[l] = sender[l]
      BY <2>2, <2>4, <2>5, <2>6
    <3> HIDE DEF Square
    <3> QED
      BY <1>3, <1>5, <2>5, <3>1, SquareElse
  <2>7. Square(k)'
    <3>1. /\ c \notin Underway(k) /\ c \notin Unheard(k)'
          /\ c \in Underway(k)' <=> session[c].up
          /\ c \in Unheard(k) <=> ~session[c].up
      BY <1>2, <1>5, <2>2, <2>5 DEF Underway, Unheard
    <3>2. \A t \in Sessions : session[t].letter = k /\ session[t].up =>
                                sender[k].heard \in {"nothing", "451"}
      BY <1>3 DEF Square
    <3> HIDE DEF Square, Underway, Unheard
    <3>3. Once(c \in Unheard(k)) + Once(c \in Underway(k)') = 1
          /\ Once(c \in Unheard(k)) \in Nat /\ Once(c \in Underway(k)') \in Nat
          /\ Once(c \in Unheard(k)') = 0 /\ Once(c \in Underway(k)) = 0
          /\ Once(sender[k].heard = "250") = Once(sender'[k].heard = "250")
          /\ Once(sender[k].heard = "250") \in Nat
      BY <2>4, <3>1 DEF Once
    <3>4. sender'[k].kept + Once(c \in Unheard(k)') + sender[k].lost
          + Once(sender[k].heard = "250") + Once(c \in Underway(k))
        <= sender[k].kept + Once(c \in Unheard(k)) + sender'[k].lost
             + Once(sender'[k].heard = "250") + Once(c \in Underway(k)')
      BY <1>3, <2>4, <3>3
    <3>5. sender'[k].kept > 0 /\ sender'[k].kept \in Nat /\ sender'[k].lost \in Nat
      BY <1>3, <2>4
    <3> QED
      BY <1>3, <1>5, <2>3, <2>4, <2>5, <3>2, <3>4, <3>5, SquareAfter
  <2> QED
    BY <2>4, <2>6, <2>7
<1> QED
  BY <1>4, <1>5

(* A letter is stored again only for an answer its sender never heard. *)
LEMMA SenderNext ==
  ASSUME IInv, [Next]_vars
  PROVE  SenderOK'
<1>0. NumbersOK /\ MailOK /\ SessionOK /\ SenderOK /\ scene' = scene
  BY Grows DEF IInv
<1>1. sender \in [scene.letters -> SenderState] /\ \A l \in scene.letters : Square(l)
  BY <1>0 DEF SenderOK
<1>2. ASSUME sender' \in [scene.letters -> SenderState], \A l \in scene.letters : Square(l)'
      PROVE  SenderOK'
  <2> HIDE DEF Square, SenderState
  <2> QED
    BY <1>0, <1>2 DEF SenderOK
<1>3. CASE Aside
  <2>1. sender' = sender /\ \A t \in Sessions : session'[t] = session[t] /\ at'[t] = at[t]
    BY <1>3 DEF Aside
  <2> HIDE DEF Square, SenderState, SenderOK
  <2>2. \A l \in scene.letters : Square(l)'
    BY <1>1, <2>1, SquareAside
  <2> QED
    BY <1>1, <1>2, <2>1, <2>2
<1>4. ASSUME NEW s \in Sessions, NEW y,
             \/ Drops(s, y) \/ Keeps(s, y) \/ Refuses(s, y) \/ Replies(s, y) \/ Parts(s, y)
             \/ \E l : Starts(s, y, l)
      PROVE  sender' \in [scene.letters -> SenderState] /\ \A l \in scene.letters : Square(l)'
  <2> HIDE DEF Square, SenderState, SenderOK, SessionOK, NumbersOK
  <2>1. CASE Drops(s, y) \/ Keeps(s, y) \/ \E l : Starts(s, y, l)
    <3>1. sender' = sender
      BY <2>1 DEF Drops, Keeps, Starts
    <3>2. \A l \in scene.letters : Square(l)'
      BY <1>0, <2>1, DropsSquare, KeepsSquare, StartsSquare
    <3> QED
      BY <1>1, <3>1, <3>2
  <2>2. CASE Refuses(s, y)
    BY <1>0, <2>2, RefusesSquare
  <2>3. CASE Replies(s, y)
    BY <1>0, <2>3, RepliesSquare
  <2>4. CASE Parts(s, y)
    BY <1>0, <2>4, PartsSquare
  <2> QED
    BY <1>4, <2>1, <2>2, <2>3, <2>4
<1>5. ASSUME NEW c \in Carriers, sender' = sender,
             Moves(c, "persist", "failed") \/ Moves(c, "announce", "stored")
      PROVE  sender' \in [scene.letters -> SenderState] /\ \A l \in scene.letters : Square(l)'
  <2> HIDE DEF Square, SenderState, SenderOK, SessionOK, NumbersOK, MailOK
  <2>1. \A l \in scene.letters : Square(l)'
    BY <1>0, <1>5, MovesSquare
  <2> QED
    BY <1>1, <1>5, <2>1
<1>6. \/ SenderOK'
      \/ sender' \in [scene.letters -> SenderState] /\ \A l \in scene.letters : Square(l)'
  <2> HIDE DEF IInv, SenderOK, SenderState, Square, Moves, Aside
  <2>1. CASE Aside
    BY <1>3, <2>1
  <2>2. ASSUME NEW c \in Carriers, Commit(c)
        PROVE  sender' \in [scene.letters -> SenderState] /\ \A l \in scene.letters : Square(l)'
    BY <2>2, CommitSquare
  <2> QED
    BY SessionSteps, <1>4, <1>5, <2>1, <2>2
<1> HIDE DEF IInv, SenderOK, SenderState, Square
<1> QED
  BY <1>2, <1>6
-----------------------------------------------------------------------------
(* A page of the list *)

(* The list: every thread once, and their times are numbers. *)
Listed(rest) ==
  /\ IsFiniteSet(rest)
  /\ \A c \in rest : c.thread \in Nat \ {0} /\ c.activity \in Nat
  /\ \A c, d \in rest : c.thread = d.thread => c = d

Higher(rest, c) == {d \in rest : Above(d, c)}
Rank(rest, c) == 1 + Cardinality(Higher(rest, c))

(* Who stands higher has the smaller place. *)
LEMMA RankGrows ==
  ASSUME NEW rest, Listed(rest), NEW c \in rest, NEW d \in rest, Above(c, d)
  PROVE  Rank(rest, c) \in Nat /\ Rank(rest, d) \in Nat /\ Rank(rest, c) < Rank(rest, d)
<1> DEFINE a == Higher(rest, c)
           b == Higher(rest, d)
<1>1. a \subseteq rest /\ b \subseteq rest /\ c \notin a
  BY DEF Listed, Higher, Above
<1>2. a \cup {c} \subseteq b
  BY DEF Listed, Higher, Above
<1>3. IsFiniteSet(a) /\ IsFiniteSet(b) /\ Cardinality(a) \in Nat /\ Cardinality(b) \in Nat
  <2> HIDE DEF a, b
  <2> QED
    BY <1>1, FS_Subset, FS_CardinalityType DEF Listed
<1>4. Cardinality(a \cup {c}) = Cardinality(a) + 1
  <2> HIDE DEF a, b
  <2> QED
    BY <1>1, <1>3, FS_AddElement
<1>5. Cardinality(a \cup {c}) <= Cardinality(b)
  <2> HIDE DEF a, b
  <2> QED
    BY <1>2, <1>3, FS_Subset
<1> QED
  BY <1>3, <1>4, <1>5 DEF Rank

(* Every place from the first to the last is taken by one row. *)
LEMMA RankIs ==
  ASSUME NEW rest, Listed(rest)
  PROVE  /\ Cardinality(rest) \in Nat
         /\ \A c \in rest : Rank(rest, c) \in 1..Cardinality(rest)
         /\ \A c, d \in rest : Rank(rest, c) = Rank(rest, d) => c = d
         /\ \A i \in 1..Cardinality(rest) : \E c \in rest : Rank(rest, c) = i
<1> DEFINE n == Cardinality(rest)
           f == [c \in rest |-> Rank(rest, c)]
<1>1. n \in Nat
  BY FS_CardinalityType DEF Listed
<1>2. ASSUME NEW c \in rest PROVE Rank(rest, c) \in 1..n
  <2> DEFINE a == Higher(rest, c)
  <2>1. a \subseteq rest /\ c \notin a /\ a \cup {c} \subseteq rest
    BY DEF Listed, Higher, Above
  <2> HIDE DEF a
  <2>2. IsFiniteSet(a) /\ Cardinality(a) \in Nat
    BY <2>1, FS_Subset, FS_CardinalityType DEF Listed
  <2>3. Cardinality(a \cup {c}) = Cardinality(a) + 1
    BY <2>1, <2>2, FS_AddElement
  <2>4. Cardinality(a \cup {c}) <= n
    BY <2>1, FS_Subset DEF Listed
  <2> HIDE DEF n
  <2>5. 1 + Cardinality(a) \in 1..n
    BY <1>1, <2>2, <2>3, <2>4
  <2> QED
    BY <2>5 DEF Rank, a
<1>3. ASSUME NEW c \in rest, NEW d \in rest, Rank(rest, c) = Rank(rest, d) PROVE c = d
  <2>1. c # d => Above(c, d) \/ Above(d, c)
    BY DEF Listed, Above
  <2>2. Rank(rest, c) \in Nat
    BY <1>1, <1>2
  <2> HIDE DEF Rank, Listed
  <2>3. ~Above(c, d) /\ ~Above(d, c)
    BY <1>3, <2>2, RankGrows
  <2> QED
    BY <2>1, <2>3
<1> HIDE DEF n, Rank
<1>4. f \in Injection(rest, 1..n)
  BY <1>2, <1>3 DEF Injection, IsInjective
<1>5. IsFiniteSet(1..n) /\ Cardinality(1..n) = n
  <2>1. 1 \in Int /\ n \in Int /\ (IF 1 > n THEN 0 ELSE n - 1 + 1) = n
    BY <1>1
  <2> QED
    BY <2>1, FS_Interval
<1>6. f \in Surjection(rest, 1..n)
  BY <1>4, <1>5, FS_Injection DEF n
<1>7. \A i \in 1..n : \E c \in rest : Rank(rest, c) = i
  BY <1>6 DEF Surjection
<1> QED
  BY <1>1, <1>2, <1>3, <1>7 DEF n

LEMMA LimitIs ==
  ASSUME NEW limit \in Nat
  PROVE  EffectiveLimit(limit) \in Nat \ {0}
<1>1. DefaultListLimit \in Nat \ {0} /\ MaxListLimit \in Nat /\ DefaultListLimit <= MaxListLimit
  BY ReadingAssumption
<1>2. CASE limit = 0
  BY <1>1, <1>2 DEF EffectiveLimit
<1>3. CASE limit > MaxListLimit
  <2>1. limit # 0
    BY <1>1, <1>3
  <2> QED
    BY <1>1, <1>3, <2>1 DEF EffectiveLimit
<1>4. CASE limit # 0 /\ ~(limit > MaxListLimit)
  BY <1>4 DEF EffectiveLimit
<1> QED
  BY <1>2, <1>3, <1>4

(* What a page shows of the rest of the list, and the cursor that goes with it. *)
Shows(rest, shown, next) ==
  /\ shown \subseteq {c.thread : c \in rest}
  /\ next = NoCursor => {c.thread : c \in rest} \subseteq shown
  /\ next # NoCursor =>
       \E n \in rest :
         /\ n.thread = next
         /\ \A c \in rest : /\ c.thread \in shown => c.activity >= n.activity
                            /\ c.thread \notin shown => c.activity <= n.activity

(* A page is the top of the list. *)
LEMMA PageIs ==
  ASSUME NEW among, NEW found, NEW before, NEW limit \in Nat,
         Listed({c \in Older(among, before) : c.thread \in found})
  PROVE  LET rest == {c \in Older(among, before) : c.thread \in found}
             page == ListConversations(among, found, before, limit)
             shown == {page[i] : i \in DOMAIN page}
         IN  Shows(rest, shown, NextCursor(page, limit))
<1> DEFINE rest == {c \in Older(among, before) : c.thread \in found}
           n == Cardinality(rest)
           k == Min({n, EffectiveLimit(limit)})
           row == [i \in 1..k |-> CHOOSE c \in rest : Rank(rest, c) = i]
           page == ListConversations(among, found, before, limit)
           shown == {page[i] : i \in DOMAIN page}
           next == NextCursor(page, limit)
<1>1. page = [i \in 1..k |-> (CHOOSE c \in rest : Rank(rest, c) = i).thread]
  BY DEF ListConversations, Rank, Higher
<1>2. Listed(rest)
  OBVIOUS
<1> HIDE DEF rest, page
<1>3. /\ n \in Nat /\ \A c \in rest : Rank(rest, c) \in 1..n
      /\ \A c, d \in rest : Rank(rest, c) = Rank(rest, d) => c = d
      /\ \A i \in 1..n : \E c \in rest : Rank(rest, c) = i
  BY <1>2, RankIs
<1> DEFINE e == EffectiveLimit(limit)
<1>4. e \in Nat \ {0}
  BY LimitIs
<1>5. k \in Nat /\ k <= n /\ k <= e /\ (k = n \/ k = e)
  <2>1. {n, e} \subseteq Nat /\ {n, e} # {}
    BY <1>3, <1>4
  <2> HIDE DEF n, e
  <2>2. Min({n, e}) \in {n, e} /\ \A y \in {n, e} : Min({n, e}) <= y
    BY <2>1, MinIs
  <2> QED
    BY <2>1, <2>2 DEF e
<1> HIDE DEF n, k, e
<1>6. \A i \in 1..k : row[i] \in rest /\ Rank(rest, row[i]) = i
  <2> HIDE DEF Rank
  <2>1. \A i \in 1..k : \E c \in rest : Rank(rest, c) = i
    BY <1>3, <1>5
  <2> QED
    BY <2>1
<1>7. Len(page) = k /\ DOMAIN page = 1..k /\ \A i \in 1..k : page[i] = row[i].thread
  BY <1>1, <1>5
<1> HIDE DEF row
<1>8. \A c \in rest : c.thread \in Nat \ {0} /\ c.activity \in Nat
  BY <1>2 DEF Listed
<1>9. \A c \in rest : c.thread \in shown <=> Rank(rest, c) <= k
  <2>1. ASSUME NEW c \in rest, Rank(rest, c) <= k PROVE c.thread \in shown
    <3>1. Rank(rest, c) \in 1..k
      BY <1>3, <1>5, <2>1
    <3>2. row[Rank(rest, c)] = c
      BY <1>3, <1>6, <3>1
    <3> QED
      BY <1>7, <3>1, <3>2
  <2>2. ASSUME NEW c \in rest, c.thread \in shown PROVE Rank(rest, c) <= k
    <3>1. PICK i \in 1..k : row[i].thread = c.thread
      BY <1>7, <2>2
    <3>2. row[i] = c
      BY <1>2, <1>6, <3>1 DEF Listed
    <3>3. Rank(rest, c) = i
      BY <1>6, <3>2
    <3> QED
      BY <1>5, <3>3
  <2> QED
    BY <2>1, <2>2
<1>10. shown \subseteq {c.thread : c \in rest}
  BY <1>6, <1>7
<1>11. next = (IF page # <<>> /\ k = e THEN page[k] ELSE NoCursor)
  BY <1>7 DEF NextCursor, Last, e
<1>12. page # <<>> <=> k # 0
  <2>1. k = 0 => page = <<>>
    <3>1. k = 0 => 1..k = {}
      BY <1>5
    <3> QED
      BY <1>1, <3>1
  <2>2. page = <<>> => k = 0
    BY <1>7
  <2> QED
    BY <2>1, <2>2
<1>13. CASE k # 0 /\ k = e
  <2>1. k \in 1..k
    BY <1>5, <1>13
  <2>2. row[k] \in rest /\ Rank(rest, row[k]) = k /\ next = row[k].thread
    BY <1>6, <1>7, <1>11, <1>12, <1>13, <2>1
  <2>3. next # NoCursor
    BY <1>8, <2>2 DEF NoCursor
  <2>4. ASSUME NEW c \in rest
        PROVE  /\ c.thread \in shown => c.activity >= row[k].activity
               /\ c.thread \notin shown => c.activity <= row[k].activity
    <3>1. c.activity \in Nat /\ row[k].activity \in Nat /\ Rank(rest, c) \in Nat
      BY <1>3, <1>8, <2>2
    <3>2. c.activity > row[k].activity => Rank(rest, c) < k
      <4> HIDE DEF Rank
      <4>1. c.activity > row[k].activity => Above(c, row[k])
        BY DEF Above
      <4> QED
        BY <1>2, <2>2, <4>1, RankGrows
    <3>3. c.activity < row[k].activity => k < Rank(rest, c)
      <4> HIDE DEF Rank
      <4>1. c.activity < row[k].activity => Above(row[k], c)
        BY <3>1 DEF Above
      <4> QED
        BY <1>2, <2>2, <4>1, RankGrows
    <3> HIDE DEF shown
    <3> QED
      BY <1>5, <1>9, <3>1, <3>2, <3>3
  <2> QED
    BY <1>10, <2>2, <2>3, <2>4 DEF Shows, rest, page
<1>14. CASE ~(k # 0 /\ k = e)
  <2>1. next = NoCursor
    BY <1>11, <1>12, <1>14
  <2>2. k = n
    BY <1>4, <1>5, <1>14, <1>3
  <2>3. \A c \in rest : c.thread \in shown
    <3> HIDE DEF shown
    <3> QED
      BY <1>3, <1>9, <2>2
  <2> QED
    BY <1>10, <2>1, <2>3 DEF Shows, rest, page
<1> QED
  BY <1>13, <1>14
(* What a turn makes of the reader p; rest is what the page is taken from. *)
Rest(p, before) == {c \in Older(convs, before) : c.thread \in Found(p.words)}
Turned(p, before, q) ==
  /\ Shaped(q)
  /\ q.limit = p.limit /\ q.words = p.words /\ q.first = p.first
  /\ q.rose = p.rose /\ q.sank = p.sank
  /\ q.used = (IF before = NoCursor THEN p.used ELSE p.used \cup {before})
  /\ q.cut <=> p.cut \/ (before # NoCursor /\ before \notin Threads)
  /\ q.tied = p.tied \cup {c.thread : c \in {c \in convs :
                             \E d \in convs : d.thread = before /\ c.activity = d.activity}}
  /\ q.state = (IF q.cursor = NoCursor THEN "end" ELSE "more")
  /\ \E shown : /\ Shows(Rest(p, before), shown, q.cursor)
                /\ q.seen = p.seen \cup shown /\ q.twice = p.twice \cup (shown \cap p.seen)

(* The conversations that are in the list at all. *)
LEMMA RestIs ==
  ASSUME NumbersOK, ConvsOK, NEW p, NEW before
  PROVE  /\ Rest(p, before) \subseteq convs /\ Listed(Rest(p, before))
         /\ \A c \in convs : c.thread \in 1..lastConv /\ c.activity \in Nat /\ c.thread # 0
<1>1. Rest(p, before) \subseteq convs
  BY DEF Rest, Older
<1>2. lastConv \in Nat /\ now \in Nat
  BY NumbersAre
<1>3. \A c \in convs : c.thread \in 1..lastConv /\ c.activity \in Nat /\ c.thread \in Nat \ {0}
  BY <1>2 DEF ConvsOK
<1>4. IsFiniteSet(Rest(p, before))
  BY <1>1, FS_Subset DEF ConvsOK
<1> QED
  BY <1>1, <1>3, <1>4 DEF ConvsOK, Listed

LEMMA TurnIs ==
  ASSUME NumbersOK, ConvsOK, NEW p, Shaped(p), p.limit \in Nat, NEW before
  PROVE  Turned(p, before, Turn(p, before))
<1> DEFINE page == ListConversations(convs, Found(p.words), before, p.limit)
           next == NextCursor(page, p.limit)
           shown == {page[i] : i \in DOMAIN page}
           state == IF next = NoCursor THEN "end" ELSE "more"
           used == IF before = NoCursor THEN p.used ELSE p.used \cup {before}
           gone == before # NoCursor /\ before \notin Threads
           ties == {c.thread : c \in {c \in convs :
                             \E d \in convs : d.thread = before /\ c.activity = d.activity}}
           seen == p.seen \cup shown
           twice == p.twice \cup (shown \cap p.seen)
           cut == p.cut \/ gone
           tied == p.tied \cup ties
           q == [p EXCEPT !.state = state, !.cursor = next, !.seen = seen, !.twice = twice,
                          !.used = used, !.cut = cut, !.tied = tied]
<1>1. Turn(p, before) = q
  BY Zenon DEF Turn
<1>2. Shows(Rest(p, before), shown, next)
  <2>1. Listed(Rest(p, before))
    BY RestIs
  <2> QED
    BY <2>1, PageIs, Zenon DEF Rest
<1>3. state = (IF next = NoCursor THEN "end" ELSE "more")
  OBVIOUS
<1> HIDE DEF page, next, shown, state, gone, ties
<1>4. /\ seen = p.seen \cup shown /\ twice = p.twice \cup (shown \cap p.seen)
      /\ (cut <=> p.cut \/ gone) /\ tied = p.tied \cup ties
      /\ used = (IF before = NoCursor THEN p.used ELSE p.used \cup {before})
  OBVIOUS
<1> HIDE DEF seen, twice, cut, tied, used
<1>5. /\ Shaped(q) /\ q.state = state /\ q.limit = p.limit /\ q.words = p.words /\ q.cursor = next
      /\ q.first = p.first /\ q.seen = seen /\ q.twice = twice /\ q.rose = p.rose
      /\ q.sank = p.sank /\ q.tied = tied /\ q.used = used /\ q.cut = cut
  BY DEF Shaped
<1> HIDE DEF q
<1>6. q.cut <=> p.cut \/ (before # NoCursor /\ before \notin Threads)
  BY <1>4, <1>5, Zenon DEF gone
<1> QED
  BY <1>1, <1>2, <1>3, <1>4, <1>5, <1>6, Zenon DEF Turned, ties

(* What is left of the reader when a conversation moves or is deleted. *)
Shifted(q, from, to, thread) ==
  /\ Shaped(q)
  /\ q.state = reader.state /\ q.limit = reader.limit /\ q.words = reader.words
  /\ q.cursor = reader.cursor /\ q.first = reader.first /\ q.seen = reader.seen
  /\ q.twice = reader.twice /\ q.tied = reader.tied /\ q.used = reader.used
  /\ q.cut = reader.cut
  /\ q.rose = (IF to > from THEN reader.rose \cup {thread} ELSE reader.rose)
  /\ q.sank = (IF to < from THEN reader.sank \cup {thread} ELSE reader.sank)

LEMMA MovedIs ==
  ASSUME Shaped(reader), NEW from \in Nat, NEW to \in Nat, NEW thread
  PROVE  Shifted(Moved(from, to, thread), from, to, thread)
<1> DEFINE rose == reader.rose \cup {thread}
           sank == reader.sank \cup {thread}
           up == [reader EXCEPT !.rose = rose]
           down == [reader EXCEPT !.sank = sank]
<1> HIDE DEF rose, sank
<1>1. /\ Shaped(up)
      /\ up.state = reader.state /\ up.limit = reader.limit /\ up.words = reader.words
      /\ up.cursor = reader.cursor /\ up.first = reader.first /\ up.seen = reader.seen
      /\ up.twice = reader.twice /\ up.tied = reader.tied /\ up.used = reader.used
      /\ up.cut = reader.cut /\ up.rose = rose /\ up.sank = reader.sank
  BY DEF Shaped
<1>2. /\ Shaped(down)
      /\ down.state = reader.state /\ down.limit = reader.limit /\ down.words = reader.words
      /\ down.cursor = reader.cursor /\ down.first = reader.first /\ down.seen = reader.seen
      /\ down.twice = reader.twice /\ down.tied = reader.tied /\ down.used = reader.used
      /\ down.cut = reader.cut /\ down.rose = reader.rose /\ down.sank = sank
  BY DEF Shaped
<1>3. [reader EXCEPT !.rose = @ \cup {thread}] = up /\ [reader EXCEPT !.sank = @ \cup {thread}] = down
  BY DEF rose, sank
<1> HIDE DEF up, down
<1>4. CASE to > from
  <2>1. ~(to < from)
    BY <1>4
  <2>2. Moved(from, to, thread) = up
    BY <1>3, <1>4, <2>1 DEF Moved
  <2> QED
    BY <1>1, <1>4, <2>1, <2>2 DEF rose, Shifted
<1>5. CASE to < from
  <2>1. ~(to > from)
    BY <1>5
  <2>2. Moved(from, to, thread) = down
    BY <1>3, <1>5, <2>1 DEF Moved
  <2> QED
    BY <1>2, <1>5, <2>1, <2>2 DEF sank, Shifted
<1>6. CASE ~(to > from) /\ ~(to < from)
  <2>1. Moved(from, to, thread) = reader
    BY <1>6 DEF Moved
  <2> QED
    BY <1>6, <2>1 DEF Shifted
<1> QED
  BY <1>4, <1>5, <1>6

LEMMA StillFoundIs ==
  ASSUME Shaped(reader), NEW stored, NEW among
  PROVE  LET q == StillFound(stored, among)
         IN  /\ Shaped(q)
             /\ q.state = reader.state /\ q.limit = reader.limit /\ q.words = reader.words
             /\ q.cursor = reader.cursor /\ q.seen = reader.seen
             /\ q.twice = reader.twice /\ q.tied = reader.tied /\ q.used = reader.used
             /\ q.cut = reader.cut /\ q.rose = reader.rose /\ q.sank = reader.sank
             /\ q.first = reader.first \cap FoundIn(stored, among, reader.words)
<1> DEFINE first == reader.first \cap FoundIn(stored, among, reader.words)
           q == [reader EXCEPT !.first = first]
<1>1. StillFound(stored, among) = q
  BY Zenon DEF StillFound
<1>2. first = reader.first \cap FoundIn(stored, among, reader.words)
  OBVIOUS
<1> HIDE DEF first
<1>3. /\ Shaped(q)
      /\ q.state = reader.state /\ q.limit = reader.limit /\ q.words = reader.words
      /\ q.cursor = reader.cursor /\ q.seen = reader.seen
      /\ q.twice = reader.twice /\ q.tied = reader.tied /\ q.used = reader.used
      /\ q.cut = reader.cut /\ q.rose = reader.rose /\ q.sank = reader.sank
      /\ q.first = first
  BY DEF Shaped
<1> HIDE DEF q
<1> QED
  BY <1>1, <1>2, <1>3
-----------------------------------------------------------------------------
(* The reader *)

(* The reader sees what he saw, in a store that only grew. *)
LEMMA FoundGrows ==
  ASSUME NEW old, NEW new, NEW before, NEW after, NEW words, old \subseteq new,
         \A c \in before : \E d \in after : d.thread = c.thread
  PROVE  FoundIn(old, before, words) \subseteq FoundIn(new, after, words)
BY DEF FoundIn

(* A page is turned: what was seen is above the new cursor, the rest below. *)
LEMMA TurnsPage ==
  ASSUME NumbersOK, ConvsOK, ReaderOK, BelowOK, AboveOK, PagesAddUp, NextPage
  PROVE  ReaderOK' /\ BelowOK' /\ AboveOK' /\ PagesAddUp'
<1> DEFINE p == reader
           q == reader'
           k == reader.cursor
<1>1. /\ p.state = "more" /\ q = Turn(p, k)
      /\ rows' = rows /\ convs' = convs /\ lastConv' = lastConv
  BY DEF NextPage, store
<1>2. Turned(p, k, q) /\ k # NoCursor /\ p.limit \in Nat /\ lastConv \in Nat
  BY <1>1, TurnIs, NumbersAre DEF ReaderOK
<1>3. /\ Shaped(q) /\ q.limit = p.limit /\ q.words = p.words /\ q.first = p.first
      /\ q.rose = p.rose /\ q.sank = p.sank /\ q.used = p.used \cup {k}
      /\ (q.cut <=> p.cut \/ k \notin Threads)
      /\ q.tied = p.tied \cup {c.thread : c \in {c \in convs :
                             \E d \in convs : d.thread = k /\ c.activity = d.activity}}
      /\ q.state = (IF q.cursor = NoCursor THEN "end" ELSE "more")
  BY <1>2 DEF Turned
<1>4. PICK shown : /\ Shows(Rest(p, k), shown, q.cursor)
                   /\ q.seen = p.seen \cup shown /\ q.twice = p.twice \cup (shown \cap p.seen)
  BY <1>2 DEF Turned
<1>5. /\ \A c \in Rest(p, k) : c \in convs /\ c.thread \in Found(p.words)
                               /\ \E d \in convs : d.thread = k /\ c.activity < d.activity
      /\ \A c \in convs : c.thread \in Found(p.words)
           /\ (\E d \in convs : d.thread = k /\ c.activity < d.activity) => c \in Rest(p, k)
  BY <1>2 DEF Rest, Older
<1>6. /\ \A c \in convs : c.thread \in 1..lastConv /\ c.activity \in Nat /\ c.thread # 0
      /\ \A c, d \in convs : c.thread = d.thread => c = d
  BY RestIs DEF ConvsOK
<1>7. p.seen \subseteq 1..lastConv /\ p.first \subseteq Found(p.words)
  BY DEF ReaderOK
<1>8. /\ shown \subseteq {c.thread : c \in Rest(p, k)}
      /\ q.cursor = NoCursor => {c.thread : c \in Rest(p, k)} \subseteq shown
      /\ q.cursor # NoCursor =>
           \E n \in Rest(p, k) :
             /\ n.thread = q.cursor
             /\ \A c \in Rest(p, k) : /\ c.thread \in shown => c.activity >= n.activity
                                      /\ c.thread \notin shown => c.activity <= n.activity
  BY <1>4 DEF Shows
<1> HIDE DEF p, q, k
<1>9. \A t \in shown : t \in 1..lastConv
  BY <1>5, <1>6, <1>8
<1>10. q.cursor \in 0..lastConv
  BY <1>2, <1>5, <1>6, <1>8 DEF NoCursor
<1>11. ReaderOK'
  <2>1. q.seen \subseteq 1..lastConv
    BY <1>4, <1>7, <1>9
  <2>2. q.first \subseteq FoundIn(rows', convs', q.words)
    <3>1. FoundIn(rows', convs', q.words) = Found(q.words)
      BY <1>1 DEF Found
    <3> QED
      BY <1>3, <1>7, <3>1
  <2> QED
    BY <1>1, <1>2, <1>3, <1>10, <2>1, <2>2 DEF ReaderOK, Found, q
(* What is not yet seen, unless it moved, is in the rest. *)
<1>12. ASSUME ~q.cut, q.used \cap q.sank = {},
              NEW c \in convs, c.thread \in q.first \ (p.seen \cup q.rose \cup q.tied)
       PROVE  c \in Rest(p, k)
  <2>1. PICK d \in convs : d.thread = k
    BY <1>3, <1>12 DEF Threads
  <2>2. ~p.cut /\ p.used \cap p.sank = {} /\ k \notin p.sank
    BY <1>3, <1>12
  <2>3. c.thread \in p.first \ (p.seen \cup p.rose \cup p.tied)
    BY <1>3, <1>12
  <2>4. c.activity <= d.activity
    BY <1>1, <2>1, <2>2, <2>3 DEF BelowOK, p, k
  <2>5. c.activity # d.activity
    BY <1>3, <1>12, <2>1
  <2>6. c.activity < d.activity
    BY <1>6, <2>4, <2>5
  <2>7. c.thread \in Found(p.words)
    BY <1>7, <2>3
  <2> QED
    BY <1>5, <2>1, <2>6, <2>7
<1>13. BelowOK'
  <2> SUFFICES ASSUME q.state = "more", ~q.cut, q.used \cap q.sank = {},
                      NEW d \in convs, d.thread = q.cursor, d.thread \notin q.sank,
                      NEW c \in convs, c.thread \in q.first \ (q.seen \cup q.rose \cup q.tied)
               PROVE  c.activity <= d.activity
    BY <1>1 DEF BelowOK, q
  <2>1. q.cursor # NoCursor
    BY <1>3
  <2>2. PICK n \in Rest(p, k) :
             /\ n.thread = q.cursor
             /\ \A j \in Rest(p, k) : j.thread \notin shown => j.activity <= n.activity
    BY <1>8, <2>1
  <2>3. n = d
    BY <1>5, <1>6, <2>2
  <2>4. c.thread \notin shown /\ c.thread \notin p.seen
    BY <1>4
  <2>5. c \in Rest(p, k)
    BY <1>12, <2>4
  <2> QED
    BY <2>2, <2>3, <2>4, <2>5
<1>14. AboveOK'
  <2> SUFFICES ASSUME q.state = "more", q.used \cap q.rose = {},
                      NEW d \in convs, d.thread = q.cursor, d.thread \notin q.rose,
                      NEW c \in convs, c.thread \in q.seen \ q.sank
               PROVE  c.activity >= d.activity
    BY <1>1 DEF AboveOK, q
  <2>1. q.cursor # NoCursor
    BY <1>3
  <2>2. PICK n \in Rest(p, k) :
             /\ n.thread = q.cursor
             /\ \A j \in Rest(p, k) : j.thread \in shown => j.activity >= n.activity
    BY <1>8, <2>1
  <2>3. n = d
    BY <1>5, <1>6, <2>2
  <2>4. CASE c.thread \in shown
    <3>1. PICK j \in Rest(p, k) : j.thread = c.thread
      BY <1>8, <2>4
    <3>2. j = c
      BY <1>5, <1>6, <3>1
    <3> QED
      BY <2>2, <2>3, <2>4, <3>1, <3>2
  <2>5. CASE c.thread \in p.seen
    <3>1. PICK e \in convs : e.thread = k /\ n.activity < e.activity
      BY <1>5
    <3>2. p.used \cap p.rose = {} /\ k \notin p.rose /\ c.thread \in p.seen \ p.sank
      BY <1>3, <2>5
    <3>3. c.activity >= e.activity
      BY <1>1, <3>1, <3>2 DEF AboveOK, p, k
    <3> QED
      BY <1>6, <2>3, <3>1, <3>3
  <2> QED
    BY <1>4, <2>4, <2>5
<1>15. PagesAddUp'
  <2>1. ASSUME q.state = "end", NEW t \in q.first
        PROVE  t \in q.seen \cup q.rose \cup q.tied \/ q.used \cap q.sank # {} \/ q.cut
    <3> SUFFICES ASSUME ~q.cut, q.used \cap q.sank = {}, t \notin q.seen \cup q.rose \cup q.tied
                 PROVE  FALSE
      OBVIOUS
    <3>1. q.cursor = NoCursor
      BY <1>3, <2>1
    <3>2. PICK c \in convs : c.thread = t
      BY <1>3, <1>7, <2>1 DEF Found, FoundIn
    <3>3. c \in Rest(p, k)
      BY <1>4, <1>12, <2>1, <3>2
    <3> QED
      BY <1>4, <1>8, <3>1, <3>2, <3>3
  <2>2. ASSUME NEW t \in q.twice
        PROVE  t \in q.sank \/ q.used \cap q.rose # {}
    <3>1. CASE t \in p.twice
      <4>1. t \in p.sank \/ p.used \cap p.rose # {}
        BY <3>1 DEF PagesAddUp, p
      <4> QED
        BY <1>3, <4>1
    <3>2. CASE t \in shown \cap p.seen
      <4> SUFFICES ASSUME t \notin q.sank, q.used \cap q.rose = {}
                   PROVE  FALSE
        OBVIOUS
      <4>1. PICK c \in Rest(p, k) : c.thread = t
        BY <1>8, <3>2
      <4>2. c \in convs
        BY <1>5
      <4>3. PICK d \in convs : d.thread = k /\ c.activity < d.activity
        BY <1>5
      <4>4. p.used \cap p.rose = {} /\ k \notin p.rose /\ c.thread \in p.seen \ p.sank
        BY <1>3, <3>2, <4>1
      <4>5. c.activity >= d.activity
        BY <1>1, <4>2, <4>3, <4>4 DEF AboveOK, p, k
      <4> QED
        BY <1>6, <4>2, <4>3, <4>5
    <3> QED
      BY <1>4, <2>2, <3>1, <3>2
  <2> QED
    BY <2>1, <2>2 DEF PagesAddUp, q
<1> QED
  BY <1>11, <1>13, <1>14, <1>15
(* The first page: nothing moved yet. *)
LEMMA OpensList ==
  ASSUME NumbersOK, ConvsOK, NEW ask \in scene.asks, OpenList(ask)
  PROVE  ReaderOK' /\ BelowOK' /\ AboveOK' /\ PagesAddUp'
<1> DEFINE p == [Shut EXCEPT !.limit = ask.limit, !.words = ask.words, !.first = Found(ask.words)]
           q == reader'
<1>1. /\ q = Turn(p, NoCursor)
      /\ rows' = rows /\ convs' = convs /\ lastConv' = lastConv
  BY DEF OpenList, store
<1>2. ask.limit \in Nat /\ lastConv \in Nat
  BY SceneIs, NumbersAre
<1> DEFINE limit == ask.limit
           words == ask.words
           first == Found(ask.words)
<1>3. /\ Shaped(p) /\ p.limit = limit /\ p.words = words /\ p.first = first
      /\ p.seen = {} /\ p.twice = {} /\ p.rose = {} /\ p.sank = {} /\ p.used = {}
  <2> HIDE DEF limit, words, first
  <2>1. p = [Shut EXCEPT !.limit = limit, !.words = words, !.first = first]
    BY DEF limit, words, first
  <2> HIDE DEF p
  <2> QED
    BY <2>1 DEF Shut, Shaped
<1> HIDE DEF p
<1>4. Turned(p, NoCursor, q)
  BY <1>1, <1>2, <1>3, TurnIs
<1>5. /\ Shaped(q) /\ q.limit = limit /\ q.words = words /\ q.first = first
      /\ q.rose = {} /\ q.sank = {} /\ q.used = {}
      /\ q.state = (IF q.cursor = NoCursor THEN "end" ELSE "more")
  BY <1>3, <1>4 DEF Turned
<1>6. PICK shown : /\ Shows(Rest(p, NoCursor), shown, q.cursor)
                   /\ q.seen = shown /\ q.twice = {}
  BY <1>3, <1>4 DEF Turned
<1>7. Rest(p, NoCursor) = {c \in convs : c.thread \in first}
  BY <1>3 DEF Rest, Older
<1>8. /\ \A c \in convs : c.thread \in 1..lastConv /\ c.activity \in Nat /\ c.thread # 0
      /\ \A c, d \in convs : c.thread = d.thread => c = d
  BY RestIs DEF ConvsOK
<1>9. /\ shown \subseteq {c.thread : c \in Rest(p, NoCursor)}
      /\ q.cursor = NoCursor => {c.thread : c \in Rest(p, NoCursor)} \subseteq shown
      /\ q.cursor # NoCursor =>
           \E n \in Rest(p, NoCursor) :
             /\ n.thread = q.cursor
             /\ \A c \in Rest(p, NoCursor) : /\ c.thread \in shown => c.activity >= n.activity
                                             /\ c.thread \notin shown => c.activity <= n.activity
  BY <1>6 DEF Shows
<1>10. FoundIn(rows', convs', words) = first
  BY <1>1 DEF Found
<1> HIDE DEF q, first, words, limit
<1>11. ReaderOK'
  <2>1. q.seen \subseteq 1..lastConv
    BY <1>6, <1>7, <1>8, <1>9
  <2>2. q.cursor \in 0..lastConv
    BY <1>2, <1>7, <1>8, <1>9 DEF NoCursor
  <2>3. q.first \subseteq FoundIn(rows', convs', q.words)
    BY <1>5, <1>10
  <2> QED
    BY <1>1, <1>2, <1>5, <2>1, <2>2, <2>3 DEF ReaderOK, Found, limit, q
<1>12. ASSUME NEW d \in convs, d.thread = q.cursor
       PROVE  \A c \in convs : c.thread \in first =>
                /\ c.thread \in shown => c.activity >= d.activity
                /\ c.thread \notin shown => c.activity <= d.activity
  <2>1. q.cursor # NoCursor
    BY <1>8, <1>12 DEF NoCursor
  <2>2. PICK n \in Rest(p, NoCursor) :
             /\ n.thread = q.cursor
             /\ \A c \in Rest(p, NoCursor) : /\ c.thread \in shown => c.activity >= n.activity
                                             /\ c.thread \notin shown => c.activity <= n.activity
    BY <1>9, <2>1
  <2>3. n = d
    BY <1>7, <1>8, <1>12, <2>2
  <2> QED
    BY <1>7, <2>2, <2>3
<1>13. \A t \in shown : t \in first
  BY <1>7, <1>9
<1>14. BelowOK'
  BY <1>1, <1>5, <1>6, <1>12 DEF BelowOK, q
<1>15. AboveOK'
  BY <1>1, <1>6, <1>12, <1>13 DEF AboveOK, q
<1>16. PagesAddUp'
  <2>1. ASSUME q.state = "end", NEW t \in q.first
        PROVE  t \in q.seen
    <3>1. q.cursor = NoCursor
      BY <1>5, <2>1
    <3>2. PICK c \in convs : c.thread = t
      BY <1>5, <2>1 DEF first, Found, FoundIn
    <3> QED
      BY <1>5, <1>6, <1>7, <1>9, <2>1, <3>1, <3>2
  <2> QED
    BY <1>6, <2>1 DEF PagesAddUp, q
<1> QED
  BY <1>11, <1>14, <1>15, <1>16

(* What the reader saw is right as long as he is told of everything that moved. *)
LEMMA KeepsPages ==
  ASSUME ReaderOK, BelowOK, AboveOK, PagesAddUp, Shaped(reader'),
         reader'.state = reader.state, reader'.limit = reader.limit,
         reader'.words = reader.words, reader'.cursor = reader.cursor,
         reader'.seen = reader.seen, reader'.twice = reader.twice, reader'.tied = reader.tied,
         reader'.used = reader.used, reader'.cut = reader.cut,
         reader.rose \subseteq reader'.rose, reader.sank \subseteq reader'.sank,
         reader'.first \subseteq reader.first,
         reader'.first \subseteq FoundIn(rows', convs', reader.words),
         lastConv \in Nat, lastConv' \in Nat, lastConv <= lastConv',
         \A c \in convs : c.activity \in Nat /\ c.thread \in 1..lastConv,
         \A c \in convs' : c.activity \in Nat,
         \A c \in convs' : c.thread \in 1..lastConv =>
           \E d \in convs : /\ d.thread = c.thread
                            /\ c.activity > d.activity => c.thread \in reader'.rose
                            /\ c.activity < d.activity => c.thread \in reader'.sank
  PROVE  ReaderOK' /\ BelowOK' /\ AboveOK' /\ PagesAddUp'
<1> DEFINE p == reader
           q == reader'
<1>1. \A c \in convs' : c.thread \in 0..lastConv => c.thread = 0 \/ c.thread \in 1..lastConv
  OBVIOUS
<1>2. /\ q.cursor \in 0..lastConv /\ q.seen \subseteq 1..lastConv
      /\ \A t \in q.first : t \in 1..lastConv
  BY DEF ReaderOK, Found, FoundIn
<1>3. q.state = "more" => q.cursor # 0
  BY DEF ReaderOK, NoCursor
<1>4. ReaderOK'
  <2>1. q.cursor \in 0..lastConv' /\ q.seen \subseteq 1..lastConv'
    BY <1>2
  <2> QED
    BY <2>1 DEF ReaderOK, Found
<1>5. BelowOK'
  <2> SUFFICES ASSUME q.state = "more", ~q.cut, q.used \cap q.sank = {},
                      NEW d \in convs', d.thread = q.cursor, d.thread \notin q.sank,
                      NEW c \in convs', c.thread \in q.first \ (q.seen \cup q.rose \cup q.tied)
               PROVE  c.activity <= d.activity
    BY DEF BelowOK
  <2>1. PICK d0 \in convs : d0.thread = d.thread /\ d0.activity <= d.activity
    BY <1>1, <1>2, <1>3
  <2>2. PICK c0 \in convs : c0.thread = c.thread /\ c.activity <= c0.activity
    BY <1>2
  <2>3. c0.activity <= d0.activity
    BY <2>1, <2>2 DEF BelowOK
  <2> QED
    BY <2>1, <2>2, <2>3
<1>6. AboveOK'
  <2> SUFFICES ASSUME q.state = "more", q.used \cap q.rose = {},
                      NEW d \in convs', d.thread = q.cursor, d.thread \notin q.rose,
                      NEW c \in convs', c.thread \in q.seen \ q.sank
               PROVE  c.activity >= d.activity
    BY DEF AboveOK
  <2>1. PICK d0 \in convs : d0.thread = d.thread /\ d.activity <= d0.activity
    BY <1>1, <1>2, <1>3
  <2>2. PICK c0 \in convs : c0.thread = c.thread /\ c0.activity <= c.activity
    BY <1>2
  <2>3. c0.activity >= d0.activity
    BY <2>1, <2>2 DEF AboveOK
  <2> QED
    BY <2>1, <2>2, <2>3
<1>7. PagesAddUp'
  BY DEF PagesAddUp
<1> QED
  BY <1>4, <1>5, <1>6, <1>7

LEMMA ReaderNext ==
  ASSUME IInv, [Next]_vars
  PROVE  ReaderOK' /\ BelowOK' /\ AboveOK' /\ PagesAddUp'
<1>0. /\ NumbersOK /\ RowsOK /\ ConvsOK /\ MailOK /\ ReaderOK /\ BelowOK /\ AboveOK /\ PagesAddUp
      /\ NumbersOK' /\ ConvsOK'
  BY NumbersNext, ConvsNext DEF IInv
<1>1. /\ lastConv \in Nat /\ lastConv' \in Nat /\ now \in Nat /\ now' \in Nat
      /\ Shaped(reader) /\ reader.first \subseteq FoundIn(rows, convs, reader.words)
  BY <1>0, NumbersAre, Grows DEF NumbersOK, ReaderOK, Found
<1>2. /\ \A c \in convs : c.activity \in Nat /\ c.thread \in 1..lastConv
      /\ \A c \in convs' : c.activity \in Nat
  BY <1>0, <1>1 DEF ConvsOK
<1> HIDE DEF IInv
<1>3. ASSUME UNCHANGED <<rows, convs, lastConv, reader>>
      PROVE  ReaderOK' /\ BelowOK' /\ AboveOK' /\ PagesAddUp'
  BY <1>0, <1>3 DEF ReaderOK, BelowOK, AboveOK, PagesAddUp, Found
<1>4. Calm => UNCHANGED <<rows, convs, lastConv, reader>>
  BY DEF Calm
<1>5. ASSUME NEW c, NEW m, Arrives(c, m) PROVE UNCHANGED <<rows, convs, lastConv, reader>>
  BY <1>5 DEF Arrives, store
<1>6. Tick => UNCHANGED <<rows, convs, lastConv, reader>>
  BY DEF Tick, store
<1>7. ASSUME NEW c \in Carriers, Commit(c)
      PROVE  ReaderOK' /\ BelowOK' /\ AboveOK' /\ PagesAddUp'
  <2>1. c \in Pending /\ \E r, e : (\E d : Joins(mail[c], r, d, e)) \/ Opens(mail[c], r, e)
    BY <1>7, CommitIs
  <2>2. mail[c].created \in Nat
    BY <1>0, <2>1, RowIs DEF MailOK, Arrived
  <2>3. ASSUME NEW r, NEW e, NEW d, Joins(mail[c], r, d, e)
        PROVE  ReaderOK' /\ BelowOK' /\ AboveOK' /\ PagesAddUp'
    <3>1. /\ d \in convs /\ e.thread = d.thread /\ e.activity = mail[c].created
          /\ rows' = rows \cup {r} /\ convs' = (convs \ {d}) \cup {e}
          /\ reader' = Moved(d.activity, e.activity, d.thread) /\ lastConv' = lastConv
      BY <2>3 DEF Joins
    <3>2. d.activity \in Nat /\ e.activity \in Nat
      BY <1>2, <2>2, <3>1
    <3>3. /\ Shaped(reader')
          /\ reader'.state = reader.state /\ reader'.limit = reader.limit
          /\ reader'.words = reader.words /\ reader'.cursor = reader.cursor
          /\ reader'.first = reader.first /\ reader'.seen = reader.seen
          /\ reader'.twice = reader.twice /\ reader'.tied = reader.tied
          /\ reader'.used = reader.used /\ reader'.cut = reader.cut
          /\ reader'.rose = (IF e.activity > d.activity THEN reader.rose \cup {d.thread} ELSE reader.rose)
          /\ reader'.sank = (IF e.activity < d.activity THEN reader.sank \cup {d.thread} ELSE reader.sank)
      <4>1. Shifted(reader', d.activity, e.activity, d.thread)
        BY <1>1, <3>1, <3>2, MovedIs
      <4> QED
        BY <4>1 DEF Shifted
    <3>4. FoundIn(rows, convs, reader.words) \subseteq FoundIn(rows', convs', reader.words)
      <4>1. \A a \in convs : \E b \in convs' : b.thread = a.thread
        BY <3>1
      <4>2. rows \subseteq rows'
        BY <3>1
      <4> QED
        BY <4>1, <4>2, FoundGrows
    <3>5. \A b \in convs' : b.thread \in 1..lastConv =>
            \E a \in convs : /\ a.thread = b.thread
                             /\ b.activity > a.activity => b.thread \in reader'.rose
                             /\ b.activity < a.activity => b.thread \in reader'.sank
      <4> SUFFICES ASSUME NEW b \in convs'
                   PROVE  \E a \in convs : /\ a.thread = b.thread
                                           /\ b.activity > a.activity => b.thread \in reader'.rose
                                           /\ b.activity < a.activity => b.thread \in reader'.sank
        OBVIOUS
      <4>1. CASE b = e
        BY <3>1, <3>3, <4>1
      <4>2. CASE b \in convs
        <5>1. ~(b.activity > b.activity) /\ ~(b.activity < b.activity)
          BY <1>2
        <5> QED
          BY <4>2, <5>1
      <4> QED
        BY <3>1, <4>1, <4>2
    <3>6. /\ reader.rose \subseteq reader'.rose /\ reader.sank \subseteq reader'.sank
          /\ reader'.first \subseteq reader.first
          /\ reader'.first \subseteq FoundIn(rows', convs', reader.words)
      BY <1>1, <3>3, <3>4
    <3>7. lastConv <= lastConv'
      BY <1>1, <3>1
    <3>8. Shaped(reader') /\ lastConv \in Nat /\ lastConv' \in Nat
      BY <1>1, <3>3
    <3> QED
      BY <1>0, <1>2, <3>3, <3>5, <3>6, <3>7, <3>8, KeepsPages, Zenon
  <2>4. ASSUME NEW r, NEW e, Opens(mail[c], r, e)
        PROVE  ReaderOK' /\ BelowOK' /\ AboveOK' /\ PagesAddUp'
    <3>1. /\ e.thread = lastConv + 1
          /\ rows' = rows \cup {r} /\ convs' = convs \cup {e}
          /\ reader' = reader /\ lastConv' = lastConv + 1
      BY <2>4 DEF Opens
    <3>2. FoundIn(rows, convs, reader.words) \subseteq FoundIn(rows', convs', reader.words)
      <4>1. \A a \in convs : \E b \in convs' : b.thread = a.thread
        BY <3>1
      <4>2. rows \subseteq rows'
        BY <3>1
      <4> QED
        BY <4>1, <4>2, FoundGrows
    <3>3. \A b \in convs' : b.thread \in 1..lastConv =>
            \E a \in convs : /\ a.thread = b.thread
                             /\ b.activity > a.activity => b.thread \in reader'.rose
                             /\ b.activity < a.activity => b.thread \in reader'.sank
      <4> SUFFICES ASSUME NEW b \in convs', b.thread \in 1..lastConv
                   PROVE  \E a \in convs : /\ a.thread = b.thread
                                           /\ b.activity > a.activity => b.thread \in reader'.rose
                                           /\ b.activity < a.activity => b.thread \in reader'.sank
        OBVIOUS
      <4>1. b \in convs
        BY <1>1, <3>1
      <4>2. ~(b.activity > b.activity) /\ ~(b.activity < b.activity)
        BY <1>2, <4>1
      <4> QED
        BY <4>1, <4>2
    <3>4. lastConv <= lastConv' /\ Shaped(reader')
      BY <1>1, <3>1
    <3>5. reader'.first \subseteq FoundIn(rows', convs', reader.words)
      <4>1. reader'.first = reader.first
        BY <3>1
      <4> QED
        BY <1>1, <3>2, <4>1
    <3>6. /\ reader'.state = reader.state /\ reader'.limit = reader.limit
          /\ reader'.words = reader.words /\ reader'.cursor = reader.cursor
          /\ reader'.first \subseteq reader.first /\ reader'.seen = reader.seen
          /\ reader'.twice = reader.twice /\ reader'.tied = reader.tied
          /\ reader'.used = reader.used /\ reader'.cut = reader.cut
          /\ reader.rose \subseteq reader'.rose /\ reader.sank \subseteq reader'.sank
      BY <3>1
    <3> QED
      BY <1>0, <1>1, <1>2, <3>3, <3>4, <3>5, <3>6, KeepsPages, Zenon
  <2> QED
    BY <2>1, <2>3, <2>4
<1>8. ASSUME NEW gone, Delete(gone)
      PROVE  ReaderOK' /\ BelowOK' /\ AboveOK' /\ PagesAddUp'
  <2>1. /\ convs' \subseteq convs /\ lastConv' = lastConv
        /\ reader' = StillFound(rows', convs')
    BY <1>8 DEF Delete
  <2>2. /\ Shaped(reader')
        /\ reader'.state = reader.state /\ reader'.limit = reader.limit
        /\ reader'.words = reader.words /\ reader'.cursor = reader.cursor
        /\ reader'.seen = reader.seen
        /\ reader'.twice = reader.twice /\ reader'.tied = reader.tied
        /\ reader'.used = reader.used /\ reader'.cut = reader.cut
        /\ reader.rose \subseteq reader'.rose /\ reader.sank \subseteq reader'.sank
        /\ reader'.first \subseteq reader.first
        /\ reader'.first \subseteq FoundIn(rows', convs', reader.words)
    <3>1. /\ Shaped(reader')
          /\ reader'.state = reader.state /\ reader'.limit = reader.limit
          /\ reader'.words = reader.words /\ reader'.cursor = reader.cursor
          /\ reader'.seen = reader.seen
          /\ reader'.twice = reader.twice /\ reader'.tied = reader.tied
          /\ reader'.used = reader.used /\ reader'.cut = reader.cut
          /\ reader'.rose = reader.rose /\ reader'.sank = reader.sank
          /\ reader'.first = reader.first \cap FoundIn(rows', convs', reader.words)
      BY <1>1, <2>1, StillFoundIs
    <3> HIDE DEF FoundIn, Shaped
    <3> QED
      BY <3>1
  <2>3. \A b \in convs' : b.thread \in 1..lastConv =>
            \E a \in convs : /\ a.thread = b.thread
                             /\ b.activity > a.activity => b.thread \in reader'.rose
                             /\ b.activity < a.activity => b.thread \in reader'.sank
    <3>1. \A b \in convs' : ~(b.activity > b.activity) /\ ~(b.activity < b.activity)
      BY <1>2
    <3> QED
      BY <2>1, <3>1
  <2>4. lastConv <= lastConv'
    BY <1>1, <2>1
  <2> QED
    BY <1>0, <1>1, <1>2, <2>2, <2>3, <2>4, KeepsPages, Zenon
<1>9. NextPage => ReaderOK' /\ BelowOK' /\ AboveOK' /\ PagesAddUp'
  BY <1>0, TurnsPage
<1>10. ASSUME NEW ask \in scene.asks, OpenList(ask)
       PROVE  ReaderOK' /\ BelowOK' /\ AboveOK' /\ PagesAddUp'
  BY <1>0, <1>10, OpensList
<1> QED
  BY StoreSteps, <1>3, <1>4, <1>5, <1>6, <1>7, <1>8, <1>9, <1>10, Zenon
-----------------------------------------------------------------------------
(* The invariant *)

(* What is stored already is sound. *)
LEMMA BoxIs ==
  ASSUME Init
  PROVE  NumbersOK /\ RowsOK /\ ConvsOK /\ \A r \in rows : r.via = "raw" /\ r.line = {}
<1>1. /\ scene \in Scenes /\ sends = 0 /\ deletions = 0
      /\ rows = scene.box.rows /\ convs = scene.box.convs
      /\ lastUlid = Max({0} \cup {r.ulid : r \in rows})
      /\ lastConv = Max({0} \cup {c.thread : c \in convs})
      /\ now = Max({0} \cup {c.activity : c \in convs} \cup {r.created : r \in rows})
  BY DEF Init
<1>2. /\ Sound(scene)
      /\ {scene.msgs, scene.sends, scene.deletions, scene.time} \subseteq Nat
  BY <1>1, ExchangeAssumption, Zenon
<1>3. scene.msgs \in Nat /\ scene.sends \in Nat /\ scene.deletions \in Nat /\ scene.time \in Nat
  BY <1>2
<1>4. /\ rows \subseteq Row /\ convs \subseteq Conv /\ IsFiniteSet(convs)
      /\ \A r \in rows :
           /\ r.ulid \in 1..scene.msgs /\ r.created <= scene.time
           /\ \E c \in convs : c.thread = r.thread
           /\ \A i \in DOMAIN r.bcc : r.bcc[i] # Nobody
           /\ r.via = "raw" /\ r.line = {}
      /\ \A c \in convs : c.activity <= scene.time
      /\ \A r, s \in rows : r.ulid = s.ulid => r = s
      /\ \A c, d \in convs : c.thread = d.thread => c = d
  BY <1>1, <1>2, Zenon DEF Sound
<1>5. \A c \in convs : /\ c = [thread |-> c.thread, key |-> c.key, activity |-> c.activity]
                       /\ c.thread \in Nat \ {0} /\ c.activity \in Nat
  <2> HIDE DEF Token
  <2> QED
    BY <1>4 DEF Conv
<1>6. \A r \in rows : r.created \in Nat
  BY <1>4, RowIs
<1>7. lastUlid \in 0..scene.msgs /\ \A r \in rows : r.ulid \in 1..lastUlid
  <2> DEFINE T == {0} \cup {r.ulid : r \in rows}
  <2>1. T \subseteq 0..scene.msgs /\ T # {}
    BY <1>3, <1>4
  <2>2. \A r \in rows : r.ulid \in T
    OBVIOUS
  <2> HIDE DEF T
  <2>3. Max(T) \in T /\ \A y \in T : y <= Max(T)
    BY <1>3, <2>1, MaxIs
  <2>4. lastUlid = Max(T)
    BY <1>1 DEF T
  <2> HIDE DEF Max
  <2>5. lastUlid \in T /\ \A y \in T : y <= lastUlid
    BY <2>3, <2>4
  <2> QED
    BY <1>3, <1>4, <2>1, <2>2, <2>5
<1>8. /\ now \in 0..scene.time
      /\ \A c \in convs : c.activity \in 0..now
      /\ \A r \in rows : r.created <= now
  <2> DEFINE T == {0} \cup {c.activity : c \in convs} \cup {r.created : r \in rows}
  <2>1. T \subseteq 0..scene.time /\ T # {}
    BY <1>3, <1>4, <1>5, <1>6
  <2>2. (\A c \in convs : c.activity \in T) /\ (\A r \in rows : r.created \in T)
    OBVIOUS
  <2> HIDE DEF T
  <2>3. Max(T) \in T /\ \A y \in T : y <= Max(T)
    BY <1>3, <2>1, MaxIs
  <2>4. now = Max(T)
    BY <1>1 DEF T
  <2> HIDE DEF Max
  <2>5. now \in T /\ \A y \in T : y <= now
    BY <2>3, <2>4
  <2> QED
    BY <1>3, <1>5, <2>1, <2>2, <2>5
<1>9. lastConv \in Nat /\ \A c \in convs : c.thread \in 1..lastConv
  <2> DEFINE g == [c \in convs |-> c.thread]
  <2>1. \A c \in convs : g[c] \in Nat
    BY <1>5
  <2>2. \E b \in Nat : \A c \in convs : g[c] <= b
    <3> HIDE DEF g
    <3> QED
      BY <1>4, <2>1, FiniteBound
  <2>3. PICK b \in Nat : \A c \in convs : c.thread <= b
    BY <2>2
  <2> DEFINE T == {0} \cup {c.thread : c \in convs}
  <2>4. T \subseteq 0..b /\ T # {}
    BY <1>5, <2>3
  <2>5. \A c \in convs : c.thread \in T
    OBVIOUS
  <2> HIDE DEF T
  <2>6. Max(T) \in T /\ \A y \in T : y <= Max(T)
    BY <2>4, MaxIs
  <2>7. lastConv = Max(T)
    BY <1>1 DEF T
  <2> HIDE DEF Max
  <2>8. lastConv \in T /\ \A y \in T : y <= lastConv
    BY <2>6, <2>7
  <2> QED
    BY <1>5, <2>4, <2>5, <2>8
<1>10. NumbersOK
  BY <1>1, <1>3, <1>7, <1>8, <1>9 DEF NumbersOK
<1> HIDE DEF Row, Conv
<1>11. RowsOK
  BY <1>4, <1>7, <1>8 DEF RowsOK, Arrived
<1>12. ConvsOK
  BY <1>4, <1>5, <1>8, <1>9 DEF ConvsOK
<1> QED
  BY <1>4, <1>10, <1>11, <1>12

LEMMA InvInit == Init => IInv
<1> SUFFICES ASSUME Init PROVE IInv
  OBVIOUS
<1>1. NumbersOK /\ RowsOK /\ ConvsOK /\ \A r \in rows : r.via = "raw" /\ r.line = {}
  BY BoxIs
<1>2. /\ session = [s \in Sessions |-> Off] /\ at = [c \in Carriers |-> "none"]
      /\ mail = [c \in Carriers |-> NoMail]
      /\ sender = [l \in scene.letters |-> [heard |-> "nothing", lost |-> 0, kept |-> 0]]
      /\ reader = Shut
  BY DEF Init
<1>3. \A c \in Carriers : at[c] = "none"
  BY <1>2
<1>4. Pending = {}
  BY <1>3 DEF Pending
<1>5. MailOK
  BY <1>2, <1>4 DEF MailOK
<1>6. Off \in SessionState
  <2>1. Nobody \in Entry
    BY DEF Nobody, Entry
  <2> HIDE DEF Nobody, Entry, Posted, NoLetter
  <2> QED
    BY <2>1 DEF Off, SessionState
<1>7. /\ Off.phase = "off" /\ Off.up = FALSE /\ Off.rcpts = <<>> /\ Off.letter = NoLetter
  BY DEF Off
<1>8. SessionOK
  <2>1. session \in [Sessions -> SessionState]
    BY <1>2, <1>6
  <2>2. ASSUME NEW s \in Sessions PROVE Orderly(session[s], at[s], mail[s], scene.letters)
    <3>1. session[s] = Off /\ at[s] = "none"
      BY <1>2 DEF Carriers
    <3> QED
      BY <1>7, <3>1 DEF Orderly
  <2> QED
    BY <2>1, <2>2 DEF SessionOK
<1>9. SenderOK
  <2>1. sender \in [scene.letters -> SenderState]
    BY <1>2 DEF SenderState
  <2>2. ASSUME NEW l \in scene.letters PROVE Square(l)
    <3>1. l \in Posted
      BY <1>1, SceneIs
    <3>2. l # NoLetter
      BY <3>1, NoLetterIsNone
    <3>3. \A s \in Sessions : session[s].letter # l
      BY <1>2, <1>7, <3>2
    <3>4. Underway(l) = {} /\ Unheard(l) = {}
      BY <3>3 DEF Underway, Unheard
    <3>5. sender[l].heard = "nothing" /\ sender[l].lost = 0 /\ sender[l].kept = 0
      BY <1>2
    <3>6. Cardinality({}) = 0
      BY FS_EmptySet
    <3> QED
      BY <3>3, <3>4, <3>5, <3>6 DEF Square
  <2> QED
    BY <2>1, <2>2 DEF SenderOK
<1>10. OwedOK
  <2>1. "raw" # "smtp" /\ "raw" # "reply" /\ "raw" # "inject"
    OBVIOUS
  <2> QED
    BY <1>1, <1>4, <2>1 DEF OwedOK, Owed, Own, Copies
<1>11. LineageOK
  BY <1>1, <1>4 DEF LineageOK, Descends
<1>12. /\ Shaped(reader) /\ reader.state = "off" /\ reader.limit = 0 /\ reader.cursor = NoCursor
       /\ reader.seen = {} /\ reader.first = {} /\ reader.twice = {}
  BY <1>2 DEF Shut, Shaped
<1>13. lastConv \in Nat
  BY <1>1, NumbersAre
<1>14. ReaderOK
  BY <1>12, <1>13 DEF ReaderOK, NoCursor
<1>15. BelowOK /\ AboveOK /\ PagesAddUp
  BY <1>12 DEF BelowOK, AboveOK, PagesAddUp
<1> QED
  BY <1>1, <1>5, <1>8, <1>9, <1>10, <1>11, <1>14, <1>15 DEF IInv

LEMMA InvNext ==
  ASSUME IInv, [Next]_vars
  PROVE  IInv'
<1> HIDE DEF IInv
<1>1. /\ NumbersOK' /\ RowsOK' /\ ConvsOK' /\ MailOK' /\ SessionOK' /\ SenderOK'
      /\ OwedOK' /\ LineageOK' /\ ReaderOK' /\ BelowOK' /\ AboveOK' /\ PagesAddUp'
  BY NumbersNext, RowsNext, ConvsNext, MailNext, SessionNext, SenderNext, OwedNext, LineageNext,
     ReaderNext
<1> QED
  BY <1>1 DEF IInv

THEOREM Invariant == Spec => []IInv
BY InvInit, InvNext, PTL DEF Spec
-----------------------------------------------------------------------------
(* What a message joins *)

(* With ancestors it joins one of them; without, a conversation of its subject. *)
LEMMA FitsIs ==
  ASSUME NumbersOK, RowsOK, NEW m \in Row
  PROVE  /\ Named(m) # {} => Fits(m) # {} /\ \A t \in Fits(m) : \E q \in Named(m) : q.thread = t
         /\ Named(m) = {} =>
              \A t \in Fits(m) : Key(m.subject) # <<>> /\ t \in BySubject(convs, Key(m.subject))
<1> DEFINE ids == Ancestors(Stripped(m.inReplyTo),
                            [i \in DOMAIN m.references |-> Stripped(m.references[i])])
           near == ByAncestors(rows, ids)
<1>1. Fits(m) = (IF near # {} THEN near
                 ELSE IF HasReplyPrefix(m.subject) /\ Key(m.subject) # <<>>
                      THEN BySubject(convs, Key(m.subject)) ELSE {})
  BY Zenon DEF Fits, Matching
<1>2. /\ m.inReplyTo \in MessageId /\ m.references \in Seq(MessageId)
  BY RowIs
<1>3. /\ ids \in Seq(MessageId)
      /\ \A x : Holds(ids, x) <=> x # Blank /\ (x = m.inReplyTo \/ Holds(m.references, x))
  BY <1>2, AncestorsAre
<1> HIDE DEF ids
<1>4. \A q \in rows : q \in Named(m) <=> Holds(ids, q.id)
  BY <1>3 DEF Named, Holds, Range
<1>5. Len(ids) \in Nat /\ DOMAIN ids = 1..Len(ids)
  BY <1>3
<1>6. \A t \in near : \E q \in Named(m) : q.thread = t
  <2>1. ASSUME NEW t \in near PROVE \E q \in Named(m) : q.thread = t
    <3>1. PICK i \in DOMAIN ids : t \in ByMessageID(rows, ids[i])
      BY DEF ByAncestors
    <3>2. PICK q \in rows : q.id = ids[i] /\ q.thread = t
      BY <3>1 DEF ByMessageID
    <3>3. Holds(ids, q.id)
      BY <3>2 DEF Holds
    <3> QED
      BY <1>4, <3>2, <3>3
  <2> QED
    BY <2>1
<1>7. ASSUME NEW q \in Named(m) PROVE near # {}
  <2>1. q \in rows /\ Holds(ids, q.id)
    BY <1>4 DEF Named
  <2>2. PICK k \in DOMAIN ids : ids[k] = q.id
    BY <2>1 DEF Holds
  <2>3. q.id # Blank
    BY <1>3, <2>1
(* The latest of the rows that carry the id. *)
  <2>4. ByMessageID(rows, q.id) # {}
    <3> DEFINE T == {s.ulid : s \in {s \in rows : s.id = q.id}}
    <3>1. lastUlid \in Nat
      BY NumbersAre
    <3>2. T \subseteq 0..lastUlid /\ T # {}
      BY <2>1, <3>1 DEF RowsOK, Arrived
    <3>3. PICK u \in T : \A y \in T : y <= u
      BY <3>1, <3>2, GreatestOf
    <3>4. PICK s \in rows : s.id = q.id /\ s.ulid = u
      OBVIOUS
    <3>5. \A z \in rows : z.id = q.id => z.ulid <= s.ulid
      BY <3>3, <3>4
    <3> QED
      BY <2>3, <3>4, <3>5 DEF ByMessageID
  <2> DEFINE I == {i \in DOMAIN ids : ByMessageID(rows, ids[i]) # {}}
  <2>5. I \subseteq 0..Len(ids) /\ k \in I
    BY <1>5, <2>2, <2>4
  <2>6. I \subseteq DOMAIN ids /\ \A i \in DOMAIN ids : i \in I <=> ByMessageID(rows, ids[i]) # {}
    OBVIOUS
  <2> HIDE DEF I
  <2>7. PICK i \in I : \A j \in I : j <= i
    BY <1>5, <2>5, GreatestOf
  <2>8. \A j \in DOMAIN ids : j > i => ByMessageID(rows, ids[j]) = {}
    BY <1>5, <2>5, <2>6, <2>7
  <2> QED
    BY <2>6, <2>7, <2>8 DEF ByAncestors
<1> HIDE DEF near
<1> QED
  BY <1>1, <1>6, <1>7

(* A message's headers name all it descends from that can be told apart. *)
LEMMA LineIsNamed ==
  ASSUME NEW r, Descends(r, rows)
  PROVE  Line(r) \subseteq Named(r)
BY DEF Line, Named, Alike, Descends, Holds, Range

(* RepliesStayTogether, of one step. *)
LEMMA StepStaysTogether ==
  ASSUME IInv, [Next]_vars, NEW r \in rows' \ rows
  PROVE  /\ \A q \in Line(r) \cup Named(r) :
              (\A k \in Line(r) \cup Named(r) : k.thread = q.thread) => r.thread = q.thread
         /\ \A p \in rows :
              /\ r.line = {p.ulid} /\ p.id = Blank /\ Named(r) = {}
              /\ r.subject = ReplySubject(p.subject)
              => \E c \in convs' : c.thread = r.thread /\ c.key = Key(p.subject)
<1>0. NumbersOK /\ RowsOK /\ ConvsOK /\ MailOK /\ LineageOK
  BY DEF IInv
<1> HIDE DEF IInv
<1>1. PICK c \in Carriers : Commit(c)
  <2>1. Calm \/ NextPage \/ Tick => rows' = rows
    BY DEF Calm, NextPage, Tick, store
  <2>2. \A w, m : Arrives(w, m) => rows' = rows
    BY DEF Arrives, store
  <2>3. \A ask : OpenList(ask) => rows' = rows
    BY DEF OpenList, store
  <2>4. \A gone : Delete(gone) => rows' \subseteq rows
    BY DEF Delete
  <2>5. ~(rows' \subseteq rows) /\ rows' # rows
    OBVIOUS
  <2> QED
    BY StoreSteps, <2>1, <2>2, <2>3, <2>4, <2>5, Zenon
<1> DEFINE m == mail[c]
<1>2. c \in Pending /\ \E s, e : (\E d : Joins(m, s, d, e)) \/ Opens(m, s, e)
  BY <1>1, CommitIs
<1>3. PICK s, e : (\E d : Joins(m, s, d, e)) \/ Opens(m, s, e)
  BY <1>2
<1>4. m \in Row /\ Descends(m, rows)
  BY <1>0, <1>2 DEF MailOK, Arrived, LineageOK
<1> HIDE DEF m
<1>5. /\ r = s /\ Rowed(r, m, r.thread)
      /\ Opens(m, r, e) \/ \E d : Joins(m, r, d, e)
  BY <1>3 DEF Joins, Opens, Rowed
<1>6. /\ r.inReplyTo = m.inReplyTo /\ r.references = m.references
      /\ r.subject = m.subject /\ r.line = m.line
  BY <1>5 DEF Rowed
<1>7. Named(r) = Named(m) /\ Descends(r, rows)
  BY <1>4, <1>6 DEF Named, Descends
<1>8. /\ Named(m) # {} => Fits(m) # {} /\ \A t \in Fits(m) : \E q \in Named(m) : q.thread = t
      /\ Named(m) = {} =>
           \A t \in Fits(m) : Key(m.subject) # <<>> /\ t \in BySubject(convs, Key(m.subject))
  BY <1>0, <1>4, FitsIs
<1>9. ASSUME NEW q \in Line(r) \cup Named(r),
             \A k \in Line(r) \cup Named(r) : k.thread = q.thread
      PROVE  r.thread = q.thread
  <2>1. q \in Named(m)
    BY <1>7, LineIsNamed
  <2>2. Fits(m) # {}
    BY <1>8, <2>1
  <2>3. PICK d : Joins(m, r, d, e)
    BY <1>5, <2>2 DEF Opens
  <2>4. r.thread \in Fits(m)
    BY <2>3 DEF Joins, Rowed
  <2>5. PICK k \in Named(m) : k.thread = r.thread
    BY <1>8, <2>1, <2>4
  <2> QED
    BY <1>7, <1>9, <2>5
<1>10. ASSUME NEW p \in rows, Named(r) = {}, r.subject = ReplySubject(p.subject)
       PROVE  \E k \in convs' : k.thread = r.thread /\ k.key = Key(p.subject)
  <2>1. p.subject \in Seq(Token)
    BY <1>0, RowIs DEF RowsOK, Arrived
  <2>2. Key(m.subject) = Key(p.subject)
    BY <1>6, <1>10, <2>1, ReplySubjectIs
  <2>3. CASE Opens(m, r, e)
    <3>1. /\ e \in convs' /\ r.thread = lastConv + 1
          /\ e = [thread |-> lastConv + 1, key |-> Key(m.subject), activity |-> m.created]
      BY <2>3 DEF Opens, Rowed
    <3> QED
      BY <2>2, <3>1
  <2>4. ASSUME NEW d, Joins(m, r, d, e)
        PROVE  \E k \in convs' : k.thread = r.thread /\ k.key = Key(p.subject)
    <3>1. /\ e \in convs' /\ r.thread = d.thread /\ d \in convs /\ d.thread \in Fits(m)
          /\ e = [thread |-> d.thread, key |-> IF d.key = <<>> THEN Key(m.subject) ELSE d.key,
                  activity |-> m.created]
      BY <2>4 DEF Joins, Rowed
    <3>2. Key(m.subject) # <<>> /\ d.thread \in BySubject(convs, Key(m.subject))
      BY <1>7, <1>8, <1>10, <3>1
    <3>3. PICK k \in convs : k.thread = d.thread /\ k.key = Key(m.subject)
      BY <3>2 DEF BySubject
    <3>4. k = d
      BY <1>0, <3>1, <3>3 DEF ConvsOK
    <3> QED
      BY <2>2, <3>1, <3>2, <3>3, <3>4
  <2> QED
    BY <1>5, <2>3, <2>4
<1> QED
  BY <1>9, <1>10
-----------------------------------------------------------------------------
(* The properties *)

(* TypeOK of Exchange: ULIDs and threads are taken once, every message is in a   *)
(* conversation that exists, a session has recipients only in a transaction,     *)
(* and the reader has a cursor just while there is more to read.               *)
THEOREM TypesCorrect == Spec => []TypeOK
<1>1. ASSUME IInv PROVE TypeOK
  <2>1. /\ NumbersOK /\ RowsOK /\ ConvsOK /\ MailOK /\ SessionOK /\ SenderOK /\ ReaderOK
    BY <1>1 DEF IInv
  <2>2. lastUlid \in Nat /\ now \in Nat
    BY <2>1, NumbersAre
  <2>3. /\ \A r \in rows :
             /\ r.ulid \in 1..lastUlid /\ r.thread \in {c.thread : c \in convs}
             /\ r.created \in 0..now
             /\ \A i \in DOMAIN r.bcc : r.bcc[i] # Nobody
        /\ \A r, s \in rows : r.ulid = s.ulid => r = s
    <3>1. \A r \in rows : r.created \in Nat
      BY <2>1, RowIs DEF RowsOK, Arrived
    <3> HIDE DEF Row
    <3> QED
      BY <2>1, <2>2, <3>1 DEF RowsOK, Arrived
  <2>4. /\ \A c \in convs : c.thread \in 1..lastConv /\ c.activity \in 0..now
        /\ \A c, d \in convs : c.thread = d.thread => c = d
    BY <2>1 DEF ConvsOK
  <2>5. /\ lastUlid \in 0..scene.msgs /\ now \in 0..scene.time /\ deletions \in 0..scene.deletions
        /\ sends \in 0..scene.sends
    BY <2>1 DEF NumbersOK
  <2>6. ASSUME NEW s \in Sessions
        PROVE  /\ session[s].phase \in {"off", "open", "mail", "data"}
               /\ session[s].phase \in {"off", "open"} => session[s].rcpts = <<>>
               /\ session[s].phase = "data" <=> at[s] # "none"
    <3>1. session[s] \in SessionState /\ Orderly(session[s], at[s], mail[s], scene.letters)
      <4> HIDE DEF SessionState, Orderly
      <4> QED
        BY <2>1 DEF SessionOK
    <3>2. session[s].phase \in {"off", "open", "mail", "data"}
      <4> HIDE DEF Entry, Posted, NoLetter
      <4> QED
        BY <3>1 DEF SessionState
    <3> QED
      BY <3>1, <3>2, Zenon DEF Orderly
  <2>7. at \in [Carriers -> {"none", "persist", "announce", "stored", "failed"}]
    BY <2>1 DEF MailOK
  <2>8. sender \in [scene.letters -> [heard : {"nothing", "250", "451", "552"}, lost : Nat, kept : Nat]]
    BY <2>1 DEF SenderOK, SenderState
  <2>9. reader.state \in {"off", "more", "end"} /\ (reader.state = "more" <=> reader.cursor # NoCursor)
    BY <2>1 DEF ReaderOK
  <2> QED
    BY <2>3, <2>4, <2>5, <2>6, <2>7, <2>8, <2>9, Zenon DEF TypeOK
<1> QED
  BY <1>1, Invariant, PTL

(* EnvelopeIsItsOwn: a message that came over SMTP has the sender, the recipients *)
(* and so the blind copies of its own transaction, whatever the connection was    *)
(* used for before.                                                             *)
THEOREM EnvelopeIsItsOwnAlways == Spec => []EnvelopeIsItsOwn
<1>1. IInv => EnvelopeIsItsOwn
  BY DEF IInv, OwedOK, Owed, Own, EnvelopeIsItsOwn
<1> QED
  BY <1>1, Invariant, PTL

(* StoredOncePerAnswer: what is answered 250 is stored, and stored again only for *)
(* an answer that was lost.                                                     *)
THEOREM StoredOncePerAnswerAlways == Spec => []StoredOncePerAnswer
<1>1. ASSUME IInv PROVE StoredOncePerAnswer
  <2> SUFFICES ASSUME NEW l \in scene.letters
               PROVE  /\ sender[l].heard = "250" => sender[l].kept > 0
                      /\ sender[l].kept <= sender[l].lost + (IF sender[l].heard = "250" THEN 1 ELSE 0)
                                             + Cardinality(Underway(l))
    BY Zenon DEF StoredOncePerAnswer, Underway
  <2>1. SenderOK
    BY <1>1 DEF IInv
  <2>2. sender[l].lost \in Nat /\ sender[l].kept \in Nat /\ Square(l)
    BY <2>1, SenderIs
  <2>3. IsFiniteSet(Sessions) /\ Unheard(l) \subseteq Sessions /\ Underway(l) \subseteq Sessions
    BY ExchangeAssumption DEF Unheard, Underway
  <2>4. Cardinality(Unheard(l)) \in Nat /\ Cardinality(Underway(l)) \in Nat
    BY <2>3, FS_Subset, FS_CardinalityType
  <2>5. /\ sender[l].heard = "250" => sender[l].kept > 0
        /\ sender[l].kept + Cardinality(Unheard(l)) <=
             sender[l].lost + (IF sender[l].heard = "250" THEN 1 ELSE 0) + Cardinality(Underway(l))
    BY <2>2, Zenon DEF Square
  <2> DEFINE a == Cardinality(Unheard(l))
             b == Cardinality(Underway(l))
  <2> HIDE DEF a, b
  <2>6. a \in Nat /\ b \in Nat /\ sender[l].kept + a <=
             sender[l].lost + (IF sender[l].heard = "250" THEN 1 ELSE 0) + b
    BY <2>4, <2>5 DEF a, b
  <2>7. sender[l].kept <= sender[l].lost + (IF sender[l].heard = "250" THEN 1 ELSE 0) + b
    BY <2>2, <2>6
  <2> QED
    BY <2>5, <2>7 DEF b
<1> QED
  BY <1>1, Invariant, PTL

(* BlindCopiesRecovered: whom a reply was written to is in its envelope, and whom *)
(* no header names in its blind copies.                                         *)
THEOREM BlindCopiesRecoveredAlways == Spec => []BlindCopiesRecovered
<1>1. ASSUME IInv PROVE BlindCopiesRecovered
  <2>1. \A r \in rows : Copies(r)
    BY <1>1 DEF IInv, OwedOK, Owed
  <2> QED
    BY <2>1, Zenon DEF Copies, BlindCopiesRecovered, AloneIn
<1> QED
  BY <1>1, Invariant, PTL

(* PagesAddUp: a reader who turned pages to the end saw every conversation that   *)
(* was there all the time, and none twice, unless something moved.              *)
THEOREM PagesAddUpAlways == Spec => []PagesAddUp
<1>1. IInv => PagesAddUp
  BY DEF IInv
<1> QED
  BY <1>1, Invariant, PTL

(* RepliesStayTogether: a message joins the conversation of its ancestors when    *)
(* that is one, and without any the one of its parent's subject.               *)
THEOREM RepliesStayTogetherAlways == Spec => RepliesStayTogether
<1> DEFINE Together(r) ==
       /\ \A q \in Line(r) \cup Named(r) :
            (\A k \in Line(r) \cup Named(r) : k.thread = q.thread) => r.thread = q.thread
       /\ \A p \in rows :
            /\ r.line = {p.ulid} /\ p.id = Blank /\ Named(r) = {}
            /\ r.subject = ReplySubject(p.subject)
            => \E c \in convs' : c.thread = r.thread /\ c.key = Key(p.subject)
<1>1. ASSUME IInv, [Next]_vars PROVE \A r \in rows' \ rows : Together(r)
  <2> HIDE DEF IInv
  <2> QED
    BY <1>1, StepStaysTogether
<1>2. IInv /\ [Next]_vars => [\A r \in rows' \ rows : Together(r)]_vars
  BY <1>1
<1> QED
  BY <1>2, Invariant, PTL DEF Spec, RepliesStayTogether

=============================================================================
