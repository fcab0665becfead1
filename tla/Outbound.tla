------------------------------ MODULE Outbound ------------------------------
(***************************************************************************)
(* The pure rules of composing and reading one message: what a reply       *)
(* starts from (internal/outbound), what its headers say once they are     *)
(* parsed again (internal/mailmime), and who was blind-copied.             *)
(*                                                                         *)
(* An address is [box, caps, named]: the mailbox, whether it is spelled    *)
(* with capitals, and whether a display name stands before it.  What        *)
(* somebody types into one field, and what an SMTP client says in RCPT, is  *)
(* an entry: the sequence of the addresses it holds.  Two make a comma-     *)
(* separated list; none is a blank or something that is no address.        *)
(***************************************************************************)
EXTENDS Threading

Nobody == <<>>
One(a) == <<a>>
Nameless(a) == [a EXCEPT !.named = FALSE]
Folded(a) == [a EXCEPT !.caps = FALSE]
Boxes(addrs) == {addrs[i].box : i \in DOMAIN addrs}

Address == [box : STRING, caps : BOOLEAN, named : BOOLEAN]
Entry   == Seq(Address)

(* An address that stands by itself, as RCPT says it. *)
Bare(e) == Len(e) = 1 /\ ~e[1].named

HeaderId == [id : MessageId, bracketed : BOOLEAN]
Header ==
  [id : HeaderId, inReplyTo : HeaderId, references : Seq(HeaderId), subject : Seq(Token),
   from : Seq(Address), to : Seq(Address), cc : Seq(Address), replyTo : Seq(Address)]

(* A message that is composed, and what is typed into the form for it. *)
Draft ==
  [id : MessageId, inReplyTo : MessageId, references : Seq(MessageId), subject : Seq(Token),
   from : Entry, to : Seq(Entry), cc : Seq(Entry), bcc : Seq(Entry), replyTo : Entry,
   body : BOOLEAN]
Request ==
  [from : Entry, to : Seq(Entry), cc : Seq(Entry), bcc : Seq(Entry), replyTo : Entry,
   subject : Seq(Token), body : BOOLEAN]

NoHeader == [id |-> Blank, bracketed |-> FALSE]
Stripped(id) == [id |-> id, bracketed |-> FALSE]

-----------------------------------------------------------------------------
(* Composing *)

(* Addresses: stored addresses as entries. *)
Addresses(list) == [i \in DOMAIN list |-> One(list[i])]

(* Faulty variant: the chain is the parent's own, the parent is not added. *)
ParentsChain(parent) == parent.references

(* The parent's chain, then the parent. *)
Chain(parent) ==
  Ancestors(Stripped(parent.id),
            [i \in DOMAIN parent.references |-> Stripped(parent.references[i])])

(* What a reply starts from; its own Message-ID is minted. *)
NewReply(parent, minted) ==
  [id         |-> minted,
   inReplyTo  |-> parent.id,
   references |-> Chain(parent),
   subject    |-> ReplySubject(parent.subject),
   from       |-> CASE parent.to # <<>> -> One(parent.to[1])
                    [] parent.to = <<>> /\ parent.rcpts # <<>> -> parent.rcpts[1]
                    [] OTHER -> Nobody,
   to         |-> Addresses(IF parent.replyTo # <<>> THEN parent.replyTo ELSE parent.from),
   cc |-> <<>>, bcc |-> <<>>, replyTo |-> Nobody, body |-> FALSE]

NewMail(minted) ==
  [id |-> minted, inReplyTo |-> Blank, references |-> <<>>, subject |-> <<>>,
   from |-> Nobody, to |-> <<>>, cc |-> <<>>, bcc |-> <<>>, replyTo |-> Nobody, body |-> FALSE]

(* buildReply: every field that was filled in replaces the one it started from. *)
Overlay(seed, typed) ==
  LET Over(given, otherwise) == IF given # <<>> THEN given ELSE otherwise
  IN  [seed EXCEPT !.from = Over(typed.from, @), !.to = Over(typed.to, @),
                   !.cc = Over(typed.cc, @), !.bcc = Over(typed.bcc, @),
                   !.replyTo = Over(typed.replyTo, @),
                   !.subject = Over(typed.subject, @), !.body = typed.body]

(* parseAddresses takes a list apart; parseAddress wants exactly one. *)
Reads(entries) == \A i \in DOMAIN entries : entries[i] # Nobody

(* What createReply and Build refuse. *)
Buildable(m) ==
  /\ Len(m.from) = 1
  /\ Reads(m.to) /\ Reads(m.cc) /\ Reads(m.bcc)
  /\ m.to \o m.cc \o m.bcc # <<>>
  /\ m.body
  /\ Len(m.replyTo) <= 1

(* Build: the headers it writes.  The blind copies are in none of them. *)
Build(m) ==
  [id         |-> Bracket(m.id),
   inReplyTo  |-> IF m.inReplyTo = Blank THEN NoHeader ELSE Bracket(m.inReplyTo),
   references |-> [i \in DOMAIN m.references |-> Bracket(m.references[i])],
   subject    |-> m.subject,
   from       |-> m.from,
   to         |-> FlattenSeq(m.to),
   cc         |-> FlattenSeq(m.cc),
   replyTo    |-> m.replyTo]

(* An entry that does not parse as one address is skipped, and a list is such *)
(* an entry, although Build writes it out.                                   *)
AddRecipient(out, e) ==
  IF Len(e) # 1 \/ e[1].box \in Boxes(FlattenSeq(out))
  THEN out
  ELSE Append(out, One(Nameless(e[1])))

(* Faulty variant: the envelope leaves the blind copies out. *)
RecipientsVisible(m) == FoldLeft(AddRecipient, <<>>, m.to \o m.cc)

(* Recipients: everyone once. *)
Recipients(m) == FoldLeft(AddRecipient, <<>>, m.to \o m.cc \o m.bcc)

-----------------------------------------------------------------------------
(* Reading *)

(* Parse, and applyParsed: what the columns of the row say. *)
Parse(h) ==
  [id         |-> Unbracket(h.id),
   inReplyTo  |-> Unbracket(h.inReplyTo),
   references |-> ParseReferences(h.references),
   subject    |-> h.subject,
   from |-> h.from, to |-> h.to, cc |-> h.cc, replyTo |-> h.replyTo]

(* What is stored of bytes that are no message. *)
Garbage ==
  [id |-> Blank, inReplyTo |-> Blank, references |-> <<>>, subject |-> <<>>,
   from |-> <<>>, to |-> <<>>, cc |-> <<>>, replyTo |-> <<>>]

(* Faulty variant: addresses are compared with their capitals. *)
DeriveBccExact(rcpts, to, cc) ==
  LET named == {One(Nameless(a)) : a \in Range(to \o cc)}
      Add(out, e) == IF e \in named \/ e = Nobody \/ Contains(out, e) THEN out ELSE Append(out, e)
  IN  FoldLeft(Add, <<>>, rcpts)

(* DeriveBcc: who is in the envelope and in neither header, each once.  An     *)
(* envelope entry is compared as the text it is, in lower case.              *)
DeriveBcc(rcpts, to, cc) ==
  LET Text(e) == [i \in DOMAIN e |-> Folded(e[i])]
      named == {One(Folded(Nameless(a))) : a \in Range(to \o cc)}
      Add(out, e) ==
        IF e = Nobody \/ Text(e) \in named \/ \E i \in DOMAIN out : Text(out[i]) = Text(e)
        THEN out ELSE Append(out, e)
  IN  FoldLeft(Add, <<>>, rcpts)

=============================================================================
