------------------------------ MODULE Threading ------------------------------
(***************************************************************************)
(* The pure rules that decide which messages belong together               *)
(* (internal/conversation, and the reads of Tx.ResolveConversation).       *)
(*                                                                         *)
(* A Message-ID is any string; Blank, the empty one, stands for none.  In a *)
(* header it may still wear its angle brackets, so a header value is a      *)
(* record [id, bracketed].  A subject is a sequence of tokens: a reply      *)
(* marker in any of its spellings ("Re:", "Fwd:", "AW[2]:"...), white       *)
(* space, or a word in one of its two cases.                                *)
(***************************************************************************)
EXTENDS Naturals, Sequences, SequencesExt

Blank == ""
MessageId == {Blank} \cup STRING

-----------------------------------------------------------------------------
(* Message-IDs *)

Unbracket(h) == h.id
Bracket(id) == [id |-> id, bracketed |-> TRUE]

(* One call of the closure add: blanks and duplicates are dropped. *)
AddId(out, h) ==
  IF Unbracket(h) = Blank \/ Contains(out, Unbracket(h))
  THEN out
  ELSE Append(out, Unbracket(h))

(* The ids a message claims to descend from, as the code collects them:     *)
(* the References header in order, then In-Reply-To.                        *)
Ancestors(inReplyTo, references) ==
  FoldLeft(AddId, <<>>, Append(references, inReplyTo))

(* A header read back: the ids it names, without brackets and blanks. *)
ParseReferences(header) ==
  LET Add(out, h) == IF Unbracket(h) = Blank THEN out ELSE Append(out, Unbracket(h))
  IN  FoldLeft(Add, <<>>, header)

-----------------------------------------------------------------------------
(* Subjects *)

Marker == [kind |-> "marker"]
Space  == [kind |-> "space"]
Word(w, upper) == [kind |-> "word", word |-> w, upper |-> upper]
Token  == {Marker, Space} \cup [kind : {"word"}, word : STRING, upper : BOOLEAN]

TrimLeft(s)  == LET ink == {i \in DOMAIN s : s[i] # Space}
                IN  IF ink = {} THEN <<>> ELSE SubSeq(s, Min(ink), Len(s))
TrimSpace(s) == LET ink == {i \in DOMAIN s : s[i] # Space}
                IN  IF ink = {} THEN <<>> ELSE SubSeq(s, Min(ink), Max(ink))

(* replyPrefix: a marker first, white space before it allowed. *)
HasReplyPrefix(s) == LET t == TrimLeft(s) IN t # <<>> /\ Head(t) = Marker

(* replyPrefixRun: every leading marker goes, and the space around them. *)
StripReplyPrefix(s) ==
  LET words == {i \in DOMAIN s : s[i] \notin {Marker, Space}}
  IN  IF words = {} THEN <<>> ELSE TrimSpace(SubSeq(s, Min(words), Len(s)))

(* ReplySubject: one marker, and no second one on top of it. *)
ReplySubject(s) ==
  LET t == TrimSpace(s)
  IN  CASE t = <<>> -> <<Marker>>
        [] HasReplyPrefix(t) -> t
        [] OTHER -> <<Marker, Space>> \o t

Lower(t) == IF t = Marker THEN t ELSE Word(t.word, FALSE)

(* Key: what is left, its white space collapsed and its case folded.  <<>>   *)
(* stands for the second result false.                                      *)
Key(s) ==
  LET fields == SelectSeq(StripReplyPrefix(s), LAMBDA t : t # Space)
  IN  [i \in DOMAIN fields |-> Lower(fields[i])]

-----------------------------------------------------------------------------
(* Which conversation a message joins.                                      *)
(*                                                                          *)
(* rows is the set of stored messages, [ulid, id, thread], with ULIDs in    *)
(* arrival order; convs the set of conversations, [thread, key, activity].  *)

(* conversationByMessageID: the latest row carrying the id; {} is the 0 of  *)
(* the code.                                                                *)
ByMessageID(rows, id) ==
  {r.thread : r \in {r \in rows : /\ id # Blank
                                 /\ r.id = id
                                 /\ \A s \in rows : s.id = id => s.ulid <= r.ulid}}

(* The walk backwards: the last ancestor that is stored decides.            *)
ByAncestors(rows, ancestors) ==
  UNION {ByMessageID(rows, ancestors[i]) :
           i \in {i \in DOMAIN ancestors :
                    \A j \in DOMAIN ancestors :
                       j > i => ByMessageID(rows, ancestors[j]) = {}}}

(* conversationBySubject: the most recently active of the conversations     *)
(* with that key.  ORDER BY ... LIMIT 1 leaves a tie to SQLite.             *)
BySubject(convs, key) ==
  {c.thread : c \in {c \in convs : /\ c.key = key
                                  /\ \A d \in convs : d.key = key => d.activity <= c.activity}}

(* ResolveConversation: the conversations it may answer with; {} means that *)
(* it creates one.                                                          *)
Matching(rows, convs, ancestors, subject) ==
  LET near == ByAncestors(rows, ancestors)
  IN  IF near # {}
      THEN near
      ELSE IF HasReplyPrefix(subject) /\ Key(subject) # <<>>
           THEN BySubject(convs, Key(subject))
           ELSE {}

=============================================================================
