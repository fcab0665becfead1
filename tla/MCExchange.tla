----------------------------- MODULE MCExchange -----------------------------
(* Instances of Exchange for TLC. *)
EXTENDS Exchange

CONSTANTS s1, s2, w1, w2

BothSessions == {s1, s2}
BothWriters  == {w1, w2}
Swaps == Permutations(BothSessions) \cup Permutations(BothWriters)

Plain(box) == [box |-> box, caps |-> FALSE, named |-> FALSE]
Ada   == Plain("ada")
Bob   == Plain("bob")
Order == Plain("order")
App   == Plain("app")
Hi    == <<Word("hi", TRUE)>>
Yo    == <<Word("yo", FALSE)>>

Headers(id, inReplyTo, references, subject) ==
  [id |-> Bracket(id), inReplyTo |-> inReplyTo, references |-> references, subject |-> subject,
   from |-> <<App>>, to |-> <<Ada>>, cc |-> <<>>, replyTo |-> <<Order>>]

Letter(rcpts, headers) ==
  [from |-> One(App), rcpts |-> rcpts, fits |-> TRUE, parses |-> TRUE, headers |-> headers]

(* Ada in capitals and Bob blind-copied; the answer of the application to the  *)
(* first reply Mailman sends, and one that has no Message-ID and claims two     *)
(* ancestors; something too big; something that is no message.                 *)
ToBoth   == Letter(<<One([Ada EXCEPT !.caps = TRUE]), One(Bob)>>, Headers("a", NoHeader, <<>>, Hi))
Answers  == Letter(<<One(Ada)>>, Headers("e", Bracket("m4"), <<Bracket("a"), Bracket("m4")>>, Yo))
Astray   == Letter(<<One(Ada)>>, Headers(Blank, Stripped("a"), <<Bracket("a"), Bracket("c")>>,
                                         <<Marker, Space>> \o Yo))
TooBig    == [ToBoth EXCEPT !.fits = FALSE]
NoMessage == [Letter(<<One(Bob)>>, Headers(Blank, NoHeader, <<>>, <<>>)) EXCEPT !.parses = FALSE]

(* A reply as it is seeded; one with a copy to Ada by name and a blind copy to  *)
(* her and to Bob; mail of one's own to a list and to somebody by name.         *)
Form == [from |-> Nobody, to |-> <<>>, cc |-> <<>>, bcc |-> <<>>, replyTo |-> Nobody,
         subject |-> <<>>, body |-> TRUE]
WithBcc == [Form EXCEPT !.cc = <<One([Ada EXCEPT !.named = TRUE])>>,
                        !.bcc = <<One([Ada EXCEPT !.caps = TRUE]), One(Bob)>>]
ToAList == [Form EXCEPT !.from = One(Bob), !.subject = Hi,
                        !.to = <<<<Ada, App>>, One([Order EXCEPT !.named = TRUE])>>]

Stored(ulid, thread, created, h) ==
  LET p == Parse(h)
  IN  [ulid |-> ulid, created |-> created, thread |-> thread,
       id |-> p.id, inReplyTo |-> p.inReplyTo, references |-> p.references,
       subject |-> p.subject, from |-> p.from, to |-> p.to, cc |-> p.cc, replyTo |-> p.replyTo,
       bcc |-> <<>>, sender |-> One(App), rcpts |-> <<One(Ada)>>,
       outbound |-> FALSE, via |-> "raw", told |-> NoLetter, line |-> {}]

(* Three conversations of one message, the last two of the same second; one     *)
(* message has no Message-ID, another descends from mail that was deleted.      *)
Box ==
  [rows  |-> {Stored(1, 1, 0, Headers("a", NoHeader, <<>>, Hi)),
              Stored(2, 2, 1, Headers(Blank, NoHeader, <<>>, Yo)),
              Stored(3, 3, 1, Headers("c", Bracket("z"), <<Bracket("z")>>, Hi))},
   convs |-> {[thread |-> 1, key |-> Key(Hi), activity |-> 0],
              [thread |-> 2, key |-> Key(Yo), activity |-> 1],
              [thread |-> 3, key |-> Key(Hi), activity |-> 1]}]
Two ==
  [rows  |-> {Stored(1, 1, 0, Headers("a", NoHeader, <<>>, Hi)),
              Stored(2, 2, 0, Headers("b", NoHeader, <<>>, Yo))},
   convs |-> {[thread |-> 1, key |-> Key(Hi), activity |-> 0],
              [thread |-> 2, key |-> Key(Yo), activity |-> 0]}]
MCMinted == <<"m1", "m2", "m3", "m4", "m5">>

Apart == [Two EXCEPT !.convs = {[c EXCEPT !.activity = c.thread] : c \in @}]

(* An application that sends and sends again on two connections.                *)
Sending ==
  [box |-> [rows |-> {}, convs |-> {}], carriers |-> BothSessions,
   letters |-> {ToBoth, NoMessage, TooBig}, requests |-> {}, raw |-> {}, asks |-> {},
   faults |-> {"store", "count"}, msgs |-> 3, sends |-> 3, deletions |-> 0, time |-> 0]

(* Somebody who answers and posts, and is answered, while things are deleted.   *)
Answering(s, w) ==
  [Sending EXCEPT !.box = Box, !.carriers = {s, w}, !.letters = {Answers, Astray},
                  !.requests = {Form, WithBcc, ToAList}, !.raw = {ToBoth},
                  !.faults = {"store"}, !.msgs = 5, !.sends = 1, !.deletions = 1, !.time = 1]

(* A reader in whose list things move because two replies are stored at once... *)
Browsing ==
  [Answering(s1, w1) EXCEPT !.carriers = BothWriters, !.letters = {}, !.requests = {Form}, !.raw = {},
                    !.faults = {}, !.time = 2,
                    !.asks = {[limit |-> 0, words |-> {}], [limit |-> 3, words |-> {"hi"}]}]

(* ...and one of them so slowly that others overtake it twice.                  *)
Overtaking ==
  [Browsing EXCEPT !.box = Two, !.asks = {[limit |-> 0, words |-> {}]},
                   !.msgs = 5, !.deletions = 0]

(* A search whose word goes from a conversation and comes back with the answer   *)
(* of somebody slow.                                                           *)
Threaded ==
  [rows  |-> {Stored(1, 1, 0, Headers("a", NoHeader, <<>>, Hi)),
              Stored(2, 1, 0, Headers("b", Bracket("a"), <<>>, Yo)),
              Stored(3, 2, 0, Headers("c", NoHeader, <<>>, Hi))},
   convs |-> {[thread |-> 1, key |-> Key(Hi), activity |-> 0],
              [thread |-> 2, key |-> Key(Hi), activity |-> 0]}]
Searching ==
  [Browsing EXCEPT !.box = Threaded, !.requests = {[Form EXCEPT !.subject = Hi]},
                   !.asks = {[limit |-> 0, words |-> {"hi"}]}, !.time = 1]

MCScenes ==
  {Sending, Browsing, Overtaking, Searching} \cup {Answering(s, w) : s \in BothSessions, w \in BothWriters}

(* The same reader, one answer, and conversations a second apart.               *)
MCScrolling == {[Overtaking EXCEPT !.box = Apart, !.carriers = {w1}, !.msgs = 3, !.time = 3]}
=============================================================================
