------------------------------- MODULE LiveView -------------------------------
(***************************************************************************)
(* The live view: what a browser tab shows of the mailbox, and how it      *)
(* learns that it changed (events.Broker, httpapi/websocket.go, the        *)
(* publishing handlers, Ingestor.announce, Sender.announce, and the tab    *)
(* itself: useMailboxEvents.ts and App.tsx).                               *)
(*                                                                         *)
(* The mailbox is its version, one more with every change, how many        *)
(* messages are unread, and for some conversations the version of the last *)
(* change in them.  A list and an open conversation are the version they   *)
(* were read at.  A handler changes the mailbox, reads the unread count and *)
(* publishes an event, in three steps; a tab that gets an event puts the    *)
(* count on its badge and asks for the list and for the conversation it has *)
(* open, and the answers arrive when they arrive.                           *)
(***************************************************************************)
EXTENDS Naturals, Sequences, FiniteSets, SequencesExt

CONSTANTS
  Tabs,        \* browser tabs
  Writers,     \* requests and arriving messages; each happens once
  Threads,     \* conversations a tab may open
  Buffer,      \* capacity of a subscriber's channel (32 in events.go)
  MaxAsks,     \* list requests of a tab under way at once (bound)
  Scenes       \* what may be going on: records of
               \*   writers, ops   which of them there are, and what they do
               \*   hands   who asks for a deletion: tabs, Elsewhere
               \*   threads the conversations looked at; {} for others only
               \*   loaded  whether the page has its first list and its stream
               \*   opens, gets, asks, closes   the bounds: how often a tab opens a
               \*           conversation, its requests for one and for the list under
               \*           way at once, how often a connection breaks
               \*   faults  "sql": a statement of a handler may fail

Slots == 1..MaxAsks
Elsewhere == "elsewhere"   \* a client that is no tab: curl, CI, a tab not looked at
NoThread == "no thread"    \* nothing is open; also a conversation not looked at

(* deleteMessage and markMessageSeen count before they call publish;          *)
(* deleteConversation ("drop"), clearMailbox ("clear"), markConversationSeen  *)
(* and saveConfig leave it to publish.  Ingest and Send announce by           *)
(* themselves.                                                               *)
Early     == {"delete", "readone"}
Late      == {"drop", "clear", "read", "config"}
Announced == {"arrive", "deliver"}
Kinds     == Early \cup Late \cup Announced
Answered  == {"read", "delete", "drop", "clear"}   \* what a tab itself asks for

ASSUME LiveViewAssumption ==
  /\ Elsewhere \notin Tabs /\ NoThread \notin Threads
  /\ Buffer \in Nat \ {0} /\ MaxAsks \in Nat \ {0}
  /\ \A x \in Scenes :
       /\ x.writers \subseteq Writers /\ x.ops \subseteq Kinds /\ x.faults \subseteq {"sql"}
       /\ x.hands \subseteq Tabs \cup {Elsewhere} /\ x.threads \subseteq Threads
       /\ x.loaded \in BOOLEAN
       /\ {x.opens, x.gets, x.closes} \subseteq Nat /\ x.asks \in Slots

VARIABLES
  scene,     \* what happens in this behaviour (fixed at the start)
  version,   \* of the mailbox
  unread,    \* SELECT COUNT(*) ... WHERE seen_at IS NULL
  thread,    \* each conversation: [asOf, gone], its last change
  op, at,    \* what each writer does, and its next step
  my,        \* what it holds: who asked, the conversation it is about, whether that went
             \* with its deletion, the count it read, and (history) the version it made
  conn,      \* each tab's stream: "off", "subscribed", "live"
  queue,     \* its channel in the broker
  closes,    \* how often a connection broke
  badge,     \* the unread count it shows: [n, asOf]
  list,      \* the version of the list it shows
  fetch,     \* its list requests: [at, list, n, asOf]
  selected,  \* the conversation it has selected
  shown,     \* the one it shows, and as of which change in it
  gets,      \* its requests for one, in the order they were made
  opens,     \* how often it opened one
  unsaid,    \* history: the last change no event was published for
  lost,      \* history: the last change whose event did not reach the tab
  failed,    \* history: the version at which a request for the list failed
  overtaken, \* history: an older list or count replaced a newer one, per tab
  astray     \* history: an answer about the open conversation failed, came after an
             \* answer it should have preceded, or after something else was selected

server == <<scene, version, unread, thread>>
writer == <<op, at, my>>
stream == <<conn, queue, closes>>
inbox == <<badge, list, fetch>>
open == <<selected, shown, gets, opens>>
history == <<unsaid, lost, failed, overtaken, astray>>
vars == <<server, writer, stream, inbox, open, history>>

Highest(m, n) == IF m > n THEN m ELSE n
Counted == [n |-> unread, asOf |-> version]
Nothing == [n |-> 0, asOf |-> 0]
Idle  == [at |-> "free", list |-> 0, n |-> 0, asOf |-> 0]
Asked == [Idle EXCEPT !.at = "asked"]
NoView == [thread |-> NoThread, asOf |-> 0]
Fresh == [by |-> Elsewhere, about |-> NoThread, ended |-> FALSE, count |-> Nothing, made |-> 0]

Event(type, m) ==
  [type |-> type, about |-> m.about, n |-> m.count.n, asOf |-> m.count.asOf, change |-> m.made]

Counts == [n : Nat, asOf : Nat]
Topics == Threads \cup {NoThread}

TypeOK ==
  /\ version \in Nat /\ unread \in Nat
  /\ thread \in [Threads -> [asOf : 0..version, gone : BOOLEAN]]
  /\ op \in [Writers -> {"none"} \cup scene.ops]
  /\ at \in [Writers -> {"idle", "count", "recount", "publish", "answer", "reply", "done"}]
  /\ my \in [Writers -> [by : Tabs \cup {Elsewhere}, about : Topics, ended : BOOLEAN,
                         count : Counts, made : 0..version]]
  /\ conn \in [Tabs -> {"off", "subscribed", "live"}]
  /\ \A t \in Tabs :
       /\ Len(queue[t]) <= Buffer
       /\ conn[t] = "off" => queue[t] = <<>>
       /\ \A i \in DOMAIN queue[t] : queue[t][i].type \in scene.ops /\ queue[t][i].about \in Topics
  /\ closes \in 0..scene.closes
  /\ badge \in [Tabs -> Counts] /\ list \in [Tabs -> 0..version]
  /\ fetch \in [Tabs -> [Slots -> [at : {"free", "asked", "listed", "counted"},
                                   list : Nat, n : Nat, asOf : Nat]]]
  /\ selected \in [Tabs -> Topics] /\ shown \in [Tabs -> [thread : Topics, asOf : 0..version]]
  /\ \A t \in Tabs :
       /\ Len(gets[t]) <= scene.gets
       /\ \A i \in DOMAIN gets[t] : gets[t][i].thread \in Threads /\ gets[t][i].at \in {"asked", "read"}
  /\ opens \in [Tabs -> 0..scene.opens]
  /\ unsaid \in Nat /\ lost \in [Tabs -> Nat] /\ failed \in [Tabs -> Nat]
  /\ overtaken \in [Tabs -> BOOLEAN] /\ astray \in [Tabs -> BOOLEAN]

(* A page comes up: its first list request and its socket are on their way,   *)
(* or were answered already.                                                 *)
Init ==
  /\ scene \in Scenes
  /\ version = 0 /\ unread = 0
  /\ thread = [c \in Threads |-> [asOf |-> 0, gone |-> FALSE]]
  /\ op = [w \in Writers |-> "none"] /\ at = [w \in Writers |-> "idle"]
  /\ my = [w \in Writers |-> Fresh]
  /\ conn = [t \in Tabs |-> IF scene.loaded THEN "live" ELSE "off"]
  /\ queue = [t \in Tabs |-> <<>>] /\ closes = 0
  /\ badge = [t \in Tabs |-> Nothing] /\ list = [t \in Tabs |-> 0]
  /\ fetch = [t \in Tabs |-> [s \in Slots |-> IF s = 1 /\ ~scene.loaded THEN Asked ELSE Idle]]
  /\ selected = [t \in Tabs |-> NoThread] /\ shown = [t \in Tabs |-> NoView]
  /\ gets = [t \in Tabs |-> <<>>] /\ opens = [t \in Tabs |-> 0]
  /\ unsaid = 0 /\ lost = [t \in Tabs |-> 0] /\ failed = [t \in Tabs |-> 0]
  /\ overtaken = [t \in Tabs |-> FALSE] /\ astray = [t \in Tabs |-> FALSE]

-----------------------------------------------------------------------------
(* Handlers: change, count, publish *)

Goto(w, s) == at' = [at EXCEPT ![w] = s]

(* The handler is over and its locals are gone. *)
Finish(w) ==
  /\ Goto(w, "done")
  /\ op' = [op EXCEPT ![w] = "none"]
  /\ my' = [my EXCEPT ![w] = Fresh]

Continue(w, s) == Goto(w, s) /\ UNCHANGED <<op, my>>

(* The counts a change may leave: a message arrives unread, a deleted one may *)
(* have been, reading one or a conversation takes at least one away.         *)
Leaves(o) ==
  CASE o = "arrive"  -> {unread + 1}
    [] o = "delete"  -> {unread} \cup (IF unread > 0 THEN {unread - 1} ELSE {})
    [] o = "readone" -> IF unread > 0 THEN {unread - 1} ELSE {}
    [] o = "read"    -> {n \in 0..unread : n < unread}
    [] o = "drop"    -> 0..unread
    [] o = "clear"   -> {0}
    [] OTHER         -> {unread}

Changes(o) == o \notin {"config", "deliver"}

(* The conversation an event names, or NoThread; a single message that is      *)
(* marked as read names none.                                                *)
About(o) ==
  IF o \in {"clear", "config", "readone"} THEN {NoThread}
  ELSE IF scene.threads = {} THEN {NoThread}
  ELSE {c \in scene.threads : ~thread[c].gone}

(* Whether the conversation goes too. *)
Ends(o) == CASE o = "delete" -> BOOLEAN [] o = "drop" -> {TRUE} [] OTHER -> {FALSE}

(* A conversation is marked as read by a tab; that it shows it by then         *)
(* (loadThread) is left out, so it may happen at any time.                   *)
Asks(o) ==
  CASE o = "read" -> Tabs
    [] o \in Answered \ {"read"} -> scene.hands
    [] OTHER -> {Elsewhere}

(* The statement that changes the mailbox; a delivery or a save changes it    *)
(* not, and is announced all the same.                                      *)
Change(w, o) ==
  /\ at[w] = "idle"
  /\ op' = [op EXCEPT ![w] = o]
  /\ Goto(w, "count")
  /\ unread' \in Leaves(o)
  /\ version' = IF Changes(o) THEN version + 1 ELSE version
  /\ \E b \in Asks(o), c \in About(o), e \in Ends(o) :
       /\ my' = [my EXCEPT ![w] = [Fresh EXCEPT !.by = b, !.about = c, !.ended = e,
                                     !.made = IF Changes(o) THEN version + 1 ELSE 0]]
       /\ thread' = [d \in Threads |->
            IF o = "clear" /\ d \in scene.threads THEN [asOf |-> version + 1, gone |-> TRUE]
            ELSE IF d = c /\ o \in {"arrive", "delete", "drop"} THEN [asOf |-> version + 1, gone |-> e]
            ELSE thread[d]]
  /\ UNCHANGED <<scene, stream, inbox, open, history>>

(* Nothing was unread: no event, and a count for the one who asked. *)
ReadNothing(w, o) ==
  /\ at[w] = "idle" /\ o \in {"read", "readone"}
  /\ IF o = "read" THEN /\ Goto(w, "answer")
                        /\ op' = [op EXCEPT ![w] = o]
                        /\ \E b \in Asks(o) : my' = [my EXCEPT ![w].by = b]
     ELSE Finish(w)
  /\ UNCHANGED <<server, stream, inbox, open, history>>

(* CountUnread.  A handler that counted 0 itself has publish count again.     *)
Count(w) ==
  /\ at[w] \in {"count", "recount"}
  /\ my' = [my EXCEPT ![w].count = Counted]
  /\ Goto(w, IF at[w] = "count" /\ op[w] \in Early /\ unread = 0 THEN "recount" ELSE "publish")
  /\ UNCHANGED <<server, op, stream, inbox, open, history>>

(* The statement fails, or the browser is gone and r.Context() with it: a     *)
(* handler that counts itself gives up before publish, the others send 0.    *)
CountFails(w) ==
  /\ at[w] \in {"count", "recount"} /\ "sql" \in scene.faults
  /\ IF at[w] = "count" /\ op[w] \in Early
     THEN Finish(w) /\ unsaid' = Highest(unsaid, my[w].made)
     ELSE Continue(w, "publish") /\ UNCHANGED unsaid
  /\ UNCHANGED <<server, stream, inbox, open, lost, failed, overtaken, astray>>

(* Faulty variant: the channel has no bound. *)
RoomUnbounded(t) == conn[t] # "off"

(* Broker.Publish: everyone subscribed whose channel has room. *)
Room(t) == conn[t] # "off" /\ Len(queue[t]) < Buffer

(* Whether somebody looked at waits for the answer. *)
Awaited(w) == op[w] \in Answered /\ my[w].by \in Tabs

(* Faulty variant: config.changed carries no count. *)
PublishBareConfig(w) ==
  /\ at[w] = "publish"
  /\ LET e == IF op[w] = "config" THEN [Event(op[w], my[w]) EXCEPT !.n = 0] ELSE Event(op[w], my[w])
     IN  queue' = [t \in Tabs |-> IF Room(t) THEN Append(queue[t], e) ELSE queue[t]]
  /\ lost' = [t \in Tabs |-> IF Room(t) THEN lost[t] ELSE Highest(lost[t], my[w].made)]
  /\ IF Awaited(w) THEN Continue(w, "answer") ELSE Finish(w)
  /\ UNCHANGED <<server, conn, closes, inbox, open, unsaid, failed, overtaken, astray>>

Publish(w) ==
  /\ at[w] = "publish"
  /\ LET e == Event(op[w], my[w])
     IN  queue' = [t \in Tabs |-> IF Room(t) THEN Append(queue[t], e) ELSE queue[t]]
  /\ lost' = [t \in Tabs |-> IF Room(t) THEN lost[t] ELSE Highest(lost[t], my[w].made)]
  /\ IF Awaited(w) THEN Continue(w, "answer") ELSE Finish(w)
  /\ UNCHANGED <<server, conn, closes, inbox, open, unsaid, failed, overtaken, astray>>

(* markConversationSeen counts once more for its answer. *)
CountAnswer(w) ==
  /\ at[w] = "answer" /\ op[w] = "read"
  /\ \/ /\ my' = [my EXCEPT ![w].count = Counted]
        /\ Goto(w, "reply") /\ UNCHANGED op
     \/ "sql" \in scene.faults /\ Finish(w)
  /\ UNCHANGED <<server, stream, inbox, open, history>>

(* loadThread: the tab puts the answer on its badge and a 0 on the            *)
(* conversation's line, whatever it shows by then.                          *)
Reply(w) ==
  /\ at[w] = "reply"
  /\ LET t == my[w].by  c == my[w].count
     IN  /\ badge' = [badge EXCEPT ![t] = c]
         /\ overtaken' = [overtaken EXCEPT
              ![t] = @ \/ c.asOf < Highest(badge[t].asOf, list[t])]
  /\ Finish(w)
  /\ UNCHANGED <<server, stream, list, fetch, open, unsaid, lost, failed, astray>>

-----------------------------------------------------------------------------
(* What a tab asks for and what it has open *)

(* loadConversations *)
Ask(t) ==
  \E s \in 1..scene.asks :
    /\ fetch[t][s].at = "free" /\ \A u \in 1..(s - 1) : fetch[t][u].at # "free"
    /\ fetch' = [fetch EXCEPT ![t][s] = Asked]

(* A request for a conversation, after whose answer the list may be asked for. *)
Request(c, then) == [thread |-> c, at |-> "asked", asOf |-> 0, late |-> FALSE, then |-> then]

(* api.conversation *)
Get(t, c, then) ==
  /\ Len(gets[t]) < scene.gets
  /\ gets' = [gets EXCEPT ![t] = Append(@, Request(c, then))]

(* Whatever is still to be answered was asked for another selection. *)
Belated(requests) == [i \in DOMAIN requests |-> [requests[i] EXCEPT !.late = TRUE]]

Deselect(t) ==
  /\ selected' = [selected EXCEPT ![t] = NoThread]
  /\ shown' = [shown EXCEPT ![t] = NoView]
  /\ gets' = [gets EXCEPT ![t] = Belated(@)]
  /\ astray' = [astray EXCEPT ![t] = FALSE]
  /\ UNCHANGED opens

Refresh(t, then) ==
  /\ Get(t, selected[t], then)
  /\ UNCHANGED <<selected, shown, opens, astray>>

(* selectConversation, of any line the list shows, however old.  Marking it   *)
(* as read is a "read" of its own.                                          *)
Select(t, c) ==
  /\ opens[t] < scene.opens /\ Len(gets[t]) < scene.gets
  /\ selected' = [selected EXCEPT ![t] = c]
  /\ gets' = [gets EXCEPT ![t] = Append(Belated(@), Request(c, FALSE))]
  /\ opens' = [opens EXCEPT ![t] = @ + 1]
  /\ UNCHANGED <<server, writer, stream, inbox, shown, history>>

(* The answer to a deletion this tab asked for: the selection goes, whatever   *)
(* it is by then, or the selected conversation is read again.                *)
Deleted(w) ==
  /\ at[w] = "answer" /\ op[w] # "read"
  /\ LET t == my[w].by
     IN  IF op[w] = "delete" /\ ~my[w].ended /\ selected[t] # NoThread
         THEN Refresh(t, TRUE) /\ UNCHANGED fetch
         ELSE /\ Ask(t)
              /\ IF op[w] = "delete" /\ ~my[w].ended THEN UNCHANGED <<open, astray>> ELSE Deselect(t)
  /\ Finish(w)
  /\ UNCHANGED <<server, stream, badge, list, unsaid, lost, failed, overtaken>>

Write(w) ==
  \/ Count(w) \/ CountFails(w) \/ Publish(w) \/ CountAnswer(w) \/ Reply(w) \/ Deleted(w)

(* GET /conversations/{id}: what is there now; 404 changes nothing in the tab. *)
ReadThread(t, i) ==
  LET c == gets[t][i].thread
  IN  /\ gets[t][i].at = "asked"
      /\ gets' = [gets EXCEPT ![t] = IF thread[c].gone THEN RemoveAt(@, i)
                                     ELSE [@ EXCEPT ![i].at = "read", ![i].asOf = thread[c].asOf]]
      /\ UNCHANGED <<server, writer, stream, inbox, selected, shown, opens, history>>

(* setDetail, of whatever answer comes. *)
ShowThread(t, i) ==
  LET f == gets[t][i]
      late == f.late \/ (f.thread = shown[t].thread /\ f.asOf < shown[t].asOf)
  IN  /\ f.at = "read"
      /\ shown' = [shown EXCEPT ![t] = [thread |-> f.thread, asOf |-> f.asOf]]
      /\ astray' = [astray EXCEPT ![t] = IF late THEN TRUE ELSE @ /\ f.asOf < thread[f.thread].asOf]
      /\ gets' = [gets EXCEPT ![t] = RemoveAt(@, i)]
      /\ IF f.then THEN Ask(t) ELSE UNCHANGED fetch
      /\ UNCHANGED <<server, writer, stream, badge, list, selected, opens,
                     unsaid, lost, failed, overtaken>>

GetFails(t, i) ==
  /\ gets[t][i].at = "asked" /\ "sql" \in scene.faults
  /\ gets' = [gets EXCEPT ![t] = RemoveAt(@, i)]
  /\ astray' = [astray EXCEPT ![t] = @ \/ ~gets[t][i].late]
  /\ UNCHANGED <<server, writer, stream, inbox, selected, shown, opens, unsaid, lost, failed, overtaken>>

-----------------------------------------------------------------------------
(* The stream of one tab *)

(* Faulty variant: the tab does not connect again. *)
ConnectOnce(t) ==
  /\ conn[t] = "off" /\ closes = 0
  /\ conn' = [conn EXCEPT ![t] = "subscribed"]
  /\ UNCHANGED <<server, writer, queue, closes, inbox, open, history>>

(* The socket opens and streamEvents subscribes. *)
Connect(t) ==
  /\ conn[t] = "off"
  /\ conn' = [conn EXCEPT ![t] = "subscribed"]
  /\ UNCHANGED <<server, writer, queue, closes, inbox, open, history>>

Older(t, asOf) == asOf < badge[t].asOf

(* The hello: a count read after Subscribe, written before anything queued. *)
Hello(t) ==
  /\ conn[t] = "subscribed"
  /\ conn' = [conn EXCEPT ![t] = "live"]
  /\ \/ badge' = [badge EXCEPT ![t] = Counted]
     \/ "sql" \in scene.faults /\ UNCHANGED badge
  /\ UNCHANGED <<server, writer, queue, closes, list, fetch, open, history>>

(* Either end goes away, or the buffer of the socket stays full past the      *)
(* write timeout: the subscription ends and what it queued is gone.          *)
Close(t) ==
  /\ conn[t] # "off" /\ closes < scene.closes
  /\ conn' = [conn EXCEPT ![t] = "off"]
  /\ queue' = [queue EXCEPT ![t] = <<>>]
  /\ lost' = [lost EXCEPT ![t] =
       LET gone == {queue[t][i].change : i \in DOMAIN queue[t]} \cup {@}
       IN  CHOOSE v \in gone : \A u \in gone : u <= v]
  /\ closes' = closes + 1
  /\ UNCHANGED <<server, writer, inbox, open, unsaid, failed, overtaken, astray>>

-----------------------------------------------------------------------------
(* What the tab does with an event, and with the answers *)

Pop(t) ==
  /\ conn[t] = "live" /\ queue[t] # <<>>
  /\ queue' = [queue EXCEPT ![t] = Tail(@)]
  /\ badge' = [badge EXCEPT ![t] = [n |-> Head(queue[t]).n, asOf |-> Head(queue[t]).asOf]]
  /\ overtaken' = [overtaken EXCEPT ![t] = @ \/ Older(t, Head(queue[t]).asOf)]
  /\ UNCHANGED <<server, writer, conn, closes, list, unsaid, lost, failed>>

(* What an event means for the open conversation. *)
Follow(t, e) ==
  CASE e.type = "clear" -> Deselect(t)
    [] e.about # NoThread /\ e.about = selected[t] -> Refresh(t, FALSE)
    [] OTHER -> UNCHANGED <<open, astray>>

(* Faulty variant: only mail that comes or goes makes the tab ask again. *)
HandleOmittingRead(t) ==
  /\ Pop(t)
  /\ IF Head(queue[t]).type \in {"config", "read"} THEN UNCHANGED fetch ELSE Ask(t)
  /\ Follow(t, Head(queue[t]))

(* Faulty variant: the conversation of any event is read and shown. *)
HandleAnyThread(t) ==
  /\ Pop(t)
  /\ IF Head(queue[t]).type = "config" THEN UNCHANGED fetch ELSE Ask(t)
  /\ IF Head(queue[t]).about = NoThread THEN Follow(t, Head(queue[t]))
     ELSE Get(t, Head(queue[t]).about, FALSE) /\ UNCHANGED <<selected, shown, opens, astray>>

(* onEvent: the count goes on the badge and, but for settings, the list is    *)
(* asked for again.                                                         *)
Handle(t) ==
  /\ Pop(t)
  /\ IF Head(queue[t]).type = "config" THEN UNCHANGED fetch ELSE Ask(t)
  /\ Follow(t, Head(queue[t]))

(* listConversations on the server: the list, then the count. *)
ReadList(t, s) ==
  /\ fetch[t][s].at = "asked"
  /\ fetch' = [fetch EXCEPT ![t][s].at = "listed", ![t][s].list = version]
  /\ UNCHANGED <<server, writer, stream, badge, list, open, history>>

ReadCount(t, s) ==
  /\ fetch[t][s].at = "listed"
  /\ fetch' = [fetch EXCEPT ![t][s].at = "counted", ![t][s].n = unread, ![t][s].asOf = version]
  /\ UNCHANGED <<server, writer, stream, badge, list, open, history>>

(* The answer reaches the tab, which shows it whatever it showed before. *)
Show(t, s) ==
  /\ fetch[t][s].at = "counted"
  /\ LET f == fetch[t][s]
         late == f.list < list[t] \/ f.asOf < badge[t].asOf
     IN  /\ list' = [list EXCEPT ![t] = f.list]
         /\ badge' = [badge EXCEPT ![t] = [n |-> f.n, asOf |-> f.asOf]]
         /\ overtaken' = [overtaken EXCEPT ![t] = IF late THEN TRUE ELSE @ /\ f.list < version]
  /\ fetch' = [fetch EXCEPT ![t][s] = Idle]
  /\ UNCHANGED <<server, writer, stream, open, unsaid, lost, failed, astray>>

(* The request fails.  The tab keeps the list it shows, and its error message *)
(* stays until the next answer, also one to an older request.               *)
FetchFails(t, s) ==
  /\ fetch[t][s].at \in {"asked", "listed"} /\ "sql" \in scene.faults
  /\ fetch' = [fetch EXCEPT ![t][s] = Idle]
  /\ failed' = [failed EXCEPT ![t] = Highest(@, version)]
  /\ UNCHANGED <<server, writer, stream, badge, list, open, unsaid, lost, overtaken, astray>>

AnswerList(t, s) == ReadList(t, s) \/ ReadCount(t, s) \/ Show(t, s)
AnswerGet(t) == \E i \in DOMAIN gets[t] : ReadThread(t, i) \/ ShowThread(t, i)

Next ==
  \/ \E w \in scene.writers, o \in scene.ops : Change(w, o) \/ ReadNothing(w, o)
  \/ \E w \in Writers : Write(w)
  \/ \E t \in Tabs : Connect(t) \/ Hello(t) \/ Close(t) \/ Handle(t)
  \/ \E t \in Tabs, s \in Slots : AnswerList(t, s) \/ FetchFails(t, s)
  \/ \E t \in Tabs, c \in scene.threads : Select(t, c)
  \/ \E t \in Tabs : AnswerGet(t) \/ \E i \in DOMAIN gets[t] : GetFails(t, i)

Spec == Init /\ [][Next]_vars

(* Goroutines run, answers arrive, and a tab that is open connects again      *)
(* (its retries are at most ten seconds apart); nothing need ever change.    *)
FairSpec ==
  /\ Spec
  /\ \A w \in Writers : WF_vars(Write(w))
  /\ \A t \in Tabs : WF_vars(Connect(t)) /\ WF_vars(Hello(t)) /\ WF_vars(Handle(t)) /\ WF_vars(AnswerGet(t))
  /\ \A t \in Tabs, s \in Slots : WF_vars(AnswerList(t, s))

-----------------------------------------------------------------------------
(* Properties *)

Waiting(t) == gets[t] # <<>> \/ \E s \in Slots : fetch[t][s].at # "free"
Writing == \E w \in Writers : at[w] \notin {"idle", "done"}
Quiet(t) == ~Writing /\ ~Waiting(t) /\ conn[t] = "live" /\ queue[t] = <<>>

(* Why a tab may keep an old list or badge: the event of a later change did    *)
(* not reach it or was never published, its request for the list failed, or   *)
(* an older answer came last.                                                *)
Excused(t) ==
  Highest(lost[t], failed[t]) > list[t] \/ unsaid > list[t] \/ overtaken[t]

(* When everything has run its course a connected tab shows the mailbox as it *)
(* is, unless it is excused: each change is published after it is made, and   *)
(* each event makes the tab ask again (App.tsx:132-135).                     *)
QuietListIsFresh == \A t \in Tabs : Quiet(t) /\ ~Excused(t) => list[t] = version

(* So does its badge, unless a count failed: a config.changed, which makes it *)
(* ask for nothing, carries the count too (webhook.go:157-159).              *)
QuietBadgeIsFresh ==
  \A t \in Tabs : Quiet(t) /\ ~Excused(t) => badge[t].n = unread

(* And what it has open is the conversation that is selected, with everything  *)
(* that happened in it (App.tsx:137-144), or nothing when none is.  The answer *)
(* is shown whatever is selected by then, so one that comes late is an excuse; *)
(* a conversation deleted elsewhere stays open as it was; an event that did    *)
(* not reach the tab leaves it as it was, too.                                 *)
OpenThreadIsCurrent ==
  \A t \in Tabs :
    LET c == selected[t]
    IN  Quiet(t) /\ ~astray[t] =>
          IF c = NoThread THEN shown[t] = NoView
          ELSE \/ thread[c].gone
               \/ /\ shown[t].thread = c
                  /\ thread[c].asOf \in {shown[t].asOf} \cup 0..Highest(lost[t], unsaid)

(* Every open tab is connected in the end, with nothing left to read and no   *)
(* answer to wait for, and its view settles.                                *)
EventuallySettled ==
  \A t \in Tabs : <>[](conn[t] = "live" /\ queue[t] = <<>> /\ ~Waiting(t))

(* The stream is a hint to refresh, not a ledger a client must see every      *)
(* entry of (events.go:6-8): whatever it missed, a connected tab shows the    *)
(* mailbox as it is in the end.                                             *)
HintsSuffice == \A t \in Tabs : <>[](list[t] = version)
=============================================================================
