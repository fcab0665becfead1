---------------------------- MODULE LiveView_proofs ----------------------------
(***************************************************************************)
(* Theorems about the live view, for any number of tabs, requests and      *)
(* conversations, any capacity of a subscriber's channel, and any scene.   *)
(***************************************************************************)
EXTENDS LiveView, FiniteSetTheorems, SequenceTheorems, TLAPS

-----------------------------------------------------------------------------
(* Sequences and numbers *)

(* What is left of a sequence without one of its elements, in both directions. *)
LEMMA Removed ==
  ASSUME NEW S, NEW s \in Seq(S), NEW i \in 1..Len(s)
  PROVE  /\ RemoveAt(s, i) \in Seq(S) /\ Len(RemoveAt(s, i)) = Len(s) - 1
         /\ \A j \in 1..Len(RemoveAt(s, i)) : \E k \in 1..Len(s) : RemoveAt(s, i)[j] = s[k]
         /\ \A k \in 1..Len(s) : k # i => \E j \in 1..Len(RemoveAt(s, i)) : RemoveAt(s, i)[j] = s[k]
<1> DEFINE a == SubSeq(s, 1, i - 1)
           b == SubSeq(s, i + 1, Len(s))
           r == a \o b
<1>1. Len(s) \in Nat /\ i \in Nat /\ i >= 1 /\ i <= Len(s)
  OBVIOUS
<1>2. a \in Seq(S) /\ Len(a) = i - 1 /\ \A j \in 1..(i - 1) : a[j] = s[j]
  BY <1>1
<1>3. b \in Seq(S) /\ Len(b) = Len(s) - i /\ \A j \in 1..(Len(s) - i) : b[j] = s[i + j]
  BY <1>1
<1> HIDE DEF a, b
<1>4. /\ r \in Seq(S) /\ Len(r) = Len(s) - 1
      /\ \A j \in 1..(Len(s) - 1) : r[j] = IF j <= i - 1 THEN a[j] ELSE b[j - (i - 1)]
  <2>1. Len(a) + Len(b) = Len(s) - 1
    BY <1>1, <1>2, <1>3
  <2>2. /\ r \in Seq(S) /\ Len(r) = Len(a) + Len(b)
        /\ \A j \in 1..(Len(a) + Len(b)) : r[j] = IF j <= Len(a) THEN a[j] ELSE b[j - Len(a)]
    BY <1>2, <1>3, ConcatProperties
  <2> HIDE DEF r
  <2> QED
    BY <1>2, <2>1, <2>2
<1>5. RemoveAt(s, i) = r
  BY DEF RemoveAt, a, b
<1> HIDE DEF r
<1>6. ASSUME NEW j \in 1..Len(r) PROVE \E k \in 1..Len(s) : r[j] = s[k]
  <2>1. j \in 1..(Len(s) - 1) /\ j \in Nat
    BY <1>1, <1>4
  <2>2. CASE j <= i - 1
    <3>1. j \in 1..(i - 1) /\ j \in 1..Len(s)
      BY <1>1, <2>1, <2>2
    <3>2. r[j] = a[j] /\ a[j] = s[j]
      BY <1>2, <1>4, <2>1, <2>2, <3>1
    <3> QED
      BY <3>1, <3>2
  <2>3. CASE ~(j <= i - 1)
    <3>1. j - (i - 1) \in 1..(Len(s) - i) /\ i + (j - (i - 1)) \in 1..Len(s)
      BY <1>1, <2>1, <2>3
    <3>2. r[j] = b[j - (i - 1)] /\ b[j - (i - 1)] = s[i + (j - (i - 1))]
      BY <1>3, <1>4, <2>1, <2>3, <3>1
    <3> QED
      BY <3>1, <3>2
  <2> QED
    BY <2>2, <2>3
<1>7. ASSUME NEW k \in 1..Len(s), k # i PROVE \E j \in 1..Len(r) : r[j] = s[k]
  <2>1. CASE k < i
    <3>1. k \in 1..(i - 1) /\ k \in 1..(Len(s) - 1) /\ k \in 1..Len(r)
      BY <1>1, <1>4, <2>1
    <3>2. r[k] = a[k] /\ a[k] = s[k]
      BY <1>1, <1>2, <1>4, <2>1, <3>1
    <3> QED
      BY <3>1, <3>2
  <2>2. CASE k > i
    <3>1. /\ k - 1 \in 1..(Len(s) - 1) /\ k - 1 \in 1..Len(r) /\ ~(k - 1 <= i - 1)
          /\ (k - 1) - (i - 1) \in 1..(Len(s) - i) /\ i + ((k - 1) - (i - 1)) = k
      BY <1>1, <1>4, <2>2
    <3>2. r[k - 1] = b[(k - 1) - (i - 1)] /\ b[(k - 1) - (i - 1)] = s[k]
      BY <1>3, <1>4, <3>1
    <3> QED
      BY <3>1, <3>2
  <2> QED
    BY <1>1, <1>7, <2>1, <2>2
<1> QED
  BY <1>4, <1>5, <1>6, <1>7

(* A sequence with one more element has that one and its own. *)
LEMMA Appended ==
  ASSUME NEW S, NEW s \in Seq(S), NEW e \in S
  PROVE  /\ Append(s, e) \in Seq(S) /\ Len(Append(s, e)) = Len(s) + 1
         /\ 1..Len(s) \subseteq 1..Len(Append(s, e)) /\ Len(s) + 1 \in 1..Len(Append(s, e))
         /\ \A i \in 1..Len(s) : Append(s, e)[i] = s[i]
         /\ Append(s, e)[Len(s) + 1] = e
         /\ \A i \in 1..Len(Append(s, e)) : i \in 1..Len(s) \/ i = Len(s) + 1
<1>1. Len(s) \in Nat
  OBVIOUS
<1>2. Append(s, e) \in Seq(S) /\ Len(Append(s, e)) = Len(s) + 1
  OBVIOUS
<1>3. /\ \A i \in 1..Len(s) : Append(s, e)[i] = s[i]
      /\ Append(s, e)[Len(s) + 1] = e
  OBVIOUS
<1>4. /\ 1..Len(s) \subseteq 1..(Len(s) + 1) /\ Len(s) + 1 \in 1..(Len(s) + 1)
      /\ \A i \in 1..(Len(s) + 1) : i \in 1..Len(s) \/ i = Len(s) + 1
  BY <1>1
<1> QED
  BY <1>2, <1>3, <1>4

(* A sequence without its first element has the others. *)
LEMMA Popped ==
  ASSUME NEW S, NEW s \in Seq(S), s # <<>>
  PROVE  /\ Tail(s) \in Seq(S) /\ Len(Tail(s)) = Len(s) - 1
         /\ 1 \in 1..Len(s) /\ Head(s) = s[1] /\ Head(s) \in S
         /\ \A j \in 1..Len(Tail(s)) : \E k \in 1..Len(s) : Tail(s)[j] = s[k]
         /\ \A k \in 1..Len(s) : k # 1 => \E j \in 1..Len(Tail(s)) : Tail(s)[j] = s[k]
<1>1. Len(s) \in Nat \ {0}
  BY EmptySeq
<1>2. /\ Head(s) \in S /\ Tail(s) \in Seq(S) /\ Len(Tail(s)) = Len(s) - 1
      /\ \A i \in 1..Len(Tail(s)) : Tail(s)[i] = s[i + 1]
  BY HeadTailProperties
<1>3. Head(s) = s[1] /\ 1 \in 1..Len(s)
  BY <1>1
<1>4. ASSUME NEW j \in 1..Len(Tail(s)) PROVE \E k \in 1..Len(s) : Tail(s)[j] = s[k]
  <2>1. j + 1 \in 1..Len(s)
    BY <1>1, <1>2
  <2> QED
    BY <1>2, <2>1
<1>5. ASSUME NEW k \in 1..Len(s), k # 1 PROVE \E j \in 1..Len(Tail(s)) : Tail(s)[j] = s[k]
  <2>1. k - 1 \in 1..Len(Tail(s)) /\ (k - 1) + 1 = k
    BY <1>1, <1>2, <1>5
  <2> QED
    BY <1>2, <2>1
<1> QED
  BY <1>2, <1>3, <1>4, <1>5

(* A bounded set of numbers has a greatest one. *)
LEMMA GreatestOf ==
  ASSUME NEW T, T # {}, NEW n \in Nat, T \subseteq 0..n
  PROVE  \E x \in T : \A y \in T : y <= x
<1> DEFINE less == OpToRel(<, Nat)
           spare == {n - x : x \in T}
<1>1. spare \subseteq Nat /\ spare # {}
  <2>1. \A x \in T : n - x \in Nat
    OBVIOUS
  <2> QED
    BY <2>1, Zenon
<1>2. PICK x \in spare : \A y \in spare : ~(<<y, x>> \in less)
  <2> HIDE DEF less, spare
  <2>1. IsWellFoundedOn(less, Nat)
    BY NatLessThanWellFounded, Zenon DEF less
  <2> QED
    BY <1>1, <2>1, WFMin
<1>3. \A y \in spare : ~(y < x)
  BY <1>1, <1>2 DEF OpToRel
<1>4. PICK m \in T : x = n - m
  BY <1>2
<1>5. ASSUME NEW y \in T PROVE y <= m
  <2>1. ~(n - y < n - m)
    BY <1>3, <1>4
  <2> QED
    BY <2>1
<1> QED
  BY <1>5

-----------------------------------------------------------------------------
(* The inductive invariant *)

(* What a handler has left of its change to announce, an event and a request  *)
(* for a conversation.                                                       *)
Pending == {"count", "recount", "publish"}
Events == [type : scene.ops, about : Topics, n : Nat, asOf : Nat, change : 0..version]
Requests == [thread : Threads, at : {"asked", "read"}, asOf : 0..version, late : BOOLEAN, then : BOOLEAN]

(* The types, part by part. *)
ServerTyped ==
  /\ scene \in Scenes /\ version \in Nat /\ unread \in Nat
  /\ thread \in [Threads -> [asOf : 0..version, gone : BOOLEAN]]

Places == {"idle", "count", "recount", "publish", "answer", "reply", "done"}
Holdings == [by : Tabs \cup {Elsewhere}, about : Topics, ended : BOOLEAN, count : Counts, made : 0..version]

WriterTyped ==
  /\ op \in [Writers -> {"none"} \cup scene.ops]
  /\ at \in [Writers -> Places]
  /\ my \in [Writers -> Holdings]

StreamTyped ==
  /\ conn \in [Tabs -> {"off", "subscribed", "live"}]
  /\ queue \in [Tabs -> Seq(Events)]
  /\ \A t \in Tabs : Len(queue[t]) <= Buffer /\ (conn[t] = "off" => queue[t] = <<>>)
  /\ closes \in 0..scene.closes

Fetches == [at : {"free", "asked", "listed", "counted"}, list : Nat, n : Nat, asOf : Nat]

InboxTyped ==
  /\ badge \in [Tabs -> Counts] /\ list \in [Tabs -> 0..version]
  /\ fetch \in [Tabs -> [Slots -> Fetches]]

OpenTyped ==
  /\ selected \in [Tabs -> {NoThread} \cup scene.threads]
  /\ shown \in [Tabs -> [thread : Topics, asOf : 0..version]]
  /\ gets \in [Tabs -> Seq(Requests)]
  /\ \A t \in Tabs : Len(gets[t]) <= scene.gets
  /\ opens \in [Tabs -> 0..scene.opens]

HistoryTyped ==
  /\ unsaid \in Nat /\ lost \in [Tabs -> Nat] /\ failed \in [Tabs -> Nat]
  /\ overtaken \in [Tabs -> BOOLEAN] /\ astray \in [Tabs -> BOOLEAN]

(* Who is under way knows what it does, whoever waits for an answer is a tab,  *)
(* and what is saved in the settings is no change of the mailbox.             *)
Handling(w) ==
  /\ at[w] \in Pending \cup {"answer", "reply"} => op[w] \in scene.ops
  /\ at[w] \in {"answer", "reply"} => my[w].by \in Tabs
  /\ op[w] = "config" => my[w].made = 0

Handlers == \A w \in Writers : Handling(w)

SettingsAreNoChange ==
  \A t \in Tabs : \A i \in DOMAIN queue[t] : queue[t][i].type = "config" => queue[t][i].change = 0

(* A count is as of a version that was, and right if that is the present one.  *)
Sound(c) == c.asOf <= version /\ (c.asOf = version => c.n = unread)

NothingIsSound == version = 0 => unread = 0
HeldCountsAreSound == \A w \in Writers : Sound(my[w].count)
QueuedCountsAreSound == \A t \in Tabs : \A i \in DOMAIN queue[t] : Sound(queue[t][i])
ShownCountsAreSound == \A t \in Tabs : Sound(badge[t])

(* So is the one of a request, which follows its list. *)
FetchedCountsAreSound ==
  \A t \in Tabs, s \in Slots :
    /\ fetch[t][s].at \in {"listed", "counted"} => fetch[t][s].list <= version
    /\ fetch[t][s].at = "counted" => Sound(fetch[t][s]) /\ fetch[t][s].list <= fetch[t][s].asOf

(* The badge is no older than the list, unless an older count came last.       *)
BadgeFollowsList == \A t \in Tabs : overtaken[t] \/ list[t] <= badge[t].asOf

(* A change is on its way to a tab, or the tab is excused for it: a handler    *)
(* is about to publish it, or its event is queued.                           *)
Held(c, v) == \E w \in Writers : at[w] \in Pending /\ my[w].about = c /\ my[w].made = v
Queued(t, c, v) == \E i \in DOMAIN queue[t] : queue[t][i].about = c /\ queue[t][i].change = v
Told(t, c, v) == v <= lost[t] \/ v <= unsaid \/ Held(c, v) \/ Queued(t, c, v)

(* The last change is on its way to the tab's list: being told, asked for,     *)
(* read, there, or one of the excuses.                                        *)
Arriving(t, s) ==
  \/ fetch[t][s].at = "asked"
  \/ fetch[t][s].at \in {"listed", "counted"} /\ fetch[t][s].list = version

LastChange(t) ==
  \/ version = 0
  \/ \E c \in Topics : Told(t, c, version)
  \/ \E s \in Slots : Arriving(t, s)
  \/ list[t] = version
  \/ version <= failed[t]
  \/ overtaken[t]

ChangesReachTheList == \A t \in Tabs : LastChange(t)

(* A request that is not belated is for what is selected; what is shown and    *)
(* what was read is no newer than the last change.                            *)
RequestsAreForTheSelection ==
  \A t \in Tabs :
    /\ \A i \in DOMAIN gets[t] :
         /\ ~gets[t][i].late => gets[t][i].thread = selected[t]
         /\ gets[t][i].at = "read" => gets[t][i].asOf <= thread[gets[t][i].thread].asOf
    /\ shown[t].thread # NoThread => shown[t].asOf <= thread[shown[t].thread].asOf

(* An answer that shows the conversation as it is.                            *)
Current(r, v) == r.at = "asked" \/ r.asOf = v

NothingIsOpen == \A t \in Tabs : ~astray[t] /\ selected[t] = NoThread => shown[t] = NoView

(* The selected conversation is shown, or asked for, unless it is gone.        *)
Opened(t) ==
  \/ thread[selected[t]].gone
  \/ shown[t].thread = selected[t]
  \/ \E i \in DOMAIN gets[t] : ~gets[t][i].late

(* The last change in it is on its way to the tab, or an excuse is.            *)
LastInThread(t) ==
  LET c == selected[t]  v == thread[c].asOf
  IN  \/ thread[c].gone
      \/ shown[t].thread = c /\ shown[t].asOf = v
      \/ \E i \in DOMAIN gets[t] : ~gets[t][i].late /\ Current(gets[t][i], v)
      \/ Told(t, c, v)

ChangesReachTheThread ==
  \A t \in Tabs : ~astray[t] /\ selected[t] # NoThread => Opened(t) /\ LastInThread(t)
-----------------------------------------------------------------------------
(* The steps *)

(* Every step is one of somebody's. *)
LEMMA Steps ==
  ASSUME scene \in Scenes, [Next]_vars
  PROVE  \/ \E w \in Writers : \/ \E o \in scene.ops : Change(w, o) \/ ReadNothing(w, o)
                               \/ Count(w) \/ CountFails(w) \/ Publish(w)
                               \/ CountAnswer(w) \/ Reply(w) \/ Deleted(w)
         \/ \E t \in Tabs : \/ Connect(t) \/ Hello(t) \/ Close(t) \/ Handle(t)
                            \/ \E s \in Slots : ReadList(t, s) \/ ReadCount(t, s) \/ Show(t, s) \/ FetchFails(t, s)
                            \/ \E c \in scene.threads : Select(t, c)
                            \/ \E i \in DOMAIN gets[t] : ReadThread(t, i) \/ ShowThread(t, i) \/ GetFails(t, i)
         \/ UNCHANGED vars
<1>1. scene.writers \subseteq Writers
  BY LiveViewAssumption
<1> QED
  BY <1>1 DEF Next, Write, AnswerList, AnswerGet

(* What a tab does leaves the mailbox and the handlers alone. *)
TabStep(t) ==
  \/ Connect(t) \/ Hello(t) \/ Close(t) \/ Handle(t)
  \/ \E s \in Slots : ReadList(t, s) \/ ReadCount(t, s) \/ Show(t, s) \/ FetchFails(t, s)
  \/ \E c \in scene.threads : Select(t, c)
  \/ \E i \in DOMAIN gets[t] : ReadThread(t, i) \/ ShowThread(t, i) \/ GetFails(t, i)

(* They are no business of the handlers. *)
LEMMA TabStepsLeave ==
  ASSUME NEW t \in Tabs, TabStep(t)
  PROVE  UNCHANGED <<server, writer, unsaid>>
BY DEF TabStep, Connect, Hello, Close, Handle, Pop, ReadList, ReadCount, Show, FetchFails,
       Select, ReadThread, ShowThread, GetFails, history

(* What a handler holds after its change. *)
LEMMA HeldByChange ==
  ASSUME NEW b, NEW c, NEW e, NEW v
  PROVE  [Fresh EXCEPT !.by = b, !.about = c, !.ended = e, !.made = v]
           = [by |-> b, about |-> c, ended |-> e, count |-> Nothing, made |-> v]
<1> DEFINE m == Fresh
<1>0. PICK e0 : m = [by |-> Elsewhere, about |-> NoThread, ended |-> e0, count |-> Nothing, made |-> 0]
  BY Zenon DEF Fresh
<1> HIDE DEF m
<1> DEFINE m1 == [m EXCEPT !.by = b]
           m2 == [m1 EXCEPT !.about = c]
           m3 == [m2 EXCEPT !.ended = e]
           m4 == [m3 EXCEPT !.made = v]
<1>1. m1 = [by |-> b, about |-> NoThread, ended |-> e0, count |-> Nothing, made |-> 0]
  BY <1>0
<1> HIDE DEF m1
<1>2. m2 = [by |-> b, about |-> c, ended |-> e0, count |-> Nothing, made |-> 0]
  BY <1>1
<1> HIDE DEF m2
<1>3. m3 = [by |-> b, about |-> c, ended |-> e, count |-> Nothing, made |-> 0]
  BY <1>2
<1> HIDE DEF m3
<1>4. m4 = [by |-> b, about |-> c, ended |-> e, count |-> Nothing, made |-> v]
  BY <1>3
<1> HIDE DEF m4
<1>5. [m EXCEPT !.by = b, !.about = c, !.ended = e, !.made = v] = m4
  BY DEF m1, m2, m3, m4
<1> QED
  BY <1>4, <1>5, Zenon DEF m

(* A change, in full: what it does to the mailbox, and what its handler holds. *)
LEMMA ChangeLeaves ==
  ASSUME ServerTyped, WriterTyped, NEW w \in Writers, NEW o \in scene.ops, Change(w, o)
  PROVE  \E b \in Tabs \cup {Elsewhere}, c \in {NoThread} \cup scene.threads, e \in BOOLEAN :
           /\ scene' = scene /\ at[w] = "idle"
           /\ op' = [op EXCEPT ![w] = o] /\ at' = [at EXCEPT ![w] = "count"]
           /\ version' = (IF Changes(o) THEN version + 1 ELSE version)
           /\ unread' \in Nat /\ (~Changes(o) => unread' = unread)
           /\ my' = [my EXCEPT ![w] = [by |-> b, about |-> c, ended |-> e, count |-> Nothing,
                                       made |-> IF Changes(o) THEN version + 1 ELSE 0]]
           /\ thread' = [d \in Threads |->
                IF o = "clear" /\ d \in scene.threads THEN [asOf |-> version + 1, gone |-> TRUE]
                ELSE IF d = c /\ o \in {"arrive", "delete", "drop"} THEN [asOf |-> version + 1, gone |-> e]
                ELSE thread[d]]
           /\ c # NoThread => ~thread[c].gone
<1>1. /\ scene.ops \subseteq Kinds /\ scene.hands \subseteq Tabs \cup {Elsewhere}
      /\ scene.threads \subseteq Threads /\ NoThread \notin Threads
  BY LiveViewAssumption DEF ServerTyped
<1>2. unread' \in Nat
  <2>1. unread \in Nat /\ unread' \in Leaves(o)
    BY DEF ServerTyped, Change
  <2>2. CASE o = "arrive"
    BY <2>1, <2>2 DEF Leaves
  <2>3. CASE o = "delete"
    BY <2>1, <2>3 DEF Leaves
  <2>4. CASE o = "readone"
    BY <2>1, <2>4 DEF Leaves
  <2>5. CASE o = "read"
    BY <2>1, <2>5 DEF Leaves
  <2>6. CASE o = "drop"
    BY <2>1, <2>6 DEF Leaves
  <2>7. CASE o = "clear"
    BY <2>1, <2>7 DEF Leaves
  <2>8. CASE o \notin {"arrive", "delete", "readone", "read", "drop", "clear"}
    BY <2>1, <2>8 DEF Leaves
  <2> QED
    BY <2>2, <2>3, <2>4, <2>5, <2>6, <2>7, <2>8
<1>3. ~Changes(o) => unread' = unread
  <2> SUFFICES ASSUME ~Changes(o) PROVE unread' = unread
    OBVIOUS
  <2>1. o \notin {"arrive", "delete", "readone", "read", "drop", "clear"}
    BY DEF Changes
  <2>2. unread' \in Leaves(o)
    BY DEF Change
  <2> QED
    BY <2>1, <2>2 DEF Leaves
<1>4. Asks(o) \subseteq Tabs \cup {Elsewhere}
  BY <1>1 DEF Asks
<1>5. About(o) \subseteq {NoThread} \cup scene.threads /\ \A c \in About(o) : c # NoThread => ~thread[c].gone
  BY <1>1 DEF About
<1>6. Ends(o) \subseteq BOOLEAN
  BY DEF Ends
<1>7. PICK b \in Asks(o), c \in About(o), e \in Ends(o) :
        /\ my' = [my EXCEPT ![w] = [Fresh EXCEPT !.by = b, !.about = c, !.ended = e,
                                      !.made = IF Changes(o) THEN version + 1 ELSE 0]]
        /\ thread' = [d \in Threads |->
             IF o = "clear" /\ d \in scene.threads THEN [asOf |-> version + 1, gone |-> TRUE]
             ELSE IF d = c /\ o \in {"arrive", "delete", "drop"} THEN [asOf |-> version + 1, gone |-> e]
             ELSE thread[d]]
  BY DEF Change
<1>8. my' = [my EXCEPT ![w] = [by |-> b, about |-> c, ended |-> e, count |-> Nothing,
                               made |-> IF Changes(o) THEN version + 1 ELSE 0]]
  <2> DEFINE v == IF Changes(o) THEN version + 1 ELSE 0
  <2>1. [Fresh EXCEPT !.by = b, !.about = c, !.ended = e, !.made = v]
          = [by |-> b, about |-> c, ended |-> e, count |-> Nothing, made |-> v]
    BY HeldByChange
  <2> QED
    BY <1>7, <2>1, Zenon
<1>9. /\ scene' = scene /\ at[w] = "idle"
      /\ op' = [op EXCEPT ![w] = o] /\ at' = [at EXCEPT ![w] = "count"]
      /\ version' = (IF Changes(o) THEN version + 1 ELSE version)
  BY DEF Change, Goto
<1>10. b \in Tabs \cup {Elsewhere} /\ c \in {NoThread} \cup scene.threads /\ e \in BOOLEAN
       /\ (c # NoThread => ~thread[c].gone)
  BY <1>4, <1>5, <1>6
<1>11. thread' = [d \in Threads |->
         IF o = "clear" /\ d \in scene.threads THEN [asOf |-> version + 1, gone |-> TRUE]
         ELSE IF d = c /\ o \in {"arrive", "delete", "drop"} THEN [asOf |-> version + 1, gone |-> e]
         ELSE thread[d]]
  BY <1>7, Zenon
<1> QED
  BY <1>2, <1>3, <1>8, <1>9, <1>10, <1>11, Zenon

(* What a handler does after its change leaves the mailbox alone. *)
HandlerStep(w) ==
  \/ \E o \in scene.ops : ReadNothing(w, o)
  \/ Count(w) \/ CountFails(w) \/ Publish(w) \/ CountAnswer(w) \/ Reply(w) \/ Deleted(w)

(* What a handler's steps after its change leave alone. *)
LEMMA HandlerStepsLeave ==
  ASSUME NEW w \in Writers, HandlerStep(w)
  PROVE  UNCHANGED <<server, conn, closes, selected, list, failed>> \/ Deleted(w)
BY DEF HandlerStep, ReadNothing, Count, CountFails, Publish, CountAnswer, Reply, Deleted,
       inbox, open, stream, history

(* What the answer to a deletion leaves alone. *)
LEMMA DeletedLeaves ==
  ASSUME NEW w \in Writers, Deleted(w)
  PROVE  UNCHANGED <<server, stream, badge, list, unsaid, lost, failed, overtaken>>
BY DEF Deleted

(* A handler's end, and its step with what it holds. *)
LEMMA FinishLeaves ==
  ASSUME WriterTyped, NEW w \in Writers, Finish(w)
  PROVE  /\ op'[w] = "none" /\ at'[w] = "done" /\ my'[w] = Fresh
         /\ \A u \in Writers \ {w} : op'[u] = op[u] /\ at'[u] = at[u] /\ my'[u] = my[u]
         /\ op' = [u \in Writers |-> op'[u]] /\ at' = [u \in Writers |-> at'[u]]
         /\ my' = [u \in Writers |-> my'[u]]
BY DEF Finish, Goto, WriterTyped

(* A handler that goes on holds what it held. *)
LEMMA ContinueLeaves ==
  ASSUME WriterTyped, NEW w \in Writers, NEW s, Continue(w, s)
  PROVE  /\ op' = op /\ my' = my /\ at'[w] = s
         /\ \A u \in Writers \ {w} : at'[u] = at[u]
         /\ at' = [u \in Writers |-> at'[u]]
BY DEF Continue, Goto, WriterTyped

(* What a count changes of what the handler holds. *)
LEMMA CountedLeaves ==
  ASSUME WriterTyped, NEW w \in Writers, my' = [my EXCEPT ![w].count = Counted]
  PROVE  /\ my'[w].by = my[w].by /\ my'[w].about = my[w].about /\ my'[w].ended = my[w].ended
         /\ my'[w].made = my[w].made /\ my'[w].count = Counted
         /\ my'[w] = [by |-> my[w].by, about |-> my[w].about, ended |-> my[w].ended,
                      count |-> Counted, made |-> my[w].made]
         /\ \A u \in Writers \ {w} : my'[u] = my[u]
         /\ my' = [u \in Writers |-> my'[u]]
<1> DEFINE m == my[w]
<1>1. my' = [my EXCEPT ![w] = [m EXCEPT !.count = Counted]]
  OBVIOUS
<1>2. PICK b, c, e, n, v : m = [by |-> b, about |-> c, ended |-> e, count |-> n, made |-> v]
  BY DEF WriterTyped, Holdings
<1>3. /\ my'[w] = [m EXCEPT !.count = Counted]
      /\ \A u \in Writers \ {w} : my'[u] = my[u]
      /\ my' = [x \in Writers |-> my'[x]]
  BY <1>1 DEF WriterTyped, Holdings
<1>4. [m EXCEPT !.count = Counted] = [by |-> b, about |-> c, ended |-> e, count |-> Counted, made |-> v]
  <2> HIDE DEF m
  <2> QED
    BY <1>2
<1>5. m.by = b /\ m.about = c /\ m.ended = e /\ m.made = v
  BY <1>2
<1> QED
  BY <1>3, <1>4, <1>5

(* A handler that notes who asked keeps the rest. *)
LEMMA AskerLeaves ==
  ASSUME WriterTyped, NEW w \in Writers, NEW b, my' = [my EXCEPT ![w].by = b]
  PROVE  /\ my'[w].by = b /\ my'[w].about = my[w].about /\ my'[w].ended = my[w].ended
         /\ my'[w].made = my[w].made /\ my'[w].count = my[w].count
         /\ my'[w] = [by |-> b, about |-> my[w].about, ended |-> my[w].ended,
                      count |-> my[w].count, made |-> my[w].made]
         /\ \A u \in Writers \ {w} : my'[u] = my[u]
         /\ my' = [u \in Writers |-> my'[u]]
<1> DEFINE m == my[w]
<1>1. my' = [my EXCEPT ![w] = [m EXCEPT !.by = b]]
  OBVIOUS
<1>2. PICK a, c, e, n, v : m = [by |-> a, about |-> c, ended |-> e, count |-> n, made |-> v]
  BY DEF WriterTyped, Holdings
<1>3. /\ my'[w] = [m EXCEPT !.by = b]
      /\ \A u \in Writers \ {w} : my'[u] = my[u]
      /\ my' = [x \in Writers |-> my'[x]]
  BY <1>1 DEF WriterTyped, Holdings
<1>4. [m EXCEPT !.by = b] = [by |-> b, about |-> c, ended |-> e, count |-> n, made |-> v]
  <2> HIDE DEF m
  <2> QED
    BY <1>2
<1>5. m.about = c /\ m.ended = e /\ m.count = n /\ m.made = v
  BY <1>2
<1> QED
  BY <1>3, <1>4, <1>5

(* The mailbox keeps its types, and a conversation that is gone stays so. *)
LEMMA ServerTypedNext ==
  ASSUME ServerTyped, WriterTyped, [Next]_vars
  PROVE  /\ ServerTyped' /\ scene' = scene /\ version <= version'
         /\ \A c \in Threads : /\ thread[c].gone => thread'[c].gone
                               /\ thread[c].asOf <= thread'[c].asOf
<1>1. ASSUME NEW w \in Writers, NEW o \in scene.ops, Change(w, o)
      PROVE  /\ ServerTyped' /\ scene' = scene /\ version <= version'
             /\ \A c \in Threads : /\ thread[c].gone => thread'[c].gone
                                   /\ thread[c].asOf <= thread'[c].asOf
  <2>1. PICK c \in {NoThread} \cup scene.threads, e \in BOOLEAN :
          /\ scene' = scene /\ unread' \in Nat
          /\ version' = (IF Changes(o) THEN version + 1 ELSE version)
          /\ thread' = [d \in Threads |->
                IF o = "clear" /\ d \in scene.threads THEN [asOf |-> version + 1, gone |-> TRUE]
                ELSE IF d = c /\ o \in {"arrive", "delete", "drop"} THEN [asOf |-> version + 1, gone |-> e]
                ELSE thread[d]]
          /\ c # NoThread => ~thread[c].gone
    BY <1>1, ChangeLeaves
  <2>2. version \in Nat /\ version' \in Nat /\ version <= version'
    BY <2>1 DEF ServerTyped
  <2>3. ASSUME NEW d \in Threads
        PROVE  /\ thread'[d] \in [asOf : 0..version', gone : BOOLEAN]
               /\ thread[d].gone => thread'[d].gone
               /\ thread[d].asOf <= thread'[d].asOf
    <3>1. thread[d] \in [asOf : 0..version, gone : BOOLEAN]
      BY DEF ServerTyped
    <3>2. thread[d].asOf \in 0..version /\ thread[d].asOf <= version + 1
      BY <2>2, <3>1
    <3>3. d # NoThread
      BY LiveViewAssumption
    <3>4. CASE o = "clear" /\ d \in scene.threads
      <4>1. thread'[d] = [asOf |-> version + 1, gone |-> TRUE] /\ version' = version + 1
        BY <2>1, <3>4 DEF Changes
      <4> QED
        BY <2>2, <3>2, <4>1
    <3>5. CASE ~(o = "clear" /\ d \in scene.threads) /\ d = c /\ o \in {"arrive", "delete", "drop"}
      <4>1. thread'[d] = [asOf |-> version + 1, gone |-> e] /\ version' = version + 1 /\ ~thread[d].gone
        BY <2>1, <3>3, <3>5 DEF Changes
      <4> QED
        BY <2>2, <3>2, <4>1
    <3>6. CASE ~(o = "clear" /\ d \in scene.threads) /\ ~(d = c /\ o \in {"arrive", "delete", "drop"})
      <4>1. thread'[d] = thread[d]
        BY <2>1, <3>6
      <4> QED
        BY <2>2, <3>1, <3>2, <4>1
    <3> QED
      BY <3>4, <3>5, <3>6
  <2>4. thread' \in [Threads -> [asOf : 0..version', gone : BOOLEAN]]
    BY <2>1, <2>3
  <2> QED
    BY <2>1, <2>2, <2>3, <2>4 DEF ServerTyped
<1>2. ASSUME UNCHANGED server
      PROVE  /\ ServerTyped' /\ scene' = scene /\ version <= version'
             /\ \A c \in Threads : /\ thread[c].gone => thread'[c].gone
                                   /\ thread[c].asOf <= thread'[c].asOf
  BY <1>2 DEF ServerTyped, server
<1>3. ASSUME NEW w \in Writers, HandlerStep(w) PROVE UNCHANGED server
  BY <1>3, HandlerStepsLeave, DeletedLeaves DEF server
<1>4. ASSUME NEW t \in Tabs, TabStep(t) PROVE UNCHANGED server
  BY <1>4, TabStepsLeave
<1>5. ASSUME UNCHANGED vars PROVE UNCHANGED server
  BY <1>5 DEF vars
<1> QED
  BY <1>1, <1>2, <1>3, <1>4, <1>5, Steps DEF HandlerStep, TabStep, ServerTyped

(* The types of the handlers and what they know, when one of them took a step. *)
LEMMA OneHandler ==
  ASSUME ServerTyped, WriterTyped, Handlers, ServerTyped', scene' = scene, version <= version',
         NEW w \in Writers,
         op' = [u \in Writers |-> op'[u]], at' = [u \in Writers |-> at'[u]], my' = [u \in Writers |-> my'[u]],
         \A u \in Writers \ {w} : op'[u] = op[u] /\ at'[u] = at[u] /\ my'[u] = my[u],
         op'[w] \in {"none"} \cup scene.ops, at'[w] \in Places, my'[w] \in Holdings',
         Handling(w)'
  PROVE  WriterTyped' /\ Handlers'
<1>1. ASSUME NEW u \in Writers
      PROVE  /\ op'[u] \in {"none"} \cup scene.ops /\ at'[u] \in Places /\ my'[u] \in Holdings'
             /\ Handling(u)'
  <2>1. CASE u = w
    BY <2>1
  <2>2. CASE u # w
    <3>1. op'[u] = op[u] /\ at'[u] = at[u] /\ my'[u] = my[u]
      BY <2>2
    <3>2. op[u] \in {"none"} \cup scene.ops /\ at[u] \in Places /\ my[u] \in Holdings
      BY DEF WriterTyped
    <3>3. version \in Nat /\ version' \in Nat
      BY DEF ServerTyped
    <3>4. Holdings \subseteq Holdings'
      <4>1. 0..version \subseteq 0..version'
        BY <3>3
      <4> QED
        BY <4>1 DEF Holdings
    <3>5. Handling(u)
      BY DEF Handlers
    <3>6. Handling(u)'
      BY <3>1, <3>5 DEF Handling
    <3> QED
      BY <3>1, <3>2, <3>4, <3>6
  <2> QED
    BY <2>1, <2>2
<1> QED
  BY <1>1 DEF WriterTyped, Handlers

(* A change, as its handler sees it. *)
LEMMA ChangeMoves ==
  ASSUME ServerTyped, WriterTyped, NEW w \in Writers, NEW o \in scene.ops, Change(w, o)
  PROVE  /\ op'[w] = o /\ at'[w] = "count"
         /\ my'[w] = [by |-> my'[w].by, about |-> my'[w].about, ended |-> my'[w].ended,
                      count |-> Nothing, made |-> my'[w].made]
         /\ my'[w].by \in Tabs \cup {Elsewhere} /\ my'[w].about \in {NoThread} \cup scene.threads
         /\ my'[w].ended \in BOOLEAN /\ my'[w].count = Nothing
         /\ my'[w].made = IF Changes(o) THEN version + 1 ELSE 0
         /\ \A u \in Writers \ {w} : op'[u] = op[u] /\ at'[u] = at[u] /\ my'[u] = my[u]
         /\ op' = [u \in Writers |-> op'[u]] /\ at' = [u \in Writers |-> at'[u]]
         /\ my' = [u \in Writers |-> my'[u]]
<1>1. PICK b \in Tabs \cup {Elsewhere}, c \in {NoThread} \cup scene.threads, e \in BOOLEAN :
        /\ op' = [op EXCEPT ![w] = o] /\ at' = [at EXCEPT ![w] = "count"]
        /\ my' = [my EXCEPT ![w] = [by |-> b, about |-> c, ended |-> e, count |-> Nothing,
                                    made |-> IF Changes(o) THEN version + 1 ELSE 0]]
  BY ChangeLeaves
<1>2. /\ op'[w] = o /\ at'[w] = "count"
      /\ op' = [u \in Writers |-> op'[u]] /\ at' = [u \in Writers |-> at'[u]]
      /\ \A u \in Writers \ {w} : op'[u] = op[u] /\ at'[u] = at[u]
  BY <1>1 DEF WriterTyped
<1>3. /\ my' = [u \in Writers |-> my'[u]]
      /\ my'[w] = [by |-> b, about |-> c, ended |-> e, count |-> Nothing,
                   made |-> IF Changes(o) THEN version + 1 ELSE 0]
  BY <1>1 DEF WriterTyped
<1>4. \A u \in Writers \ {w} : my'[u] = my[u]
  BY <1>1 DEF WriterTyped
<1>5. /\ my'[w].by = b /\ my'[w].about = c /\ my'[w].ended = e /\ my'[w].count = Nothing
      /\ my'[w].made = IF Changes(o) THEN version + 1 ELSE 0
  BY <1>3
<1>6. my'[w] = [by |-> my'[w].by, about |-> my'[w].about, ended |-> my'[w].ended,
                count |-> Nothing, made |-> my'[w].made]
  BY <1>3
<1> QED
  BY <1>2, <1>3, <1>4, <1>5, <1>6

(* What a scene is made of. *)
LEMMA SceneParts ==
  ASSUME scene \in Scenes
  PROVE  /\ scene.writers \subseteq Writers /\ scene.ops \subseteq Kinds
         /\ {NoThread} \cup scene.threads \subseteq Topics /\ scene.threads \subseteq Threads
         /\ scene.opens \in Nat /\ scene.gets \in Nat /\ scene.closes \in Nat /\ scene.asks \in Slots
         /\ NoThread \notin Threads /\ Elsewhere \notin Tabs
BY LiveViewAssumption DEF Topics

(* Nothing and Counted are counts, Fresh is what nobody holds. *)
LEMMA CountsTyped ==
  ASSUME ServerTyped
  PROVE  /\ Nothing \in Counts /\ Nothing.n = 0 /\ Nothing.asOf = 0
         /\ Counted \in Counts /\ Counted.n = unread /\ Counted.asOf = version
BY DEF ServerTyped, Nothing, Counted, Counts

(* What a handler holds before it begins and when it is over. *)
LEMMA FreshTyped ==
  ASSUME ServerTyped
  PROVE  /\ Fresh \in Holdings /\ Fresh.made = 0 /\ Fresh.count = Nothing
<1>1. version \in Nat
  BY DEF ServerTyped
<1>2. 0 \in 0..version /\ FALSE \in BOOLEAN /\ Nothing \in Counts
  BY <1>1, CountsTyped
<1>3. Fresh \in Holdings
  BY <1>2 DEF Fresh, Holdings, Topics
<1> QED
  BY <1>3 DEF Fresh

(* A handler that is over knows nothing. *)
LEMMA FinishMoves ==
  ASSUME ServerTyped, WriterTyped, Handlers, ServerTyped', UNCHANGED server, NEW w \in Writers, Finish(w)
  PROVE  WriterTyped' /\ Handlers'
<1>1. /\ op'[w] = "none" /\ at'[w] = "done" /\ my'[w] = Fresh
      /\ \A u \in Writers \ {w} : op'[u] = op[u] /\ at'[u] = at[u] /\ my'[u] = my[u]
      /\ op' = [u \in Writers |-> op'[u]] /\ at' = [u \in Writers |-> at'[u]]
      /\ my' = [u \in Writers |-> my'[u]]
  BY FinishLeaves
<1>2. scene' = scene /\ version' = version /\ version <= version'
  BY DEF server, ServerTyped
<1>3. my'[w] \in Holdings' /\ Fresh.made = 0
  BY <1>1, <1>2, FreshTyped DEF Holdings
<1>4. Handling(w)'
  BY <1>1 DEF Handling, Pending
<1>5. op'[w] \in {"none"} \cup scene.ops /\ at'[w] \in Places
  BY <1>1 DEF Places
<1> QED
  BY <1>1, <1>2, <1>3, <1>4, <1>5, OneHandler

(* The handlers' types. *)
LEMMA WritersNext ==
  ASSUME ServerTyped, WriterTyped, Handlers, [Next]_vars
  PROVE  WriterTyped' /\ Handlers'
<1>1. /\ ServerTyped' /\ scene' = scene /\ version <= version'
      /\ version \in Nat /\ version' \in Nat /\ scene \in Scenes
  BY ServerTypedNext DEF ServerTyped
<1>2. ASSUME NEW w \in Writers, NEW o \in scene.ops, Change(w, o)
      PROVE  WriterTyped' /\ Handlers'
  <2>1. /\ op'[w] = o /\ at'[w] = "count"
        /\ my'[w] = [by |-> my'[w].by, about |-> my'[w].about, ended |-> my'[w].ended,
                     count |-> Nothing, made |-> my'[w].made]
        /\ my'[w].by \in Tabs \cup {Elsewhere} /\ my'[w].about \in {NoThread} \cup scene.threads
        /\ my'[w].ended \in BOOLEAN
        /\ my'[w].made = IF Changes(o) THEN version + 1 ELSE 0
        /\ \A u \in Writers \ {w} : op'[u] = op[u] /\ at'[u] = at[u] /\ my'[u] = my[u]
        /\ op' = [u \in Writers |-> op'[u]] /\ at' = [u \in Writers |-> at'[u]]
        /\ my' = [u \in Writers |-> my'[u]]
    BY <1>2, ChangeMoves
  <2>2. version' = IF Changes(o) THEN version + 1 ELSE version
    BY <1>2 DEF Change
  <2>3. my'[w].made \in 0..version' /\ my'[w].about \in Topics
    BY <1>1, <2>1, <2>2, SceneParts
  <2>4. my'[w] \in Holdings'
    <3> DEFINE b == my'[w].by  c == my'[w].about  e == my'[w].ended  v == my'[w].made
    <3>1. b \in Tabs \cup {Elsewhere} /\ c \in Topics /\ e \in BOOLEAN /\ v \in 0..version'
      BY <2>1, <2>3
    <3>2. my'[w] = [by |-> b, about |-> c, ended |-> e, count |-> Nothing, made |-> v]
      BY <2>1
    <3> HIDE DEF b, c, e, v
    <3> QED
      BY <3>1, <3>2, CountsTyped DEF Holdings
  <2>5. Handling(w)'
    BY <1>1, <2>1 DEF Handling, Pending, Changes
  <2>6. op'[w] \in {"none"} \cup scene.ops /\ at'[w] \in Places
    BY <2>1 DEF Places
  <2> QED
    BY <1>1, <2>1, <2>4, <2>5, <2>6, OneHandler
<1>3. ASSUME NEW w \in Writers, HandlerStep(w), UNCHANGED server
      PROVE  WriterTyped' /\ Handlers'
  <2>1. CASE Finish(w)
    BY <1>1, <1>3, <2>1, FinishMoves
  <2>2. /\ version' = version /\ Holdings' = Holdings
        /\ op[w] \in {"none"} \cup scene.ops /\ my[w] \in Holdings /\ Handling(w)
    BY <1>3 DEF server, Holdings, WriterTyped, Handlers
  <2>3. ASSUME NEW s \in Places, Continue(w, s), s = "answer" => op[w] \in scene.ops /\ my[w].by \in Tabs,
               s \in Pending \cup {"answer"}, at[w] \in Pending
        PROVE  WriterTyped' /\ Handlers'
    <3>1. /\ op' = op /\ my' = my /\ at'[w] = s
          /\ \A u \in Writers \ {w} : at'[u] = at[u]
          /\ at' = [u \in Writers |-> at'[u]]
      BY <2>3, ContinueLeaves
    <3>2. op' = [u \in Writers |-> op'[u]] /\ my' = [u \in Writers |-> my'[u]]
      BY <3>1 DEF WriterTyped
    <3>3. Handling(w)'
      BY <2>2, <2>3, <3>1, <1>1 DEF Handling, Pending
    <3> QED
      BY <1>1, <2>2, <2>3, <3>1, <3>2, <3>3, OneHandler
  <2>4. ASSUME NEW s \in Places, Goto(w, s), op' = op, my' = [my EXCEPT ![w].count = Counted],
               op[w] \in scene.ops, s \in {"answer", "reply"} => my[w].by \in Tabs
        PROVE  WriterTyped' /\ Handlers'
    <3>1. /\ my'[w].by = my[w].by /\ my'[w].made = my[w].made
          /\ my'[w] = [by |-> my[w].by, about |-> my[w].about, ended |-> my[w].ended,
                       count |-> Counted, made |-> my[w].made]
          /\ \A u \in Writers \ {w} : my'[u] = my[u]
          /\ my' = [u \in Writers |-> my'[u]]
      BY <2>4, CountedLeaves
    <3>2. /\ at'[w] = s /\ at' = [u \in Writers |-> at'[u]] /\ op' = [u \in Writers |-> op'[u]]
          /\ \A u \in Writers \ {w} : at'[u] = at[u] /\ op'[u] = op[u]
      BY <2>4 DEF Goto, WriterTyped
    <3>3. my'[w] \in Holdings
      BY <2>2, <3>1, CountsTyped DEF Holdings
    <3>4. Handling(w)'
      BY <2>2, <2>4, <3>1, <3>2, <1>1 DEF Handling
    <3> QED
      BY <1>1, <2>2, <2>4, <3>1, <3>2, <3>3, <3>4, OneHandler
  <2>5. ASSUME NEW o \in scene.ops, ReadNothing(w, o)
        PROVE  WriterTyped' /\ Handlers'
    <3>1. CASE o # "read"
      BY <2>1, <2>5, <3>1 DEF ReadNothing
    <3>2. CASE o = "read"
      <4>1. PICK b \in Tabs : my' = [my EXCEPT ![w].by = b] /\ Goto(w, "answer") /\ op' = [op EXCEPT ![w] = o]
        BY <2>5, <3>2 DEF ReadNothing, Asks
      <4>2. /\ my'[w].by = b /\ my'[w].made = my[w].made
            /\ my'[w] = [by |-> b, about |-> my[w].about, ended |-> my[w].ended,
                         count |-> my[w].count, made |-> my[w].made]
            /\ \A u \in Writers \ {w} : my'[u] = my[u]
            /\ my' = [u \in Writers |-> my'[u]]
        BY <4>1, AskerLeaves
      <4>3. /\ at'[w] = "answer" /\ op'[w] = "read"
            /\ at' = [u \in Writers |-> at'[u]] /\ op' = [u \in Writers |-> op'[u]]
            /\ \A u \in Writers \ {w} : at'[u] = at[u] /\ op'[u] = op[u]
        BY <3>2, <4>1 DEF Goto, WriterTyped
      <4>4. my'[w] \in Holdings
        BY <2>2, <4>2 DEF Holdings
      <4>5. Handling(w)'
        BY <1>1, <2>5, <3>2, <4>2, <4>3 DEF Handling
      <4>6. op'[w] \in {"none"} \cup scene.ops /\ at'[w] \in Places
        BY <2>5, <3>2, <4>3 DEF Places
      <4> QED
        BY <1>1, <2>2, <4>2, <4>3, <4>4, <4>5, <4>6, OneHandler
    <3> QED
      BY <3>1, <3>2
  <2>6. CASE Count(w)
    <3>1. /\ op[w] \in scene.ops /\ my' = [my EXCEPT ![w].count = Counted] /\ op' = op
          /\ \E s \in {"recount", "publish"} : Goto(w, s)
      BY <2>2, <2>6 DEF Count, Handling, Pending
    <3> QED
      BY <2>4, <3>1 DEF Places
  <2>7. CASE CountFails(w)
    <3>1. Finish(w) \/ (Continue(w, "publish") /\ at[w] \in Pending)
      BY <2>7 DEF CountFails, Pending
    <3>2. "publish" \in Places /\ "publish" \in Pending
      BY DEF Places, Pending
    <3> QED
      BY <2>1, <2>3, <3>1, <3>2
  <2>8. CASE Publish(w)
    <3>1. Finish(w) \/ (Continue(w, "answer") /\ at[w] \in Pending /\ my[w].by \in Tabs)
      BY <2>8 DEF Publish, Pending, Awaited
    <3>2. "answer" \in Places /\ (at[w] \in Pending => op[w] \in scene.ops)
      BY <2>2 DEF Places, Handling
    <3> QED
      BY <2>1, <2>3, <3>1, <3>2
  <2>9. CASE CountAnswer(w)
    <3>1. /\ op[w] \in scene.ops /\ my[w].by \in Tabs
          /\ \/ Goto(w, "reply") /\ op' = op /\ my' = [my EXCEPT ![w].count = Counted]
             \/ Finish(w)
      BY <2>2, <2>9 DEF CountAnswer, Handling
    <3>2. "reply" \in Places
      BY DEF Places
    <3> QED
      BY <2>1, <2>4, <3>1, <3>2
  <2>10. CASE Reply(w)
    BY <2>1, <2>10 DEF Reply
  <2>11. CASE Deleted(w)
    BY <2>1, <2>11 DEF Deleted
  <2> QED
    BY <1>3, <2>5, <2>6, <2>7, <2>8, <2>9, <2>10, <2>11 DEF HandlerStep
<1>4. ASSUME NEW w \in Writers, HandlerStep(w) PROVE UNCHANGED server
  BY <1>4, HandlerStepsLeave, DeletedLeaves DEF server
<1>5. ASSUME UNCHANGED <<op, at, my>> PROVE WriterTyped' /\ Handlers'
  <2>1. Holdings \subseteq Holdings'
    <3>1. 0..version \subseteq 0..version'
      BY <1>1
    <3> QED
      BY <3>1 DEF Holdings
  <2>2. WriterTyped'
    BY <1>1, <1>5, <2>1 DEF WriterTyped
  <2>3. Handlers'
    BY <1>1, <1>5 DEF Handlers, Handling
  <2> QED
    BY <2>2, <2>3
<1>6. ASSUME NEW t \in Tabs, TabStep(t) PROVE UNCHANGED <<op, at, my>>
  BY <1>6, TabStepsLeave DEF writer
<1>7. ASSUME UNCHANGED vars PROVE UNCHANGED <<op, at, my>>
  BY <1>7 DEF vars, writer
<1> QED
  BY <1>1, <1>2, <1>3, <1>4, <1>5, <1>6, <1>7, Steps DEF HandlerStep, TabStep

-----------------------------------------------------------------------------
(* The stream *)

(* The greater of two numbers. *)
LEMMA HighestOf ==
  ASSUME NEW m \in Nat, NEW n \in Nat
  PROVE  Highest(m, n) \in Nat /\ Highest(m, n) >= m /\ Highest(m, n) >= n
BY DEF Highest

(* What publishing puts into a tab's queue, or what the tab loses. *)
LEMMA PublishMoves ==
  ASSUME ServerTyped, WriterTyped, Handlers, StreamTyped, HistoryTyped, NEW w \in Writers, Publish(w)
  PROVE  /\ at[w] = "publish" /\ op[w] \in scene.ops
         /\ Event(op[w], my[w]) \in Events
         /\ Event(op[w], my[w]).type = op[w] /\ Event(op[w], my[w]).about = my[w].about
         /\ Event(op[w], my[w]).n = my[w].count.n /\ Event(op[w], my[w]).asOf = my[w].count.asOf
         /\ Event(op[w], my[w]).change = my[w].made
         /\ queue' = [t \in Tabs |-> queue'[t]] /\ lost' = [t \in Tabs |-> lost'[t]]
         /\ \A t \in Tabs :
              \/ /\ conn[t] # "off" /\ Len(queue[t]) < Buffer
                 /\ queue'[t] = Append(queue[t], Event(op[w], my[w])) /\ lost'[t] = lost[t]
              \/ queue'[t] = queue[t] /\ lost'[t] = Highest(lost[t], my[w].made)
         /\ UNCHANGED <<server, conn, closes, inbox, open, unsaid, failed, overtaken, astray>>
<1> DEFINE e == Event(op[w], my[w])
<1>1. /\ e.type = op[w] /\ e.about = my[w].about /\ e.n = my[w].count.n
      /\ e.asOf = my[w].count.asOf /\ e.change = my[w].made
      /\ e = [type |-> op[w], about |-> my[w].about, n |-> my[w].count.n,
              asOf |-> my[w].count.asOf, change |-> my[w].made]
  BY DEF Event
<1>2. at[w] = "publish" /\ op[w] \in scene.ops
  BY DEF Publish, Handlers, Handling, Pending
<1>3. my[w].about \in Topics /\ my[w].count.n \in Nat /\ my[w].count.asOf \in Nat /\ my[w].made \in 0..version
  BY DEF WriterTyped, Holdings, Counts
<1>4. e \in Events
  BY <1>1, <1>2, <1>3 DEF Events
<1>5. /\ queue' = [t \in Tabs |-> IF Room(t) THEN Append(queue[t], e) ELSE queue[t]]
      /\ lost' = [t \in Tabs |-> IF Room(t) THEN lost[t] ELSE Highest(lost[t], my[w].made)]
      /\ UNCHANGED <<server, conn, closes, inbox, open, unsaid, failed, overtaken, astray>>
  BY DEF Publish
<1> HIDE DEF e
<1>6. /\ queue' = [t \in Tabs |-> queue'[t]] /\ lost' = [t \in Tabs |-> lost'[t]]
      /\ \A t \in Tabs :
           \/ /\ conn[t] # "off" /\ Len(queue[t]) < Buffer
              /\ queue'[t] = Append(queue[t], e) /\ lost'[t] = lost[t]
           \/ queue'[t] = queue[t] /\ lost'[t] = Highest(lost[t], my[w].made)
  BY <1>5 DEF Room
<1> QED
  BY <1>1, <1>2, <1>4, <1>5, <1>6 DEF e

(* What a tab takes from its queue. *)
LEMMA PopMoves ==
  ASSUME StreamTyped, NEW t \in Tabs, Pop(t)
  PROVE  /\ queue[t] # <<>> /\ conn[t] = "live"
         /\ queue'[t] = Tail(queue[t]) /\ \A u \in Tabs \ {t} : queue'[u] = queue[u]
         /\ queue' = [u \in Tabs |-> queue'[u]]
         /\ UNCHANGED <<server, writer, conn, closes, list, unsaid, lost, failed>>
BY DEF Pop, StreamTyped

(* What a tab loses with its connection. *)
LEMMA CloseMoves ==
  ASSUME ServerTyped, StreamTyped, HistoryTyped, NEW t \in Tabs, Close(t)
  PROVE  /\ queue'[t] = <<>> /\ conn'[t] = "off" /\ closes < scene.closes /\ closes' = closes + 1
         /\ lost'[t] \in Nat /\ lost'[t] >= lost[t]
         /\ \A i \in DOMAIN queue[t] : lost'[t] >= queue[t][i].change
         /\ \A u \in Tabs \ {t} : queue'[u] = queue[u] /\ lost'[u] = lost[u] /\ conn'[u] = conn[u]
         /\ queue' = [u \in Tabs |-> queue'[u]] /\ lost' = [u \in Tabs |-> lost'[u]]
         /\ conn' = [u \in Tabs |-> conn'[u]]
         /\ UNCHANGED <<server, writer, inbox, open, unsaid, failed, overtaken, astray>>
<1> DEFINE gone == {queue[t][i].change : i \in DOMAIN queue[t]} \cup {lost[t]}
           greatest == CHOOSE v \in gone : \A u \in gone : u <= v
<1>1. version \in Nat /\ lost[t] \in Nat /\ queue[t] \in Seq(Events)
  BY DEF ServerTyped, HistoryTyped, StreamTyped
<1>2. \A i \in DOMAIN queue[t] : queue[t][i].change \in 0..version
  <2>1. \A i \in DOMAIN queue[t] : queue[t][i] \in Events
    BY <1>1
  <2> QED
    BY <2>1 DEF Events
<1>3. Highest(version, lost[t]) \in Nat /\ gone \subseteq 0..Highest(version, lost[t]) /\ gone # {}
  <2>1. Highest(version, lost[t]) \in Nat /\ Highest(version, lost[t]) >= version /\ Highest(version, lost[t]) >= lost[t]
    BY <1>1, HighestOf
  <2>2. ASSUME NEW v \in gone PROVE v \in 0..Highest(version, lost[t])
    <3>1. v \in 0..version \/ v = lost[t]
      BY <1>2
    <3> QED
      BY <1>1, <2>1, <3>1
  <2> QED
    BY <2>1, <2>2
<1>4. greatest \in gone /\ \A u \in gone : u <= greatest
  <2> HIDE DEF gone
  <2>1. \E v \in gone : \A u \in gone : u <= v
    BY <1>3, GreatestOf
  <2> QED
    BY <2>1, Zenon
<1>5. greatest \in Nat /\ greatest >= lost[t] /\ \A i \in DOMAIN queue[t] : greatest >= queue[t][i].change
  <2> HIDE DEF greatest
  <2> QED
    BY <1>1, <1>2, <1>4
<1>6. /\ queue' = [queue EXCEPT ![t] = <<>>] /\ conn' = [conn EXCEPT ![t] = "off"]
      /\ lost' = [lost EXCEPT ![t] = greatest]
      /\ closes < scene.closes /\ closes' = closes + 1
      /\ UNCHANGED <<server, writer, inbox, open, unsaid, failed, overtaken, astray>>
  BY DEF Close
<1> HIDE DEF greatest
<1> QED
  BY <1>5, <1>6 DEF StreamTyped, HistoryTyped

(* The stream keeps its types, and an event about the settings is no change.   *)
LEMMA StreamNext ==
  ASSUME ServerTyped, WriterTyped, Handlers, StreamTyped, HistoryTyped, SettingsAreNoChange, [Next]_vars
  PROVE  StreamTyped' /\ SettingsAreNoChange'
<1>1. /\ ServerTyped' /\ scene' = scene /\ version <= version'
      /\ version \in Nat /\ version' \in Nat /\ scene \in Scenes
  BY ServerTypedNext DEF ServerTyped
<1>2. Events \subseteq Events'
  <2>1. 0..version \subseteq 0..version'
    BY <1>1
  <2> QED
    BY <1>1, <2>1 DEF Events
<1>3. ASSUME NEW q \in Seq(Events) PROVE q \in Seq(Events')
  BY <1>2, SeqMonotonic
<1>4. Buffer \in Nat \ {0}
  BY LiveViewAssumption
<1>5. \A t \in Tabs : /\ queue[t] \in Seq(Events) /\ Len(queue[t]) <= Buffer /\ Len(queue[t]) \in Nat
                      /\ conn[t] \in {"off", "subscribed", "live"} /\ (conn[t] = "off" => queue[t] = <<>>)
                      /\ DOMAIN queue[t] = 1..Len(queue[t])
                      /\ \A i \in DOMAIN queue[t] : queue[t][i].type = "config" => queue[t][i].change = 0
  BY DEF StreamTyped, SettingsAreNoChange
<1>6. ASSUME UNCHANGED stream PROVE StreamTyped' /\ SettingsAreNoChange'
  <2>1. queue' = queue /\ conn' = conn /\ closes' = closes
    BY <1>6 DEF stream
  <2>2. queue' \in [Tabs -> Seq(Events')]
    BY <1>3, <2>1 DEF StreamTyped
  <2>3. StreamTyped'
    BY <1>1, <1>5, <2>1, <2>2 DEF StreamTyped
  <2> QED
    BY <2>1, <2>3 DEF SettingsAreNoChange
<1>7. ASSUME queue' = [t \in Tabs |-> queue'[t]], conn' = [t \in Tabs |-> conn'[t]], closes' \in 0..scene.closes,
             \A t \in Tabs : /\ queue'[t] \in Seq(Events) /\ Len(queue'[t]) <= Buffer
                             /\ conn'[t] \in {"off", "subscribed", "live"}
                             /\ conn'[t] = "off" => queue'[t] = <<>>
                             /\ \A i \in DOMAIN queue'[t] : queue'[t][i].type = "config" => queue'[t][i].change = 0
      PROVE  StreamTyped' /\ SettingsAreNoChange'
  <2>1. queue' \in [Tabs -> Seq(Events')]
    BY <1>3, <1>7
  <2>2. conn' \in [Tabs -> {"off", "subscribed", "live"}]
    BY <1>7
  <2>3. StreamTyped'
    BY <1>1, <1>7, <2>1, <2>2 DEF StreamTyped
  <2> QED
    BY <1>7, <2>3 DEF SettingsAreNoChange
<1>8. ASSUME NEW w \in Writers, Publish(w) PROVE StreamTyped' /\ SettingsAreNoChange'
  <2> DEFINE e == Event(op[w], my[w])
  <2>1. /\ op[w] \in scene.ops /\ e \in Events /\ e.type = op[w] /\ e.change = my[w].made
        /\ queue' = [t \in Tabs |-> queue'[t]]
        /\ \A t \in Tabs : \/ /\ conn[t] # "off" /\ Len(queue[t]) < Buffer
                              /\ queue'[t] = Append(queue[t], e)
                           \/ queue'[t] = queue[t]
        /\ UNCHANGED <<conn, closes>>
    BY <1>8, PublishMoves
  <2>2. e.type = "config" => e.change = 0
    BY <2>1 DEF Handlers, Handling
  <2> HIDE DEF e
  <2>3. ASSUME NEW t \in Tabs
        PROVE  /\ queue'[t] \in Seq(Events) /\ Len(queue'[t]) <= Buffer
               /\ conn'[t] \in {"off", "subscribed", "live"}
               /\ conn'[t] = "off" => queue'[t] = <<>>
               /\ \A i \in DOMAIN queue'[t] : queue'[t][i].type = "config" => queue'[t][i].change = 0
    <3>1. CASE queue'[t] = queue[t]
      BY <1>5, <2>1, <3>1
    <3>2. CASE conn[t] # "off" /\ Len(queue[t]) < Buffer /\ queue'[t] = Append(queue[t], e)
      <4>1. /\ queue'[t] \in Seq(Events) /\ Len(queue'[t]) = Len(queue[t]) + 1
            /\ \A i \in 1..Len(queue[t]) : queue'[t][i] = queue[t][i]
            /\ queue'[t][Len(queue[t]) + 1] = e
            /\ \A i \in 1..Len(queue'[t]) : i \in 1..Len(queue[t]) \/ i = Len(queue[t]) + 1
        BY <1>5, <2>1, <3>2, Appended
      <4>2. DOMAIN queue'[t] = 1..Len(queue'[t])
        BY <4>1
      <4>3. Len(queue'[t]) <= Buffer
        BY <1>4, <1>5, <3>2, <4>1
      <4>4. \A i \in DOMAIN queue'[t] : queue'[t][i].type = "config" => queue'[t][i].change = 0
        BY <1>5, <2>2, <4>1, <4>2
      <4> QED
        BY <1>5, <2>1, <3>2, <4>1, <4>3, <4>4
    <3> QED
      BY <2>1, <3>1, <3>2
  <2>4. conn' = [t \in Tabs |-> conn'[t]] /\ closes' \in 0..scene.closes
    BY <2>1 DEF StreamTyped
  <2> QED
    BY <1>7, <2>1, <2>3, <2>4
<1>9. ASSUME NEW t \in Tabs, Connect(t) \/ Hello(t) PROVE StreamTyped' /\ SettingsAreNoChange'
  <2>1. /\ queue' = queue /\ closes' = closes /\ \E s \in {"subscribed", "live"} : conn' = [conn EXCEPT ![t] = s]
    BY <1>9 DEF Connect, Hello
  <2>2. conn' = [u \in Tabs |-> conn'[u]] /\ \A u \in Tabs : conn'[u] \in {"subscribed", "live"} \/ conn'[u] = conn[u]
    BY <2>1 DEF StreamTyped
  <2>3. queue' = [u \in Tabs |-> queue'[u]] /\ closes' \in 0..scene.closes
    BY <2>1 DEF StreamTyped
  <2> QED
    BY <1>5, <1>7, <2>1, <2>2, <2>3
<1>10. ASSUME NEW t \in Tabs, Close(t) PROVE StreamTyped' /\ SettingsAreNoChange'
  <2>1. /\ queue'[t] = <<>> /\ conn'[t] = "off" /\ closes < scene.closes /\ closes' = closes + 1
        /\ \A u \in Tabs \ {t} : queue'[u] = queue[u] /\ conn'[u] = conn[u]
        /\ queue' = [u \in Tabs |-> queue'[u]] /\ conn' = [u \in Tabs |-> conn'[u]]
    BY <1>10, CloseMoves
  <2>2. closes' \in 0..scene.closes
    <3>1. closes \in 0..scene.closes /\ scene.closes \in Nat
      BY <1>1, SceneParts DEF StreamTyped
    <3> QED
      BY <2>1, <3>1
  <2>3. <<>> \in Seq(Events) /\ Len(<<>>) <= Buffer /\ DOMAIN <<>> = {}
    BY <1>4
  <2>4. ASSUME NEW u \in Tabs
        PROVE  /\ queue'[u] \in Seq(Events) /\ Len(queue'[u]) <= Buffer
               /\ conn'[u] \in {"off", "subscribed", "live"}
               /\ conn'[u] = "off" => queue'[u] = <<>>
               /\ \A i \in DOMAIN queue'[u] : queue'[u][i].type = "config" => queue'[u][i].change = 0
    <3>1. CASE u = t
      BY <2>1, <2>3, <3>1
    <3>2. CASE u # t
      BY <1>5, <2>1, <3>2
    <3> QED
      BY <3>1, <3>2
  <2> QED
    BY <1>7, <2>1, <2>2, <2>4
<1>11. ASSUME NEW t \in Tabs, Pop(t) PROVE StreamTyped' /\ SettingsAreNoChange'
  <2>1. /\ queue[t] # <<>> /\ queue'[t] = Tail(queue[t]) /\ \A u \in Tabs \ {t} : queue'[u] = queue[u]
        /\ queue' = [u \in Tabs |-> queue'[u]] /\ conn' = conn /\ closes' = closes /\ conn[t] = "live"
    BY <1>11, PopMoves
  <2>2. /\ queue'[t] \in Seq(Events) /\ Len(queue'[t]) = Len(queue[t]) - 1
        /\ \A j \in 1..Len(queue'[t]) : \E k \in 1..Len(queue[t]) : queue'[t][j] = queue[t][k]
    BY <1>5, <2>1, Popped
  <2>3. ASSUME NEW u \in Tabs
        PROVE  /\ queue'[u] \in Seq(Events) /\ Len(queue'[u]) <= Buffer
               /\ conn'[u] \in {"off", "subscribed", "live"}
               /\ conn'[u] = "off" => queue'[u] = <<>>
               /\ \A i \in DOMAIN queue'[u] : queue'[u][i].type = "config" => queue'[u][i].change = 0
    <3>1. CASE u = t
      <4>1. Len(queue'[t]) <= Buffer
        BY <1>4, <1>5, <2>2
      <4>2. DOMAIN queue'[t] = 1..Len(queue'[t])
        BY <2>2
      <4>3. ASSUME NEW i \in DOMAIN queue'[t], queue'[t][i].type = "config" PROVE queue'[t][i].change = 0
        <5>1. PICK k \in 1..Len(queue[t]) : queue'[t][i] = queue[t][k]
          BY <2>2, <4>2
        <5>2. DOMAIN queue[t] = 1..Len(queue[t])
          BY <1>5
        <5> QED
          BY <1>5, <4>3, <5>1, <5>2
      <4> QED
        BY <1>5, <2>1, <2>2, <3>1, <4>1, <4>3
    <3>2. CASE u # t
      BY <1>5, <2>1, <3>2
    <3> QED
      BY <3>1, <3>2
  <2>4. conn' = [u \in Tabs |-> conn'[u]] /\ closes' \in 0..scene.closes
    BY <2>1 DEF StreamTyped
  <2> QED
    BY <1>7, <2>1, <2>3, <2>4
<1>12. ASSUME NEW w \in Writers, \/ \E o \in scene.ops : Change(w, o) \/ ReadNothing(w, o)
                                 \/ Count(w) \/ CountFails(w) \/ CountAnswer(w) \/ Reply(w) \/ Deleted(w)
       PROVE  UNCHANGED stream
  BY <1>12 DEF Change, ReadNothing, Count, CountFails, CountAnswer, Reply, Deleted
<1>13. ASSUME NEW t \in Tabs, \/ \E s \in Slots : ReadList(t, s) \/ ReadCount(t, s) \/ Show(t, s) \/ FetchFails(t, s)
                              \/ \E c \in scene.threads : Select(t, c)
                              \/ \E i \in DOMAIN gets[t] : ReadThread(t, i) \/ ShowThread(t, i) \/ GetFails(t, i)
       PROVE  UNCHANGED stream
  BY <1>13 DEF ReadList, ReadCount, Show, FetchFails, Select, ReadThread, ShowThread, GetFails
<1>14. ASSUME NEW t \in Tabs, Handle(t) PROVE Pop(t)
  BY <1>14 DEF Handle
<1>15. ASSUME UNCHANGED vars PROVE UNCHANGED stream
  BY <1>15 DEF vars
<1> QED
  BY <1>1, <1>6, <1>8, <1>9, <1>10, <1>11, <1>12, <1>13, <1>14, <1>15, Steps

-----------------------------------------------------------------------------
(* The badge and the list *)

(* A request for the list that changed, and the others, which did not. *)
Put(t, s, f) ==
  /\ fetch'[t][s] = f
  /\ \A r \in Slots \ {s} : fetch'[t][r] = fetch[t][r]
  /\ \A u \in Tabs \ {t} : fetch'[u] = fetch[u]
  /\ fetch' \in [Tabs -> [Slots -> Fetches]]

(* A request that is replaced in its slot leaves the others alone. *)
LEMMA PutMoves ==
  ASSUME InboxTyped, NEW t \in Tabs, NEW s \in Slots, NEW f \in Fetches, fetch' = [fetch EXCEPT ![t][s] = f]
  PROVE  Put(t, s, f)
<1>1. fetch' = [fetch EXCEPT ![t] = [fetch[t] EXCEPT ![s] = f]]
  OBVIOUS
<1>2. fetch[t] \in [Slots -> Fetches] /\ [fetch[t] EXCEPT ![s] = f] \in [Slots -> Fetches]
  BY DEF InboxTyped
<1>3. fetch'[t] = [fetch[t] EXCEPT ![s] = f] /\ \A u \in Tabs \ {t} : fetch'[u] = fetch[u]
  BY <1>1 DEF InboxTyped
<1>4. fetch' \in [Tabs -> [Slots -> Fetches]]
  BY <1>1, <1>2 DEF InboxTyped
<1> QED
  BY <1>2, <1>3, <1>4 DEF Put

(* Requests that nobody made, and that nobody answered yet. *)
LEMMA IdleTyped == Idle \in Fetches /\ Asked \in Fetches /\ Idle.at = "free" /\ Asked.at = "asked"
BY DEF Idle, Asked, Fetches

(* A tab asks for the list in a free slot. *)
LEMMA AskMoves ==
  ASSUME ServerTyped, InboxTyped, NEW t \in Tabs, Ask(t)
  PROVE  \E s \in Slots : fetch[t][s].at = "free" /\ Put(t, s, Asked)
<1>1. PICK s \in 1..scene.asks : fetch[t][s].at = "free" /\ fetch' = [fetch EXCEPT ![t][s] = Asked]
  BY DEF Ask
<1>2. s \in Slots
  <2>1. scene.asks \in Slots
    BY SceneParts DEF ServerTyped
  <2> QED
    BY <2>1, LiveViewAssumption DEF Slots
<1> QED
  BY <1>1, <1>2, PutMoves, IdleTyped

(* The steps of a request for the list. *)
LEMMA ReadListMoves ==
  ASSUME ServerTyped, InboxTyped, NEW t \in Tabs, NEW s \in Slots, ReadList(t, s)
  PROVE  /\ fetch[t][s].at = "asked"
         /\ \E f \in Fetches : Put(t, s, f) /\ f.at = "listed" /\ f.list = version
         /\ UNCHANGED <<server, writer, stream, badge, list, open, history>>
<1> DEFINE g == fetch[t][s]
           f == [at |-> "listed", list |-> version, n |-> g.n, asOf |-> g.asOf]
<1>1. version \in Nat
  BY DEF ServerTyped
<1>2. g \in Fetches
  BY DEF InboxTyped
<1>3. f \in Fetches /\ f.at = "listed" /\ f.list = version
  BY <1>1, <1>2 DEF Fetches
<1>4. fetch' = [fetch EXCEPT ![t][s] = f]
  <2>1. fetch' = [fetch EXCEPT ![t] = [fetch[t] EXCEPT ![s] = [[g EXCEPT !.at = "listed"] EXCEPT !.list = version]]]
    <3>1. fetch' = [fetch EXCEPT ![t][s].at = "listed", ![t][s].list = version]
      BY DEF ReadList
    <3>2. fetch \in [Tabs -> [Slots -> Fetches]]
      BY DEF InboxTyped
    <3>3. [fetch EXCEPT ![t][s].at = "listed", ![t][s].list = version]
            = [fetch EXCEPT ![t] = [fetch[t] EXCEPT ![s] = [[g EXCEPT !.at = "listed"] EXCEPT !.list = version]]]
      BY <3>2
    <3> QED
      BY <3>1, <3>3
  <2>2. [[g EXCEPT !.at = "listed"] EXCEPT !.list = version] = f
    <3> DEFINE h == [g EXCEPT !.at = "listed"]
    <3>1. h = [at |-> "listed", list |-> g.list, n |-> g.n, asOf |-> g.asOf]
      BY <1>2 DEF Fetches
    <3> HIDE DEF h
    <3>2. [h EXCEPT !.list = version] = f
      BY <3>1
    <3> QED
      BY <3>2 DEF h
  <2> QED
    BY <2>1, <2>2
<1> HIDE DEF f
<1>5. Put(t, s, f)
  BY <1>3, <1>4, PutMoves
<1> QED
  BY <1>3, <1>5 DEF ReadList

(* The count is read after the list, and the list stays as it was read. *)
LEMMA ReadCountMoves ==
  ASSUME ServerTyped, InboxTyped, NEW t \in Tabs, NEW s \in Slots, ReadCount(t, s)
  PROVE  /\ fetch[t][s].at = "listed"
         /\ \E f \in Fetches : /\ Put(t, s, f) /\ f.at = "counted" /\ f.list = fetch[t][s].list
                               /\ f.n = unread /\ f.asOf = version
         /\ UNCHANGED <<server, writer, stream, badge, list, open, history>>
<1> DEFINE g == fetch[t][s]
           f == [at |-> "counted", list |-> g.list, n |-> unread, asOf |-> version]
<1>1. version \in Nat /\ unread \in Nat
  BY DEF ServerTyped
<1>2. g \in Fetches
  BY DEF InboxTyped
<1>3. f \in Fetches /\ f.at = "counted" /\ f.list = g.list /\ f.n = unread /\ f.asOf = version
  BY <1>1, <1>2 DEF Fetches
<1>4. fetch' = [fetch EXCEPT ![t][s] = f]
  <2>1. fetch' = [fetch EXCEPT ![t] = [fetch[t] EXCEPT ![s] =
                    [[[g EXCEPT !.at = "counted"] EXCEPT !.n = unread] EXCEPT !.asOf = version]]]
    <3>1. fetch' = [fetch EXCEPT ![t][s].at = "counted", ![t][s].n = unread, ![t][s].asOf = version]
      BY DEF ReadCount
    <3>2. fetch \in [Tabs -> [Slots -> Fetches]]
      BY DEF InboxTyped
    <3>3. [fetch EXCEPT ![t][s].at = "counted", ![t][s].n = unread, ![t][s].asOf = version]
            = [fetch EXCEPT ![t] = [fetch[t] EXCEPT ![s] =
                 [[[g EXCEPT !.at = "counted"] EXCEPT !.n = unread] EXCEPT !.asOf = version]]]
      BY <3>2
    <3> QED
      BY <3>1, <3>3
  <2>2. [[[g EXCEPT !.at = "counted"] EXCEPT !.n = unread] EXCEPT !.asOf = version] = f
    <3> DEFINE h == [g EXCEPT !.at = "counted"]
               k == [h EXCEPT !.n = unread]
    <3>1. h = [at |-> "counted", list |-> g.list, n |-> g.n, asOf |-> g.asOf]
      BY <1>2 DEF Fetches
    <3> HIDE DEF h
    <3>2. k = [at |-> "counted", list |-> g.list, n |-> unread, asOf |-> g.asOf]
      BY <3>1
    <3> HIDE DEF k
    <3>3. [k EXCEPT !.asOf = version] = f
      BY <3>2
    <3> QED
      BY <3>3 DEF k, h
  <2> QED
    BY <2>1, <2>2
<1> HIDE DEF f
<1>5. Put(t, s, f)
  BY <1>3, <1>4, PutMoves
<1> QED
  BY <1>3, <1>5 DEF ReadCount

(* The answer, on the list, the badge and the history of both. *)
LEMMA ShowMoves ==
  ASSUME ServerTyped, InboxTyped, HistoryTyped, NEW t \in Tabs, NEW s \in Slots, Show(t, s)
  PROVE  /\ fetch[t][s].at = "counted" /\ Put(t, s, Idle)
         /\ list'[t] = fetch[t][s].list
         /\ badge'[t] = [n |-> fetch[t][s].n, asOf |-> fetch[t][s].asOf]
         /\ overtaken'[t] = IF fetch[t][s].list < list[t] \/ fetch[t][s].asOf < badge[t].asOf THEN TRUE
                            ELSE overtaken[t] /\ fetch[t][s].list < version
         /\ \A u \in Tabs \ {t} : list'[u] = list[u] /\ badge'[u] = badge[u] /\ overtaken'[u] = overtaken[u]
         /\ list' = [u \in Tabs |-> list'[u]] /\ badge' = [u \in Tabs |-> badge'[u]]
         /\ overtaken' = [u \in Tabs |-> overtaken'[u]]
         /\ UNCHANGED <<server, writer, stream, open, unsaid, lost, failed, astray>>
<1> DEFINE f == fetch[t][s]
           late == f.list < list[t] \/ f.asOf < badge[t].asOf
           b == [n |-> f.n, asOf |-> f.asOf]
<1>1. /\ f.at = "counted" /\ fetch' = [fetch EXCEPT ![t][s] = Idle]
      /\ list' = [list EXCEPT ![t] = f.list] /\ badge' = [badge EXCEPT ![t] = b]
      /\ overtaken' = [overtaken EXCEPT ![t] = IF late THEN TRUE ELSE overtaken[t] /\ f.list < version]
      /\ UNCHANGED <<server, writer, stream, open, unsaid, lost, failed, astray>>
  BY DEF Show
<1>2. Put(t, s, Idle)
  BY <1>1, PutMoves, IdleTyped
<1> HIDE DEF b, f
<1>3. /\ list'[t] = f.list /\ badge'[t] = b
      /\ overtaken'[t] = IF late THEN TRUE ELSE overtaken[t] /\ f.list < version
  BY <1>1 DEF InboxTyped, HistoryTyped
<1>4. /\ \A u \in Tabs \ {t} : list'[u] = list[u] /\ badge'[u] = badge[u] /\ overtaken'[u] = overtaken[u]
  BY <1>1 DEF InboxTyped, HistoryTyped
<1>5. /\ list' = [u \in Tabs |-> list'[u]] /\ badge' = [u \in Tabs |-> badge'[u]]
      /\ overtaken' = [u \in Tabs |-> overtaken'[u]]
  BY <1>1 DEF InboxTyped, HistoryTyped
<1> QED
  BY <1>1, <1>2, <1>3, <1>4, <1>5, Zenon DEF f, b

(* A failed request leaves its slot, and the tab with the excuse. *)
LEMMA FetchFailsMoves ==
  ASSUME ServerTyped, InboxTyped, HistoryTyped, NEW t \in Tabs, NEW s \in Slots, FetchFails(t, s)
  PROVE  /\ Put(t, s, Idle) /\ failed'[t] = Highest(failed[t], version)
         /\ \A u \in Tabs \ {t} : failed'[u] = failed[u]
         /\ failed' = [u \in Tabs |-> failed'[u]]
         /\ UNCHANGED <<server, writer, stream, badge, list, open, unsaid, lost, overtaken, astray>>
<1>1. /\ fetch' = [fetch EXCEPT ![t][s] = Idle] /\ failed' = [failed EXCEPT ![t] = Highest(failed[t], version)]
      /\ UNCHANGED <<server, writer, stream, badge, list, open, unsaid, lost, overtaken, astray>>
  BY DEF FetchFails
<1>2. Put(t, s, Idle)
  BY <1>1, PutMoves, IdleTyped
<1> QED
  BY <1>1, <1>2 DEF HistoryTyped

(* A count that was right stays so, whatever happens to the mailbox.           *)
LEMMA SoundStays ==
  ASSUME ServerTyped, WriterTyped, NothingIsSound, [Next]_vars
  PROVE  /\ \A n, v \in Nat : (v <= version /\ (v = version => n = unread))
                                => (v <= version' /\ (v = version' => n = unread'))
         /\ NothingIsSound'
<1>1. version \in Nat /\ version' \in Nat /\ version <= version' /\ unread \in Nat /\ unread' \in Nat
  BY ServerTypedNext DEF ServerTyped
<1>2. version' = version => unread' = unread
  <2>1. ASSUME NEW w \in Writers, NEW o \in scene.ops, Change(w, o), version' = version
        PROVE  unread' = unread
    BY <1>1, <2>1, ChangeLeaves
  <2>2. ASSUME NEW w \in Writers, HandlerStep(w) PROVE UNCHANGED server
    BY <2>2, HandlerStepsLeave, DeletedLeaves DEF server
  <2>3. ASSUME NEW t \in Tabs, TabStep(t) PROVE UNCHANGED server
    BY <2>3, TabStepsLeave
  <2>4. ASSUME UNCHANGED vars PROVE UNCHANGED server
    BY <2>4 DEF vars
  <2>5. scene \in Scenes
    BY DEF ServerTyped
  <2> QED
    BY <2>1, <2>2, <2>3, <2>4, <2>5, Steps DEF HandlerStep, TabStep, server
<1> QED
  BY <1>1, <1>2 DEF NothingIsSound

(* The counts that handlers hold. *)
LEMMA HeldCountsNext ==
  ASSUME ServerTyped, WriterTyped, Handlers, NothingIsSound, HeldCountsAreSound, [Next]_vars
  PROVE  HeldCountsAreSound'
<1>1. /\ \A n, v \in Nat : (v <= version /\ (v = version => n = unread))
                             => (v <= version' /\ (v = version' => n = unread'))
      /\ NothingIsSound' /\ version' \in Nat /\ scene \in Scenes
  BY SoundStays, ServerTypedNext DEF ServerTyped
<1>2. \A u \in Writers : my[u].count.n \in Nat /\ my[u].count.asOf \in Nat
  BY DEF WriterTyped, Holdings, Counts
<1>3. ASSUME NEW u \in Writers, my'[u].count = my[u].count PROVE Sound(my[u].count)'
  BY <1>1, <1>2, <1>3 DEF HeldCountsAreSound, Sound
<1>4. ASSUME NEW u \in Writers, my'[u].count = Nothing PROVE Sound(my[u].count)'
  <2>1. my'[u].count.n = 0 /\ my'[u].count.asOf = 0
    BY <1>4, CountsTyped
  <2> QED
    BY <1>1, <2>1 DEF Sound, NothingIsSound
<1>5. ASSUME NEW u \in Writers, my'[u].count = Counted, UNCHANGED server PROVE Sound(my[u].count)'
  <2>1. my'[u].count.n = unread' /\ my'[u].count.asOf = version'
    BY <1>5, CountsTyped DEF server
  <2> QED
    BY <1>1, <2>1 DEF Sound
<1>6. ASSUME NEW w \in Writers, NEW o \in scene.ops, Change(w, o) PROVE HeldCountsAreSound'
  <2>1. my'[w].count = Nothing /\ \A u \in Writers \ {w} : my'[u] = my[u]
    BY <1>6, ChangeMoves
  <2> QED
    BY <1>3, <1>4, <2>1 DEF HeldCountsAreSound
<1>7. ASSUME NEW w \in Writers, Finish(w) PROVE HeldCountsAreSound'
  <2>1. my'[w] = Fresh /\ \A u \in Writers \ {w} : my'[u] = my[u]
    BY <1>7, FinishLeaves
  <2>2. my'[w].count = Nothing
    BY <2>1, FreshTyped
  <2> QED
    BY <1>3, <1>4, <2>1, <2>2 DEF HeldCountsAreSound
<1>8. ASSUME NEW w \in Writers, my' = [my EXCEPT ![w].count = Counted], UNCHANGED server PROVE HeldCountsAreSound'
  <2>1. my'[w].count = Counted /\ \A u \in Writers \ {w} : my'[u] = my[u]
    BY <1>8, CountedLeaves
  <2> QED
    BY <1>3, <1>5, <1>8, <2>1 DEF HeldCountsAreSound
<1>9. ASSUME NEW w \in Writers, NEW b, my' = [my EXCEPT ![w].by = b] PROVE HeldCountsAreSound'
  <2>1. my'[w].count = my[w].count /\ \A u \in Writers \ {w} : my'[u] = my[u]
    BY <1>9, AskerLeaves
  <2> QED
    BY <1>3, <2>1 DEF HeldCountsAreSound
<1>10. ASSUME UNCHANGED my PROVE HeldCountsAreSound'
  BY <1>3, <1>10 DEF HeldCountsAreSound
<1>11. ASSUME NEW w \in Writers, HandlerStep(w)
       PROVE  \/ UNCHANGED my \/ Finish(w) \/ \E b : my' = [my EXCEPT ![w].by = b]
              \/ my' = [my EXCEPT ![w].count = Counted] /\ UNCHANGED server
  <2>1. ASSUME NEW o \in scene.ops, ReadNothing(w, o)
        PROVE  Finish(w) \/ \E b : my' = [my EXCEPT ![w].by = b]
    BY <2>1 DEF ReadNothing
  <2>2. Count(w) => my' = [my EXCEPT ![w].count = Counted] /\ UNCHANGED server
    BY DEF Count
  <2>3. CountAnswer(w) => Finish(w) \/ (my' = [my EXCEPT ![w].count = Counted] /\ UNCHANGED server)
    BY DEF CountAnswer
  <2>4. CountFails(w) \/ Publish(w) => Finish(w) \/ UNCHANGED my
    BY DEF CountFails, Publish, Continue
  <2>5. Reply(w) \/ Deleted(w) => Finish(w)
    BY DEF Reply, Deleted
  <2> QED
    BY <1>11, <2>1, <2>2, <2>3, <2>4, <2>5, Zenon DEF HandlerStep
<1>12. ASSUME NEW t \in Tabs, TabStep(t) PROVE UNCHANGED my
  BY <1>12, TabStepsLeave DEF writer
<1>13. ASSUME UNCHANGED vars PROVE UNCHANGED my
  BY <1>13 DEF vars, writer
<1>14. ASSUME NEW w \in Writers, HandlerStep(w) PROVE HeldCountsAreSound'
  BY <1>7, <1>8, <1>9, <1>10, <1>11, <1>14, Zenon
<1> QED
  BY <1>1, <1>6, <1>10, <1>12, <1>13, <1>14, Steps DEF HandlerStep, TabStep

(* The badge after an answer to the one who read a conversation, after the      *)
(* hello and after an event.                                                 *)
LEMMA ReplyMoves ==
  ASSUME WriterTyped, Handlers, InboxTyped, HistoryTyped, NEW w \in Writers, Reply(w)
  PROVE  /\ my[w].by \in Tabs
         /\ badge'[my[w].by] = my[w].count
         /\ overtaken'[my[w].by] =
              (overtaken[my[w].by] \/ my[w].count.asOf < Highest(badge[my[w].by].asOf, list[my[w].by]))
         /\ \A u \in Tabs \ {my[w].by} : badge'[u] = badge[u] /\ overtaken'[u] = overtaken[u]
         /\ badge' = [u \in Tabs |-> badge'[u]] /\ overtaken' = [u \in Tabs |-> overtaken'[u]]
         /\ UNCHANGED <<server, stream, list, fetch, open, unsaid, lost, failed, astray>>
         /\ Finish(w)
<1> DEFINE t == my[w].by
           new == overtaken[t] \/ my[w].count.asOf < Highest(badge[t].asOf, list[t])
<1>1. t \in Tabs
  BY DEF Reply, Handlers, Handling
<1>2. /\ badge' = [badge EXCEPT ![t] = my[w].count] /\ overtaken' = [overtaken EXCEPT ![t] = new]
      /\ UNCHANGED <<server, stream, list, fetch, open, unsaid, lost, failed, astray>>
      /\ Finish(w)
  BY DEF Reply
<1> HIDE DEF t, new
<1>3. /\ badge'[t] = my[w].count /\ overtaken'[t] = new
      /\ \A u \in Tabs \ {t} : badge'[u] = badge[u] /\ overtaken'[u] = overtaken[u]
      /\ badge' = [u \in Tabs |-> badge'[u]] /\ overtaken' = [u \in Tabs |-> overtaken'[u]]
  BY <1>1, <1>2 DEF InboxTyped, HistoryTyped
<1> QED
  BY <1>1, <1>2, <1>3, Zenon DEF t, new

(* The hello brings the present count, or none. *)
LEMMA HelloMoves ==
  ASSUME InboxTyped, NEW t \in Tabs, Hello(t)
  PROVE  /\ badge'[t] = Counted \/ badge'[t] = badge[t]
         /\ \A u \in Tabs \ {t} : badge'[u] = badge[u]
         /\ badge' = [u \in Tabs |-> badge'[u]]
         /\ UNCHANGED <<server, writer, queue, closes, list, fetch, open, history>>
BY DEF Hello, InboxTyped

(* An event brings the count it was published with. *)
LEMMA PopBadge ==
  ASSUME StreamTyped, InboxTyped, HistoryTyped, NEW t \in Tabs, Pop(t)
  PROVE  /\ badge'[t] = [n |-> Head(queue[t]).n, asOf |-> Head(queue[t]).asOf]
         /\ overtaken'[t] = (overtaken[t] \/ Head(queue[t]).asOf < badge[t].asOf)
         /\ \A u \in Tabs \ {t} : badge'[u] = badge[u] /\ overtaken'[u] = overtaken[u]
         /\ badge' = [u \in Tabs |-> badge'[u]] /\ overtaken' = [u \in Tabs |-> overtaken'[u]]
<1> DEFINE b == [n |-> Head(queue[t]).n, asOf |-> Head(queue[t]).asOf]
           new == overtaken[t] \/ Head(queue[t]).asOf < badge[t].asOf
<1>1. badge' = [badge EXCEPT ![t] = b] /\ overtaken' = [overtaken EXCEPT ![t] = new]
  BY DEF Pop, Older
<1> HIDE DEF b, new
<1>2. badge'[t] = b /\ overtaken'[t] = new
  BY <1>1 DEF InboxTyped, HistoryTyped
<1>3. /\ \A u \in Tabs \ {t} : badge'[u] = badge[u] /\ overtaken'[u] = overtaken[u]
      /\ badge' = [u \in Tabs |-> badge'[u]] /\ overtaken' = [u \in Tabs |-> overtaken'[u]]
  BY <1>1 DEF InboxTyped, HistoryTyped
<1> QED
  BY <1>2, <1>3, Zenon DEF b, new

(* What may happen to a tab's badge and list, and that nothing else does.      *)
BadgeStep(t) ==
  \/ \E w \in Writers : Reply(w) /\ my[w].by = t
  \/ Hello(t) \/ Pop(t)
  \/ \E s \in Slots : Show(t, s)

(* Nothing else touches the badge, the list or the excuse of a tab. *)
LEMMA BadgeSteps ==
  ASSUME ServerTyped, WriterTyped, Handlers, StreamTyped, InboxTyped, HistoryTyped, [Next]_vars, NEW t \in Tabs
  PROVE  BadgeStep(t) \/ (badge'[t] = badge[t] /\ list'[t] = list[t] /\ overtaken'[t] = overtaken[t])
<1> DEFINE same == badge'[t] = badge[t] /\ list'[t] = list[t] /\ overtaken'[t] = overtaken[t]
<1>1. ASSUME NEW w \in Writers, \/ \E o \in scene.ops : Change(w, o) \/ ReadNothing(w, o)
                                \/ Count(w) \/ CountFails(w) \/ Publish(w) \/ CountAnswer(w) \/ Deleted(w)
      PROVE  same
  BY <1>1 DEF Change, ReadNothing, Count, CountFails, Publish, CountAnswer, Deleted, inbox, history
<1>2. ASSUME NEW w \in Writers, Reply(w) PROVE BadgeStep(t) \/ same
  <2>1. CASE my[w].by = t
    BY <1>2, <2>1 DEF BadgeStep
  <2>2. CASE my[w].by # t
    BY <1>2, <2>2, ReplyMoves
  <2> QED
    BY <2>1, <2>2
<1>3. ASSUME NEW u \in Tabs, Connect(u) \/ Close(u) \/ \E c \in scene.threads : Select(u, c)
      PROVE  same
  BY <1>3 DEF Connect, Close, Select, inbox, history
<1>4. ASSUME NEW u \in Tabs, \/ \E s \in Slots : ReadList(u, s) \/ ReadCount(u, s) \/ FetchFails(u, s)
                             \/ \E i \in DOMAIN gets[u] : ReadThread(u, i) \/ ShowThread(u, i) \/ GetFails(u, i)
      PROVE  same
  BY <1>4 DEF ReadList, ReadCount, FetchFails, ReadThread, ShowThread, GetFails, inbox, history
<1>5. ASSUME NEW u \in Tabs, Hello(u) PROVE BadgeStep(t) \/ same
  <2>1. CASE u = t
    BY <1>5, <2>1 DEF BadgeStep
  <2>2. CASE u # t
    BY <1>5, <2>2, HelloMoves DEF history
  <2> QED
    BY <2>1, <2>2
<1>6. ASSUME NEW u \in Tabs, Handle(u) PROVE BadgeStep(t) \/ same
  <2>1. Pop(u)
    BY <1>6 DEF Handle
  <2>2. CASE u = t
    BY <2>1, <2>2 DEF BadgeStep
  <2>3. CASE u # t
    BY <2>1, <2>3, PopMoves, PopBadge
  <2> QED
    BY <2>2, <2>3
<1>7. ASSUME NEW u \in Tabs, NEW s \in Slots, Show(u, s) PROVE BadgeStep(t) \/ same
  <2>1. CASE u = t
    BY <1>7, <2>1 DEF BadgeStep
  <2>2. CASE u # t
    <3>1. \A k \in Tabs \ {u} : badge'[k] = badge[k] /\ list'[k] = list[k] /\ overtaken'[k] = overtaken[k]
      BY <1>7, ShowMoves
    <3> QED
      BY <2>2, <3>1
  <2> QED
    BY <2>1, <2>2
<1>8. ASSUME UNCHANGED vars PROVE same
  BY <1>8 DEF vars, inbox, history
<1>9. scene \in Scenes
  BY DEF ServerTyped
<1> HIDE DEF same
<1>10. BadgeStep(t) \/ same
  BY <1>1, <1>2, <1>3, <1>4, <1>5, <1>6, <1>7, <1>8, <1>9, Steps
<1> QED
  BY <1>10 DEF same

(* The badge and the list keep their types, what the badge shows is right, and  *)
(* it is no older than the list.                                             *)
LEMMA BadgeNext ==
  ASSUME ServerTyped, WriterTyped, Handlers, StreamTyped, InboxTyped, HistoryTyped,
         NothingIsSound, HeldCountsAreSound, QueuedCountsAreSound, ShownCountsAreSound, FetchedCountsAreSound,
         BadgeFollowsList, [Next]_vars, NEW t \in Tabs
  PROVE  /\ badge'[t] \in Counts /\ list'[t] \in 0..version'
         /\ Sound(badge[t])'
         /\ (overtaken[t] \/ list[t] <= badge[t].asOf)'
<1>1. /\ \A n, v \in Nat : (v <= version /\ (v = version => n = unread))
                             => (v <= version' /\ (v = version' => n = unread'))
      /\ version \in Nat /\ version' \in Nat /\ version <= version' /\ unread \in Nat
  BY SoundStays, ServerTypedNext DEF ServerTyped
<1>2. /\ badge[t] \in Counts /\ badge[t].n \in Nat /\ badge[t].asOf \in Nat /\ list[t] \in 0..version
      /\ overtaken[t] \in BOOLEAN
      /\ badge[t].asOf <= version /\ (badge[t].asOf = version => badge[t].n = unread)
      /\ overtaken[t] \/ list[t] <= badge[t].asOf
  BY DEF InboxTyped, HistoryTyped, Counts, ShownCountsAreSound, BadgeFollowsList, Sound
<1>3. ASSUME badge'[t] \in Counts, list'[t] \in 0..version,
             badge'[t].asOf <= version, badge'[t].asOf = version => badge'[t].n = unread,
             overtaken'[t] \/ list'[t] <= badge'[t].asOf
      PROVE  /\ badge'[t] \in Counts /\ list'[t] \in 0..version'
             /\ Sound(badge[t])'
             /\ (overtaken[t] \/ list[t] <= badge[t].asOf)'
  <2>1. badge'[t].n \in Nat /\ badge'[t].asOf \in Nat
    BY <1>3 DEF Counts
  <2>2. list'[t] \in 0..version'
    BY <1>1, <1>3
  <2>3. Sound(badge[t])'
    BY <1>1, <1>3, <2>1 DEF Sound
  <2> QED
    BY <1>3, <2>2, <2>3
<1>4. ASSUME NEW w \in Writers, Reply(w), my[w].by = t
      PROVE  /\ badge'[t] \in Counts /\ list'[t] \in 0..version
             /\ badge'[t].asOf <= version /\ (badge'[t].asOf = version => badge'[t].n = unread)
             /\ overtaken'[t] \/ list'[t] <= badge'[t].asOf
  <2>1. /\ badge'[t] = my[w].count /\ list' = list
        /\ overtaken'[t] = (overtaken[t] \/ my[w].count.asOf < Highest(badge[t].asOf, list[t]))
    BY <1>4, ReplyMoves
  <2>2. /\ my[w].count \in Counts /\ my[w].count.asOf \in Nat
        /\ my[w].count.asOf <= version /\ (my[w].count.asOf = version => my[w].count.n = unread)
    BY DEF WriterTyped, Holdings, Counts, HeldCountsAreSound, Sound
  <2>3. ~(my[w].count.asOf < Highest(badge[t].asOf, list[t])) => list[t] <= my[w].count.asOf
    <3>1. list[t] \in Nat /\ badge[t].asOf \in Nat
      BY <1>1, <1>2
    <3>2. Highest(badge[t].asOf, list[t]) \in Nat /\ Highest(badge[t].asOf, list[t]) >= list[t]
      BY <3>1, HighestOf
    <3> QED
      BY <2>2, <3>1, <3>2
  <2>4. overtaken'[t] \/ list[t] <= my[w].count.asOf
    BY <2>1, <2>3, Zenon
  <2> QED
    BY <1>2, <2>1, <2>2, <2>4
<1>5. ASSUME Hello(t)
      PROVE  /\ badge'[t] \in Counts /\ list'[t] \in 0..version
             /\ badge'[t].asOf <= version /\ (badge'[t].asOf = version => badge'[t].n = unread)
             /\ overtaken'[t] \/ list'[t] <= badge'[t].asOf
  <2>1. (badge'[t] = Counted \/ badge'[t] = badge[t]) /\ list' = list /\ overtaken' = overtaken
    BY <1>5, HelloMoves DEF history
  <2>2. Counted \in Counts /\ Counted.n = unread /\ Counted.asOf = version
    BY CountsTyped
  <2> QED
    BY <1>1, <1>2, <2>1, <2>2
<1>6. ASSUME Pop(t)
      PROVE  /\ badge'[t] \in Counts /\ list'[t] \in 0..version
             /\ badge'[t].asOf <= version /\ (badge'[t].asOf = version => badge'[t].n = unread)
             /\ overtaken'[t] \/ list'[t] <= badge'[t].asOf
  <2> DEFINE e == Head(queue[t])
  <2>1. /\ badge'[t] = [n |-> e.n, asOf |-> e.asOf]
        /\ overtaken'[t] = (overtaken[t] \/ e.asOf < badge[t].asOf) /\ list' = list
        /\ queue[t] # <<>>
    BY <1>6, PopBadge, PopMoves
  <2>2. e \in Events /\ Sound(e)
    <3>1. queue[t] \in Seq(Events)
      BY DEF StreamTyped
    <3>2. e \in Events /\ e = queue[t][1] /\ 1 \in 1..Len(queue[t])
      BY <2>1, <3>1, Popped
    <3>3. 1 \in DOMAIN queue[t]
      BY <3>1, <3>2
    <3> QED
      BY <3>2, <3>3 DEF QueuedCountsAreSound
  <2> HIDE DEF e
  <2>3. e.n \in Nat /\ e.asOf \in Nat /\ e.asOf <= version /\ (e.asOf = version => e.n = unread)
    BY <2>2 DEF Events, Sound
  <2>4. badge'[t] \in Counts /\ badge'[t].n = e.n /\ badge'[t].asOf = e.asOf
    BY <2>1, <2>3 DEF Counts
  <2>5. overtaken'[t] \/ list[t] <= e.asOf
    <3>1. list[t] \in Nat
      BY <1>1, <1>2
    <3>2. list[t] <= badge[t].asOf /\ ~(e.asOf < badge[t].asOf) => list[t] <= e.asOf
      BY <1>2, <2>3, <3>1
    <3> QED
      BY <1>2, <2>1, <3>2, Zenon
  <2> QED
    BY <1>2, <2>1, <2>3, <2>4, <2>5
<1>7. ASSUME NEW s \in Slots, Show(t, s)
      PROVE  /\ badge'[t] \in Counts /\ list'[t] \in 0..version
             /\ badge'[t].asOf <= version /\ (badge'[t].asOf = version => badge'[t].n = unread)
             /\ overtaken'[t] \/ list'[t] <= badge'[t].asOf
  <2> DEFINE f == fetch[t][s]
  <2>1. f.at = "counted" /\ list'[t] = f.list /\ badge'[t] = [n |-> f.n, asOf |-> f.asOf]
    BY <1>7, ShowMoves
  <2>2. f.list \in Nat /\ f.n \in Nat /\ f.asOf \in Nat
    BY DEF InboxTyped, Fetches
  <2>3. /\ f.list <= version /\ f.list <= f.asOf /\ f.asOf <= version
        /\ f.asOf = version => f.n = unread
    BY <2>1 DEF FetchedCountsAreSound, Sound
  <2> HIDE DEF f
  <2>4. badge'[t] \in Counts /\ badge'[t].n = f.n /\ badge'[t].asOf = f.asOf
    BY <2>1, <2>2 DEF Counts
  <2> QED
    BY <1>1, <2>1, <2>2, <2>3, <2>4
<1>8. ASSUME badge'[t] = badge[t], list'[t] = list[t], overtaken'[t] = overtaken[t]
      PROVE  /\ badge'[t] \in Counts /\ list'[t] \in 0..version
             /\ badge'[t].asOf <= version /\ (badge'[t].asOf = version => badge'[t].n = unread)
             /\ overtaken'[t] \/ list'[t] <= badge'[t].asOf
  BY <1>2, <1>8
<1>9. BadgeStep(t) \/ (badge'[t] = badge[t] /\ list'[t] = list[t] /\ overtaken'[t] = overtaken[t])
  BY BadgeSteps
<1> QED
  BY <1>3, <1>4, <1>5, <1>6, <1>7, <1>8, <1>9 DEF BadgeStep

(* What may happen to the requests for the list. *)
FetchStep ==
  \E t \in Tabs, s \in Slots :
    \/ fetch[t][s].at = "free" /\ Put(t, s, Asked)
    \/ ReadList(t, s) \/ ReadCount(t, s) \/ Show(t, s) \/ FetchFails(t, s)

(* Nothing else touches a request for the list. *)
LEMMA FetchSteps ==
  ASSUME ServerTyped, WriterTyped, Handlers, InboxTyped, [Next]_vars
  PROVE  FetchStep \/ UNCHANGED fetch
<1>1. ASSUME NEW t \in Tabs, Ask(t) PROVE FetchStep
  BY <1>1, AskMoves DEF FetchStep
<1>2. ASSUME NEW w \in Writers, Deleted(w) PROVE FetchStep \/ UNCHANGED fetch
  <2>1. my[w].by \in Tabs
    BY <1>2 DEF Deleted, Handlers, Handling
  <2> QED
    BY <1>1, <1>2, <2>1 DEF Deleted
<1>3. ASSUME NEW w \in Writers, \/ \E o \in scene.ops : Change(w, o) \/ ReadNothing(w, o)
                                \/ Count(w) \/ CountFails(w) \/ Publish(w) \/ CountAnswer(w) \/ Reply(w)
      PROVE  UNCHANGED fetch
  BY <1>3 DEF Change, ReadNothing, Count, CountFails, Publish, CountAnswer, Reply, inbox
<1>4. ASSUME NEW t \in Tabs, Handle(t) \/ \E i \in DOMAIN gets[t] : ShowThread(t, i)
      PROVE  FetchStep \/ UNCHANGED fetch
  BY <1>1, <1>4 DEF Handle, ShowThread
<1>5. ASSUME NEW t \in Tabs, \/ Connect(t) \/ Hello(t) \/ Close(t) \/ \E c \in scene.threads : Select(t, c)
                             \/ \E i \in DOMAIN gets[t] : ReadThread(t, i) \/ GetFails(t, i)
      PROVE  UNCHANGED fetch
  BY <1>5 DEF Connect, Hello, Close, Select, ReadThread, GetFails, inbox
<1>6. ASSUME NEW t \in Tabs, NEW s \in Slots, ReadList(t, s) \/ ReadCount(t, s) \/ Show(t, s) \/ FetchFails(t, s)
      PROVE  FetchStep
  BY <1>6 DEF FetchStep
<1>7. ASSUME UNCHANGED vars PROVE UNCHANGED fetch
  BY <1>7 DEF vars, inbox
<1>8. scene \in Scenes
  BY DEF ServerTyped
<1> QED
  BY <1>2, <1>3, <1>4, <1>5, <1>6, <1>7, <1>8, Steps

(* What requests for the list hold. *)
LEMMA FetchNext ==
  ASSUME ServerTyped, WriterTyped, Handlers, InboxTyped, HistoryTyped,
         NothingIsSound, FetchedCountsAreSound, [Next]_vars
  PROVE  fetch' \in [Tabs -> [Slots -> Fetches]] /\ FetchedCountsAreSound'
<1> DEFINE Fine(t, s) ==
             /\ fetch'[t][s].at \in {"listed", "counted"} => fetch'[t][s].list <= version
             /\ fetch'[t][s].at = "counted" =>
                  /\ fetch'[t][s].asOf <= version /\ (fetch'[t][s].asOf = version => fetch'[t][s].n = unread)
                  /\ fetch'[t][s].list <= fetch'[t][s].asOf
<1>1. /\ \A n, v \in Nat : (v <= version /\ (v = version => n = unread))
                             => (v <= version' /\ (v = version' => n = unread'))
      /\ version \in Nat /\ version' \in Nat /\ version <= version' /\ unread \in Nat
  BY SoundStays, ServerTypedNext DEF ServerTyped
<1>2. \A t \in Tabs, s \in Slots :
        /\ fetch[t][s] \in Fetches
        /\ fetch[t][s].at \in {"listed", "counted"} => fetch[t][s].list <= version
        /\ fetch[t][s].at = "counted" =>
             /\ fetch[t][s].asOf <= version /\ (fetch[t][s].asOf = version => fetch[t][s].n = unread)
             /\ fetch[t][s].list <= fetch[t][s].asOf
  BY DEF InboxTyped, FetchedCountsAreSound, Sound
<1>3. ASSUME fetch' \in [Tabs -> [Slots -> Fetches]], \A t \in Tabs, s \in Slots : Fine(t, s)
      PROVE  FetchedCountsAreSound'
  <2> SUFFICES ASSUME NEW t \in Tabs, NEW s \in Slots
               PROVE  /\ fetch'[t][s].at \in {"listed", "counted"} => fetch'[t][s].list <= version'
                      /\ fetch'[t][s].at = "counted" =>
                           Sound(fetch[t][s])' /\ fetch'[t][s].list <= fetch'[t][s].asOf
    BY DEF FetchedCountsAreSound
  <2>1. fetch'[t][s].n \in Nat /\ fetch'[t][s].asOf \in Nat /\ fetch'[t][s].list \in Nat
    BY <1>3 DEF Fetches
  <2>2. Fine(t, s)
    BY <1>3
  <2> QED
    BY <1>1, <2>1, <2>2 DEF Sound
<1>4. ASSUME NEW t \in Tabs, NEW s \in Slots, NEW f \in Fetches, Put(t, s, f),
             f.at \in {"listed", "counted"} => f.list <= version,
             f.at = "counted" => /\ f.asOf <= version /\ (f.asOf = version => f.n = unread)
                                 /\ f.list <= f.asOf
      PROVE  fetch' \in [Tabs -> [Slots -> Fetches]] /\ FetchedCountsAreSound'
  <2>1. fetch' \in [Tabs -> [Slots -> Fetches]]
    BY <1>4 DEF Put
  <2>2. ASSUME NEW u \in Tabs, NEW r \in Slots PROVE Fine(u, r)
    <3>1. CASE u = t /\ r = s
      BY <1>4, <3>1 DEF Put
    <3>2. CASE ~(u = t /\ r = s)
      <4>1. fetch'[u][r] = fetch[u][r]
        BY <1>4, <3>2 DEF Put
      <4> QED
        BY <1>2, <4>1
    <3> QED
      BY <3>1, <3>2
  <2> QED
    BY <1>3, <2>1, <2>2
<1>5. ASSUME FetchStep PROVE fetch' \in [Tabs -> [Slots -> Fetches]] /\ FetchedCountsAreSound'
  <2>1. PICK t \in Tabs, s \in Slots :
          \/ fetch[t][s].at = "free" /\ Put(t, s, Asked)
          \/ ReadList(t, s) \/ ReadCount(t, s) \/ Show(t, s) \/ FetchFails(t, s)
    BY <1>5 DEF FetchStep
  <2>2. CASE Put(t, s, Asked)
    BY <1>4, <2>2, IdleTyped
  <2>3. CASE ReadList(t, s)
    <3>1. PICK f \in Fetches : Put(t, s, f) /\ f.at = "listed" /\ f.list = version
      BY <2>3, ReadListMoves
    <3> QED
      BY <1>1, <1>4, <3>1
  <2>4. CASE ReadCount(t, s)
    <3>1. PICK f \in Fetches : /\ Put(t, s, f) /\ f.at = "counted" /\ f.list = fetch[t][s].list
                               /\ f.n = unread /\ f.asOf = version
      BY <2>4, ReadCountMoves
    <3>2. fetch[t][s].at = "listed"
      BY <2>4, ReadCountMoves
    <3>3. f.list <= version
      BY <1>2, <3>1, <3>2
    <3> QED
      BY <1>1, <1>4, <3>1, <3>3
  <2>5. CASE Show(t, s) \/ FetchFails(t, s)
    <3>1. Put(t, s, Idle)
      BY <2>5, ShowMoves, FetchFailsMoves
    <3> QED
      BY <1>4, <3>1, IdleTyped
  <2> QED
    BY <2>1, <2>2, <2>3, <2>4, <2>5
<1>6. ASSUME UNCHANGED fetch PROVE fetch' \in [Tabs -> [Slots -> Fetches]] /\ FetchedCountsAreSound'
  <2>1. fetch' \in [Tabs -> [Slots -> Fetches]]
    BY <1>6 DEF InboxTyped
  <2>2. \A t \in Tabs, s \in Slots : Fine(t, s)
    BY <1>2, <1>6
  <2> QED
    BY <1>3, <2>1, <2>2
<1> QED
  BY <1>5, <1>6, FetchSteps

(* The counts on their way to a tab. *)
LEMMA QueuedCountsNext ==
  ASSUME ServerTyped, WriterTyped, Handlers, StreamTyped, HistoryTyped,
         NothingIsSound, HeldCountsAreSound, QueuedCountsAreSound, [Next]_vars
  PROVE  QueuedCountsAreSound'
<1>1. /\ \A n, v \in Nat : (v <= version /\ (v = version => n = unread))
                             => (v <= version' /\ (v = version' => n = unread'))
      /\ scene \in Scenes
  BY SoundStays DEF ServerTyped
<1>2. \A t \in Tabs : /\ queue[t] \in Seq(Events) /\ DOMAIN queue[t] = 1..Len(queue[t])
                      /\ \A i \in 1..Len(queue[t]) :
                           /\ queue[t][i] \in Events
                           /\ queue[t][i].asOf <= version /\ (queue[t][i].asOf = version => queue[t][i].n = unread)
  BY DEF StreamTyped, QueuedCountsAreSound, Sound
<1>3. ASSUME NEW e \in Events, e.asOf <= version, e.asOf = version => e.n = unread
      PROVE  e.asOf <= version' /\ (e.asOf = version' => e.n = unread')
  <2>1. e.n \in Nat /\ e.asOf \in Nat
    BY DEF Events
  <2> QED
    BY <1>1, <1>3, <2>1
<1>4. ASSUME \A t \in Tabs : \A i \in DOMAIN queue'[t] :
               \E e \in Events : /\ queue'[t][i] = e
                                 /\ e.asOf <= version /\ (e.asOf = version => e.n = unread)
      PROVE  QueuedCountsAreSound'
  BY <1>3, <1>4 DEF QueuedCountsAreSound, Sound
<1>5. ASSUME UNCHANGED queue PROVE QueuedCountsAreSound'
  BY <1>2, <1>4, <1>5
<1>6. ASSUME NEW w \in Writers, Publish(w) PROVE QueuedCountsAreSound'
  <2> DEFINE e == Event(op[w], my[w])
  <2>1. /\ e \in Events /\ e.n = my[w].count.n /\ e.asOf = my[w].count.asOf
        /\ \A t \in Tabs : queue'[t] = Append(queue[t], e) \/ queue'[t] = queue[t]
    BY <1>6, PublishMoves
  <2>2. e.asOf <= version /\ (e.asOf = version => e.n = unread)
    BY <2>1 DEF HeldCountsAreSound, Sound
  <2> HIDE DEF e
  <2>3. ASSUME NEW t \in Tabs, NEW i \in DOMAIN queue'[t]
        PROVE  \E d \in Events : /\ queue'[t][i] = d
                                 /\ d.asOf <= version /\ (d.asOf = version => d.n = unread)
    <3>1. CASE queue'[t] = queue[t]
      BY <1>2, <2>3, <3>1
    <3>2. CASE queue'[t] = Append(queue[t], e)
      <4>1. /\ Append(queue[t], e) \in Seq(Events)
            /\ \A j \in 1..Len(queue[t]) : Append(queue[t], e)[j] = queue[t][j]
            /\ Append(queue[t], e)[Len(queue[t]) + 1] = e
            /\ \A j \in 1..Len(Append(queue[t], e)) : j \in 1..Len(queue[t]) \/ j = Len(queue[t]) + 1
        BY <1>2, <2>1, Appended
      <4>2. i \in 1..Len(Append(queue[t], e))
        BY <2>3, <3>2, <4>1
      <4>3. queue'[t][i] = e \/ (i \in 1..Len(queue[t]) /\ queue'[t][i] = queue[t][i])
        BY <3>2, <4>1, <4>2
      <4> QED
        BY <1>2, <2>1, <2>2, <4>3
    <3> QED
      BY <2>1, <3>1, <3>2
  <2> QED
    BY <1>4, <2>3
<1>7. ASSUME NEW t \in Tabs, Close(t) PROVE QueuedCountsAreSound'
  <2>1. queue'[t] = <<>> /\ \A u \in Tabs \ {t} : queue'[u] = queue[u]
    BY <1>7, CloseMoves
  <2>2. DOMAIN queue'[t] = {}
    BY <2>1
  <2>3. ASSUME NEW u \in Tabs, NEW i \in DOMAIN queue'[u]
        PROVE  \E e \in Events : /\ queue'[u][i] = e
                                 /\ e.asOf <= version /\ (e.asOf = version => e.n = unread)
    <3>1. u # t /\ queue'[u] = queue[u]
      BY <2>1, <2>2, <2>3
    <3> QED
      BY <1>2, <2>3, <3>1
  <2> QED
    BY <1>4, <2>3
<1>8. ASSUME NEW t \in Tabs, Handle(t) PROVE QueuedCountsAreSound'
  <2>1. queue[t] # <<>> /\ queue'[t] = Tail(queue[t]) /\ \A u \in Tabs \ {t} : queue'[u] = queue[u]
    BY <1>8, PopMoves DEF Handle
  <2> DEFINE r == Tail(queue[t])
  <2>2. r \in Seq(Events) /\ \A j \in 1..Len(r) : \E k \in 1..Len(queue[t]) : r[j] = queue[t][k]
    BY <1>2, <2>1, Popped
  <2>4. queue'[t] = r
    BY <2>1
  <2> HIDE DEF r
  <2>5. DOMAIN r = 1..Len(r)
    BY <2>2
  <2>3. ASSUME NEW u \in Tabs, NEW i \in DOMAIN queue'[u]
        PROVE  \E e \in Events : /\ queue'[u][i] = e
                                 /\ e.asOf <= version /\ (e.asOf = version => e.n = unread)
    <3>1. CASE u = t
      <4>1. PICK k \in 1..Len(queue[t]) : queue'[u][i] = queue[t][k]
        BY <2>2, <2>3, <2>4, <2>5, <3>1
      <4> QED
        BY <1>2, <4>1
    <3>2. CASE u # t
      BY <1>2, <2>1, <2>3, <3>2
    <3> QED
      BY <3>1, <3>2
  <2> QED
    BY <1>4, <2>3
<1>9. ASSUME NEW w \in Writers, \/ \E o \in scene.ops : Change(w, o) \/ ReadNothing(w, o)
                                \/ Count(w) \/ CountFails(w) \/ CountAnswer(w) \/ Reply(w) \/ Deleted(w)
      PROVE  UNCHANGED queue
  BY <1>9 DEF Change, ReadNothing, Count, CountFails, CountAnswer, Reply, Deleted, stream
<1>10. ASSUME NEW t \in Tabs, \/ Connect(t) \/ Hello(t) \/ \E c \in scene.threads : Select(t, c)
                              \/ \E s \in Slots : ReadList(t, s) \/ ReadCount(t, s) \/ Show(t, s) \/ FetchFails(t, s)
                              \/ \E i \in DOMAIN gets[t] : ReadThread(t, i) \/ ShowThread(t, i) \/ GetFails(t, i)
       PROVE  UNCHANGED queue
  BY <1>10 DEF Connect, Hello, Select, ReadList, ReadCount, Show, FetchFails, ReadThread, ShowThread, GetFails, stream
<1>11. ASSUME UNCHANGED vars PROVE UNCHANGED queue
  BY <1>11 DEF vars, stream
<1> QED
  BY <1>1, <1>5, <1>6, <1>7, <1>8, <1>9, <1>10, <1>11, Steps

-----------------------------------------------------------------------------
(* The steps of what a tab has open *)

(* A request as it is made, and those that were made for another selection.    *)
LEMMA RequestTyped ==
  ASSUME ServerTyped, NEW c \in Threads, NEW then \in BOOLEAN
  PROVE  /\ Request(c, then) \in Requests /\ Request(c, then).thread = c
         /\ Request(c, then).at = "asked" /\ Request(c, then).late = FALSE
<1>1. 0 \in 0..version /\ FALSE \in BOOLEAN
  BY DEF ServerTyped
<1> QED
  BY <1>1 DEF Request, Requests

(* A request with another mark of lateness is the same otherwise. *)
LEMMA LateRequest ==
  ASSUME NEW r \in Requests, NEW v
  PROVE  [r EXCEPT !.late = v] = [thread |-> r.thread, at |-> r.at, asOf |-> r.asOf, late |-> v, then |-> r.then]
<1>1. r = [thread |-> r.thread, at |-> r.at, asOf |-> r.asOf, late |-> r.late, then |-> r.then]
  BY DEF Requests
<1> QED
  BY <1>1

(* All requests there are become belated, and stay what they are otherwise. *)
LEMMA BelatedRequests ==
  ASSUME NEW q \in Seq(Requests)
  PROVE  /\ Belated(q) \in Seq(Requests) /\ Len(Belated(q)) = Len(q)
         /\ \A i \in 1..Len(q) : /\ Belated(q)[i].late = TRUE /\ Belated(q)[i].thread = q[i].thread
                                 /\ Belated(q)[i].at = q[i].at /\ Belated(q)[i].asOf = q[i].asOf
<1>1. Len(q) \in Nat /\ DOMAIN q = 1..Len(q)
  OBVIOUS
<1>2. Belated(q) = [i \in 1..Len(q) |-> [q[i] EXCEPT !.late = TRUE]]
  BY <1>1 DEF Belated
<1>3. ASSUME NEW i \in 1..Len(q)
      PROVE  /\ [q[i] EXCEPT !.late = TRUE] \in Requests
             /\ [q[i] EXCEPT !.late = TRUE].late = TRUE /\ [q[i] EXCEPT !.late = TRUE].thread = q[i].thread
             /\ [q[i] EXCEPT !.late = TRUE].at = q[i].at /\ [q[i] EXCEPT !.late = TRUE].asOf = q[i].asOf
  <2> DEFINE r == q[i]
             l == [thread |-> r.thread, at |-> r.at, asOf |-> r.asOf, late |-> TRUE, then |-> r.then]
  <2>1. r \in Requests
    OBVIOUS
  <2>2. [r EXCEPT !.late = TRUE] = l
    BY <2>1, LateRequest, Zenon
  <2>3. l \in Requests /\ l.late = TRUE /\ l.thread = r.thread /\ l.at = r.at /\ l.asOf = r.asOf
    <3>1. r.thread \in Threads /\ r.at \in {"asked", "read"} /\ r.asOf \in 0..version /\ r.then \in BOOLEAN
      BY <2>1 DEF Requests
    <3> QED
      BY <3>1 DEF Requests
  <2> HIDE DEF l
  <2> QED
    BY <2>2, <2>3
<1> DEFINE late(i) == [q[i] EXCEPT !.late = TRUE]
<1>4. Belated(q) = [i \in 1..Len(q) |-> late(i)] /\ \A i \in 1..Len(q) : late(i) \in Requests
  BY <1>2, <1>3
<1>5. /\ \A i \in 1..Len(q) : /\ late(i).late = TRUE /\ late(i).thread = q[i].thread
                              /\ late(i).at = q[i].at /\ late(i).asOf = q[i].asOf
  BY <1>3
<1> HIDE DEF late
<1>6. Belated(q) \in Seq(Requests) /\ Len(Belated(q)) = Len(q)
  BY <1>1, <1>4
<1> QED
  BY <1>4, <1>5, <1>6

(* The steps of what a tab has open. *)
LEMMA DeselectMoves ==
  ASSUME OpenTyped, HistoryTyped, NEW t \in Tabs, Deselect(t)
  PROVE  /\ selected'[t] = NoThread /\ shown'[t] = NoView /\ gets'[t] = Belated(gets[t]) /\ astray'[t] = FALSE
         /\ \A u \in Tabs \ {t} : /\ selected'[u] = selected[u] /\ shown'[u] = shown[u]
                                  /\ gets'[u] = gets[u] /\ astray'[u] = astray[u]
         /\ selected' = [u \in Tabs |-> selected'[u]] /\ shown' = [u \in Tabs |-> shown'[u]]
         /\ gets' = [u \in Tabs |-> gets'[u]] /\ astray' = [u \in Tabs |-> astray'[u]]
         /\ opens' = opens
BY DEF Deselect, OpenTyped, HistoryTyped

(* The selected conversation is asked for once more. *)
LEMMA RefreshMoves ==
  ASSUME OpenTyped, NEW t \in Tabs, NEW then, Refresh(t, then)
  PROVE  /\ Len(gets[t]) < scene.gets /\ gets'[t] = Append(gets[t], Request(selected[t], then))
         /\ \A u \in Tabs \ {t} : gets'[u] = gets[u]
         /\ gets' = [u \in Tabs |-> gets'[u]]
         /\ UNCHANGED <<selected, shown, opens, astray>>
BY DEF Refresh, Get, OpenTyped

(* Another conversation is selected and asked for. *)
LEMMA SelectMoves ==
  ASSUME OpenTyped, NEW t \in Tabs, NEW c \in scene.threads, Select(t, c)
  PROVE  /\ opens[t] < scene.opens /\ Len(gets[t]) < scene.gets
         /\ selected'[t] = c /\ gets'[t] = Append(Belated(gets[t]), Request(c, FALSE))
         /\ opens'[t] = opens[t] + 1
         /\ \A u \in Tabs \ {t} : selected'[u] = selected[u] /\ gets'[u] = gets[u] /\ opens'[u] = opens[u]
         /\ selected' = [u \in Tabs |-> selected'[u]] /\ gets' = [u \in Tabs |-> gets'[u]]
         /\ opens' = [u \in Tabs |-> opens'[u]]
         /\ UNCHANGED <<server, writer, stream, inbox, shown, history>>
BY DEF Select, OpenTyped

(* A request that was answered, when the conversation was there. *)
LEMMA AnsweredTwice ==
  ASSUME NEW q \in Seq(Requests), NEW i \in 1..Len(q), NEW v \in 0..version
  PROVE  [q EXCEPT ![i].at = "read", ![i].asOf = v]
           = [q EXCEPT ![i] = [thread |-> q[i].thread, at |-> "read", asOf |-> v,
                               late |-> q[i].late, then |-> q[i].then]]
<1> DEFINE r == q[i]
           h == [r EXCEPT !.at = "read"]
           k == [thread |-> r.thread, at |-> "read", asOf |-> v, late |-> r.late, then |-> r.then]
<1>1. [q EXCEPT ![i].at = "read", ![i].asOf = v] = [q EXCEPT ![i] = [h EXCEPT !.asOf = v]]
  OBVIOUS
<1>0. r \in Requests
  OBVIOUS
<1> HIDE DEF r
<1>2. r = [thread |-> r.thread, at |-> r.at, asOf |-> r.asOf, late |-> r.late, then |-> r.then]
  BY <1>0 DEF Requests
<1>3. h = [thread |-> r.thread, at |-> "read", asOf |-> r.asOf, late |-> r.late, then |-> r.then]
  BY <1>2
<1> HIDE DEF h
<1>4. [h EXCEPT !.asOf = v] = k
  BY <1>3
<1> HIDE DEF k
<1> QED
  BY <1>1, <1>4 DEF h, k, r

(* The server answers with the conversation as it is, or finds it gone. *)
LEMMA ReadThreadMoves ==
  ASSUME ServerTyped, OpenTyped, NEW t \in Tabs, NEW i \in DOMAIN gets[t], ReadThread(t, i)
  PROVE  /\ gets[t][i].at = "asked"
         /\ \/ thread[gets[t][i].thread].gone /\ gets'[t] = RemoveAt(gets[t], i)
            \/ gets'[t] = [gets[t] EXCEPT ![i] =
                 [thread |-> gets[t][i].thread, at |-> "read", asOf |-> thread[gets[t][i].thread].asOf,
                  late |-> gets[t][i].late, then |-> gets[t][i].then]]
         /\ \A u \in Tabs \ {t} : gets'[u] = gets[u]
         /\ gets' = [u \in Tabs |-> gets'[u]]
         /\ UNCHANGED <<server, writer, stream, inbox, selected, shown, opens, history>>
<1> DEFINE q == gets[t]
           c == q[i].thread
           v == thread[c].asOf
           read == [q EXCEPT ![i].at = "read", ![i].asOf = v]
<1>1. q \in Seq(Requests) /\ i \in 1..Len(q)
  BY DEF OpenTyped
<1>2. v \in 0..version
  <2>1. q[i] \in Requests
    BY <1>1
  <2>2. c \in Threads
    BY <2>1 DEF Requests
  <2> HIDE DEF c
  <2>3. thread[c] \in [asOf : 0..version, gone : BOOLEAN]
    BY <2>2 DEF ServerTyped
  <2> QED
    BY <2>3
<1>3. q[i].at = "asked" /\ gets' = [gets EXCEPT ![t] = IF thread[c].gone THEN RemoveAt(q, i) ELSE read]
      /\ UNCHANGED <<server, writer, stream, inbox, selected, shown, opens, history>>
  BY DEF ReadThread
<1>4. read = [q EXCEPT ![i] = [thread |-> c, at |-> "read", asOf |-> v, late |-> q[i].late, then |-> q[i].then]]
  BY <1>1, <1>2, AnsweredTwice
<1> HIDE DEF read, v, c
<1>5. /\ gets'[t] = IF thread[c].gone THEN RemoveAt(q, i) ELSE read
      /\ \A u \in Tabs \ {t} : gets'[u] = gets[u]
      /\ gets' = [u \in Tabs |-> gets'[u]]
  BY <1>3 DEF OpenTyped
<1>6. \/ thread[c].gone /\ gets'[t] = RemoveAt(q, i)
      \/ gets'[t] = [q EXCEPT ![i] = [thread |-> c, at |-> "read", asOf |-> v, late |-> q[i].late, then |-> q[i].then]]
  BY <1>4, <1>5
<1> QED
  BY <1>3, <1>5, <1>6 DEF c, v

(* The tab shows the answer, whatever is selected. *)
LEMMA ShowThreadMoves ==
  ASSUME OpenTyped, HistoryTyped, NEW t \in Tabs, NEW i \in DOMAIN gets[t], ShowThread(t, i)
  PROVE  /\ gets[t][i].at = "read"
         /\ shown'[t] = [thread |-> gets[t][i].thread, asOf |-> gets[t][i].asOf]
         /\ gets'[t] = RemoveAt(gets[t], i)
         /\ astray'[t] = IF gets[t][i].late \/ (gets[t][i].thread = shown[t].thread /\ gets[t][i].asOf < shown[t].asOf)
                         THEN TRUE ELSE astray[t] /\ gets[t][i].asOf < thread[gets[t][i].thread].asOf
         /\ \A u \in Tabs \ {t} : shown'[u] = shown[u] /\ gets'[u] = gets[u] /\ astray'[u] = astray[u]
         /\ shown' = [u \in Tabs |-> shown'[u]] /\ gets' = [u \in Tabs |-> gets'[u]]
         /\ astray' = [u \in Tabs |-> astray'[u]]
         /\ UNCHANGED <<server, writer, stream, badge, list, selected, opens, unsaid, lost, failed, overtaken>>
<1> DEFINE f == gets[t][i]
           late == f.late \/ (f.thread = shown[t].thread /\ f.asOf < shown[t].asOf)
           s == [thread |-> f.thread, asOf |-> f.asOf]
           a == IF late THEN TRUE ELSE astray[t] /\ f.asOf < thread[f.thread].asOf
           r == RemoveAt(gets[t], i)
<1>1. /\ f.at = "read" /\ shown' = [shown EXCEPT ![t] = s] /\ astray' = [astray EXCEPT ![t] = a]
      /\ gets' = [gets EXCEPT ![t] = r]
      /\ UNCHANGED <<server, writer, stream, badge, list, selected, opens, unsaid, lost, failed, overtaken>>
  BY DEF ShowThread
<1> HIDE DEF s, a, r
<1>2. shown'[t] = s /\ astray'[t] = a /\ gets'[t] = r
  BY <1>1 DEF OpenTyped, HistoryTyped
<1>3. /\ \A u \in Tabs \ {t} : shown'[u] = shown[u] /\ gets'[u] = gets[u] /\ astray'[u] = astray[u]
      /\ shown' = [u \in Tabs |-> shown'[u]] /\ gets' = [u \in Tabs |-> gets'[u]]
      /\ astray' = [u \in Tabs |-> astray'[u]]
  BY <1>1 DEF OpenTyped, HistoryTyped
<1> QED
  BY <1>1, <1>2, <1>3, Zenon DEF s, a, r

(* A request that fails is gone. *)
LEMMA GetFailsMoves ==
  ASSUME OpenTyped, HistoryTyped, NEW t \in Tabs, NEW i \in DOMAIN gets[t], GetFails(t, i)
  PROVE  /\ gets'[t] = RemoveAt(gets[t], i)
         /\ astray'[t] = (astray[t] \/ ~gets[t][i].late)
         /\ \A u \in Tabs \ {t} : gets'[u] = gets[u] /\ astray'[u] = astray[u]
         /\ gets' = [u \in Tabs |-> gets'[u]] /\ astray' = [u \in Tabs |-> astray'[u]]
         /\ UNCHANGED <<server, writer, stream, inbox, selected, shown, opens, unsaid, lost, failed, overtaken>>
<1> DEFINE a == astray[t] \/ ~gets[t][i].late
           r == RemoveAt(gets[t], i)
<1>1. /\ gets' = [gets EXCEPT ![t] = r] /\ astray' = [astray EXCEPT ![t] = a]
      /\ UNCHANGED <<server, writer, stream, inbox, selected, shown, opens, unsaid, lost, failed, overtaken>>
  BY DEF GetFails
<1> HIDE DEF a, r
<1>2. gets'[t] = r /\ astray'[t] = a
  BY <1>1 DEF OpenTyped, HistoryTyped
<1>3. /\ \A u \in Tabs \ {t} : gets'[u] = gets[u] /\ astray'[u] = astray[u]
      /\ gets' = [u \in Tabs |-> gets'[u]] /\ astray' = [u \in Tabs |-> astray'[u]]
  BY <1>1 DEF OpenTyped, HistoryTyped
<1> QED
  BY <1>1, <1>2, <1>3, Zenon DEF a, r

-----------------------------------------------------------------------------
(* Types of the tab and of the history *)

(* The badge, the list and the requests keep their types. *)
LEMMA InboxTypedNext ==
  ASSUME ServerTyped, WriterTyped, Handlers, StreamTyped, InboxTyped, HistoryTyped,
         NothingIsSound, HeldCountsAreSound, QueuedCountsAreSound, ShownCountsAreSound, FetchedCountsAreSound,
         BadgeFollowsList, [Next]_vars
  PROVE  /\ InboxTyped' /\ ShownCountsAreSound' /\ BadgeFollowsList'
         /\ overtaken' = [t \in Tabs |-> overtaken'[t]]
<1> DEFINE kept == /\ badge' = [t \in Tabs |-> badge'[t]] /\ list' = [t \in Tabs |-> list'[t]]
                   /\ overtaken' = [t \in Tabs |-> overtaken'[t]]
<1>1. /\ badge = [t \in Tabs |-> badge[t]] /\ list = [t \in Tabs |-> list[t]]
      /\ overtaken = [t \in Tabs |-> overtaken[t]] /\ scene \in Scenes
  BY DEF InboxTyped, HistoryTyped, ServerTyped
<1>2. ASSUME UNCHANGED <<badge, list, overtaken>> PROVE kept
  BY <1>1, <1>2, Zenon
<1>3. ASSUME NEW w \in Writers, \/ \E o \in scene.ops : Change(w, o) \/ ReadNothing(w, o)
                                \/ Count(w) \/ CountFails(w) \/ Publish(w) \/ CountAnswer(w) \/ Deleted(w)
      PROVE  UNCHANGED <<badge, list, overtaken>>
  BY <1>3 DEF Change, ReadNothing, Count, CountFails, Publish, CountAnswer, Deleted, inbox, history
<1>4. ASSUME NEW w \in Writers, Reply(w) PROVE kept
  <2>1. UNCHANGED list /\ badge' = [u \in Tabs |-> badge'[u]] /\ overtaken' = [u \in Tabs |-> overtaken'[u]]
    BY <1>4, ReplyMoves
  <2> QED
    BY <1>1, <2>1, Zenon
<1>5. ASSUME NEW t \in Tabs, Hello(t) PROVE kept
  <2>1. UNCHANGED <<list, overtaken>> /\ badge' = [u \in Tabs |-> badge'[u]]
    BY <1>5, HelloMoves DEF history
  <2> QED
    BY <1>1, <2>1, Zenon
<1>6. ASSUME NEW t \in Tabs, Handle(t) PROVE kept
  <2>1. UNCHANGED list /\ badge' = [u \in Tabs |-> badge'[u]] /\ overtaken' = [u \in Tabs |-> overtaken'[u]]
    BY <1>6, PopMoves, PopBadge DEF Handle
  <2> QED
    BY <1>1, <2>1, Zenon
<1>7. ASSUME NEW t \in Tabs, NEW s \in Slots, Show(t, s) PROVE kept
  BY <1>7, ShowMoves
<1>8. ASSUME NEW t \in Tabs, \/ Connect(t) \/ Close(t) \/ \E c \in scene.threads : Select(t, c)
                             \/ \E i \in DOMAIN gets[t] : ReadThread(t, i) \/ ShowThread(t, i) \/ GetFails(t, i)
                             \/ \E s \in Slots : ReadList(t, s) \/ ReadCount(t, s) \/ FetchFails(t, s)
      PROVE  UNCHANGED <<badge, list, overtaken>>
  BY <1>8 DEF Connect, Close, Select, ReadThread, ShowThread, GetFails, ReadList, ReadCount, FetchFails,
              inbox, history
<1>9. ASSUME UNCHANGED vars PROVE UNCHANGED <<badge, list, overtaken>>
  BY <1>9 DEF vars, inbox, history
<1>10. kept
  <2> HIDE DEF kept
  <2> QED
    BY <1>1, <1>2, <1>3, <1>4, <1>5, <1>6, <1>7, <1>8, <1>9, Steps
<1>11. \A t \in Tabs : /\ badge'[t] \in Counts /\ list'[t] \in 0..version'
                       /\ Sound(badge[t])' /\ (overtaken[t] \/ list[t] <= badge[t].asOf)'
  BY BadgeNext
<1>12. badge' \in [Tabs -> Counts] /\ list' \in [Tabs -> 0..version']
  BY <1>10, <1>11
<1>13. ShownCountsAreSound' /\ BadgeFollowsList'
  BY <1>11 DEF ShownCountsAreSound, BadgeFollowsList
<1> QED
  BY <1>10, <1>12, <1>13, FetchNext DEF InboxTyped

(* What excuses a tab is not taken back, but for an answer that is the newest. *)
LEMMA HistoryNext ==
  ASSUME ServerTyped, WriterTyped, Handlers, StreamTyped, InboxTyped, HistoryTyped, [Next]_vars
  PROVE  /\ unsaid' \in Nat /\ unsaid <= unsaid'
         /\ lost' \in [Tabs -> Nat] /\ \A t \in Tabs : lost[t] <= lost'[t]
         /\ failed' \in [Tabs -> Nat] /\ \A t \in Tabs : failed[t] <= failed'[t]
<1> DEFINE grown == /\ unsaid' \in Nat /\ unsaid <= unsaid'
                    /\ lost' \in [Tabs -> Nat] /\ \A t \in Tabs : lost[t] <= lost'[t]
                    /\ failed' \in [Tabs -> Nat] /\ \A t \in Tabs : failed[t] <= failed'[t]
<1>1. /\ unsaid \in Nat /\ unsaid <= unsaid /\ scene \in Scenes /\ version \in Nat
      /\ lost \in [Tabs -> Nat] /\ \A t \in Tabs : lost[t] <= lost[t]
      /\ failed \in [Tabs -> Nat] /\ \A t \in Tabs : failed[t] <= failed[t]
      /\ \A w \in Writers : my[w].made \in Nat
  BY DEF HistoryTyped, ServerTyped, WriterTyped, Holdings
<1>2. ASSUME UNCHANGED <<unsaid, lost, failed>> PROVE grown
  BY <1>1, <1>2
<1>3. ASSUME NEW w \in Writers, \/ \E o \in scene.ops : Change(w, o) \/ ReadNothing(w, o)
                                \/ Count(w) \/ CountAnswer(w) \/ Reply(w) \/ Deleted(w)
      PROVE  UNCHANGED <<unsaid, lost, failed>>
  BY <1>3 DEF Change, ReadNothing, Count, CountAnswer, Reply, Deleted, history
<1>4. ASSUME NEW w \in Writers, CountFails(w) PROVE grown
  <2>1. (unsaid' = Highest(unsaid, my[w].made) \/ unsaid' = unsaid) /\ lost' = lost /\ failed' = failed
    BY <1>4 DEF CountFails
  <2>2. Highest(unsaid, my[w].made) \in Nat /\ Highest(unsaid, my[w].made) >= unsaid
    BY <1>1, HighestOf
  <2> QED
    BY <1>1, <2>1, <2>2
<1>5. ASSUME NEW w \in Writers, Publish(w) PROVE grown
  <2>1. /\ lost' = [t \in Tabs |-> lost'[t]] /\ unsaid' = unsaid /\ failed' = failed
        /\ \A t \in Tabs : lost'[t] = lost[t] \/ lost'[t] = Highest(lost[t], my[w].made)
    BY <1>5, PublishMoves
  <2>2. \A t \in Tabs : Highest(lost[t], my[w].made) \in Nat /\ Highest(lost[t], my[w].made) >= lost[t]
    BY <1>1, HighestOf
  <2>3. \A t \in Tabs : lost'[t] \in Nat /\ lost[t] <= lost'[t]
    BY <1>1, <2>1, <2>2
  <2> QED
    BY <1>1, <2>1, <2>3
<1>6. ASSUME NEW t \in Tabs, Close(t) PROVE grown
  <2>1. /\ lost'[t] \in Nat /\ lost'[t] >= lost[t] /\ \A u \in Tabs \ {t} : lost'[u] = lost[u]
        /\ lost' = [u \in Tabs |-> lost'[u]] /\ unsaid' = unsaid /\ failed' = failed
    BY <1>6, CloseMoves
  <2>2. \A u \in Tabs : lost'[u] \in Nat /\ lost[u] <= lost'[u]
    BY <1>1, <2>1
  <2> QED
    BY <1>1, <2>1, <2>2
<1>7. ASSUME NEW t \in Tabs, NEW s \in Slots, FetchFails(t, s) PROVE grown
  <2>1. /\ failed'[t] = Highest(failed[t], version) /\ \A u \in Tabs \ {t} : failed'[u] = failed[u]
        /\ failed' = [u \in Tabs |-> failed'[u]] /\ unsaid' = unsaid /\ lost' = lost
    BY <1>7, FetchFailsMoves
  <2>2. Highest(failed[t], version) \in Nat /\ Highest(failed[t], version) >= failed[t]
    BY <1>1, HighestOf
  <2>3. \A u \in Tabs : failed'[u] \in Nat /\ failed[u] <= failed'[u]
    BY <1>1, <2>1, <2>2
  <2> QED
    BY <1>1, <2>1, <2>3
<1>8. ASSUME NEW t \in Tabs, \/ Connect(t) \/ Hello(t) \/ Handle(t) \/ \E c \in scene.threads : Select(t, c)
                             \/ \E i \in DOMAIN gets[t] : ReadThread(t, i) \/ ShowThread(t, i) \/ GetFails(t, i)
                             \/ \E s \in Slots : ReadList(t, s) \/ ReadCount(t, s) \/ Show(t, s)
      PROVE  UNCHANGED <<unsaid, lost, failed>>
  BY <1>8 DEF Connect, Hello, Handle, Pop, Select, ReadThread, ShowThread, GetFails, ReadList, ReadCount, Show, history
<1>9. ASSUME UNCHANGED vars PROVE UNCHANGED <<unsaid, lost, failed>>
  BY <1>9 DEF vars, history
<1> HIDE DEF grown
<1>10. grown
  BY <1>1, <1>2, <1>3, <1>4, <1>5, <1>6, <1>7, <1>8, <1>9, Steps
<1> QED
  BY <1>10 DEF grown

-----------------------------------------------------------------------------
(* A change on its way *)

(* A change stays on its way but for the step in which the tab handles it.     *)
LEMMA HeldStays ==
  ASSUME ServerTyped, WriterTyped, Handlers, StreamTyped, HistoryTyped, [Next]_vars,
         NEW c \in Topics, NEW v \in Nat, Held(c, v)
  PROVE  Held(c, v)' \/ v <= unsaid' \/ \A t \in Tabs : v <= lost'[t] \/ Queued(t, c, v)'
<1> DEFINE goal == Held(c, v)' \/ v <= unsaid' \/ \A t \in Tabs : v <= lost'[t] \/ Queued(t, c, v)'
<1>1. PICK h \in Writers : at[h] \in Pending /\ my[h].about = c /\ my[h].made = v
  BY DEF Held
<1>2. at[h] \in {"count", "recount", "publish"} /\ scene \in Scenes
  BY <1>1 DEF Pending, ServerTyped
<1>3. ASSUME at'[h] \in Pending, my'[h].about = c, my'[h].made = v PROVE goal
  BY <1>3 DEF Held
<1>4. ASSUME at'[h] = at[h], my'[h] = my[h] PROVE goal
  BY <1>1, <1>3, <1>4
<1> HIDE DEF goal
<1>5. ASSUME NEW w \in Writers, w # h, \A u \in Writers \ {w} : at'[u] = at[u] /\ my'[u] = my[u] PROVE goal
  BY <1>4, <1>5
<1>6. ASSUME NEW w \in Writers, NEW o \in scene.ops, Change(w, o) PROVE goal
  <2>1. at[w] = "idle"
    BY <1>6 DEF Change
  <2>2. w # h
    BY <1>2, <2>1
  <2>3. \A u \in Writers \ {w} : at'[u] = at[u] /\ my'[u] = my[u]
    BY <1>6, ChangeMoves
  <2> QED
    BY <1>5, <2>2, <2>3
<1>7. ASSUME NEW w \in Writers, Finish(w), w # h PROVE goal
  BY <1>5, <1>7, FinishLeaves
<1>8. ASSUME NEW w \in Writers, NEW o \in scene.ops, ReadNothing(w, o) PROVE goal
  <2>1. at[w] = "idle"
    BY <1>8 DEF ReadNothing
  <2>2. w # h
    BY <1>2, <2>1
  <2>3. CASE Finish(w)
    BY <1>7, <2>2, <2>3
  <2>4. CASE Goto(w, "answer") /\ \E b \in Asks(o) : my' = [my EXCEPT ![w].by = b]
    <3>1. PICK b \in Asks(o) : my' = [my EXCEPT ![w].by = b]
      BY <2>4
    <3>2. \A u \in Writers \ {w} : at'[u] = at[u] /\ my'[u] = my[u]
      BY <2>4, <3>1, AskerLeaves DEF Goto, WriterTyped
    <3> QED
      BY <1>5, <2>2, <3>2
  <2> QED
    BY <1>8, <2>3, <2>4 DEF ReadNothing
<1>9. ASSUME NEW w \in Writers, Count(w) PROVE goal
  <2>1. /\ my'[w].about = my[w].about /\ my'[w].made = my[w].made
        /\ \A u \in Writers \ {w} : my'[u] = my[u]
    BY <1>9, CountedLeaves DEF Count
  <2>2. at'[w] \in Pending /\ \A u \in Writers \ {w} : at'[u] = at[u]
    BY <1>9 DEF Count, Goto, WriterTyped, Pending
  <2>3. CASE w = h
    BY <1>1, <1>3, <2>1, <2>2, <2>3
  <2>4. CASE w # h
    BY <1>5, <2>1, <2>2, <2>4
  <2> QED
    BY <2>3, <2>4
<1>10. ASSUME NEW w \in Writers, CountFails(w) PROVE goal
  <2>1. CASE w # h /\ Finish(w)
    BY <1>7, <2>1
  <2>2. CASE Continue(w, "publish")
    <3>1. my' = my /\ at'[w] = "publish" /\ \A u \in Writers \ {w} : at'[u] = at[u]
      BY <2>2, ContinueLeaves
    <3>2. at'[h] \in Pending
      BY <1>1, <3>1 DEF Pending
    <3> QED
      BY <1>1, <1>3, <3>1, <3>2
  <2>3. CASE w = h /\ unsaid' = Highest(unsaid, my[w].made)
    <3>1. v <= unsaid'
      BY <1>1, <2>3, HighestOf DEF HistoryTyped
    <3> QED
      BY <3>1 DEF goal
  <2> QED
    BY <1>10, <2>1, <2>2, <2>3 DEF CountFails
<1>11. ASSUME NEW w \in Writers, Publish(w) PROVE goal
  <2>1. CASE w # h
    <3>1. Finish(w) \/ Continue(w, "answer")
      BY <1>11 DEF Publish
    <3> QED
      BY <1>5, <1>7, <2>1, <3>1, ContinueLeaves
  <2>2. CASE w = h
    <3> DEFINE e == Event(op[h], my[h])
    <3>1. /\ e \in Events /\ e.about = c /\ e.change = v
          /\ \A t \in Tabs : \/ queue'[t] = Append(queue[t], e)
                             \/ lost'[t] = Highest(lost[t], v)
      BY <1>1, <1>11, <2>2, PublishMoves
    <3> HIDE DEF e
    <3>2. ASSUME NEW t \in Tabs PROVE v <= lost'[t] \/ Queued(t, c, v)'
      <4>1. CASE queue'[t] = Append(queue[t], e)
        <5> DEFINE r == Append(queue[t], e)
        <5>1. queue[t] \in Seq(Events)
          BY DEF StreamTyped
        <5>2. r \in Seq(Events) /\ Len(queue[t]) + 1 \in 1..Len(r) /\ r[Len(queue[t]) + 1] = e
          BY <3>1, <5>1, Appended
        <5> HIDE DEF r
        <5>3. DOMAIN r = 1..Len(r) /\ queue'[t] = r
          BY <4>1, <5>2 DEF r
        <5> QED
          BY <3>1, <5>2, <5>3 DEF Queued
      <4>2. CASE lost'[t] = Highest(lost[t], v)
        <5>1. lost[t] \in Nat
          BY DEF HistoryTyped
        <5> QED
          BY <4>2, <5>1, HighestOf
      <4> QED
        BY <3>1, <4>1, <4>2
    <3> QED
      BY <3>2 DEF goal
  <2> QED
    BY <2>1, <2>2
<1>12. ASSUME NEW w \in Writers, CountAnswer(w) PROVE goal
  <2>1. at[w] = "answer"
    BY <1>12 DEF CountAnswer
  <2>2. w # h
    BY <1>2, <2>1
  <2>3. CASE Finish(w)
    BY <1>7, <2>2, <2>3
  <2>4. CASE my' = [my EXCEPT ![w].count = Counted] /\ Goto(w, "reply")
    <3>1. \A u \in Writers \ {w} : at'[u] = at[u] /\ my'[u] = my[u]
      BY <2>4, CountedLeaves DEF Goto, WriterTyped
    <3> QED
      BY <1>5, <2>2, <3>1
  <2> QED
    BY <1>12, <2>3, <2>4 DEF CountAnswer
<1>13. ASSUME NEW w \in Writers, Reply(w) \/ Deleted(w) PROVE goal
  <2>1. at[w] \in {"answer", "reply"} /\ Finish(w)
    BY <1>13 DEF Reply, Deleted
  <2>2. w # h
    BY <1>2, <2>1
  <2> QED
    BY <1>7, <2>1, <2>2
<1>14. ASSUME UNCHANGED writer PROVE goal
  BY <1>4, <1>14 DEF writer
<1>15. ASSUME NEW t \in Tabs, TabStep(t) PROVE goal
  BY <1>14, <1>15, TabStepsLeave
<1>16. ASSUME UNCHANGED vars PROVE goal
  BY <1>14, <1>16 DEF vars
<1> QED
  BY <1>2, <1>6, <1>8, <1>9, <1>10, <1>11, <1>12, <1>13, <1>15, <1>16, Steps DEF goal, TabStep

(* An event stays queued until the tab handles it or its stream ends. *)
LEMMA QueuedStays ==
  ASSUME ServerTyped, WriterTyped, Handlers, StreamTyped, HistoryTyped, [Next]_vars,
         NEW t \in Tabs, NEW c \in Topics, NEW v \in Nat, Queued(t, c, v)
  PROVE  \/ Queued(t, c, v)' \/ v <= lost'[t]
         \/ Handle(t) /\ queue[t] # <<>> /\ Head(queue[t]).about = c /\ Head(queue[t]).change = v
<1> DEFINE gone == Handle(t) /\ queue[t] # <<>> /\ Head(queue[t]).about = c /\ Head(queue[t]).change = v
           goal == Queued(t, c, v)' \/ v <= lost'[t] \/ gone
           q == queue[t]
<1>1. q \in Seq(Events) /\ DOMAIN q = 1..Len(q) /\ scene \in Scenes
  BY DEF StreamTyped, ServerTyped
<1>2. PICK i \in 1..Len(q) : q[i].about = c /\ q[i].change = v
  BY <1>1 DEF Queued
<1>3. ASSUME queue'[t] = queue[t] PROVE goal
  BY <1>3 DEF Queued
<1> HIDE DEF goal
<1>4. ASSUME NEW w \in Writers, Publish(w) PROVE goal
  <2> DEFINE e == Event(op[w], my[w])
             r == Append(q, e)
  <2>1. e \in Events /\ (queue'[t] = r \/ queue'[t] = q)
    BY <1>4, PublishMoves
  <2> HIDE DEF e
  <2>2. CASE queue'[t] = r
    <3>1. r \in Seq(Events) /\ i \in 1..Len(r) /\ r[i] = q[i]
      BY <1>1, <2>1, Appended
    <3> HIDE DEF r
    <3>2. i \in DOMAIN r
      BY <3>1
    <3> QED
      BY <1>2, <2>2, <3>1, <3>2 DEF goal, Queued
  <2> QED
    BY <1>3, <2>1, <2>2
<1>5. ASSUME NEW u \in Tabs, Close(u) PROVE goal
  <2>1. CASE u = t
    BY <1>1, <1>2, <1>5, <2>1, CloseMoves DEF goal
  <2>2. CASE u # t
    BY <1>3, <1>5, <2>2, CloseMoves
  <2> QED
    BY <2>1, <2>2
<1>6. ASSUME NEW u \in Tabs, Handle(u) PROVE goal
  <2>1. queue[u] # <<>> /\ queue'[u] = Tail(queue[u]) /\ \A x \in Tabs \ {u} : queue'[x] = queue[x]
    BY <1>6, PopMoves DEF Handle
  <2>2. CASE u = t
    <3> DEFINE r == Tail(q)
    <3>1. /\ r \in Seq(Events) /\ Head(q) = q[1]
          /\ \A k \in 1..Len(q) : k # 1 => \E j \in 1..Len(r) : r[j] = q[k]
      BY <1>1, <2>1, <2>2, Popped
    <3>2. queue'[t] = r
      BY <2>1, <2>2
    <3> HIDE DEF r
    <3>3. DOMAIN r = 1..Len(r)
      BY <3>1
    <3>4. CASE i = 1
      <4>1. Head(q).about = c /\ Head(q).change = v
        BY <1>2, <3>1, <3>4
      <4>2. gone
        BY <1>6, <2>1, <2>2, <4>1
      <4> QED
        BY <4>2 DEF goal
    <3>5. CASE i # 1
      <4>1. PICK j \in 1..Len(r) : r[j] = q[i]
        BY <3>1, <3>5
      <4>2. Queued(t, c, v)'
        BY <1>2, <3>2, <3>3, <4>1 DEF Queued
      <4> QED
        BY <4>2 DEF goal
    <3> QED
      BY <3>4, <3>5
  <2>3. CASE u # t
    BY <1>3, <2>1, <2>3
  <2> QED
    BY <2>2, <2>3
<1>7. ASSUME NEW w \in Writers, \/ \E o \in scene.ops : Change(w, o) \/ ReadNothing(w, o)
                                \/ Count(w) \/ CountFails(w) \/ CountAnswer(w) \/ Reply(w) \/ Deleted(w)
      PROVE  UNCHANGED queue
  BY <1>7 DEF Change, ReadNothing, Count, CountFails, CountAnswer, Reply, Deleted, stream
<1>8. ASSUME NEW u \in Tabs, \/ Connect(u) \/ Hello(u) \/ \E d \in scene.threads : Select(u, d)
                             \/ \E s \in Slots : ReadList(u, s) \/ ReadCount(u, s) \/ Show(u, s) \/ FetchFails(u, s)
                             \/ \E k \in DOMAIN gets[u] : ReadThread(u, k) \/ ShowThread(u, k) \/ GetFails(u, k)
      PROVE  UNCHANGED queue
  BY <1>8 DEF Connect, Hello, Select, ReadList, ReadCount, Show, FetchFails, ReadThread, ShowThread, GetFails, stream
<1>9. ASSUME UNCHANGED vars PROVE UNCHANGED queue
  BY <1>9 DEF vars, stream
<1> QED
  BY <1>1, <1>3, <1>4, <1>5, <1>6, <1>7, <1>8, <1>9, Steps DEF goal

(* So a change stays told, until the tab handles its event. *)
LEMMA ToldNext ==
  ASSUME ServerTyped, WriterTyped, Handlers, StreamTyped, InboxTyped, HistoryTyped, [Next]_vars,
         NEW t \in Tabs, NEW c \in Topics, NEW v \in Nat, Told(t, c, v)
  PROVE  \/ Told(t, c, v)'
         \/ Handle(t) /\ queue[t] # <<>> /\ Head(queue[t]).about = c /\ Head(queue[t]).change = v
<1> DEFINE gone == Handle(t) /\ queue[t] # <<>> /\ Head(queue[t]).about = c /\ Head(queue[t]).change = v
<1>1. CASE v <= lost[t] \/ v <= unsaid
  <2>1. /\ lost[t] \in Nat /\ lost'[t] \in Nat /\ unsaid \in Nat /\ unsaid' \in Nat
        /\ lost[t] <= lost'[t] /\ unsaid <= unsaid'
    BY HistoryNext DEF HistoryTyped
  <2>2. v <= lost'[t] \/ v <= unsaid'
    BY <1>1, <2>1
  <2> QED
    BY <2>2 DEF Told
<1>2. CASE Held(c, v)
  BY <1>2, HeldStays DEF Told
<1>3. CASE Queued(t, c, v)
  BY <1>3, QueuedStays DEF Told
<1> QED
  BY <1>1, <1>2, <1>3 DEF Told

(* What a request for the list will show does not get lost.                    *)
LEMMA ArrivingStays ==
  ASSUME ServerTyped, WriterTyped, Handlers, InboxTyped, HistoryTyped, version' = version, [Next]_vars,
         NEW t \in Tabs, NEW s \in Slots, Arriving(t, s)
  PROVE  Arriving(t, s)' \/ list'[t] = version \/ version <= failed'[t]
<1> DEFINE goal == Arriving(t, s)' \/ list'[t] = version \/ version <= failed'[t]
<1>1. ASSUME fetch'[t][s] = fetch[t][s] PROVE goal
  BY <1>1 DEF Arriving
<1>2. fetch[t][s].at \in {"asked", "listed", "counted"} /\ (fetch[t][s].at # "asked" => fetch[t][s].list = version)
  BY DEF Arriving
<1>3. ASSUME fetch'[t][s].at \in {"listed", "counted"}, fetch'[t][s].list = version PROVE goal
  BY <1>3 DEF Arriving
<1> HIDE DEF goal
<1>4. ASSUME UNCHANGED fetch PROVE goal
  BY <1>1, <1>4
<1>5. ASSUME FetchStep PROVE goal
  <2>1. PICK u \in Tabs, r \in Slots :
          \/ fetch[u][r].at = "free" /\ Put(u, r, Asked)
          \/ ReadList(u, r) \/ ReadCount(u, r) \/ Show(u, r) \/ FetchFails(u, r)
    BY <1>5 DEF FetchStep
  <2>2. ASSUME NEW f, Put(u, r, f), ~(u = t /\ r = s) PROVE goal
    BY <1>1, <2>2 DEF Put
  <2>3. CASE fetch[u][r].at = "free" /\ Put(u, r, Asked)
    BY <1>2, <2>2, <2>3
  <2>4. CASE ReadList(u, r)
    <3>1. PICK f \in Fetches : Put(u, r, f) /\ f.at = "listed" /\ f.list = version
      BY <2>4, ReadListMoves
    <3> QED
      BY <1>3, <2>2, <3>1 DEF Put
  <2>5. CASE ReadCount(u, r)
    <3>1. PICK f \in Fetches : Put(u, r, f) /\ f.at = "counted" /\ f.list = fetch[u][r].list
      BY <2>5, ReadCountMoves
    <3>2. fetch[u][r].at = "listed"
      BY <2>5, ReadCountMoves
    <3> QED
      BY <1>2, <1>3, <2>2, <3>1, <3>2 DEF Put
  <2>6. CASE Show(u, r)
    <3>1. fetch[u][r].at = "counted" /\ Put(u, r, Idle) /\ list'[u] = fetch[u][r].list
      BY <2>6, ShowMoves
    <3>2. CASE u = t /\ r = s
      BY <1>2, <3>1, <3>2 DEF goal
    <3>3. CASE ~(u = t /\ r = s)
      BY <2>2, <3>1, <3>3
    <3> QED
      BY <3>2, <3>3
  <2>7. CASE FetchFails(u, r)
    <3>1. Put(u, r, Idle) /\ failed'[u] = Highest(failed[u], version)
      BY <2>7, FetchFailsMoves
    <3>2. CASE u = t
      <4>1. failed[t] \in Nat /\ version \in Nat
        BY DEF HistoryTyped, ServerTyped
      <4>2. version <= failed'[t]
        BY <3>1, <3>2, <4>1, HighestOf
      <4> QED
        BY <4>2 DEF goal
    <3>3. CASE u # t
      BY <2>2, <3>1, <3>3
    <3> QED
      BY <3>2, <3>3
  <2> QED
    BY <2>1, <2>3, <2>4, <2>5, <2>6, <2>7
<1>6. goal
  BY <1>4, <1>5, FetchSteps
<1> QED
  BY <1>6 DEF goal

(* A list that is the present one is replaced by an older one only at the      *)
(* price of the excuse, and that excuse ends with the present list only.       *)
LEMMA ListStays ==
  ASSUME ServerTyped, WriterTyped, Handlers, StreamTyped, InboxTyped, HistoryTyped, FetchedCountsAreSound,
         version' = version, [Next]_vars, NEW t \in Tabs, list[t] = version \/ overtaken[t]
  PROVE  list'[t] = version \/ overtaken'[t]
<1>1. ASSUME BadgeStep(t) PROVE list'[t] = version \/ overtaken'[t]
  <2>1. ASSUME NEW w \in Writers, Reply(w), my[w].by = t PROVE list'[t] = version \/ overtaken'[t]
    <3>1. /\ list' = list
          /\ overtaken'[t] = (overtaken[t] \/ my[w].count.asOf < Highest(badge[t].asOf, list[t]))
      BY <2>1, ReplyMoves
    <3> QED
      BY <3>1, Zenon
  <2>2. ASSUME Hello(t) PROVE list'[t] = version \/ overtaken'[t]
    <3>1. list' = list /\ overtaken' = overtaken
      BY <2>2, HelloMoves DEF history
    <3> QED
      BY <3>1, Zenon
  <2>3. ASSUME Pop(t) PROVE list'[t] = version \/ overtaken'[t]
    <3>1. list' = list /\ overtaken'[t] = (overtaken[t] \/ Head(queue[t]).asOf < badge[t].asOf)
      BY <2>3, PopMoves, PopBadge
    <3> QED
      BY <3>1, Zenon
  <2>4. ASSUME NEW s \in Slots, Show(t, s) PROVE list'[t] = version \/ overtaken'[t]
    <3> DEFINE f == fetch[t][s]
               late == f.list < list[t] \/ f.asOf < badge[t].asOf
    <3>1. /\ f.at = "counted" /\ list'[t] = f.list
          /\ overtaken'[t] = IF late THEN TRUE ELSE overtaken[t] /\ f.list < version
      BY <2>4, ShowMoves, Zenon
    <3>2. f.list \in Nat /\ f.list <= version /\ list[t] \in Nat /\ version \in Nat
      BY <3>1 DEF InboxTyped, Fetches, FetchedCountsAreSound, ServerTyped
    <3> HIDE DEF f
    <3>3. f.list = version \/ f.list < version
      BY <3>2
    <3>4. list[t] = version /\ f.list < version => f.list < list[t]
      OBVIOUS
    <3> QED
      BY <3>1, <3>3, <3>4, Zenon
  <2> QED
    BY <1>1, <2>1, <2>2, <2>3, <2>4 DEF BadgeStep
<1> QED
  BY <1>1, BadgeSteps, Zenon

(* The last change is on its way to every tab's list, or the tab is excused.   *)
LEMMA ListNext ==
  ASSUME ServerTyped, WriterTyped, Handlers, StreamTyped, InboxTyped, HistoryTyped, SettingsAreNoChange,
         FetchedCountsAreSound, ChangesReachTheList, [Next]_vars
  PROVE  ChangesReachTheList'
<1> SUFFICES ASSUME NEW t \in Tabs PROVE LastChange(t)'
  BY DEF ChangesReachTheList
<1>1. scene \in Scenes /\ version \in Nat /\ LastChange(t)
  BY DEF ServerTyped, ChangesReachTheList
<1>2. ASSUME version' = version PROVE LastChange(t)'
  <2>1. CASE version = 0
    BY <1>2, <2>1 DEF LastChange
  <2>2. ASSUME NEW c \in Topics, Told(t, c, version) PROVE LastChange(t)'
    <3>1. CASE Told(t, c, version)'
      BY <3>1 DEF LastChange
    <3>2. CASE Handle(t) /\ queue[t] # <<>> /\ Head(queue[t]).change = version
      <4> DEFINE e == Head(queue[t])
      <4>1. queue[t] \in Seq(Events)
        BY DEF StreamTyped
      <4>2. 1 \in DOMAIN queue[t] /\ e = queue[t][1]
        BY <3>2, <4>1, Popped
      <4>3. CASE e.type = "config"
        <5>1. version = 0
          BY <3>2, <4>2, <4>3 DEF SettingsAreNoChange
        <5> QED
          BY <2>1, <5>1
      <4>4. CASE e.type # "config"
        <5>1. Ask(t)
          BY <3>2, <4>4 DEF Handle
        <5>2. PICK s \in Slots : Put(t, s, Asked)
          BY <5>1, AskMoves
        <5>3. Arriving(t, s)'
          BY <5>2, IdleTyped DEF Put, Arriving
        <5> QED
          BY <5>3 DEF LastChange
      <4> QED
        BY <4>3, <4>4
    <3> QED
      BY <1>1, <1>2, <2>2, <3>1, <3>2, ToldNext
  <2>3. ASSUME NEW s \in Slots, Arriving(t, s) PROVE LastChange(t)'
    <3>1. Arriving(t, s)' \/ list'[t] = version' \/ version' <= failed'[t]
      BY <1>2, <2>3, ArrivingStays
    <3> QED
      BY <3>1 DEF LastChange
  <2>4. ASSUME list[t] = version \/ overtaken[t] PROVE LastChange(t)'
    <3>1. list'[t] = version' \/ overtaken'[t]
      BY <1>2, <2>4, ListStays, Zenon
    <3> QED
      BY <3>1, Zenon DEF LastChange
  <2>5. ASSUME version <= failed[t] PROVE LastChange(t)'
    <3>1. failed[t] \in Nat /\ failed'[t] \in Nat /\ failed[t] <= failed'[t]
      BY HistoryNext DEF HistoryTyped
    <3>2. version' <= failed'[t]
      BY <1>1, <1>2, <2>5, <3>1
    <3> QED
      BY <3>2 DEF LastChange
  <2> QED
    BY <1>1, <2>1, <2>2, <2>3, <2>4, <2>5, Zenon DEF LastChange
<1>3. ASSUME NEW w \in Writers, NEW o \in scene.ops, Change(w, o) PROVE LastChange(t)'
  <2>1. CASE version' = version
    BY <1>2, <2>1
  <2>2. CASE version' # version
    <3>1. version' = IF Changes(o) THEN version + 1 ELSE version
      BY <1>3 DEF Change
    <3>2. /\ at'[w] = "count" /\ my'[w].made = (IF Changes(o) THEN version + 1 ELSE 0)
          /\ my'[w].about \in {NoThread} \cup scene.threads
      BY <1>3, ChangeMoves
    <3>3. my'[w].about \in Topics /\ at'[w] \in Pending /\ my'[w].made = version'
      BY <1>1, <2>2, <3>1, <3>2, SceneParts DEF Pending
    <3>4. Told(t, my[w].about, version)'
      BY <3>3 DEF Told, Held
    <3> QED
      BY <3>3, <3>4 DEF LastChange
  <2> QED
    BY <2>1, <2>2
<1>4. ASSUME NEW w \in Writers, HandlerStep(w) PROVE version' = version
  BY <1>4, HandlerStepsLeave, DeletedLeaves DEF server
<1>5. ASSUME NEW u \in Tabs, TabStep(u) PROVE version' = version
  BY <1>5, TabStepsLeave DEF server
<1>6. ASSUME UNCHANGED vars PROVE version' = version
  BY <1>6 DEF vars, server
<1> QED
  BY <1>1, <1>2, <1>3, <1>4, <1>5, <1>6, Steps DEF HandlerStep, TabStep

-----------------------------------------------------------------------------
(* What a tab has open fits its selection *)

(* Requests for conversations that fit a selection, c. *)
Fit(r, c) ==
  /\ r \in Requests
  /\ ~r.late => r.thread = c
  /\ r.at = "read" => r.asOf <= thread[r.thread].asOf

AllFit(q, c) == q \in Seq(Requests) /\ \A i \in 1..Len(q) : Fit(q[i], c)

(* Belated requests fit any selection. *)
LEMMA BelatedFit ==
  ASSUME ServerTyped, NEW q, NEW c, AllFit(q, c), NEW d
  PROVE  AllFit(Belated(q), d) /\ Len(Belated(q)) = Len(q)
<1>1. q \in Seq(Requests) /\ \A i \in 1..Len(q) : Fit(q[i], c)
  BY DEF AllFit
<1> DEFINE b == Belated(q)
<1>2. /\ b \in Seq(Requests) /\ Len(b) = Len(q)
      /\ \A i \in 1..Len(q) : b[i].late = TRUE /\ b[i].thread = q[i].thread /\ b[i].at = q[i].at /\ b[i].asOf = q[i].asOf
  BY <1>1, BelatedRequests
<1> HIDE DEF b
<1>3. ASSUME NEW i \in 1..Len(b) PROVE Fit(b[i], d)
  <2>1. b[i] \in Requests /\ i \in 1..Len(q)
    BY <1>2
  <2>2. Fit(q[i], c)
    BY <1>1, <2>1
  <2> QED
    BY <1>2, <2>1, <2>2 DEF Fit
<1> QED
  BY <1>2, <1>3 DEF AllFit, b

(* One more that fits. *)
LEMMA AppendedFit ==
  ASSUME NEW q, NEW c, AllFit(q, c), NEW r, Fit(r, c)
  PROVE  AllFit(Append(q, r), c) /\ Len(Append(q, r)) = Len(q) + 1
<1>1. q \in Seq(Requests) /\ (\A i \in 1..Len(q) : Fit(q[i], c)) /\ r \in Requests
  BY DEF AllFit, Fit
<1> DEFINE b == Append(q, r)
<1>2. /\ b \in Seq(Requests) /\ Len(b) = Len(q) + 1
      /\ \A i \in 1..Len(q) : b[i] = q[i]
      /\ b[Len(q) + 1] = r
      /\ \A i \in 1..Len(b) : i \in 1..Len(q) \/ i = Len(q) + 1
  BY <1>1, Appended
<1> HIDE DEF b
<1>3. ASSUME NEW i \in 1..Len(b) PROVE Fit(b[i], c)
  BY <1>1, <1>2
<1> QED
  BY <1>2, <1>3 DEF AllFit, b

(* One fewer. *)
LEMMA RemovedFit ==
  ASSUME NEW q, NEW c, AllFit(q, c), NEW i \in 1..Len(q)
  PROVE  AllFit(RemoveAt(q, i), c) /\ Len(RemoveAt(q, i)) = Len(q) - 1
<1>1. q \in Seq(Requests) /\ \A k \in 1..Len(q) : Fit(q[k], c)
  BY DEF AllFit
<1> DEFINE b == RemoveAt(q, i)
<1>2. b \in Seq(Requests) /\ Len(b) = Len(q) - 1 /\ \A j \in 1..Len(b) : \E k \in 1..Len(q) : b[j] = q[k]
  BY <1>1, Removed
<1> HIDE DEF b
<1>3. ASSUME NEW j \in 1..Len(b) PROVE Fit(b[j], c)
  BY <1>1, <1>2
<1> QED
  BY <1>2, <1>3 DEF AllFit, b

(* One that was answered with what is there now. *)
LEMMA ReadFit ==
  ASSUME ServerTyped, NEW q, NEW c, AllFit(q, c), NEW i \in 1..Len(q)
  PROVE  LET r == [thread |-> q[i].thread, at |-> "read", asOf |-> thread[q[i].thread].asOf,
                   late |-> q[i].late, then |-> q[i].then]
         IN  AllFit([q EXCEPT ![i] = r], c) /\ Len([q EXCEPT ![i] = r]) = Len(q)
<1> DEFINE r == [thread |-> q[i].thread, at |-> "read", asOf |-> thread[q[i].thread].asOf,
                 late |-> q[i].late, then |-> q[i].then]
           b == [q EXCEPT ![i] = r]
<1>1. q \in Seq(Requests) /\ \A k \in 1..Len(q) : Fit(q[k], c)
  BY DEF AllFit
<1>2. q[i] \in Requests /\ Fit(q[i], c)
  BY <1>1
<1>3. q[i].thread \in Threads /\ q[i].late \in BOOLEAN /\ q[i].then \in BOOLEAN
  BY <1>2 DEF Requests
<1>4. thread[q[i].thread].asOf \in 0..version /\ version \in Nat
  <2>1. thread[q[i].thread] \in [asOf : 0..version, gone : BOOLEAN]
    BY <1>3 DEF ServerTyped
  <2> QED
    BY <2>1 DEF ServerTyped
<1>5. r \in Requests
  BY <1>3, <1>4 DEF Requests
<1>6. Fit(r, c)
  <2>1. r.late = q[i].late /\ r.thread = q[i].thread /\ r.asOf = thread[r.thread].asOf
    OBVIOUS
  <2> HIDE DEF r
  <2>2. r.asOf <= thread[r.thread].asOf
    BY <1>4, <2>1
  <2> QED
    BY <1>2, <1>5, <2>1, <2>2 DEF Fit
<1> HIDE DEF r
<1>7. b \in Seq(Requests) /\ Len(b) = Len(q) /\ \A k \in 1..Len(q) : b[k] = IF k = i THEN r ELSE q[k]
  BY <1>1, <1>5
<1> HIDE DEF b
<1>8. \A k \in 1..Len(b) : Fit(b[k], c)
  BY <1>1, <1>6, <1>7
<1> QED
  BY <1>7, <1>8 DEF AllFit, b, r

(* What may happen to what a tab has open. *)
OpenStep(t) ==
  \/ Deselect(t)
  \/ selected[t] # NoThread /\ \E then \in BOOLEAN : Refresh(t, then)
  \/ \E c \in scene.threads : Select(t, c)
  \/ \E i \in DOMAIN gets[t] : ReadThread(t, i) \/ ShowThread(t, i) \/ GetFails(t, i)

(* Nothing else touches what a tab has open. *)
LEMMA OpenSteps ==
  ASSUME ServerTyped, WriterTyped, Handlers, [Next]_vars
  PROVE  \/ UNCHANGED <<open, astray>>
         \/ \E t \in Tabs : OpenStep(t) /\ UNCHANGED server
<1>1. ASSUME NEW w \in Writers, \/ \E o \in scene.ops : Change(w, o) \/ ReadNothing(w, o)
                                \/ Count(w) \/ CountFails(w) \/ Publish(w) \/ CountAnswer(w) \/ Reply(w)
      PROVE  UNCHANGED <<open, astray>>
  BY <1>1 DEF Change, ReadNothing, Count, CountFails, Publish, CountAnswer, Reply, history
<1>2. ASSUME NEW w \in Writers, Deleted(w)
      PROVE  UNCHANGED <<open, astray>> \/ \E t \in Tabs : OpenStep(t) /\ UNCHANGED server
  <2>1. my[w].by \in Tabs /\ UNCHANGED server
    BY <1>2 DEF Deleted, Handlers, Handling
  <2>2. TRUE \in BOOLEAN
    OBVIOUS
  <2>3. OpenStep(my[w].by) \/ UNCHANGED <<open, astray>>
    BY <1>2, <2>2 DEF Deleted, OpenStep
  <2> QED
    BY <2>1, <2>3
<1>3. ASSUME NEW t \in Tabs, Handle(t) PROVE UNCHANGED <<open, astray>> \/ (OpenStep(t) /\ UNCHANGED server)
  <2>1. FALSE \in BOOLEAN
    OBVIOUS
  <2>2. Follow(t, Head(queue[t])) /\ UNCHANGED server
    BY <1>3 DEF Handle, Pop
  <2> QED
    BY <2>1, <2>2 DEF Follow, OpenStep
<1>4. ASSUME NEW t \in Tabs, \/ \E c \in scene.threads : Select(t, c)
                             \/ \E i \in DOMAIN gets[t] : ReadThread(t, i) \/ ShowThread(t, i) \/ GetFails(t, i)
      PROVE  OpenStep(t) /\ UNCHANGED server
  BY <1>4 DEF OpenStep, Select, ReadThread, ShowThread, GetFails
<1>5. ASSUME NEW t \in Tabs, \/ Connect(t) \/ Hello(t) \/ Close(t)
                             \/ \E s \in Slots : ReadList(t, s) \/ ReadCount(t, s) \/ Show(t, s) \/ FetchFails(t, s)
      PROVE  UNCHANGED <<open, astray>>
  BY <1>5 DEF Connect, Hello, Close, ReadList, ReadCount, Show, FetchFails, history
<1>6. ASSUME UNCHANGED vars PROVE UNCHANGED <<open, astray>>
  BY <1>6 DEF vars, history
<1>7. scene \in Scenes
  BY DEF ServerTyped
<1> QED
  BY <1>1, <1>2, <1>3, <1>4, <1>5, <1>6, <1>7, Steps

(* Each such step keeps the requests of the tab fitting, and leaves the other  *)
(* tabs as they are.                                                         *)
Others(t) == \A u \in Tabs \ {t} : /\ selected'[u] = selected[u] /\ shown'[u] = shown[u] /\ gets'[u] = gets[u]
                                   /\ opens'[u] = opens[u] /\ astray'[u] = astray[u]
Functions == /\ selected' = [u \in Tabs |-> selected'[u]] /\ shown' = [u \in Tabs |-> shown'[u]]
             /\ gets' = [u \in Tabs |-> gets'[u]] /\ opens' = [u \in Tabs |-> opens'[u]]
             /\ astray' = [u \in Tabs |-> astray'[u]]
InOrder(t) == /\ selected'[t] \in {NoThread} \cup scene.threads
              /\ shown'[t] \in [thread : Topics, asOf : 0..version]
              /\ opens'[t] \in 0..scene.opens /\ astray'[t] \in BOOLEAN
              /\ AllFit(gets'[t], selected'[t]) /\ Len(gets'[t]) <= scene.gets
              /\ shown'[t].thread # NoThread => shown'[t].asOf <= thread[shown'[t].thread].asOf
              /\ ~astray'[t] /\ selected'[t] = NoThread => shown'[t] = NoView

(* Such a step keeps the tab in order, and the others as they are. *)
LEMMA OpenStepFits ==
  ASSUME ServerTyped, OpenTyped, HistoryTyped, RequestsAreForTheSelection, NothingIsOpen,
         NEW t \in Tabs, OpenStep(t)
  PROVE  Others(t) /\ Functions /\ InOrder(t)
<1> DEFINE q == gets[t]
<1>1. /\ selected = [u \in Tabs |-> selected[u]] /\ shown = [u \in Tabs |-> shown[u]]
      /\ gets = [u \in Tabs |-> gets[u]] /\ opens = [u \in Tabs |-> opens[u]] /\ astray = [u \in Tabs |-> astray[u]]
  BY DEF OpenTyped, HistoryTyped
<1>2. /\ selected[t] \in {NoThread} \cup scene.threads
      /\ shown[t] \in [thread : Topics, asOf : 0..version]
      /\ opens[t] \in 0..scene.opens /\ astray[t] \in BOOLEAN
      /\ q \in Seq(Requests) /\ Len(q) <= scene.gets
      /\ version \in Nat /\ scene \in Scenes
  BY DEF OpenTyped, HistoryTyped, ServerTyped
<1>3. /\ scene.opens \in Nat /\ scene.gets \in Nat /\ scene.threads \subseteq Threads /\ NoThread \notin Threads
      /\ Len(q) \in Nat /\ DOMAIN q = 1..Len(q)
  BY <1>2, SceneParts
<1>4. /\ shown[t].thread # NoThread => shown[t].asOf <= thread[shown[t].thread].asOf
      /\ ~astray[t] /\ selected[t] = NoThread => shown[t] = NoView
  BY DEF RequestsAreForTheSelection, NothingIsOpen
<1>5. AllFit(q, selected[t])
  <2>1. \A i \in 1..Len(q) : Fit(q[i], selected[t])
    BY <1>2, <1>3 DEF RequestsAreForTheSelection, Fit
  <2> QED
    BY <1>2, <2>1 DEF AllFit
<1> HIDE DEF q
<1>6. ASSUME Deselect(t) PROVE Others(t) /\ Functions /\ InOrder(t)
  <2>1. /\ selected'[t] = NoThread /\ shown'[t] = NoView /\ gets'[t] = Belated(q) /\ astray'[t] = FALSE
        /\ \A u \in Tabs \ {t} : /\ selected'[u] = selected[u] /\ shown'[u] = shown[u]
                                 /\ gets'[u] = gets[u] /\ astray'[u] = astray[u]
        /\ selected' = [u \in Tabs |-> selected'[u]] /\ shown' = [u \in Tabs |-> shown'[u]]
        /\ gets' = [u \in Tabs |-> gets'[u]] /\ astray' = [u \in Tabs |-> astray'[u]]
        /\ opens' = opens
    BY <1>6, DeselectMoves DEF q
  <2>2. Others(t) /\ Functions
    BY <1>1, <2>1, Zenon DEF Others, Functions
  <2>3. AllFit(gets'[t], selected'[t]) /\ Len(gets'[t]) = Len(q)
    BY <1>5, <2>1, BelatedFit
  <2>4. NoView \in [thread : Topics, asOf : 0..version] /\ NoView.thread = NoThread
    BY <1>2 DEF NoView, Topics
  <2>5. FALSE \in BOOLEAN
    OBVIOUS
  <2> QED
    BY <1>2, <2>1, <2>2, <2>3, <2>4, <2>5 DEF InOrder
<1>7. ASSUME selected[t] # NoThread, NEW then \in BOOLEAN, Refresh(t, then) PROVE Others(t) /\ Functions /\ InOrder(t)
  <2> DEFINE r == Request(selected[t], then)
  <2>1. /\ Len(q) < scene.gets /\ gets'[t] = Append(q, r)
        /\ \A u \in Tabs \ {t} : gets'[u] = gets[u]
        /\ gets' = [u \in Tabs |-> gets'[u]]
        /\ UNCHANGED <<selected, shown, opens, astray>>
    BY <1>7, RefreshMoves DEF q
  <2>2. Others(t) /\ Functions
    BY <1>1, <2>1, Zenon DEF Others, Functions
  <2>3. selected[t] \in Threads
    BY <1>2, <1>3, <1>7
  <2>4. Fit(r, selected[t])
    BY <2>3, RequestTyped DEF Fit
  <2> HIDE DEF r
  <2>5. AllFit(gets'[t], selected[t]) /\ Len(gets'[t]) = Len(q) + 1
    BY <1>5, <2>1, <2>4, AppendedFit
  <2> QED
    BY <1>2, <1>3, <1>4, <2>1, <2>2, <2>5 DEF InOrder
<1>8. ASSUME NEW c \in scene.threads, Select(t, c) PROVE Others(t) /\ Functions /\ InOrder(t)
  <2> DEFINE r == Request(c, FALSE)
             b == Belated(q)
  <2>1. /\ opens[t] < scene.opens /\ Len(q) < scene.gets
        /\ selected'[t] = c /\ gets'[t] = Append(b, r)
        /\ opens'[t] = opens[t] + 1
        /\ \A u \in Tabs \ {t} : selected'[u] = selected[u] /\ gets'[u] = gets[u] /\ opens'[u] = opens[u]
        /\ selected' = [u \in Tabs |-> selected'[u]] /\ gets' = [u \in Tabs |-> gets'[u]]
        /\ opens' = [u \in Tabs |-> opens'[u]]
        /\ UNCHANGED <<shown, astray>>
    BY <1>8, SelectMoves DEF q, history
  <2>2. Others(t) /\ Functions
    BY <1>1, <2>1, Zenon DEF Others, Functions
  <2>3. c \in Threads /\ c # NoThread
    BY <1>3
  <2>4. FALSE \in BOOLEAN
    OBVIOUS
  <2>5. Fit(r, c)
    BY <2>3, <2>4, RequestTyped DEF Fit
  <2>6. AllFit(b, c) /\ Len(b) = Len(q)
    BY <1>5, BelatedFit
  <2> HIDE DEF r, b
  <2>7. AllFit(gets'[t], c) /\ Len(gets'[t]) = Len(q) + 1
    BY <2>1, <2>5, <2>6, AppendedFit
  <2>8. opens'[t] \in 0..scene.opens
    BY <1>2, <1>3, <2>1
  <2>9. Len(gets'[t]) <= scene.gets
    BY <1>3, <2>1, <2>7
  <2> QED
    BY <1>2, <1>4, <2>1, <2>2, <2>3, <2>7, <2>8, <2>9 DEF InOrder
<1>9. ASSUME NEW i \in DOMAIN gets[t], ReadThread(t, i) PROVE Others(t) /\ Functions /\ InOrder(t)
  <2> DEFINE r == [thread |-> q[i].thread, at |-> "read", asOf |-> thread[q[i].thread].asOf,
                   late |-> q[i].late, then |-> q[i].then]
             b == [q EXCEPT ![i] = r]
  <2>1. /\ gets'[t] = RemoveAt(q, i) \/ gets'[t] = b
        /\ \A u \in Tabs \ {t} : gets'[u] = gets[u]
        /\ gets' = [u \in Tabs |-> gets'[u]]
        /\ UNCHANGED <<selected, shown, opens, astray>>
    BY <1>9, ReadThreadMoves DEF q, history
  <2>2. Others(t) /\ Functions
    BY <1>1, <2>1, Zenon DEF Others, Functions
  <2>3. i \in 1..Len(q)
    BY <1>3 DEF q
  <2>4. AllFit(b, selected[t]) /\ Len(b) = Len(q)
    BY <1>5, <2>3, ReadFit
  <2> HIDE DEF r, b
  <2>5. AllFit(RemoveAt(q, i), selected[t]) /\ Len(RemoveAt(q, i)) = Len(q) - 1
    BY <1>5, <2>3, RemovedFit
  <2>6. AllFit(gets'[t], selected[t]) /\ Len(gets'[t]) <= scene.gets
    BY <1>2, <1>3, <2>1, <2>4, <2>5
  <2> QED
    BY <1>2, <1>4, <2>1, <2>2, <2>6 DEF InOrder
<1>10. ASSUME NEW i \in DOMAIN gets[t], ShowThread(t, i) PROVE Others(t) /\ Functions /\ InOrder(t)
  <2> DEFINE f == q[i]
             late == f.late \/ (f.thread = shown[t].thread /\ f.asOf < shown[t].asOf)
             a == IF late THEN TRUE ELSE astray[t] /\ f.asOf < thread[f.thread].asOf
  <2>1. /\ f.at = "read" /\ shown'[t] = [thread |-> f.thread, asOf |-> f.asOf]
        /\ gets'[t] = RemoveAt(q, i) /\ astray'[t] = a
        /\ \A u \in Tabs \ {t} : shown'[u] = shown[u] /\ gets'[u] = gets[u] /\ astray'[u] = astray[u]
        /\ shown' = [u \in Tabs |-> shown'[u]] /\ gets' = [u \in Tabs |-> gets'[u]]
        /\ astray' = [u \in Tabs |-> astray'[u]]
        /\ UNCHANGED <<selected, opens>>
    BY <1>10, ShowThreadMoves DEF q
  <2>2. Others(t) /\ Functions
    BY <1>1, <2>1, Zenon DEF Others, Functions
  <2>3. i \in 1..Len(q)
    BY <1>3 DEF q
  <2>4. f \in Requests /\ Fit(f, selected[t])
    BY <1>2, <1>5, <2>3 DEF AllFit
  <2>5. AllFit(gets'[t], selected[t]) /\ Len(gets'[t]) <= scene.gets
    <3>1. AllFit(RemoveAt(q, i), selected[t]) /\ Len(RemoveAt(q, i)) = Len(q) - 1
      BY <1>5, <2>3, RemovedFit
    <3> QED
      BY <1>2, <1>3, <2>1, <3>1
  <2> HIDE DEF f
  <2>6. f.thread \in Threads /\ f.asOf \in 0..version
    BY <2>4 DEF Requests
  <2>7. shown'[t] \in [thread : Topics, asOf : 0..version] /\ shown'[t].thread = f.thread /\ shown'[t].asOf = f.asOf
    BY <2>1, <2>6 DEF Topics
  <2>8. f.asOf <= thread[f.thread].asOf
    BY <2>1, <2>4 DEF Fit
  <2>9. selected[t] = NoThread => f.late
    BY <1>3, <2>4, <2>6 DEF Fit
  <2>10. astray'[t] \in BOOLEAN /\ (selected[t] = NoThread => astray'[t])
    <3>1. CASE late
      <4>1. astray'[t] = TRUE
        BY <2>1, <3>1, Zenon
      <4> QED
        BY <4>1
    <3>2. CASE ~late
      <4> DEFINE less == f.asOf < thread[f.thread].asOf
      <4>1. astray'[t] = (astray[t] /\ less)
        BY <2>1, <3>2, Zenon
      <4>2. selected[t] # NoThread
        BY <2>9, <3>2
      <4> HIDE DEF less
      <4> QED
        BY <1>2, <4>1, <4>2
    <3> QED
      BY <3>1, <3>2
  <2>11. selected'[t] = selected[t] /\ opens'[t] = opens[t]
    BY <2>1
  <2> HIDE DEF late, a
  <2> QED
    BY <1>2, <2>2, <2>5, <2>7, <2>8, <2>10, <2>11 DEF InOrder
<1>11. ASSUME NEW i \in DOMAIN gets[t], GetFails(t, i) PROVE Others(t) /\ Functions /\ InOrder(t)
  <2>1. /\ gets'[t] = RemoveAt(q, i) /\ astray'[t] = (astray[t] \/ ~q[i].late)
        /\ \A u \in Tabs \ {t} : gets'[u] = gets[u] /\ astray'[u] = astray[u]
        /\ gets' = [u \in Tabs |-> gets'[u]] /\ astray' = [u \in Tabs |-> astray'[u]]
        /\ UNCHANGED <<selected, shown, opens>>
    BY <1>11, GetFailsMoves DEF q, inbox
  <2>2. Others(t) /\ Functions
    BY <1>1, <2>1, Zenon DEF Others, Functions
  <2>3. i \in 1..Len(q)
    BY <1>3 DEF q
  <2>4. AllFit(gets'[t], selected[t]) /\ Len(gets'[t]) <= scene.gets
    <3>1. AllFit(RemoveAt(q, i), selected[t]) /\ Len(RemoveAt(q, i)) = Len(q) - 1
      BY <1>5, <2>3, RemovedFit
    <3> QED
      BY <1>2, <1>3, <2>1, <3>1
  <2>5. astray'[t] \in BOOLEAN /\ (~astray'[t] => ~astray[t])
    BY <1>2, <2>1, Zenon
  <2> QED
    BY <1>2, <1>4, <2>1, <2>2, <2>4, <2>5 DEF InOrder
<1> QED
  BY <1>6, <1>7, <1>8, <1>9, <1>10, <1>11 DEF OpenStep

(* So every step leaves every tab in order. *)
LEMMA AllInOrder ==
  ASSUME ServerTyped, WriterTyped, Handlers, OpenTyped, HistoryTyped, RequestsAreForTheSelection, NothingIsOpen,
         [Next]_vars
  PROVE  Functions /\ \A t \in Tabs : InOrder(t)
<1>1. ASSUME NEW t \in Tabs, Others(t) /\ Functions, NEW u \in Tabs, u # t \/ UNCHANGED <<open, astray>>
      PROVE  InOrder(u)
  <2>1. /\ selected'[u] = selected[u] /\ shown'[u] = shown[u] /\ gets'[u] = gets[u]
        /\ opens'[u] = opens[u] /\ astray'[u] = astray[u]
    BY <1>1 DEF Others, open
  <2>2. AllFit(gets[u], selected[u]) /\ Len(gets[u]) <= scene.gets
    <3>1. gets[u] \in Seq(Requests) /\ Len(gets[u]) <= scene.gets
      BY DEF OpenTyped
    <3>2. DOMAIN gets[u] = 1..Len(gets[u])
      BY <3>1
    <3>3. \A i \in 1..Len(gets[u]) : Fit(gets[u][i], selected[u])
      BY <3>1, <3>2 DEF RequestsAreForTheSelection, Fit
    <3> QED
      BY <3>1, <3>3 DEF AllFit
  <2>3. /\ selected[u] \in {NoThread} \cup scene.threads
        /\ shown[u] \in [thread : Topics, asOf : 0..version]
        /\ opens[u] \in 0..scene.opens /\ astray[u] \in BOOLEAN
        /\ shown[u].thread # NoThread => shown[u].asOf <= thread[shown[u].thread].asOf
        /\ ~astray[u] /\ selected[u] = NoThread => shown[u] = NoView
    BY DEF OpenTyped, HistoryTyped, RequestsAreForTheSelection, NothingIsOpen
  <2> QED
    BY <2>1, <2>2, <2>3 DEF InOrder
<1>2. CASE UNCHANGED <<open, astray>>
  <2>1. /\ selected = [u \in Tabs |-> selected[u]] /\ shown = [u \in Tabs |-> shown[u]]
        /\ gets = [u \in Tabs |-> gets[u]] /\ opens = [u \in Tabs |-> opens[u]] /\ astray = [u \in Tabs |-> astray[u]]
    BY DEF OpenTyped, HistoryTyped
  <2>2. Functions /\ \A t \in Tabs : Others(t)
    BY <1>2, <2>1, Zenon DEF Functions, Others, open
  <2> QED
    BY <1>1, <1>2, <2>2
<1>3. ASSUME NEW t \in Tabs, OpenStep(t) PROVE Functions /\ \A u \in Tabs : InOrder(u)
  <2>1. Others(t) /\ Functions /\ InOrder(t)
    BY <1>3, OpenStepFits
  <2> QED
    BY <1>1, <2>1
<1> QED
  BY <1>2, <1>3, OpenSteps

(* So requests stay what they are for, and what a tab shows what it has open.  *)
LEMMA OpenNext ==
  ASSUME ServerTyped, WriterTyped, Handlers, OpenTyped, HistoryTyped, RequestsAreForTheSelection, NothingIsOpen,
         [Next]_vars
  PROVE  OpenTyped' /\ astray' \in [Tabs -> BOOLEAN] /\ RequestsAreForTheSelection' /\ NothingIsOpen'
<1>1. Functions /\ \A t \in Tabs : InOrder(t)
  BY AllInOrder
<1>2. /\ scene' = scene /\ version <= version' /\ version \in Nat /\ version' \in Nat
      /\ \A c \in Threads : thread[c].asOf <= thread'[c].asOf
      /\ \A c \in Threads : thread[c].asOf \in Nat /\ thread'[c].asOf \in Nat
  BY ServerTypedNext DEF ServerTyped
<1>3. 0..version \subseteq 0..version'
  BY <1>2
<1>4. Requests \subseteq Requests'
  BY <1>3 DEF Requests
<1>5. \A t \in Tabs : /\ selected'[t] \in {NoThread} \cup scene'.threads
                      /\ shown'[t] \in [thread : Topics, asOf : 0..version']
                      /\ opens'[t] \in 0..scene'.opens /\ astray'[t] \in BOOLEAN
                      /\ gets'[t] \in Seq(Requests') /\ Len(gets'[t]) <= scene'.gets
  <2> TAKE t \in Tabs
  <2>1. InOrder(t)
    BY <1>1
  <2>2. gets'[t] \in Seq(Requests)
    BY <2>1 DEF InOrder, AllFit
  <2>3. gets'[t] \in Seq(Requests')
    BY <1>4, <2>2
  <2>4. shown'[t] \in [thread : Topics, asOf : 0..version']
    BY <1>3, <2>1 DEF InOrder
  <2> QED
    BY <1>2, <2>1, <2>3, <2>4 DEF InOrder
<1>6. OpenTyped' /\ astray' \in [Tabs -> BOOLEAN]
  BY <1>1, <1>5 DEF OpenTyped, Functions
<1>7. ASSUME NEW t \in Tabs, NEW i \in DOMAIN gets'[t]
      PROVE  /\ ~gets'[t][i].late => gets'[t][i].thread = selected'[t]
             /\ gets'[t][i].at = "read" => gets'[t][i].asOf <= thread'[gets'[t][i].thread].asOf
  <2>1. AllFit(gets'[t], selected'[t])
    BY <1>1 DEF InOrder
  <2>2. gets'[t] \in Seq(Requests)
    BY <2>1 DEF AllFit
  <2>3. i \in 1..Len(gets'[t])
    BY <1>7, <2>2
  <2> DEFINE r == gets'[t][i]
  <2>4. Fit(r, selected'[t])
    BY <2>1, <2>3 DEF AllFit
  <2> HIDE DEF r
  <2>5. r.thread \in Threads /\ r.asOf \in Nat
    BY <1>2, <2>4 DEF Fit, Requests
  <2>6. /\ ~r.late => r.thread = selected'[t]
        /\ r.at = "read" => r.asOf <= thread'[r.thread].asOf
    BY <1>2, <2>4, <2>5 DEF Fit
  <2> QED
    BY <2>6 DEF r
<1>8. ASSUME NEW t \in Tabs, shown'[t].thread # NoThread PROVE shown'[t].asOf <= thread'[shown'[t].thread].asOf
  <2>1. /\ shown'[t] \in [thread : Topics, asOf : 0..version]
        /\ shown'[t].asOf <= thread[shown'[t].thread].asOf
    BY <1>1, <1>8 DEF InOrder
  <2>2. shown'[t].thread \in Threads /\ shown'[t].asOf \in Nat
    BY <1>2, <1>8, <2>1 DEF Topics
  <2> QED
    BY <1>2, <2>1, <2>2
<1>9. RequestsAreForTheSelection'
  BY <1>7, <1>8 DEF RequestsAreForTheSelection
<1>10. NothingIsOpen'
  BY <1>1 DEF InOrder, NothingIsOpen
<1> QED
  BY <1>6, <1>9, <1>10

-----------------------------------------------------------------------------
(* The open conversation is shown, or its change is on its way *)

(* A request for the open conversation that was just made will show it.        *)
LEMMA NewRequest ==
  ASSUME NEW t \in Tabs, NEW q \in Seq(Requests), NEW r \in Requests, r.at = "asked", r.late = FALSE,
         gets'[t] = Append(q, r)
  PROVE  Opened(t)' /\ LastInThread(t)'
<1> DEFINE b == Append(q, r)
           n == Len(q) + 1
<1>1. b \in Seq(Requests) /\ n \in 1..Len(b) /\ b[n] = r
  BY Appended
<1> HIDE DEF b
<1>2. n \in DOMAIN b /\ gets'[t] = b
  BY <1>1 DEF b
<1> HIDE DEF n
<1>3. n \in DOMAIN gets'[t] /\ ~gets'[t][n].late /\ gets'[t][n].at = "asked"
  BY <1>1, <1>2
<1> QED
  BY <1>3 DEF Opened, LastInThread, Current

(* The requests that are not answered stay.                                    *)
LEMMA OtherRequests ==
  ASSUME OpenTyped, NEW t \in Tabs, NEW i \in DOMAIN gets[t], gets'[t] = RemoveAt(gets[t], i),
         NEW k \in DOMAIN gets[t], k # i
  PROVE  \E j \in DOMAIN gets'[t] : gets'[t][j] = gets[t][k]
<1> DEFINE q == gets[t]
           b == RemoveAt(q, i)
<1>1. q \in Seq(Requests) /\ DOMAIN q = 1..Len(q)
  BY DEF OpenTyped
<1>2. b \in Seq(Requests) /\ \E j \in 1..Len(b) : b[j] = q[k]
  <2>1. i \in 1..Len(q) /\ k \in 1..Len(q)
    BY <1>1
  <2> HIDE DEF q
  <2> QED
    BY <1>1, <2>1, Removed
<1> HIDE DEF b
<1>3. DOMAIN b = 1..Len(b) /\ gets'[t] = b
  BY <1>2 DEF b
<1> QED
  BY <1>2, <1>3

(* An answer for what is selected by now shows it, or finds it gone.           *)
LEMMA AnswerReads ==
  ASSUME ServerTyped, OpenTyped, RequestsAreForTheSelection,
         NEW t \in Tabs, NEW i \in DOMAIN gets[t], ReadThread(t, i), Opened(t), LastInThread(t)
  PROVE  Opened(t)' /\ LastInThread(t)'
<1> DEFINE q == gets[t]
           c == q[i].thread
           r == [thread |-> c, at |-> "read", asOf |-> thread[c].asOf, late |-> q[i].late, then |-> q[i].then]
<1>1. /\ q[i].at = "asked"
      /\ \/ thread[c].gone /\ gets'[t] = RemoveAt(q, i)
         \/ gets'[t] = [q EXCEPT ![i] = r]
      /\ UNCHANGED <<server, writer, stream, selected, shown, history>>
  BY ReadThreadMoves
<1>2. /\ thread' = thread /\ selected' = selected /\ shown' = shown
      /\ \A d, v : Told(t, d, v) => Told(t, d, v)'
  BY <1>1 DEF server, writer, stream, history, Told, Held, Queued
<1>3. ~q[i].late => c = selected[t]
  BY DEF RequestsAreForTheSelection
<1>4. CASE thread[selected[t]].gone
  BY <1>2, <1>4 DEF Opened, LastInThread
<1>5. ASSUME \A k \in DOMAIN q : ~q[k].late /\ Current(q[k], thread[selected[t]].asOf) =>
               \E j \in DOMAIN gets'[t] : /\ ~gets'[t][j].late
                                          /\ Current(gets'[t][j], thread[selected[t]].asOf),
             \A k \in DOMAIN q : ~q[k].late => \E j \in DOMAIN gets'[t] : ~gets'[t][j].late
      PROVE  Opened(t)' /\ LastInThread(t)'
  <2>1. Opened(t)'
    BY <1>2, <1>5 DEF Opened
  <2>2. LastInThread(t)'
    BY <1>2, <1>5 DEF LastInThread, Current
  <2> QED
    BY <2>1, <2>2
<1>6. CASE thread[c].gone /\ gets'[t] = RemoveAt(q, i) /\ ~thread[selected[t]].gone
  <2>1. q[i].late
    BY <1>3, <1>6
  <2>2. ASSUME NEW k \in DOMAIN q, ~q[k].late PROVE \E j \in DOMAIN gets'[t] : gets'[t][j] = q[k]
    <3>1. k # i
      BY <2>1, <2>2
    <3> QED
      BY <1>6, <3>1, OtherRequests
  <2> QED
    BY <1>5, <2>2
<1>7. CASE gets'[t] = [q EXCEPT ![i] = r]
  <2>1. DOMAIN gets'[t] = DOMAIN q /\ gets'[t][i] = r /\ \A k \in DOMAIN q : k # i => gets'[t][k] = q[k]
    BY <1>7
  <2>2. r.late = q[i].late /\ r.asOf = thread[c].asOf
    OBVIOUS
  <2> HIDE DEF r
  <2>3. ASSUME NEW k \in DOMAIN q, ~q[k].late, Current(q[k], thread[selected[t]].asOf)
        PROVE  ~gets'[t][k].late /\ Current(gets'[t][k], thread[selected[t]].asOf)
    BY <1>3, <2>1, <2>2, <2>3 DEF Current
  <2>4. ASSUME NEW k \in DOMAIN q, ~q[k].late PROVE ~gets'[t][k].late
    BY <2>1, <2>2, <2>4
  <2> QED
    BY <1>5, <2>1, <2>3, <2>4
<1> QED
  BY <1>1, <1>4, <1>6, <1>7

(* An answer that is shown and was not late shows the last change, or that is *)
(* still on its way. *)
LEMMA AnswerShows ==
  ASSUME ServerTyped, OpenTyped, HistoryTyped, RequestsAreForTheSelection,
         NEW t \in Tabs, NEW i \in DOMAIN gets[t], ShowThread(t, i), ~astray'[t],
         ~astray[t] => Opened(t) /\ LastInThread(t)
  PROVE  Opened(t)' /\ LastInThread(t)'
<1> DEFINE q == gets[t]
           f == q[i]
           c == selected[t]
           v == thread[c].asOf
           late == f.late \/ (f.thread = shown[t].thread /\ f.asOf < shown[t].asOf)
           less == f.asOf < thread[f.thread].asOf
<1>1. /\ f.at = "read" /\ shown'[t] = [thread |-> f.thread, asOf |-> f.asOf]
      /\ gets'[t] = RemoveAt(q, i)
      /\ astray'[t] = IF late THEN TRUE ELSE astray[t] /\ less
      /\ UNCHANGED <<server, writer, stream, selected, unsaid, lost>>
  BY ShowThreadMoves
<1>2. /\ thread' = thread /\ selected' = selected
      /\ \A d, n : Told(t, d, n) => Told(t, d, n)'
  BY <1>1 DEF server, writer, stream, Told, Held, Queued
<1>3. q \in Seq(Requests) /\ f \in Requests
  BY DEF OpenTyped
<1>4. /\ ~f.late => f.thread = c
      /\ f.asOf <= thread[f.thread].asOf
      /\ f.thread \in Threads /\ f.asOf \in Nat /\ thread[f.thread].asOf \in Nat
  <2>1. f.thread \in Threads /\ f.asOf \in Nat
    BY <1>3 DEF Requests
  <2>2. thread[f.thread].asOf \in Nat
    BY <2>1 DEF ServerTyped
  <2> QED
    BY <1>1, <2>1, <2>2 DEF RequestsAreForTheSelection
<1>5. shown'[t].thread = f.thread /\ shown'[t].asOf = f.asOf
  BY <1>1
<1> HIDE DEF f, late, less
<1>6. ~late /\ (~astray[t] \/ ~less)
  BY <1>1, Zenon
<1>7. ~f.late /\ f.thread = c /\ ~(c = shown[t].thread /\ f.asOf < shown[t].asOf)
  BY <1>4, <1>6 DEF late
<1>8. Opened(t)'
  BY <1>2, <1>5, <1>7 DEF Opened
<1>9. CASE ~less
  <2>1. f.asOf = v
    BY <1>4, <1>7, <1>9 DEF less
  <2> QED
    BY <1>2, <1>5, <1>7, <1>8, <2>1 DEF LastInThread
<1>10. CASE less /\ ~astray[t]
  <2>1. f.asOf # v /\ f.asOf < v
    BY <1>4, <1>7, <1>10 DEF less
  <2>2. LastInThread(t)
    BY <1>10
  <2>3. ~(shown[t].thread = c /\ shown[t].asOf = v)
    BY <1>7, <2>1
  <2>4. CASE thread[c].gone \/ Told(t, c, v)
    BY <1>2, <1>8, <2>4 DEF LastInThread
  <2>5. ASSUME NEW k \in DOMAIN q, ~q[k].late, Current(q[k], v) PROVE LastInThread(t)'
    <3>1. k # i
      BY <1>1, <2>1, <2>5 DEF Current, f
    <3>2. PICK j \in DOMAIN gets'[t] : gets'[t][j] = q[k]
      BY <1>1, <3>1, OtherRequests
    <3> QED
      BY <1>2, <2>5, <3>2 DEF LastInThread, Current
  <2> QED
    BY <1>8, <2>2, <2>3, <2>4, <2>5 DEF LastInThread
<1> QED
  BY <1>6, <1>9, <1>10

(* One that fails without being an excuse was belated. *)
LEMMA AnswerFails ==
  ASSUME ServerTyped, OpenTyped, HistoryTyped, NEW t \in Tabs, NEW i \in DOMAIN gets[t], GetFails(t, i), ~astray'[t],
         ~astray[t] => Opened(t) /\ LastInThread(t)
  PROVE  Opened(t)' /\ LastInThread(t)'
<1> DEFINE q == gets[t]
           late == q[i].late
<1>1. /\ gets'[t] = RemoveAt(q, i)
      /\ astray'[t] = (astray[t] \/ ~late)
      /\ UNCHANGED <<server, writer, stream, selected, shown, unsaid, lost>>
  BY GetFailsMoves
<1>2. /\ thread' = thread /\ selected' = selected /\ shown' = shown
      /\ \A d, n : Told(t, d, n) => Told(t, d, n)'
  BY <1>1 DEF server, writer, stream, Told, Held, Queued
<1> HIDE DEF late
<1>3. ~astray[t] /\ late
  BY <1>1, Zenon
<1>4. Opened(t) /\ LastInThread(t)
  BY <1>3
<1>5. ASSUME NEW k \in DOMAIN q, ~q[k].late PROVE \E j \in DOMAIN gets'[t] : gets'[t][j] = q[k]
  <2>1. k # i
    BY <1>3, <1>5 DEF late
  <2> QED
    BY <1>1, <2>1, OtherRequests
<1>6. Opened(t)'
  BY <1>2, <1>4, <1>5 DEF Opened
<1>7. LastInThread(t)'
  BY <1>2, <1>4, <1>5 DEF LastInThread, Current
<1> QED
  BY <1>6, <1>7

(* Whoever shows a conversation shows its last change, or it is on its way.    *)
Watched(t) == ~astray[t] /\ selected[t] # NoThread => Opened(t) /\ LastInThread(t)

(* A change takes nothing back of what was changed before.                     *)
LEMMA ChangeTells ==
  ASSUME ServerTyped, WriterTyped, NEW w \in Writers, NEW o \in scene.ops, Change(w, o),
         NEW t \in Tabs, NEW c, NEW v, Told(t, c, v)
  PROVE  Told(t, c, v)'
<1>0. at[w] = "idle"
  BY DEF Change
<1>1. at[w] = "idle" /\ \A u \in Writers \ {w} : at'[u] = at[u] /\ my'[u] = my[u]
  BY <1>0, ChangeMoves
<1>2. queue' = queue /\ lost' = lost /\ unsaid' = unsaid
  BY DEF Change, stream, history
<1>3. Held(c, v) => Held(c, v)'
  <2> SUFFICES ASSUME NEW h \in Writers, at[h] \in Pending, my[h].about = c, my[h].made = v
               PROVE  Held(c, v)'
    BY DEF Held
  <2>1. h # w
    BY <1>1 DEF Pending
  <2> QED
    BY <1>1, <2>1 DEF Held, Pending
<1> QED
  BY <1>2, <1>3 DEF Told, Queued

(* A change leaves the open conversation as it was, or is about to be          *)
(* published, or takes it away.                                              *)
LEMMA ThreadChange ==
  ASSUME ServerTyped, WriterTyped, OpenTyped, NEW w \in Writers, NEW o \in scene.ops, Change(w, o), NEW t \in Tabs, Watched(t)
  PROVE  Watched(t)'
<1> DEFINE c == selected[t]
<1>1. UNCHANGED <<open, astray>> /\ UNCHANGED stream
  BY DEF Change, history
<1>2. selected' = selected /\ shown' = shown /\ gets' = gets /\ astray' = astray
  BY <1>1 DEF open
<1> SUFFICES ASSUME ~astray[t], c # NoThread PROVE Opened(t)' /\ LastInThread(t)'
  BY <1>2 DEF Watched
<1>3. Opened(t) /\ LastInThread(t)
  BY DEF Watched
<1>4. c \in Threads /\ c \in scene.threads /\ c \in Topics /\ scene \in Scenes /\ version \in Nat
  BY SceneParts DEF OpenTyped, ServerTyped, Topics
<1>5. /\ at'[w] = "count" /\ at'[w] \in Pending
      /\ my'[w].made = (IF Changes(o) THEN version + 1 ELSE 0)
  BY ChangeMoves DEF Pending
<1>6. PICK b \in Tabs \cup {Elsewhere}, d \in {NoThread} \cup scene.threads, e \in BOOLEAN :
           /\ my' = [my EXCEPT ![w] = [by |-> b, about |-> d, ended |-> e, count |-> Nothing,
                                       made |-> IF Changes(o) THEN version + 1 ELSE 0]]
           /\ thread' = [x \in Threads |->
                IF o = "clear" /\ x \in scene.threads THEN [asOf |-> version + 1, gone |-> TRUE]
                ELSE IF x = d /\ o \in {"arrive", "delete", "drop"} THEN [asOf |-> version + 1, gone |-> e]
                ELSE thread[x]]
           /\ d # NoThread => ~thread[d].gone
  BY ChangeLeaves
<1>7. my'[w].about = d
  BY <1>6 DEF WriterTyped
<1>8. CASE o = "clear"
  <2>1. thread'[c].gone
    BY <1>4, <1>6, <1>8
  <2> QED
    BY <1>2, <2>1 DEF Opened, LastInThread
<1>9. CASE o # "clear" /\ c = d /\ o \in {"arrive", "delete", "drop"}
  <2>1. thread'[c] = [asOf |-> version + 1, gone |-> e]
    BY <1>4, <1>6, <1>9
  <2>2. thread'[c].asOf = version + 1 /\ my'[w].made = version + 1 /\ my'[w].about = c
    BY <1>5, <1>7, <1>9, <2>1 DEF Changes
  <2>3. /\ at'[w] \in Pending /\ my'[w].about = selected'[t]
        /\ my'[w].made = thread'[selected'[t]].asOf
    BY <1>2, <1>5, <2>2
  <2>4. LastInThread(t)'
    BY <2>3 DEF LastInThread, Told, Held, Pending
  <2>5. CASE e
    BY <1>2, <2>1, <2>4, <2>5 DEF Opened
  <2>6. CASE ~e
    <3>1. ~thread[c].gone
      BY <1>6, <1>9
    <3> QED
      BY <1>2, <1>3, <2>4, <3>1 DEF Opened
  <2> QED
    BY <2>5, <2>6
<1>10. CASE o # "clear" /\ ~(c = d /\ o \in {"arrive", "delete", "drop"})
  <2>1. thread'[c] = thread[c]
    BY <1>4, <1>6, <1>10
  <2>2. Opened(t)'
    BY <1>2, <1>3, <2>1 DEF Opened
  <2>3. ASSUME Told(t, c, thread[c].asOf) PROVE LastInThread(t)'
    <3>1. \A x, v : Told(t, x, v) => Told(t, x, v)'
      BY ChangeTells
    <3>2. Told(t, c, thread[c].asOf)'
      BY <1>2, <2>1, <2>3, <3>1
    <3> QED
      BY <1>2, <2>1, <3>2 DEF LastInThread
  <2>4. LastInThread(t)'
    BY <1>2, <1>3, <2>1, <2>3 DEF LastInThread, Current
  <2> QED
    BY <2>2, <2>4
<1> QED
  BY <1>8, <1>9, <1>10

(* An event about the open conversation has the tab ask for it again, unless   *)
(* it takes it away.                                                         *)
LEMMA TellsTheTab ==
  ASSUME NEW t \in Tabs, Handle(t), selected[t] # NoThread, Head(queue[t]).about = selected[t]
  PROVE  Deselect(t) \/ Refresh(t, FALSE)
BY DEF Handle, Follow

(* What the tab did not touch is as it was, or on its way.                     *)
LEMMA ThreadUntouched ==
  ASSUME ServerTyped, WriterTyped, Handlers, StreamTyped, InboxTyped, OpenTyped, HistoryTyped,
         [Next]_vars, NEW t \in Tabs, Watched(t), thread' = thread,
         selected'[t] = selected[t], shown'[t] = shown[t], gets'[t] = gets[t], astray'[t] = astray[t],
         ~(Handle(t) /\ selected[t] # NoThread /\ Head(queue[t]).about = selected[t])
  PROVE  Watched(t)'
<1> SUFFICES ASSUME ~astray[t], selected[t] # NoThread PROVE Opened(t)' /\ LastInThread(t)'
  BY DEF Watched
<1>1. Opened(t) /\ LastInThread(t)
  BY DEF Watched
<1>2. selected[t] \in Topics /\ selected[t] \in Threads
  BY SceneParts DEF OpenTyped, ServerTyped, Topics
<1>3. thread[selected[t]].asOf \in Nat
  BY <1>2 DEF ServerTyped
<1>4. \A c \in Topics, v \in Nat :
        Told(t, c, v) => Told(t, c, v)' \/ (Handle(t) /\ Head(queue[t]).about = c)
  BY ToldNext
<1>5. Told(t, selected[t], thread[selected[t]].asOf) => Told(t, selected[t], thread[selected[t]].asOf)'
  BY <1>2, <1>3, <1>4
<1>6. Opened(t)'
  BY <1>1 DEF Opened
<1>7. LastInThread(t)'
  BY <1>1, <1>5 DEF LastInThread, Current
<1> QED
  BY <1>6, <1>7

(* Every step leaves a conversation that is shown watched.                     *)
LEMMA ThreadNext ==
  ASSUME ServerTyped, WriterTyped, Handlers, StreamTyped, InboxTyped, OpenTyped, HistoryTyped,
         RequestsAreForTheSelection, NothingIsOpen, ChangesReachTheThread, [Next]_vars
  PROVE  ChangesReachTheThread'
<1> SUFFICES ASSUME NEW t \in Tabs PROVE Watched(t)'
  BY DEF ChangesReachTheThread, Watched
<1>1. Watched(t) /\ scene \in Scenes /\ gets[t] \in Seq(Requests)
  BY DEF ChangesReachTheThread, Watched, ServerTyped, OpenTyped
<1>2. ASSUME Deselect(t) PROVE Watched(t)'
  BY <1>2, DeselectMoves DEF Watched
<1>3. ASSUME selected[t] # NoThread, NEW then \in BOOLEAN, Refresh(t, then) PROVE Watched(t)'
  <2>1. selected[t] \in Threads
    BY <1>1, <1>3, SceneParts DEF OpenTyped
  <2>2. /\ Request(selected[t], then) \in Requests
        /\ Request(selected[t], then).at = "asked" /\ Request(selected[t], then).late = FALSE
    BY <2>1, RequestTyped
  <2>3. gets'[t] = Append(gets[t], Request(selected[t], then))
    BY <1>3, RefreshMoves
  <2>4. Opened(t)' /\ LastInThread(t)'
    BY <1>1, <2>2, <2>3, NewRequest
  <2> QED
    BY <2>4 DEF Watched
<1>4. ASSUME NEW c \in scene.threads, Select(t, c) PROVE Watched(t)'
  <2>1. c \in Threads
    BY <1>1, SceneParts
  <2>2. FALSE \in BOOLEAN
    OBVIOUS
  <2>3. /\ Request(c, FALSE) \in Requests
        /\ Request(c, FALSE).at = "asked" /\ Request(c, FALSE).late = FALSE
    BY <2>1, <2>2, RequestTyped
  <2>4. Belated(gets[t]) \in Seq(Requests)
    BY <1>1, BelatedRequests
  <2>5. gets'[t] = Append(Belated(gets[t]), Request(c, FALSE))
    BY <1>4, SelectMoves
  <2>6. Opened(t)' /\ LastInThread(t)'
    BY <2>3, <2>4, <2>5, NewRequest
  <2> QED
    BY <2>6 DEF Watched
<1>5. ASSUME NEW i \in DOMAIN gets[t], ReadThread(t, i) PROVE Watched(t)'
  <2>1. selected' = selected /\ astray' = astray
    BY <1>5, ReadThreadMoves DEF history
  <2>2. CASE ~astray[t] /\ selected[t] # NoThread
    <3>1. Opened(t)' /\ LastInThread(t)'
      BY <1>1, <1>5, <2>2, AnswerReads DEF Watched
    <3> QED
      BY <3>1 DEF Watched
  <2>3. CASE ~(~astray[t] /\ selected[t] # NoThread)
    BY <2>1, <2>3 DEF Watched
  <2> QED
    BY <2>2, <2>3
<1>6. ASSUME NEW i \in DOMAIN gets[t], ShowThread(t, i) PROVE Watched(t)'
  <2> SUFFICES ASSUME ~astray'[t], selected'[t] # NoThread PROVE Opened(t)' /\ LastInThread(t)'
    BY DEF Watched
  <2>1. selected' = selected
    BY <1>6, ShowThreadMoves
  <2>2. ~astray[t] => Opened(t) /\ LastInThread(t)
    BY <1>1, <2>1 DEF Watched
  <2> QED
    BY <1>6, <2>2, AnswerShows
<1>7. ASSUME NEW i \in DOMAIN gets[t], GetFails(t, i) PROVE Watched(t)'
  <2> SUFFICES ASSUME ~astray'[t], selected'[t] # NoThread PROVE Opened(t)' /\ LastInThread(t)'
    BY DEF Watched
  <2>1. selected' = selected
    BY <1>7, GetFailsMoves
  <2>2. ~astray[t] => Opened(t) /\ LastInThread(t)
    BY <1>1, <2>1 DEF Watched
  <2> QED
    BY <1>7, <2>2, AnswerFails
<1>8. ASSUME OpenStep(t) PROVE Watched(t)'
  BY <1>2, <1>3, <1>4, <1>5, <1>6, <1>7, <1>8 DEF OpenStep
<1>9. ASSUME thread' = thread, selected'[t] = selected[t], shown'[t] = shown[t], gets'[t] = gets[t],
             astray'[t] = astray[t]
      PROVE  Watched(t)'
  <2>1. CASE Handle(t) /\ selected[t] # NoThread /\ Head(queue[t]).about = selected[t]
    <3>1. Deselect(t) \/ Refresh(t, FALSE)
      BY <2>1, TellsTheTab
    <3>2. FALSE \in BOOLEAN
      OBVIOUS
    <3> QED
      BY <1>2, <1>3, <2>1, <3>1, <3>2
  <2>2. CASE ~(Handle(t) /\ selected[t] # NoThread /\ Head(queue[t]).about = selected[t])
    BY <1>1, <1>9, <2>2, ThreadUntouched
  <2> QED
    BY <2>1, <2>2
<1>10. ASSUME NEW u \in Tabs, OpenStep(u), UNCHANGED server PROVE Watched(t)'
  <2>1. CASE u = t
    BY <1>8, <1>10, <2>1
  <2>2. CASE u # t
    <3>1. Others(u)
      BY <1>10, OpenStepFits
    <3> QED
      BY <1>9, <1>10, <2>2, <3>1 DEF Others, server
  <2> QED
    BY <2>1, <2>2
<1>11. ASSUME UNCHANGED <<open, astray>> PROVE Watched(t)'
  <2>1. selected' = selected /\ shown' = shown /\ gets' = gets /\ astray' = astray
    BY <1>11 DEF open
  <2>2. ASSUME thread' = thread PROVE Watched(t)'
    BY <1>9, <2>1, <2>2
  <2>3. ASSUME NEW w \in Writers, NEW o \in scene.ops, Change(w, o) PROVE Watched(t)'
    BY <1>1, <2>3, ThreadChange
  <2>4. ASSUME NEW w \in Writers, HandlerStep(w) PROVE thread' = thread
    BY <2>4, HandlerStepsLeave, DeletedLeaves DEF server
  <2>5. ASSUME NEW u \in Tabs, TabStep(u) PROVE thread' = thread
    BY <2>5, TabStepsLeave DEF server
  <2>6. ASSUME UNCHANGED vars PROVE thread' = thread
    BY <2>6 DEF vars, server
  <2> QED
    BY <1>1, <2>2, <2>3, <2>4, <2>5, <2>6, Steps DEF HandlerStep, TabStep
<1> QED
  BY <1>10, <1>11, OpenSteps

(* Whether an older answer came last is known of every tab.                    *)
LEMMA OvertakenNext ==
  ASSUME ServerTyped, WriterTyped, Handlers, StreamTyped, InboxTyped, HistoryTyped, [Next]_vars, NEW t \in Tabs
  PROVE  overtaken'[t] \in BOOLEAN
<1>1. overtaken[t] \in BOOLEAN
  BY DEF HistoryTyped
<1>2. ASSUME NEW a, NEW b, overtaken'[t] = (a \/ b) PROVE overtaken'[t] \in BOOLEAN
  BY <1>2, Zenon
<1>3. ASSUME NEW w \in Writers, Reply(w), my[w].by = t PROVE overtaken'[t] \in BOOLEAN
  BY <1>2, <1>3, ReplyMoves, Zenon
<1>4. ASSUME Hello(t) PROVE overtaken'[t] \in BOOLEAN
  BY <1>1, <1>4, HelloMoves DEF history
<1>5. ASSUME Pop(t) PROVE overtaken'[t] \in BOOLEAN
  BY <1>2, <1>5, PopBadge, Zenon
<1>6. ASSUME NEW s \in Slots, Show(t, s) PROVE overtaken'[t] \in BOOLEAN
  <2> DEFINE late == fetch[t][s].list < list[t] \/ fetch[t][s].asOf < badge[t].asOf
             less == fetch[t][s].list < version
  <2>1. overtaken'[t] = IF late THEN TRUE ELSE overtaken[t] /\ less
    BY <1>6, ShowMoves
  <2> HIDE DEF late, less
  <2>2. CASE late
    BY <2>1, <2>2, Zenon
  <2>3. CASE ~late
    <3>1. overtaken'[t] = (overtaken[t] /\ less)
      BY <2>1, <2>3, Zenon
    <3> QED
      BY <1>1, <3>1, Zenon
  <2> QED
    BY <2>2, <2>3
<1> QED
  BY <1>1, <1>3, <1>4, <1>5, <1>6, BadgeSteps DEF BadgeStep

(* The history keeps its types. *)
LEMMA HistoryTypedNext ==
  ASSUME ServerTyped, WriterTyped, Handlers, StreamTyped, InboxTyped, HistoryTyped, [Next]_vars,
         overtaken' = [t \in Tabs |-> overtaken'[t]], astray' \in [Tabs -> BOOLEAN]
  PROVE  HistoryTyped'
<1>1. \A t \in Tabs : overtaken'[t] \in BOOLEAN
  BY OvertakenNext
<1>2. overtaken' \in [Tabs -> BOOLEAN]
  BY <1>1
<1> QED
  BY <1>2, HistoryNext DEF HistoryTyped

-----------------------------------------------------------------------------
(* The invariant is inductive *)

IInv ==
  /\ ServerTyped /\ WriterTyped /\ StreamTyped /\ InboxTyped /\ OpenTyped /\ HistoryTyped
  /\ Handlers /\ SettingsAreNoChange
  /\ NothingIsSound /\ HeldCountsAreSound /\ QueuedCountsAreSound /\ ShownCountsAreSound /\ FetchedCountsAreSound
  /\ BadgeFollowsList /\ ChangesReachTheList
  /\ RequestsAreForTheSelection /\ NothingIsOpen /\ ChangesReachTheThread

(* A page that comes up has nothing to make up for. *)
LEMMA InitIsSound == Init => IInv
<1> SUFFICES ASSUME Init PROVE IInv
  OBVIOUS
<1>1. ServerTyped
  <2>1. scene \in Scenes /\ version = 0 /\ unread = 0 /\ thread = [c \in Threads |-> [asOf |-> 0, gone |-> FALSE]]
    BY DEF Init
  <2>2. [asOf |-> 0, gone |-> FALSE] \in [asOf : 0..version, gone : BOOLEAN]
    BY <2>1
  <2> QED
    BY <2>1, <2>2 DEF ServerTyped
<1>2. /\ op = [w \in Writers |-> "none"] /\ at = [w \in Writers |-> "idle"] /\ my = [w \in Writers |-> Fresh]
      /\ queue = [t \in Tabs |-> <<>>] /\ closes = 0 /\ version = 0 /\ unread = 0
  BY DEF Init
<1>3. WriterTyped /\ Handlers
  <2>1. Fresh \in Holdings /\ Fresh.made = 0
    BY <1>1, FreshTyped
  <2>2. WriterTyped
    BY <1>2, <2>1 DEF WriterTyped, Places
  <2>3. Handlers
    BY <1>2, <2>1 DEF Handlers, Handling, Pending
  <2> QED
    BY <2>2, <2>3
<1>4. StreamTyped
  <2>1. conn \in [Tabs -> {"off", "subscribed", "live"}]
    BY DEF Init
  <2>2. scene.closes \in Nat /\ Buffer \in Nat
    BY <1>1, SceneParts, LiveViewAssumption DEF ServerTyped
  <2>3. \A t \in Tabs : queue[t] = <<>> /\ queue[t] \in Seq(Events) /\ Len(queue[t]) <= Buffer
    BY <1>2, <2>2
  <2>4. closes \in 0..scene.closes /\ queue \in [Tabs -> Seq(Events)]
    BY <1>2, <2>2, <2>3
  <2> QED
    BY <2>1, <2>3, <2>4 DEF StreamTyped
<1>5. \A t \in Tabs : DOMAIN queue[t] = {} /\ DOMAIN gets[t] = {}
  BY DEF Init
<1>6. /\ badge = [t \in Tabs |-> Nothing] /\ list = [t \in Tabs |-> 0]
      /\ fetch = [t \in Tabs |-> [s \in Slots |-> IF s = 1 /\ ~scene.loaded THEN Asked ELSE Idle]]
  BY DEF Init
<1>7. Nothing \in Counts /\ Nothing.n = 0 /\ Nothing.asOf = 0
  BY <1>1, CountsTyped
<1>8. InboxTyped
  <2>1. \A s \in Slots : (IF s = 1 /\ ~scene.loaded THEN Asked ELSE Idle) \in Fetches
    BY IdleTyped
  <2>2. fetch \in [Tabs -> [Slots -> Fetches]]
    BY <1>6, <2>1
  <2>3. badge \in [Tabs -> Counts] /\ list \in [Tabs -> 0..version]
    BY <1>2, <1>6, <1>7
  <2> QED
    BY <2>2, <2>3 DEF InboxTyped
<1>9. OpenTyped
  <2>1. /\ selected = [t \in Tabs |-> NoThread] /\ shown = [t \in Tabs |-> NoView]
        /\ gets = [t \in Tabs |-> <<>>] /\ opens = [t \in Tabs |-> 0]
    BY DEF Init
  <2>2. scene.gets \in Nat /\ scene.opens \in Nat
    BY <1>1, SceneParts DEF ServerTyped
  <2>3. NoView \in [thread : Topics, asOf : 0..version]
    BY <1>2 DEF NoView, Topics
  <2>4. \A t \in Tabs : gets[t] = <<>> /\ Len(gets[t]) <= scene.gets
    BY <2>1, <2>2
  <2>5. gets \in [Tabs -> Seq(Requests)] /\ opens \in [Tabs -> 0..scene.opens]
    BY <2>1, <2>2
  <2> QED
    BY <2>1, <2>3, <2>4, <2>5 DEF OpenTyped
<1>10. HistoryTyped
  BY DEF Init, HistoryTyped
<1>11. SettingsAreNoChange /\ QueuedCountsAreSound /\ NothingIsSound
  BY <1>2, <1>5 DEF SettingsAreNoChange, QueuedCountsAreSound, NothingIsSound
<1>12. HeldCountsAreSound /\ ShownCountsAreSound
  <2>1. Fresh.count = Nothing
    BY <1>1, FreshTyped
  <2> QED
    BY <1>2, <1>6, <1>7, <2>1 DEF HeldCountsAreSound, ShownCountsAreSound, Sound
<1>13. FetchedCountsAreSound
  <2>1. ASSUME NEW t \in Tabs, NEW s \in Slots PROVE fetch[t][s].at \notin {"listed", "counted"}
    <3>1. fetch[t][s] = Asked \/ fetch[t][s] = Idle
      BY <1>6
    <3> QED
      BY <3>1, IdleTyped
  <2> QED
    BY <2>1 DEF FetchedCountsAreSound
<1>14. BadgeFollowsList /\ ChangesReachTheList
  <2>1. \A t \in Tabs : list[t] <= badge[t].asOf
    BY <1>6, <1>7
  <2> QED
    BY <1>2, <2>1 DEF BadgeFollowsList, ChangesReachTheList, LastChange
<1>15. RequestsAreForTheSelection /\ NothingIsOpen /\ ChangesReachTheThread
  <2>1. \A t \in Tabs : selected[t] = NoThread /\ shown[t] = NoView /\ shown[t].thread = NoThread
    BY DEF Init, NoView
  <2> QED
    BY <1>5, <2>1 DEF RequestsAreForTheSelection, NothingIsOpen, ChangesReachTheThread
<1> QED
  BY <1>1, <1>3, <1>4, <1>8, <1>9, <1>10, <1>11, <1>12, <1>13, <1>14, <1>15 DEF IInv

(* Every step keeps every part of the invariant. *)
LEMMA NextIsSound == IInv /\ [Next]_vars => IInv'
<1> SUFFICES ASSUME IInv, [Next]_vars PROVE IInv'
  OBVIOUS
<1> USE DEF IInv
<1>1. ServerTyped' /\ WriterTyped' /\ Handlers'
  BY ServerTypedNext, WritersNext
<1>2. StreamTyped' /\ SettingsAreNoChange'
  BY StreamNext
<1>3. /\ InboxTyped' /\ ShownCountsAreSound' /\ BadgeFollowsList'
      /\ overtaken' = [t \in Tabs |-> overtaken'[t]]
  BY InboxTypedNext
<1>4. OpenTyped' /\ astray' \in [Tabs -> BOOLEAN] /\ RequestsAreForTheSelection' /\ NothingIsOpen'
  BY OpenNext
<1>5. HistoryTyped'
  BY <1>3, <1>4, HistoryTypedNext
<1>6. NothingIsSound' /\ HeldCountsAreSound' /\ QueuedCountsAreSound' /\ FetchedCountsAreSound'
  BY SoundStays, HeldCountsNext, QueuedCountsNext, FetchNext
<1>7. ChangesReachTheList'
  BY ListNext
<1>8. ChangesReachTheThread'
  BY ThreadNext
<1> QED
  BY <1>1, <1>2, <1>3, <1>4, <1>5, <1>6, <1>7, <1>8

(* So it always holds. *)
LEMMA AlwaysSound == Spec => []IInv
<1>1. Init => IInv
  BY InitIsSound
<1>2. IInv /\ [Next]_vars => IInv'
  BY NextIsSound
<1> QED
  BY <1>1, <1>2, PTL DEF Spec

-----------------------------------------------------------------------------
(* The theorems *)

(* The handlers, the broker and the tabs hold values of their types, and no    *)
(* channel holds more than its capacity (events.go:60-75).                     *)
THEOREM TypesCorrect == Spec => []TypeOK
<1>1. IInv => TypeOK
  <2> SUFFICES ASSUME IInv PROVE TypeOK
    OBVIOUS
  <2> USE DEF IInv
  <2>1. /\ version \in Nat /\ unread \in Nat /\ scene \in Scenes
        /\ thread \in [Threads -> [asOf : 0..version, gone : BOOLEAN]]
    BY DEF ServerTyped
  <2>2. /\ op \in [Writers -> {"none"} \cup scene.ops]
        /\ at \in [Writers -> {"idle", "count", "recount", "publish", "answer", "reply", "done"}]
        /\ my \in [Writers -> [by : Tabs \cup {Elsewhere}, about : Topics, ended : BOOLEAN,
                               count : Counts, made : 0..version]]
    BY DEF WriterTyped, Places, Holdings
  <2>3. /\ conn \in [Tabs -> {"off", "subscribed", "live"}] /\ closes \in 0..scene.closes
        /\ \A t \in Tabs :
             /\ Len(queue[t]) <= Buffer
             /\ conn[t] = "off" => queue[t] = <<>>
             /\ \A i \in DOMAIN queue[t] : queue[t][i].type \in scene.ops /\ queue[t][i].about \in Topics
    <3>1. ASSUME NEW t \in Tabs, NEW i \in DOMAIN queue[t]
          PROVE  queue[t][i].type \in scene.ops /\ queue[t][i].about \in Topics
      <4>1. queue[t][i] \in Events
        BY <3>1 DEF StreamTyped
      <4> QED
        BY <4>1 DEF Events
    <3> QED
      BY <3>1 DEF StreamTyped
  <2>4. /\ badge \in [Tabs -> Counts] /\ list \in [Tabs -> 0..version]
        /\ fetch \in [Tabs -> [Slots -> [at : {"free", "asked", "listed", "counted"},
                                         list : Nat, n : Nat, asOf : Nat]]]
    BY DEF InboxTyped, Fetches
  <2>5. /\ selected \in [Tabs -> Topics] /\ shown \in [Tabs -> [thread : Topics, asOf : 0..version]]
        /\ opens \in [Tabs -> 0..scene.opens]
    <3>1. {NoThread} \cup scene.threads \subseteq Topics
      BY <2>1, SceneParts
    <3> QED
      BY <3>1 DEF OpenTyped
  <2>6. \A t \in Tabs :
          /\ Len(gets[t]) <= scene.gets
          /\ \A i \in DOMAIN gets[t] : gets[t][i].thread \in Threads /\ gets[t][i].at \in {"asked", "read"}
    <3>1. ASSUME NEW t \in Tabs, NEW i \in DOMAIN gets[t]
          PROVE  gets[t][i].thread \in Threads /\ gets[t][i].at \in {"asked", "read"}
      <4>1. gets[t][i] \in Requests
        BY <3>1 DEF OpenTyped
      <4> QED
        BY <4>1 DEF Requests
    <3> QED
      BY <3>1 DEF OpenTyped
  <2>7. /\ unsaid \in Nat /\ lost \in [Tabs -> Nat] /\ failed \in [Tabs -> Nat]
        /\ overtaken \in [Tabs -> BOOLEAN] /\ astray \in [Tabs -> BOOLEAN]
    BY DEF HistoryTyped
  <2> HIDE DEF IInv
  <2> QED
    BY <2>1, <2>2, <2>3, <2>4, <2>5, <2>6, <2>7 DEF TypeOK
<1> QED
  BY <1>1, AlwaysSound, PTL

(* A tab with nothing on its way has no change on its way to its list.         *)
LEMMA NothingOnItsWay ==
  ASSUME NEW t \in Tabs, Quiet(t)
  PROVE  /\ \A s \in Slots : fetch[t][s].at = "free"
         /\ DOMAIN gets[t] = {}
         /\ \A c, v : Told(t, c, v) => v <= lost[t] \/ v <= unsaid
<1>1. ~Writing /\ ~Waiting(t) /\ queue[t] = <<>>
  BY DEF Quiet
<1>2. \A s \in Slots : fetch[t][s].at = "free"
  BY <1>1 DEF Waiting
<1>3. gets[t] = <<>>
  BY <1>1 DEF Waiting
<1>4. \A w \in Writers : at[w] \notin Pending
  BY <1>1 DEF Writing, Pending
<1> QED
  BY <1>1, <1>2, <1>3, <1>4 DEF Told, Held, Queued

(* A quiet tab that is not excused shows the last change and no older count.   *)
LEMMA ListIsFresh ==
  ASSUME IInv, NEW t \in Tabs, Quiet(t), ~Excused(t)
  PROVE  list[t] = version /\ ~overtaken[t]
<1>1. /\ version \in Nat /\ list[t] \in Nat /\ list[t] <= version
      /\ lost[t] \in Nat /\ failed[t] \in Nat /\ unsaid \in Nat
  BY DEF IInv, ServerTyped, InboxTyped, HistoryTyped
<1>2. ~overtaken[t] /\ ~(Highest(lost[t], failed[t]) > list[t]) /\ ~(unsaid > list[t])
  BY DEF Excused
<1>3. lost[t] <= list[t] /\ failed[t] <= list[t] /\ unsaid <= list[t]
  <2>1. /\ Highest(lost[t], failed[t]) \in Nat
        /\ Highest(lost[t], failed[t]) >= lost[t] /\ Highest(lost[t], failed[t]) >= failed[t]
    <3>1. Highest(failed[t], lost[t]) \in Nat
      BY <1>1, HighestOf
    <3> QED
      BY <1>1, HighestOf
  <2> QED
    BY <1>1, <1>2, <2>1
<1>4. LastChange(t)
  BY DEF IInv, ChangesReachTheList
<1>5. CASE version = 0
  BY <1>1, <1>2, <1>5
<1>6. ASSUME NEW c \in Topics, Told(t, c, version) PROVE list[t] = version
  <2>1. version <= lost[t] \/ version <= unsaid
    BY <1>6, NothingOnItsWay
  <2> QED
    BY <1>1, <1>3, <2>1
<1>7. \A s \in Slots : ~Arriving(t, s)
  <2>1. \A s \in Slots : fetch[t][s].at = "free"
    BY NothingOnItsWay
  <2> QED
    BY <2>1 DEF Arriving
<1>8. CASE version <= failed[t]
  BY <1>1, <1>2, <1>3, <1>8
<1> QED
  BY <1>2, <1>4, <1>5, <1>6, <1>7, <1>8 DEF LastChange

(* When everything has run its course a connected tab shows the mailbox as it  *)
(* is, unless it is excused (App.tsx:132-135).                                *)
THEOREM QuietListIsFreshAlways == Spec => []QuietListIsFresh
<1>1. IInv => QuietListIsFresh
  BY ListIsFresh DEF QuietListIsFresh
<1> QED
  BY <1>1, AlwaysSound, PTL

(* So is its badge (webhook.go:157-159), which is no older than the list.      *)
THEOREM QuietBadgeIsFreshAlways == Spec => []QuietBadgeIsFresh
<1>1. IInv => QuietBadgeIsFresh
  <2> SUFFICES ASSUME IInv, NEW t \in Tabs, Quiet(t), ~Excused(t) PROVE badge[t].n = unread
    BY DEF QuietBadgeIsFresh
  <2>1. list[t] = version /\ ~overtaken[t]
    BY ListIsFresh
  <2>2. version \in Nat /\ badge[t].asOf \in Nat
    BY DEF IInv, ServerTyped, InboxTyped, Counts
  <2>3. list[t] <= badge[t].asOf
    BY <2>1 DEF IInv, BadgeFollowsList
  <2>4. Sound(badge[t])
    BY DEF IInv, ShownCountsAreSound
  <2> QED
    BY <2>1, <2>2, <2>3, <2>4 DEF Sound
<1> QED
  BY <1>1, AlwaysSound, PTL

(* And what it has open is the conversation that is selected, as it is, unless *)
(* an answer came late, or the event of its last change got lost               *)
(* (App.tsx:137-144).                                                        *)
THEOREM OpenThreadIsCurrentAlways == Spec => []OpenThreadIsCurrent
<1>1. IInv => OpenThreadIsCurrent
  <2> SUFFICES ASSUME IInv, NEW t \in Tabs, Quiet(t), ~astray[t]
               PROVE  IF selected[t] = NoThread THEN shown[t] = NoView
                      ELSE \/ thread[selected[t]].gone
                           \/ /\ shown[t].thread = selected[t]
                              /\ thread[selected[t]].asOf \in {shown[t].asOf} \cup 0..Highest(lost[t], unsaid)
    BY DEF OpenThreadIsCurrent
  <2>1. CASE selected[t] = NoThread
    BY <2>1 DEF IInv, NothingIsOpen
  <2>2. CASE selected[t] # NoThread
    <3> DEFINE c == selected[t]
               v == thread[c].asOf
    <3>1. Opened(t) /\ LastInThread(t)
      BY <2>2 DEF IInv, ChangesReachTheThread
    <3>2. DOMAIN gets[t] = {} /\ (Told(t, c, v) => v <= lost[t] \/ v <= unsaid)
      BY NothingOnItsWay
    <3>3. thread[c].gone \/ shown[t].thread = c
      BY <3>1, <3>2 DEF Opened
    <3>4. thread[c].gone \/ shown[t].asOf = v \/ v <= lost[t] \/ v <= unsaid
      BY <3>1, <3>2 DEF LastInThread
    <3>5. v \in Nat /\ lost[t] \in Nat /\ unsaid \in Nat
      <4>1. c \in Threads
        BY <2>2, SceneParts DEF IInv, OpenTyped, ServerTyped
      <4> QED
        BY <4>1 DEF IInv, ServerTyped, HistoryTyped
    <3> HIDE DEF v
    <3>6. v <= lost[t] \/ v <= unsaid => v \in 0..Highest(lost[t], unsaid)
      <4>1. /\ Highest(lost[t], unsaid) \in Nat
            /\ Highest(lost[t], unsaid) >= lost[t] /\ Highest(lost[t], unsaid) >= unsaid
        BY <3>5, HighestOf
      <4> QED
        BY <3>5, <4>1
    <3>7. \/ thread[c].gone
          \/ shown[t].thread = c /\ v \in {shown[t].asOf} \cup 0..Highest(lost[t], unsaid)
      BY <3>3, <3>4, <3>6
    <3> QED
      BY <2>2, <3>7 DEF v
  <2> QED
    BY <2>1, <2>2
<1> QED
  BY <1>1, AlwaysSound, PTL

====
