# Mailman, specified

Mailman is a local mail catcher: an application under development sends it mail
over SMTP, a developer reads it in a browser, answers it there, and the answer is
posted back to the application as an inbound-mail webhook. This directory holds
TLA+ specifications of the program, the configurations that check small
instances of them with TLC, and proofs that the TLA+ proof system checks for
every instance.

1. [The system](#1-the-system)
2. [The modules](#2-the-modules)
3. [The runs](#3-the-runs)
4. [The proofs](#4-the-proofs)
5. [What the code does that its comments do not say](#5-what-the-code-does-that-its-comments-do-not-say)
6. [What is not modelled](#6-what-is-not-modelled)
7. [What is left](#7-what-is-left)

## 1. The system

One Go process. Every SMTP connection, HTTP request and WebSocket has a
goroutine of its own; they share the store, the broker and the configuration.

```
 application --SMTP--> smtpd.session --+                     +--> subscribers (WebSocket) --> browser
                                       |                     |
 CI ----------POST /messages-----------+--> Ingestor --------+--> events.Broker
                                       |       |             |        ^
 browser -----POST /replies------------+       v             |        |
      |            |                       mailstore ----- handlers (seen, delete, clear)
      |            +--> webhook.Sender --> (SQLite + files)
      |                     |
      |                     +--POST--> application
      +-----PUT /config--> settings --> config.json, config.Live
```

| Component | State | Operations | What is hard | What makes it correct |
|---|---|---|---|---|
| **Mail store** `internal/mailstore`, `internal/mailmime/ingest.go` | four SQLite tables (conversations, messages, attachments, deliveries), `mail/raw`, `mail/attachments` | `Ingest`, `DeleteMessage`, `DeleteConversation`, `Clear`, `MarkSeen`, `MarkConversationSeen`, `RecordDelivery`, `migrate` | only Ingest uses a transaction: a deletion is three to many statements and then file removals, and anything may happen between two of them; requests are cancelled when the browser leaves; files and rows are not updated together; crashes | a stored message has its files; a file has an owner; no empty conversation; messages are lost only when asked; what is refused is not kept |
| **Threading rules** `internal/conversation`, `Tx.ResolveConversation` | none | `Ancestors`, `HasReplyPrefix`, `StripReplyPrefix`, `Key`, `ReplySubject` | missing, repeated and unknown Message-IDs; subjects reused by transactional mail | unrelated mail stays apart; an answer joins what it answers |
| **Outbound composition** `internal/outbound` | none | `NewReply`, `Build` | continuing a chain whose parent has no Message-ID | the reply threads with its parent |
| **Events and live view** `internal/events`, `httpapi/websocket.go`, `web/src/App.tsx` | subscribers and their buffers (32), the badge, the list and the open thread of every tab | `Subscribe`, `Publish`, hello, reconnect, refetch | an event is dropped when a buffer is full; counts are read before they are published; answers of refetches overtake each other | after the last change every connected tab shows the mailbox |
| **Reply delivery** `internal/webhook`, `httpapi/reply.go` | the deliveries table | `createReply`, `retryDelivery`, `Send` | the reply is stored before it is posted; timeouts; retries of what was done; the message deleted meanwhile | an attempt that was made is on record, numbered once |
| **Configuration** `internal/config`, `httpapi/settings.go` | `config.json`, the published snapshot, environment and flags above them | `Load`, `Resolve`, `saveConfig`, `Live.Get/Set` | two saves at once; crash while replacing the file; fields the environment holds | a saved file always loads; what is running is what was saved |
| **Routing** `config/route.go` | none | `RouteFor` | wildcards, inheritance of unset fields | the most specific route wins, whatever the map order |
| **SMTP session** `internal/smtpd` | envelope of the session, LOGIN step | `Mail`, `Rcpt`, `Data`, `Reset`, `Auth` | several messages on one connection; 451 and retry; a lost answer | an envelope belongs to one message; accepted mail is stored |
| **Startup and shutdown** `cmd/mailman`, `internal/probe` | two ports, the supervisor's state | `preflight`, `Listen`, `Serve`, exit codes | two instances racing for two ports; shutdown in the middle of an Ingest | never half up; a busy port does not make a supervisor loop |
| **Login service** `internal/service` | a unit file and the service manager | install, uninstall, start, stop, status | external commands that fail half way | |
| **Reads and paging** `mailstore/read.go` | a cursor held by the client | `ListConversations` | pages over a list that moves, ties within one second | no conversation is skipped or shown twice |

`PROJECT.json` lists the same parts with their source files, and under
`hazards` every place where this code can go wrong in a way a test would hardly
reach, with the properties that watch it and, where a property excepts the hazard by
name, a note that says so. Waiting for the one database connection while holding it
is not among them: every query drains and closes its rows before the next one
(store.go:171-174), so no order of calls gets there.

## 2. The modules

| Module | Contents | Used by |
|---|---|---|
| `Threading` | which conversation a message joins: ancestors, reply markers, subject keys | `MailStore`, `Outbound` |
| `Mailbox` | abstract: what the store promises to whoever sees only its rows | implemented by `MailStore` |
| `MailStore` | Ingest and the three deletions, statement by statement, over database and directory | |
| `Outbound` | composing and parsing one message: `NewReply`, `Build`, `Recipients`, `Parse`, `DeriveBcc` | `Exchange` |
| `Reading` | one page of the inbox: order, cursor, limit | `Exchange` |
| `Exchange` | SMTP sessions, the API's posts and replies, `Ingest` as their one door, a reader who pages | |
| `Delivery` | replies and retries posted to the application, and the log of attempts | |
| `LiveView` | the broker, a tab's stream, and what the tab shows | |
| `Routing` | documents, layers, validation, `RouteFor` | `Settings` |
| `Settings` | saves of `config.json`, reload, crashes, hand edits, test deliveries | |
| `Startup` | the life of a process: migration, two ports, exit status | `Service` |
| `Service` | the `service` commands step by step, and the login manager above the processes | |
| `MC*` | instances for TLC | |
| `MailStore_proofs`, `Delivery_proofs`, `LiveView_proofs`, `Settings_proofs`, `Service_proofs`, `Exchange_proofs` | theorems about the module they are named after, for every value of its constants; the one about `Service` covers `Startup`, the one about `Settings` the operators of `Routing`, the one about `Exchange` those of `Reading` | |
| `Outbound_proofs` | what the operators of `Outbound` and `Threading` return | `Exchange_proofs` |
| `Lists_proofs` | facts about numbers, sequences and folds | `Outbound_proofs` |

The modules meet where the code does. `MailStore` opens up what `Exchange` takes
as one step (the files and the transaction of an Ingest, the statements of a
deletion), `LiveView` has the events that `MailStore`, `Delivery` and `Settings`
only mention, and `Delivery` takes from `Settings` no more than the route of its
recipient, which may change at any time.

Operators called a *faulty variant* are no part of a specification. Each is a
slip one could make in the code, placed before the definition it would replace;
with it in that place the property it belongs to fails. Variables called *history*
are read by properties only.

### Threading, Outbound, Reading, Routing: rules without state

A Message-ID is any string, with the empty one (`Blank`) for none; in a header it
may wear its angle brackets. A subject is a sequence of tokens: a reply marker
in any spelling (`Re:`, `Fwd:`, `AW[2]:`), white space, or a word in one of two
cases. That is what the rules tell apart: `Key` drops the leading markers, the
space and the case. The database queries of `ResolveConversation` are operators
over the sets of rows: `ByMessageID` takes the latest ULID with that id,
`ByAncestors` walks from the last ancestor back to the first one that is stored,
`BySubject` takes the conversations with that key that were active last. When
several are, `ORDER BY last_activity_at DESC LIMIT 1` leaves the choice to
SQLite, so the result is a set and `Commit` chooses from it. An empty result
means that a conversation is created.

An address is a mailbox, whether it is spelled with capitals, and whether a
display name stands before it; one field of a form or one `RCPT` may hold several.
That is what the envelope (`Recipients`), the headers (`Build`, `Parse`) and their
comparison (`DeriveBcc`) tell apart.

A domain is the sequence of its labels, a pattern may start with `*.`, and
somebody typed it plainly or with capitals and spaces. A value of the
configuration is blank, `Bad` (whatever `Validate` refuses), or one of a few. Go's
random order over a map is a set of possible tables (`Merged`).

### MailStore

One step of the model is one SQL statement, one transaction, or one operation on
a file. The database has a single connection (`SetMaxOpenConns(1)`, store.go:176),
so a statement or transaction runs alone; between two of them any other
goroutine may run.

| State | In the code |
|---|---|
| `row[m]` | the row of `messages`, reduced to its `conversation_id`; 0 for no row. The rows of `attachments` come and go with it (foreign key cascade) |
| `convs`, `lastConv` | the table `conversations` (subject key and last activity) and `sqlite_sequence` |
| `disk` | the files below `mail/`: a raw file per message and, when it has parts, its attachments as one payload |
| `mail`, `at`, `stamp` | what a message says, how far its `Ingest` has come, the `now` it took |
| `op`, `step`, `target`, `victim`, `todo`, `paths`, `tally` | the deletion a request is running and the local variables of its function: the message id, the conversation id, the ids not yet looked at, the collected paths, the count |
| `now`, `crashes` | the time last read, in seconds, and the number of crashes so far |
| `swept`, `torn`, `stranded` | history: messages whose files a Clear wiped, conversations left empty with nobody to delete them, messages whose files nothing will remove |

| Actions | In the code |
|---|---|
| `Receive`, `ReceiveFails` | `Ingest`: take a ULID, write the raw file |
| `Persist`, `PersistFails` | `persist` up to its transaction: take the time (any later second, `Stamp`), write the attachments |
| `Commit`, `CommitFails` | the transaction: `ResolveConversation`, `InsertMessage`, `InsertAttachment`, `TouchConversation` |
| `UndoRaw`, `UndoParts` | the removals of the error branch of `Ingest` |
| `Acknowledge` | `announce` and the positive answer |
| `DeleteMessage`, `ReadParts`, `FindThread`, `DeleteRow`, `CountRemaining`, `DropThread`, `Unlink`, `Answer` | `DeleteMessage`, statement by statement |
| `DeleteConversation`, `ReadRaw`, `ReadParts`, `DropThread`, `Unlink`, `Answer` | `DeleteConversation`, statement by statement |
| `Clear`, `DropThreads`, `SweepMessages`, `WipeRaw`, `WipeParts`, `WipeFails` | `Clear` |
| `Fail` | any statement of a deletion returns an error, most often because the browser went away and `r.Context()` is cancelled |
| `CrashAndRestart` | the process dies and is started again; `Open` takes database and directories as it finds them |

`Mailbox` is its abstract specification. A message enters once, into an open
conversation or a new one, and stays in it until it leaves; a message that left
never returns. Messages leave one at a time, with their whole conversation, or
all together. The id of a closed conversation never names another. `MailStore`
implements this under a mapping that reads the rows only (`Box`): `Commit` is
`Enter`, `DeleteRow` is `TakeOne`, `DropThread` is `CloseOne`, `DropThreads` is
`CloseAll`, `SweepMessages` is `TakeAll`, and every other step is a stutter. So
however the statements of concurrent requests interleave, no message changes its
conversation, comes back, or leaves in a selection nobody can ask for.

### Exchange

| State | In the code |
|---|---|
| `rows`, `convs`, `lastConv`, `lastUlid` | the tables, with the columns that threading, blind copies and the list look at |
| `session[s]` | `smtpd.session` (`from`, `rcpts`) with go-smtp's phase and what the client is sending |
| `at[c]`, `mail[c]` | how far `Ingest` has come with the message of a session or a request, and that message |
| `sender[l]` | what the application heard of a letter; history: the answers it lost, the copies stored |
| `reader` | a client that pages: its query, limit, cursor; history: what it saw, and what moved meanwhile |
| `scene` | which clients are there and what they do: fixed in the first state |

`Connect`, `MailFrom`, `RcptTo`, `Rset`, `Data`, `DataRefused`, `Answer` and
`HangUp` are the session (`NewSession`, `Mail`, `Rcpt`, `Reset`, `Data`, and
`Serve` closing connections). A connection that breaks during `Data` does not end
the Ingest: its context is not the connection's. `Reply`, `Compose`, `Inject` and
`InjectRaw` are `createReply` and `injectMessage`. All of them enter `Persist`,
`Commit` or `IngestFails`, and `Announce`. `Delete` takes one message or one
conversation. `OpenList` and `NextPage` are `GET /conversations`.

The scenes keep apart what need not be multiplied: *Sending* (an application on two
connections, failing disks and counts), *Answering* (a reply, a composed mail, an
injected one, the application's answers, a deletion), *Browsing* (a reader while
two replies are stored at once and something is deleted), *Overtaking* (a reply so
slow that others overtake it twice, with a reader), *Searching* (a reader with a
query, while a conversation loses its word by a deletion and gets it back by a slow
answer) and, for the refuted run, *Scrolling*.

Of the conversations a reader found on his first page, `reader.first` keeps those he
would have found at any time since: a deletion takes out of it what no longer
matches (`StillFound`). Intersecting with what matches when he has come to the end
is not enough, as *Searching* shows: a conversation that did not match while its
page was read, and matches again before the end, would count as one he was owed.

### Delivery

| State | In the code |
|---|---|
| `stored`, `deleted` | the outbound messages that have a row, and those that had one |
| `log`, `lastId` | the table `deliveries` and its AUTOINCREMENT |
| `route` | what `RouteFor` answers for the recipient under the running configuration |
| `op`, `about`, `at`, `my` | each request: which handler, its message, its next step, its local variables |
| `sent`, `call` | the application: which requests reached it, and the status it gave, heard or not |

`Reply` and `Ingest` are `createReply`; `Retry`, `Find`, `ReadRaw` are
`retryDelivery`; `Resolve` is `deliver`; `ReadNumber`, `Unbuildable`, `Post`,
`Refused`, `Answered`, `TimesOut`, `Breaks` and `Record` are `Sender.Send` and
`post`. The application is external: `AppAnswers` at any time, or never.

### LiveView

The mailbox is a version (one more with every change) and a number of unread
messages, so "the tab shows the mailbox" is an equation. A writer is a handler or
an arriving message: `Change`, `Count` or `CountFails`, `Publish`, and for
`markConversationSeen` another count in its answer (`CountAnswer`, `Reply`). `conn`
and `queue` are the subscriber and its channel in the broker; `Connect`, `Hello`,
`Close` are `streamEvents` with the reconnects of `useMailboxEvents.ts`; `Handle`
is `onEvent` in `App.tsx`; `fetch` are the list requests under way, whose answers
(`ReadList`, `ReadCount`, `Show`) arrive in any order.

Of the conversations it looks at a scene knows when each changed last and whether
it is gone (`thread`). `selected` and `shown` are `selectedId` and `detail` in
`App.tsx`, `gets` the requests for a conversation under way: `Select` is
`selectConversation`, `Follow` what `onEvent` does with the open one, `Deleted` the
three deletions a tab may ask for, `ReadThread`, `ShowThread` and `GetFails` the
answers. Three scenes share the module: `Listing`, a page that comes up while two
things happen; `Opening`, a tab that opens two conversations while one thing of any
kind happens, asked for by itself or elsewhere; `Following`, a tab that has one
conversation open while two things happen in it and its connection breaks.

### Settings

`file` is `config.json` (absent, whole, torn), `temps` the temporary files of
`WriteDocument`, `running` what `Live` holds, `booted` what the listeners were
bound from, `at` and `my` each save and its local variables. `Save` is
`saveConfig` up to its write (read, refuse what is held above, merge, validate),
`Write`, `Rename` and `Refuse` are `WriteDocument`, `Reload` and `Publish` the
rest; `Test` is `testWebhook`; `Crash`, `Boot` and `Edit` are the world.

### Startup and Service

A process goes through `Load`, `ReadVersion` and `Apply` (the migration, with the
version read outside its transaction), `Ask` (preflight dials each port), `Bind`,
`GiveUp`, and serves until `Fail` or an interrupt; `ExitStatus` is `main`'s. Two
slots, a terminal and the login job, share the database and the ports with each
other and with a foreign program, which may listen on every address, where a
bind to the loopback one succeeds beside it. `Service` adds the unit file, the
manager's state (`enabled`, `loaded`, systemd's `starts`) and the commands as
sequences of steps (`Launchd`, `Systemd`) that are required, may fail, or are
enough when they succeed. launchd and systemd are external: what their commands do
is what the comments of the source rely on.

## 3. The runs

| Run | Checks | Instance |
|---|---|---|
| `store_faults` | `TypeOK`, `NoEmptyThread`, `FilesHaveOwner`, `StoredHasFiles`, `RefusedNotKept` | two requests of any kind, two messages, failing statements, writes and removals, a crash |
| `store_mailbox` | `ReceiptsStayApart`, `KeepsMailbox`, `EventuallyClean` | one request, three messages, no faults, fairness |
| `store_lost` | `OnlyEmptyThreadsGo` | refuted, section 5 |
| `store_wiped` | `NothingElseWritesThere` | refuted, section 5 |
| `exchange` | `TypeOK`, `EnvelopeIsItsOwn`, `StoredOncePerAnswer`, `BlindCopiesRecovered`, `PagesAddUp`, `RepliesStayTogether` | the scenes above, two connections, two requests, up to five messages |
| `exchange_shifted` | `NoRowTwice` | refuted, section 5 |
| `delivery` | `TypeOK`, `LogTellsTruth`, `EveryAttemptIsARow`, `NumbersWithoutGaps`, `RepeatsOverlap`, `TwiceOnlyIfAnswerLost`, `NeverStuck` | three requests about one reply, two routes or none, one save, one crash, failing statements |
| `live` | `TypeOK`, `QuietListIsFresh`, `QuietBadgeIsFresh`, `OpenThreadIsCurrent`, `EventuallySettled` | the scenes above: one tab, one or two writers, two conversations, a channel of one event, two requests for a list or a conversation at once, one broken connection, failing statements |
| `live_missed` | `HintsSuffice` | refuted, section 5 |
| `settings` | `TypeOK`, `SavedFileBoots`, `QuietIsInForce`, `NothingLeftBehind`, `RouteIsNearest`, `PageTellsTruth`, `SavesKeepTheRest`, `AnsweredIsInForce`, `KeyGoesHome` | two saves of ten kinds, four hand-written files, a variable and a flag, one edit, one crash |
| `settings_unsigned` | `TestsAreSigned` | refuted, section 5 |
| `service` | `TypeOK`, `SomebodyWins`, `ServesOnItsOwn`, `EventuallyLeftAlone`, `CommandsKeepTheirWord` | a terminal and a login job, both managers, two acts of the user, one crash, an old, a current and a newer database |

### Bounds

Every bound is a constant, named where it is declared, or a field of a scene. No
run checks for deadlock: each system stops when its requests are used up, and in
`Settings` when the file no longer loads after a crash.

- *Store.* Each message is an opening with an attachment and a Message-ID, or a
  reply without threading headers, which joins by its subject. Every message may
  be either, so two openings with one subject, a reply before what it answers, and
  a reply to nothing are among the instances. Two messages are what an
  interference between a deletion and an arrival takes: one to delete and one to
  join its conversation meanwhile. Two requests are enough for two deletions to
  interfere, of a message with itself, with its conversation, or with a Clear. The
  third message of `store_mailbox` lets a conversation be closed, a new one be
  opened, and a message arrive in it. `MaxTime` is 0 in both passing runs: with
  all activity in one second every candidate of a subject match is tied, so every
  choice is allowed, which is a superset of what a moving clock permits.
- *Exchange.* Two connections and three transactions show an envelope that leaks
  and a letter sent again after a lost answer. A reply, the answer to it and a
  reply to that need five messages. Pages of one and two rows over three
  conversations turn twice, two of the conversations share a second, and the
  clock moves. `Minted` is fixed, so that a letter can name the reply it answers.
- *Delivery.* Two requests overlap, the third comes after them or sees what they
  did. One message is enough, because requests about different ones share only the
  number of the next row. One save shows a route that changes under a retry.
- *LiveView.* With a channel of one event a second one is dropped, which takes 33
  in the code; two requests at once are what overtaking takes, of lists as of
  conversations; and the tab connects again once. The kinds of writers a scene
  leaves out do what one of those in it does to the state it looks at. More tabs do
  not interact.
- *Settings.* The patches are chosen by what they meet: a field held by a flag, one
  held by a variable, a table with a kept key, one with two spellings, what
  validation refuses in a field, a row and a format. The fields of `Fields` no patch
  names are handled by the same code. `Texts` and `Labels` are the values and the
  parts of domains that these patches, files and recipients are made of.
- *Service.* Two processes race for two ports; two acts of the user are an install
  and what undoes it. `Burst` is 2 where the unit says 5 (systemd.go:62): what matters is that
  it ends.

### Fairness

Nobody ever has to send mail, delete, ask, run, interrupt or crash anything.

- `MailStore`: an `Ingest` that has begun and a deletion that was taken run to
  their end. Both are plain goroutines without locks of their own,
  `database/sql` hands its one connection out in order of arrival, and no query
  keeps rows open while it waits for another one (read.go:289-307).
- `LiveView`: handlers run to their end, requests are answered, a tab that is open
  connects again (its delays are at most ten seconds), and its stream is served.
- `Service`: a process and a command go on by themselves, and the manager restarts
  what its policy says. Nothing is assumed of which of two processes is first.

`Delivery` states no liveness; `NeverStuck` says with ENABLED that a request never
depends on the application to go on.

### What the properties say

- `StoredHasFiles`: a stored message can be served. Only a Clear at the same time
  takes files from a message that stays.
- `FilesHaveOwner`: a file without a row has somebody who is about to store or
  remove it. The exceptions are recorded in `stranded`: a removal that failed, a
  request or process that stopped half way, a raw file written partly, and a
  message that joined a conversation after `DeleteConversation` had listed it.
- `NoEmptyThread`: a conversation without messages has a `DeleteMessage` that is
  about to drop it. The exceptions are recorded in `torn`: that request was cut
  short, or a message slipped between the two DELETEs of `Clear`.
- `RefusedNotKept`: when the sender is refused, or the process dies before the
  commit, no row exists. So a sender that tries again does not fill the mailbox.
- `ReceiptsStayApart`: two messages that answer nothing never share a
  conversation, whatever their subjects and whatever was deleted before.
- `KeepsMailbox`: the refinement above.
- `EventuallyClean`: when all work is done the directory holds the files of the
  stored messages and nothing else, but for what was stranded.
- `EnvelopeIsItsOwn`: whatever was said on a connection before, a message has the
  sender and recipients of its own transaction, and from them its blind copies.
- `StoredOncePerAnswer`: 250 means stored, 451 means not stored, and a second copy
  exists only for an answer that was lost.
- `BlindCopiesRecovered`: who was blind-copied is told from the envelope again,
  with the two exceptions section 5 lists.
- `RepliesStayTogether`: headers that were composed, written, sent, parsed and
  stored lead a reply to the conversation of its ancestors, whatever was deleted
  or arrived meanwhile.
- `PagesAddUp`: a reader at the end has seen every conversation his query matched
  from his first page to his last, and none twice, but for what the property names:
  one that moved, one as old as a cursor, or a cursor that moved or was deleted.
- `LogTellsTruth`, `EveryAttemptIsARow`, `TwiceOnlyIfAnswerLost`: the log against
  what the application did. A reply is taken twice only after a lost answer,
  unless somebody retried while a request was under way or after a success.
- `NumbersWithoutGaps`, `RepeatsOverlap`: attempts may share a number only when
  they overlap, and none is left out.
- `QuietListIsFresh`, `QuietBadgeIsFresh`: when nothing is under way a connected
  tab shows the mailbox, except for an event or a list that did not reach it, a change that was not
  announced, or an older answer that came last. `EventuallySettled`: it becomes quiet.
- `OpenThreadIsCurrent`: what a quiet tab has open is the conversation that is
  selected, as it is, or nothing. The exceptions: an answer that came late or
  failed, a conversation that was deleted elsewhere, an event that did not come.
- `SavedFileBoots`: no crash and no pair of saves leaves a file the next start
  refuses. `NothingLeftBehind`: temporary files stay only after a crash.
- `SavesKeepTheRest`, `AnsweredIsInForce`, `QuietIsInForce`: a save that was alone
  changes what it names, is in force when it is answered, and what runs is what a
  restart would load.
- `KeyGoesHome`: a test never signs for a URL the stored key does not belong to.
- `RouteIsNearest`, `PageTellsTruth`: the route is the most specific one, and the
  page shows what a delivery would use and when a restart is needed.
- `SomebodyWins`: two starting processes never both give way. `ServesOnItsOwn`:
  a process that serves has its schema, and no foreign program on its ports that
  was there when it began.
- `EventuallyLeftAlone`: a supervisor does not restart a Mailman that cannot have
  its ports for ever. `CommandsKeepTheirWord`: a command that reports success has
  done what it says, from any registration and with any step failing, but for the
  failures it ignores.

## 4. The proofs

Each of the following holds for every value of the constants: any number of
requests, messages, tabs, processes or saves, any scene, any faults, any bounds.

| Module | Theorem | Statement |
|---|---|---|
| `MailStore_proofs` | `TypesCorrect` | `Spec => []TypeOK` |
| | `StoredHasFilesAlways` | `Spec => []StoredHasFiles` |
| | `NoEmptyThreadAlways` | `Spec => []NoEmptyThread` |
| | `RefusedNotKeptAlways` | `Spec => []RefusedNotKept` |
| | `ReceiptsStayApartAlways` | `Spec => []ReceiptsStayApart` |
| | `FilesHaveOwnerAlways` | `Spec => []FilesHaveOwner` |
| | `StoreKeepsMailbox` | `Spec => KeepsMailbox`, the safety of `Mailbox` |
| `Delivery_proofs` | `TypesCorrect` | `Spec => []TypeOK` |
| | `LogTellsTruthAlways` | `Spec => []LogTellsTruth` |
| | `EveryAttemptIsARowAlways` | `Spec => []EveryAttemptIsARow` |
| | `NumbersWithoutGapsAlways` | `Spec => []NumbersWithoutGaps` |
| | `RepeatsOverlapAlways` | `Spec => []RepeatsOverlap` |
| | `TwiceOnlyIfAnswerLostAlways` | `Spec => []TwiceOnlyIfAnswerLost` |
| `LiveView_proofs` | `TypesCorrect` | `Spec => []TypeOK` |
| | `QuietListIsFreshAlways` | `Spec => []QuietListIsFresh` |
| | `QuietBadgeIsFreshAlways` | `Spec => []QuietBadgeIsFresh` |
| | `OpenThreadIsCurrentAlways` | `Spec => []OpenThreadIsCurrent` |
| `Settings_proofs` | `TypesCorrect` | `Spec => []TypeOK` |
| | `SavedFileBootsAlways` | `Spec => []SavedFileBoots` |
| | `QuietIsInForceAlways` | `Spec => []QuietIsInForce` |
| | `NothingLeftBehindAlways` | `Spec => []NothingLeftBehind` |
| | `RouteIsNearestAlways` | `Spec => []RouteIsNearest` |
| | `PageTellsTruthAlways` | `Spec => []PageTellsTruth` |
| | `AnsweredIsInForceAlways` | `Spec => AnsweredIsInForce`, an action property |
| | `SavesKeepTheRestAlways` | `Spec => SavesKeepTheRest`, an action property |
| | `KeyGoesHomeAlways` | `Spec => KeyGoesHome`, an action property |
| `Service_proofs` | `TypesCorrect` | `Spec => []TypeOK` |
| | `SomebodyWinsAlways` | `Spec => []SomebodyWins` |
| | `ServesOnItsOwnAlways` | `Spec => []ServesOnItsOwn` |
| | `CommandsKeepTheirWordAlways` | `Spec => CommandsKeepTheirWord`, an action property |
| `Exchange_proofs` | `TypesCorrect` | `Spec => []TypeOK` |
| | `EnvelopeIsItsOwnAlways` | `Spec => []EnvelopeIsItsOwn` |
| | `StoredOncePerAnswerAlways` | `Spec => []StoredOncePerAnswer` |
| | `BlindCopiesRecoveredAlways` | `Spec => []BlindCopiesRecovered` |
| | `PagesAddUpAlways` | `Spec => []PagesAddUp` |
| | `RepliesStayTogetherAlways` | `Spec => RepliesStayTogether`, an action property |
| `Outbound_proofs` | `AncestorsAre` | `Ancestors` holds the ids the headers name, but for blanks, and no others |
| | `ReplySubjectIs` | `Key(ReplySubject(s)) = Key(s)`, for every subject |
| | `BuildIs` | `Parse(Build(m))` says what `m` says, but for blanks in the chain |
| | `RecipientsAre` | the envelope of a composed mail is everyone in an entry of his own; its blind copies are those of them no header names |
| | `DeriveBccOfBare` | of bare addresses, the blind copies are exactly the mailboxes no header names |

Every module has the same shape: an invariant that is inductive (`IInv`), a lemma
that it holds at first, one per conjunct that every step keeps it, with a step per
action, and then the theorems. Before they were proved, the inductive invariants
were checked by TLC on the instances of section 3.

### Assumptions

They are named and stand with the constants they are about; TLC evaluates each in
the runs of its module.

- `MailStoreAssumption`: the bounds are natural numbers, `Ops` and `Faults` name
  known kinds, and a message carries parts or does not.
- `DeliveryAssumption`: the set of requests is finite, "no route" is not a route
  and "no message" not a message, and the statuses the application may send are
  those the code takes for success (200 to 299) and for failure.
- `LiveViewAssumption`: a channel has room for one event, `Elsewhere` is not a tab
  and `NoThread` not a conversation, and scenes are made of what their fields say.
- `SettingsAssumption`: `Texts` is what a field or a part of a row may hold and
  contains the values the code tells apart; patches and hand-written documents
  consist of those, and domains and patterns of `Labels`. What the environment or
  the command line holds is neither blank, which is unset (config.go:265-310), nor
  refused, which would keep the program from starting.
- `StartupAssumption`, `ServiceAssumption`: the schema version is positive, the
  job is supervised, and the managers are the two the code knows.
- `ReadingAssumption`: the default page size is positive and no larger than the
  largest one (read.go:29-30).
- `ExchangeAssumption`: the connections are finitely many and no API requests, what
  is minted is Message-IDs, at least as many as there are ULIDs to give out, and
  scenes are made of what their fields say. `RCPT` gives one address without a
  display name, which is what go-smtp hands to `Rcpt`. What is stored at the start
  is `Sound`: keys are unique and rows name conversations that exist (schema.go),
  conversation ids are positive, nothing is later than the clock, and no blind copy
  is blank (parse.go:238). Nothing is assumed of who wrote it or of what its
  headers say.

### The store

The invariants are not inductive alone. They rest on two that are:

- `Basic`: the types, the foreign key (`ThreadOfRow`: a row names a conversation
  that exists) and that a request which looks at a message has one. The foreign
  key needs `MatchIsOpen`: what `ResolveConversation` finds is the conversation
  of a row, or a row of `conversations`, so it exists.
- `Bookkeeping`: what a request knows. A row exists only for a message whose
  `Ingest` committed. `DeleteMessage` holds files of its own target only; once it
  knows the conversation, the row is there or gone for good, and it is gone after
  the DELETE. What `DeleteConversation` has listed was in its conversation and can
  be nowhere else, so after the cascade all of it is gone.

From `Bookkeeping` follows that a file is only removed when its row is gone and
its `Ingest` is over, which is the step of `StoredHasFiles` that is not obvious;
with `InFlightHasFiles` (Ingest has written what it is about to commit) it is
inductive. In `NoEmptyThread` the step that matters is `DeleteRow`: the row it
deletes is in the conversation it remembers, so it is itself the one that will
drop it. `RefusedNotKept` is a consequence of `Bookkeeping`.

`ReceiptsStayApart` is inductive with `Basic`. A message that answers nothing names
no ancestor, so `Match` finds nothing (`OpenerMatchesNothing`) and it opens the
conversation after the last id given out; no row is in that one, because rows name
conversations that exist.

`FilesHaveOwner` needs one more inductive invariant, `Gathering`: only files that
belong to a message are ever written, and a `DeleteMessage` that is about to delete
the row holds every file of its message. So the file of a row that goes is
in the hands of the request that took the row, or of one of the cases the property
names (`Answered`).

`StoreKeepsMailbox` has one lemma for the initial state and one step lemma: each
action is a step of `Mailbox` or leaves it as it was, by `Basic` and
`Bookkeeping`.

### Reply delivery

- `Phases` and `RowsKnown`: where a request stands says what became of its message
  and of its bytes, and a row is the row of the request that wrote it, of a message
  that is stored.
- `OutcomesTrue`: what a request is about to record, and what is recorded, is what
  the application did. It is `LogTellsTruth` carried back to the moment the
  answer, or no answer, came.
- `Numbered`: the numbers in the log of a message are 1 to some k (`Gapless`), and
  the number a request has read follows every row that was there when it read
  (`NumberRead`), although other rows may come before it writes its own. Both are
  needed at once: without `NumberRead` a record could leave a gap, without `Gapless`
  the largest number plus one would be no successor of a prefix. `TypeOK` depends on
  it too, since the next number is the maximum of what is in the log.
- `OneAfterAnother`: of a message whose retries were all careful, no two requests
  are under way at once, and none after a success. That is what makes a second
  taking of the reply follow a lost answer.

### The live view

A change of the mailbox travels: a handler holds it, then a channel, then a
request for the list, then the list shows it. The invariant says that it is always
somewhere on that way.

- `ChangesReachTheList`: a change that the list of a tab does not show is held by
  a handler that will publish it, or queued for the tab, or a request is under way
  that will be read after it, or it is one of the exceptions of the property. When
  the tab is quiet only the exceptions remain, which is `QuietListIsFresh`.
- `HeldCountsAreSound`, `QueuedCountsAreSound`, `ShownCountsAreSound`,
  `FetchedCountsAreSound`, `NothingIsSound`: a count, wherever it is, was right at
  the version it was read at. `BadgeFollowsList`: the badge is no older than the
  list unless an older answer came last. So a list that is fresh has a badge that is
  (`QuietBadgeIsFresh`).
- `ChangesReachTheThread` is the same journey for the conversation a tab has open,
  with `RequestsAreForTheSelection` (a request that is not belated asks for what is
  selected) and `NothingIsOpen`; `SettingsAreNoChange` and `Handlers` say which
  events carry no change and what a handler holds at each of its steps.

The types are an invariant of their own in six parts (`ServerTyped` and so on), since
nearly every step needs one or two of them.

### Settings

- `Undisturbed`: a save that has had the file to itself since it read it is the
  only one under way. On it rest `Merging` (until the rename, what it will write is
  what the patch makes of the file that is there) and `Adopting` (afterwards the
  file is what it wrote, and what it is about to publish is what that file resolves
  to), and on those `InForce`, `AnsweredIsInForce` and `SavesKeepTheRest`.
- `Checked`: a save past its validation has a valid document that holds the patch
  and names no field another source holds. A valid document starts the program by
  itself (`ValidStarts` and the lemmas on `Resolve`), hence `SavedFileBoots`, in
  whatever order saves, crashes and hands follow.
- `AllRouted`: no configuration in force or about to be has a row for no domain
  (config.go:321, route.go:70-71). `RouteIsNearest` needs it, because `RouteFor`
  gives a recipient without a domain the top-level URL; the rest of it is arithmetic
  on suffixes: of two patterns that cover a domain the longer ends in the shorter.
- `Tidy` is `NothingLeftBehind` with the types of `temps`.

### Startup and service

- `Stages`: how far a process has come says what the schema is and which ports it
  holds; smtp comes before http. `AskedFor`: what it asked for was not held by a
  foreign program that was there when it began. Together they give `ServesOnItsOwn`.
- `PortsApart` and `SomebodyAhead`: while nothing else is in the way, a port has one
  owner, and whoever gave way, or is bound to, did so to a process that goes on or
  was ended by something else. Because smtp is bound first, a process can only lose
  at smtp: an owner of http would hold the smtp that the loser has. So two processes
  with one port each never wait for each other's.
- `UnderWay` and `Halfway`: a command is at a step of its script, and has what the
  steps before it left behind. `CommandsKeepTheirWord` follows at the last step,
  over the eight scripts one by one (`ScriptOf`).

### Mail in and out

The invariant follows a message from the moment its ULID is taken. What its columns
owe to its author is settled there and read by nobody in between, so it is stated of
messages that are pending and of rows alike.

- `NumbersOK`, `RowsOK`, `ConvsOK`, `MailOK`: the types, and that a pending message has
  its ULID for itself.
- `SessionOK`: a session in a transaction holds the beginning of its letter's
  recipients and nothing else (`Mid`), and has nothing between two (`Orderly`); a
  pending message says which letter it is. With it `DATA` stores the envelope of
  its own transaction, and `OwedOK` keeps that, and what `RecipientsAre` and
  `DeriveBccOfBare` say of its blind copies, until and after the commit.
- `SenderOK`: the account of a letter (`Square`): the copies kept, with those that may
  still be kept unheard, are no more than the answers lost, the 250 that was heard,
  and the sessions whose 250 is on its way. It balances because a letter is with one
  live session at most. `StoredOncePerAnswer` alone is not inductive: when a
  connection breaks before the commit the answer is lost at once and the copy is
  stored later, so the account must keep room for it.
- `LineageOK`: of the stored messages a message descends from, its references name
  every one that has an id. A reply gets it from its parent and `AncestorsAre`, and
  `BuildIs` takes it through the headers; a deletion or an arrival cannot break it,
  because a new ULID is in nobody's line. So when a message commits, what `ByAncestors`
  finds is one of those the property speaks of (`FitsIs`), and when it finds nothing
  the subject leads to the parent's key (`ReplySubjectIs`).
- `ReaderOK`, `BelowOK`, `AboveOK`: between two pages, what the reader has not seen is
  at the cursor or below it, and what he has seen at it or above, unless it or the
  cursor moved or was deleted. `PageIs` says what one page is: all of the rest of the list, or the top of
  it down to the next cursor. `PagesAddUp` is inductive with these.

`NextIs`, `StoreSteps`, `IngestSteps` and `SessionSteps` sort the actions by what they do to
the part of the state a conjunct is about, so that each conjunct is proved once per
kind of step.

The folds of `Outbound` and `Threading` (`FoldLeft` over headers, recipients and
references) are followed step by step. The library's induction theorems take a
predicate as a parameter, which the provers cannot instantiate; in `Lists_proofs` its
place is taken by the set of the numbers that have it (`Induct`), and `FoldFound`
unfolds a fold of the library by one step. For this the loops are written
as folds and a page by the rank of its rows, rather than with `SelectSeq` and `SortSeq`,
which the prover cannot unfold.

### Not proved

- `EventuallyClean`, `EventuallySettled`, `EventuallyLeftAlone`: liveness under
  fairness is beyond the proof system. `NeverStuck`: ENABLED is.
- The refuted properties.
- About `MailStore` no more of `Match` is used than that it finds conversations that
  exist, and none for a message without ancestors. Which one it finds is proved where
  mail is composed and answered, in `Exchange_proofs`.

## 5. What the code does that its comments do not say

Five have a run that shows them:

- **A deleted message takes an answer with it** (`store_lost`). `DeleteMessage`
  deletes the row, counts what remains and drops the conversation, in three
  statements. A reply that joins the conversation by its subject after the count
  is deleted by the cascade, although its sender was told it was accepted. The
  doc (write.go:286-287) has a conversation go when it is "left with no messages".
- **Something else writes there** (`store_wiped`). `Clear` rebuilds the
  directories because "nothing else writes there" (write.go:375-376), but Ingest
  writes its files before its transaction. A message between the two keeps its
  row and loses its files.
- **A hint that was missed stays missed** (`live_missed`). Clients "treat the
  stream as a hint to refresh" (events.go:6-7), but after a reconnect a tab
  refreshes its badge from the hello and not its list (App.tsx:108-110), so mail
  that arrived in the gap is not listed until something else happens.
- **Some tests go out unsigned** (`settings_unsigned`). `testWebhook` looks the
  stored key up under the exact domain (settings.go:425), so a test of a wildcard
  route, or of one that inherits its key, is not signed, which the comment above it
  says it avoids.
- **An answer shifts the page boundary** (`exchange_shifted`). Keyset paging is said
  to keep mail that arrives from duplicating rows (handlers.go:35-37); the cursor
  is an id whose place is looked up when the next page is read (read.go:72), and an
  answer moves it. The web client asks for no second page yet.

Others are exceptions that a property names:

- `DeleteConversation` "removes a whole thread and its files" (write.go:328); the
  files of a message that joined after the list was read stay.
- A cancelled `DeleteMessage` and a `Clear` that met a new conversation leave a
  conversation without messages; `DeleteConversation` answers 404 for it
  (write.go:334), so only another message or a `Clear` removes it.
- The answer to a request for a conversation is shown whatever is selected by then
  (App.tsx:78, 142), a deletion that is answered closes what is selected by then
  (App.tsx:184, 197), and a conversation deleted elsewhere stays open: the event
  makes the tab ask for it, and a 404 is ignored (App.tsx:143).
- A raw file that was written partly stays: `Ingest` returns before its clean-up
  (ingest.go:46-48). Nothing looks for leftovers of a crash at the next start.
- Conversations of the cursor's second are on no further page, and a cursor
  that was deleted gives an empty one (read.go:71-74).
- `Recipients` skips an entry that holds a list (compose.go:176), although lists are
  said to arrive that way (compose.go:199-200): those people are in the headers
  and not in the envelope. A reply to lists only has an empty envelope, so the
  top-level URL takes it (reply.go:212-215) while the payload names the first of
  `To` (payload.go:392-403).
- An injected recipient with a display name is shown as a blind copy as well: the
  envelope keeps the name and the comparison with the headers does not.
- `NewReply` does not pass on the In-Reply-To of a parent without References, where
  its comment speaks of "exactly RFC 5322's rule" (reply.go:20-24).
- A reply to a message without a Message-ID or a chain joins the conversation with
  its subject that was active last, which need not be its parent's.
- A row that cannot be written makes the result say "not routed" although the
  application took the mail (reply.go:174-178), and a message deleted meanwhile
  takes the attempt's row with it.
- A save by hand and a save by page, or two saves, undo each other's fields: the
  file is read and replaced without a lock, and the order of publishing need not
  be the order of the files.
- A route whose domain was written by hand with a capital loses its key when the
  page saves the table (settings.go:335), and two spellings of one domain are
  merged in map order.
- A bind lost after preflight exits with an error even under a supervisor: one more
  start, and not the clean exit of a conflict that preflight saw. So does the
  loser of two migrations (schema.go:92).
- launchd starts a Mailman with a broken configuration again for ever, where
  systemd stops at its start limit.
- `uninstall` ignores a `bootout` that fails and then removes the unit of a job
  that runs; `install` ignores an `enable` that fails, after which `bootstrap` on
  a disabled label does nothing and reports nothing.

And some were met on the way and concern what no property looks at:

- `recover` wraps outside `log`, so its response writer is never the
  `*statusRecorder` it asks for (server.go:178, 279).
- A Mailman that has bound its port and does not serve yet is reported as a foreign
  program.
- The settings page has no fields for a route's `timeout_seconds` and `verify_tls`
  written by hand; saving the table drops them.

## 6. What is not modelled

Left out with a component:

- *Store*: what SQLite loses at a power failure under `synchronous(NORMAL)`; a crash
  is the death of the process. The attachments of a message are one payload,
  written, listed and removed together; `RemoveAll` of a directory is one step, or
  a step that fails after removing any part. Empty directories are not state. A
  request that finds nothing at its first look (404) changes nothing and is left
  out. Foreign processes that write to the data directory are not modelled.
- *Exchange*: MIME bodies, parts and warnings, AUTH (which takes anything and changes
  nothing), the time-outs of go-smtp, reads of a single message. Files and the
  statements of a deletion are `MailStore`'s.
- *Delivery*: payloads, redirects of the HTTP client, the text of errors. An
  application takes a mail in one step.
- *LiveView*: the search query, the delivery log and the notifications of a tab, and
  that it marks a conversation as read only when it shows it. A change is a new
  version, whatever it touches; only with an open conversation does it matter which
  one.
- *Settings*: what exactly makes a value malformed, a route's timeout (inherited like
  its format), file modes and what a power failure takes.
- *Startup, Service*: who owns a port that answers, the five seconds of `Shutdown`
  (an Ingest under way is cut off as by a crash, see `MailStore` and `HangUp`), the
  text of the units. The window of systemd's start limit is taken not to end (five
  starts five seconds apart fall well inside its 300 s, systemd.go:61-70), and a
  stopping job to have ended when the command returns.

Left out altogether: the payload formats and signatures (a pure function of one
message), the HTTP plumbing and JSON of the API, the rendering of the client and
the HTML proxy. They keep no state and take part in no protocol.

## 7. What is left

Every module of the plan is written, and every safety property of the runs that hold
is proved but `NeverStuck`, which speaks of ENABLED. The three liveness properties and
`NeverStuck` rest on the instances of section 3.

Further than the plan goes: the payload formats and their signatures, as functions of
one message; and the statements of a deletion under a reader who pages, which
`Exchange` takes as one step.
