# Monal in TLA+

This directory is a verification project for Monal, an XMPP client for iOS and
macOS written in Objective-C. It models the parts of the client whose
correctness depends on the order in which threads, timers, the server and the
network act, checks them with TLC on small instances, and proves the central
facts for every instance with TLAPS. The modelled target is iOS: where the code
differs by platform, the iOS branch is taken. Line numbers refer to
`Monal/Classes/xmpp.m` unless another file is named.

| modules | what they are |
|---|---|
| `StreamManagement` | the record of unacknowledged stanzas (XEP-0198): numbering, resumption, crashes |
| `Arrays` | subsequences: what a filtered `NSArray` is |
| `StreamManagementClaims`, `MCStreamManagement` | statements of comments the code does not keep; small instances |
| `ArraysTheorems` | facts about sequences and queues that the proofs share |
| `StreamManagementTheorems` | proofs |
| `Connection` | connecting, disconnecting, reconnecting, timers |
| `ConnectionClaims` | statements of comments and headers the code does not keep |
| `ConnectionTheorems` | proofs |
| `Inbox` | abstract: what arrives is stored, unless a kill cuts it |
| `InboundMessages` | counting, acknowledging, decrypting and storing of messages; implements `Inbox` |
| `InboundTheorems`, `InboundSessionTheorems` | proofs: what the client does with a message; what it and the server count |
| `SendTimers` | the timer that marks a message undelivered, and the notification that it was written |
| `Outbox` | links shared by the extension, sent by the app |
| `SendTimersTheorems`, `OutboxTheorems` | proofs |
| `Presence`, `MCPresence` | presences as statements on the database queue; small instance |
| `PresenceTheorems` | proofs |

`tlc -config X.cfg M` checks a configuration, `tlapm M.tla` the proofs of a
module. `PROJECT.json` lists the runs, what each definition translates, the
hazards with the properties that cover them, the findings and the theorems.

## The system

One `xmpp` object per account holds a connection; `MLXMPPManager` holds the
accounts; `DataLayer` is a singleton over SQLite. These threads matter:

| thread | what runs there |
|---|---|
| main queue | stream events (`stream:handleEvent:` 3593), user interface, the deferred part of `sendUnAckedMessages` (1140) |
| `networkQueue` (one per account, serial) | reading, framing, writing, recording of sent stanzas, closing and cleaning up |
| `processQueue` (one per account, concurrent) | one operation per element read, the body of `processInput` (1262-2592) |
| global background queues | login timer (448), ping timer (794), delayed connects of `reconnect:` (661) |
| `_netQueue`, `_contactQueue` | sending on behalf of the user interface, database reads and writes |

There are no locks. What keeps threads apart is the serial `networkQueue`, and
that `reconnect:` and `closeSocket` cancel whatever waits on it; flags
(`loginStarted`, `reconnectScheduled`, `loggedInOnce`, `explicitLogout`) and
`accountState` are read and written from every thread.

### Inventory

For each component: the state it keeps, its operations, how it meets the
others, what is hard about it, and what makes it correct.

**Stream management, outbound** (`send:` 2611, `removeUnAckedMessagesLessThan:`
1168, `sendUnAckedMessages` 1126, `persistState` 2829, `readState` 2887).
State: `unAckedStanzas`, `lastOutboundStanza`, `streamID`, `supportsSM3`, and a
copy in the user defaults. The handlers of `enabled`, `resumed`, `failed` and
`a` change it from processQueue, the operations of `send:` from networkQueue,
and the deferred resend from the main queue. Hard: a crash between two saves,
a session replaced while stanzas wait, cancelled operations, a copy written
back. Correct if an acknowledgment removes exactly a prefix of what was sent,
the numbering continues across crashes and resumptions, and no message leaves
the record before the server has it. *Modelled: StreamManagement.*

**Stream management, inbound** (1264, 1196-1247). State:
`lastHandledInboundStanza`, in memory and saved. Each handler on the concurrent
processQueue reads, increments and writes it, then stores the message; `connect`
reads the saved one back. Hard: lost increments, an acknowledgment sent before
the message is stored, a counter older than the session. Correct if the server
is never told of more than the client has read, and if what it forgets is in
hand or stored. *Modelled: InboundMessages.*

**Connection lifecycle** (`connect` 408, `reconnect:` 661,
`disconnectWithCompletion:` 595, `closeSocket` 495, `cleanUpState` 556,
`sendPing` 832, `stream:handleEvent:` 3593; `MLXMPPManager.m` 191-480).
State: `accountState`, the flags, two timers, blocks waiting in
`dispatch_after`, the two streams. Everything above can be cancelled or
overtaken. Correct if the account always gets back to one live connection unless
it was refused, suspended or logged out, and if a logged-out account has none.
*Modelled: Connection.*

**Negotiation and authentication** (2056-2194, 2399-2592). State: the stream
features and flags such as `startTLSComplete`. Correct if credentials are sent
only on a stream that satisfies the account's settings and every order of
features ends in a bound session or a reported error. *Partly: features after
authentication, bind, enable and resume in StreamManagement, the two answers
and a refusal in Connection. The order of STARTTLS, SASL and legacy
authentication, one request and one answer at a time, is not modelled.*

**Stanza framing** (`readToBuffer` 3895, `nextStanza` 902). State: a string
buffer appended in chunks. Correct if any chunking yields the same elements.
*Not modelled.*

**Incoming messages and history** (`MLMessageProcessor.m`, `DataLayer.m`
1489-1587). A message is decrypted, looked for, and inserted when the type of
its link is known, each step on another queue. Correct if a message is stored
once and readable whatever arrives concurrently, again, or from the archive.
*Partly: single chats in InboundMessages. Left out: group chats (the search for
a duplicate compares the room with the sender and never finds one, 1570),
receipts, carbons, key exchange.*

**Send timers** (`MLXMPPManager.m` 486-541, 835-870). `timerList` without a
lock. Correct if the history shows what became of a message. *Modelled:
SendTimers.*

**Outbox** (`MLXMPPManager.m` 916-964, `ShareViewController.m` of the
extension). A list in the shared defaults that two processes write. Correct if
each link is sent once. *Modelled: Outbox.*

**Presence and resources** (1862-2040, `DataLayer.m` 824-898, 1066-1140).
Several statements per presence, and resets. Correct if a contact is shown
online only while it is available and none of its resources is missing or left
over. *Partly: Presence. Left out: rooms, contacts added or removed by hand,
subscription requests, status texts, capabilities.*

**OMEMO key store** (`MLSignalStore.m`, `manageMyKeys` 3196). Identities, trust,
sessions, pre-keys. *Not modelled, but for what decryption does to a message.*

**IQ requests, discovery, roster, archive, vCards.** Requests and the records
of what was answered. *Partly: the requests of `initSession` and the results
that remove them from the record in StreamManagement, the query of the archive
in InboundMessages, the roster answer in Presence.*

**HTTP upload** (a queue of completions which `resetValues` 553 drops) and
**Jingle calls** (one call at a time over jrtplib). *Not modelled.*

**Not modelled:** account registration (a connection of its own that never
reconnects), the schema migrations and read-only queries of `DataLayer.m`, the
parsing of elements into objects and XML nodes, the name lookup (its outcome, a
server or none, is in Connection), notifications and the registration for push
(`pushEnabled` is in Connection), images and avatars, and the user interfaces of
iOS and macOS, whose calls are the user's actions in the models. None of these
keeps state that several actors change. Of the share extensions Outbox has what
they write; the rest is user interface.

## StreamManagement

State and actions follow the code by name. An operation waiting on
`networkQueue` is an element of `netQueue`; the head is executed by the action
named after what it does (`Track`, `Write`, `RemoveUnAcked`, `Resend`, `ResendSaved`,
`Clear`, `Close`, `Suspend`, `Cleanup`). `send:` queues a pair: one operation
that numbers and records the stanza, one that writes it. An element that was
read can be handled at any time and in any order (`HandleEnabled`,
`HandleResumed`, `HandleResult`, ...); where a handler's effect is not one step
it leaves a continuation in `running` (`FinishResumed`, `DispatchResend`,
`FinishClean`). `persisted` is the saved state, `Crash` forgets the rest. The
server (`Srv...`, `Receive`) counts what it gets, acknowledges, ends, resumes or
refuses sessions.

Assumptions:

- A connect is attempted on a closed link and with no handler pending, an
  account is logged in again after the cleanup of the old object, and the
  stream is authenticated with `netQueue` empty: seconds against microseconds,
  and the order of reads on networkQueue.
- Stanzas sent before authentication reach no session and are dropped.
- `requestSMAck` and its answer are one server step per new count.
- What `initSession` and a resumption send is a constant sequence; push and
  OMEMO requests sent before `enabled` are not recorded and are left out.
- `accountState` has no `HasStream`: nothing here distinguishes it.
- `Crash` is possible at any time.

| run | what it asks |
|---|---|
| `stream_management` | one message, a disco query and the presence that answers it, three connections, record limit 1: `TypeOK`, `NumberingSound`, `TrackFindsCounter`, `SavedNumbering`, `ServerNotAhead`, `WrittenIsSaved` (what goes out with a number is on disk), `HandshakeKeepsMessages` |
| `stream_cleared_unsent` | `SentBeforeCleared` is violated: without stream management the record is emptied before its resend is queued (3061) |
| `stream_ack_off_by_one` | `OnlyDeliveredRemoved` is violated: an acknowledgment removes one stanza too many (1181) |
| `stream_logout_erases` | `LogoutPreserves` is violated: the cleanup erases what the logout has saved (558) |

Bounds: `MaxConnects` is the number of connects; three is what a resumption of
a resumed stream and a crash after it need. A message and a stanza of the
client's own, or two messages, are what an order between stanzas needs.
`ResendLimit`, 25 in the code, is 1, so that a record exceeds it. No fairness is
assumed: the properties are about what may not happen.

`WrittenIsSaved` spans the two operations of `send:` and everything that may come
between them or between a stanza and its resend: a message that is written with a
number on a live stream is in the saved record at that moment, whoever replaced,
filtered or emptied the record meanwhile. The exception is a record above the
limit, whose messages are in `dropped`.

`HandshakeKeepsMessages` is about the steps of a stream that goes on. It leaves
out, each because it does lose messages: an acknowledgment and the clearing of the
record, which have runs of their own that show so (`OnlyDeliveredRemoved`,
`SentBeforeCleared`); the copy that `cleanDisco` writes back; a dead link, a
teardown, a cancelled queue, a suspend, a logout and a crash, after which the
record, and no longer the queue, is what can be sent again.

What the model shows beside the three findings, and the properties allow for: the
counters of client and server drift apart when `reconnect:` cancels the write of
a stanza that was numbered (664), which is why `ServerNotAhead` is one
inequality and not an equality.

Sizes of steps: `Track`, `HandleResumeFailed` and `HandleEnabled` are the whole
block of code, with the `persistState` at its end. A crash inside such a block
leaves on disk what a crash before it leaves, since nothing is saved before the
end, and memory is gone. What another thread could see of a half-done block is
not modelled; the reads of these variables by other threads are the hazards of
`send:` (2619) and `cleanDisco` (2808), which are steps of their own.
`HandleResult` stands for the answers to the client's own queries. The code runs
`cleanDisco` for every iq with disco information (1267), also for a query of
another entity; the model has no such iq.

## Inbox and InboundMessages

`Inbox` is the promise: messages arrive, each is stored at last, and only a kill
may cut one short. `InboundMessages` is how the client keeps it. Its state is
what the code has: `lastHandled`, `streamID` and their saved copy; the elements
of the stream (`s2c`), the operations of processQueue that have not started, the
handlers under way, each at one of three steps (`Count` reads the counter when
the handler starts and writes it later, `Open` decrypts, `Store` asks the
database); the statements on `_dbQueue`; the look-ups of link types; and the
rows of the history. processQueue, handlers and look-ups are bags, since a
message may be there twice. The server keeps a session with its unacknowledged
stanzas, delivers them again on a resumption, keeps messages offline, and
answers the query of the archive.

The refinement: `arrived` is what the server holds for the client, what the
client has in hand, what is stored and what a kill hit; `stored` the messages
with a row; `cut` what the client had in hand when it was killed. `Insert` is a
`Store`, `Crash` a `Kill`, `Arrive` an `Arrive`, and everything else, notably
every acknowledgment, must leave all three alone.

| run | what it asks |
|---|---|
| `inbound_two_messages` | two messages, one encrypted, one without an id, one fault: `NeverOverclaims` (the server is never told of what was not read), `InboxSafety` (the refinement), `DuplicateNeedsOverlap` and `UnreadableNeedsRace` (what causes two rows, and a row that shows an error) |
| `inbound_delivery` | one message, three faults of which one is a kill, `FairSpec`: `InboxSpec` (the refinement with liveness: each message is stored at last), `TypeOK` |

Bounds: `Newest` is the number of messages, `MaxFaults` the lost links,
teardowns and kills, of which `MaxCrashes` may be kills. Two messages are what
a lost increment, a stanza behind another, and a message of the archive beside
one of the stream need; three faults lose a resumption, what it resends, and the
session that follows. The second run has one message, because a liveness check
of two is out of TLC's reach in the time a run may take. The proofs hold for any
bounds.

`FairSpec` assumes that operations of the queues run, that a look-up returns,
that the server answers, and that a lost connection is noticed and another made,
which is what Connection shows. It does not assume that anything stays
connected: the number of faults is bounded instead.

What the runs say about the code: although increments of the counter are lost
(1264) and a state older than memory is read back, the counter errs on one side
only, so that a resumption brings a message twice rather than never. The price
is paid by the two properties about duplicates: the search for an existing row
and the insert are separate statements, so two copies in hand at once may both
be stored, and the second decryption of an encrypted one fails. A message that
comes without an id (`Untraceable`) is given a new one for each copy
(`MLMessageProcessor.m:112`), so that the search never finds it and a resumption
or the archive adds a row every time: `DuplicateNeedsOverlap` excepts it.

Assumptions: the server supports resumption; `Connect` waits until the handlers
of the previous stream have run; a report that tells nothing new is left out;
the link is one stream at a time. Only messages are counted, as only they are
handled in several steps. Left out are group chats, receipts, carbons and the
exchange of keys.

## SendTimers

`RunSend` and the timers are on `_netQueue`, `WriteOut` and the search that
`handleSentMessage` makes on networkQueue; `netAt` and `sentAt` are the two
searches through `timerList`, each of which finds an index and removes, as a
further step, what is there by then. An array changed while it is enumerated,
and an index past its end, raise an exception, which ends the process
(`ListRaises`). `Insert` is the row of the history: before the send for a chat,
at any time for a shared link.

| run | what it asks |
|---|---|
| `send_timers` | a message of a chat and a shared link, one retry, one resend, one kill, `FairSpec`: `DeliveredIsWritten` and `FailedIsUnwritten` (what the history shows is what became of the message, but for the causes named), `OutcomeShows` (each message gets an outcome), `TypeOK` |

`excused` collects messages that a kill, an exception, a removal by a stale index
or a late row has hit, `crossed` those retried or written while their timer
fires; each is needed. `FairSpec` assumes that blocks run, look-ups end and
timers fire, not that a stream takes a message. Two messages are what a removal
of the wrong entry needs; a retry and a resend give each message two timers and
two writes.

## Outbox

The extension reads the outbox and writes it back with one row more (two
steps, another process). A run of `sendOutboxForAccount` copies the outbox and
queues a message for each row; the completion of each writes the run's copy back
without it, after queueing the comment if there is one.

| run | what it asks |
|---|---|
| `outbox` | two links, one with a comment, three runs, one kill: `OutboxOnce` (a row goes to an account once, and is not lost before), `CommentFollowsRow`, `TypeOK` |

`crossed` is the list of ways in which the copies collide: the extension adds
while a run is under way, two runs have the same row, a kill comes between the
message and the outbox. Everything else is right, which is what `OutboxOnce`
says. No fairness is assumed.

## Presence

Handlers of processQueue (`Threads`), and networkQueue for the reset in
`cleanUpState`, issue statements to `_dbQueue`: `Issued` lists them for each kind
of work, `Awaited` those the thread waits for. A completion queues what follows
behind what came in between, as it does in the code. One contact stands for all.
A presence comes from a resource or from the address alone (`Nil` in `Sources`);
the latter inserts and deletes no resource but does set the contact online
(`DataLayer.m:1068`, 1113). A new session brings the answer to the roster query,
which adds the contact if its subscription is "both" (1587) and otherwise leaves
it alone, and then its presences; those of a contact that is not in the list are
dropped. The server has no stream management, counts without resuming, or resumes
(`server`), and what was not read in a session that is resumed comes again.

| run | what it asks |
|---|---|
| `presence` | two resources, two threads, two presences, teardowns, suspends or kills: `OnlineIsTrue` (no resource is there that is gone; a contact with a resource is online, and one without only if it is available without one), `MissingNeedsReset` (a contact in the list lacks none of its resources), `TypeOK` |

The exceptions are the hazards: `crossed` (a presence that adds overlaps one
that removes, a reset, or the answer that adds the contact, or a kill hits one),
`emptied` (a teardown has reset the contacts of a session that is then resumed),
`left` (a session without resumption was left by a suspend and nobody reset).
Each is needed: without it the property fails. Resources and threads are
interchangeable, and the run uses the symmetry; it therefore checks no liveness.
Two threads and two resources give every overlap of two kinds of work, and two
events a change during the recovery from a lost stream, or two losses.
`AtTwoPlaces` in `MCPresence` bounds the run to a contact that is available at two
of its three sources at a time; the proofs have no such bound.

Assumptions: the count of handled stanzas is right (InboundMessages' subject),
and a connection is made when the handlers of the one before have run. Left out:
contacts that the user adds or removes by hand, roster pushes that add or remove
one during a session, and group chats, whose presences are recorded elsewhere
(2005).

## Connection

`queue` is networkQueue: `reconnect:` replaces it by its own block (`Reconnect`)
and `disconnectWithCompletion:` by closing and cleanup (`DisconnectThen`), the
completion of which is part of the name of the cleanup operation. `delayed`
counts the blocks in `dispatch_after`, `connecting` the calls of `connect` that
look up the server, `loginTimer` and `cancelled` are the login timer and the
cancel handlers that have not run, `handlers` what waits on processQueue.
Negotiation is two answers of the server, the first of which logs in and the
second binds. `stream.turn` follows the bytes: with the server, arrived,
signalled, read; a cancelled operation in between loses them, as it does in the
code. `strays` are open streams whose reference was overwritten. `User` has the
calls of `MLXMPPManager`: reachability and the pinger (`CallPing`), the app
coming to the foreground (`CallForeground`), a push message (`CallWake`), its
expiry (`CallSuspend`), and the logout.

`Spec` interleaves everything. `PromptSpec` lets local work (networkQueue,
processQueue, stream events, cancel handlers) go before timers, lookups, the
network and the user: milliseconds against seconds. The interleavings of local
work among itself remain. `FairSpec` adds weak fairness of what the system runs
by itself: queues are served, timers fire, lookups return, and the server
answers what it receives. It is not assumed that streams break, that pings are
answered, or that anyone calls.

| run | what it asks |
|---|---|
| `connection_keeps_trying` | two faults and two calls of any kind, without push, `FairSpec`: `KeepsTrying` (never left unconnected with nothing pending), `BoundHasStream`, `SettlesConnected` (ends up connected for good), `TypeOK` |
| `connection_interleavings` | one fault, one call, with push, `Spec`: `ScheduledMeansPending` (a leftover `reconnectScheduled` never blocks a disconnected account) |
| `connection_push_stream_end` | `EndReconnects` is violated with push enabled |

Bounds: `MaxFaults` counts streams that break, elements that refuse, and login
timers that expire before the server answered; `MaxCalls` the calls from
outside. Two of each give a fault during the recovery from another, with a call
in between. The state space is finite without further bounds.

What the runs say about the code:

- Without push the machinery of flags is right: `KeepsTrying` and
  `SettlesConnected` hold. In particular the look at `reconnectScheduled` in the
  cancel handler of the login timer is needed; without it every attempt would
  take down the one before it for ever.
- With push enabled `reconnect:` does not tear down and schedules a block that
  acts only below `kStateReconnecting`, while the end of a stream, the ping
  timer, the cancel handler and `sendPing` set exactly that state before they
  call it. The account stays there until `setClientsActive` or a ping in the
  foreground finds the login more than ten seconds old; a push message
  (`connectIfNecessary`) skips it.
- `connect` looks up the server between its checks and its effects. A logout or
  a login timer in between is not noticed.
- Races inside milliseconds are left out of `connection_keeps_trying` on
  purpose, and it would fail with `Spec`: the end of the stream while the
  handler of the first `<success/>` runs is ignored (3777), and a
  `reconnect:` that finds a login under way has already cancelled that login's
  stream header. These are listed as hazards.

Left out: registration and OAuth, the streams' separate input and output
halves, `createStreams` finding no address, the five-second stream timer, which
is cancelled as soon as opening has been started, and the content of a session.
An account that the login timer wants to reconnect is taken to be enabled.

## Proofs

Every safety property that a run checks is a theorem for all values of the
constants; the liveness properties are model-checked only.

`StreamManagementTheorems` proves, for any messages, control stanzas, session
sequences, limits and number of connects, under `StanzaAssumption`,
`BoundAssumption` and `NilAssumption` (no number and no record is Nil):

- `TypeCorrect`: the type invariant;
- `NumberingIsSound`, `SavedNumberingHolds`, `TrackAlwaysFindsCounter`,
  `WrittenWasSaved`, `ServerNeverAhead`, `HandshakeLosesNothing`: the
  properties of the runs with these subjects.

None of them is inductive alone. Those about the client's own numbering rest on
`IInv == TypeOK /\ Numbers`, where `Numbers` says that (`NumbersKnown`) a
recording client has a counter, also one whose recording operation still waits
in the queue, (`SavedNumbering`) disk and memory agree, (`NumberingSound`) the
record and every copy of it are increasing and below the counter, and
(`SavedSound`) so is the record on disk. `SavedSound` carries the numbering
through a crash, `NumbersKnown` through the gap between queueing and running.
One lemma per part and action shows that steps keep it; `ArraysTheorems` has the
facts about subsequences that the filters of the record rest on.

`ServerNeverAhead` compares two counters that are never changed together. Its
invariant `Counting` counts what is between them:

- `Paired`: in `networkQueue` the operation that numbers a stanza is followed at
  once by the one that writes it, so at most one numbered stanza at the head
  waits to be written (`Pending`);
- `Negotiation`: a request of the client or its answer is alone on its way
  (`Asking`, `Asked`, `Answered`), and until the answer was read nothing numbered
  is queued or on the wire;
- `Fresh`: an `<enabled/>` on its way names a session of which the server has
  counted nothing yet that has a number;
- `Covered`: what the server has counted of a session, plus the numbered stanzas
  under way, is at most the client's number for it plus the stanzas it sent
  without one. It holds of the session in memory and of the one on disk, which is
  what a crash brings back.

An operation that is cancelled between numbering and writing makes the left side
smaller, never larger: this is the drift that the inequality allows.

`WrittenWasSaved` is about the moment of a write, and its invariant `Live` about
the stanza that waits for one, the `Pending` of `Paired`. `PendingSaved`: on a
live stream the saved record has it, or the limit dropped it, whatever was saved
after it. That there was a record to put it into is `RecordThere`: while a stanza
waits to be numbered on a live stream the record is not Nil. What could make it
Nil under such a stanza is a logout, which closes the stream before anything else
(`Leaving`), or the copy of a cleanup, which is Nil only if the record is
(`CleanCopies`). `LiveWire` says that nothing is sent on a dead link.

`HandshakeLosesNothing` is an action property, proved from typing, `Paired` and
`LiveWire`: on every step of `KeepsMessages` while the user is not logging out,
what was in `Held` (messages to be sent, recorded, queued, on the wire or handled)
stays there or was dropped with a record above the limit. A handler on processQueue leaves the
queue as it is or lengthens it, and what it takes out of the record it queues
again; the operation that numbers a stanza leaves the queue with the one that
writes it at its head, which is why the pair matters; a resend queues what the
copy it was given has; the server takes an element off the wire only to handle
it.

`ConnectionTheorems` proves for `Spec`, hence for every interleaving and any
bounds, under `ConnectionAssumption`:

- `TypeCorrect`: the type invariant, whose part about the stream (the server's
  turn comes at most twice) makes the rest inductive;
- `ScheduleNeverForgotten`: `ScheduledMeansPending`, by induction over the
  actions from typing alone.

For `PromptSpec`, in which they hold, it proves

- `BoundKeepsStream`: `BoundHasStream`, with and without push;
- `NeverGivesUp`: `KeepsTrying`, without push (`~SupportsPush` is its
  hypothesis: with push it is false, as `connection_push_stream_end` shows).

The first rests on `Orderly`: with local work done before anything slow
happens, `networkQueue` executes one operation (`Now`) and perhaps a cleanup
after the closing of the socket (`After`); bytes that are read and the handler
they lead to are alone; a stream that ended has nothing queued before its event.
`BoundStream` then says that a bound account has an open stream, or one whose end
is still to be dealt with, or a cleanup that will reset the state. The second
adds what the flags say (`Flags`: `loginStarted` of a disconnected account means
that a connect is scheduled, and one that logged in has it reset), that a ping is
outstanding only while nothing is starting (`Pinging`), that a stream which was
answered belongs to an account that has got as far (`Advanced`), and `Trying`:
the queue will tear down and reconnect (`Closing`), or will reconnect and the
flags let it (`WillReconnect`), or the connection is on its way (`Underway`: a
delayed connect below `kStateReconnecting`, a lookup or a running login timer in
it, an open stream with somebody's turn above it), or the app has suspended the
account and left it as after a cleanup (`Dormant`).

`SendTimersTheorems` proves, for any messages, retries, resends and kills, under
`KindAssumption`, `BoundAssumption` and `NilAssumption`:

- `TypeCorrect`: the type invariant;
- `WrittenStaysDelivered`: `FailedIsUnwritten`. Strengthened by `Tidy`: unless
  it is crossed, a message is sent at most once (`SentOnce`), has at most one
  timer (`OneTimer`), and once it is written no timer that can still fire finds
  its entry, except until `handleSentMessage` has cancelled it (`Settled`);
- `DeliveredWasWritten`: `DeliveredIsWritten`. Strengthened by `Followed`:
  everything on a queue or a list was sent by the user (`Origins`), and who
  would mark an open message undelivered, a timer with its entry or a search
  that will find it, exists (`Watched`).

`OutboxTheorems` proves, for any rows, runs and kills, under `ShareAssumption`,
`BoundAssumption` and `NilAssumption`:

- `TypeCorrect`: the type invariant;
- `CommentsFollowRows`: `CommentFollowsRow`. The comments that went out and
  those still queued are at most the rows that did (`CommentsCounted`);
- `RowsSentOnce`: `OutboxOnce`. `Ordered` says for a row that is not crossed:
  before it is shared it is nowhere, while the extension has it nothing is under
  way, in the outbox it waits for one block of the last run, the copy of each
  active run has it as long as the outbox does, and outside it was sent.

Both rest on `ArraysTheorems`: what `Append`, `Tail`, `\o` and `RemoveAt` do to the
elements of a queue and to their number.

`InboundTheorems` proves, for any messages, faults and kills, under
`MessageAssumption`, `FaultAssumption` and `NoNumber`:

- `TypeCorrect`: the type invariant;
- `DuplicatesOverlap`: `DuplicateNeedsOverlap`. Strengthened by `Single`: a
  message that has an id, and of which no two copies were in hand, is in one place
  between its handler and its row, and one past the search for a duplicate has no row yet;
- `UnreadableRaces`: `UnreadableNeedsRace`. Strengthened by `AllLegible`: unless
  copies overlapped or a kill came between, a message whose key is used up has a
  row or is on its way to one, and what is on its way without a row is the text.

`InboundSessionTheorems` proves under the same assumptions:

- `CounterHonest`: `NeverOverclaims`;
- `NothingLost`: `InboxSafety`, that `InboundMessages` implements the safety
  of `Inbox`, by a simulation step for each action.

Both follow from `TypeOK /\ Negotiated /\ InPosition`. `Negotiated` says that a
request for a session and its answer are alone on their way, and that what each
says (a session, a count) still holds when it is read. `InPosition` says where
the three parties stand: for some `n`, the copies read but not started, and some
`r`, the stanzas of the server's queue that the client has read, the stream
brings the next ones in order (`Along`), the first `r` are in hand, stored or cut
(`Had`), and no counter in memory, on disk, in a handler or on the wire exceeds
what the server has forgotten plus `r`, those in memory by a margin of `n`
(`Within`). The margin is what makes it inductive: each copy that waits may
still raise the counter by one, and a lost increment only widens it. What is in
hand never leaves except into the history (`TakenKept`), so the server can
forget a prefix of `r` stanzas without losing one.

`PresenceTheorems` proves, for any resources, threads and number of events,
under `CleanupAssumption`, `ResourcesAssumption` (a contact has finitely many
resources: `count` counts them), `BoundAssumption` and `NilAssumption`:

- `TypeCorrect`: the type invariant, with `Synced`: a thread that waits for
  `_dbQueue` waits for exactly one statement that is there, and everything
  queued is what its thread called for or waits for nobody;
- `OnlineStaysTrue`: `OnlineIsTrue`;
- `MissingOnlyAfterReset`: `MissingNeedsReset`.

The work that is spread over threads and the queue is read as sets of resources,
one for each step of each kind (`Entering`, `LookUps`, `Inserts`, `Deleting`,
`Counting`, ...): an action moves one resource from one set to the next or
changes the table. The invariant relates these sets to the table and to what the
server has still to be heard of (`Told`), whose last word on a resource is true
(`Truthful`). `RowFirst` needs no excuse: only a contact in the list has
resources. Unless work was `crossed`, what adds a resource runs neither with
what removes one nor with the answer that adds the contact (`Apart`), and what has a
resource or gets one is online or will be (`Agree`). Unless also a session was
`left` without a reset, a resource that is gone is neither on its way nor there
to stay, and the contact is online without a resource only until a removal is
done or because it is, or was, available without one (`NoneLeft` with
`Justified`). Unless the contacts were `emptied` under a session that goes on, a
resource that is available is there or on its way (`NoneMissing`), provided the
contact is `Listed`: in the list, about to be, or in the roster, which precedes
every presence of its session (`RosterFirst`). Each excuse is needed where it
stands, and nowhere else.

Only model-checked: the liveness properties `SettlesConnected`, `InboxSpec` and
`OutcomeShows`. Liveness is out of the prover's reach, as ENABLED and induction
over data are. No module declares a recursive operator.

## Plan

Done: StreamManagement, Connection, InboundMessages with Inbox, SendTimers,
Outbox, Presence, and the proofs above. What is left, in order:

1. *Delivery*, the abstract specification of a message from the user to the
   peer's server (waiting, held, delivered, lost only by named causes), which
   StreamManagement refines, with `HandshakeKeepsMessages` as its core.
2. Composition of Connection with the session of StreamManagement: a session is
   resumed only on the account's own stream.
3. *SignalStore*: identities, trust and the replenishment of pre-keys, against a
   map from addresses to keys.
4. *Negotiation* as the state machine of features and SASL; *Framing* against a
   tokenizer, over all chunkings.
