--------------------------- MODULE InboundMessages ---------------------------
(***************************************************************************)
(* Inbound half of XEP-0198 and what becomes of a received message: how it *)
(* is counted, decrypted and stored, which count the client reports to the *)
(* server, and what the server sends again (xmpp.m, MLMessageProcessor.m,  *)
(* DataLayer.m).                                                           *)
(*                                                                         *)
(* Threads of the code and where they are here:                            *)
(*   networkQueue    Read: an element becomes an operation of processQueue *)
(*   processQueue    concurrent: any element may be taken next, and the    *)
(*                   handler of a message is the three steps Count, Open   *)
(*                   and Store between which the others run                *)
(*   _dbQueue        DatabaseStep: one statement at a time, in order; what *)
(*                   a completion handler does next is queued behind       *)
(*   URL session     TypeFound: the type of a link is looked up before the *)
(*                   message is inserted                                   *)
(* The server, the link, other devices of the user and kills are the       *)
(* environment.                                                            *)
(***************************************************************************)
EXTENDS Integers, Sequences, FiniteSets, Bags, Arrays

CONSTANTS
    Newest,      \* messages are 1 .. Newest, in the order of the archive
    Encrypted,   \* those with an OMEMO payload
    Untraceable, \* those that come without an id: each copy gets a new one
    MaxFaults,   \* bound of the model: lost links, teardowns, kills
    MaxCrashes,  \* how many of them may be kills
    Nil

Messages == 1 .. Newest

ASSUME MessageAssumption ==
    /\ Newest \in Nat
    /\ Encrypted \subseteq Messages /\ Untraceable \subseteq Messages
ASSUME FaultAssumption == MaxFaults \in Nat /\ MaxCrashes \in Nat
ASSUME NoNumber == Nil \notin Nat

VARIABLES
    accountState,  \* xmpp.h:30, what is below Bound being one
    lastHandled,   \* lastHandledInboundStanza
    streamID,      \* Nil or the session the server named
    persisted,     \* the two, as saved
    processQueue,  \* elements read whose handler has not started
    handlers,      \* handlers of messages under way
    dbQueue,       \* statements waiting on _dbQueue
    lookups,       \* inserts that wait for the type of a link
    rows,          \* message_history: how many rows a message has
    readable,      \* messages with a row that shows their text
    opened,        \* messages whose key the ratchet has used up
    link,          \* a stream is open
    c2s, s2c,      \* elements in flight
    srv,           \* the session the server keeps
    archived,      \* messages 1 .. archived have reached the server
    offline,       \* those it keeps for the next session
    interrupted,   \* history: what the client had in hand when it was killed
    overlapped,    \* history: messages of which two copies were in hand
    faults, crashes

counters == <<accountState, lastHandled, streamID, persisted>>
local == <<handlers, dbQueue, lookups>>
store == <<rows, readable, opened>>
wire == <<link, c2s, s2c>>
server == <<srv, archived, offline>>
history == <<interrupted, overlapped, faults, crashes>>
vars == <<counters, processQueue, local, store, wire, server, history>>

AccountStates == {"Disconnected", "LoggedIn", "Bound"}
Number == Nat \cup {Nil}

\* What the server sends. mam: a result of a query of the archive.
Stanza == [type : {"message"}, m : Messages, mam : BOOLEAN]
Incoming == Stanza \cup [type : {"enabled"}, sid : Nat] \cup [type : {"resumed", "failed"}]
Outgoing ==
    [type : {"enable", "presence"}] \cup [type : {"a"}, h : Nat]
    \cup [type : {"resume"}, previd : Nat, h : Nat] \cup [type : {"mam"}, after : Nat]

Handler ==
    [at : {"count"}, m : Messages, seen : Number]
    \cup [at : {"open"}, m : Messages]
    \cup [at : {"store"}, m : Messages, readable : BOOLEAN]
Statement ==
    [op : {"has", "insert"}, m : Messages, readable : BOOLEAN] \cup [op : {"last"}]

Saved(h, s) == [lastHandled |-> h, streamID |-> s]
With(bag, e) == bag (+) SetToBag({e})
Without(bag, e) == bag (-) SetToBag({e})

\* Messages whose handler has started and which are neither stored nor dropped
UnderWay ==
    {e.m : e \in BagToSet(handlers) \cup BagToSet(lookups)}
    \cup {dbQueue[k].m : k \in {j \in DOMAIN dbQueue : dbQueue[j].op # "last"}}

InHand == {e.m : e \in {f \in BagToSet(processQueue) : f.type = "message"}} \cup UnderWay

-----------------------------------------------------------------------------
(* Before some definitions stands a variant with a mistake in it, named for *)
(* the mistake: no other definition uses it.  The properties are tried      *)
(* against the specification with the variant in the definition's place.    *)

Init ==
    /\ accountState = "Disconnected"
    /\ lastHandled = 0
    /\ streamID = Nil
    /\ persisted = Saved(0, Nil)
    /\ processQueue = EmptyBag /\ handlers = EmptyBag
    /\ dbQueue = <<>> /\ lookups = EmptyBag
    /\ rows = [m \in Messages |-> 0]
    /\ readable = {} /\ opened = {}
    /\ link = FALSE
    /\ c2s = <<>> /\ s2c = <<>>
    /\ srv = [sid |-> 0, valid |-> FALSE, attached |-> FALSE, acked |-> 0, queue |-> <<>>]
    /\ archived = 0
    /\ offline = {}
    /\ interrupted = {} /\ overlapped = {}
    /\ faults = 0 /\ crashes = 0

Send(e) == c2s' = IF link THEN Append(c2s, e) ELSE c2s

-----------------------------------------------------------------------------
(* The connection *)

ReadStateIfAny ==
    /\ lastHandled' = IF persisted.streamID = Nil THEN Nil ELSE persisted.lastHandled
    /\ streamID' = persisted.streamID

\* What memory holds is replaced by what was saved, which may be older.
ReadState ==
    /\ lastHandled' = persisted.lastHandled
    /\ streamID' = persisted.streamID

\* connect, with readState, and the login: a stream on which nothing has been
\* negotiated yet, then <resume/> or, after bindResource, <enable/>.
Connect ==
    /\ accountState = "Disconnected"
    /\ ~link /\ processQueue = EmptyBag /\ handlers = EmptyBag
    /\ accountState' = "LoggedIn"
    /\ ReadState
    /\ link' = TRUE
    /\ s2c' = <<>>
    /\ c2s' = <<IF persisted.streamID # Nil
                THEN [type |-> "resume", previd |-> persisted.streamID,
                      h |-> persisted.lastHandled]
                ELSE [type |-> "enable"]>>
    /\ srv' = [srv EXCEPT !.attached = FALSE]
    /\ UNCHANGED <<persisted, processQueue, local, store, archived, offline, history>>

\* disconnectWithCompletion:, closeSocket and cleanUpState: what was not read
\* is lost, what waits on processQueue is not cancelled.
Teardown ==
    /\ accountState # "Disconnected"
    /\ link => faults < MaxFaults
    /\ faults' = IF link THEN faults + 1 ELSE faults
    /\ accountState' = "Disconnected"
    /\ link' = FALSE
    /\ c2s' = <<>> /\ s2c' = <<>>
    /\ UNCHANGED <<lastHandled, streamID, persisted, processQueue, local, store,
                   server, interrupted, overlapped, crashes>>

\* nextStanza and the operation it queues, for one element
Read ==
    /\ s2c # <<>>
    /\ s2c' = Tail(s2c)
    /\ processQueue' = With(processQueue, Head(s2c))
    /\ UNCHANGED <<counters, local, store, link, c2s, server, history>>

-----------------------------------------------------------------------------
(* processQueue *)

Take(e, type) ==
    /\ e.type = type
    /\ processQueue' = Without(processQueue, e)

HandleEnabledUnreset(e) ==
    /\ Take(e, "enabled")
    /\ streamID' = e.sid
    /\ persisted' = Saved(lastHandled, streamID')
    /\ accountState' = "Bound"
    /\ Send([type |-> "presence"])
    /\ dbQueue' = Append(dbQueue, [op |-> "last"])
    /\ UNCHANGED <<lastHandled, handlers, lookups, store, link, s2c, server, history>>

\* <enabled/>: initSM3, persistState, and initSession with the presence and the
\* query for what the archive has since the last message.
HandleEnabled(e) ==
    /\ Take(e, "enabled")
    /\ lastHandled' = 0
    /\ streamID' = e.sid
    /\ persisted' = Saved(0, streamID')
    /\ accountState' = "Bound"
    /\ Send([type |-> "presence"])
    /\ dbQueue' = Append(dbQueue, [op |-> "last"])
    /\ UNCHANGED <<handlers, lookups, store, link, s2c, server, history>>

HandleResumedSilent(e) ==
    /\ Take(e, "resumed")
    /\ accountState' = "Bound"
    /\ UNCHANGED <<lastHandled, streamID, persisted, local, store, wire, server, history>>

\* <resumed/>: bound again, with a presence
HandleResumed(e) ==
    /\ Take(e, "resumed")
    /\ accountState' = "Bound"
    /\ Send([type |-> "presence"])
    /\ UNCHANGED <<lastHandled, streamID, persisted, local, store, link, s2c, server, history>>

\* <failed/> for <resume/>, and what bindResource leads to
HandleFailed(e) ==
    /\ Take(e, "failed")
    /\ streamID' = Nil
    /\ persisted' = Saved(lastHandled, Nil)
    /\ Send([type |-> "enable"])
    /\ UNCHANGED <<accountState, lastHandled, local, store, link, s2c, server, history>>

\* The handler of a message reads the counter, if it counts at all.
HandleMessage(e) ==
    /\ Take(e, "message")
    /\ handlers' = With(handlers,
          [at |-> "count", m |-> e.m,
           seen |-> IF accountState = "Bound" THEN lastHandled ELSE Nil])
    /\ overlapped' = overlapped \cup ({e.m} \cap UnderWay)
    /\ UNCHANGED <<counters, dbQueue, lookups, store, wire, server, interrupted,
                   faults, crashes>>

Replace(h, new) == handlers' = With(Without(handlers, h), new)

\* The increment writes what was read before, whatever was counted since.
Count(h) ==
    /\ h.at = "count"
    /\ lastHandled' = IF h.seen = Nil THEN lastHandled ELSE h.seen + 1
    /\ Replace(h, IF h.m \in Encrypted THEN [at |-> "open", m |-> h.m]
                  ELSE [at |-> "store", m |-> h.m, readable |-> TRUE])
    /\ UNCHANGED <<accountState, streamID, persisted, processQueue, dbQueue, lookups,
                   store, wire, server, history>>

OpenMarksFirst(h) ==
    /\ h.at = "open"
    /\ opened' = opened \cup {h.m}
    /\ Replace(h, [at |-> "store", m |-> h.m, readable |-> h.m \notin opened'])
    /\ UNCHANGED <<counters, processQueue, dbQueue, lookups, rows, readable, wire,
                   server, history>>

\* decryptMessage: the session is advanced in the database; a second copy does
\* not decrypt, and the text is then that of an error.
Open(h) ==
    /\ h.at = "open"
    /\ Replace(h, [at |-> "store", m |-> h.m, readable |-> h.m \notin opened])
    /\ opened' = opened \cup {h.m}
    /\ UNCHANGED <<counters, processQueue, dbQueue, lookups, rows, readable, wire,
                   server, history>>

\* The message gets an id, unless it came with one, and addMessageFrom queues
\* the question whether there is a row of that id.
Store(h) ==
    /\ h.at = "store"
    /\ handlers' = Without(handlers, h)
    /\ dbQueue' = Append(dbQueue, [op |-> "has", m |-> h.m, readable |-> h.readable])
    /\ UNCHANGED <<counters, processQueue, lookups, store, wire, server, history>>

\* sendSMAck, the handler of <r/>, and sendLastAck. One is under way at a time;
\* one that tells the server nothing new changes nothing and is left out.
SendAck ==
    /\ accountState = "Bound"
    /\ link /\ lastHandled > srv.acked
    /\ ~\E k \in DOMAIN c2s : c2s[k].type = "a"
    /\ Send([type |-> "a", h |-> lastHandled])
    /\ UNCHANGED <<counters, processQueue, local, store, link, s2c, server, history>>

\* send: has recorded some stanza and saved the state with it.
PersistState ==
    /\ accountState = "Bound"
    /\ persisted' = Saved(lastHandled, streamID)
    /\ UNCHANGED <<accountState, lastHandled, streamID, processQueue, local, store,
                   wire, server, history>>

ProcessStep ==
    \/ \E e \in BagToSet(processQueue) :
          HandleEnabled(e) \/ HandleResumed(e) \/ HandleFailed(e) \/ HandleMessage(e)
    \/ \E h \in BagToSet(handlers) : Count(h) \/ Open(h) \/ Store(h)

-----------------------------------------------------------------------------
(* _dbQueue: the statement at its head *)

Executing(op) == dbQueue # <<>> /\ Head(dbQueue).op = op

HasMessageForNobody ==
    /\ Executing("has")
    /\ dbQueue' = Tail(dbQueue)
    /\ lookups' = With(lookups, [Head(dbQueue) EXCEPT !.op = "insert"])
    /\ UNCHANGED <<counters, processQueue, handlers, store, wire, server, history>>

\* hasMessageForId, and addMessageFrom's completion: nothing more is done for
\* a message that exists; another waits until the type of its link is known,
\* which is at once for one without a link. No row has an id that was just made
\* up for a message that came without one.
Exists(m) == rows[m] > 0 /\ m \notin Untraceable
HasMessageForId ==
    /\ Executing("has")
    /\ dbQueue' = Tail(dbQueue)
    /\ lookups' = IF Exists(Head(dbQueue).m) THEN lookups
                  ELSE With(lookups, [Head(dbQueue) EXCEPT !.op = "insert"])
    /\ UNCHANGED <<counters, processQueue, handlers, store, wire, server, history>>

Insert ==
    /\ Executing("insert")
    /\ dbQueue' = Tail(dbQueue)
    /\ rows' = [rows EXCEPT ![Head(dbQueue).m] = @ + 1]
    /\ readable' = IF Head(dbQueue).readable THEN readable \cup {Head(dbQueue).m}
                                             ELSE readable
    /\ UNCHANGED <<counters, processQueue, handlers, lookups, opened, wire, server, history>>

\* lastMessageSanzaForAccount and queryMAMSinceLastStanza: no query without a
\* message to start from.
QueryArchive ==
    /\ Executing("last")
    /\ dbQueue' = Tail(dbQueue)
    /\ LET stored == {m \in Messages : rows[m] > 0} IN
       IF stored = {} THEN UNCHANGED c2s
       ELSE Send([type |-> "mam", after |-> CHOOSE m \in stored : \A n \in stored : n <= m])
    /\ UNCHANGED <<counters, processQueue, handlers, lookups, store, link, s2c, server,
                   history>>

DatabaseStep == HasMessageForId \/ Insert \/ QueryArchive

TypeNotFound(q) ==
    /\ lookups' = Without(lookups, q)
    /\ UNCHANGED <<dbQueue, counters, processQueue, handlers, store, wire, server, history>>

\* messageTypeForMessage answers, whether or not the request succeeded.
TypeFound(q) ==
    /\ lookups' = Without(lookups, q)
    /\ dbQueue' = Append(dbQueue, q)
    /\ UNCHANGED <<counters, processQueue, handlers, store, wire, server, history>>

-----------------------------------------------------------------------------
(* The server *)

Receive(type) == link /\ c2s # <<>> /\ Head(c2s).type = type /\ c2s' = Tail(c2s)
Deliver(stanzas) ==
    /\ s2c' = s2c \o stanzas
    /\ srv' = [srv EXCEPT !.queue = @ \o stanzas]
InOrder(S, mam) ==
    [k \in 1 .. Cardinality(S) |-> [type |-> "message", m |-> Pick(S, k), mam |-> mam]]
Live(q) == {q[k].m : k \in {j \in DOMAIN q : ~q[j].mam}}

\* On an acknowledgment of h stanzas the server forgets them.
Forget(h, on) ==
    LET n == IF h <= srv.acked THEN 0
             ELSE IF h - srv.acked < Len(srv.queue) THEN h - srv.acked ELSE Len(srv.queue)
    IN srv' = [srv EXCEPT !.attached = on, !.acked = @ + n,
                           !.queue = SubSeq(@, n + 1, Len(@))]

\* A message for the user arrives: to the session, also to one that waits to be
\* resumed; else it is kept, unless another device of the user has it.
Arrive ==
    /\ archived < Newest
    /\ archived' = archived + 1
    /\ LET e == [type |-> "message", m |-> archived + 1, mam |-> FALSE] IN
       IF srv.valid
       THEN /\ srv' = [srv EXCEPT !.queue = Append(@, e)]
            /\ s2c' = IF link /\ srv.attached THEN Append(s2c, e) ELSE s2c
            /\ UNCHANGED offline
       ELSE offline' \in {offline, offline \cup {archived + 1}} /\ UNCHANGED <<srv, s2c>>
    /\ UNCHANGED <<counters, processQueue, local, store, link, c2s, history>>

SrvA ==
    /\ Receive("a")
    /\ Forget(Head(c2s).h, srv.attached)
    /\ UNCHANGED <<counters, processQueue, local, store, link, s2c, archived, offline,
                   history>>

SrvResume ==
    /\ Receive("resume")
    /\ IF srv.valid /\ Head(c2s).previd = srv.sid
       THEN /\ Forget(Head(c2s).h, TRUE)
            /\ s2c' = s2c \o <<[type |-> "resumed"]>> \o srv'.queue
       ELSE s2c' = Append(s2c, [type |-> "failed"]) /\ UNCHANGED srv
    /\ UNCHANGED <<counters, processQueue, local, store, link, archived, offline, history>>

\* A new session; messages of one the client has not come back to are kept.
SrvEnable ==
    /\ Receive("enable")
    /\ srv' = [sid |-> srv.sid + 1, valid |-> TRUE, attached |-> TRUE, acked |-> 0,
               queue |-> <<>>]
    /\ offline' = offline \cup Live(srv.queue)
    /\ s2c' = Append(s2c, [type |-> "enabled", sid |-> srv.sid + 1])
    /\ UNCHANGED <<counters, processQueue, local, store, link, archived, history>>

SrvPresence ==
    /\ Receive("presence")
    /\ Deliver(InOrder(offline, FALSE))
    /\ offline' = {}
    /\ UNCHANGED <<counters, processQueue, local, store, link, archived, history>>

\* A query that comes before the session is there gets an error.
SrvArchive ==
    /\ Receive("mam")
    /\ IF srv.attached
       THEN Deliver(InOrder(Head(c2s).after + 1 .. archived, TRUE))
       ELSE UNCHANGED <<s2c, srv>>
    /\ UNCHANGED <<counters, processQueue, local, store, link, archived, offline,
                   history>>

Server == SrvA \/ SrvResume \/ SrvEnable \/ SrvPresence \/ SrvArchive

\* A session nobody resumes ends.
Expire ==
    /\ ~link /\ srv.valid
    /\ offline' = offline \cup Live(srv.queue)
    /\ srv' = [srv EXCEPT !.valid = FALSE, !.queue = <<>>]
    /\ UNCHANGED <<counters, processQueue, local, store, wire, archived, history>>

LoseLink ==
    /\ link
    /\ faults < MaxFaults
    /\ faults' = faults + 1
    /\ link' = FALSE
    /\ c2s' = <<>>
    /\ \E n \in 0 .. Len(s2c) : s2c' = SubSeq(s2c, 1, n)
    /\ UNCHANGED <<counters, processQueue, local, store, server, interrupted, overlapped,
                   crashes>>

\* The process is killed: the database and the saved state survive.
Crash ==
    /\ crashes < MaxCrashes
    /\ faults < MaxFaults
    /\ faults' = faults + 1
    /\ crashes' = crashes + 1
    /\ interrupted' = interrupted \cup InHand
    /\ accountState' = "Disconnected"
    /\ lastHandled' = 0
    /\ streamID' = Nil
    /\ processQueue' = EmptyBag /\ handlers' = EmptyBag
    /\ dbQueue' = <<>> /\ lookups' = EmptyBag
    /\ link' = FALSE
    /\ c2s' = <<>> /\ s2c' = <<>>
    /\ UNCHANGED <<persisted, store, server, overlapped>>

Local == ProcessStep \/ DatabaseStep \/ \E q \in BagToSet(lookups) : TypeFound(q)

Next ==
    \/ Connect \/ Teardown \/ Read
    \/ Local
    \/ SendAck \/ PersistState
    \/ Arrive \/ Server \/ Expire \/ LoseLink \/ Crash

Spec == Init /\ [][Next]_vars

\* Operations of a queue run, requests end, the server answers, and reconnect:
\* of Connection goes on trying; faults come or not.
Fairness ==
    /\ WF_vars(Connect) /\ WF_vars(~link /\ Teardown) /\ WF_vars(Read)
    /\ WF_vars(ProcessStep) /\ WF_vars(DatabaseStep)
    /\ WF_vars(\E q \in BagToSet(lookups) : TypeFound(q))
    /\ WF_vars(Server)

FairSpec == Spec /\ Fairness

-----------------------------------------------------------------------------
(* Properties *)

\* The variables hold what the code's types allow.
TypeOK ==
    /\ accountState \in AccountStates
    /\ lastHandled \in Nat /\ streamID \in Number
    /\ persisted \in [lastHandled : Nat, streamID : Number]
    /\ \A bag \in {processQueue, handlers, lookups} : IsABag(bag)
    /\ BagToSet(processQueue) \subseteq Incoming /\ BagToSet(handlers) \subseteq Handler
    /\ dbQueue \in Seq(Statement)
    /\ BagToSet(lookups) \subseteq [op : {"insert"}, m : Messages, readable : BOOLEAN]
    /\ rows \in [Messages -> Nat]
    /\ readable \subseteq Messages /\ opened \subseteq Messages
    /\ link \in BOOLEAN
    /\ c2s \in Seq(Outgoing) /\ s2c \in Seq(Incoming)
    /\ srv \in [sid : Nat, valid : BOOLEAN, attached : BOOLEAN, acked : Nat,
                queue : Seq(Stanza)]
    /\ archived \in 0 .. Newest /\ offline \subseteq Messages
    /\ interrupted \subseteq Messages
    /\ overlapped \subseteq Messages
    /\ faults \in Nat /\ crashes \in Nat

Stored == {m \in Messages : rows[m] > 0}

\* The counter lags, as increments are lost, but never claims a stanza that the
\* client has not even read: not over a new session, a resumed one, or a state
\* read back from the disk (processInput, initSM3, readState).
NeverOverclaims ==
    accountState = "Bound" /\ srv.valid /\ streamID = srv.sid =>
        lastHandled + Cardinality({k \in DOMAIN s2c : s2c[k].type = "message"})
            <= srv.acked + Len(srv.queue)

\* What the server keeps for the client, what the client has in hand or stored,
\* and what a kill hit.
Held == offline \cup Live(srv.queue) \cup InHand \cup Stored \cup interrupted

inbox == INSTANCE Inbox WITH arrived <- Held, stored <- Stored, cut <- interrupted

\* No message gets lost: an acknowledgment (sendSMAck, <resume/>) makes the server
\* forget only what is in hand or stored, and nothing in hand is dropped on its
\* way through processQueue and _dbQueue. A kill is the one exception, as stanzas
\* are reported when they are counted, not when they are stored.
InboxSafety == inbox!Safety

\* However often the server sends a message again, after a resumption, offline
\* or from the archive, it has two rows only if a handler of a second copy started
\* before the row of the first was inserted (hasMessageForId and the insert are
\* separate statements), or if it has no id to be found by.
DuplicateNeedsOverlap ==
    \A m \in Messages : rows[m] > 1 => m \in overlapped \cup Untraceable

\* A message whose rows show but an error was decrypted twice: a copy overtook
\* the other, or the process was killed between decryption and storage.
UnreadableNeedsRace ==
    \A m \in Stored \ readable : m \in overlapped \cup interrupted

\* With fairness the whole promise holds: every message held is stored at last.
InboxSpec == inbox!Spec
=============================================================================
