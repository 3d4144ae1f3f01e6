----------------------------- MODULE SendTimers -----------------------------
(***************************************************************************)
(* How MLXMPPManager sends a message: the timer that marks it undelivered  *)
(* when it was not written in time, and the notification that it was.      *)
(*                                                                         *)
(* Threads of the code and where they are here:                            *)
(*   _netQueue       serial: RunSend and the handlers of the send timers,  *)
(*                   of which one is under way in netAt                    *)
(*   networkQueue    of the account, serial: WriteOut, and in sentAt the   *)
(*                   handleSentMessage the notification runs there         *)
(* Nothing keeps the two apart: each looks for an entry of timerList and   *)
(* removes, by its index, what it has found.                               *)
(***************************************************************************)
EXTENDS Integers, SequencesExt

CONSTANTS
    Chats,       \* messages of a chat, sent when their row is in the history
    Links,       \* messages of the outbox, sent while their row is on its way
    MaxRetries,  \* bound of the model: retries of the user
    MaxResends,  \* bound of the model: messages stream management sends again
    MaxCrashes,  \* bound of the model: kills of the process
    Nil

Ids == Chats \cup Links

ASSUME KindAssumption == Chats \cap Links = {}
ASSUME BoundAssumption == {MaxRetries, MaxResends, MaxCrashes} \subseteq Nat

VARIABLES
    rows,       \* message_history: whether a message is shown as delivered
    inserting,  \* messages whose row is to be inserted
    netQueue,   \* blocks waiting on _netQueue
    netAt,      \* the handler of a timer under way there
    timers,     \* send timers that may fire
    timerList,  \* entries: a message and its timer
    tries,      \* how often a message was sent, which names the timers
    account,    \* messages on networkQueue, to be written
    sentAt,     \* handleSentMessage under way there
    used,       \* messages the user has written so far
    retries, resends, crashes,
    written,    \* history: messages that went out
    handed,     \* history: messages an account was given
    excused,    \* history: messages a kill, a wrong index or a late row has hit
    crossed     \* history: messages retried, or written as their timer fired

store == <<rows, inserting>>
lists == <<timers, timerList, tries>>
bounds == <<used, retries, resends, crashes>>
history == <<written, handed, excused, crossed>>
vars == <<store, netQueue, netAt, lists, account, sentAt, bounds, history>>

Timer == [id : Ids, try : Nat]

\* The searches of the two handlers through timerList as it was
TimerSearches == [at : {"search"}, t : Timer, seen : Seq(Timer)]
SentSearches == [at : {"search"}, id : Ids, seen : Seq(Timer)]

ASSUME NilAssumption == Nil \notin TimerSearches \cup SentSearches

\* Messages whose outcome is open.
Pending ==
    inserting \cup ToSet(netQueue)
    \cup {t.id : t \in timers} \cup (IF netAt = Nil THEN {} ELSE {netAt.t.id})

\* update message_history: nothing happens without a row.
SetDelivered(id, value) ==
    rows' = IF rows[id] = "none" THEN rows ELSE [rows EXCEPT ![id] = value]

-----------------------------------------------------------------------------
(* Before some definitions stands a variant with a mistake in it, named for *)
(* the mistake: no other definition uses it.  The properties are tried      *)
(* against the specification with the variant in the definition's place.    *)

Init ==
    /\ rows = [id \in Ids |-> "none"]
    /\ inserting = {}
    /\ netQueue = <<>> /\ netAt = Nil
    /\ timers = {} /\ timerList = <<>> /\ tries = [id \in Ids |-> 0]
    /\ account = <<>> /\ sentAt = Nil
    /\ used = {} /\ retries = 0 /\ resends = 0 /\ crashes = 0
    /\ written = {} /\ handed = {} /\ excused = {} /\ crossed = {}

\* The process ends, by a kill or by an exception nobody catches. What stream
\* management has saved of the account's messages is sent later.
Die ==
    /\ excused' = excused \cup Pending
    /\ inserting' = {}
    /\ netQueue' = <<>> /\ netAt' = Nil
    /\ timers' = {} /\ timerList' = <<>>
    /\ account' \in {<<>>, account} /\ sentAt' = Nil
    /\ UNCHANGED <<rows, tries, used, retries, resends, written, handed, crossed>>

Crash ==
    /\ crashes < MaxCrashes
    /\ crashes' = crashes + 1
    /\ Die

\* An array that changes while it is enumerated, or an index past its end
Raise == Die /\ UNCHANGED crashes

-----------------------------------------------------------------------------
(* The user *)

\* sendMessage of a chat: the row comes first. Of the outbox: both are on
\* their way.
UserSend(m) ==
    /\ m \notin used
    /\ used' = used \cup {m}
    /\ inserting' = inserting \cup {m}
    /\ netQueue' = IF m \in Links THEN Append(netQueue, m) ELSE netQueue
    /\ UNCHANGED <<rows, netAt, lists, account, sentAt, retries, resends, crashes,
                   history>>

InsertOnly(id) ==
    /\ id \in inserting
    /\ inserting' = inserting \ {id}
    /\ rows' = [rows EXCEPT ![id] = "delivered"]
    /\ UNCHANGED <<netQueue, netAt, lists, account, sentAt, bounds, history>>

\* addMessageHistoryFrom: the type of a link is looked up, then the row is
\* inserted, as delivered, and what the chat passed as completion sends it.
Insert(id) ==
    /\ id \in inserting
    /\ inserting' = inserting \ {id}
    /\ rows' = [rows EXCEPT ![id] = "delivered"]
    /\ netQueue' = IF id \in Chats THEN Append(netQueue, id) ELSE netQueue
    /\ UNCHANGED <<netAt, lists, account, sentAt, bounds, history>>

\* retry: of a chat, for a message shown as undelivered
Retry(id) ==
    /\ rows[id] = "failed"
    /\ retries < MaxRetries
    /\ retries' = retries + 1
    /\ netQueue' = Append(netQueue, id)
    /\ crossed' = crossed \cup {id}
    /\ UNCHANGED <<store, netAt, lists, account, sentAt, used, resends,
                   crashes, written, handed, excused>>

-----------------------------------------------------------------------------
(* _netQueue *)

NewTimer(id) ==
    LET t == [id |-> id, try |-> tries[id] + 1] IN
    /\ timers' = timers \cup {t}
    /\ timerList' = Append(timerList, t)
    /\ tries' = [tries EXCEPT ![id] = @ + 1]

RunSendIfConnected ==
    /\ netAt = Nil /\ netQueue # <<>>
    /\ netQueue' = Tail(netQueue)
    /\ LET id == Head(netQueue) IN
       \/ /\ NewTimer(id)
          /\ account' = Append(account, id)
          /\ handed' = handed \cup {id}
       \/ UNCHANGED <<lists, account, handed>>
    /\ UNCHANGED <<store, netAt, sentAt, bounds, written, excused, crossed>>

\* The block of sendMessage: a timer, and if the account is there (it may be
\* logged out) the message for it.
RunSend ==
    /\ netAt = Nil /\ netQueue # <<>>
    /\ netQueue' = Tail(netQueue)
    /\ LET id == Head(netQueue) IN
       /\ NewTimer(id)
       /\ \/ account' = Append(account, id) /\ handed' = handed \cup {id}
          \/ UNCHANGED <<account, handed>>
    /\ UNCHANGED <<store, netAt, sentAt, bounds, written, excused, crossed>>

\* The event handler of a timer, which fires once: the search begins.
TimerFires(t) ==
    /\ netAt = Nil /\ t \in timers
    /\ timers' = timers \ {t}
    /\ netAt' = [at |-> "search", t |-> t, seen |-> timerList]
    /\ crossed' = IF sentAt # Nil /\ sentAt.id = t.id THEN crossed \cup {t.id} ELSE crossed
    /\ UNCHANGED <<store, netQueue, timerList, tries, account, sentAt, bounds,
                   written, handed, excused>>

TimerSearchShort ==
    /\ netAt # Nil /\ netAt.at = "search" /\ netAt.seen = timerList
    /\ IF netAt.t \in ToSet(timerList)
       THEN \E i \in DOMAIN timerList :
               /\ timerList[i] = netAt.t
               /\ SetDelivered(netAt.t.id, "failed")
               /\ netAt' = [at |-> "remove", t |-> netAt.t, i |-> i - 1]
               /\ excused' = excused \cup ({netAt.t.id} \cap inserting)
       ELSE netAt' = Nil /\ UNCHANGED <<rows, excused>>
    /\ UNCHANGED <<inserting, netQueue, lists, account, sentAt, bounds, written,
                   handed, crossed>>

\* Its entry is found, and the message is not delivered; or it is gone.
TimerSearch ==
    /\ netAt # Nil /\ netAt.at = "search" /\ netAt.seen = timerList
    /\ IF netAt.t \in ToSet(timerList)
       THEN \E i \in DOMAIN timerList :
               /\ timerList[i] = netAt.t
               /\ SetDelivered(netAt.t.id, "failed")
               /\ netAt' = [at |-> "remove", t |-> netAt.t, i |-> i]
               /\ excused' = excused \cup ({netAt.t.id} \cap inserting)
       ELSE netAt' = Nil /\ UNCHANGED <<rows, excused>>
    /\ UNCHANGED <<inserting, netQueue, lists, account, sentAt, bounds, written,
                   handed, crossed>>

\* removeObjectAtIndex: whatever is there by now
RemoveFound(found) ==
    /\ found.i \in DOMAIN timerList
    /\ timerList' = RemoveAt(timerList, found.i)

TimerRemove ==
    /\ netAt # Nil /\ netAt.at = "remove"
    /\ RemoveFound(netAt)
    /\ netAt' = Nil
    /\ excused' = excused \cup ({timerList[netAt.i].id} \ {netAt.t.id})
    /\ UNCHANGED <<store, netQueue, timers, tries, account, sentAt, bounds, written,
                   handed, crossed>>

-----------------------------------------------------------------------------
(* networkQueue of the account *)

WriteOutUnmarked ==
    /\ sentAt = Nil /\ account # <<>>
    /\ account' = Tail(account)
    /\ written' = written \cup {Head(account)}
    /\ sentAt' = [at |-> "search", id |-> Head(account), seen |-> timerList]
    /\ crossed' = IF netAt # Nil /\ netAt.t.id = Head(account)
                  THEN crossed \cup {Head(account)} ELSE crossed
    /\ UNCHANGED <<store, netQueue, netAt, lists, bounds, handed, excused>>

\* writeFromQueue posts a notification, and handleSentMessage marks the message
\* delivered and begins to search.
WriteOut ==
    /\ sentAt = Nil /\ account # <<>>
    /\ account' = Tail(account)
    /\ written' = written \cup {Head(account)}
    /\ SetDelivered(Head(account), "delivered")
    /\ sentAt' = [at |-> "search", id |-> Head(account), seen |-> timerList]
    /\ crossed' = IF netAt # Nil /\ netAt.t.id = Head(account)
                  THEN crossed \cup {Head(account)} ELSE crossed
    /\ UNCHANGED <<inserting, netQueue, netAt, lists, bounds, handed, excused>>

\* The stream does not take it, or reconnect: cancels the operation.
WriteFails ==
    /\ sentAt = Nil /\ account # <<>>
    /\ account' = Tail(account)
    /\ UNCHANGED <<store, netQueue, netAt, lists, sentAt, bounds, history>>

\* Stream management sends again what was not acknowledged.
Resend(id) ==
    /\ id \in handed \ ToSet(account)
    /\ resends < MaxResends
    /\ resends' = resends + 1
    /\ account' = Append(account, id)
    /\ UNCHANGED <<store, netQueue, netAt, lists, sentAt, used, retries,
                   crashes, history>>

\* The first entry of the message: its timer is cancelled.
SentSearch ==
    /\ sentAt # Nil /\ sentAt.at = "search" /\ sentAt.seen = timerList
    /\ LET found == {i \in DOMAIN timerList : timerList[i].id = sentAt.id} IN
       IF found = {} THEN sentAt' = Nil /\ UNCHANGED timers
       ELSE LET i == CHOOSE i \in found : \A j \in found : i <= j IN
            /\ timers' = timers \ {timerList[i]}
            /\ sentAt' = [at |-> "remove", id |-> sentAt.id, i |-> i]
    /\ UNCHANGED <<store, netQueue, netAt, timerList, tries, account, bounds, history>>

SentRemove ==
    /\ sentAt # Nil /\ sentAt.at = "remove"
    /\ RemoveFound(sentAt)
    /\ sentAt' = Nil
    /\ excused' = excused \cup ({timerList[sentAt.i].id} \ {sentAt.id})
    /\ UNCHANGED <<store, netQueue, netAt, timers, tries, account, bounds, written,
                   handed, crossed>>

\* The exceptions of the two searches and removals
ListRaises ==
    \E at \in {netAt, sentAt} \ {Nil} :
       \/ at.at = "search" /\ at.seen # timerList /\ Raise
       \/ at.at = "remove" /\ at.i \notin DOMAIN timerList /\ Raise

-----------------------------------------------------------------------------
NetStep == RunSend \/ TimerSearch \/ TimerRemove
SentStep == SentSearch \/ SentRemove

Next ==
    \/ \E m \in Ids : UserSend(m)
    \/ \E id \in Ids : Insert(id) \/ Retry(id) \/ Resend(id)
    \/ NetStep \/ \E t \in timers : TimerFires(t)
    \/ WriteOut \/ WriteFails \/ SentStep \/ ListRaises
    \/ Crash

Spec == Init /\ [][Next]_vars

\* Look-ups end, blocks of the queues run, and timers fire; nothing makes the
\* stream take a message.
Fairness ==
    /\ \A id \in Ids : WF_vars(Insert(id))
    /\ WF_vars(NetStep) /\ WF_vars(SentStep) /\ WF_vars(ListRaises)
    /\ WF_vars(\E t \in timers : TimerFires(t))

FairSpec == Spec /\ Fairness

-----------------------------------------------------------------------------
(* Properties *)

\* The variables hold what the code's types allow.
TypeOK ==
    /\ rows \in [Ids -> {"none", "delivered", "failed"}]
    /\ inserting \subseteq Ids
    /\ netQueue \in Seq(Ids)
    /\ timers \subseteq Timer /\ timerList \in Seq(Timer) /\ tries \in [Ids -> Nat]
    /\ netAt # Nil => netAt.t \in Timer /\ (netAt.at = "remove" => netAt.i \in Nat \ {0})
    /\ sentAt # Nil => sentAt.id \in Ids /\ (sentAt.at = "remove" => sentAt.i \in Nat \ {0})
    /\ account \in Seq(Ids)
    /\ used \subseteq Ids
    /\ retries \in 0 .. MaxRetries
    /\ resends \in 0 .. MaxResends /\ crashes \in 0 .. MaxCrashes
    /\ written \subseteq Ids /\ handed \subseteq Ids
    /\ excused \subseteq Ids /\ crossed \subseteq Ids

\* "default to delivered (will be reset by timer if needed)", DataLayer.m:1852: a
\* message that shows as delivered and waits for nothing has been written, unless
\* a kill, an entry removed by a stale index or a row inserted after its timer
\* interfered.
DeliveredIsWritten ==
    \A id \in Ids \ Pending : rows[id] = "delivered" => id \in written \cup excused

\* A message that was written shows as undelivered only if its timer fired while
\* handleSentMessage was at it, or if it was retried: the write of an earlier
\* send puts it right, the timer of the retry does not know.
FailedIsUnwritten ==
    \A id \in Ids : rows[id] = "failed" /\ id \in written => id \in crossed

\* Every message is written or shown as undelivered at last, whatever the stream
\* does, unless it is among the excused.
OutcomeShows ==
    \A m \in Ids :
       m \in used ~> m \in written \/ rows[m] = "failed" \/ m \in excused
=============================================================================
