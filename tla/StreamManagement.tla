-------------------------- MODULE StreamManagement --------------------------
(***************************************************************************)
(* Outbound half of XEP-0198 stream management in xmpp.m: how a stanza is  *)
(* numbered and recorded before it is written, how an acknowledgment       *)
(* removes it, and what happens to the record when the stream is resumed,  *)
(* replaced, logged out or cut off by a crash.                             *)
(*                                                                         *)
(* Threads of the code and where they are here:                            *)
(*   any thread      AppSend, Teardown, Reconnect, Logout: they only       *)
(*                   enqueue on networkQueue or cancel it                  *)
(*   networkQueue    NetworkStep: one operation at a time, in order        *)
(*   processQueue    the handlers: any element read so far may run next    *)
(*                   (the queue is concurrent), and a handler whose effect *)
(*                   is not one step leaves a continuation in running      *)
(* The server, the link and the clock are the environment.                 *)
(***************************************************************************)
EXTENDS Integers, Sequences, FiniteSets, Arrays

CONSTANTS
    Msgs,            \* messages the user sends, each once
    Control,         \* stanzas the client sends on its own (iq and presence)
    Cleanable,       \* those a result removes from the record (disco, carbons)
    SessionStanzas,  \* what initSession sends, in order
    ResumeStanzas,   \* what the handler of <resumed/> sends, in order
    FollowUp,        \* what the handler of a result sends, for each Cleanable
    ResendLimit,     \* 25 in the code
    MaxConnects,     \* bound of the model: calls of connect
    MaxQueries,      \* bound of the model: disco queries of contacts
    Nil

Stanza == Msgs \cup Control

ASSUME StanzaAssumption ==
    /\ Cleanable \subseteq Control
    /\ Msgs \cap Control = {}
    /\ SessionStanzas \in Seq(Control)
    /\ ResumeStanzas \in Seq(Control)
    /\ FollowUp \in [Cleanable -> Seq(Control)]
ASSUME BoundAssumption == {ResendLimit, MaxConnects, MaxQueries} \subseteq Nat
\* nil is neither a number nor a list.
ASSUME NilAssumption == Nil \notin Nat /\ Nil \notin Seq([id : Nat, st : Stanza])

VARIABLES
    accountState,    \* xmpp.h:30 ("HasStream" is one with "Reconnecting")
    explicitLogout,
    supportsSM3,
    resuming,
    streamID,        \* Nil or the session the server named
    unAcked,         \* unAckedStanzas: Nil or a sequence of Entry
    lastOutbound,    \* lastOutboundStanza: Nil or the next number
    netQueue,        \* operations waiting on networkQueue
    running,         \* continuations of handlers on other threads
    persisted,       \* the saved state of the account
    link,            \* an authenticated stream exists and is not broken
    c2s, s2c,        \* elements in flight; s2c also holds those already read
    srv,             \* the session the server keeps
    unsent,          \* messages the user has not sent yet
    handled,         \* history: messages the server has handled
    dropped,         \* history: messages of records, and of the saved ones
                     \* they replace, dropped as too long
    connects,        \* calls of connect so far
    queries          \* queries of contacts so far

memory == <<accountState, explicitLogout, supportsSM3, resuming, streamID,
            unAcked, lastOutbound>>
wire == <<link, c2s, s2c, srv>>
history == <<unsent, handled, dropped, connects, queries>>
vars == <<memory, netQueue, running, persisted, wire, history>>

AccountStates == {"Disconnected", "Reconnecting", "LoggedIn", "Bound"}
Entry == [id : Nat, st : Stanza]
UnAcked == Seq(Entry) \cup {Nil}
Number == Nat \cup {Nil}

\* What the client can write. numbered is history: send: queued the
\* operation that records the stanza too.
Stanzas(numbered) == [type : {"stanza"}, st : Stanza, numbered : numbered]
Outgoing ==
    [type : {"bind", "enable", "close"}] \cup [type : {"resume"}, previd : Nat]
    \cup Stanzas(BOOLEAN)

Incoming ==
    [type : {"features"}, sm : BOOLEAN] \cup [type : {"bound"}]
    \cup [type : {"enabled"}, sid : Nat, resume : BOOLEAN]
    \cup [type : {"resumed", "failed", "a"}, h : Nat]
    \cup [type : {"result"}, st : Cleanable]

Op ==
    [op : {"track"}, st : Stanza] \cup [op : {"write"}, e : Outgoing]
    \cup [op : {"remove"}, h : Nat] \cup [op : {"resendSaved"}, saved : Seq(Entry)]
    \cup [op : {"resend", "resendAndClear", "clear", "close", "cleanup",
             "suspend"}]

Continuation ==
    [at : {"resumed"}, h : Nat] \cup [at : {"resend"}]
    \cup [at : {"clean"}, st : Cleanable, copy : UnAcked]

Saved(u, n, s) == [unAcked |-> u, lastOutbound |-> n, streamID |-> s]

-----------------------------------------------------------------------------
(* Before some definitions stands a variant with a mistake in it, named for *)
(* the mistake: no other definition uses it.  The properties are tried      *)
(* against the specification with the variant in the definition's place.    *)

\* The operations send: queues for a sequence of stanzas. The test of
\* accountState, supportsSM3 and unAckedStanzas is made by the caller's thread,
\* before the operations run.
TrackingSoon(state, sm, u) == state # "Disconnected" /\ sm
Tracking(state, sm, u) == state = "Bound" /\ sm /\ u # Nil

TrackOp(st) == [op |-> "track", st |-> st]
WriteOp(st, t) ==
    [op |-> "write", e |-> [type |-> "stanza", st |-> st, numbered |-> t]]
SendOpsUncounted(sts, t) == [k \in 1 .. Len(sts) |-> WriteOp(sts[k], t)]
SendOpsWriteFirst(sts, t) ==
    IF t
    THEN [k \in 1 .. 2 * Len(sts) |-> IF k % 2 = 1 THEN WriteOp(sts[(k + 1) \div 2], TRUE)
                                                   ELSE TrackOp(sts[k \div 2])]
    ELSE [k \in 1 .. Len(sts) |-> WriteOp(sts[k], FALSE)]
SendOps(sts, t) ==
    IF t
    THEN [k \in 1 .. 2 * Len(sts) |-> IF k % 2 = 1 THEN TrackOp(sts[(k + 1) \div 2])
                                                   ELSE WriteOp(sts[k \div 2], TRUE)]
    ELSE [k \in 1 .. Len(sts) |-> WriteOp(sts[k], FALSE)]

\* Elements that are not stanzas are never recorded.
Nonza(e) == <<[op |-> "write", e |-> e]>>

\* The entries of a record.
Entries(u) == IF u = Nil THEN {} ELSE {u[i] : i \in 1 .. Len(u)}

\* The messages in a record.
Recorded(u) == {e.st : e \in Entries(u)} \cap Msgs

StanzasOf(u) == IF u = Nil THEN <<>> ELSE [k \in 1 .. Len(u) |-> u[k].st]

Enqueue(ops) == netQueue' = netQueue \o ops

\* The part of initSession that queues: its stanzas, and without stream
\* management the operation that empties the record.
SessionOps(sm, u) ==
    SendOps(SessionStanzas, Tracking("Bound", sm, u))
        \o (IF sm THEN <<>> ELSE <<[op |-> "clear"]>>)

\* sendUnAckedMessages drops a record that is too long at once; the rest is
\* dispatched to the main queue and is a continuation.
Capped(u) == IF u # Nil /\ Len(u) > ResendLimit THEN <<>> ELSE u
Cap ==
    /\ unAcked' = Capped(unAcked)
    /\ persisted' = IF unAcked' = unAcked THEN persisted
                    ELSE Saved(unAcked', lastOutbound, streamID)
    /\ dropped' = IF unAcked' = unAcked THEN dropped
                  ELSE dropped \cup Recorded(unAcked) \cup Recorded(persisted.unAcked)
ResendLater == [at |-> "resend"]

-----------------------------------------------------------------------------
\* A new xmpp object: nothing is known until readState.
FreshMemory ==
    /\ accountState = "Disconnected"
    /\ explicitLogout = FALSE
    /\ supportsSM3 = FALSE
    /\ resuming = FALSE
    /\ streamID = Nil
    /\ unAcked = Nil
    /\ lastOutbound = Nil
    /\ netQueue = <<>>
    /\ running = {}

Restart ==
    /\ accountState' = "Disconnected"
    /\ explicitLogout' = FALSE
    /\ supportsSM3' = FALSE
    /\ resuming' = FALSE
    /\ streamID' = Nil
    /\ unAcked' = Nil
    /\ lastOutbound' = Nil
    /\ netQueue' = <<>>
    /\ running' = {}

Init ==
    /\ FreshMemory
    /\ persisted = Saved(Nil, Nil, Nil)
    /\ link = FALSE
    /\ c2s = <<>>
    /\ s2c = <<>>
    /\ srv = [sid |-> 0, h |-> 0, acked |-> 0, extra |-> 0, on |-> FALSE]
    /\ unsent = Msgs
    /\ handled = {} /\ dropped = {}
    /\ connects = 0 /\ queries = 0

-----------------------------------------------------------------------------
(* The user and the timers *)

AppSend(m) ==
    /\ m \in unsent
    /\ unsent' = unsent \ {m}
    /\ Enqueue(SendOps(<<m>>, Tracking(accountState, supportsSM3, unAcked)))
    /\ UNCHANGED <<memory, running, persisted, wire, handled, dropped, connects, queries>>

\* disconnectWithCompletion: without explicitLogout, from a stream event, a
\* timeout or a stale stream: closeSocket cancels what is queued.
Teardown ==
    /\ ~explicitLogout
    /\ netQueue' = <<[op |-> "close"], [op |-> "cleanup"]>>
    /\ UNCHANGED <<memory, running, persisted, wire, history>>

\* reconnect: cancels what is queued before it looks at anything. What the
\* operation it then queues does is Teardown, Connect or nothing.
Reconnect ==
    /\ ~explicitLogout
    /\ netQueue' = <<>>
    /\ UNCHANGED <<memory, running, persisted, wire, history>>

\* disconnectToResumeWithCompletion: the app goes to the background.
GoToBackground ==
    /\ ~explicitLogout
    /\ connects < MaxConnects
    /\ ~\E k \in DOMAIN netQueue : netQueue[k].op = "suspend"
    /\ Enqueue(<<[op |-> "suspend"]>>)
    /\ UNCHANGED <<memory, running, persisted, wire, history>>

\* disconnectAccount: the closing tag is written past the queue. hasStream: a
\* stream is open, perhaps not authenticated yet.
Logout ==
    /\ ~explicitLogout
    /\ explicitLogout' = TRUE
    /\ netQueue' = <<[op |-> "close"], [op |-> "cleanup"]>>
    /\ \E hasStream \in BOOLEAN :
          /\ accountState = "Disconnected" => ~hasStream
          /\ accountState \in {"LoggedIn", "Bound"} => hasStream
          /\ IF hasStream
             THEN /\ c2s' = IF link THEN Append(c2s, [type |-> "close"]) ELSE c2s
                  /\ lastOutbound' = 0
                  /\ streamID' = Nil
                  /\ persisted' = Saved(unAcked, 0, Nil)
             ELSE UNCHANGED <<c2s, lastOutbound, streamID, persisted>>
    /\ UNCHANGED <<accountState, supportsSM3, resuming, unAcked, running, link,
                   s2c, srv, history>>

\* connectAccountWithDictionary: after a logout makes a new object.
LogIn ==
    /\ explicitLogout
    /\ accountState = "Disconnected"
    /\ netQueue = <<>>
    /\ Restart
    /\ UNCHANGED <<persisted, wire, history>>

\* connect, with readState. The old stream is closed and its handlers have
\* run: they take microseconds, a reconnect waits for seconds.
Connect ==
    /\ accountState = "Disconnected"
    /\ ~explicitLogout
    /\ ~link /\ s2c = <<>> /\ running = {}
    /\ connects < MaxConnects
    /\ connects' = connects + 1
    /\ accountState' = "Reconnecting"
    /\ unAcked' = persisted.unAcked
    /\ lastOutbound' = persisted.lastOutbound
    /\ streamID' = persisted.streamID
    /\ UNCHANGED <<explicitLogout, supportsSM3, resuming, netQueue, running,
                   persisted, wire, unsent, handled, dropped, queries>>

\* The stream is open and authenticated (the handler of <success/>). Stanzas
\* written before that never reach a session, so writes need the link only.
\* Every element is read by an operation of networkQueue: what was queued
\* before the stream opened has run, or waits in an output queue that is
\* flushed before authentication.
Authenticate(sm) ==
    /\ accountState = "Reconnecting"
    /\ ~link /\ netQueue = <<>>
    /\ link' = TRUE
    /\ accountState' = "LoggedIn"
    /\ s2c' = <<[type |-> "features", sm |-> sm]>>
    /\ c2s' = <<>>
    /\ UNCHANGED <<explicitLogout, supportsSM3, resuming, streamID, unAcked,
                   lastOutbound, netQueue, running, persisted, srv, history>>

-----------------------------------------------------------------------------
(* networkQueue: the operation at its head *)

Running(name) == netQueue # <<>> /\ Head(netQueue).op = name
Finish == netQueue' = Tail(netQueue)

TrackUncounted ==
    /\ Running("track")
    /\ lastOutbound # Nil
    /\ Finish
    /\ unAcked' = IF unAcked = Nil THEN Nil
                  ELSE Append(unAcked, [id |-> lastOutbound, st |-> Head(netQueue).st])
    /\ persisted' = Saved(unAcked', lastOutbound, streamID)
    /\ UNCHANGED <<accountState, explicitLogout, supportsSM3, resuming,
                   streamID, lastOutbound, running, wire, history>>

TrackBackwards ==
    /\ Running("track")
    /\ lastOutbound # Nil
    /\ Finish
    /\ unAcked' = IF unAcked = Nil THEN Nil
                  ELSE Append(unAcked, [id |-> lastOutbound, st |-> Head(netQueue).st])
    /\ lastOutbound' = lastOutbound - 1
    /\ persisted' = Saved(unAcked', lastOutbound', streamID)
    /\ UNCHANGED <<accountState, explicitLogout, supportsSM3, resuming,
                   streamID, running, wire, history>>

\* The first operation of send:
Track ==
    /\ Running("track")
    /\ lastOutbound # Nil
    /\ Finish
    /\ unAcked' = IF unAcked = Nil THEN Nil
                  ELSE Append(unAcked, [id |-> lastOutbound, st |-> Head(netQueue).st])
    /\ lastOutbound' = lastOutbound + 1
    /\ persisted' = Saved(unAcked', lastOutbound', streamID)
    /\ UNCHANGED <<accountState, explicitLogout, supportsSM3, resuming,
                   streamID, running, wire, history>>

\* The second one, with writeFromQueue: the queue forgets the stanza
\* whether or not the stream took it.
Write ==
    /\ Running("write")
    /\ Finish
    /\ c2s' = IF link THEN Append(c2s, Head(netQueue).e) ELSE c2s
    /\ UNCHANGED <<memory, running, persisted, link, s2c, srv, history>>

\* removeUnAckedMessagesLessThan:
Above(u, h) == Subsequence(u, {i \in 1 .. Len(u) : u[i].id > h})
RemoveUnAcked ==
    /\ Running("remove")
    /\ Finish
    /\ IF unAcked \notin {Nil, <<>>}
       THEN /\ unAcked' = Above(unAcked, Head(netQueue).h)
            /\ persisted' = Saved(unAcked', lastOutbound, streamID)
       ELSE UNCHANGED <<unAcked, persisted>>
    /\ UNCHANGED <<accountState, explicitLogout, supportsSM3, resuming,
                   streamID, lastOutbound, running, wire, history>>

ResendForgets ==
    /\ Running("resend")
    /\ Finish
    /\ unAcked' = IF unAcked = Nil THEN Nil ELSE <<>>
    /\ persisted' = Saved(unAcked', lastOutbound, streamID)
    /\ UNCHANGED <<accountState, explicitLogout, supportsSM3, resuming,
                   streamID, lastOutbound, running, wire, history>>

\* sendUnAckedMessages: empties the record and sends every stanza again.
Resend ==
    /\ Running("resend")
    /\ netQueue' = Tail(netQueue) \o SendOps(StanzasOf(unAcked),
                                   Tracking(accountState, supportsSM3, unAcked))
    /\ unAcked' = IF unAcked = Nil THEN Nil ELSE <<>>
    /\ persisted' = Saved(unAcked', lastOutbound, streamID)
    /\ UNCHANGED <<accountState, explicitLogout, supportsSM3, resuming,
                   streamID, lastOutbound, running, wire, history>>

\* The end of the handler of <enabled/>: what the record held before it.
ResendSaved ==
    /\ Running("resendSaved")
    /\ netQueue' = Tail(netQueue) \o SendOps(StanzasOf(Head(netQueue).saved),
                                   Tracking(accountState, supportsSM3, unAcked))
    /\ UNCHANGED <<memory, running, persisted, wire, history>>

\* The end of the handler of <failed/> for <enable/>.
ResendAndClear ==
    /\ Running("resendAndClear")
    /\ netQueue' = Tail(netQueue) \o SendOps(StanzasOf(unAcked),
                                   Tracking(accountState, supportsSM3, unAcked))
    /\ IF unAcked # Nil
       THEN unAcked' = <<>> /\ persisted' = Saved(<<>>, lastOutbound, streamID)
       ELSE UNCHANGED <<unAcked, persisted>>
    /\ UNCHANGED <<accountState, explicitLogout, supportsSM3, resuming,
                   streamID, lastOutbound, running, wire, history>>

\* The end of initSession without stream management.
Clear ==
    /\ Running("clear")
    /\ Finish
    /\ IF unAcked # Nil
       THEN unAcked' = <<>> /\ persisted' = Saved(<<>>, lastOutbound, streamID)
       ELSE UNCHANGED <<unAcked, persisted>>
    /\ UNCHANGED <<accountState, explicitLogout, supportsSM3, resuming,
                   streamID, lastOutbound, running, wire, history>>

\* The server and the handlers see at most a part of what was under way.
LinkLost(read) ==
    /\ link' = FALSE
    /\ c2s' = <<>>
    /\ s2c' = SubSeq(s2c, 1, read)
    /\ srv' = [srv EXCEPT !.on = FALSE]

\* closeSocket
Close ==
    /\ Running("close")
    /\ Finish
    /\ IF link THEN \E read \in 0 .. Len(s2c) : LinkLost(read) ELSE UNCHANGED wire
    /\ UNCHANGED <<memory, running, persisted, history>>

\* closeSocket and resetValues, from an operation.
Suspend ==
    /\ Running("suspend")
    /\ netQueue' = <<[op |-> "close"]>>
    /\ accountState' = "Disconnected"
    /\ UNCHANGED <<explicitLogout, supportsSM3, resuming, streamID, unAcked,
                   lastOutbound, running, persisted, wire, history>>

\* cleanUpState, and the completion: most callers pass a reconnect, which
\* cancels what was queued meanwhile.
Cleanup ==
    /\ Running("cleanup")
    /\ accountState' = "Disconnected"
    /\ IF explicitLogout
       THEN unAcked' = Nil /\ persisted' = Saved(Nil, lastOutbound, streamID) /\ Finish
       ELSE netQueue' \in {<<>>, Tail(netQueue)} /\ UNCHANGED <<unAcked, persisted>>
    /\ UNCHANGED <<explicitLogout, supportsSM3, resuming, streamID,
                   lastOutbound, running, wire, history>>

NetworkStep ==
    \/ Track \/ Write \/ RemoveUnAcked \/ Resend \/ ResendSaved \/ ResendAndClear
    \/ Clear \/ Close \/ Suspend \/ Cleanup

-----------------------------------------------------------------------------
(* processQueue: the handler of the i-th element read *)

Take(i, type) ==
    /\ s2c[i].type = type
    /\ s2c' = SubSeq(s2c, 1, i - 1) \o SubSeq(s2c, i + 1, Len(s2c))
    /\ UNCHANGED <<link, c2s, srv, unsent, handled, connects, queries>>

\* <stream:features/> after authentication
HandleFeatures(i) ==
    /\ Take(i, "features")
    /\ IF accountState \in {"LoggedIn", "Bound"}
       THEN /\ supportsSM3' = (supportsSM3 \/ s2c[i].sm)
            /\ resuming' = (resuming \/ (supportsSM3' /\ streamID # Nil))
            /\ Enqueue(Nonza(IF supportsSM3' /\ streamID # Nil
                             THEN [type |-> "resume", previd |-> streamID]
                             ELSE [type |-> "bind"]))
       ELSE UNCHANGED <<supportsSM3, resuming, netQueue>>
    /\ UNCHANGED <<accountState, explicitLogout, streamID, unAcked,
                   lastOutbound, running, persisted, dropped>>

\* initSession as a whole. u is the record when it starts.
InitSession(sm, u, before, after) ==
    /\ accountState' = "Bound"
    /\ Enqueue(before \o SessionOps(sm, u) \o after)
    /\ running' = IF sm THEN running ELSE running \cup {ResendLater}

\* The result of binding a resource
HandleBound(i) ==
    /\ Take(i, "bound")
    /\ IF supportsSM3
       THEN /\ Enqueue(Nonza([type |-> "enable"]))
            /\ UNCHANGED <<accountState, running, unAcked, persisted, dropped>>
       ELSE InitSession(FALSE, unAcked, <<>>, <<>>) /\ Cap
    /\ UNCHANGED <<explicitLogout, supportsSM3, resuming, streamID, lastOutbound>>

\* <enabled/>: a cleanup can only be for a session before this one, and has
\* ended (see Connect).
HandleEnabled(i) ==
    /\ Take(i, "enabled")
    /\ \A c \in running : c.at # "clean"
    /\ unAcked' = <<>>
    /\ lastOutbound' = 0
    /\ streamID' = IF s2c[i].resume THEN s2c[i].sid ELSE Nil
    /\ persisted' = Saved(<<>>, 0, streamID')
    /\ InitSession(supportsSM3, <<>>, <<>>,
                   IF unAcked = Nil THEN <<>>
                   ELSE <<[op |-> "resendSaved", saved |-> unAcked]>>)
    /\ UNCHANGED <<explicitLogout, supportsSM3, resuming, dropped>>

\* <a/>
HandleA(i) ==
    /\ Take(i, "a")
    /\ Enqueue(IF supportsSM3 /\ accountState = "Bound"
               THEN <<[op |-> "remove", h |-> s2c[i].h]>> ELSE <<>>)
    /\ UNCHANGED <<memory, running, persisted, dropped>>

\* <resumed/>: the state is Bound before the rest of the handler runs.
HandleResumed(i) ==
    /\ Take(i, "resumed")
    /\ resuming' = FALSE
    /\ accountState' = "Bound"
    /\ running' = running \cup {[at |-> "resumed", h |-> s2c[i].h]}
    /\ UNCHANGED <<explicitLogout, supportsSM3, streamID, unAcked,
                   lastOutbound, netQueue, persisted, dropped>>

FinishResumed(c) ==
    /\ c.at = "resumed"
    /\ running' = (running \ {c}) \cup {ResendLater}
    /\ Cap
    /\ Enqueue(<<[op |-> "remove", h |-> c.h]>>
               \o SendOps(ResumeStanzas, Tracking(accountState, supportsSM3, unAcked')))
    /\ UNCHANGED <<accountState, explicitLogout, supportsSM3, resuming,
                   streamID, lastOutbound, wire, unsent, handled, connects, queries>>

\* The block sendUnAckedMessages dispatches to the main queue: in the
\* background the app does not resend.
DispatchResend(c, foreground) ==
    /\ c.at = "resend"
    /\ running' = running \ {c}
    /\ Enqueue(IF foreground THEN <<[op |-> "resend"]>> ELSE <<>>)
    /\ UNCHANGED <<memory, persisted, wire, history>>

HandleResumeFailedUnsaved(i) ==
    /\ Take(i, "failed")
    /\ resuming
    /\ resuming' = FALSE
    /\ streamID' = Nil
    /\ Enqueue(<<[op |-> "remove", h |-> s2c[i].h]>> \o Nonza([type |-> "bind"]))
    /\ UNCHANGED <<accountState, explicitLogout, supportsSM3, unAcked,
                   lastOutbound, running, persisted, dropped>>

\* <failed/> for <resume/>
HandleResumeFailed(i) ==
    /\ Take(i, "failed")
    /\ resuming
    /\ resuming' = FALSE
    /\ streamID' = Nil
    /\ persisted' = Saved(unAcked, lastOutbound, Nil)
    /\ Enqueue(<<[op |-> "remove", h |-> s2c[i].h]>> \o Nonza([type |-> "bind"]))
    /\ UNCHANGED <<accountState, explicitLogout, supportsSM3, unAcked,
                   lastOutbound, running, dropped>>

\* <failed/> for <enable/>
HandleEnableFailed(i) ==
    /\ Take(i, "failed")
    /\ ~resuming
    /\ supportsSM3' = FALSE
    /\ InitSession(FALSE, unAcked, <<>>, <<[op |-> "resendAndClear"]>>)
    /\ Cap
    /\ UNCHANGED <<explicitLogout, resuming, streamID, lastOutbound>>

\* An iq with disco information, or the result of enabling carbons: cleanDisco
\* and cleanEnableCarbons copy the record, filter the copy and assign it back,
\* with nothing to keep networkQueue out.
Without(u, st) ==
    IF u = Nil THEN Nil ELSE Subsequence(u, {i \in 1 .. Len(u) : u[i].st # st})
HandleResult(i) ==
    /\ Take(i, "result")
    /\ running' = running \cup
          {[at |-> "clean", st |-> s2c[i].st, copy |-> Without(unAcked, s2c[i].st)]}
    /\ UNCHANGED <<memory, netQueue, persisted, dropped>>

FinishClean(c) ==
    /\ c.at = "clean"
    /\ running' = running \ {c}
    /\ unAcked' = c.copy
    /\ Enqueue(SendOps(FollowUp[c.st], Tracking(accountState, supportsSM3, c.copy)))
    /\ UNCHANGED <<accountState, explicitLogout, supportsSM3, resuming,
                   streamID, lastOutbound, persisted, wire, history>>

ProcessStep ==
    \/ \E i \in DOMAIN s2c :
          \/ HandleFeatures(i) \/ HandleBound(i) \/ HandleEnabled(i)
          \/ HandleA(i) \/ HandleResumed(i) \/ HandleResumeFailed(i)
          \/ HandleEnableFailed(i) \/ HandleResult(i)
    \/ \E c \in running :
          \/ FinishResumed(c) \/ FinishClean(c)
          \/ \E fg \in BOOLEAN : DispatchResend(c, fg)

-----------------------------------------------------------------------------
(* The server, the link, and the process *)

Receive(type) == link /\ c2s # <<>> /\ Head(c2s).type = type /\ c2s' = Tail(c2s)
Reply(e) == s2c' = Append(s2c, e)

SrvBind ==
    /\ Receive("bind")
    /\ Reply([type |-> "bound"])
    /\ UNCHANGED <<memory, netQueue, running, persisted, link, srv, history>>

\* A new session; the server counts from here. It may refuse.
SrvEnable ==
    /\ Receive("enable")
    /\ \/ /\ srv' = [sid |-> srv.sid + 1, h |-> 0, acked |-> 0, extra |-> 0, on |-> TRUE]
          /\ \E r \in BOOLEAN :
                Reply([type |-> "enabled", sid |-> srv.sid + 1, resume |-> r])
       \/ /\ Reply([type |-> "failed", h |-> 0])
          /\ UNCHANGED srv
    /\ UNCHANGED <<memory, netQueue, running, persisted, link, history>>

\* The session is still there, or it is not: then ParseFailed finds an h only
\* if <failed/> has one and no child (every start tag assigns it).
SrvResume ==
    /\ Receive("resume")
    /\ \/ /\ Head(c2s).previd = srv.sid
          /\ srv' = [srv EXCEPT !.on = TRUE]
          /\ Reply([type |-> "resumed", h |-> srv.h])
       \/ /\ \E h \in {0, srv.h} : Reply([type |-> "failed", h |-> h])
          /\ UNCHANGED srv
    /\ UNCHANGED <<memory, netQueue, running, persisted, link, history>>

\* A stanza counts if stream management is on, numbered by the client or not.
SrvStanza ==
    /\ Receive("stanza")
    /\ LET e == Head(c2s) IN
       /\ srv' = IF srv.on
                 THEN [srv EXCEPT !.h = @ + 1,
                                  !.extra = IF e.numbered THEN @ ELSE @ + 1]
                 ELSE srv
       /\ handled' = handled \cup ({e.st} \cap Msgs)
       /\ s2c' = IF e.st \in Cleanable
                 THEN Append(s2c, [type |-> "result", st |-> e.st]) ELSE s2c
    /\ UNCHANGED <<memory, netQueue, running, persisted, link, unsent, dropped, connects, queries>>

\* A disco query of a contact, which knows of the session by a presence sent in
\* it: its handler cleans the record as that of a result does.
SrvQuery ==
    /\ link /\ srv.on /\ srv.h > 0
    /\ queries < MaxQueries
    /\ queries' = queries + 1
    /\ \E st \in Cleanable : Reply([type |-> "result", st |-> st])
    /\ UNCHANGED <<memory, netQueue, running, persisted, link, c2s, srv, unsent,
                   handled, dropped, connects>>

\* </stream:stream> ends the session for good.
SrvClose ==
    /\ Receive("close")
    /\ srv' = [srv EXCEPT !.on = FALSE, !.sid = @ + 1]
    /\ UNCHANGED <<memory, netQueue, running, persisted, link, s2c, history>>

\* The answer to the <r/> that requestSMAck sends after a stanza.
SrvAck ==
    /\ link /\ srv.on
    /\ srv.acked < srv.h
    /\ srv' = [srv EXCEPT !.acked = srv.h]
    /\ Reply([type |-> "a", h |-> srv.h])
    /\ UNCHANGED <<memory, netQueue, running, persisted, link, c2s, history>>

LoseLink ==
    /\ link
    /\ \E read \in 0 .. Len(s2c) : LinkLost(read)
    /\ UNCHANGED <<memory, netQueue, running, persisted, history>>

\* The process is killed: only the saved state survives.
Crash ==
    /\ Restart
    /\ link' = FALSE
    /\ c2s' = <<>>
    /\ s2c' = <<>>
    /\ srv' = [srv EXCEPT !.on = FALSE]
    /\ UNCHANGED <<persisted, history>>

Server == SrvBind \/ SrvEnable \/ SrvResume \/ SrvStanza \/ SrvQuery
          \/ SrvClose \/ SrvAck

Next ==
    \/ \E m \in Msgs : AppSend(m)
    \/ Teardown \/ Reconnect \/ GoToBackground \/ Logout \/ LogIn \/ Connect
    \/ \E sm \in BOOLEAN : Authenticate(sm)
    \/ NetworkStep
    \/ ProcessStep
    \/ Server \/ LoseLink \/ Crash

Spec == Init /\ [][Next]_vars

-----------------------------------------------------------------------------
TypeOK ==
    /\ accountState \in AccountStates
    /\ {explicitLogout, supportsSM3, resuming, link} \subseteq BOOLEAN
    /\ streamID \in Number /\ lastOutbound \in Number
    /\ unAcked \in UnAcked
    /\ netQueue \in Seq(Op)
    /\ running \subseteq Continuation
    /\ persisted \in [unAcked : UnAcked, lastOutbound : Number, streamID : Number]
    /\ c2s \in Seq(Outgoing) /\ s2c \in Seq(Incoming)
    /\ srv \in [sid : Nat, h : Nat, acked : Nat, extra : Nat, on : BOOLEAN]
    /\ unsent \subseteq Msgs /\ handled \subseteq Msgs /\ dropped \subseteq Msgs
    /\ connects \in 0 .. MaxConnects /\ queries \in 0 .. MaxQueries

\* Numbers of a record, with a counter above all of them.
Numbered(u, n) ==
    u # Nil =>
        /\ n # Nil
        /\ \A i \in 1 .. Len(u) : u[i].id < n
        /\ \A i, j \in 1 .. Len(u) : i < j => u[i].id < u[j].id

\* While a stream can be resumed, the numbers in the record are the order in
\* which the stanzas were sent and the counter is above them, in memory, on
\* disk, and in a copy a cleanup is about to assign back: what an
\* acknowledgment removes is a prefix.
NumberingSound ==
    streamID # Nil =>
        /\ Numbered(unAcked, lastOutbound)
        /\ \A c \in running : c.at = "clean" => Numbered(c.copy, lastOutbound)

\* The saved stream and counter are those in memory from the first readState
\* on: a crash or a reconnect continues the numbering of the same session.
SavedNumbering ==
    lastOutbound # Nil =>
        /\ persisted.streamID = streamID
        /\ persisted.lastOutbound = lastOutbound

\* No message goes out before it is on disk: a process killed at any time after
\* the write finds it when it connects again. The record is appended to, saved,
\* filtered, replaced and sent again by operations and handlers of several threads
\* between the call of send: and the write. The exception is a record that
\* sendUnAckedMessages drops as too long while the stanza waits.
WrittenIsSaved ==
    [][Write /\ link /\ Head(netQueue).e \in Stanzas({TRUE}) =>
          {Head(netQueue).e.st} \cap Msgs \subseteq Recorded(persisted.unAcked) \cup dropped]_vars

\* The server has not counted more of a session than the client has numbered
\* and the stanzas it sent without a number.
ServerNotAhead ==
    streamID # Nil /\ streamID = srv.sid => srv.h <= lastOutbound + srv.extra

\* A stanza to be recorded finds a counter: a literal dictionary with a nil
\* value raises.
TrackFindsCounter == Running("track") => lastOutbound # Nil

\* Messages a running client or the server still has: to be sent, recorded,
\* queued, under way, or handled.
InQueue(q) ==
    UNION {CASE q[k].op = "track" -> {q[k].st}
             [] q[k].op = "write" -> IF q[k].e.type = "stanza" THEN {q[k].e.st} ELSE {}
             [] q[k].op = "resendSaved" -> {e.st : e \in Entries(q[k].saved)}
             [] OTHER -> {} : k \in DOMAIN q}
OnWire(c) == {c[k].st : k \in {j \in DOMAIN c : c[j].type = "stanza"}}
Held ==
    unsent \cup handled \cup Recorded(unAcked)
    \cup (Msgs \cap (InQueue(netQueue) \cup OnWire(c2s)))

\* The steps of a stream that nobody takes down: its handshake, the handlers of
\* bind, enabled, resumed and failed, the operations that record, write and send
\* again, the server. On these no message may be lost, whatever was taken out of
\* the record or renumbered (a record dropped as too long excepted). The steps
\* that do lose messages are others: a teardown, reconnect, suspend, logout or
\* crash, and a dead link; an acknowledgment (see OnlyDeliveredRemoved), a session
\* without stream management, which empties the record unsent (Clear, see
\* SentBeforeCleared), and the end of a cleanup, which assigns an old copy.
KeepsMessages ==
    \/ ProcessStep /\ \A c \in running \ running' : c.at # "clean"
    \/ Write /\ link
    \/ Track \/ Resend \/ ResendSaved \/ ResendAndClear
    \/ Server
    \/ \E m \in Msgs : AppSend(m)
    \/ \E sm \in BOOLEAN : Authenticate(sm)
HandshakeKeepsMessages ==
    [][~explicitLogout /\ KeepsMessages => Held \subseteq Held' \cup dropped']_vars
=============================================================================
