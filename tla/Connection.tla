------------------------------ MODULE Connection ------------------------------
(***************************************************************************)
(* The connection of one account in xmpp.m: connect, reconnect:,           *)
(* disconnectWithCompletion:, the login and ping timers, the delayed       *)
(* connects, the events of the streams, and the flags that keep these from *)
(* getting in each other's way; and the calls of MLXMPPManager on them.    *)
(*                                                                         *)
(* Everything asynchronous is an action of its own: the head of            *)
(* networkQueue, a block scheduled with dispatch_after, a timer, the       *)
(* cancel handler of a timer, a handler on processQueue, a stream's event. *)
(* Negotiation is two openings of the stream by the client and the server's*)
(* answer to each: the first logs the client in, the second binds it. The  *)
(* session is StreamManagement's, registration and OAuth are left out.     *)
(*                                                                         *)
(* A "Variant" before a definition is that definition with a mistake in it *)
(* which some property would catch; no other definition uses it.           *)
(***************************************************************************)
EXTENDS Naturals, Sequences

CONSTANTS
    Calls,         \* what is asked of the account from outside: see User
    MaxCalls,      \* bound of the model: how often
    MaxFaults,     \* bound of the model: streams that break, are refused or too slow
    SupportsPush   \* of the server: reconnect: has a path of its own for it

ASSUME ConnectionAssumption ==
    /\ Calls \subseteq {"foreground", "ping", "wake", "suspend", "logout"}
    /\ MaxCalls \in Nat /\ MaxFaults \in Nat
    /\ SupportsPush \in BOOLEAN

VARIABLES
    accountState,        \* xmpp.h:28
    loginStarted,
    stamp,               \* loginStartTimeStamp: is it more than 10 seconds old?
    reconnectScheduled,
    loggedInOnce,
    explicitLogout,
    pushEnabled,
    pingOutstanding,     \* pingID is set
    pingTimers,          \* how many timers of setPingTimerForID: run
    queue,               \* networkQueue
    delayed,             \* blocks of reconnect: that will connect
    connecting,          \* calls of connect that look up the server
    loginTimer,          \* loginCancelOperation
    cancelled,           \* cancel handlers of login timers that have not run
    handlers,            \* handlers on processQueue
    stream,              \* iStream and oStream
    strays,              \* open streams that were replaced
    errorBlock,          \* a block of StreamError waits on the main queue
    cause,               \* history: what last made or broke a connection
    calls, faults        \* how many there have been

flags == <<loginStarted, stamp, reconnectScheduled>>
account == <<loggedInOnce, explicitLogout, pushEnabled>>
timers == <<delayed, connecting, loginTimer, cancelled>>
ping == <<pingOutstanding, pingTimers>>
sockets == <<stream, strays, errorBlock>>
history == <<cause, calls, faults>>
vars == <<accountState, flags, account, timers, ping, queue, handlers, sockets,
          history>>

\* kStateLoggedOut is never set.
Disconnected == 0
Reconnecting == 1
HasStream == 2
LoggedIn == 3
Bound == 4

Ops == {"startStream", "read", "processInput", "ping", "reconnect", "close",
        "suspend", "cleanup", "cleanupReconnect", "cleanupMarkReconnect"}

\* turn: who has to send next, or where what the server sent is.
Streams == [st : {"none", "open", "ended", "failed", "dead"}, answers : 0 .. 2,
            turn : {"client", "server", "arrived", "signalled", "read"}]
NoStream == [st |-> "none", answers |-> 0, turn |-> "client"]

\* connectAccountWithDictionary: has made the account.
Init ==
    /\ accountState = Disconnected
    /\ loginStarted = FALSE /\ stamp = "none" /\ reconnectScheduled = FALSE
    /\ loggedInOnce = FALSE /\ explicitLogout = FALSE /\ pushEnabled = FALSE
    /\ pingOutstanding = FALSE /\ pingTimers = 0
    /\ queue = <<"reconnect">> /\ handlers = {}
    /\ delayed = 0 /\ connecting = 0 /\ loginTimer = "none" /\ cancelled = 0
    /\ stream = NoStream /\ strays = 0 /\ errorBlock = FALSE
    /\ cause = "none" /\ calls = 0 /\ faults = 0

-----------------------------------------------------------------------------
\* reconnect: cancels whatever is queued and queues its own block.
Reconnect == queue' = <<"reconnect">>

\* disconnectWithCompletion: closeSocket cancels too. The completion is run at
\* the end of the cleanup.
DisconnectThen(cleanup) == queue' = <<"close", cleanup>>

\* disconnect also cancels the login timer.
CancelLoginTimer ==
    IF loginTimer \in {"armed", "fired"}
    THEN loginTimer' = "cancelled" /\ cancelled' = cancelled + 1
    ELSE UNCHANGED <<loginTimer, cancelled>>

\* Variant: The flag survives a teardown.
ResetKeepsSchedule ==
    /\ loginStarted' = FALSE
    /\ stamp' = "none"
    /\ UNCHANGED reconnectScheduled

ResetValues ==
    /\ loginStarted' = FALSE
    /\ stamp' = "none"
    /\ reconnectScheduled' = FALSE

\* The block that reconnect: schedules, whatever the wait.
Schedule ==
    IF reconnectScheduled
    THEN UNCHANGED <<reconnectScheduled, delayed>>
    ELSE reconnectScheduled' = TRUE /\ delayed' = delayed + 1

Fault == faults < MaxFaults /\ faults' = faults + 1

-----------------------------------------------------------------------------
(* networkQueue *)

Running(op) == queue # <<>> /\ Head(queue) = op
Finish == queue' = Tail(queue)

\* The block of reconnect:. On the push path it does not look at the state.
ReconnectOp ==
    /\ Running("reconnect")
    /\ stamp' = IF stamp = "none" THEN "recent" ELSE stamp
    /\ \/ /\ loginStarted
          /\ IF stamp = "old" THEN DisconnectThen("cleanupReconnect") ELSE Finish
          /\ UNCHANGED <<loginStarted, reconnectScheduled, delayed>>
       \/ /\ ~loginStarted
          /\ loginStarted' = TRUE
          /\ IF ~pushEnabled /\ accountState >= Reconnecting
             THEN /\ DisconnectThen("cleanupReconnect")
                  /\ UNCHANGED <<reconnectScheduled, delayed>>
             ELSE Schedule /\ Finish
    /\ UNCHANGED <<accountState, account, connecting, loginTimer, cancelled,
                   ping, handlers, sockets, history>>

\* closeSocket
CloseOp ==
    /\ Running("close")
    /\ Finish
    /\ pingOutstanding' = FALSE
    /\ stream' = NoStream
    /\ UNCHANGED <<accountState, flags, account, timers, pingTimers, handlers,
                   strays, errorBlock, history>>

\* cleanUpState and the completion. After the end of a stream that marks the
\* account as reconnecting before it calls reconnect:.
CleanupOp ==
    /\ \/ /\ Running("cleanup") /\ Finish
          /\ accountState' = Disconnected
       \/ /\ Running("cleanupReconnect") /\ Reconnect
          /\ accountState' = Disconnected
       \/ /\ Running("cleanupMarkReconnect") /\ Reconnect
          /\ accountState' = Reconnecting
    /\ ResetValues
    /\ UNCHANGED <<account, timers, ping, handlers, sockets, history>>

\* Variant: The socket is closed, but the state is not reset.
SuspendKeepsState ==
    /\ Running("suspend")
    /\ queue' = <<"close">>
    /\ ResetValues
    /\ UNCHANGED <<accountState, account, timers, ping, handlers, sockets, history>>

\* disconnectToResumeWithCompletion: the values are reset before the socket
\* is closed, which is an operation of its own.
SuspendOp ==
    /\ Running("suspend")
    /\ queue' = <<"close">>
    /\ ResetValues
    /\ accountState' = Disconnected
    /\ UNCHANGED <<account, timers, ping, handlers, sockets, history>>

\* The opening of the stream is written: the server has to answer.
StartStreamOp ==
    /\ Running("startStream")
    /\ Finish
    /\ stream' = IF stream.st = "open" /\ stream.turn = "client" /\ stream.answers < 2
                 THEN [stream EXCEPT !.turn = "server"] ELSE stream
    /\ UNCHANGED <<accountState, flags, account, timers, ping, handlers,
                   strays, errorBlock, history>>

\* readToBuffer: takes what arrived from the socket and queues the rest.
ReadOp ==
    /\ Running("read")
    /\ IF stream.st = "open" /\ stream.turn = "signalled"
       THEN /\ stream' = [stream EXCEPT !.turn = "read"]
            /\ accountState' = IF accountState < HasStream THEN HasStream ELSE accountState
            /\ queue' = Append(Tail(queue), "processInput")
       ELSE Finish /\ UNCHANGED <<stream, accountState>>
    /\ UNCHANGED <<flags, account, timers, ping, handlers, strays, errorBlock, history>>

\* What the server may have said, which goes to processQueue.
Answers ==
    (IF stream.answers = 1 THEN {"success", "failure"} ELSE {"bound"}) \cup {"streamError"}
ProcessInputOp ==
    /\ Running("processInput")
    /\ Finish
    /\ IF stream.st = "open" /\ stream.turn = "read"
       THEN /\ stream' = [stream EXCEPT !.turn = "client"]
            /\ \E h \in Answers :
                  /\ handlers' = handlers \cup {h}
                  /\ IF h \in {"failure", "streamError"} THEN Fault ELSE UNCHANGED faults
       ELSE UNCHANGED <<stream, handlers, faults>>
    /\ UNCHANGED <<accountState, flags, account, timers, ping, strays, errorBlock,
                   cause, calls>>

\* A ping that was written starts a timer.
PingOp ==
    /\ Running("ping")
    /\ Finish
    /\ IF stream.st = "open"
       THEN pingOutstanding' = TRUE /\ pingTimers' = pingTimers + 1
       ELSE UNCHANGED ping
    /\ UNCHANGED <<accountState, flags, account, timers, handlers, sockets, history>>

NetworkStep ==
    \/ ReconnectOp \/ CloseOp \/ CleanupOp \/ SuspendOp
    \/ StartStreamOp \/ ReadOp \/ ProcessInputOp \/ PingOp

-----------------------------------------------------------------------------
(* connect *)

\* The block of reconnect: after its wait; connect up to the lookup.
DelayedConnect ==
    /\ delayed > 0
    /\ delayed' = delayed - 1
    /\ IF accountState < Reconnecting /\ ~explicitLogout
       THEN /\ accountState' = Reconnecting
            /\ loginStarted' = TRUE
            /\ stamp' = "recent"
            /\ pingOutstanding' = FALSE
            /\ connecting' = connecting + 1
            /\ cause' = "connect"
       ELSE UNCHANGED <<accountState, loginStarted, stamp, pingOutstanding, connecting,
                        cause>>
    /\ UNCHANGED <<reconnectScheduled, account, loginTimer, cancelled, pingTimers,
                   queue, handlers, sockets, calls, faults>>

\* createStreams and the login timer. What was asked meanwhile changes nothing.
CreateStreams ==
    /\ connecting > 0
    /\ connecting' = connecting - 1
    /\ stream' = [st |-> "open", answers |-> 0, turn |-> "client"]
    /\ strays' = IF stream.st = "open" THEN strays + 1 ELSE strays
    /\ queue' = Append(queue, "startStream")
    /\ loginTimer' = "armed"
    /\ cancelled' = IF loginTimer \in {"armed", "fired"} THEN cancelled + 1 ELSE cancelled
    /\ UNCHANGED <<accountState, flags, account, delayed, ping, handlers, errorBlock,
                   history>>

-----------------------------------------------------------------------------
(* Timers *)

\* The event handler of the login timer.
LoginTimer ==
    /\ loginTimer = "armed"
    /\ loginTimer' = "fired"
    /\ loginStarted' = FALSE
    /\ IF accountState < HasStream /\ loggedInOnce
       THEN Reconnect /\ Fault
       ELSE UNCHANGED <<queue, faults>>
    /\ UNCHANGED <<accountState, stamp, reconnectScheduled, account, delayed,
                   connecting, cancelled, ping, handlers, sockets, cause, calls>>

\* Variant: The timer that was replaced does not look whether a connect is scheduled.
CancelledAlwaysReconnects ==
    /\ cancelled > 0
    /\ cancelled' = cancelled - 1
    /\ IF accountState < HasStream
       THEN /\ loginStarted' = FALSE
            /\ accountState' = Reconnecting
            /\ Reconnect
       ELSE UNCHANGED <<loginStarted, accountState, queue>>
    /\ UNCHANGED <<stamp, reconnectScheduled, account, delayed, connecting,
                   loginTimer, ping, handlers, sockets, history>>

\* Its cancel handler.
LoginTimerCancelled ==
    /\ cancelled > 0
    /\ cancelled' = cancelled - 1
    /\ IF accountState < HasStream /\ ~reconnectScheduled
       THEN /\ loginStarted' = FALSE
            /\ accountState' = Reconnecting
            /\ Reconnect
       ELSE UNCHANGED <<loginStarted, accountState, queue>>
    /\ UNCHANGED <<stamp, reconnectScheduled, account, delayed, connecting,
                   loginTimer, ping, handlers, sockets, history>>

\* Variant: A ping timer that is not there fires.
PingTimerRepeats ==
    /\ stream.st = "open"
    /\ pingTimers' = pingTimers - 1
    /\ UNCHANGED <<accountState, flags, account, timers, pingOutstanding, queue,
                   handlers, sockets, history>>

\* The event handler of a ping timer: any outstanding ping will do.
PingTimer ==
    /\ pingTimers > 0
    /\ pingTimers' = pingTimers - 1
    /\ IF pingOutstanding
       THEN accountState' = Reconnecting /\ Reconnect /\ cause' = "ping"
       ELSE UNCHANGED <<accountState, queue, cause>>
    /\ UNCHANGED <<flags, account, timers, pingOutstanding, handlers, sockets,
                   calls, faults>>

TenSeconds ==
    /\ stamp = "recent"
    /\ stamp' = "old"
    /\ UNCHANGED <<accountState, loginStarted, reconnectScheduled, account,
                   timers, ping, queue, handlers, sockets, history>>

-----------------------------------------------------------------------------
(* processQueue *)

Handles(h) == h \in handlers /\ handlers' = handlers \ {h}

\* Variant: The login is never marked as finished.
SuccessStillStarting ==
    /\ Handles("success")
    /\ queue' = Append(queue, "startStream")
    /\ accountState' = LoggedIn
    /\ loggedInOnce' = TRUE
    /\ UNCHANGED <<flags, explicitLogout, pushEnabled, timers, ping, sockets, history>>

\* <success/>
HandleSuccess ==
    /\ Handles("success")
    /\ queue' = Append(queue, "startStream")
    /\ accountState' = LoggedIn
    /\ loggedInOnce' = TRUE
    /\ loginStarted' = FALSE
    /\ stamp' = "none"
    /\ UNCHANGED <<reconnectScheduled, explicitLogout, pushEnabled, timers, ping,
                   sockets, history>>

\* The handlers that set Bound. Push may be enabled then, may have been
\* before, and is not in a session that was not resumed.
HandleBound ==
    /\ Handles("bound")
    /\ accountState' = Bound
    /\ pushEnabled' \in {FALSE, SupportsPush}
    /\ UNCHANGED <<flags, loggedInOnce, explicitLogout, timers, ping, queue,
                   sockets, history>>

\* <stream:error/>
HandleStreamError ==
    /\ Handles("streamError")
    /\ DisconnectThen("cleanupReconnect")
    /\ UNCHANGED <<accountState, flags, account, timers, ping, sockets, history>>

\* <failure/>
HandleFailure ==
    /\ Handles("failure")
    /\ CancelLoginTimer
    /\ DisconnectThen("cleanup")
    /\ cause' = "refused"
    /\ UNCHANGED <<accountState, flags, account, delayed, connecting, ping, sockets,
                   calls, faults>>

ProcessStep == HandleSuccess \/ HandleBound \/ HandleStreamError \/ HandleFailure

-----------------------------------------------------------------------------
(* stream:handleEvent: and the network *)

StreamEnd ==
    /\ stream.st = "ended"
    /\ stream' = [stream EXCEPT !.st = "dead"]
    /\ IF loggedInOnce
       THEN /\ loginStarted' = FALSE
            /\ DisconnectThen("cleanupMarkReconnect")
            /\ cause' = "end"
       ELSE UNCHANGED <<loginStarted, queue, cause>>
    /\ UNCHANGED <<accountState, stamp, reconnectScheduled, account, timers, ping,
                   handlers, strays, errorBlock, calls, faults>>

\* Most errors, -9807 and -9820. Once logged in, a block is dispatched as well.
StreamError ==
    /\ stream.st = "failed"
    /\ stream' = [stream EXCEPT !.st = "dead"]
    /\ errorBlock' = (errorBlock \/ loggedInOnce)
    /\ \/ /\ DisconnectThen("cleanupReconnect")
          /\ UNCHANGED <<accountState, loginStarted, loginTimer, cancelled, cause>>
       \/ /\ CancelLoginTimer
          /\ DisconnectThen("cleanup")
          /\ cause' = "refused"
          /\ UNCHANGED <<accountState, loginStarted>>
       \/ /\ loginStarted' = FALSE
          /\ accountState' = Reconnecting
          /\ Reconnect
          /\ UNCHANGED <<loginTimer, cancelled, cause>>
    /\ UNCHANGED <<stamp, reconnectScheduled, account, delayed, connecting, ping,
                   handlers, strays, calls, faults>>

\* That block, which does nothing in the background.
ErrorOnMain ==
    /\ errorBlock
    /\ errorBlock' = FALSE
    /\ DisconnectThen("cleanupReconnect") \/ UNCHANGED queue
    /\ UNCHANGED <<accountState, flags, account, timers, ping, handlers, stream,
                   strays, history>>

\* An event of a stream that was replaced.
StaleEvent ==
    /\ strays > 0
    /\ strays' = strays - 1
    /\ DisconnectThen("cleanupReconnect")
    /\ UNCHANGED <<accountState, flags, account, timers, ping, handlers, stream,
                   errorBlock, history>>

\* Bytes that were signalled are not signalled again before they are read.
BytesAvailable ==
    /\ stream.st = "open" /\ stream.turn = "arrived"
    /\ stream' = [stream EXCEPT !.turn = "signalled"]
    /\ queue' = Append(queue, "read")
    /\ UNCHANGED <<accountState, flags, account, timers, ping, handlers, strays,
                   errorBlock, history>>

SrvAnswer ==
    /\ stream.st = "open" /\ stream.turn = "server"
    /\ stream' = [stream EXCEPT !.answers = @ + 1, !.turn = "arrived"]
    /\ UNCHANGED <<accountState, flags, account, timers, ping, queue, handlers,
                   strays, errorBlock, history>>

\* The answer to the outstanding ping.
Pong ==
    /\ stream.st = "open" /\ pingOutstanding
    /\ pingOutstanding' = FALSE
    /\ UNCHANGED <<accountState, flags, account, timers, pingTimers, queue, handlers,
                   sockets, history>>

LoseStream ==
    /\ stream.st = "open"
    /\ Fault
    /\ \E st \in {"ended", "failed"} : stream' = [stream EXCEPT !.st = st]
    /\ UNCHANGED <<accountState, flags, account, timers, ping, queue, handlers,
                   strays, errorBlock, cause, calls>>

-----------------------------------------------------------------------------
(* The app and its user; an account that was logged out is forgotten. *)

Call(what) ==
    /\ what \in Calls /\ calls < MaxCalls
    /\ ~explicitLogout
    /\ calls' = calls + 1

\* sendPing, in the foreground.
SendPing ==
    \/ /\ accountState < Reconnecting /\ ~reconnectScheduled
       /\ accountState' = Reconnecting /\ Reconnect
    \/ /\ accountState = Bound
       /\ queue' = Append(queue, "ping") /\ UNCHANGED accountState
    \/ /\ accountState < Bound /\ ~(accountState < Reconnecting /\ ~reconnectScheduled)
       /\ IF loginStarted /\ stamp = "old" THEN Reconnect ELSE UNCHANGED queue
       /\ UNCHANGED accountState

\* reachabilityChanged, and the pinger of MLXMPPManager once bound.
CallPing ==
    /\ Call("ping")
    /\ SendPing
    /\ UNCHANGED <<flags, account, timers, ping, handlers, sockets, cause, faults>>

\* setClientsActive
CallForeground ==
    /\ Call("foreground")
    /\ IF accountState >= LoggedIn THEN SendPing ELSE Reconnect /\ UNCHANGED accountState
    /\ UNCHANGED <<flags, account, timers, ping, handlers, sockets, cause, faults>>

\* connectIfNecessary, which a push message calls.
CallWake ==
    /\ Call("wake")
    /\ IF accountState < Reconnecting THEN Reconnect ELSE UNCHANGED queue
    /\ cause' = IF cause = "suspend" THEN "wake" ELSE cause
    /\ UNCHANGED <<accountState, flags, account, timers, ping, handlers, sockets, faults>>

\* logoutAllKeepStreamWithCompletion:
CallSuspend ==
    /\ Call("suspend")
    /\ queue' = Append(queue, "suspend")
    /\ cause' = "suspend"
    /\ UNCHANGED <<accountState, flags, account, timers, ping, handlers, sockets, faults>>

\* disconnectAccount:
CallLogout ==
    /\ Call("logout")
    /\ explicitLogout' = TRUE
    /\ CancelLoginTimer
    /\ DisconnectThen("cleanup")
    /\ UNCHANGED <<accountState, flags, loggedInOnce, pushEnabled, delayed,
                   connecting, ping, handlers, sockets, cause, faults>>

User == CallPing \/ CallForeground \/ CallWake \/ CallSuspend \/ CallLogout

-----------------------------------------------------------------------------
\* Work that waits for nothing but its turn.
LocalStep ==
    \/ NetworkStep \/ ProcessStep
    \/ LoginTimerCancelled \/ ErrorOnMain \/ StreamEnd \/ StreamError \/ BytesAvailable

\* What waits for the clock, the network or the user.
SlowStep ==
    \/ DelayedConnect \/ CreateStreams \/ LoginTimer \/ TenSeconds \/ PingTimer
    \/ SrvAnswer \/ Pong \/ LoseStream \/ StaleEvent
    \/ User

Next == LocalStep \/ SlowStep

Spec == Init /\ [][Next]_vars

\* Local work takes milliseconds, the rest seconds: no slow step while there
\* is any. The races that remain are those between seconds.
Idle ==
    /\ queue = <<>> /\ handlers = {} /\ cancelled = 0 /\ ~errorBlock
    /\ stream.st \notin {"ended", "failed"} /\ stream.turn # "arrived"
PromptNext == LocalStep \/ (Idle /\ SlowStep)
PromptSpec == Init /\ [][PromptNext]_vars

\* Every queue is served, every timer expires, lookups return and the server
\* answers what it gets.
Fairness ==
    /\ WF_vars(NetworkStep) /\ WF_vars(ProcessStep)
    /\ WF_vars(LoginTimerCancelled) /\ WF_vars(ErrorOnMain)
    /\ WF_vars(StreamEnd) /\ WF_vars(StreamError) /\ WF_vars(BytesAvailable)
    /\ WF_vars(Idle /\ DelayedConnect) /\ WF_vars(Idle /\ CreateStreams)
    /\ WF_vars(Idle /\ LoginTimer) /\ WF_vars(Idle /\ PingTimer)
    /\ WF_vars(Idle /\ SrvAnswer)
FairSpec == PromptSpec /\ Fairness

-----------------------------------------------------------------------------
FlagsTyped ==
    /\ loginStarted \in BOOLEAN /\ reconnectScheduled \in BOOLEAN
    /\ loggedInOnce \in BOOLEAN /\ explicitLogout \in BOOLEAN
    /\ pushEnabled \in BOOLEAN /\ pingOutstanding \in BOOLEAN
    /\ errorBlock \in BOOLEAN
CountersTyped ==
    /\ delayed \in Nat /\ connecting \in Nat /\ cancelled \in Nat
    /\ pingTimers \in Nat /\ strays \in Nat
    /\ calls \in 0 .. MaxCalls /\ faults \in 0 .. MaxFaults
NamesTyped ==
    /\ accountState \in Disconnected .. Bound
    /\ stamp \in {"none", "recent", "old"}
    /\ loginTimer \in {"none", "armed", "fired", "cancelled"}
    /\ handlers \subseteq {"success", "failure", "streamError", "bound"}
    /\ cause \in {"none", "connect", "refused", "end", "ping", "suspend", "wake"}
QueueTyped == queue \in Seq(Ops)
StreamTyped == stream \in Streams /\ (stream.turn = "server" => stream.answers < 2)
TypeOK == FlagsTyped /\ CountersTyped /\ NamesTyped /\ QueueTyped /\ StreamTyped

Connected == accountState = Bound /\ stream.st = "open"

\* Neither the client nor the server has anything left to do.
Quiescent ==
    /\ Idle /\ ~(stream.st = "open" /\ stream.turn = "server")
    /\ delayed = 0 /\ connecting = 0 /\ loginTimer # "armed" /\ pingTimers = 0

\* An account that logged in before is never left without a connection and
\* without anything that would make one: no combination of lost streams, slow
\* servers, pings, calls and cancelled operations ends there, unless the
\* server refused the account or the app suspended or logged it out. Every
\* place that calls reconnect:, cancels the queue, or returns early because
\* loginStarted or reconnectScheduled is set has to agree for this to hold.
KeepsTrying ==
    Quiescent /\ loggedInOnce /\ ~explicitLogout /\ cause \notin {"refused", "suspend"}
        => Connected

\* Once all local work is done an account that says it is bound has its stream:
\* whatever closes the stream takes the state along (closeSocket and
\* resetValues run as different operations, or in either order).
BoundHasStream == Idle /\ accountState = Bound => stream.st = "open"

\* reconnectScheduled makes reconnect: do nothing. While the account is
\* disconnected it is set only if a block that will connect really waits, so
\* that a forgotten reset cannot block the account for good.
ScheduledMeansPending ==
    reconnectScheduled /\ accountState = Disconnected /\ ~explicitLogout => delayed > 0

\* When the faults and calls end, an account that logged in once ends up
\* connected and stays so: timers that were started for an earlier attempt,
\* and their cancel handlers, do not take the later ones down for ever.
SettlesConnected ==
    <>[](loggedInOnce => Connected \/ explicitLogout \/ cause \in {"refused", "suspend"})

=============================================================================
