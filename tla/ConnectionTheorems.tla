------------------------- MODULE ConnectionTheorems -------------------------
(***************************************************************************)
(* Proofs about Connection, for any calls and bounds and with every        *)
(* interleaving (Spec).                                                    *)
(***************************************************************************)
EXTENDS Connection, SequenceTheorems, TLAPS

\* Queues that operations leave behind are sequences of operations.
LEMMA QueueOperations ==
    ASSUME queue \in Seq(Ops)
    PROVE  /\ queue # <<>> => Tail(queue) \in Seq(Ops)
           /\ \A op \in Ops : Append(queue, op) \in Seq(Ops)
           /\ queue # <<>> => \A op \in Ops : Append(Tail(queue), op) \in Seq(Ops)
           /\ \A op \in Ops : <<op>> \in Seq(Ops)
           /\ \A op1 \in Ops : \A op2 \in Ops : <<op1, op2>> \in Seq(Ops)
  OBVIOUS

LEMMA OperationNames ==
    /\ "startStream" \in Ops /\ "read" \in Ops /\ "processInput" \in Ops
    /\ "ping" \in Ops /\ "reconnect" \in Ops /\ "close" \in Ops /\ "suspend" \in Ops
    /\ "cleanup" \in Ops /\ "cleanupReconnect" \in Ops /\ "cleanupMarkReconnect" \in Ops
  BY DEF Ops

\* One step per operation, and one per part of the type invariant.
LEMMA TypeStep == TypeOK /\ Next => TypeOK'
<1> SUFFICES ASSUME TypeOK, Next PROVE TypeOK'
  OBVIOUS
<1>1. CASE ReconnectOp
  <2> USE <1>1 DEF ReconnectOp, Running, Finish, DisconnectThen, Schedule, account, ping, sockets, history
  <2>1. FlagsTyped'
    BY DEF TypeOK, FlagsTyped
  <2>2. CountersTyped'
    BY ConnectionAssumption DEF TypeOK, CountersTyped, ConnectionAssumption
  <2>3. NamesTyped'
    BY DEF TypeOK, NamesTyped, Disconnected, Reconnecting, HasStream, LoggedIn, Bound
  <2>4. QueueTyped'
    BY QueueOperations, OperationNames DEF TypeOK, QueueTyped
  <2>5. StreamTyped'
    BY DEF TypeOK, StreamTyped, Streams, NoStream
  <2> QED BY <2>1, <2>2, <2>3, <2>4, <2>5 DEF TypeOK
<1>2. CASE CloseOp
  <2> USE <1>2 DEF CloseOp, Running, Finish, flags, account, timers, history
  <2>1. FlagsTyped'
    BY DEF TypeOK, FlagsTyped
  <2>2. CountersTyped'
    BY ConnectionAssumption DEF TypeOK, CountersTyped, ConnectionAssumption
  <2>3. NamesTyped'
    BY DEF TypeOK, NamesTyped, Disconnected, Reconnecting, HasStream, LoggedIn, Bound
  <2>4. QueueTyped'
    BY QueueOperations, OperationNames DEF TypeOK, QueueTyped
  <2>5. StreamTyped'
    BY DEF TypeOK, StreamTyped, Streams, NoStream
  <2> QED BY <2>1, <2>2, <2>3, <2>4, <2>5 DEF TypeOK
<1>3. CASE CleanupOp
  <2> USE <1>3 DEF CleanupOp, Running, Finish, Reconnect, ResetValues, account, timers, ping, sockets, history
  <2>1. FlagsTyped'
    BY DEF TypeOK, FlagsTyped
  <2>2. CountersTyped'
    BY ConnectionAssumption DEF TypeOK, CountersTyped, ConnectionAssumption
  <2>3. NamesTyped'
    BY DEF TypeOK, NamesTyped, Disconnected, Reconnecting, HasStream, LoggedIn, Bound
  <2>4. QueueTyped'
    BY QueueOperations, OperationNames DEF TypeOK, QueueTyped
  <2>5. StreamTyped'
    BY DEF TypeOK, StreamTyped, Streams, NoStream
  <2> QED BY <2>1, <2>2, <2>3, <2>4, <2>5 DEF TypeOK
<1>4. CASE SuspendOp
  <2> USE <1>4 DEF SuspendOp, Running, ResetValues, account, timers, ping, sockets, history
  <2>1. FlagsTyped'
    BY DEF TypeOK, FlagsTyped
  <2>2. CountersTyped'
    BY ConnectionAssumption DEF TypeOK, CountersTyped, ConnectionAssumption
  <2>3. NamesTyped'
    BY DEF TypeOK, NamesTyped, Disconnected, Reconnecting, HasStream, LoggedIn, Bound
  <2>4. QueueTyped'
    BY QueueOperations, OperationNames DEF TypeOK, QueueTyped
  <2>5. StreamTyped'
    BY DEF TypeOK, StreamTyped, Streams, NoStream
  <2> QED BY <2>1, <2>2, <2>3, <2>4, <2>5 DEF TypeOK
<1>5. CASE StartStreamOp
  <2> USE <1>5 DEF StartStreamOp, Running, Finish, flags, account, timers, ping, history
  <2>1. FlagsTyped'
    BY DEF TypeOK, FlagsTyped
  <2>2. CountersTyped'
    BY ConnectionAssumption DEF TypeOK, CountersTyped, ConnectionAssumption
  <2>3. NamesTyped'
    BY DEF TypeOK, NamesTyped, Disconnected, Reconnecting, HasStream, LoggedIn, Bound
  <2>4. QueueTyped'
    BY QueueOperations, OperationNames DEF TypeOK, QueueTyped
  <2>5. StreamTyped'
    BY DEF TypeOK, StreamTyped, Streams, NoStream
  <2> QED BY <2>1, <2>2, <2>3, <2>4, <2>5 DEF TypeOK
<1>6. CASE ReadOp
  <2> USE <1>6 DEF ReadOp, Running, Finish, flags, account, timers, ping, history
  <2>1. FlagsTyped'
    BY DEF TypeOK, FlagsTyped
  <2>2. CountersTyped'
    BY ConnectionAssumption DEF TypeOK, CountersTyped, ConnectionAssumption
  <2>3. NamesTyped'
    BY DEF TypeOK, NamesTyped, Disconnected, Reconnecting, HasStream, LoggedIn, Bound
  <2>4. QueueTyped'
    BY QueueOperations, OperationNames DEF TypeOK, QueueTyped
  <2>5. StreamTyped'
    BY DEF TypeOK, StreamTyped, Streams, NoStream
  <2> QED BY <2>1, <2>2, <2>3, <2>4, <2>5 DEF TypeOK
<1>7. CASE ProcessInputOp
  <2> USE <1>7 DEF ProcessInputOp, Running, Finish, Fault, Answers, flags, account, timers, ping
  <2>1. FlagsTyped'
    BY DEF TypeOK, FlagsTyped
  <2>2. CountersTyped'
    BY ConnectionAssumption DEF TypeOK, CountersTyped, ConnectionAssumption
  <2>3. NamesTyped'
    BY DEF TypeOK, NamesTyped, Disconnected, Reconnecting, HasStream, LoggedIn, Bound
  <2>4. QueueTyped'
    BY QueueOperations, OperationNames DEF TypeOK, QueueTyped
  <2>5. StreamTyped'
    BY DEF TypeOK, StreamTyped, Streams, NoStream
  <2> QED BY <2>1, <2>2, <2>3, <2>4, <2>5 DEF TypeOK
<1>8. CASE PingOp
  <2> USE <1>8 DEF PingOp, Running, Finish, flags, account, timers, ping, sockets, history
  <2>1. FlagsTyped'
    BY DEF TypeOK, FlagsTyped
  <2>2. CountersTyped'
    BY ConnectionAssumption DEF TypeOK, CountersTyped, ConnectionAssumption
  <2>3. NamesTyped'
    BY DEF TypeOK, NamesTyped, Disconnected, Reconnecting, HasStream, LoggedIn, Bound
  <2>4. QueueTyped'
    BY QueueOperations, OperationNames DEF TypeOK, QueueTyped
  <2>5. StreamTyped'
    BY DEF TypeOK, StreamTyped, Streams, NoStream
  <2> QED BY <2>1, <2>2, <2>3, <2>4, <2>5 DEF TypeOK
<1>9. CASE DelayedConnect
  <2> USE <1>9 DEF DelayedConnect, account, sockets
  <2>1. FlagsTyped'
    BY DEF TypeOK, FlagsTyped
  <2>2. CountersTyped'
    BY ConnectionAssumption DEF TypeOK, CountersTyped, ConnectionAssumption
  <2>3. NamesTyped'
    BY DEF TypeOK, NamesTyped, Disconnected, Reconnecting, HasStream, LoggedIn, Bound
  <2>4. QueueTyped'
    BY QueueOperations, OperationNames DEF TypeOK, QueueTyped
  <2>5. StreamTyped'
    BY DEF TypeOK, StreamTyped, Streams, NoStream
  <2> QED BY <2>1, <2>2, <2>3, <2>4, <2>5 DEF TypeOK
<1>10. CASE CreateStreams
  <2> USE <1>10 DEF CreateStreams, flags, account, ping, history
  <2>1. FlagsTyped'
    BY DEF TypeOK, FlagsTyped
  <2>2. CountersTyped'
    BY ConnectionAssumption DEF TypeOK, CountersTyped, ConnectionAssumption
  <2>3. NamesTyped'
    BY DEF TypeOK, NamesTyped, Disconnected, Reconnecting, HasStream, LoggedIn, Bound
  <2>4. QueueTyped'
    BY QueueOperations, OperationNames DEF TypeOK, QueueTyped
  <2>5. StreamTyped'
    BY DEF TypeOK, StreamTyped, Streams, NoStream
  <2> QED BY <2>1, <2>2, <2>3, <2>4, <2>5 DEF TypeOK
<1>11. CASE LoginTimer
  <2> USE <1>11 DEF LoginTimer, Reconnect, Fault, account, ping, sockets
  <2>1. FlagsTyped'
    BY DEF TypeOK, FlagsTyped
  <2>2. CountersTyped'
    BY ConnectionAssumption DEF TypeOK, CountersTyped, ConnectionAssumption
  <2>3. NamesTyped'
    BY DEF TypeOK, NamesTyped, Disconnected, Reconnecting, HasStream, LoggedIn, Bound
  <2>4. QueueTyped'
    BY QueueOperations, OperationNames DEF TypeOK, QueueTyped
  <2>5. StreamTyped'
    BY DEF TypeOK, StreamTyped, Streams, NoStream
  <2> QED BY <2>1, <2>2, <2>3, <2>4, <2>5 DEF TypeOK
<1>12. CASE LoginTimerCancelled
  <2> USE <1>12 DEF LoginTimerCancelled, Reconnect, account, ping, sockets, history
  <2>1. FlagsTyped'
    BY DEF TypeOK, FlagsTyped
  <2>2. CountersTyped'
    BY ConnectionAssumption DEF TypeOK, CountersTyped, ConnectionAssumption
  <2>3. NamesTyped'
    BY DEF TypeOK, NamesTyped, Disconnected, Reconnecting, HasStream, LoggedIn, Bound
  <2>4. QueueTyped'
    BY QueueOperations, OperationNames DEF TypeOK, QueueTyped
  <2>5. StreamTyped'
    BY DEF TypeOK, StreamTyped, Streams, NoStream
  <2> QED BY <2>1, <2>2, <2>3, <2>4, <2>5 DEF TypeOK
<1>13. CASE PingTimer
  <2> USE <1>13 DEF PingTimer, Reconnect, flags, account, timers, ping, sockets
  <2>1. FlagsTyped'
    BY DEF TypeOK, FlagsTyped
  <2>2. CountersTyped'
    BY ConnectionAssumption DEF TypeOK, CountersTyped, ConnectionAssumption
  <2>3. NamesTyped'
    BY DEF TypeOK, NamesTyped, Disconnected, Reconnecting, HasStream, LoggedIn, Bound
  <2>4. QueueTyped'
    BY QueueOperations, OperationNames DEF TypeOK, QueueTyped
  <2>5. StreamTyped'
    BY DEF TypeOK, StreamTyped, Streams, NoStream
  <2> QED BY <2>1, <2>2, <2>3, <2>4, <2>5 DEF TypeOK
<1>14. CASE TenSeconds
  <2> USE <1>14 DEF TenSeconds, account, timers, ping, sockets, history
  <2>1. FlagsTyped'
    BY DEF TypeOK, FlagsTyped
  <2>2. CountersTyped'
    BY ConnectionAssumption DEF TypeOK, CountersTyped, ConnectionAssumption
  <2>3. NamesTyped'
    BY DEF TypeOK, NamesTyped, Disconnected, Reconnecting, HasStream, LoggedIn, Bound
  <2>4. QueueTyped'
    BY QueueOperations, OperationNames DEF TypeOK, QueueTyped
  <2>5. StreamTyped'
    BY DEF TypeOK, StreamTyped, Streams, NoStream
  <2> QED BY <2>1, <2>2, <2>3, <2>4, <2>5 DEF TypeOK
<1>15. CASE HandleSuccess
  <2> USE <1>15 DEF HandleSuccess, Handles, timers, ping, sockets, history
  <2>1. FlagsTyped'
    BY DEF TypeOK, FlagsTyped
  <2>2. CountersTyped'
    BY ConnectionAssumption DEF TypeOK, CountersTyped, ConnectionAssumption
  <2>3. NamesTyped'
    BY DEF TypeOK, NamesTyped, Disconnected, Reconnecting, HasStream, LoggedIn, Bound
  <2>4. QueueTyped'
    BY QueueOperations, OperationNames DEF TypeOK, QueueTyped
  <2>5. StreamTyped'
    BY DEF TypeOK, StreamTyped, Streams, NoStream
  <2> QED BY <2>1, <2>2, <2>3, <2>4, <2>5 DEF TypeOK
<1>16. CASE HandleBound
  <2> USE <1>16 DEF HandleBound, Handles, flags, timers, ping, sockets, history
  <2>1. FlagsTyped'
    BY ConnectionAssumption DEF TypeOK, FlagsTyped, ConnectionAssumption
  <2>2. CountersTyped'
    BY ConnectionAssumption DEF TypeOK, CountersTyped, ConnectionAssumption
  <2>3. NamesTyped'
    BY DEF TypeOK, NamesTyped, Disconnected, Reconnecting, HasStream, LoggedIn, Bound
  <2>4. QueueTyped'
    BY QueueOperations, OperationNames DEF TypeOK, QueueTyped
  <2>5. StreamTyped'
    BY DEF TypeOK, StreamTyped, Streams, NoStream
  <2> QED BY <2>1, <2>2, <2>3, <2>4, <2>5 DEF TypeOK
<1>17. CASE HandleStreamError
  <2> USE <1>17 DEF HandleStreamError, DisconnectThen, Handles, flags, account, timers, ping, sockets, history
  <2>1. FlagsTyped'
    BY DEF TypeOK, FlagsTyped
  <2>2. CountersTyped'
    BY ConnectionAssumption DEF TypeOK, CountersTyped, ConnectionAssumption
  <2>3. NamesTyped'
    BY DEF TypeOK, NamesTyped, Disconnected, Reconnecting, HasStream, LoggedIn, Bound
  <2>4. QueueTyped'
    BY QueueOperations, OperationNames DEF TypeOK, QueueTyped
  <2>5. StreamTyped'
    BY DEF TypeOK, StreamTyped, Streams, NoStream
  <2> QED BY <2>1, <2>2, <2>3, <2>4, <2>5 DEF TypeOK
<1>18. CASE HandleFailure
  <2> USE <1>18 DEF HandleFailure, DisconnectThen, CancelLoginTimer, Handles, flags, account, ping, sockets
  <2>1. FlagsTyped'
    BY DEF TypeOK, FlagsTyped
  <2>2. CountersTyped'
    BY ConnectionAssumption DEF TypeOK, CountersTyped, ConnectionAssumption
  <2>3. NamesTyped'
    BY DEF TypeOK, NamesTyped, Disconnected, Reconnecting, HasStream, LoggedIn, Bound
  <2>4. QueueTyped'
    BY QueueOperations, OperationNames DEF TypeOK, QueueTyped
  <2>5. StreamTyped'
    BY DEF TypeOK, StreamTyped, Streams, NoStream
  <2> QED BY <2>1, <2>2, <2>3, <2>4, <2>5 DEF TypeOK
<1>19. CASE StreamEnd
  <2> USE <1>19 DEF StreamEnd, DisconnectThen, account, timers, ping
  <2>1. FlagsTyped'
    BY DEF TypeOK, FlagsTyped
  <2>2. CountersTyped'
    BY ConnectionAssumption DEF TypeOK, CountersTyped, ConnectionAssumption
  <2>3. NamesTyped'
    BY DEF TypeOK, NamesTyped, Disconnected, Reconnecting, HasStream, LoggedIn, Bound
  <2>4. QueueTyped'
    BY QueueOperations, OperationNames DEF TypeOK, QueueTyped
  <2>5. StreamTyped'
    BY DEF TypeOK, StreamTyped, Streams, NoStream
  <2> QED BY <2>1, <2>2, <2>3, <2>4, <2>5 DEF TypeOK
<1>20. CASE StreamError
  <2> USE <1>20 DEF StreamError, Reconnect, DisconnectThen, CancelLoginTimer, account, ping
  <2>1. FlagsTyped'
    BY DEF TypeOK, FlagsTyped
  <2>2. CountersTyped'
    BY ConnectionAssumption DEF TypeOK, CountersTyped, ConnectionAssumption
  <2>3. NamesTyped'
    BY DEF TypeOK, NamesTyped, Disconnected, Reconnecting, HasStream, LoggedIn, Bound
  <2>4. QueueTyped'
    BY QueueOperations, OperationNames DEF TypeOK, QueueTyped
  <2>5. StreamTyped'
    BY DEF TypeOK, StreamTyped, Streams, NoStream
  <2> QED BY <2>1, <2>2, <2>3, <2>4, <2>5 DEF TypeOK
<1>21. CASE ErrorOnMain
  <2> USE <1>21 DEF ErrorOnMain, DisconnectThen, flags, account, timers, ping, history
  <2>1. FlagsTyped'
    BY DEF TypeOK, FlagsTyped
  <2>2. CountersTyped'
    BY ConnectionAssumption DEF TypeOK, CountersTyped, ConnectionAssumption
  <2>3. NamesTyped'
    BY DEF TypeOK, NamesTyped, Disconnected, Reconnecting, HasStream, LoggedIn, Bound
  <2>4. QueueTyped'
    BY QueueOperations, OperationNames DEF TypeOK, QueueTyped
  <2>5. StreamTyped'
    BY DEF TypeOK, StreamTyped, Streams, NoStream
  <2> QED BY <2>1, <2>2, <2>3, <2>4, <2>5 DEF TypeOK
<1>22. CASE StaleEvent
  <2> USE <1>22 DEF StaleEvent, DisconnectThen, flags, account, timers, ping, history
  <2>1. FlagsTyped'
    BY DEF TypeOK, FlagsTyped
  <2>2. CountersTyped'
    BY ConnectionAssumption DEF TypeOK, CountersTyped, ConnectionAssumption
  <2>3. NamesTyped'
    BY DEF TypeOK, NamesTyped, Disconnected, Reconnecting, HasStream, LoggedIn, Bound
  <2>4. QueueTyped'
    BY QueueOperations, OperationNames DEF TypeOK, QueueTyped
  <2>5. StreamTyped'
    BY DEF TypeOK, StreamTyped, Streams, NoStream
  <2> QED BY <2>1, <2>2, <2>3, <2>4, <2>5 DEF TypeOK
<1>23. CASE BytesAvailable
  <2> USE <1>23 DEF BytesAvailable, flags, account, timers, ping, history
  <2>1. FlagsTyped'
    BY DEF TypeOK, FlagsTyped
  <2>2. CountersTyped'
    BY ConnectionAssumption DEF TypeOK, CountersTyped, ConnectionAssumption
  <2>3. NamesTyped'
    BY DEF TypeOK, NamesTyped, Disconnected, Reconnecting, HasStream, LoggedIn, Bound
  <2>4. QueueTyped'
    BY QueueOperations, OperationNames DEF TypeOK, QueueTyped
  <2>5. StreamTyped'
    BY DEF TypeOK, StreamTyped, Streams, NoStream
  <2> QED BY <2>1, <2>2, <2>3, <2>4, <2>5 DEF TypeOK
<1>24. CASE SrvAnswer
  <2> USE <1>24 DEF SrvAnswer, flags, account, timers, ping, history
  <2>1. FlagsTyped'
    BY DEF TypeOK, FlagsTyped
  <2>2. CountersTyped'
    BY ConnectionAssumption DEF TypeOK, CountersTyped, ConnectionAssumption
  <2>3. NamesTyped'
    BY DEF TypeOK, NamesTyped, Disconnected, Reconnecting, HasStream, LoggedIn, Bound
  <2>4. QueueTyped'
    BY QueueOperations, OperationNames DEF TypeOK, QueueTyped
  <2>5. StreamTyped'
    <3>1. stream \in Streams /\ stream.answers \in {0, 1}
      BY DEF TypeOK, StreamTyped, Streams
    <3>2. /\ stream.answers + 1 \in 0 .. 2
          /\ stream.st \in {"none", "open", "ended", "failed", "dead"}
      BY <3>1 DEF Streams
    <3>3. stream' = [st |-> stream.st, answers |-> stream.answers + 1, turn |-> "arrived"]
      BY <3>1 DEF Streams
    <3> QED BY <3>2, <3>3 DEF StreamTyped, Streams
  <2> QED BY <2>1, <2>2, <2>3, <2>4, <2>5 DEF TypeOK
<1>25. CASE Pong
  <2> USE <1>25 DEF Pong, flags, account, timers, sockets, history
  <2>1. FlagsTyped'
    BY DEF TypeOK, FlagsTyped
  <2>2. CountersTyped'
    BY ConnectionAssumption DEF TypeOK, CountersTyped, ConnectionAssumption
  <2>3. NamesTyped'
    BY DEF TypeOK, NamesTyped, Disconnected, Reconnecting, HasStream, LoggedIn, Bound
  <2>4. QueueTyped'
    BY QueueOperations, OperationNames DEF TypeOK, QueueTyped
  <2>5. StreamTyped'
    BY DEF TypeOK, StreamTyped, Streams, NoStream
  <2> QED BY <2>1, <2>2, <2>3, <2>4, <2>5 DEF TypeOK
<1>26. CASE LoseStream
  <2> USE <1>26 DEF LoseStream, Fault, flags, account, timers, ping
  <2>1. FlagsTyped'
    BY DEF TypeOK, FlagsTyped
  <2>2. CountersTyped'
    BY ConnectionAssumption DEF TypeOK, CountersTyped, ConnectionAssumption
  <2>3. NamesTyped'
    BY DEF TypeOK, NamesTyped, Disconnected, Reconnecting, HasStream, LoggedIn, Bound
  <2>4. QueueTyped'
    BY QueueOperations, OperationNames DEF TypeOK, QueueTyped
  <2>5. StreamTyped'
    BY DEF TypeOK, StreamTyped, Streams, NoStream
  <2> QED BY <2>1, <2>2, <2>3, <2>4, <2>5 DEF TypeOK
<1>27. CASE CallPing
  <2> USE <1>27 DEF CallPing, Call, SendPing, Reconnect, flags, account, timers, ping, sockets
  <2>1. FlagsTyped'
    BY DEF TypeOK, FlagsTyped
  <2>2. CountersTyped'
    BY ConnectionAssumption DEF TypeOK, CountersTyped, ConnectionAssumption
  <2>3. NamesTyped'
    BY DEF TypeOK, NamesTyped, Disconnected, Reconnecting, HasStream, LoggedIn, Bound
  <2>4. QueueTyped'
    BY QueueOperations, OperationNames DEF TypeOK, QueueTyped
  <2>5. StreamTyped'
    BY DEF TypeOK, StreamTyped, Streams, NoStream
  <2> QED BY <2>1, <2>2, <2>3, <2>4, <2>5 DEF TypeOK
<1>28. CASE CallForeground
  <2> USE <1>28 DEF CallForeground, Reconnect, Call, SendPing, flags, account, timers, ping, sockets
  <2>1. FlagsTyped'
    BY DEF TypeOK, FlagsTyped
  <2>2. CountersTyped'
    BY ConnectionAssumption DEF TypeOK, CountersTyped, ConnectionAssumption
  <2>3. NamesTyped'
    BY DEF TypeOK, NamesTyped, Disconnected, Reconnecting, HasStream, LoggedIn, Bound
  <2>4. QueueTyped'
    BY QueueOperations, OperationNames DEF TypeOK, QueueTyped
  <2>5. StreamTyped'
    BY DEF TypeOK, StreamTyped, Streams, NoStream
  <2> QED BY <2>1, <2>2, <2>3, <2>4, <2>5 DEF TypeOK
<1>29. CASE CallWake
  <2> USE <1>29 DEF CallWake, Reconnect, Call, flags, account, timers, ping, sockets
  <2>1. FlagsTyped'
    BY DEF TypeOK, FlagsTyped
  <2>2. CountersTyped'
    BY ConnectionAssumption DEF TypeOK, CountersTyped, ConnectionAssumption
  <2>3. NamesTyped'
    BY DEF TypeOK, NamesTyped, Disconnected, Reconnecting, HasStream, LoggedIn, Bound
  <2>4. QueueTyped'
    BY QueueOperations, OperationNames DEF TypeOK, QueueTyped
  <2>5. StreamTyped'
    BY DEF TypeOK, StreamTyped, Streams, NoStream
  <2> QED BY <2>1, <2>2, <2>3, <2>4, <2>5 DEF TypeOK
<1>30. CASE CallSuspend
  <2> USE <1>30 DEF CallSuspend, Call, flags, account, timers, ping, sockets
  <2>1. FlagsTyped'
    BY DEF TypeOK, FlagsTyped
  <2>2. CountersTyped'
    BY ConnectionAssumption DEF TypeOK, CountersTyped, ConnectionAssumption
  <2>3. NamesTyped'
    BY DEF TypeOK, NamesTyped, Disconnected, Reconnecting, HasStream, LoggedIn, Bound
  <2>4. QueueTyped'
    BY QueueOperations, OperationNames DEF TypeOK, QueueTyped
  <2>5. StreamTyped'
    BY DEF TypeOK, StreamTyped, Streams, NoStream
  <2> QED BY <2>1, <2>2, <2>3, <2>4, <2>5 DEF TypeOK
<1>31. CASE CallLogout
  <2> USE <1>31 DEF CallLogout, DisconnectThen, CancelLoginTimer, Call, flags, ping, sockets
  <2>1. FlagsTyped'
    BY DEF TypeOK, FlagsTyped
  <2>2. CountersTyped'
    BY ConnectionAssumption DEF TypeOK, CountersTyped, ConnectionAssumption
  <2>3. NamesTyped'
    BY DEF TypeOK, NamesTyped, Disconnected, Reconnecting, HasStream, LoggedIn, Bound
  <2>4. QueueTyped'
    BY QueueOperations, OperationNames DEF TypeOK, QueueTyped
  <2>5. StreamTyped'
    BY DEF TypeOK, StreamTyped, Streams, NoStream
  <2> QED BY <2>1, <2>2, <2>3, <2>4, <2>5 DEF TypeOK
<1> QED BY <1>1, <1>2, <1>3, <1>4, <1>5, <1>6, <1>7, <1>8, <1>9, <1>10, <1>11, <1>12, <1>13, <1>14, <1>15, <1>16, <1>17, <1>18, <1>19, <1>20, <1>21, <1>22, <1>23, <1>24, <1>25, <1>26, <1>27, <1>28, <1>29, <1>30, <1>31
       DEF Next, LocalStep, SlowStep, NetworkStep, ProcessStep, User

LEMMA TypeStutter == TypeOK /\ UNCHANGED vars => TypeOK'
  BY DEF TypeOK, FlagsTyped, CountersTyped, NamesTyped, QueueTyped, StreamTyped, vars,
         flags, account, timers, ping, sockets, history

LEMMA TypeInit == Init => TypeOK
<1> SUFFICES ASSUME Init PROVE TypeOK
  OBVIOUS
<1> USE DEF Init
<1>1. FlagsTyped
  BY DEF FlagsTyped
<1>2. CountersTyped
  BY ConnectionAssumption DEF CountersTyped, ConnectionAssumption
<1>3. NamesTyped
  BY DEF NamesTyped, Disconnected, Bound
<1>4. QueueTyped
  BY OperationNames DEF QueueTyped
<1>5. StreamTyped
  BY DEF StreamTyped, Streams, NoStream
<1> QED BY <1>1, <1>2, <1>3, <1>4, <1>5 DEF TypeOK

\* Every reachable state is well typed: whatever is cancelled, queued or fires
\* when, networkQueue holds only operations of the model and the server is never
\* asked for more than the two answers of the negotiation.
THEOREM TypeCorrect == Spec => []TypeOK
<1>1. TypeOK /\ [Next]_vars => TypeOK'
  BY TypeStep, TypeStutter
<1> QED BY TypeInit, <1>1, PTL DEF Spec

-----------------------------------------------------------------------------
\* reconnectScheduled of a disconnected account has a block behind it: it is set
\* together with the block, and a state that drops to Disconnected resets it.
THEOREM ScheduleNeverForgotten == Spec => []ScheduledMeansPending
<1> USE DEF Disconnected, Reconnecting, HasStream, LoggedIn, Bound
<1>1. Init => ScheduledMeansPending
  BY DEF Init, ScheduledMeansPending
<1>2. ASSUME TypeOK, ScheduledMeansPending, Next PROVE ScheduledMeansPending'
  <2> delayed \in Nat /\ accountState \in 0 .. 4
    BY <1>2 DEF TypeOK, CountersTyped, NamesTyped
  <2>1. CASE ReconnectOp
    <3>1. UNCHANGED <<accountState, explicitLogout>>
      BY <2>1 DEF ReconnectOp, account
    <3>2. UNCHANGED <<reconnectScheduled, delayed>> \/ Schedule
      BY <2>1 DEF ReconnectOp
    <3>3. UNCHANGED <<reconnectScheduled, delayed>> \/ delayed' > 0
      BY <3>2 DEF Schedule
    <3> QED BY <1>2, <3>1, <3>3 DEF ScheduledMeansPending
  <2>2. CASE CloseOp
    BY <1>2, <2>2 DEF ScheduledMeansPending, CloseOp, flags, account, timers
  <2>3. CASE CleanupOp
    BY <1>2, <2>3 DEF ScheduledMeansPending, CleanupOp, Reconnect, ResetValues, account, timers
  <2>4. CASE SuspendOp
    BY <1>2, <2>4 DEF ScheduledMeansPending, SuspendOp, ResetValues, account, timers
  <2>5. CASE StartStreamOp
    BY <1>2, <2>5 DEF ScheduledMeansPending, StartStreamOp, flags, account, timers
  <2>6. CASE ReadOp
    BY <1>2, <2>6 DEF ScheduledMeansPending, ReadOp, flags, account, timers
  <2>7. CASE ProcessInputOp
    BY <1>2, <2>7 DEF ScheduledMeansPending, ProcessInputOp, flags, account, timers
  <2>8. CASE PingOp
    BY <1>2, <2>8 DEF ScheduledMeansPending, PingOp, flags, account, timers
  <2>9. CASE DelayedConnect
    BY <1>2, <2>9 DEF ScheduledMeansPending, DelayedConnect, account
  <2>10. CASE CreateStreams
    BY <1>2, <2>10 DEF ScheduledMeansPending, CreateStreams, flags, account
  <2>11. CASE LoginTimer
    BY <1>2, <2>11 DEF ScheduledMeansPending, LoginTimer, Reconnect, account
  <2>12. CASE LoginTimerCancelled
    BY <1>2, <2>12 DEF ScheduledMeansPending, LoginTimerCancelled, Reconnect, account
  <2>13. CASE PingTimer
    BY <1>2, <2>13 DEF ScheduledMeansPending, PingTimer, Reconnect, flags, account, timers
  <2>14. CASE TenSeconds
    BY <1>2, <2>14 DEF ScheduledMeansPending, TenSeconds, account, timers
  <2>15. CASE HandleSuccess
    BY <1>2, <2>15 DEF ScheduledMeansPending, HandleSuccess, Handles, timers
  <2>16. CASE HandleBound
    BY <1>2, <2>16 DEF ScheduledMeansPending, HandleBound, Handles, flags, timers
  <2>17. CASE HandleStreamError
    BY <1>2, <2>17 DEF ScheduledMeansPending, HandleStreamError, DisconnectThen, Handles, flags, account, timers
  <2>18. CASE HandleFailure
    BY <1>2, <2>18 DEF ScheduledMeansPending, HandleFailure, DisconnectThen, CancelLoginTimer, Handles, flags, account
  <2>19. CASE StreamEnd
    BY <1>2, <2>19 DEF ScheduledMeansPending, StreamEnd, DisconnectThen, account, timers
  <2>20. CASE StreamError
    BY <1>2, <2>20 DEF ScheduledMeansPending, StreamError, Reconnect, DisconnectThen, CancelLoginTimer, account
  <2>21. CASE ErrorOnMain
    BY <1>2, <2>21 DEF ScheduledMeansPending, ErrorOnMain, DisconnectThen, flags, account, timers
  <2>22. CASE StaleEvent
    BY <1>2, <2>22 DEF ScheduledMeansPending, StaleEvent, DisconnectThen, flags, account, timers
  <2>23. CASE BytesAvailable
    BY <1>2, <2>23 DEF ScheduledMeansPending, BytesAvailable, flags, account, timers
  <2>24. CASE SrvAnswer
    BY <1>2, <2>24 DEF ScheduledMeansPending, SrvAnswer, flags, account, timers
  <2>25. CASE Pong
    BY <1>2, <2>25 DEF ScheduledMeansPending, Pong, flags, account, timers
  <2>26. CASE LoseStream
    BY <1>2, <2>26 DEF ScheduledMeansPending, LoseStream, flags, account, timers
  <2>27. CASE CallPing
    BY <1>2, <2>27 DEF ScheduledMeansPending, CallPing, Call, SendPing, Reconnect, flags, account, timers
  <2>28. CASE CallForeground
    BY <1>2, <2>28 DEF ScheduledMeansPending, CallForeground, Reconnect, Call, SendPing, flags, account, timers
  <2>29. CASE CallWake
    BY <1>2, <2>29 DEF ScheduledMeansPending, CallWake, Reconnect, Call, flags, account, timers
  <2>30. CASE CallSuspend
    BY <1>2, <2>30 DEF ScheduledMeansPending, CallSuspend, Call, flags, account, timers
  <2>31. CASE CallLogout
    BY <1>2, <2>31 DEF ScheduledMeansPending, CallLogout, DisconnectThen, CancelLoginTimer, Call, flags
  <2> QED BY <1>2, <2>1, <2>2, <2>3, <2>4, <2>5, <2>6, <2>7, <2>8, <2>9, <2>10, <2>11, <2>12, <2>13, <2>14, <2>15, <2>16, <2>17, <2>18, <2>19, <2>20, <2>21, <2>22, <2>23, <2>24, <2>25, <2>26, <2>27, <2>28, <2>29, <2>30, <2>31
         DEF Next, LocalStep, SlowStep, NetworkStep, ProcessStep, User
<1>3. ScheduledMeansPending /\ UNCHANGED vars => ScheduledMeansPending'
  BY DEF ScheduledMeansPending, vars, flags, account, timers
<1> QED BY <1>1, <1>2, <1>3, TypeCorrect, PTL DEF Spec

-----------------------------------------------------------------------------
(* Prompt local work. What networkQueue executes, and what after that: with   *)
(* local work done before anything slow happens, that is all there ever is.   *)

Now == IF queue = <<>> THEN "none" ELSE Head(queue)
After == IF Len(queue) = 2 THEN queue[2] ELSE "none"
Cleanups == {"cleanup", "cleanupReconnect", "cleanupMarkReconnect"}

LEMMA EmptyQueue ==
    ASSUME queue \in Seq(Ops)
    PROVE  queue = <<>> <=> Now = "none"
  BY DEF Now, Ops

LEMMA RunningIsNow ==
    ASSUME NEW op, Running(op)
    PROVE  Now = op
  BY DEF Running, Now

LEMMA ShortSequences ==
    ASSUME NEW q \in Seq(Ops), q # <<>>, Len(q) <= 2
    PROVE  \/ Len(q) = 1 /\ Tail(q) = <<>>
           \/ Len(q) = 2 /\ Tail(q) = <<q[2]>> /\ q[2] \in Ops
<1>1. Len(q) \in Nat \ {0} /\ Tail(q) \in Seq(Ops) /\ Len(Tail(q)) = Len(q) - 1
  BY EmptySeq, HeadTailProperties
<1>2. Len(q) = 1 \/ Len(q) = 2
  BY ONLY <1>1, Len(q) <= 2
<1>3. ASSUME Len(q) = 1 PROVE Tail(q) = <<>>
  <2>1. Len(Tail(q)) = 0
    BY ONLY <1>1, <1>3
  <2> QED BY <1>1, <2>1, EmptySeq
<1>4. ASSUME Len(q) = 2 PROVE Tail(q) = <<q[2]>> /\ q[2] \in Ops
  <2>1. q[2] \in Ops
    BY <1>4, ElementOfSeq
  <2>2. Len(Tail(q)) = 1
    BY ONLY <1>1, <1>4
  <2>3. Tail(q)[1] = q[1 + 1]
    BY <2>2, HeadTailProperties
  <2>4. <<q[2]>> \in Seq(Ops) /\ Len(<<q[2]>>) = 1 /\ <<q[2]>>[1] = q[2]
    BY <2>1
  <2>5. \A i \in 1 .. Len(Tail(q)) : Tail(q)[i] = <<q[2]>>[i]
    BY <2>2, <2>3, <2>4
  <2>6. Tail(q) = <<q[2]>>
    BY <1>1, <2>2, <2>4, <2>5, SeqEqual
  <2> QED BY <2>1, <2>6
<1> QED BY <1>2, <1>3, <1>4

LEMMA FinishGoesOn ==
    ASSUME queue \in Seq(Ops), Len(queue) <= 2, queue # <<>>, Finish
    PROVE  Now' = After /\ After' = "none" /\ Len(queue') <= 2
<1>1. CASE Len(queue) = 1 /\ queue' = <<>>
  BY <1>1 DEF Now, After
<1>2. CASE Len(queue) = 2 /\ queue' = <<queue[2]>>
  BY <1>2 DEF Now, After
<1> QED BY <1>1, <1>2, ShortSequences DEF Finish

LEMMA ReconnectIsNext ==
    ASSUME Reconnect
    PROVE  Now' = "reconnect" /\ After' = "none" /\ Len(queue') <= 2
  BY DEF Reconnect, Now, After

LEMMA CloseIsNext ==
    ASSUME NEW cleanup, DisconnectThen(cleanup)
    PROVE  Now' = "close" /\ After' = cleanup /\ Len(queue') <= 2
  BY DEF DisconnectThen, Now, After

LEMMA AloneIsNext ==
    ASSUME NEW op, \/ queue' = <<op>>
                   \/ queue = <<>> /\ queue' = Append(queue, op)
    PROVE  Now' = op /\ After' = "none" /\ Len(queue') <= 2
<1>1. queue' = <<op>>
  OBVIOUS
<1> QED BY <1>1 DEF Now, After

LEMMA ReadIsNext ==
    ASSUME queue \in Seq(Ops), Len(queue) <= 2, After = "none", queue # <<>>, NEW op,
           queue' = Append(Tail(queue), op)
    PROVE  Now' = op /\ After' = "none" /\ Len(queue') <= 2
<1>1. Tail(queue) = <<>>
  <2>1. "none" \notin Ops
    BY DEF Ops
  <2> QED BY <2>1, ShortSequences DEF After
<1>2. queue' = <<op>>
  BY <1>1, Append(<<>>, op) = <<op>>
<1> QED BY <1>2 DEF Now, After

LEMMA QueueUnchanged ==
    ASSUME UNCHANGED queue
    PROVE  Now' = Now /\ After' = After
  BY DEF Now, After

\* The local work that is going on: a stream that was read, and its handler on
\* processQueue, are alone; a cleanup is preceded by the closing of the socket.
Reading == stream.turn \in {"arrived", "signalled", "read"} \/ handlers # {}
Shape ==
    /\ Len(queue) <= 2
    /\ After # "none" => Now = "close" /\ After \in Cleanups
    /\ Now \in Cleanups => stream = NoStream
    /\ errorBlock => stream.st # "open"
OneReader ==
    /\ Reading => stream.st = "open" /\ cancelled = 0 /\ ~errorBlock
    /\ stream.turn \in {"arrived", "signalled", "read"} => stream.answers >= 1
    /\ stream.turn = "arrived" => Now = "none" /\ handlers = {}
    /\ stream.turn = "signalled" <=> Now = "read"
    /\ stream.turn = "read" <=> Now = "processInput"
    /\ handlers # {} => Now = "none" /\ stream.turn = "client"
    /\ handlers \in {{}, {"success"}, {"failure"}, {"streamError"}, {"bound"}}
    /\ handlers = {"success"} => stream.answers = 1
    /\ handlers = {"bound"} => stream.answers = 2
Opening ==
    /\ Now = "startStream" =>
          stream.st = "open" /\ stream.turn = "client" /\ stream.answers < 2
    /\ stream.st \in {"ended", "failed"} => Now = "none" /\ cancelled = 0 /\ ~errorBlock
Orderly == Shape /\ OneReader /\ Opening

\* Who was answered twice, or is about to be, logged in; who is bound has a
\* stream, or the end of the stream is being dealt with.
Answered ==
    /\ accountState >= LoggedIn => loggedInOnce
    /\ stream.answers = 2 => loggedInOnce
    /\ stream.answers = 1 /\ (stream.turn = "server" \/ Now = "startStream") => loggedInOnce
Ending == After \in Cleanups \/ Now \in Cleanups
BoundStream ==
    /\ accountState = Bound => stream.st \in {"open", "ended", "failed"} \/ Ending
    /\ Now = "close" /\ After = "none" => accountState = Disconnected

\* What the flags say of the state, of an account that does not use push.
Flags ==
    /\ ~pushEnabled
    /\ accountState = Disconnected /\ loginStarted => reconnectScheduled
    /\ accountState >= LoggedIn => ~loginStarted
    /\ Now = "reconnect" => accountState < LoggedIn
    /\ Now = "ping" => accountState = Bound
Pinging ==
    pingOutstanding =>
        \/ Now = "close"
        \/ accountState >= Reconnecting /\ ~loginStarted /\ Now \notin Cleanups
Advanced ==
    stream.st = "open" /\ stream.answers >= 1 =>
        \/ accountState >= LoggedIn
        \/ stream.answers = 1 /\ Reading
        \/ Now = "close"
        \/ Now = "reconnect" /\ accountState = Reconnecting /\ ~loginStarted

\* Why an account that logged in once will be connected: a new connection is
\* being made, or the one it has is on its way, or its end is to be dealt with;
\* or the app has suspended it, and the next call will find it as after a cleanup.
Closing ==
    \/ After \in {"cleanupReconnect", "cleanupMarkReconnect"}
    \/ Now \in {"cleanupReconnect", "cleanupMarkReconnect"}
WillReconnect == Now = "reconnect" /\ (~loginStarted \/ stamp = "old")
Underway ==
    \/ accountState = Disconnected /\ delayed > 0
    \/ accountState = Reconnecting /\ (connecting > 0 \/ (stream.st = "open" /\ loginTimer = "armed"))
    \/ /\ accountState >= HasStream /\ stream.st = "open"
       /\ stream.turn = "server" \/ Reading \/ Now = "startStream" \/ accountState = Bound
Dormant ==
    /\ cause = "suspend"
    /\ Now = "suspend" \/ (accountState = Disconnected /\ ~loginStarted)
Trying ==
    loggedInOnce /\ ~explicitLogout /\ cause # "refused" =>
        Closing \/ WillReconnect \/ Underway \/ Dormant \/ stream.st \in {"ended", "failed"}
Excused ==
    /\ Now = "cleanup" \/ After = "cleanup" => cause = "refused" \/ explicitLogout
    /\ Now = "close" /\ After = "none" => cause = "suspend" /\ ~loginStarted
    /\ Now = "suspend" => cause = "suspend"

LEMMA QueueLaws ==
    ASSUME TypeOK, Shape
    PROVE  /\ \A op : Running(op) => Now = op
           /\ \A op : Running(op) /\ Finish => Now' = After /\ After' = "none" /\ Len(queue') <= 2
           /\ Reconnect => Now' = "reconnect" /\ After' = "none" /\ Len(queue') <= 2
           /\ \A c : DisconnectThen(c) => Now' = "close" /\ After' = c /\ Len(queue') <= 2
           /\ UNCHANGED queue => Now' = Now /\ After' = After /\ Len(queue') <= 2
           /\ Idle => Now = "none" /\ After = "none"
<1>1. queue \in Seq(Ops) /\ Len(queue) <= 2
  BY DEF TypeOK, QueueTyped, Shape
<1>2. \A op : Running(op) => Now = op
  BY RunningIsNow
<1>3. \A op : Running(op) /\ Finish => Now' = After /\ After' = "none" /\ Len(queue') <= 2
  BY <1>1, FinishGoesOn DEF Running
<1>4. Reconnect => Now' = "reconnect" /\ After' = "none" /\ Len(queue') <= 2
  BY ReconnectIsNext
<1>5. \A c : DisconnectThen(c) => Now' = "close" /\ After' = c /\ Len(queue') <= 2
  BY CloseIsNext
<1>6. UNCHANGED queue => Now' = Now /\ After' = After /\ Len(queue') <= 2
  BY <1>1, QueueUnchanged
<1>7. Idle => Now = "none" /\ After = "none"
  BY DEF Idle, Now, After
<1> QED BY <1>2, <1>3, <1>4, <1>5, <1>6, <1>7

\* One step per action, and one per part of the invariant, with and without push:
\* the local work stays in order, and what is bound has its stream.
LEMMA GeneralStep ==
    ASSUME TypeOK, Shape, OneReader, Opening, Answered, BoundStream, PromptNext
    PROVE  Shape' /\ OneReader' /\ Opening' /\ Answered' /\ BoundStream'
<1> USE DEF Disconnected, Reconnecting, HasStream, LoggedIn, Bound
<1>1. /\ \A op : Running(op) => Now = op
      /\ \A op : Running(op) /\ Finish => Now' = After /\ After' = "none" /\ Len(queue') <= 2
      /\ Reconnect => Now' = "reconnect" /\ After' = "none" /\ Len(queue') <= 2
      /\ \A c : DisconnectThen(c) => Now' = "close" /\ After' = c /\ Len(queue') <= 2
      /\ UNCHANGED queue => Now' = Now /\ After' = After /\ Len(queue') <= 2
      /\ Idle => Now = "none" /\ After = "none"
  BY QueueLaws
<1>2. /\ accountState \in 0 .. 4 /\ cancelled \in Nat /\ stream \in Streams /\ errorBlock \in BOOLEAN
      /\ loggedInOnce \in BOOLEAN
      /\ stream.st \in {"none", "open", "ended", "failed", "dead"} /\ stream.answers \in 0 .. 2
      /\ stream.turn \in {"client", "server", "arrived", "signalled", "read"}
      /\ stream.turn = "server" => stream.answers < 2
      /\ queue \in Seq(Ops) /\ Len(queue) <= 2
  BY DEF TypeOK, FlagsTyped, CountersTyped, NamesTyped, StreamTyped, QueueTyped, Streams, Shape
<1>3. CASE ReconnectOp
  <2> USE DEF ReconnectOp, Schedule, account, ping, sockets, history
  <2>1. Shape'
    BY <1>3, <1>1, <1>2 DEF Shape, OneReader, Opening, Cleanups, NoStream, Reading, Streams
  <2>2. OneReader'
    BY <1>3, <1>1, <1>2 DEF Shape, OneReader, Opening, Cleanups, NoStream, Reading, Streams
  <2>3. Opening'
    BY <1>3, <1>1, <1>2 DEF Shape, OneReader, Opening, Cleanups, NoStream, Reading, Streams
  <2>4. Answered'
    BY <1>3, <1>1, <1>2 DEF Shape, OneReader, Opening, Answered, Cleanups, NoStream, Reading, Streams
  <2>5. BoundStream'
    BY <1>3, <1>1, <1>2 DEF Shape, OneReader, Opening, Answered, BoundStream, Ending, Cleanups, NoStream, Reading, Streams
  <2> QED BY <2>1, <2>2, <2>3, <2>4, <2>5
<1>4. CASE CloseOp
  <2> USE DEF CloseOp, flags, account, timers, history
  <2>1. Shape'
    BY <1>4, <1>1, <1>2 DEF Shape, OneReader, Opening, Cleanups, NoStream, Reading, Streams
  <2>2. OneReader'
    BY <1>4, <1>1, <1>2 DEF Shape, OneReader, Opening, Cleanups, NoStream, Reading, Streams
  <2>3. Opening'
    BY <1>4, <1>1, <1>2 DEF Shape, OneReader, Opening, Cleanups, NoStream, Reading, Streams
  <2>4. Answered'
    BY <1>4, <1>1, <1>2 DEF Shape, OneReader, Opening, Answered, Cleanups, NoStream, Reading, Streams
  <2>5. BoundStream'
    BY <1>4, <1>1, <1>2 DEF Shape, OneReader, Opening, Answered, BoundStream, Ending, Cleanups, NoStream, Reading, Streams
  <2> QED BY <2>1, <2>2, <2>3, <2>4, <2>5
<1>5. CASE CleanupOp
  <2> USE DEF CleanupOp, ResetValues, account, timers, ping, sockets, history
  <2>1. Shape'
    BY <1>5, <1>1, <1>2 DEF Shape, OneReader, Opening, Cleanups, NoStream, Reading, Streams
  <2>2. OneReader'
    BY <1>5, <1>1, <1>2 DEF Shape, OneReader, Opening, Cleanups, NoStream, Reading, Streams
  <2>3. Opening'
    BY <1>5, <1>1, <1>2 DEF Shape, OneReader, Opening, Cleanups, NoStream, Reading, Streams
  <2>4. Answered'
    BY <1>5, <1>1, <1>2 DEF Shape, OneReader, Opening, Answered, Cleanups, NoStream, Reading, Streams
  <2>5. BoundStream'
    BY <1>5, <1>1, <1>2 DEF Shape, OneReader, Opening, Answered, BoundStream, Ending, Cleanups, NoStream, Reading, Streams
  <2> QED BY <2>1, <2>2, <2>3, <2>4, <2>5
<1>6. CASE SuspendOp
  <2> USE DEF SuspendOp, ResetValues, account, timers, ping, sockets, history
  <2>1. Now' = "close" /\ After' = "none" /\ Len(queue') <= 2
    BY <1>6, AloneIsNext
  <2>2. Shape'
    BY <1>6, <1>1, <1>2, <2>1 DEF Shape, OneReader, Opening, Cleanups, NoStream, Reading, Streams
  <2>3. OneReader'
    BY <1>6, <1>1, <1>2, <2>1 DEF Shape, OneReader, Opening, Cleanups, NoStream, Reading, Streams
  <2>4. Opening'
    BY <1>6, <1>1, <1>2, <2>1 DEF Shape, OneReader, Opening, Cleanups, NoStream, Reading, Streams
  <2>5. Answered'
    BY <1>6, <1>1, <1>2, <2>1 DEF Shape, OneReader, Opening, Answered, Cleanups, NoStream, Reading, Streams
  <2>6. BoundStream'
    BY <1>6, <1>1, <1>2, <2>1 DEF Shape, OneReader, Opening, Answered, BoundStream, Ending, Cleanups, NoStream, Reading, Streams
  <2> QED BY <2>2, <2>3, <2>4, <2>5, <2>6
<1>7. CASE StartStreamOp
  <2> USE DEF StartStreamOp, flags, account, timers, ping, history
  <2>1. Shape'
    BY <1>7, <1>1, <1>2 DEF Shape, OneReader, Opening, Cleanups, NoStream, Reading, Streams
  <2>2. OneReader'
    BY <1>7, <1>1, <1>2 DEF Shape, OneReader, Opening, Cleanups, NoStream, Reading, Streams
  <2>3. Opening'
    BY <1>7, <1>1, <1>2 DEF Shape, OneReader, Opening, Cleanups, NoStream, Reading, Streams
  <2>4. Answered'
    BY <1>7, <1>1, <1>2 DEF Shape, OneReader, Opening, Answered, Cleanups, NoStream, Reading, Streams
  <2>5. BoundStream'
    BY <1>7, <1>1, <1>2 DEF Shape, OneReader, Opening, Answered, BoundStream, Ending, Cleanups, NoStream, Reading, Streams
  <2> QED BY <2>1, <2>2, <2>3, <2>4, <2>5
<1>8. CASE ReadOp
  <2> USE DEF ReadOp, flags, account, timers, ping, history
  <2>1. queue' = Append(Tail(queue), "processInput") => Now' = "processInput" /\ After' = "none" /\ Len(queue') <= 2
    BY <1>8, <1>1, <1>2, ReadIsNext DEF Running, Shape
  <2>2. Shape'
    BY <1>8, <1>1, <1>2, <2>1 DEF Shape, OneReader, Opening, Cleanups, NoStream, Reading, Streams
  <2>3. OneReader'
    BY <1>8, <1>1, <1>2, <2>1 DEF Shape, OneReader, Opening, Cleanups, NoStream, Reading, Streams
  <2>4. Opening'
    BY <1>8, <1>1, <1>2, <2>1 DEF Shape, OneReader, Opening, Cleanups, NoStream, Reading, Streams
  <2>5. Answered'
    BY <1>8, <1>1, <1>2, <2>1 DEF Shape, OneReader, Opening, Answered, Cleanups, NoStream, Reading, Streams
  <2>6. BoundStream'
    BY <1>8, <1>1, <1>2, <2>1 DEF Shape, OneReader, Opening, Answered, BoundStream, Ending, Cleanups, NoStream, Reading, Streams
  <2> QED BY <2>2, <2>3, <2>4, <2>5, <2>6
<1>9. CASE ProcessInputOp
  <2> USE DEF ProcessInputOp, Fault, Answers, flags, account, timers, ping
  <2>1. Shape'
    BY <1>9, <1>1, <1>2 DEF Shape, OneReader, Opening, Cleanups, NoStream, Reading, Streams
  <2>2. OneReader'
    <3>1. /\ Now = "processInput" /\ handlers = {} /\ cancelled = 0 /\ ~errorBlock
          /\ stream.st = "open" /\ stream.turn = "read" /\ stream.answers \in {1, 2}
      BY <1>9, <1>1, <1>2 DEF OneReader, Reading
    <3>2. stream' = [stream EXCEPT !.turn = "client"] /\ \E h \in Answers : handlers' = {h}
      BY <1>9, <3>1 DEF OneReader
    <3>3. PICK h \in Answers : handlers' = {h}
      BY <3>2
    <3>4. h \in {"success", "failure", "bound", "streamError"} /\ (h = "success" => stream.answers = 1)
      BY <3>3 DEF Answers
    <3>5. h = "bound" => stream.answers = 2
      BY <3>3, <3>1 DEF Answers
    <3>6. stream'.st = "open" /\ stream'.turn = "client" /\ stream'.answers = stream.answers
      BY <3>1, <3>2, <1>2 DEF Streams
    <3>7. Now' = "none" /\ After' = "none" /\ cancelled' = 0 /\ ~errorBlock'
      BY <1>9, <1>1, <3>1 DEF Shape
    <3> QED BY <3>3, <3>4, <3>5, <3>6, <3>7 DEF OneReader, Reading
  <2>3. Opening'
    BY <1>9, <1>1, <1>2 DEF Shape, OneReader, Opening, Cleanups, NoStream, Reading, Streams
  <2>4. Answered'
    BY <1>9, <1>1, <1>2 DEF Shape, OneReader, Opening, Answered, Cleanups, NoStream, Reading, Streams
  <2>5. BoundStream'
    BY <1>9, <1>1, <1>2 DEF Shape, OneReader, Opening, Answered, BoundStream, Ending, Cleanups, NoStream, Reading, Streams
  <2> QED BY <2>1, <2>2, <2>3, <2>4, <2>5
<1>10. CASE PingOp
  <2> USE DEF PingOp, flags, account, timers, ping, sockets, history
  <2>1. Shape'
    BY <1>10, <1>1, <1>2 DEF Shape, OneReader, Opening, Cleanups, NoStream, Reading, Streams
  <2>2. OneReader'
    BY <1>10, <1>1, <1>2 DEF Shape, OneReader, Opening, Cleanups, NoStream, Reading, Streams
  <2>3. Opening'
    BY <1>10, <1>1, <1>2 DEF Shape, OneReader, Opening, Cleanups, NoStream, Reading, Streams
  <2>4. Answered'
    BY <1>10, <1>1, <1>2 DEF Shape, OneReader, Opening, Answered, Cleanups, NoStream, Reading, Streams
  <2>5. BoundStream'
    BY <1>10, <1>1, <1>2 DEF Shape, OneReader, Opening, Answered, BoundStream, Ending, Cleanups, NoStream, Reading, Streams
  <2> QED BY <2>1, <2>2, <2>3, <2>4, <2>5
<1>11. CASE HandleSuccess
  <2> USE DEF HandleSuccess, Handles, timers, ping, sockets, history
  <2>1. Now' = "startStream" /\ After' = "none" /\ Len(queue') <= 2
    BY <1>11, <1>1, <1>2, EmptyQueue, AloneIsNext DEF OneReader
  <2>2. Shape'
    BY <1>11, <1>1, <1>2, <2>1 DEF Shape, OneReader, Opening, Cleanups, NoStream, Reading, Streams
  <2>3. OneReader'
    BY <1>11, <1>1, <1>2, <2>1 DEF Shape, OneReader, Opening, Cleanups, NoStream, Reading, Streams
  <2>4. Opening'
    BY <1>11, <1>1, <1>2, <2>1 DEF Shape, OneReader, Opening, Cleanups, NoStream, Reading, Streams
  <2>5. Answered'
    BY <1>11, <1>1, <1>2, <2>1 DEF Shape, OneReader, Opening, Answered, Cleanups, NoStream, Reading, Streams
  <2>6. BoundStream'
    BY <1>11, <1>1, <1>2, <2>1 DEF Shape, OneReader, Opening, Answered, BoundStream, Ending, Cleanups, NoStream, Reading, Streams
  <2> QED BY <2>2, <2>3, <2>4, <2>5, <2>6
<1>12. CASE HandleBound
  <2> USE DEF HandleBound, Handles, flags, timers, ping, sockets, history
  <2>1. Shape'
    BY <1>12, <1>1, <1>2 DEF Shape, OneReader, Opening, Cleanups, NoStream, Reading, Streams
  <2>2. OneReader'
    BY <1>12, <1>1, <1>2 DEF Shape, OneReader, Opening, Cleanups, NoStream, Reading, Streams
  <2>3. Opening'
    BY <1>12, <1>1, <1>2 DEF Shape, OneReader, Opening, Cleanups, NoStream, Reading, Streams
  <2>4. Answered'
    BY <1>12, <1>1, <1>2 DEF Shape, OneReader, Opening, Answered, Cleanups, NoStream, Reading, Streams
  <2>5. BoundStream'
    BY <1>12, <1>1, <1>2 DEF Shape, OneReader, Opening, Answered, BoundStream, Ending, Cleanups, NoStream, Reading, Streams
  <2> QED BY <2>1, <2>2, <2>3, <2>4, <2>5
<1>13. CASE HandleStreamError
  <2> USE DEF HandleStreamError, Handles, flags, account, timers, ping, sockets, history
  <2>1. Shape'
    BY <1>13, <1>1, <1>2 DEF Shape, OneReader, Opening, Cleanups, NoStream, Reading, Streams
  <2>2. OneReader'
    BY <1>13, <1>1, <1>2 DEF Shape, OneReader, Opening, Cleanups, NoStream, Reading, Streams
  <2>3. Opening'
    BY <1>13, <1>1, <1>2 DEF Shape, OneReader, Opening, Cleanups, NoStream, Reading, Streams
  <2>4. Answered'
    BY <1>13, <1>1, <1>2 DEF Shape, OneReader, Opening, Answered, Cleanups, NoStream, Reading, Streams
  <2>5. BoundStream'
    BY <1>13, <1>1, <1>2 DEF Shape, OneReader, Opening, Answered, BoundStream, Ending, Cleanups, NoStream, Reading, Streams
  <2> QED BY <2>1, <2>2, <2>3, <2>4, <2>5
<1>14. CASE HandleFailure
  <2> USE DEF HandleFailure, CancelLoginTimer, Handles, flags, account, ping, sockets
  <2>1. Shape'
    BY <1>14, <1>1, <1>2 DEF Shape, OneReader, Opening, Cleanups, NoStream, Reading, Streams
  <2>2. OneReader'
    BY <1>14, <1>1, <1>2 DEF Shape, OneReader, Opening, Cleanups, NoStream, Reading, Streams
  <2>3. Opening'
    BY <1>14, <1>1, <1>2 DEF Shape, OneReader, Opening, Cleanups, NoStream, Reading, Streams
  <2>4. Answered'
    BY <1>14, <1>1, <1>2 DEF Shape, OneReader, Opening, Answered, Cleanups, NoStream, Reading, Streams
  <2>5. BoundStream'
    BY <1>14, <1>1, <1>2 DEF Shape, OneReader, Opening, Answered, BoundStream, Ending, Cleanups, NoStream, Reading, Streams
  <2> QED BY <2>1, <2>2, <2>3, <2>4, <2>5
<1>15. CASE LoginTimerCancelled
  <2> USE DEF LoginTimerCancelled, account, ping, sockets, history
  <2>1. Shape'
    BY <1>15, <1>1, <1>2 DEF Shape, OneReader, Opening, Cleanups, NoStream, Reading, Streams
  <2>2. OneReader'
    BY <1>15, <1>1, <1>2 DEF Shape, OneReader, Opening, Cleanups, NoStream, Reading, Streams
  <2>3. Opening'
    BY <1>15, <1>1, <1>2 DEF Shape, OneReader, Opening, Cleanups, NoStream, Reading, Streams
  <2>4. Answered'
    BY <1>15, <1>1, <1>2 DEF Shape, OneReader, Opening, Answered, Cleanups, NoStream, Reading, Streams
  <2>5. BoundStream'
    BY <1>15, <1>1, <1>2 DEF Shape, OneReader, Opening, Answered, BoundStream, Ending, Cleanups, NoStream, Reading, Streams
  <2> QED BY <2>1, <2>2, <2>3, <2>4, <2>5
<1>16. CASE ErrorOnMain
  <2> USE DEF ErrorOnMain, flags, account, timers, ping, history
  <2>1. Shape'
    BY <1>16, <1>1, <1>2 DEF Shape, OneReader, Opening, Cleanups, NoStream, Reading, Streams
  <2>2. OneReader'
    BY <1>16, <1>1, <1>2 DEF Shape, OneReader, Opening, Cleanups, NoStream, Reading, Streams
  <2>3. Opening'
    BY <1>16, <1>1, <1>2 DEF Shape, OneReader, Opening, Cleanups, NoStream, Reading, Streams
  <2>4. Answered'
    BY <1>16, <1>1, <1>2 DEF Shape, OneReader, Opening, Answered, Cleanups, NoStream, Reading, Streams
  <2>5. BoundStream'
    BY <1>16, <1>1, <1>2 DEF Shape, OneReader, Opening, Answered, BoundStream, Ending, Cleanups, NoStream, Reading, Streams
  <2> QED BY <2>1, <2>2, <2>3, <2>4, <2>5
<1>17. CASE StreamEnd
  <2> USE DEF StreamEnd, account, timers, ping
  <2>1. Shape'
    BY <1>17, <1>1, <1>2 DEF Shape, OneReader, Opening, Cleanups, NoStream, Reading, Streams
  <2>2. OneReader'
    BY <1>17, <1>1, <1>2 DEF Shape, OneReader, Opening, Cleanups, NoStream, Reading, Streams
  <2>3. Opening'
    BY <1>17, <1>1, <1>2 DEF Shape, OneReader, Opening, Cleanups, NoStream, Reading, Streams
  <2>4. Answered'
    BY <1>17, <1>1, <1>2 DEF Shape, OneReader, Opening, Answered, Cleanups, NoStream, Reading, Streams
  <2>5. BoundStream'
    BY <1>17, <1>1, <1>2 DEF Shape, OneReader, Opening, Answered, BoundStream, Ending, Cleanups, NoStream, Reading, Streams
  <2> QED BY <2>1, <2>2, <2>3, <2>4, <2>5
<1>18. CASE StreamError
  <2> USE DEF StreamError, CancelLoginTimer, account, ping
  <2>1. Shape'
    BY <1>18, <1>1, <1>2 DEF Shape, OneReader, Opening, Cleanups, NoStream, Reading, Streams
  <2>2. OneReader'
    BY <1>18, <1>1, <1>2 DEF Shape, OneReader, Opening, Cleanups, NoStream, Reading, Streams
  <2>3. Opening'
    BY <1>18, <1>1, <1>2 DEF Shape, OneReader, Opening, Cleanups, NoStream, Reading, Streams
  <2>4. Answered'
    BY <1>18, <1>1, <1>2 DEF Shape, OneReader, Opening, Answered, Cleanups, NoStream, Reading, Streams
  <2>5. BoundStream'
    BY <1>18, <1>1, <1>2 DEF Shape, OneReader, Opening, Answered, BoundStream, Ending, Cleanups, NoStream, Reading, Streams
  <2> QED BY <2>1, <2>2, <2>3, <2>4, <2>5
<1>19. CASE BytesAvailable
  <2> USE DEF BytesAvailable, flags, account, timers, ping, history
  <2>1. Now' = "read" /\ After' = "none" /\ Len(queue') <= 2
    BY <1>19, <1>1, <1>2, EmptyQueue, AloneIsNext DEF OneReader
  <2>2. Shape'
    BY <1>19, <1>1, <1>2, <2>1 DEF Shape, OneReader, Opening, Cleanups, NoStream, Reading, Streams
  <2>3. OneReader'
    BY <1>19, <1>1, <1>2, <2>1 DEF Shape, OneReader, Opening, Cleanups, NoStream, Reading, Streams
  <2>4. Opening'
    BY <1>19, <1>1, <1>2, <2>1 DEF Shape, OneReader, Opening, Cleanups, NoStream, Reading, Streams
  <2>5. Answered'
    BY <1>19, <1>1, <1>2, <2>1 DEF Shape, OneReader, Opening, Answered, Cleanups, NoStream, Reading, Streams
  <2>6. BoundStream'
    BY <1>19, <1>1, <1>2, <2>1 DEF Shape, OneReader, Opening, Answered, BoundStream, Ending, Cleanups, NoStream, Reading, Streams
  <2> QED BY <2>2, <2>3, <2>4, <2>5, <2>6
<1>20. CASE Idle /\ DelayedConnect
  <2> USE DEF DelayedConnect, account, sockets
  <2>1. Shape'
    BY <1>20, <1>1, <1>2 DEF Shape, OneReader, Opening, Cleanups, NoStream, Reading, Streams, Idle
  <2>2. OneReader'
    BY <1>20, <1>1, <1>2 DEF Shape, OneReader, Opening, Cleanups, NoStream, Reading, Streams, Idle
  <2>3. Opening'
    BY <1>20, <1>1, <1>2 DEF Shape, OneReader, Opening, Cleanups, NoStream, Reading, Streams, Idle
  <2>4. Answered'
    BY <1>20, <1>1, <1>2 DEF Shape, OneReader, Opening, Answered, Cleanups, NoStream, Reading, Streams, Idle
  <2>5. BoundStream'
    BY <1>20, <1>1, <1>2 DEF Shape, OneReader, Opening, Answered, BoundStream, Ending, Cleanups, NoStream, Reading, Streams, Idle
  <2> QED BY <2>1, <2>2, <2>3, <2>4, <2>5
<1>21. CASE Idle /\ CreateStreams
  <2> USE DEF CreateStreams, flags, account, ping, history
  <2>1. Now' = "startStream" /\ After' = "none" /\ Len(queue') <= 2
    BY <1>21, AloneIsNext DEF Idle
  <2>2. Shape'
    BY <1>21, <1>1, <1>2, <2>1 DEF Shape, OneReader, Opening, Cleanups, NoStream, Reading, Streams, Idle
  <2>3. OneReader'
    BY <1>21, <1>1, <1>2, <2>1 DEF Shape, OneReader, Opening, Cleanups, NoStream, Reading, Streams, Idle
  <2>4. Opening'
    BY <1>21, <1>1, <1>2, <2>1 DEF Shape, OneReader, Opening, Cleanups, NoStream, Reading, Streams, Idle
  <2>5. Answered'
    BY <1>21, <1>1, <1>2, <2>1 DEF Shape, OneReader, Opening, Answered, Cleanups, NoStream, Reading, Streams, Idle
  <2>6. BoundStream'
    BY <1>21, <1>1, <1>2, <2>1 DEF Shape, OneReader, Opening, Answered, BoundStream, Ending, Cleanups, NoStream, Reading, Streams, Idle
  <2> QED BY <2>2, <2>3, <2>4, <2>5, <2>6
<1>22. CASE Idle /\ LoginTimer
  <2> USE DEF LoginTimer, Fault, account, ping, sockets
  <2>1. Shape'
    BY <1>22, <1>1, <1>2 DEF Shape, OneReader, Opening, Cleanups, NoStream, Reading, Streams, Idle
  <2>2. OneReader'
    BY <1>22, <1>1, <1>2 DEF Shape, OneReader, Opening, Cleanups, NoStream, Reading, Streams, Idle
  <2>3. Opening'
    BY <1>22, <1>1, <1>2 DEF Shape, OneReader, Opening, Cleanups, NoStream, Reading, Streams, Idle
  <2>4. Answered'
    BY <1>22, <1>1, <1>2 DEF Shape, OneReader, Opening, Answered, Cleanups, NoStream, Reading, Streams, Idle
  <2>5. BoundStream'
    BY <1>22, <1>1, <1>2 DEF Shape, OneReader, Opening, Answered, BoundStream, Ending, Cleanups, NoStream, Reading, Streams, Idle
  <2> QED BY <2>1, <2>2, <2>3, <2>4, <2>5
<1>23. CASE Idle /\ TenSeconds
  <2> USE DEF TenSeconds, account, timers, ping, sockets, history
  <2>1. Shape'
    BY <1>23, <1>1, <1>2 DEF Shape, OneReader, Opening, Cleanups, NoStream, Reading, Streams, Idle
  <2>2. OneReader'
    BY <1>23, <1>1, <1>2 DEF Shape, OneReader, Opening, Cleanups, NoStream, Reading, Streams, Idle
  <2>3. Opening'
    BY <1>23, <1>1, <1>2 DEF Shape, OneReader, Opening, Cleanups, NoStream, Reading, Streams, Idle
  <2>4. Answered'
    BY <1>23, <1>1, <1>2 DEF Shape, OneReader, Opening, Answered, Cleanups, NoStream, Reading, Streams, Idle
  <2>5. BoundStream'
    BY <1>23, <1>1, <1>2 DEF Shape, OneReader, Opening, Answered, BoundStream, Ending, Cleanups, NoStream, Reading, Streams, Idle
  <2> QED BY <2>1, <2>2, <2>3, <2>4, <2>5
<1>24. CASE Idle /\ PingTimer
  <2> USE DEF PingTimer, flags, account, timers, ping, sockets
  <2>1. Shape'
    BY <1>24, <1>1, <1>2 DEF Shape, OneReader, Opening, Cleanups, NoStream, Reading, Streams, Idle
  <2>2. OneReader'
    BY <1>24, <1>1, <1>2 DEF Shape, OneReader, Opening, Cleanups, NoStream, Reading, Streams, Idle
  <2>3. Opening'
    BY <1>24, <1>1, <1>2 DEF Shape, OneReader, Opening, Cleanups, NoStream, Reading, Streams, Idle
  <2>4. Answered'
    BY <1>24, <1>1, <1>2 DEF Shape, OneReader, Opening, Answered, Cleanups, NoStream, Reading, Streams, Idle
  <2>5. BoundStream'
    BY <1>24, <1>1, <1>2 DEF Shape, OneReader, Opening, Answered, BoundStream, Ending, Cleanups, NoStream, Reading, Streams, Idle
  <2> QED BY <2>1, <2>2, <2>3, <2>4, <2>5
<1>25. CASE Idle /\ SrvAnswer
  <2> USE DEF SrvAnswer, flags, account, timers, ping, history
  <2>1. Shape'
    BY <1>25, <1>1, <1>2 DEF Shape, OneReader, Opening, Cleanups, NoStream, Reading, Streams, Idle
  <2>2. OneReader'
    BY <1>25, <1>1, <1>2 DEF Shape, OneReader, Opening, Cleanups, NoStream, Reading, Streams, Idle
  <2>3. Opening'
    BY <1>25, <1>1, <1>2 DEF Shape, OneReader, Opening, Cleanups, NoStream, Reading, Streams, Idle
  <2>4. Answered'
    BY <1>25, <1>1, <1>2 DEF Shape, OneReader, Opening, Answered, Cleanups, NoStream, Reading, Streams, Idle
  <2>5. BoundStream'
    BY <1>25, <1>1, <1>2 DEF Shape, OneReader, Opening, Answered, BoundStream, Ending, Cleanups, NoStream, Reading, Streams, Idle
  <2> QED BY <2>1, <2>2, <2>3, <2>4, <2>5
<1>26. CASE Idle /\ Pong
  <2> USE DEF Pong, flags, account, timers, sockets, history
  <2>1. Shape'
    BY <1>26, <1>1, <1>2 DEF Shape, OneReader, Opening, Cleanups, NoStream, Reading, Streams, Idle
  <2>2. OneReader'
    BY <1>26, <1>1, <1>2 DEF Shape, OneReader, Opening, Cleanups, NoStream, Reading, Streams, Idle
  <2>3. Opening'
    BY <1>26, <1>1, <1>2 DEF Shape, OneReader, Opening, Cleanups, NoStream, Reading, Streams, Idle
  <2>4. Answered'
    BY <1>26, <1>1, <1>2 DEF Shape, OneReader, Opening, Answered, Cleanups, NoStream, Reading, Streams, Idle
  <2>5. BoundStream'
    BY <1>26, <1>1, <1>2 DEF Shape, OneReader, Opening, Answered, BoundStream, Ending, Cleanups, NoStream, Reading, Streams, Idle
  <2> QED BY <2>1, <2>2, <2>3, <2>4, <2>5
<1>27. CASE Idle /\ LoseStream
  <2> USE DEF LoseStream, Fault, flags, account, timers, ping
  <2>1. Shape'
    BY <1>27, <1>1, <1>2 DEF Shape, OneReader, Opening, Cleanups, NoStream, Reading, Streams, Idle
  <2>2. OneReader'
    BY <1>27, <1>1, <1>2 DEF Shape, OneReader, Opening, Cleanups, NoStream, Reading, Streams, Idle
  <2>3. Opening'
    BY <1>27, <1>1, <1>2 DEF Shape, OneReader, Opening, Cleanups, NoStream, Reading, Streams, Idle
  <2>4. Answered'
    BY <1>27, <1>1, <1>2 DEF Shape, OneReader, Opening, Answered, Cleanups, NoStream, Reading, Streams, Idle
  <2>5. BoundStream'
    BY <1>27, <1>1, <1>2 DEF Shape, OneReader, Opening, Answered, BoundStream, Ending, Cleanups, NoStream, Reading, Streams, Idle
  <2> QED BY <2>1, <2>2, <2>3, <2>4, <2>5
<1>28. CASE Idle /\ StaleEvent
  <2> USE DEF StaleEvent, flags, account, timers, ping, history
  <2>1. Shape'
    BY <1>28, <1>1, <1>2 DEF Shape, OneReader, Opening, Cleanups, NoStream, Reading, Streams, Idle
  <2>2. OneReader'
    BY <1>28, <1>1, <1>2 DEF Shape, OneReader, Opening, Cleanups, NoStream, Reading, Streams, Idle
  <2>3. Opening'
    BY <1>28, <1>1, <1>2 DEF Shape, OneReader, Opening, Cleanups, NoStream, Reading, Streams, Idle
  <2>4. Answered'
    BY <1>28, <1>1, <1>2 DEF Shape, OneReader, Opening, Answered, Cleanups, NoStream, Reading, Streams, Idle
  <2>5. BoundStream'
    BY <1>28, <1>1, <1>2 DEF Shape, OneReader, Opening, Answered, BoundStream, Ending, Cleanups, NoStream, Reading, Streams, Idle
  <2> QED BY <2>1, <2>2, <2>3, <2>4, <2>5
<1>29. CASE Idle /\ CallPing
  <2> USE DEF CallPing, Call, SendPing, flags, account, timers, ping, sockets
  <2>1. queue' = Append(queue, "ping") => Now' = "ping" /\ After' = "none" /\ Len(queue') <= 2
    BY <1>29, AloneIsNext DEF Idle
  <2>2. Shape'
    BY <1>29, <1>1, <1>2, <2>1 DEF Shape, OneReader, Opening, Cleanups, NoStream, Reading, Streams, Idle
  <2>3. OneReader'
    BY <1>29, <1>1, <1>2, <2>1 DEF Shape, OneReader, Opening, Cleanups, NoStream, Reading, Streams, Idle
  <2>4. Opening'
    BY <1>29, <1>1, <1>2, <2>1 DEF Shape, OneReader, Opening, Cleanups, NoStream, Reading, Streams, Idle
  <2>5. Answered'
    BY <1>29, <1>1, <1>2, <2>1 DEF Shape, OneReader, Opening, Answered, Cleanups, NoStream, Reading, Streams, Idle
  <2>6. BoundStream'
    BY <1>29, <1>1, <1>2, <2>1 DEF Shape, OneReader, Opening, Answered, BoundStream, Ending, Cleanups, NoStream, Reading, Streams, Idle
  <2> QED BY <2>2, <2>3, <2>4, <2>5, <2>6
<1>30. CASE Idle /\ CallForeground
  <2> USE DEF CallForeground, Call, SendPing, flags, account, timers, ping, sockets
  <2>1. queue' = Append(queue, "ping") => Now' = "ping" /\ After' = "none" /\ Len(queue') <= 2
    BY <1>30, AloneIsNext DEF Idle
  <2>2. Shape'
    BY <1>30, <1>1, <1>2, <2>1 DEF Shape, OneReader, Opening, Cleanups, NoStream, Reading, Streams, Idle
  <2>3. OneReader'
    BY <1>30, <1>1, <1>2, <2>1 DEF Shape, OneReader, Opening, Cleanups, NoStream, Reading, Streams, Idle
  <2>4. Opening'
    BY <1>30, <1>1, <1>2, <2>1 DEF Shape, OneReader, Opening, Cleanups, NoStream, Reading, Streams, Idle
  <2>5. Answered'
    BY <1>30, <1>1, <1>2, <2>1 DEF Shape, OneReader, Opening, Answered, Cleanups, NoStream, Reading, Streams, Idle
  <2>6. BoundStream'
    BY <1>30, <1>1, <1>2, <2>1 DEF Shape, OneReader, Opening, Answered, BoundStream, Ending, Cleanups, NoStream, Reading, Streams, Idle
  <2> QED BY <2>2, <2>3, <2>4, <2>5, <2>6
<1>31. CASE Idle /\ CallWake
  <2> USE DEF CallWake, Call, flags, account, timers, ping, sockets
  <2>1. Shape'
    BY <1>31, <1>1, <1>2 DEF Shape, OneReader, Opening, Cleanups, NoStream, Reading, Streams, Idle
  <2>2. OneReader'
    BY <1>31, <1>1, <1>2 DEF Shape, OneReader, Opening, Cleanups, NoStream, Reading, Streams, Idle
  <2>3. Opening'
    BY <1>31, <1>1, <1>2 DEF Shape, OneReader, Opening, Cleanups, NoStream, Reading, Streams, Idle
  <2>4. Answered'
    BY <1>31, <1>1, <1>2 DEF Shape, OneReader, Opening, Answered, Cleanups, NoStream, Reading, Streams, Idle
  <2>5. BoundStream'
    BY <1>31, <1>1, <1>2 DEF Shape, OneReader, Opening, Answered, BoundStream, Ending, Cleanups, NoStream, Reading, Streams, Idle
  <2> QED BY <2>1, <2>2, <2>3, <2>4, <2>5
<1>32. CASE Idle /\ CallSuspend
  <2> USE DEF CallSuspend, Call, flags, account, timers, ping, sockets
  <2>1. Now' = "suspend" /\ After' = "none" /\ Len(queue') <= 2
    BY <1>32, AloneIsNext DEF Idle
  <2>2. Shape'
    BY <1>32, <1>1, <1>2, <2>1 DEF Shape, OneReader, Opening, Cleanups, NoStream, Reading, Streams, Idle
  <2>3. OneReader'
    BY <1>32, <1>1, <1>2, <2>1 DEF Shape, OneReader, Opening, Cleanups, NoStream, Reading, Streams, Idle
  <2>4. Opening'
    BY <1>32, <1>1, <1>2, <2>1 DEF Shape, OneReader, Opening, Cleanups, NoStream, Reading, Streams, Idle
  <2>5. Answered'
    BY <1>32, <1>1, <1>2, <2>1 DEF Shape, OneReader, Opening, Answered, Cleanups, NoStream, Reading, Streams, Idle
  <2>6. BoundStream'
    BY <1>32, <1>1, <1>2, <2>1 DEF Shape, OneReader, Opening, Answered, BoundStream, Ending, Cleanups, NoStream, Reading, Streams, Idle
  <2> QED BY <2>2, <2>3, <2>4, <2>5, <2>6
<1>33. CASE Idle /\ CallLogout
  <2> USE DEF CallLogout, CancelLoginTimer, Call, flags, ping, sockets
  <2>1. Shape'
    BY <1>33, <1>1, <1>2 DEF Shape, OneReader, Opening, Cleanups, NoStream, Reading, Streams, Idle
  <2>2. OneReader'
    BY <1>33, <1>1, <1>2 DEF Shape, OneReader, Opening, Cleanups, NoStream, Reading, Streams, Idle
  <2>3. Opening'
    BY <1>33, <1>1, <1>2 DEF Shape, OneReader, Opening, Cleanups, NoStream, Reading, Streams, Idle
  <2>4. Answered'
    BY <1>33, <1>1, <1>2 DEF Shape, OneReader, Opening, Answered, Cleanups, NoStream, Reading, Streams, Idle
  <2>5. BoundStream'
    BY <1>33, <1>1, <1>2 DEF Shape, OneReader, Opening, Answered, BoundStream, Ending, Cleanups, NoStream, Reading, Streams, Idle
  <2> QED BY <2>1, <2>2, <2>3, <2>4, <2>5
<1> QED BY <1>3, <1>4, <1>5, <1>6, <1>7, <1>8, <1>9, <1>10, <1>11, <1>12, <1>13, <1>14, <1>15, <1>16, <1>17, <1>18, <1>19, <1>20, <1>21, <1>22, <1>23, <1>24, <1>25, <1>26, <1>27, <1>28, <1>29, <1>30, <1>31, <1>32, <1>33
       DEF PromptNext, LocalStep, SlowStep, NetworkStep, ProcessStep, User

\* Without push: the flags tell the truth, and the account keeps trying.
LEMMA NoPushStep ==
    ASSUME ~SupportsPush, TypeOK, ScheduledMeansPending,
           Shape, OneReader, Opening, Answered, BoundStream,
           Flags, Pinging, Advanced, Excused, Trying, PromptNext
    PROVE  Flags' /\ Pinging' /\ Advanced' /\ Excused' /\ Trying'
<1> USE DEF Disconnected, Reconnecting, HasStream, LoggedIn, Bound
<1>1. /\ \A op : Running(op) => Now = op
      /\ \A op : Running(op) /\ Finish => Now' = After /\ After' = "none" /\ Len(queue') <= 2
      /\ Reconnect => Now' = "reconnect" /\ After' = "none" /\ Len(queue') <= 2
      /\ \A c : DisconnectThen(c) => Now' = "close" /\ After' = c /\ Len(queue') <= 2
      /\ UNCHANGED queue => Now' = Now /\ After' = After /\ Len(queue') <= 2
      /\ Idle => Now = "none" /\ After = "none"
  BY QueueLaws
<1>2. /\ accountState \in 0 .. 4 /\ cancelled \in Nat /\ stream \in Streams
      /\ {loggedInOnce, explicitLogout, errorBlock, loginStarted, reconnectScheduled, pushEnabled,
          pingOutstanding} \subseteq BOOLEAN
      /\ stream.st \in {"none", "open", "ended", "failed", "dead"} /\ stream.answers \in 0 .. 2
      /\ stream.turn \in {"client", "server", "arrived", "signalled", "read"}
      /\ stream.turn = "server" => stream.answers < 2
      /\ queue \in Seq(Ops) /\ Len(queue) <= 2
      /\ delayed \in Nat /\ connecting \in Nat
  BY DEF TypeOK, FlagsTyped, CountersTyped, NamesTyped, StreamTyped, QueueTyped, Streams, Shape
<1>3. CASE ReconnectOp
  <2> USE DEF ReconnectOp, Schedule, account, ping, sockets, history
  <2>1. Flags'
    BY <1>3, <1>1, <1>2 DEF Shape, OneReader, Opening, Flags, Advanced, Cleanups, NoStream, Reading, Streams
  <2>2. Pinging'
    BY <1>3, <1>1, <1>2 DEF Shape, OneReader, Opening, BoundStream, Flags, Pinging, Cleanups, NoStream, Reading
  <2>3. Advanced'
    BY <1>3, <1>1, <1>2 DEF Shape, OneReader, Opening, Flags, Pinging, Advanced, Cleanups, NoStream, Reading, Streams
  <2>4. Excused'
    BY <1>3, <1>1, <1>2 DEF Shape, OneReader, Opening, Excused, BoundStream, Cleanups, NoStream, Reading
  <2>5. Trying'
    BY <1>3, <1>1, <1>2 DEF Shape, OneReader, Opening, Answered, BoundStream, Flags, Pinging, Advanced, Excused, Trying, Closing, WillReconnect, Underway, Dormant, ScheduledMeansPending, Cleanups, NoStream, Reading, Streams
  <2> QED BY <2>1, <2>2, <2>3, <2>4, <2>5
<1>4. CASE CloseOp
  <2> USE DEF CloseOp, flags, account, timers, history
  <2>1. Flags'
    BY <1>4, <1>1, <1>2 DEF Shape, OneReader, Opening, Flags, Advanced, Cleanups, NoStream, Reading, Streams
  <2>2. Pinging'
    BY <1>4, <1>1, <1>2 DEF Shape, OneReader, Opening, BoundStream, Flags, Pinging, Cleanups, NoStream, Reading
  <2>3. Advanced'
    BY <1>4, <1>1, <1>2 DEF Shape, OneReader, Opening, Flags, Pinging, Advanced, Cleanups, NoStream, Reading, Streams
  <2>4. Excused'
    BY <1>4, <1>1, <1>2 DEF Shape, OneReader, Opening, Excused, BoundStream, Cleanups, NoStream, Reading
  <2>5. Trying'
    BY <1>4, <1>1, <1>2 DEF Shape, OneReader, Opening, Answered, BoundStream, Flags, Pinging, Advanced, Excused, Trying, Closing, WillReconnect, Underway, Dormant, ScheduledMeansPending, Cleanups, NoStream, Reading, Streams
  <2> QED BY <2>1, <2>2, <2>3, <2>4, <2>5
<1>5. CASE CleanupOp
  <2> USE DEF CleanupOp, ResetValues, account, timers, ping, sockets, history
  <2>1. Flags'
    BY <1>5, <1>1, <1>2 DEF Shape, OneReader, Opening, Flags, Advanced, Cleanups, NoStream, Reading, Streams
  <2>2. Pinging'
    BY <1>5, <1>1, <1>2 DEF Shape, OneReader, Opening, BoundStream, Flags, Pinging, Cleanups, NoStream, Reading
  <2>3. Advanced'
    BY <1>5, <1>1, <1>2 DEF Shape, OneReader, Opening, Flags, Pinging, Advanced, Cleanups, NoStream, Reading, Streams
  <2>4. Excused'
    BY <1>5, <1>1, <1>2 DEF Shape, OneReader, Opening, Excused, BoundStream, Cleanups, NoStream, Reading
  <2>5. Trying'
    BY <1>5, <1>1, <1>2 DEF Shape, OneReader, Opening, Answered, BoundStream, Flags, Pinging, Advanced, Excused, Trying, Closing, WillReconnect, Underway, Dormant, ScheduledMeansPending, Cleanups, NoStream, Reading, Streams
  <2> QED BY <2>1, <2>2, <2>3, <2>4, <2>5
<1>6. CASE SuspendOp
  <2> USE DEF SuspendOp, ResetValues, account, timers, ping, sockets, history
  <2>1. Now' = "close" /\ After' = "none" /\ Len(queue') <= 2
    BY <1>6, AloneIsNext
  <2>2. Flags'
    BY <1>6, <1>1, <1>2, <2>1 DEF Shape, OneReader, Opening, Flags, Advanced, Cleanups, NoStream, Reading, Streams
  <2>3. Pinging'
    BY <1>6, <1>1, <1>2, <2>1 DEF Shape, OneReader, Opening, BoundStream, Flags, Pinging, Cleanups, NoStream, Reading
  <2>4. Advanced'
    BY <1>6, <1>1, <1>2, <2>1 DEF Shape, OneReader, Opening, Flags, Pinging, Advanced, Cleanups, NoStream, Reading, Streams
  <2>5. Excused'
    BY <1>6, <1>1, <1>2, <2>1 DEF Shape, OneReader, Opening, Excused, BoundStream, Cleanups, NoStream, Reading
  <2>6. Trying'
    BY <1>6, <1>1, <1>2, <2>1 DEF Shape, OneReader, Opening, Answered, BoundStream, Flags, Pinging, Advanced, Excused, Trying, Closing, WillReconnect, Underway, Dormant, ScheduledMeansPending, Cleanups, NoStream, Reading, Streams
  <2> QED BY <2>2, <2>3, <2>4, <2>5, <2>6
<1>7. CASE StartStreamOp
  <2> USE DEF StartStreamOp, flags, account, timers, ping, history
  <2>1. Flags'
    BY <1>7, <1>1, <1>2 DEF Shape, OneReader, Opening, Flags, Advanced, Cleanups, NoStream, Reading, Streams
  <2>2. Pinging'
    BY <1>7, <1>1, <1>2 DEF Shape, OneReader, Opening, BoundStream, Flags, Pinging, Cleanups, NoStream, Reading
  <2>3. Advanced'
    BY <1>7, <1>1, <1>2 DEF Shape, OneReader, Opening, Flags, Pinging, Advanced, Cleanups, NoStream, Reading, Streams
  <2>4. Excused'
    BY <1>7, <1>1, <1>2 DEF Shape, OneReader, Opening, Excused, BoundStream, Cleanups, NoStream, Reading
  <2>5. Trying'
    BY <1>7, <1>1, <1>2 DEF Shape, OneReader, Opening, Answered, BoundStream, Flags, Pinging, Advanced, Excused, Trying, Closing, WillReconnect, Underway, Dormant, ScheduledMeansPending, Cleanups, NoStream, Reading, Streams
  <2> QED BY <2>1, <2>2, <2>3, <2>4, <2>5
<1>8. CASE ReadOp
  <2> USE DEF ReadOp, flags, account, timers, ping, history
  <2>1. queue' = Append(Tail(queue), "processInput") => Now' = "processInput" /\ After' = "none" /\ Len(queue') <= 2
    BY <1>8, <1>1, <1>2, ReadIsNext DEF Running, Shape
  <2>2. Flags'
    BY <1>8, <1>1, <1>2, <2>1 DEF Shape, OneReader, Opening, Flags, Advanced, Cleanups, NoStream, Reading, Streams
  <2>3. Pinging'
    BY <1>8, <1>1, <1>2, <2>1 DEF Shape, OneReader, Opening, BoundStream, Flags, Pinging, Cleanups, NoStream, Reading
  <2>4. Advanced'
    BY <1>8, <1>1, <1>2, <2>1 DEF Shape, OneReader, Opening, Flags, Pinging, Advanced, Cleanups, NoStream, Reading, Streams
  <2>5. Excused'
    BY <1>8, <1>1, <1>2, <2>1 DEF Shape, OneReader, Opening, Excused, BoundStream, Cleanups, NoStream, Reading
  <2>6. Trying'
    BY <1>8, <1>1, <1>2, <2>1 DEF Shape, OneReader, Opening, Answered, BoundStream, Flags, Pinging, Advanced, Excused, Trying, Closing, WillReconnect, Underway, Dormant, ScheduledMeansPending, Cleanups, NoStream, Reading, Streams
  <2> QED BY <2>2, <2>3, <2>4, <2>5, <2>6
<1>9. CASE ProcessInputOp
  <2> USE DEF ProcessInputOp, Fault, Answers, flags, account, timers, ping
  <2>1. Flags'
    BY <1>9, <1>1, <1>2 DEF Shape, OneReader, Opening, Flags, Advanced, Cleanups, NoStream, Reading, Streams
  <2>2. Pinging'
    BY <1>9, <1>1, <1>2 DEF Shape, OneReader, Opening, BoundStream, Flags, Pinging, Cleanups, NoStream, Reading
  <2>3. Advanced'
    BY <1>9, <1>1, <1>2 DEF Shape, OneReader, Opening, Flags, Pinging, Advanced, Cleanups, NoStream, Reading, Streams
  <2>4. Excused'
    BY <1>9, <1>1, <1>2 DEF Shape, OneReader, Opening, Excused, BoundStream, Cleanups, NoStream, Reading
  <2>5. Trying'
    BY <1>9, <1>1, <1>2 DEF Shape, OneReader, Opening, Answered, BoundStream, Flags, Pinging, Advanced, Excused, Trying, Closing, WillReconnect, Underway, Dormant, ScheduledMeansPending, Cleanups, NoStream, Reading, Streams
  <2> QED BY <2>1, <2>2, <2>3, <2>4, <2>5
<1>10. CASE PingOp
  <2> USE DEF PingOp, flags, account, timers, ping, sockets, history
  <2>1. Flags'
    BY <1>10, <1>1, <1>2 DEF Shape, OneReader, Opening, Flags, Advanced, Cleanups, NoStream, Reading, Streams
  <2>2. Pinging'
    BY <1>10, <1>1, <1>2 DEF Shape, OneReader, Opening, BoundStream, Flags, Pinging, Cleanups, NoStream, Reading
  <2>3. Advanced'
    BY <1>10, <1>1, <1>2 DEF Shape, OneReader, Opening, Flags, Pinging, Advanced, Cleanups, NoStream, Reading, Streams
  <2>4. Excused'
    BY <1>10, <1>1, <1>2 DEF Shape, OneReader, Opening, Excused, BoundStream, Cleanups, NoStream, Reading
  <2>5. Trying'
    BY <1>10, <1>1, <1>2 DEF Shape, OneReader, Opening, Answered, BoundStream, Flags, Pinging, Advanced, Excused, Trying, Closing, WillReconnect, Underway, Dormant, ScheduledMeansPending, Cleanups, NoStream, Reading, Streams
  <2> QED BY <2>1, <2>2, <2>3, <2>4, <2>5
<1>11. CASE HandleSuccess
  <2> USE DEF HandleSuccess, Handles, timers, ping, sockets, history
  <2>1. Now' = "startStream" /\ After' = "none" /\ Len(queue') <= 2
    BY <1>11, <1>1, <1>2, EmptyQueue, AloneIsNext DEF OneReader
  <2>2. Flags'
    BY <1>11, <1>1, <1>2, <2>1 DEF Shape, OneReader, Opening, Flags, Advanced, Cleanups, NoStream, Reading, Streams
  <2>3. Pinging'
    BY <1>11, <1>1, <1>2, <2>1 DEF Shape, OneReader, Opening, BoundStream, Flags, Pinging, Cleanups, NoStream, Reading
  <2>4. Advanced'
    BY <1>11, <1>1, <1>2, <2>1 DEF Shape, OneReader, Opening, Flags, Pinging, Advanced, Cleanups, NoStream, Reading, Streams
  <2>5. Excused'
    BY <1>11, <1>1, <1>2, <2>1 DEF Shape, OneReader, Opening, Excused, BoundStream, Cleanups, NoStream, Reading
  <2>6. Trying'
    BY <1>11, <1>1, <1>2, <2>1 DEF Shape, OneReader, Opening, Answered, BoundStream, Flags, Pinging, Advanced, Excused, Trying, Closing, WillReconnect, Underway, Dormant, ScheduledMeansPending, Cleanups, NoStream, Reading, Streams
  <2> QED BY <2>2, <2>3, <2>4, <2>5, <2>6
<1>12. CASE HandleBound
  <2> USE DEF HandleBound, Handles, flags, timers, ping, sockets, history
  <2>1. Flags'
    <3>1. SupportsPush = FALSE
      BY ConnectionAssumption DEF ConnectionAssumption
    <3>2. pushEnabled' = FALSE
      BY <1>12, <3>1
    <3>3. accountState' = Bound /\ Now' = "none" /\ UNCHANGED <<loginStarted, reconnectScheduled>>
      BY <1>12, <1>1 DEF OneReader
    <3>4. ~loginStarted
      BY <1>12, <1>2 DEF OneReader, Flags, Advanced, Reading
    <3> QED BY <3>2, <3>3, <3>4 DEF Flags
  <2>2. Pinging'
    BY <1>12, <1>1, <1>2 DEF Shape, OneReader, Opening, BoundStream, Flags, Pinging, Cleanups, NoStream, Reading
  <2>3. Advanced'
    BY <1>12, <1>1, <1>2 DEF Shape, OneReader, Opening, Flags, Pinging, Advanced, Cleanups, NoStream, Reading, Streams
  <2>4. Excused'
    BY <1>12, <1>1, <1>2 DEF Shape, OneReader, Opening, Excused, BoundStream, Cleanups, NoStream, Reading
  <2>5. Trying'
    BY <1>12, <1>1, <1>2 DEF Shape, OneReader, Opening, Answered, BoundStream, Flags, Pinging, Advanced, Excused, Trying, Closing, WillReconnect, Underway, Dormant, ScheduledMeansPending, Cleanups, NoStream, Reading, Streams
  <2> QED BY <2>1, <2>2, <2>3, <2>4, <2>5
<1>13. CASE HandleStreamError
  <2> USE DEF HandleStreamError, Handles, flags, account, timers, ping, sockets, history
  <2>1. Flags'
    BY <1>13, <1>1, <1>2 DEF Shape, OneReader, Opening, Flags, Advanced, Cleanups, NoStream, Reading, Streams
  <2>2. Pinging'
    BY <1>13, <1>1, <1>2 DEF Shape, OneReader, Opening, BoundStream, Flags, Pinging, Cleanups, NoStream, Reading
  <2>3. Advanced'
    BY <1>13, <1>1, <1>2 DEF Shape, OneReader, Opening, Flags, Pinging, Advanced, Cleanups, NoStream, Reading, Streams
  <2>4. Excused'
    BY <1>13, <1>1, <1>2 DEF Shape, OneReader, Opening, Excused, BoundStream, Cleanups, NoStream, Reading
  <2>5. Trying'
    BY <1>13, <1>1, <1>2 DEF Shape, OneReader, Opening, Answered, BoundStream, Flags, Pinging, Advanced, Excused, Trying, Closing, WillReconnect, Underway, Dormant, ScheduledMeansPending, Cleanups, NoStream, Reading, Streams
  <2> QED BY <2>1, <2>2, <2>3, <2>4, <2>5
<1>14. CASE HandleFailure
  <2> USE DEF HandleFailure, CancelLoginTimer, Handles, flags, account, ping, sockets
  <2>1. Flags'
    BY <1>14, <1>1, <1>2 DEF Shape, OneReader, Opening, Flags, Advanced, Cleanups, NoStream, Reading, Streams
  <2>2. Pinging'
    BY <1>14, <1>1, <1>2 DEF Shape, OneReader, Opening, BoundStream, Flags, Pinging, Cleanups, NoStream, Reading
  <2>3. Advanced'
    BY <1>14, <1>1, <1>2 DEF Shape, OneReader, Opening, Flags, Pinging, Advanced, Cleanups, NoStream, Reading, Streams
  <2>4. Excused'
    BY <1>14, <1>1, <1>2 DEF Shape, OneReader, Opening, Excused, BoundStream, Cleanups, NoStream, Reading
  <2>5. Trying'
    BY <1>14, <1>1, <1>2 DEF Shape, OneReader, Opening, Answered, BoundStream, Flags, Pinging, Advanced, Excused, Trying, Closing, WillReconnect, Underway, Dormant, ScheduledMeansPending, Cleanups, NoStream, Reading, Streams
  <2> QED BY <2>1, <2>2, <2>3, <2>4, <2>5
<1>15. CASE LoginTimerCancelled
  <2> USE DEF LoginTimerCancelled, account, ping, sockets, history
  <2>1. Flags'
    BY <1>15, <1>1, <1>2 DEF Shape, OneReader, Opening, Flags, Advanced, Cleanups, NoStream, Reading, Streams
  <2>2. Pinging'
    BY <1>15, <1>1, <1>2 DEF Shape, OneReader, Opening, BoundStream, Flags, Pinging, Cleanups, NoStream, Reading
  <2>3. Advanced'
    BY <1>15, <1>1, <1>2 DEF Shape, OneReader, Opening, Flags, Pinging, Advanced, Cleanups, NoStream, Reading, Streams
  <2>4. Excused'
    BY <1>15, <1>1, <1>2 DEF Shape, OneReader, Opening, Excused, BoundStream, Cleanups, NoStream, Reading
  <2>5. Trying'
    BY <1>15, <1>1, <1>2 DEF Shape, OneReader, Opening, Answered, BoundStream, Flags, Pinging, Advanced, Excused, Trying, Closing, WillReconnect, Underway, Dormant, ScheduledMeansPending, Cleanups, NoStream, Reading, Streams
  <2> QED BY <2>1, <2>2, <2>3, <2>4, <2>5
<1>16. CASE ErrorOnMain
  <2> USE DEF ErrorOnMain, flags, account, timers, ping, history
  <2>1. Flags'
    BY <1>16, <1>1, <1>2 DEF Shape, OneReader, Opening, Flags, Advanced, Cleanups, NoStream, Reading, Streams
  <2>2. Pinging'
    BY <1>16, <1>1, <1>2 DEF Shape, OneReader, Opening, BoundStream, Flags, Pinging, Cleanups, NoStream, Reading
  <2>3. Advanced'
    BY <1>16, <1>1, <1>2 DEF Shape, OneReader, Opening, Flags, Pinging, Advanced, Cleanups, NoStream, Reading, Streams
  <2>4. Excused'
    BY <1>16, <1>1, <1>2 DEF Shape, OneReader, Opening, Excused, BoundStream, Cleanups, NoStream, Reading
  <2>5. Trying'
    BY <1>16, <1>1, <1>2 DEF Shape, OneReader, Opening, Answered, BoundStream, Flags, Pinging, Advanced, Excused, Trying, Closing, WillReconnect, Underway, Dormant, ScheduledMeansPending, Cleanups, NoStream, Reading, Streams
  <2> QED BY <2>1, <2>2, <2>3, <2>4, <2>5
<1>17. CASE StreamEnd
  <2> USE DEF StreamEnd, account, timers, ping
  <2>1. Flags'
    BY <1>17, <1>1, <1>2 DEF Shape, OneReader, Opening, Flags, Advanced, Cleanups, NoStream, Reading, Streams
  <2>2. Pinging'
    BY <1>17, <1>1, <1>2 DEF Shape, OneReader, Opening, BoundStream, Flags, Pinging, Cleanups, NoStream, Reading
  <2>3. Advanced'
    BY <1>17, <1>1, <1>2 DEF Shape, OneReader, Opening, Flags, Pinging, Advanced, Cleanups, NoStream, Reading, Streams
  <2>4. Excused'
    BY <1>17, <1>1, <1>2 DEF Shape, OneReader, Opening, Excused, BoundStream, Cleanups, NoStream, Reading
  <2>5. Trying'
    BY <1>17, <1>1, <1>2 DEF Shape, OneReader, Opening, Answered, BoundStream, Flags, Pinging, Advanced, Excused, Trying, Closing, WillReconnect, Underway, Dormant, ScheduledMeansPending, Cleanups, NoStream, Reading, Streams
  <2> QED BY <2>1, <2>2, <2>3, <2>4, <2>5
<1>18. CASE StreamError
  <2> USE DEF StreamError, CancelLoginTimer, account, ping
  <2>1. Flags'
    BY <1>18, <1>1, <1>2 DEF Shape, OneReader, Opening, Flags, Advanced, Cleanups, NoStream, Reading, Streams
  <2>2. Pinging'
    BY <1>18, <1>1, <1>2 DEF Shape, OneReader, Opening, BoundStream, Flags, Pinging, Cleanups, NoStream, Reading
  <2>3. Advanced'
    BY <1>18, <1>1, <1>2 DEF Shape, OneReader, Opening, Flags, Pinging, Advanced, Cleanups, NoStream, Reading, Streams
  <2>4. Excused'
    BY <1>18, <1>1, <1>2 DEF Shape, OneReader, Opening, Excused, BoundStream, Cleanups, NoStream, Reading
  <2>5. Trying'
    BY <1>18, <1>1, <1>2 DEF Shape, OneReader, Opening, Answered, BoundStream, Flags, Pinging, Advanced, Excused, Trying, Closing, WillReconnect, Underway, Dormant, ScheduledMeansPending, Cleanups, NoStream, Reading, Streams
  <2> QED BY <2>1, <2>2, <2>3, <2>4, <2>5
<1>19. CASE BytesAvailable
  <2> USE DEF BytesAvailable, flags, account, timers, ping, history
  <2>1. Now' = "read" /\ After' = "none" /\ Len(queue') <= 2
    BY <1>19, <1>1, <1>2, EmptyQueue, AloneIsNext DEF OneReader
  <2>2. Flags'
    BY <1>19, <1>1, <1>2, <2>1 DEF Shape, OneReader, Opening, Flags, Advanced, Cleanups, NoStream, Reading, Streams
  <2>3. Pinging'
    BY <1>19, <1>1, <1>2, <2>1 DEF Shape, OneReader, Opening, BoundStream, Flags, Pinging, Cleanups, NoStream, Reading
  <2>4. Advanced'
    BY <1>19, <1>1, <1>2, <2>1 DEF Shape, OneReader, Opening, Flags, Pinging, Advanced, Cleanups, NoStream, Reading, Streams
  <2>5. Excused'
    BY <1>19, <1>1, <1>2, <2>1 DEF Shape, OneReader, Opening, Excused, BoundStream, Cleanups, NoStream, Reading
  <2>6. Trying'
    BY <1>19, <1>1, <1>2, <2>1 DEF Shape, OneReader, Opening, Answered, BoundStream, Flags, Pinging, Advanced, Excused, Trying, Closing, WillReconnect, Underway, Dormant, ScheduledMeansPending, Cleanups, NoStream, Reading, Streams
  <2> QED BY <2>2, <2>3, <2>4, <2>5, <2>6
<1>20. CASE Idle /\ DelayedConnect
  <2> USE DEF DelayedConnect, account, sockets
  <2>1. Flags'
    BY <1>20, <1>1, <1>2 DEF Shape, OneReader, Opening, Flags, Advanced, Cleanups, NoStream, Reading, Streams, Idle
  <2>2. Pinging'
    BY <1>20, <1>1, <1>2 DEF Shape, OneReader, Opening, BoundStream, Flags, Pinging, Cleanups, NoStream, Reading, Idle
  <2>3. Advanced'
    BY <1>20, <1>1, <1>2 DEF Shape, OneReader, Opening, Flags, Pinging, Advanced, Cleanups, NoStream, Reading, Streams, Idle
  <2>4. Excused'
    BY <1>20, <1>1, <1>2 DEF Shape, OneReader, Opening, Excused, BoundStream, Cleanups, NoStream, Reading, Idle
  <2>5. Trying'
    BY <1>20, <1>1, <1>2 DEF Shape, OneReader, Opening, Answered, BoundStream, Flags, Pinging, Advanced, Excused, Trying, Closing, WillReconnect, Underway, Dormant, ScheduledMeansPending, Cleanups, NoStream, Reading, Streams, Idle
  <2> QED BY <2>1, <2>2, <2>3, <2>4, <2>5
<1>21. CASE Idle /\ CreateStreams
  <2> USE DEF CreateStreams, flags, account, ping, history
  <2>1. Now' = "startStream" /\ After' = "none" /\ Len(queue') <= 2
    BY <1>21, AloneIsNext DEF Idle
  <2>2. Flags'
    BY <1>21, <1>1, <1>2, <2>1 DEF Shape, OneReader, Opening, Flags, Advanced, Cleanups, NoStream, Reading, Streams, Idle
  <2>3. Pinging'
    BY <1>21, <1>1, <1>2, <2>1 DEF Shape, OneReader, Opening, BoundStream, Flags, Pinging, Cleanups, NoStream, Reading, Idle
  <2>4. Advanced'
    BY <1>21, <1>1, <1>2, <2>1 DEF Shape, OneReader, Opening, Flags, Pinging, Advanced, Cleanups, NoStream, Reading, Streams, Idle
  <2>5. Excused'
    BY <1>21, <1>1, <1>2, <2>1 DEF Shape, OneReader, Opening, Excused, BoundStream, Cleanups, NoStream, Reading, Idle
  <2>6. Trying'
    BY <1>21, <1>1, <1>2, <2>1 DEF Shape, OneReader, Opening, Answered, BoundStream, Flags, Pinging, Advanced, Excused, Trying, Closing, WillReconnect, Underway, Dormant, ScheduledMeansPending, Cleanups, NoStream, Reading, Streams, Idle
  <2> QED BY <2>2, <2>3, <2>4, <2>5, <2>6
<1>22. CASE Idle /\ LoginTimer
  <2> USE DEF LoginTimer, Fault, account, ping, sockets
  <2>1. Flags'
    BY <1>22, <1>1, <1>2 DEF Shape, OneReader, Opening, Flags, Advanced, Cleanups, NoStream, Reading, Streams, Idle
  <2>2. Pinging'
    BY <1>22, <1>1, <1>2 DEF Shape, OneReader, Opening, BoundStream, Flags, Pinging, Cleanups, NoStream, Reading, Idle
  <2>3. Advanced'
    BY <1>22, <1>1, <1>2 DEF Shape, OneReader, Opening, Flags, Pinging, Advanced, Cleanups, NoStream, Reading, Streams, Idle
  <2>4. Excused'
    BY <1>22, <1>1, <1>2 DEF Shape, OneReader, Opening, Excused, BoundStream, Cleanups, NoStream, Reading, Idle
  <2>5. Trying'
    BY <1>22, <1>1, <1>2 DEF Shape, OneReader, Opening, Answered, BoundStream, Flags, Pinging, Advanced, Excused, Trying, Closing, WillReconnect, Underway, Dormant, ScheduledMeansPending, Cleanups, NoStream, Reading, Streams, Idle
  <2> QED BY <2>1, <2>2, <2>3, <2>4, <2>5
<1>23. CASE Idle /\ TenSeconds
  <2> USE DEF TenSeconds, account, timers, ping, sockets, history
  <2>1. Flags'
    BY <1>23, <1>1, <1>2 DEF Shape, OneReader, Opening, Flags, Advanced, Cleanups, NoStream, Reading, Streams, Idle
  <2>2. Pinging'
    BY <1>23, <1>1, <1>2 DEF Shape, OneReader, Opening, BoundStream, Flags, Pinging, Cleanups, NoStream, Reading, Idle
  <2>3. Advanced'
    BY <1>23, <1>1, <1>2 DEF Shape, OneReader, Opening, Flags, Pinging, Advanced, Cleanups, NoStream, Reading, Streams, Idle
  <2>4. Excused'
    BY <1>23, <1>1, <1>2 DEF Shape, OneReader, Opening, Excused, BoundStream, Cleanups, NoStream, Reading, Idle
  <2>5. Trying'
    BY <1>23, <1>1, <1>2 DEF Shape, OneReader, Opening, Answered, BoundStream, Flags, Pinging, Advanced, Excused, Trying, Closing, WillReconnect, Underway, Dormant, ScheduledMeansPending, Cleanups, NoStream, Reading, Streams, Idle
  <2> QED BY <2>1, <2>2, <2>3, <2>4, <2>5
<1>24. CASE Idle /\ PingTimer
  <2> USE DEF PingTimer, flags, account, timers, ping, sockets
  <2>1. Flags'
    BY <1>24, <1>1, <1>2 DEF Shape, OneReader, Opening, Flags, Advanced, Cleanups, NoStream, Reading, Streams, Idle
  <2>2. Pinging'
    BY <1>24, <1>1, <1>2 DEF Shape, OneReader, Opening, BoundStream, Flags, Pinging, Cleanups, NoStream, Reading, Idle
  <2>3. Advanced'
    BY <1>24, <1>1, <1>2 DEF Shape, OneReader, Opening, Flags, Pinging, Advanced, Cleanups, NoStream, Reading, Streams, Idle
  <2>4. Excused'
    BY <1>24, <1>1, <1>2 DEF Shape, OneReader, Opening, Excused, BoundStream, Cleanups, NoStream, Reading, Idle
  <2>5. Trying'
    BY <1>24, <1>1, <1>2 DEF Shape, OneReader, Opening, Answered, BoundStream, Flags, Pinging, Advanced, Excused, Trying, Closing, WillReconnect, Underway, Dormant, ScheduledMeansPending, Cleanups, NoStream, Reading, Streams, Idle
  <2> QED BY <2>1, <2>2, <2>3, <2>4, <2>5
<1>25. CASE Idle /\ SrvAnswer
  <2> USE DEF SrvAnswer, flags, account, timers, ping, history
  <2>1. Flags'
    BY <1>25, <1>1, <1>2 DEF Shape, OneReader, Opening, Flags, Advanced, Cleanups, NoStream, Reading, Streams, Idle
  <2>2. Pinging'
    BY <1>25, <1>1, <1>2 DEF Shape, OneReader, Opening, BoundStream, Flags, Pinging, Cleanups, NoStream, Reading, Idle
  <2>3. Advanced'
    BY <1>25, <1>1, <1>2 DEF Shape, OneReader, Opening, Flags, Pinging, Advanced, Cleanups, NoStream, Reading, Streams, Idle
  <2>4. Excused'
    BY <1>25, <1>1, <1>2 DEF Shape, OneReader, Opening, Excused, BoundStream, Cleanups, NoStream, Reading, Idle
  <2>5. Trying'
    BY <1>25, <1>1, <1>2 DEF Shape, OneReader, Opening, Answered, BoundStream, Flags, Pinging, Advanced, Excused, Trying, Closing, WillReconnect, Underway, Dormant, ScheduledMeansPending, Cleanups, NoStream, Reading, Streams, Idle
  <2> QED BY <2>1, <2>2, <2>3, <2>4, <2>5
<1>26. CASE Idle /\ Pong
  <2> USE DEF Pong, flags, account, timers, sockets, history
  <2>1. Flags'
    BY <1>26, <1>1, <1>2 DEF Shape, OneReader, Opening, Flags, Advanced, Cleanups, NoStream, Reading, Streams, Idle
  <2>2. Pinging'
    BY <1>26, <1>1, <1>2 DEF Shape, OneReader, Opening, BoundStream, Flags, Pinging, Cleanups, NoStream, Reading, Idle
  <2>3. Advanced'
    BY <1>26, <1>1, <1>2 DEF Shape, OneReader, Opening, Flags, Pinging, Advanced, Cleanups, NoStream, Reading, Streams, Idle
  <2>4. Excused'
    BY <1>26, <1>1, <1>2 DEF Shape, OneReader, Opening, Excused, BoundStream, Cleanups, NoStream, Reading, Idle
  <2>5. Trying'
    BY <1>26, <1>1, <1>2 DEF Shape, OneReader, Opening, Answered, BoundStream, Flags, Pinging, Advanced, Excused, Trying, Closing, WillReconnect, Underway, Dormant, ScheduledMeansPending, Cleanups, NoStream, Reading, Streams, Idle
  <2> QED BY <2>1, <2>2, <2>3, <2>4, <2>5
<1>27. CASE Idle /\ LoseStream
  <2> USE DEF LoseStream, Fault, flags, account, timers, ping
  <2>1. Flags'
    BY <1>27, <1>1, <1>2 DEF Shape, OneReader, Opening, Flags, Advanced, Cleanups, NoStream, Reading, Streams, Idle
  <2>2. Pinging'
    BY <1>27, <1>1, <1>2 DEF Shape, OneReader, Opening, BoundStream, Flags, Pinging, Cleanups, NoStream, Reading, Idle
  <2>3. Advanced'
    BY <1>27, <1>1, <1>2 DEF Shape, OneReader, Opening, Flags, Pinging, Advanced, Cleanups, NoStream, Reading, Streams, Idle
  <2>4. Excused'
    BY <1>27, <1>1, <1>2 DEF Shape, OneReader, Opening, Excused, BoundStream, Cleanups, NoStream, Reading, Idle
  <2>5. Trying'
    BY <1>27, <1>1, <1>2 DEF Shape, OneReader, Opening, Answered, BoundStream, Flags, Pinging, Advanced, Excused, Trying, Closing, WillReconnect, Underway, Dormant, ScheduledMeansPending, Cleanups, NoStream, Reading, Streams, Idle
  <2> QED BY <2>1, <2>2, <2>3, <2>4, <2>5
<1>28. CASE Idle /\ StaleEvent
  <2> USE DEF StaleEvent, flags, account, timers, ping, history
  <2>1. Flags'
    BY <1>28, <1>1, <1>2 DEF Shape, OneReader, Opening, Flags, Advanced, Cleanups, NoStream, Reading, Streams, Idle
  <2>2. Pinging'
    BY <1>28, <1>1, <1>2 DEF Shape, OneReader, Opening, BoundStream, Flags, Pinging, Cleanups, NoStream, Reading, Idle
  <2>3. Advanced'
    BY <1>28, <1>1, <1>2 DEF Shape, OneReader, Opening, Flags, Pinging, Advanced, Cleanups, NoStream, Reading, Streams, Idle
  <2>4. Excused'
    BY <1>28, <1>1, <1>2 DEF Shape, OneReader, Opening, Excused, BoundStream, Cleanups, NoStream, Reading, Idle
  <2>5. Trying'
    BY <1>28, <1>1, <1>2 DEF Shape, OneReader, Opening, Answered, BoundStream, Flags, Pinging, Advanced, Excused, Trying, Closing, WillReconnect, Underway, Dormant, ScheduledMeansPending, Cleanups, NoStream, Reading, Streams, Idle
  <2> QED BY <2>1, <2>2, <2>3, <2>4, <2>5
<1>29. CASE Idle /\ CallPing
  <2> USE DEF CallPing, Call, SendPing, flags, account, timers, ping, sockets
  <2>1. queue' = Append(queue, "ping") => Now' = "ping" /\ After' = "none" /\ Len(queue') <= 2
    BY <1>29, AloneIsNext DEF Idle
  <2>2. Flags'
    BY <1>29, <1>1, <1>2, <2>1 DEF Shape, OneReader, Opening, Flags, Advanced, Cleanups, NoStream, Reading, Streams, Idle
  <2>3. Pinging'
    BY <1>29, <1>1, <1>2, <2>1 DEF Shape, OneReader, Opening, BoundStream, Flags, Pinging, Cleanups, NoStream, Reading, Idle
  <2>4. Advanced'
    BY <1>29, <1>1, <1>2, <2>1 DEF Shape, OneReader, Opening, Flags, Pinging, Advanced, Cleanups, NoStream, Reading, Streams, Idle
  <2>5. Excused'
    BY <1>29, <1>1, <1>2, <2>1 DEF Shape, OneReader, Opening, Excused, BoundStream, Cleanups, NoStream, Reading, Idle
  <2>6. Trying'
    BY <1>29, <1>1, <1>2, <2>1 DEF Shape, OneReader, Opening, Answered, BoundStream, Flags, Pinging, Advanced, Excused, Trying, Closing, WillReconnect, Underway, Dormant, ScheduledMeansPending, Cleanups, NoStream, Reading, Streams, Idle
  <2> QED BY <2>2, <2>3, <2>4, <2>5, <2>6
<1>30. CASE Idle /\ CallForeground
  <2> USE DEF CallForeground, Call, SendPing, flags, account, timers, ping, sockets
  <2>1. queue' = Append(queue, "ping") => Now' = "ping" /\ After' = "none" /\ Len(queue') <= 2
    BY <1>30, AloneIsNext DEF Idle
  <2>2. Flags'
    BY <1>30, <1>1, <1>2, <2>1 DEF Shape, OneReader, Opening, Flags, Advanced, Cleanups, NoStream, Reading, Streams, Idle
  <2>3. Pinging'
    BY <1>30, <1>1, <1>2, <2>1 DEF Shape, OneReader, Opening, BoundStream, Flags, Pinging, Cleanups, NoStream, Reading, Idle
  <2>4. Advanced'
    BY <1>30, <1>1, <1>2, <2>1 DEF Shape, OneReader, Opening, Flags, Pinging, Advanced, Cleanups, NoStream, Reading, Streams, Idle
  <2>5. Excused'
    BY <1>30, <1>1, <1>2, <2>1 DEF Shape, OneReader, Opening, Excused, BoundStream, Cleanups, NoStream, Reading, Idle
  <2>6. Trying'
    BY <1>30, <1>1, <1>2, <2>1 DEF Shape, OneReader, Opening, Answered, BoundStream, Flags, Pinging, Advanced, Excused, Trying, Closing, WillReconnect, Underway, Dormant, ScheduledMeansPending, Cleanups, NoStream, Reading, Streams, Idle
  <2> QED BY <2>2, <2>3, <2>4, <2>5, <2>6
<1>31. CASE Idle /\ CallWake
  <2> USE DEF CallWake, Call, flags, account, timers, ping, sockets
  <2>1. Flags'
    BY <1>31, <1>1, <1>2 DEF Shape, OneReader, Opening, Flags, Advanced, Cleanups, NoStream, Reading, Streams, Idle
  <2>2. Pinging'
    BY <1>31, <1>1, <1>2 DEF Shape, OneReader, Opening, BoundStream, Flags, Pinging, Cleanups, NoStream, Reading, Idle
  <2>3. Advanced'
    BY <1>31, <1>1, <1>2 DEF Shape, OneReader, Opening, Flags, Pinging, Advanced, Cleanups, NoStream, Reading, Streams, Idle
  <2>4. Excused'
    BY <1>31, <1>1, <1>2 DEF Shape, OneReader, Opening, Excused, BoundStream, Cleanups, NoStream, Reading, Idle
  <2>5. Trying'
    BY <1>31, <1>1, <1>2 DEF Shape, OneReader, Opening, Answered, BoundStream, Flags, Pinging, Advanced, Excused, Trying, Closing, WillReconnect, Underway, Dormant, ScheduledMeansPending, Cleanups, NoStream, Reading, Streams, Idle
  <2> QED BY <2>1, <2>2, <2>3, <2>4, <2>5
<1>32. CASE Idle /\ CallSuspend
  <2> USE DEF CallSuspend, Call, flags, account, timers, ping, sockets
  <2>1. Now' = "suspend" /\ After' = "none" /\ Len(queue') <= 2
    BY <1>32, AloneIsNext DEF Idle
  <2>2. Flags'
    BY <1>32, <1>1, <1>2, <2>1 DEF Shape, OneReader, Opening, Flags, Advanced, Cleanups, NoStream, Reading, Streams, Idle
  <2>3. Pinging'
    BY <1>32, <1>1, <1>2, <2>1 DEF Shape, OneReader, Opening, BoundStream, Flags, Pinging, Cleanups, NoStream, Reading, Idle
  <2>4. Advanced'
    BY <1>32, <1>1, <1>2, <2>1 DEF Shape, OneReader, Opening, Flags, Pinging, Advanced, Cleanups, NoStream, Reading, Streams, Idle
  <2>5. Excused'
    BY <1>32, <1>1, <1>2, <2>1 DEF Shape, OneReader, Opening, Excused, BoundStream, Cleanups, NoStream, Reading, Idle
  <2>6. Trying'
    BY <1>32, <1>1, <1>2, <2>1 DEF Shape, OneReader, Opening, Answered, BoundStream, Flags, Pinging, Advanced, Excused, Trying, Closing, WillReconnect, Underway, Dormant, ScheduledMeansPending, Cleanups, NoStream, Reading, Streams, Idle
  <2> QED BY <2>2, <2>3, <2>4, <2>5, <2>6
<1>33. CASE Idle /\ CallLogout
  <2> USE DEF CallLogout, CancelLoginTimer, Call, flags, ping, sockets
  <2>1. Flags'
    BY <1>33, <1>1, <1>2 DEF Shape, OneReader, Opening, Flags, Advanced, Cleanups, NoStream, Reading, Streams, Idle
  <2>2. Pinging'
    BY <1>33, <1>1, <1>2 DEF Shape, OneReader, Opening, BoundStream, Flags, Pinging, Cleanups, NoStream, Reading, Idle
  <2>3. Advanced'
    BY <1>33, <1>1, <1>2 DEF Shape, OneReader, Opening, Flags, Pinging, Advanced, Cleanups, NoStream, Reading, Streams, Idle
  <2>4. Excused'
    BY <1>33, <1>1, <1>2 DEF Shape, OneReader, Opening, Excused, BoundStream, Cleanups, NoStream, Reading, Idle
  <2>5. Trying'
    BY <1>33, <1>1, <1>2 DEF Shape, OneReader, Opening, Answered, BoundStream, Flags, Pinging, Advanced, Excused, Trying, Closing, WillReconnect, Underway, Dormant, ScheduledMeansPending, Cleanups, NoStream, Reading, Streams, Idle
  <2> QED BY <2>1, <2>2, <2>3, <2>4, <2>5
<1> QED BY <1>3, <1>4, <1>5, <1>6, <1>7, <1>8, <1>9, <1>10, <1>11, <1>12, <1>13, <1>14, <1>15, <1>16, <1>17, <1>18, <1>19, <1>20, <1>21, <1>22, <1>23, <1>24, <1>25, <1>26, <1>27, <1>28, <1>29, <1>30, <1>31, <1>32, <1>33
       DEF PromptNext, LocalStep, SlowStep, NetworkStep, ProcessStep, User

\* The variables that the invariant speaks of.
LEMMA WorkUnchanged ==
    ASSUME UNCHANGED vars
    PROVE  /\ UNCHANGED <<accountState, loginStarted, stamp, reconnectScheduled, loggedInOnce,
                          explicitLogout, pushEnabled, pingOutstanding, queue>>
           /\ UNCHANGED <<delayed, connecting, loginTimer, cancelled, handlers, stream, errorBlock, cause>>
           /\ Now' = Now /\ After' = After
  BY QueueUnchanged DEF vars, flags, account, timers, ping, sockets, history

General == TypeOK /\ ScheduledMeansPending /\ Orderly /\ Answered /\ BoundStream
NoPush == Flags /\ Pinging /\ Advanced /\ Excused /\ Trying

LEMMA QueueInit ==
    ASSUME Init
    PROVE  Now = "reconnect" /\ After = "none" /\ Len(queue) <= 2
  BY DEF Init, Now, After

LEMMA GeneralInit ==
    ASSUME Init
    PROVE  Orderly /\ Answered /\ BoundStream
<1> USE DEF Init, Disconnected, Reconnecting, HasStream, LoggedIn, Bound, NoStream, Cleanups
<1>1. Shape
  BY QueueInit DEF Shape
<1>2. OneReader
  BY QueueInit DEF OneReader, Reading
<1>3. Opening
  BY QueueInit DEF Opening
<1>4. Answered
  BY QueueInit DEF Answered
<1>5. BoundStream
  BY QueueInit DEF BoundStream
<1> QED BY <1>1, <1>2, <1>3, <1>4, <1>5 DEF Orderly

LEMMA NoPushInit ==
    ASSUME Init
    PROVE  NoPush
<1> USE DEF Init, Disconnected, Reconnecting, HasStream, LoggedIn, Bound, NoStream, Cleanups
<1>1. Flags
  <2>1. ~pushEnabled /\ ~loginStarted /\ accountState = 0
    OBVIOUS
  <2>2. Now = "reconnect"
    BY QueueInit
  <2> QED BY ONLY <2>1, <2>2 DEF Flags, Disconnected, LoggedIn, Bound
<1>2. Pinging
  BY DEF Pinging
<1>3. Advanced
  BY DEF Advanced
<1>4. Excused
  BY QueueInit DEF Excused
<1>5. Trying
  BY DEF Trying
<1> QED BY <1>1, <1>2, <1>3, <1>4, <1>5 DEF NoPush

LEMMA PromptIsSpec == PromptSpec => Spec
<1>1. [PromptNext]_vars => [Next]_vars
  BY DEF PromptNext, Next
<1> QED BY <1>1, PTL DEF PromptSpec, Spec

LEMMA GeneralInvariant == PromptSpec => []General
<1>1. Init => Orderly /\ Answered /\ BoundStream
  BY GeneralInit
<1>2. ASSUME General, [PromptNext]_vars PROVE (Orderly /\ Answered /\ BoundStream)'
  <2>1. CASE PromptNext
    BY <1>2, <2>1, GeneralStep DEF General, Orderly
  <2>2. CASE UNCHANGED vars
    <3>1. Shape' /\ OneReader' /\ Opening'
      BY <1>2, <2>2, WorkUnchanged DEF General, Orderly, Shape, OneReader, Opening, Reading
    <3>2. Answered' /\ BoundStream'
      BY <1>2, <2>2, WorkUnchanged DEF General, Answered, BoundStream, Ending
    <3> QED BY <3>1, <3>2 DEF Orderly
  <2> QED BY <1>2, <2>1, <2>2
<1>3. PromptSpec => [](TypeOK /\ ScheduledMeansPending)
  BY PromptIsSpec, TypeCorrect, ScheduleNeverForgotten, PTL
<1> QED BY <1>1, <1>2, <1>3, PTL DEF PromptSpec, General

LEMMA NoPushInvariant ==
    ASSUME ~SupportsPush
    PROVE  PromptSpec => []NoPush
<1>1. Init => NoPush
  BY NoPushInit
<1>2. ASSUME General, NoPush, [PromptNext]_vars PROVE NoPush'
  <2>1. CASE PromptNext
    BY <1>2, <2>1, NoPushStep DEF General, Orderly, NoPush
  <2>2. CASE UNCHANGED vars
    <3>1. Flags' /\ Pinging' /\ Advanced' /\ Excused'
      BY <1>2, <2>2, WorkUnchanged DEF NoPush, Flags, Pinging, Advanced, Excused, Reading
    <3>2. Trying'
      BY <1>2, <2>2, WorkUnchanged DEF NoPush, Trying, Closing, WillReconnect, Underway, Dormant, Reading
    <3> QED BY <3>1, <3>2 DEF NoPush
  <2> QED BY <1>2, <2>1, <2>2
<1> QED BY <1>1, <1>2, GeneralInvariant, PTL DEF PromptSpec

\* With prompt local work, and with or without push, an account that says it is
\* bound has its stream whenever its local work is done: whatever closes or
\* replaces the stream in between leaves a cleanup in networkQueue, and nothing
\* that is queued or cancelled meanwhile takes that away without resetting the
\* state itself.
THEOREM BoundKeepsStream == PromptSpec => []BoundHasStream
<1>1. ASSUME General PROVE BoundHasStream
  <2>1. Idle => Now = "none" /\ After = "none"
    BY <1>1, QueueLaws DEF General, Orderly
  <2> QED BY <1>1, <2>1 DEF General, BoundStream, Ending, Cleanups, BoundHasStream, Idle
<1> QED BY <1>1, GeneralInvariant, PTL

\* An account whose server does not support push, that logged in once and was
\* neither refused nor suspended nor logged out, always has a connection or
\* something that makes one: for any number of lost streams, slow servers,
\* pings and calls, the places that cancel networkQueue, start connects, or
\* return early because of loginStarted and reconnectScheduled agree. (With push
\* reconnect: takes a path on which this fails.)
THEOREM NeverGivesUp ==
    ASSUME ~SupportsPush
    PROVE  PromptSpec => []KeepsTrying
<1>1. ASSUME General, NoPush PROVE KeepsTrying
  <2> SUFFICES ASSUME Quiescent, loggedInOnce, ~explicitLogout, cause \notin {"refused", "suspend"}
               PROVE  Connected
    BY DEF KeepsTrying
  <2>1. Now = "none" /\ After = "none"
    BY <1>1, QueueLaws DEF General, Orderly, Quiescent
  <2>2. ~Reading
    BY <1>1, <2>1 DEF Quiescent, Idle, Reading, General, Orderly, OneReader
  <2>3. ~Closing /\ ~WillReconnect /\ ~Dormant /\ stream.st \notin {"ended", "failed"}
    BY <2>1 DEF Closing, WillReconnect, Dormant, Quiescent, Idle
  <2>4. Underway
    BY <1>1, <2>3 DEF NoPush, Trying
  <2> QED BY <1>1, <2>1, <2>2, <2>4 DEF General, TypeOK, CountersTyped, Underway, Quiescent, Connected
<1> QED BY <1>1, GeneralInvariant, NoPushInvariant, PTL
=============================================================================
