------------------------ MODULE InboundSessionTheorems ------------------------
(***************************************************************************)
(* No received message gets lost, and the counter never claims what has    *)
(* not been read: where the stream, the client and the session the server  *)
(* keeps stand to each other, for any messages, faults and kills.          *)
(***************************************************************************)
EXTENDS InboundTheorems

-----------------------------------------------------------------------------
(* The negotiation of a session *)

Answer(e) == e.type # "message"
Asking(e) == e.type \in {"enable", "resume"}
Pending == ToSet(s2c) \cup BagToSet(processQueue)

\* One request and one answer at a time
OneAsking(q) == \A j, k \in DOMAIN q : Asking(q[j]) /\ Asking(q[k]) => j = k

OneAtATime ==
    /\ OneAsking(c2s)
    /\ \A k \in DOMAIN s2c : Answer(s2c[k]) => k = 1
    /\ \A e \in BagToSet(processQueue) : Answer(e) =>
          /\ processQueue[e] = 1
          /\ \A k \in DOMAIN s2c : ~Answer(s2c[k])
          /\ \A f \in BagToSet(processQueue) : Answer(f) => e = f

\* What a request of the client says still holds when the server reads it.
Requested ==
    \A e \in ToSet(c2s) :
        /\ Asking(e) =>
              /\ accountState # "Bound" /\ ~srv.attached
              /\ \A f \in Pending : ~Answer(f)
        /\ e.type = "resume" =>
              /\ e.previd = streamID /\ e.h = lastHandled
              /\ persisted = Saved(lastHandled, streamID)
        /\ e.type \in {"a", "presence"} => srv.attached

\* What an answer says still holds when the client handles it.
Answered ==
    \A e \in Pending : Answer(e) =>
        /\ accountState # "Bound"
        /\ \A h \in BagToSet(handlers) : h.at = "count" => h.seen = Nil
        /\ e.type = "enabled" => e.sid = srv.sid
        /\ e.type = "resumed" => streamID = srv.sid
        /\ link => (srv.attached <=> e.type # "failed")

Attached ==
    /\ link \/ c2s = <<>>
    /\ link /\ srv.attached => srv.valid
    /\ link /\ accountState = "Bound" => srv.attached /\ streamID = srv.sid
    /\ link /\ ~srv.attached =>
          /\ \A e \in Pending : Answer(e)
          /\ BagToSet(handlers) = {}
    /\ streamID # Nil => streamID <= srv.sid
    /\ persisted.streamID # Nil => persisted.streamID <= srv.sid

Negotiated == OneAtATime /\ Requested /\ Answered /\ Attached

-----------------------------------------------------------------------------
(* The stream *)

\* Copies of messages that were read and whose handler has not started
Unstarted ==
    {t \in BagToSet(processQueue) \X Nat :
        t[1].type = "message" /\ 1 <= t[2] /\ t[2] <= processQueue[t[1]]}

Taken == InHand \cup Stored \cup interrupted

\* An answer stands before the messages of its session.
Lead == IF \E k \in DOMAIN s2c : Answer(s2c[k]) THEN 1 ELSE 0

\* From its element l + 1 on, the stream s holds what the queue q does behind r.
Follows(s, q, l, r) == \A k \in DOMAIN s : k > l => s[k] = q[r + k - l]

\* The client has read the first r stanzas the session keeps: the stream brings
\* the next ones, ...
Along(r) ==
    /\ r + Len(s2c) - Lead <= Len(srv.queue)
    /\ link /\ srv.attached => r + Len(s2c) - Lead = Len(srv.queue)
    /\ Follows(s2c, srv.queue, Lead, r)

\* ... and the client has the first ones in hand or stored.
Had(r) == \A k \in 1 .. r : srv.queue[k].m \in Taken

\* No counter, in memory, saved or on its way, is beyond u, and those in memory
\* leave room for the n copies still to be counted.
Within(u, n) ==
    /\ n <= u
    /\ streamID = srv.sid =>
          /\ lastHandled + n <= u
          /\ \A h \in BagToSet(handlers) : h.at = "count" /\ h.seen # Nil => h.seen + 1 + n <= u
    /\ persisted.streamID = srv.sid => persisted.lastHandled <= u
    /\ \A e \in ToSet(c2s) : e.type = "a" => e.h <= u

Counts(n) == IsFiniteSet(Unstarted) /\ Cardinality(Unstarted) = n

Placed(r, n) == Along(r) /\ Had(r) /\ Within(srv.acked + r, n)

InPosition ==
    \E n \in Nat : Counts(n) /\ (srv.valid => \E r \in 0 .. Len(srv.queue) : Placed(r, n))

-----------------------------------------------------------------------------
(* Requests *)

LEMMA AskingAppended ==
    ASSUME NEW q \in Seq(Outgoing), NEW e \in Outgoing, OneAsking(q),
           Asking(e) => \A f \in ToSet(q) : ~Asking(f)
    PROVE  OneAsking(Append(q, e))
<1>1. /\ DOMAIN Append(q, e) = DOMAIN q \cup {Len(q) + 1}
      /\ Append(q, e)[Len(q) + 1] = e
      /\ \A k \in DOMAIN q : Append(q, e)[k] = q[k] /\ q[k] \in ToSet(q)
  BY DEF ToSet
<1> QED BY <1>1 DEF OneAsking

LEMMA AskingTail ==
    ASSUME NEW q \in Seq(Outgoing), q # <<>>, OneAsking(q)
    PROVE  /\ OneAsking(Tail(q))
           /\ Asking(Head(q)) => \A f \in ToSet(Tail(q)) : ~Asking(f)
<1>1. /\ \A k \in DOMAIN Tail(q) : k \in Nat \ {0} /\ k + 1 \in DOMAIN q /\ Tail(q)[k] = q[k + 1]
      /\ 1 \in DOMAIN q /\ q[1] = Head(q)
  OBVIOUS
<1>2. OneAsking(Tail(q))
  <2> SUFFICES ASSUME NEW j \in DOMAIN Tail(q), NEW k \in DOMAIN Tail(q),
                      Asking(Tail(q)[j]), Asking(Tail(q)[k])
               PROVE  j = k
    BY DEF OneAsking
  <2>1. j + 1 = k + 1
    BY <1>1 DEF OneAsking
  <2> QED BY <1>1, <2>1
<1>3. ASSUME Asking(Head(q)), NEW k \in DOMAIN Tail(q), Asking(Tail(q)[k]) PROVE FALSE
  <2>1. k + 1 = 1
    BY <1>1, <1>3 DEF OneAsking
  <2> QED BY <1>1, <2>1
<1> QED BY <1>2, <1>3 DEF ToSet

LEMMA Sent ==
    ASSUME TypeOK, NEW e \in Outgoing, Send(e), OneAsking(c2s),
           link /\ Asking(e) => \A f \in ToSet(c2s) : ~Asking(f)
    PROVE  /\ OneAsking(c2s')
           /\ ToSet(c2s') \subseteq ToSet(c2s) \cup {e}
           /\ ~link => c2s' = c2s
<1>1. c2s \in Seq(Outgoing)
  BY DEF TypeOK
<1>2. link => c2s' = Append(c2s, e)
  BY DEF Send
<1>3. link => OneAsking(c2s')
  BY <1>1, <1>2, AskingAppended
<1>4. ToSet(Append(c2s, e)) = ToSet(c2s) \cup {e}
  BY <1>1, AppendedTo
<1> QED BY <1>2, <1>3, <1>4 DEF Send

LEMMA Received ==
    ASSUME TypeOK, OneAsking(c2s), NEW type, Receive(type)
    PROVE  /\ link /\ Head(c2s) \in ToSet(c2s) /\ Head(c2s).type = type
           /\ OneAsking(c2s') /\ ToSet(c2s') \subseteq ToSet(c2s)
           /\ Asking(Head(c2s)) => \A f \in ToSet(c2s') : ~Asking(f)
<1>1. c2s \in Seq(Outgoing) /\ c2s # <<>> /\ c2s' = Tail(c2s) /\ link /\ Head(c2s).type = type
  BY DEF TypeOK, Receive
<1> QED BY <1>1, TailOf, AskingTail

-----------------------------------------------------------------------------
(* The negotiation is kept. *)

\* Where the type of a link is looked up and in _dbQueue, and in a handler that
\* has counted, nothing of it is touched.
Aside ==
    /\ UNCHANGED <<accountState, lastHandled, streamID, persisted, processQueue, link, c2s, s2c, srv>>
    /\ \A h \in BagToSet(handlers') : h.at = "count" => h \in BagToSet(handlers)
    /\ BagToSet(handlers) = {} => BagToSet(handlers') = {}

LEMMA AsideSteps ==
    ASSUME TypeOK,
           \/ \E h \in BagToSet(handlers) : Open(h) \/ Store(h)
           \/ HasMessageForId \/ Insert
           \/ \E q \in BagToSet(lookups) : TypeFound(q)
    PROVE  Aside
<1> USE DEF counters, wire, server
<1>1. ASSUME NEW h \in BagToSet(handlers), Open(h) PROVE Aside
  <2> DEFINE new == [at |-> "store", m |-> h.m, readable |-> h.m \notin opened]
  <2>1. new.at # "count"
    OBVIOUS
  <2>2. handlers' = With(Without(handlers, h), new)
    BY <1>1 DEF Open, Replace
  <2> HIDE DEF new
  <2>3. BagToSet(handlers') \subseteq BagToSet(handlers) \cup {new}
    BY <2>2, ReplacedCopy DEF TypeOK
  <2> QED BY <1>1, <2>1, <2>3 DEF Open, Aside
<1>2. ASSUME NEW h \in BagToSet(handlers), Store(h) PROVE Aside
  <2>1. BagToSet(handlers') \subseteq BagToSet(handlers)
    BY <1>2, WithoutCopy DEF Store, TypeOK
  <2> QED BY <1>2, <2>1 DEF Store, Aside
<1>3. CASE HasMessageForId
  BY <1>3 DEF HasMessageForId, Aside
<1>4. CASE Insert
  BY <1>4 DEF Insert, Aside
<1>5. ASSUME NEW q \in BagToSet(lookups), TypeFound(q) PROVE Aside
  BY <1>5 DEF TypeFound, Aside
<1> QED BY <1>1, <1>2, <1>3, <1>4, <1>5

LEMMA AsideNegotiated ==
    ASSUME Negotiated, Aside
    PROVE  Negotiated'
<1>1. Pending' = Pending
  BY DEF Aside, Pending
<1>2. OneAtATime'
  BY DEF Aside, Negotiated, OneAtATime
<1>3. Requested'
  BY <1>1 DEF Aside, Negotiated, Requested
<1>4. Answered'
  BY <1>1 DEF Aside, Negotiated, Answered
<1>5. Attached'
  BY <1>1 DEF Aside, Negotiated, Attached
<1> QED BY <1>2, <1>3, <1>4, <1>5 DEF Negotiated

LEMMA ConnectionNegotiated ==
    ASSUME TypeOK, Negotiated, Connect \/ Teardown \/ Read \/ LoseLink \/ Crash
    PROVE  Negotiated'
<1> USE DEF counters, local, store, wire, server, history
<1>0. BagToSet(EmptyBag) = {} /\ ToSet(<<>>) = {} /\ \A q : q = <<>> => OneAsking(q)
  BY NoCopies DEF ToSet, OneAsking
<1>1. CASE Connect
  <2> DEFINE e == IF persisted.streamID # Nil
                  THEN [type |-> "resume", previd |-> persisted.streamID,
                        h |-> persisted.lastHandled]
                  ELSE [type |-> "enable"]
  <2>1. /\ accountState' = "LoggedIn" /\ streamID' = persisted.streamID
        /\ lastHandled' = persisted.lastHandled /\ persisted' = persisted
        /\ link' = TRUE /\ s2c' = <<>> /\ c2s' = <<e>>
        /\ srv'.attached = FALSE /\ srv'.sid = srv.sid /\ srv'.valid = srv.valid
        /\ processQueue' = EmptyBag /\ handlers' = EmptyBag
    BY <1>1 DEF Connect, ReadState, TypeOK
  <2>2. /\ e.type \in {"resume", "enable"}
        /\ e.type = "resume" => e.previd = persisted.streamID /\ e.h = persisted.lastHandled
    OBVIOUS
  <2>3. persisted = Saved(persisted.lastHandled, persisted.streamID)
    BY DEF TypeOK, Saved
  <2> HIDE DEF e
  <2>4. ToSet(c2s') = {e} /\ DOMAIN c2s' = {1} /\ DOMAIN s2c' = {}
    BY <2>1 DEF ToSet
  <2>5. Pending' = {}
    BY <1>0, <2>1 DEF Pending
  <2>6. OneAtATime'
    BY <1>0, <2>1, <2>4 DEF OneAtATime, OneAsking
  <2>7. Requested'
    BY <2>1, <2>2, <2>3, <2>4, <2>5 DEF Requested
  <2>8. Answered'
    BY <2>5 DEF Answered
  <2>9. Attached'
    BY <1>0, <2>1, <2>5 DEF Attached, Negotiated
  <2> QED BY <2>6, <2>7, <2>8, <2>9 DEF Negotiated
<1>2. CASE Teardown
  <2>1. /\ c2s' = <<>> /\ s2c' = <<>> /\ link' = FALSE /\ accountState' = "Disconnected"
        /\ UNCHANGED <<lastHandled, streamID, persisted, processQueue, handlers, srv>>
    BY <1>2 DEF Teardown
  <2>2. Pending' \subseteq Pending /\ DOMAIN s2c' = {} /\ ToSet(c2s') = {}
    BY <1>0, <2>1 DEF Pending
  <2>3. OneAtATime'
    BY <1>0, <2>1, <2>2 DEF OneAtATime, Negotiated
  <2>4. Requested' /\ Attached'
    BY <2>1, <2>2 DEF Requested, Attached, Negotiated
  <2>5. Answered'
    BY <2>1, <2>2 DEF Answered, Negotiated
  <2> QED BY <2>3, <2>4, <2>5 DEF Negotiated
<1>3. CASE Read
  <2>1. /\ s2c # <<>> /\ s2c \in Seq(Incoming) /\ s2c' = Tail(s2c) /\ IsABag(processQueue)
        /\ processQueue' = With(processQueue, Head(s2c))
        /\ UNCHANGED <<accountState, lastHandled, streamID, persisted, handlers, link, c2s, srv>>
    BY <1>3 DEF Read, TypeOK
  <2>2. /\ BagToSet(processQueue') = BagToSet(processQueue) \cup {Head(s2c)}
        /\ \A x \in BagToSet(processQueue) : x # Head(s2c) => processQueue'[x] = processQueue[x]
        /\ Head(s2c) \notin BagToSet(processQueue) => processQueue'[Head(s2c)] = 1
    BY <2>1, WithCopy
  <2>3. Pending' \subseteq Pending
    BY <2>1, <2>2, TailOf DEF Pending
  <2>4. /\ \A k \in DOMAIN Tail(s2c) : k \in Nat \ {0} /\ k + 1 \in DOMAIN s2c
                                       /\ Tail(s2c)[k] = s2c[k + 1]
        /\ 1 \in DOMAIN s2c /\ s2c[1] = Head(s2c)
    BY <2>1
  <2>5. \A k \in DOMAIN s2c' : ~Answer(s2c'[k])
    <3> SUFFICES ASSUME NEW k \in DOMAIN s2c', Answer(s2c'[k]) PROVE FALSE
      OBVIOUS
    <3>1. k \in Nat \ {0} /\ k + 1 = 1
      BY <2>1, <2>4 DEF OneAtATime, Negotiated
    <3> QED BY <3>1
  <2>6. OneAtATime'
    <3>1. Answer(Head(s2c)) => \A e \in BagToSet(processQueue) : ~Answer(e)
      BY <2>4 DEF OneAtATime, Negotiated
    <3>2. \A e \in BagToSet(processQueue') : Answer(e) =>
             /\ processQueue'[e] = 1
             /\ \A f \in BagToSet(processQueue') : Answer(f) => e = f
      BY <2>2, <3>1 DEF OneAtATime, Negotiated
    <3> QED BY <2>1, <2>5, <3>2 DEF OneAtATime, Negotiated
  <2>7. Requested'
    BY <2>1, <2>3 DEF Requested, Negotiated
  <2>8. Answered'
    BY <2>1, <2>3 DEF Answered, Negotiated
  <2>9. Attached'
    BY <2>1, <2>3 DEF Attached, Negotiated
  <2> QED BY <2>6, <2>7, <2>8, <2>9 DEF Negotiated
<1>4. CASE LoseLink
  <2>1. PICK n \in 0 .. Len(s2c) : s2c' = SubSeq(s2c, 1, n)
    BY <1>4 DEF LoseLink
  <2>2. /\ c2s' = <<>> /\ link' = FALSE
        /\ UNCHANGED <<accountState, lastHandled, streamID, persisted, processQueue, handlers, srv>>
    BY <1>4 DEF LoseLink
  <2>3. s2c \in Seq(Incoming)
    BY DEF TypeOK
  <2>4. \A k \in DOMAIN s2c' : k \in DOMAIN s2c /\ s2c'[k] = s2c[k]
    BY <2>1, <2>3
  <2>5. Pending' \subseteq Pending /\ ToSet(c2s') = {}
    BY <1>0, <2>2, <2>4 DEF Pending, ToSet
  <2>6. OneAtATime'
    BY <1>0, <2>2, <2>4 DEF OneAtATime, Negotiated
  <2>7. Requested' /\ Attached'
    BY <2>2, <2>5 DEF Requested, Attached, Negotiated
  <2>8. Answered'
    BY <2>2, <2>5 DEF Answered, Negotiated
  <2> QED BY <2>6, <2>7, <2>8 DEF Negotiated
<1>5. CASE Crash
  <2>1. /\ accountState' = "Disconnected" /\ streamID' = Nil
        /\ processQueue' = EmptyBag /\ handlers' = EmptyBag /\ link' = FALSE
        /\ c2s' = <<>> /\ s2c' = <<>> /\ UNCHANGED <<persisted, srv>>
    BY <1>5 DEF Crash
  <2>2. Pending' = {} /\ DOMAIN s2c' = {} /\ ToSet(c2s') = {}
    BY <1>0, <2>1 DEF Pending
  <2>3. OneAtATime'
    BY <1>0, <2>1, <2>2 DEF OneAtATime
  <2>4. Requested' /\ Answered' /\ Attached'
    BY <2>1, <2>2 DEF Requested, Answered, Attached, Negotiated
  <2> QED BY <2>3, <2>4 DEF Negotiated
<1> QED BY <1>1, <1>2, <1>3, <1>4, <1>5

LEMMA SendersNegotiated ==
    ASSUME TypeOK, Negotiated, SendAck \/ PersistState \/ QueryArchive
    PROVE  Negotiated'
<1> USE DEF counters, local, store, wire, server, history
<1>1. ASSUME NEW e \in Outgoing, e.type = "mam" \/ (e.type = "a" /\ (link => srv.attached)), Send(e),
             UNCHANGED <<accountState, lastHandled, streamID, persisted, processQueue, handlers,
                         link, s2c, srv>>
      PROVE  Negotiated'
  <2>1. ~Asking(e) /\ e.type # "resume" /\ e.type # "presence"
    BY <1>1 DEF Asking
  <2>2. /\ OneAsking(c2s') /\ ToSet(c2s') \subseteq ToSet(c2s) \cup {e}
        /\ ~link => c2s' = c2s
    BY <1>1, <2>1, Sent DEF Negotiated, OneAtATime
  <2>3. Pending' = Pending
    BY <1>1 DEF Pending
  <2>4. OneAtATime'
    BY <1>1, <2>2 DEF OneAtATime, Negotiated
  <2>5. Requested'
    <3>1. \A f \in ToSet(c2s') : f \in ToSet(c2s) \/ (f = e /\ link)
      BY <2>2
    <3> QED BY <1>1, <2>1, <2>3, <3>1 DEF Requested, Negotiated
  <2>6. Answered'
    BY <1>1, <2>3 DEF Answered, Negotiated
  <2>7. Attached'
    BY <1>1, <2>2, <2>3 DEF Attached, Negotiated
  <2> QED BY <2>4, <2>5, <2>6, <2>7 DEF Negotiated
<1>2. CASE SendAck
  <2>1. [type |-> "a", h |-> lastHandled] \in Outgoing
    BY DEF Outgoing, TypeOK
  <2>2. link => srv.attached
    BY <1>2 DEF SendAck, Negotiated, Attached
  <2> QED BY <1>1, <1>2, <2>1, <2>2 DEF SendAck
<1>3. CASE PersistState
  <2>1. /\ accountState = "Bound" /\ persisted'.streamID = streamID
        /\ UNCHANGED <<accountState, lastHandled, streamID, processQueue, handlers,
                       link, s2c, c2s, srv>>
    BY <1>3 DEF PersistState, Saved
  <2>2. Pending' = Pending
    BY <2>1 DEF Pending
  <2>3. \A e \in ToSet(c2s) : e.type # "resume"
    BY <2>1 DEF Requested, Negotiated, Asking
  <2>4. OneAtATime'
    BY <2>1 DEF OneAtATime, Negotiated
  <2>5. Requested' /\ Answered'
    BY <2>1, <2>2, <2>3 DEF Requested, Answered, Negotiated
  <2>6. Attached'
    BY <2>1, <2>2 DEF Attached, Negotiated
  <2> QED BY <2>4, <2>5, <2>6 DEF Negotiated
<1>4. CASE QueryArchive
  <2> DEFINE stored == {m \in Messages : rows[m] > 0}
             last == CHOOSE m \in stored : \A n \in stored : n <= m
  <2>1. /\ UNCHANGED <<accountState, lastHandled, streamID, persisted, processQueue, handlers,
                       link, s2c, srv>>
        /\ IF stored = {} THEN UNCHANGED c2s ELSE Send([type |-> "mam", after |-> last])
    BY <1>4 DEF QueryArchive
  <2>2. stored # {} => last \in Nat
    <3> SUFFICES ASSUME stored # {} PROVE last \in stored
      BY MessageAssumption DEF Messages
    <3>1. \E m \in stored : \A n \in stored : n <= m
      BY MessageAssumption, Greatest DEF Messages
    <3> QED BY <3>1
  <2>3. stored # {} => [type |-> "mam", after |-> last] \in Outgoing
    BY <2>2 DEF Outgoing
  <2> HIDE DEF last, stored
  <2>4. CASE stored = {}
    <3>1. Aside
      BY <2>1, <2>4 DEF Aside
    <3> QED BY <3>1, AsideNegotiated
  <2>5. CASE stored # {}
    BY <1>1, <2>1, <2>3, <2>5
  <2> QED BY <2>4, <2>5
<1> QED BY <1>2, <1>3, <1>4

\* The answer under way is the only one, and nothing is asked meanwhile.
LEMMA AnswerHandled ==
    ASSUME TypeOK, Negotiated, NEW e \in BagToSet(processQueue), Answer(e),
           processQueue' = Without(processQueue, e), s2c' = s2c
    PROVE  /\ e \in Pending
           /\ Pending' \subseteq Pending
           /\ \A f \in Pending' : ~Answer(f)
           /\ \A f \in ToSet(c2s) : ~Asking(f)
           /\ OneAsking(c2s') => OneAtATime'
<1>1. /\ BagToSet(processQueue') \subseteq BagToSet(processQueue)
      /\ processQueue[e] = 1 => e \notin BagToSet(processQueue')
  BY WithoutCopy DEF TypeOK
<1>2. /\ processQueue[e] = 1 /\ \A k \in DOMAIN s2c : ~Answer(s2c[k])
      /\ \A f \in BagToSet(processQueue) : Answer(f) => e = f
  BY DEF Negotiated, OneAtATime
<1>3. e \in Pending /\ Pending' \subseteq Pending
  BY <1>1 DEF Pending
<1>4. \A f \in BagToSet(processQueue') : ~Answer(f)
  BY <1>1, <1>2
<1>5. \A f \in Pending' : ~Answer(f)
  BY <1>2, <1>4 DEF Pending, ToSet
<1>6. \A f \in ToSet(c2s) : ~Asking(f)
  BY <1>3 DEF Negotiated, Requested
<1>7. OneAsking(c2s') => OneAtATime'
  BY <1>2, <1>4 DEF OneAtATime
<1> QED BY <1>3, <1>5, <1>6, <1>7

LEMMA AnswersNegotiated ==
    ASSUME TypeOK, Negotiated, NEW e \in BagToSet(processQueue),
           HandleEnabled(e) \/ HandleResumed(e) \/ HandleFailed(e)
    PROVE  Negotiated'
<1> USE DEF counters, local, store, wire, server, history
<1>0. Answer(e) /\ processQueue' = Without(processQueue, e) /\ s2c' = s2c /\ e \in Incoming
  BY DEF HandleEnabled, HandleResumed, HandleFailed, Take, Answer, TypeOK
<1>a. /\ e \in Pending /\ Pending' \subseteq Pending
      /\ \A f \in Pending' : ~Answer(f)
      /\ \A f \in ToSet(c2s) : ~Asking(f)
      /\ OneAsking(c2s') => OneAtATime'
  BY <1>0, AnswerHandled
<1>b. /\ e.type = "enabled" => e.sid = srv.sid
      /\ e.type = "resumed" => streamID = srv.sid
      /\ link => (srv.attached <=> e.type # "failed")
  BY <1>0, <1>a DEF Negotiated, Answered
<1>c. [type |-> "presence"] \in Outgoing /\ [type |-> "enable"] \in Outgoing
      /\ OneAsking(c2s)
  BY DEF Outgoing, Negotiated, OneAtATime
<1>d. Answered'
  BY <1>a DEF Answered
<1>m. \A f \in ToSet(c2s) : f.type # "resume"
  BY <1>a DEF Asking
<1>1. CASE HandleEnabled(e) \/ HandleResumed(e)
  <2>1. /\ accountState' = "Bound" /\ Send([type |-> "presence"]) /\ streamID' = srv.sid
        /\ UNCHANGED <<handlers, link, srv>>
        /\ persisted'.streamID \in {persisted.streamID, srv.sid}
        /\ link => srv.attached
    BY <1>1, <1>b DEF HandleEnabled, HandleResumed, Saved, Take
  <2>2. ~Asking([type |-> "presence"])
    BY DEF Asking
  <2>3. /\ OneAsking(c2s') /\ ToSet(c2s') \subseteq ToSet(c2s) \cup {[type |-> "presence"]}
        /\ ~link => c2s' = c2s
    BY <1>c, <2>1, <2>2, Sent
  <2>4. Requested'
    <3>1. \A f \in ToSet(c2s') : ~Asking(f) /\ f.type # "resume"
      BY <1>a, <1>m, <2>2, <2>3
    <3>2. \A f \in ToSet(c2s') : f.type \in {"a", "presence"} => srv.attached
      <4>1. \A f \in ToSet(c2s') : f \in ToSet(c2s) \/ link
        BY <2>3
      <4> QED BY <2>1, <4>1 DEF Negotiated, Requested
    <3> QED BY <2>1, <3>1, <3>2 DEF Requested
  <2>5. Attached'
    <3>1. srv.sid \in Nat /\ Nil \notin Nat
      BY NoNumber DEF TypeOK
    <3>2. link' \/ c2s' = <<>>
      BY <2>1, <2>3 DEF Negotiated, Attached
    <3>3. link' /\ srv'.attached => srv'.valid
      BY <2>1 DEF Negotiated, Attached
    <3>4. persisted'.streamID # Nil => persisted'.streamID <= srv'.sid
      BY <2>1, <3>1 DEF Negotiated, Attached
    <3> QED BY <2>1, <3>1, <3>2, <3>3, <3>4 DEF Attached
  <2> QED BY <1>a, <1>d, <2>3, <2>4, <2>5 DEF Negotiated
<1>2. CASE HandleFailed(e)
  <2>1. /\ Send([type |-> "enable"]) /\ streamID' = Nil /\ persisted'.streamID = Nil
        /\ UNCHANGED <<accountState, handlers, link, srv>> /\ e.type = "failed"
    BY <1>2 DEF HandleFailed, Saved, Take
  <2>2. /\ OneAsking(c2s') /\ ToSet(c2s') \subseteq ToSet(c2s) \cup {[type |-> "enable"]}
        /\ ~link => c2s' = c2s
    BY <1>a, <1>c, <2>1, Sent
  <2>3. accountState # "Bound"
    BY <1>0, <1>a DEF Negotiated, Answered
  <2>4. \A f \in ToSet(c2s') : f \in ToSet(c2s) \/ (f = [type |-> "enable"] /\ link)
    BY <2>2
  <2>5. Requested'
    <3>1. ASSUME NEW f \in ToSet(c2s'), Asking(f) PROVE accountState' # "Bound" /\ ~srv'.attached
      BY <1>a, <1>b, <2>1, <2>3, <2>4, <3>1
    <3>2. \A f \in ToSet(c2s') : f.type # "resume"
      BY <1>m, <2>4
    <3>3. \A f \in ToSet(c2s') : f.type \in {"a", "presence"} => srv'.attached
      BY <2>1, <2>4 DEF Negotiated, Requested
    <3> QED BY <1>a, <3>1, <3>2, <3>3 DEF Requested
  <2>6. Attached'
    <3>1. link' \/ c2s' = <<>>
      BY <2>1, <2>2 DEF Negotiated, Attached
    <3>2. link' /\ ~srv'.attached => \A f \in Pending' : Answer(f)
      BY <1>a, <2>1 DEF Negotiated, Attached
    <3> QED BY <2>1, <2>3, <3>1, <3>2 DEF Negotiated, Attached
  <2> QED BY <1>a, <1>d, <2>2, <2>5, <2>6 DEF Negotiated
<1> QED BY <1>1, <1>2

LEMMA MessageNegotiated ==
    ASSUME TypeOK, Negotiated, NEW e \in BagToSet(processQueue), HandleMessage(e)
    PROVE  Negotiated'
<1> USE DEF counters, local, store, wire, server, history
<1> DEFINE h == [at |-> "count", m |-> e.m,
                 seen |-> IF accountState = "Bound" THEN lastHandled ELSE Nil]
<1>1. /\ ~Answer(e) /\ processQueue' = Without(processQueue, e) /\ handlers' = With(handlers, h)
      /\ UNCHANGED <<accountState, lastHandled, streamID, persisted, link, c2s, s2c, srv>>
  BY DEF HandleMessage, Take, Answer
<1>2. accountState # "Bound" => h.seen = Nil
  OBVIOUS
<1> HIDE DEF h
<1>3. BagToSet(handlers') = BagToSet(handlers) \cup {h}
  BY <1>1, WithCopy DEF TypeOK
<1>4. /\ BagToSet(processQueue') \subseteq BagToSet(processQueue)
      /\ \A x \in BagToSet(processQueue) : x # e =>
            x \in BagToSet(processQueue') /\ processQueue'[x] = processQueue[x]
  BY <1>1, WithoutCopy DEF TypeOK
<1>5. e \in Pending /\ Pending' \subseteq Pending
  BY <1>1, <1>4 DEF Pending
<1>6. OneAtATime'
  BY <1>1, <1>4 DEF OneAtATime, Negotiated
<1>7. Requested'
  BY <1>1, <1>5 DEF Requested, Negotiated
<1>8. Answered'
  BY <1>1, <1>2, <1>3, <1>5 DEF Answered, Negotiated
<1>9. Attached'
  BY <1>1, <1>5 DEF Attached, Negotiated
<1> QED BY <1>6, <1>7, <1>8, <1>9 DEF Negotiated

LEMMA CountNegotiated ==
    ASSUME TypeOK, Negotiated, NEW h \in BagToSet(handlers), Count(h)
    PROVE  Negotiated'
<1> USE DEF counters, local, store, wire, server, history
<1> DEFINE new == IF h.m \in Encrypted THEN [at |-> "open", m |-> h.m]
                  ELSE [at |-> "store", m |-> h.m, readable |-> TRUE]
<1>1. /\ handlers' = With(Without(handlers, h), new)
      /\ UNCHANGED <<accountState, streamID, persisted, processQueue, link, c2s, s2c, srv>>
  BY DEF Count, Replace
<1>2. new.at # "count"
  OBVIOUS
<1> HIDE DEF new
<1>3. BagToSet(handlers') \subseteq BagToSet(handlers) \cup {new}
  BY <1>1, ReplacedCopy DEF TypeOK
<1>4. Pending' = Pending
  BY <1>1 DEF Pending
\* No request is under way: on a stream without a session there are no handlers.
<1>5. \A e \in ToSet(c2s) : ~Asking(e) /\ e.type # "resume"
  <2> SUFFICES ASSUME NEW e \in ToSet(c2s), Asking(e) PROVE FALSE
    BY DEF Asking
  <2>1. c2s # <<>>
    BY DEF ToSet
  <2> QED BY <2>1 DEF Negotiated, Attached, Requested
<1>6. OneAtATime'
  BY <1>1 DEF OneAtATime, Negotiated
<1>7. Requested'
  BY <1>1, <1>4, <1>5 DEF Requested, Negotiated
<1>8. Answered'
  BY <1>1, <1>2, <1>3, <1>4 DEF Answered, Negotiated
<1>9. Attached'
  BY <1>1, <1>4 DEF Attached, Negotiated
<1> QED BY <1>6, <1>7, <1>8, <1>9 DEF Negotiated

\* Stanzas are sent on a stream that has a session.
LEMMA StreamExtended ==
    ASSUME TypeOK, NEW t \in Seq(Stanza), s2c' = s2c \o t
    PROVE  /\ \A k \in DOMAIN s2c' : \/ k \in DOMAIN s2c /\ s2c'[k] = s2c[k]
                                     \/ k - Len(s2c) \in DOMAIN t /\ s2c'[k] = t[k - Len(s2c)]
                                        /\ ~Answer(s2c'[k])
           /\ ToSet(s2c') = ToSet(s2c) \cup ToSet(t)
           /\ \A e \in ToSet(t) : ~Answer(e)
<1>1. s2c \in Seq(Incoming) /\ t \in Seq(Incoming)
  BY Fields DEF TypeOK
<1>2. /\ Len(s2c \o t) = Len(s2c) + Len(t) /\ s2c \o t \in Seq(Incoming)
      /\ \A k \in 1 .. Len(s2c) + Len(t) :
            (s2c \o t)[k] = IF k <= Len(s2c) THEN s2c[k] ELSE t[k - Len(s2c)]
  BY <1>1, ConcatProperties, Zenon
<1>3. DOMAIN s2c' = 1 .. Len(s2c) + Len(t) /\ DOMAIN s2c = 1 .. Len(s2c) /\ DOMAIN t = 1 .. Len(t)
      /\ Len(s2c) \in Nat /\ Len(t) \in Nat
  BY <1>1, <1>2
<1>4. \A k \in DOMAIN t : t[k] \in Stanza /\ ~Answer(t[k])
  BY Fields DEF Answer
<1>5. \A k \in DOMAIN s2c' : \/ k \in DOMAIN s2c /\ s2c'[k] = s2c[k]
                             \/ k - Len(s2c) \in DOMAIN t /\ s2c'[k] = t[k - Len(s2c)]
  BY <1>2, <1>3
<1>6. ToSet(s2c') = ToSet(s2c) \cup ToSet(t)
  BY <1>1, Concatenated
<1>7. \A e \in ToSet(t) : ~Answer(e)
  BY <1>4 DEF ToSet
<1> QED BY <1>4, <1>5, <1>6, <1>7

LEMMA ExtendedNegotiated ==
    ASSUME TypeOK, Negotiated, NEW t \in Seq(Stanza), s2c' = s2c \o t \/ s2c' = s2c,
           s2c' # s2c => link /\ srv.attached,
           OneAsking(c2s'), ToSet(c2s') \subseteq ToSet(c2s), link \/ c2s' = <<>>,
           srv'.sid = srv.sid, srv'.attached = srv.attached,
           link => srv'.valid = srv.valid,
           UNCHANGED <<accountState, lastHandled, streamID, persisted, processQueue, handlers, link>>
    PROVE  Negotiated'
<1>1. CASE s2c' = s2c
  <2>1. Pending' = Pending
    BY <1>1 DEF Pending
  <2>2. OneAtATime'
    BY <1>1 DEF OneAtATime, Negotiated
  <2>3. Requested'
    BY <2>1 DEF Requested, Negotiated
  <2>4. Answered'
    BY <2>1 DEF Answered, Negotiated
  <2>5. Attached'
    BY <2>1 DEF Attached, Negotiated
  <2> QED BY <2>2, <2>3, <2>4, <2>5 DEF Negotiated
<1>2. CASE s2c' = s2c \o t /\ s2c' # s2c
  <2>1. /\ \A k \in DOMAIN s2c' : \/ k \in DOMAIN s2c /\ s2c'[k] = s2c[k]
                                  \/ ~Answer(s2c'[k])
        /\ ToSet(s2c') = ToSet(s2c) \cup ToSet(t)
        /\ \A e \in ToSet(t) : ~Answer(e)
    BY <1>2, StreamExtended
  <2>2. \A e \in Pending' : e \in Pending \/ ~Answer(e)
    BY <2>1 DEF Pending
  <2>3. link /\ srv.attached
    BY <1>2
  <2>4. OneAtATime'
    BY <2>1 DEF OneAtATime, Negotiated
  <2>5. Requested'
    BY <2>2 DEF Requested, Negotiated
  <2>6. Answered'
    BY <2>2 DEF Answered, Negotiated
  <2>7. Attached'
    BY <2>3 DEF Attached, Negotiated
  <2> QED BY <2>4, <2>5, <2>6, <2>7 DEF Negotiated
<1> QED BY <1>1, <1>2

\* When a request is read there is nothing else on the stream, read or not.
LEMMA AskingAlone ==
    ASSUME TypeOK, Negotiated, NEW type, Receive(type), type \in {"enable", "resume"}
    PROVE  /\ s2c = <<>> /\ Pending = {} /\ BagToSet(processQueue) = {} /\ BagToSet(handlers) = {}
           /\ accountState # "Bound" /\ ~srv.attached /\ link
           /\ \A e \in ToSet(c2s') : e.type = "mam"
           /\ OneAsking(c2s')
           /\ type = "resume" => /\ Head(c2s).previd = streamID /\ Head(c2s).h = lastHandled
                                 /\ persisted = Saved(lastHandled, streamID)
<1>1. /\ link /\ Head(c2s) \in ToSet(c2s) /\ Head(c2s).type = type
      /\ OneAsking(c2s') /\ ToSet(c2s') \subseteq ToSet(c2s)
      /\ Asking(Head(c2s)) => \A f \in ToSet(c2s') : ~Asking(f)
  BY Received DEF Negotiated, OneAtATime
<1>2. Asking(Head(c2s))
  BY <1>1 DEF Asking
<1>3. accountState # "Bound" /\ ~srv.attached /\ \A f \in Pending : ~Answer(f)
  BY <1>1, <1>2 DEF Negotiated, Requested
<1>4. Pending = {} /\ BagToSet(handlers) = {}
  BY <1>1, <1>3 DEF Negotiated, Attached
<1>5. ToSet(s2c) = {} /\ BagToSet(processQueue) = {}
  BY <1>4 DEF Pending
<1>6. s2c = <<>>
  <2>1. s2c # <<>> => Head(s2c) \in ToSet(s2c)
    BY TailOf DEF TypeOK
  <2> QED BY <1>5, <2>1
<1>7. \A e \in ToSet(c2s') : e.type = "mam"
  <2> SUFFICES ASSUME NEW e \in ToSet(c2s') PROVE e.type = "mam"
    OBVIOUS
  <2>1. e \in ToSet(c2s) /\ ~Asking(e)
    BY <1>1, <1>2
  <2>2. e \in Outgoing
    BY <2>1 DEF ToSet, TypeOK
  <2>3. e.type \in {"enable", "presence", "a", "resume", "mam"}
    BY <2>2 DEF Outgoing
  <2>4. e.type \notin {"a", "presence"}
    BY <1>3, <2>1 DEF Negotiated, Requested
  <2> QED BY <2>1, <2>3, <2>4 DEF Asking
<1>8. type = "resume" => /\ Head(c2s).previd = streamID /\ Head(c2s).h = lastHandled
                         /\ persisted = Saved(lastHandled, streamID)
  BY <1>1 DEF Negotiated, Requested
<1> QED BY <1>1, <1>3, <1>4, <1>5, <1>6, <1>7, <1>8

\* An answer and the stanzas behind it
LEMMA Prepended ==
    ASSUME NEW a \in Incoming, NEW t \in Seq(Incoming)
    PROVE  /\ <<a>> \o t \in Seq(Incoming) /\ Len(<<a>> \o t) = 1 + Len(t)
           /\ \A k \in 1 .. 1 + Len(t) : (<<a>> \o t)[k] = IF k = 1 THEN a ELSE t[k - 1]
           /\ ToSet(<<a>> \o t) = {a} \cup ToSet(t)
<1> DEFINE s == <<a>>
<1>1. s \in Seq(Incoming) /\ Len(s) = 1 /\ s[1] = a /\ ToSet(s) = {a}
  BY DEF ToSet
<1> HIDE DEF s
<1>2. /\ s \o t \in Seq(Incoming) /\ Len(s \o t) = Len(s) + Len(t)
      /\ \A k \in 1 .. Len(s) + Len(t) :
            (s \o t)[k] = IF k <= Len(s) THEN s[k] ELSE t[k - Len(s)]
  BY <1>1, ConcatProperties, Zenon
<1>3. \A k \in 1 .. 1 + Len(t) : (s \o t)[k] = IF k = 1 THEN a ELSE t[k - 1]
  BY <1>1, <1>2
<1>4. ToSet(s \o t) = ToSet(s) \cup ToSet(t)
  BY <1>1, Concatenated
<1> QED BY <1>1, <1>2, <1>3, <1>4 DEF s

\* The server answers a request, with what it kept behind the answer.
LEMMA AnswerNegotiated ==
    ASSUME TypeOK, Negotiated, NEW type, Receive(type), type \in {"enable", "resume"},
           NEW a \in Incoming, Answer(a), NEW t \in Seq(Stanza), s2c' = <<a>> \o t,
           srv'.attached <=> a.type # "failed", srv'.attached => srv'.valid,
           a.type = "failed" => t = <<>>,
           a.type = "enabled" => a.sid = srv'.sid,
           a.type = "resumed" => streamID = srv'.sid,
           srv.sid <= srv'.sid, srv'.sid \in Nat,
           UNCHANGED <<accountState, lastHandled, streamID, persisted, processQueue, handlers, link>>
    PROVE  Negotiated'
<1>1. /\ BagToSet(processQueue) = {} /\ BagToSet(handlers) = {}
      /\ accountState # "Bound" /\ link
      /\ \A e \in ToSet(c2s') : e.type = "mam"
      /\ OneAsking(c2s')
  BY AskingAlone
<1>2. /\ \A k \in DOMAIN s2c' : k = 1 \/ ~Answer(s2c'[k])
      /\ ToSet(s2c') = {a} \cup ToSet(t)
      /\ \A e \in ToSet(t) : ~Answer(e)
      /\ t = <<>> => ToSet(t) = {}
  <2>1. t \in Seq(Incoming) /\ \A k \in DOMAIN t : ~Answer(t[k])
    BY Fields DEF Answer
  <2>2. /\ s2c' \in Seq(Incoming) /\ Len(s2c') = 1 + Len(t)
        /\ \A k \in 1 .. 1 + Len(t) : s2c'[k] = IF k = 1 THEN a ELSE t[k - 1]
        /\ ToSet(s2c') = {a} \cup ToSet(t)
    BY <2>1, Prepended
  <2>3. \A k \in DOMAIN s2c' : k = 1 \/ ~Answer(s2c'[k])
    BY <2>1, <2>2
  <2>4. \A e \in ToSet(t) : ~Answer(e)
    BY <2>1 DEF ToSet
  <2>5. t = <<>> => ToSet(t) = {}
    BY NoElements
  <2> QED BY <2>2, <2>3, <2>4, <2>5
<1>3. Pending' = {a} \cup ToSet(t)
  BY <1>1, <1>2 DEF Pending
<1>4. OneAtATime'
  BY <1>1, <1>2 DEF OneAtATime
<1>5. Requested'
  BY <1>1 DEF Requested, Asking
<1>6. Answered'
  BY <1>1, <1>2, <1>3 DEF Answered
<1>7. Attached'
  <2>1. streamID # Nil => streamID <= srv'.sid
    BY DEF Negotiated, Attached, TypeOK, Number
  <2>2. persisted.streamID # Nil => persisted.streamID <= srv'.sid
    BY DEF Negotiated, Attached, TypeOK, Number
  <2>3. ~srv'.attached => \A e \in Pending' : Answer(e)
    BY <1>2, <1>3
  <2> QED BY <1>1, <2>1, <2>2, <2>3 DEF Attached
<1> QED BY <1>4, <1>5, <1>6, <1>7 DEF Negotiated

LEMMA SessionForgets ==
    ASSUME TypeOK, NEW h \in Nat, NEW on \in BOOLEAN, Forget(h, on)
    PROVE  srv' \in Session /\ srv'.sid = srv.sid /\ srv'.attached = on /\ srv'.valid = srv.valid
<1>0. srv \in Session
  BY DEF TypeOK, Session
<1>a. srv \in [sid : Nat, valid : BOOLEAN, attached : BOOLEAN, acked : Nat, queue : Seq(Stanza)]
  BY DEF TypeOK
<1>b. \E n \in 0 .. Len(srv.queue) :
         /\ srv' = [srv EXCEPT !.attached = on, !.acked = @ + n, !.queue = SubSeq(@, n + 1, Len(@))]
         /\ n = 0 \/ srv.acked + n <= h
         /\ h <= srv.acked + n \/ n = Len(srv.queue)
         /\ srv' \in [sid : Nat, valid : BOOLEAN, attached : BOOLEAN, acked : Nat,
                       queue : Seq(Stanza)]
  BY <1>a, ForgetPrefix
<1>1. PICK n \in 0 .. Len(srv.queue) :
         /\ srv' = [srv EXCEPT !.attached = on, !.acked = @ + n, !.queue = SubSeq(@, n + 1, Len(@))]
         /\ srv' \in Session
  BY <1>b DEF Session
<1>2. ASSUME NEW k, NEW q, srv' = [srv EXCEPT !.attached = on, !.acked = k, !.queue = q]
      PROVE  srv'.sid = srv.sid /\ srv'.attached = on /\ srv'.valid = srv.valid
  BY <1>0, <1>2 DEF Session
<1> QED BY <1>1, <1>2

LEMMA ServerNegotiated ==
    ASSUME TypeOK, Negotiated, Arrive \/ Server \/ Expire
    PROVE  Negotiated'
<1> USE DEF counters, local, store, wire, server, history
<1>0. /\ srv \in Session /\ srv.queue \in Seq(Stanza) /\ srv.sid \in Nat /\ <<>> \in Seq(Stanza)
      /\ OneAsking(c2s) /\ (link \/ c2s = <<>>)
  BY NoElements DEF TypeOK, Session, Negotiated, OneAtATime, Attached
<1>1. CASE Arrive
  <2> DEFINE e == [type |-> "message", m |-> archived + 1, mam |-> FALSE]
  <2>a. archived + 1 \in Messages
    BY <1>1, MessageAssumption DEF Arrive, TypeOK, Messages
  <2>1. e \in Stanza
    BY <2>a, Fields
  <2>2. /\ srv'.sid = srv.sid /\ srv'.attached = srv.attached /\ srv'.valid = srv.valid
        /\ s2c' = s2c \/ (s2c' = Append(s2c, e) /\ link /\ srv.attached)
        /\ UNCHANGED <<accountState, lastHandled, streamID, persisted, processQueue, handlers,
                       link, c2s>>
    BY <1>0, <1>1 DEF Arrive, Session
  <2> HIDE DEF e
  <2>3. <<e>> \in Seq(Stanza) /\ Append(s2c, e) = s2c \o <<e>>
    BY <2>1 DEF TypeOK
  <2>4. s2c' = s2c \o <<e>> \/ s2c' = s2c
    BY <2>2, <2>3
  <2> QED BY <1>0, <2>2, <2>3, <2>4, ExtendedNegotiated
<1>2. CASE SrvA
  <2>1. Receive("a") /\ s2c' = s2c
    BY <1>2 DEF SrvA
  <2>2. /\ link /\ Head(c2s) \in Outgoing /\ Head(c2s).type = "a"
        /\ OneAsking(c2s') /\ ToSet(c2s') \subseteq ToSet(c2s)
    BY <1>0, <2>1, Received, TailOf DEF TypeOK, Receive
  <2>3. srv'.sid = srv.sid /\ srv'.attached = srv.attached /\ srv'.valid = srv.valid
    <3>1. Head(c2s).h \in Nat /\ srv.attached \in BOOLEAN /\ Forget(Head(c2s).h, srv.attached)
      BY <1>0, <1>2, <2>2, Fields DEF SrvA, Session
    <3> QED BY <3>1, SessionForgets
  <2>4. UNCHANGED <<accountState, lastHandled, streamID, persisted, processQueue, handlers, link>>
    BY <1>2 DEF SrvA
  <2> QED BY <1>0, <2>1, <2>2, <2>3, <2>4, ExtendedNegotiated
<1>3. CASE SrvResume
  <2>1. Receive("resume")
    BY <1>3 DEF SrvResume
  <2>2. UNCHANGED <<accountState, lastHandled, streamID, persisted, processQueue, handlers, link>>
    BY <1>3 DEF SrvResume
  <2>3. s2c = <<>> /\ ~srv.attached /\ Head(c2s).previd = streamID /\ Head(c2s) \in Outgoing
        /\ Head(c2s).type = "resume"
    BY <2>1, AskingAlone, TailOf DEF Receive, TypeOK
  <2>4. CASE srv.valid /\ Head(c2s).previd = srv.sid
    <3> DEFINE a == [type |-> "resumed"]
    <3>1. a \in Incoming /\ Answer(a) /\ a.type = "resumed"
      BY DEF Incoming, Answer
    <3>2. /\ srv' \in Session /\ srv'.sid = srv.sid /\ srv'.attached = TRUE /\ srv'.valid = srv.valid
      <4>1. Head(c2s).h \in Nat /\ Forget(Head(c2s).h, TRUE)
        BY <1>3, <2>3, <2>4, Fields DEF SrvResume
      <4> QED BY <4>1, SessionForgets
    <3>3. s2c' = <<>> \o <<a>> \o srv'.queue
      BY <1>3, <2>3, <2>4 DEF SrvResume
    <3>4. srv'.queue \in Seq(Stanza)
      BY <3>2 DEF Session
    <3>5. <<>> \o <<a>> = <<a>>
      OBVIOUS
    <3>6. s2c' = <<a>> \o srv'.queue
      BY <3>3, <3>5
    <3> HIDE DEF a
    <3>7. srv.sid <= srv'.sid /\ srv'.sid \in Nat
      BY <1>0, <3>2
    <3>8. (srv'.attached <=> a.type # "failed") /\ streamID = srv'.sid /\ srv'.valid
      BY <2>3, <2>4, <3>1, <3>2
    <3> QED BY <2>1, <2>2, <3>1, <3>4, <3>6, <3>7, <3>8, AnswerNegotiated
  <2>5. CASE ~ (srv.valid /\ Head(c2s).previd = srv.sid)
    <3> DEFINE a == [type |-> "failed"]
    <3>1. a \in Incoming /\ Answer(a) /\ a.type = "failed"
      BY DEF Incoming, Answer
    <3>2. srv' = srv /\ s2c' = Append(<<>>, a)
      BY <1>3, <2>3, <2>5 DEF SrvResume
    <3> HIDE DEF a
    <3>3. s2c' = <<a>> \o <<>>
      BY <3>1, <3>2
    <3>4. srv.sid <= srv'.sid /\ srv'.sid \in Nat
      BY <1>0, <3>2
    <3>5. ~srv'.attached
      BY <2>3, <3>2
    <3> QED BY <1>0, <2>1, <2>2, <3>1, <3>3, <3>4, <3>5, AnswerNegotiated
  <2> QED BY <2>4, <2>5
<1>4. CASE SrvEnable
  <2> DEFINE a == [type |-> "enabled", sid |-> srv.sid + 1]
  <2>1. Receive("enable")
    BY <1>4 DEF SrvEnable
  <2>2. UNCHANGED <<accountState, lastHandled, streamID, persisted, processQueue, handlers, link>>
    BY <1>4 DEF SrvEnable
  <2>3. s2c = <<>>
    BY <2>1, AskingAlone
  <2>4. a \in Incoming /\ Answer(a) /\ a.type = "enabled" /\ a.sid = srv.sid + 1
    BY <1>0 DEF Incoming, Answer
  <2>5. srv'.sid = srv.sid + 1 /\ srv'.attached = TRUE /\ srv'.valid = TRUE /\ s2c' = Append(<<>>, a)
    BY <1>4, <2>3 DEF SrvEnable
  <2> HIDE DEF a
  <2>6. s2c' = <<a>> \o <<>>
    BY <2>4, <2>5
  <2>7. srv.sid <= srv'.sid /\ srv'.sid \in Nat /\ a.sid = srv'.sid
    BY <1>0, <2>4, <2>5
  <2>8. (srv'.attached <=> a.type # "failed") /\ srv'.valid
    BY <2>4, <2>5
  <2> QED BY <1>0, <2>1, <2>2, <2>4, <2>6, <2>7, <2>8, AnswerNegotiated
<1>d. ASSUME NEW t \in Seq(Stanza), Deliver(t)
      PROVE  /\ s2c' = s2c \o t
             /\ srv'.sid = srv.sid /\ srv'.attached = srv.attached /\ srv'.valid = srv.valid
  BY <1>0, <1>d DEF Deliver, Session
<1>5. CASE SrvPresence
  <2>1. Receive("presence") /\ Deliver(InOrder(offline, FALSE))
    BY <1>5 DEF SrvPresence
  <2>2. /\ link /\ Head(c2s) \in ToSet(c2s) /\ Head(c2s).type = "presence"
        /\ OneAsking(c2s') /\ ToSet(c2s') \subseteq ToSet(c2s)
    BY <1>0, <2>1, Received
  <2>3. srv.attached
    BY <2>2 DEF Negotiated, Requested
  <2>4. InOrder(offline, FALSE) \in Seq(Stanza)
    BY InOrderType DEF TypeOK
  <2>5. UNCHANGED <<accountState, lastHandled, streamID, persisted, processQueue, handlers, link>>
    BY <1>5 DEF SrvPresence
  <2>6. /\ s2c' = s2c \o InOrder(offline, FALSE)
        /\ srv'.sid = srv.sid /\ srv'.attached = srv.attached /\ srv'.valid = srv.valid
    BY <1>d, <2>1, <2>4
  <2> QED BY <2>2, <2>3, <2>4, <2>5, <2>6, ExtendedNegotiated
<1>6. CASE SrvArchive
  <2> DEFINE t == InOrder(Head(c2s).after + 1 .. archived, TRUE)
  <2>1. Receive("mam")
    BY <1>6 DEF SrvArchive
  <2>2. /\ link /\ Head(c2s) \in Outgoing /\ Head(c2s).type = "mam"
        /\ OneAsking(c2s') /\ ToSet(c2s') \subseteq ToSet(c2s)
    BY <1>0, <2>1, Received, TailOf DEF TypeOK, Receive
  <2>3. Head(c2s).after \in Nat /\ archived \in 0 .. Newest
    BY <2>2, Fields DEF TypeOK
  <2>4. Head(c2s).after + 1 .. archived \in SUBSET Messages
    BY <2>3, MessageAssumption DEF Messages
  <2>5. t \in Seq(Stanza)
    BY <2>4, InOrderType
  <2>6. UNCHANGED <<accountState, lastHandled, streamID, persisted, processQueue, handlers, link>>
    BY <1>6 DEF SrvArchive
  <2>7. /\ s2c' = s2c \/ (s2c' = s2c \o t /\ srv.attached)
        /\ srv'.sid = srv.sid /\ srv'.attached = srv.attached /\ srv'.valid = srv.valid
    BY <1>6, <1>d, <2>5 DEF SrvArchive
  <2> HIDE DEF t
  <2> QED BY <2>2, <2>5, <2>6, <2>7, ExtendedNegotiated
<1>7. CASE Expire
  <2>1. /\ s2c' = s2c /\ ~link /\ c2s' = c2s
        /\ srv'.sid = srv.sid /\ srv'.attached = srv.attached
        /\ UNCHANGED <<accountState, lastHandled, streamID, persisted, processQueue, handlers, link>>
    BY <1>0, <1>7 DEF Expire, Session
  <2> QED BY <1>0, <2>1, ExtendedNegotiated
<1> QED BY <1>1, <1>2, <1>3, <1>4, <1>5, <1>6, <1>7 DEF Server

LEMMA NegotiatedKept == TypeOK /\ Negotiated /\ [Next]_vars => Negotiated'
<1> SUFFICES ASSUME TypeOK, Negotiated, [Next]_vars PROVE Negotiated'
  OBVIOUS
<1>1. CASE UNCHANGED vars
  <2>1. Aside
    BY <1>1 DEF vars, counters, local, wire, server, Aside
  <2> QED BY <2>1, AsideNegotiated
<1>2. CASE \E e \in BagToSet(processQueue) :
              HandleEnabled(e) \/ HandleResumed(e) \/ HandleFailed(e) \/ HandleMessage(e)
  BY <1>2, AnswersNegotiated, MessageNegotiated
<1>3. CASE \E h \in BagToSet(handlers) : Count(h) \/ Open(h) \/ Store(h)
  BY <1>3, CountNegotiated, AsideSteps, AsideNegotiated
<1>4. CASE HasMessageForId \/ Insert \/ \E q \in BagToSet(lookups) : TypeFound(q)
  BY <1>4, AsideSteps, AsideNegotiated
<1>5. CASE SendAck \/ PersistState \/ QueryArchive
  BY <1>5, SendersNegotiated
<1>6. CASE Connect \/ Teardown \/ Read \/ LoseLink \/ Crash
  BY <1>6, ConnectionNegotiated
<1>7. CASE Arrive \/ Server \/ Expire
  BY <1>7, ServerNegotiated
<1> QED BY <1>1, <1>2, <1>3, <1>4, <1>5, <1>6, <1>7 DEF Next, Local, ProcessStep, DatabaseStep

-----------------------------------------------------------------------------
(* Nothing in hand is dropped. *)

Waiting(m) == \E e \in BagToSet(processQueue) : e.type = "message" /\ e.m = m
Busy(m) == Has(handlers, m) \/ Has(lookups, m) \/ Asked(dbQueue, m) # {}

LEMMA TakenIs ==
    /\ \A m : m \in UnderWay <=> Busy(m)
    /\ \A m : m \in InHand <=> Waiting(m) \/ Busy(m)
<1>1. \A m : m \in UnderWay <=> Busy(m)
  BY DEF UnderWay, Busy, Has, Asked
<1>2. \A m : m \in InHand <=> Waiting(m) \/ m \in UnderWay
  BY DEF InHand, Waiting
<1> QED BY <1>1, <1>2

LEMMA AskedMore ==
    ASSUME NEW q \in Seq(Statement), NEW s \in Statement, NEW m
    PROVE  /\ Asked(q, m) # {} => Asked(Append(q, s), m) # {}
           /\ s.op # "last" /\ s.m = m => Asked(Append(q, s), m) # {}
<1>1. /\ DOMAIN Append(q, s) = DOMAIN q \cup {Len(q) + 1}
      /\ Append(q, s)[Len(q) + 1] = s
      /\ \A k \in DOMAIN q : Append(q, s)[k] = q[k]
  OBVIOUS
<1> QED BY <1>1 DEF Asked

LEMMA AskedLess ==
    ASSUME NEW q \in Seq(Statement), q # <<>>, NEW m
    PROVE  /\ Asked(q, m) # {} => \/ Asked(Tail(q), m) # {}
                                  \/ Head(q).op # "last" /\ Head(q).m = m
           /\ Asked(Tail(q), m) # {} => Asked(q, m) # {}
           /\ Head(q).op # "last" /\ Head(q).m = m => Asked(q, m) # {}
<1>1. /\ \A k \in DOMAIN Tail(q) : k + 1 \in DOMAIN q /\ Tail(q)[k] = q[k + 1]
      /\ \A k \in DOMAIN q : k = 1 \/ (k - 1 \in DOMAIN Tail(q) /\ Tail(q)[k - 1] = q[k])
      /\ 1 \in DOMAIN q /\ q[1] = Head(q)
  OBVIOUS
<1>2. \A k \in Asked(Tail(q), m) : k + 1 \in Asked(q, m)
  BY <1>1 DEF Asked
<1>3. \A k \in Asked(q, m) : k = 1 \/ k - 1 \in Asked(Tail(q), m)
  BY <1>1 DEF Asked
<1>4. Head(q).op # "last" /\ Head(q).m = m <=> 1 \in Asked(q, m)
  BY <1>1 DEF Asked
<1> QED BY <1>2, <1>3, <1>4

\* A statement of the database and a look-up only pass a message on.
LEMMA StatementKeepsTaken ==
    ASSUME TypeOK, DatabaseStep \/ \E q \in BagToSet(lookups) : TypeFound(q), NEW m \in Messages
    PROVE  /\ Waiting(m)' <=> Waiting(m)
           /\ Busy(m) => Busy(m)' \/ rows'[m] > 0
           /\ rows[m] > 0 => rows'[m] > 0
           /\ interrupted' = interrupted
           /\ ~Insert => rows' = rows
<1> USE DEF counters, local, store, wire, server, history
<1>0. /\ dbQueue \in Seq(Statement) /\ IsABag(lookups) /\ rows[m] \in Nat
  BY DEF TypeOK
<1>w. processQueue' = processQueue /\ interrupted' = interrupted /\ handlers' = handlers
  BY DEF DatabaseStep, HasMessageForId, Insert, QueryArchive, TypeFound
<1>1. Waiting(m)' <=> Waiting(m)
  BY <1>w DEF Waiting
<1>h. ASSUME dbQueue # <<>>, dbQueue' = Tail(dbQueue)
      PROVE  Asked(dbQueue, m) # {} => \/ Asked(dbQueue', m) # {}
                                       \/ Head(dbQueue).op # "last" /\ Head(dbQueue).m = m
  BY <1>0, <1>h, AskedLess
<1>2. CASE HasMessageForId
  <2> DEFINE q == [Head(dbQueue) EXCEPT !.op = "insert"]
  <2>1. /\ dbQueue # <<>> /\ dbQueue' = Tail(dbQueue) /\ Head(dbQueue).op = "has" /\ rows' = rows
        /\ Head(dbQueue) \in Statement
    BY <1>0, <1>2, TailOf DEF HasMessageForId, Executing
  <2>2. q.m = Head(dbQueue).m
    BY <2>1, Fields
  <2>3. lookups' = IF Exists(Head(dbQueue).m) THEN lookups ELSE With(lookups, q)
    BY <1>2 DEF HasMessageForId
  <2> HIDE DEF q
  <2>4. BagToSet(With(lookups, q)) = BagToSet(lookups) \cup {q}
    BY <1>0, WithCopy
  <2>5. Has(lookups, m) => Has(lookups', m)
    BY <2>3, <2>4 DEF Has
  <2>6. Head(dbQueue).m = m => Has(lookups', m) \/ rows[m] > 0
    BY <2>2, <2>3, <2>4 DEF Has, Exists
  <2>7. Busy(m) => Busy(m)' \/ rows'[m] > 0
    BY <1>h, <1>w, <2>1, <2>5, <2>6 DEF Busy
  <2> QED BY <1>1, <1>w, <2>1, <2>7
<1>3. CASE Insert
  <2>1. /\ dbQueue # <<>> /\ dbQueue' = Tail(dbQueue) /\ lookups' = lookups
        /\ rows' = [rows EXCEPT ![Head(dbQueue).m] = @ + 1]
    BY <1>3 DEF Insert, Executing
  <2>2. Head(dbQueue).m = m => rows'[m] > 0
    BY <1>0, <2>1 DEF TypeOK
  <2>3. rows[m] > 0 => rows'[m] > 0
    BY <1>0, <2>1, <2>2 DEF TypeOK
  <2>4. Busy(m) => Busy(m)' \/ rows'[m] > 0
    BY <1>h, <1>w, <2>1, <2>2 DEF Busy
  <2> QED BY <1>1, <1>3, <1>w, <2>3, <2>4
<1>4. CASE QueryArchive
  <2>1. /\ dbQueue # <<>> /\ dbQueue' = Tail(dbQueue) /\ Head(dbQueue).op = "last"
        /\ lookups' = lookups /\ rows' = rows
    BY <1>4 DEF QueryArchive, Executing
  <2>2. Busy(m) => Busy(m)'
    BY <1>h, <1>w, <2>1 DEF Busy
  <2> QED BY <1>1, <1>w, <2>1, <2>2
<1>5. ASSUME NEW q \in BagToSet(lookups), TypeFound(q)
      PROVE  rows' = rows /\ (Busy(m) => Busy(m)')
  <2>1. /\ q \in Statement /\ q.op # "last" /\ rows' = rows
        /\ dbQueue' = Append(dbQueue, q) /\ lookups' = Without(lookups, q)
    BY <1>5 DEF TypeFound, TypeOK, Statement
  <2>2. \A x \in BagToSet(lookups) : x # q => x \in BagToSet(lookups')
    BY <1>0, <2>1, WithoutCopy
  <2>3. /\ Asked(dbQueue, m) # {} => Asked(dbQueue', m) # {}
        /\ q.m = m => Asked(dbQueue', m) # {}
    BY <1>0, <2>1, AskedMore
  <2>4. Has(lookups, m) => Has(lookups', m) \/ q.m = m
    BY <2>2 DEF Has
  <2>5. Busy(m) => Busy(m)'
    BY <1>w, <2>3, <2>4 DEF Busy
  <2> QED BY <2>1, <2>5
<1>6. CASE \E q \in BagToSet(lookups) : TypeFound(q)
  <2>1. rows' = rows /\ (Busy(m) => Busy(m)')
    BY <1>5, <1>6
  <2> QED BY <1>1, <1>w, <2>1
<1> QED BY <1>2, <1>3, <1>4, <1>6 DEF DatabaseStep

\* So does a handler.
LEMMA HandlerKeepsTaken ==
    ASSUME TypeOK, ProcessStep, NEW m \in Messages
    PROVE  /\ Waiting(m) \/ Busy(m) => Waiting(m)' \/ Busy(m)'
           /\ rows' = rows /\ interrupted' = interrupted
<1> USE DEF counters, local, store, wire, server, history
<1>0. /\ dbQueue \in Seq(Statement) /\ IsABag(handlers) /\ IsABag(processQueue)
  BY DEF TypeOK
<1>1. rows' = rows /\ interrupted' = interrupted
  BY DEF ProcessStep, HandleEnabled, HandleResumed, HandleFailed, HandleMessage, Count, Open, Store
<1>2. ASSUME NEW e \in BagToSet(processQueue), e.type # "message",
             processQueue' = Without(processQueue, e),
             handlers' = handlers, lookups' = lookups,
             dbQueue' = dbQueue \/ dbQueue' = Append(dbQueue, [op |-> "last"])
      PROVE  Waiting(m) \/ Busy(m) => Waiting(m)' \/ Busy(m)'
  <2>1. \A x \in BagToSet(processQueue) : x # e => x \in BagToSet(processQueue')
    BY <1>0, <1>2, WithoutCopy
  <2>2. Waiting(m) => Waiting(m)'
    BY <1>2, <2>1 DEF Waiting
  <2>3. [op |-> "last"] \in Statement
    BY DEF Statement
  <2>4. Asked(dbQueue, m) # {} => Asked(dbQueue', m) # {}
    BY <1>0, <1>2, <2>3, AskedMore
  <2> QED BY <1>2, <2>2, <2>4 DEF Busy
<1>3. ASSUME NEW e \in BagToSet(processQueue),
             HandleEnabled(e) \/ HandleResumed(e) \/ HandleFailed(e)
      PROVE  Waiting(m) \/ Busy(m) => Waiting(m)' \/ Busy(m)'
  <2>1. /\ e.type # "message" /\ processQueue' = Without(processQueue, e)
        /\ handlers' = handlers /\ lookups' = lookups
        /\ dbQueue' = dbQueue \/ dbQueue' = Append(dbQueue, [op |-> "last"])
    BY <1>3 DEF HandleEnabled, HandleResumed, HandleFailed, Take
  <2> QED BY <1>2, <2>1
<1>4. ASSUME NEW e \in BagToSet(processQueue), HandleMessage(e)
      PROVE  Waiting(m) \/ Busy(m) => Waiting(m)' \/ Busy(m)'
  <2> DEFINE h == [at |-> "count", m |-> e.m,
                   seen |-> IF accountState = "Bound" THEN lastHandled ELSE Nil]
  <2>1. /\ processQueue' = Without(processQueue, e) /\ handlers' = With(handlers, h)
        /\ lookups' = lookups /\ dbQueue' = dbQueue
    BY <1>4 DEF HandleMessage, Take
  <2>2. h.m = e.m
    OBVIOUS
  <2> HIDE DEF h
  <2>3. BagToSet(handlers') = BagToSet(handlers) \cup {h}
    BY <1>0, <2>1, WithCopy
  <2>4. \A x \in BagToSet(processQueue) : x # e => x \in BagToSet(processQueue')
    BY <1>0, <2>1, WithoutCopy
  <2>5. /\ Waiting(m) => Waiting(m)' \/ Has(handlers', m)
        /\ Has(handlers, m) => Has(handlers', m)
    BY <2>2, <2>3, <2>4 DEF Waiting, Has
  <2> QED BY <2>1, <2>5 DEF Busy
<1>5. ASSUME NEW h \in BagToSet(handlers), NEW new, new.m = h.m,
             handlers' = With(Without(handlers, h), new),
             processQueue' = processQueue, lookups' = lookups, dbQueue' = dbQueue
      PROVE  Waiting(m) \/ Busy(m) => Waiting(m)' \/ Busy(m)'
  <2>1. /\ new \in BagToSet(handlers')
        /\ \A x \in BagToSet(handlers) : x # h => x \in BagToSet(handlers')
    BY <1>0, <1>5, ReplacedCopy
  <2>2. Has(handlers, m) => Has(handlers', m)
    BY <1>5, <2>1 DEF Has
  <2> QED BY <1>5, <2>2 DEF Waiting, Busy
<1>6. ASSUME NEW h \in BagToSet(handlers), Count(h)
      PROVE  Waiting(m) \/ Busy(m) => Waiting(m)' \/ Busy(m)'
  <2> DEFINE new == IF h.m \in Encrypted THEN [at |-> "open", m |-> h.m]
                    ELSE [at |-> "store", m |-> h.m, readable |-> TRUE]
  <2>1. /\ new.m = h.m /\ handlers' = With(Without(handlers, h), new)
        /\ processQueue' = processQueue /\ lookups' = lookups /\ dbQueue' = dbQueue
    BY <1>6 DEF Count, Replace
  <2> HIDE DEF new
  <2> QED BY <1>5, <2>1
<1>7. ASSUME NEW h \in BagToSet(handlers), Open(h)
      PROVE  Waiting(m) \/ Busy(m) => Waiting(m)' \/ Busy(m)'
  <2> DEFINE new == [at |-> "store", m |-> h.m, readable |-> h.m \notin opened]
  <2>1. /\ new.m = h.m /\ handlers' = With(Without(handlers, h), new)
        /\ processQueue' = processQueue /\ lookups' = lookups /\ dbQueue' = dbQueue
    BY <1>7 DEF Open, Replace
  <2> HIDE DEF new
  <2> QED BY <1>5, <2>1
<1>8. ASSUME NEW h \in BagToSet(handlers), Store(h)
      PROVE  Waiting(m) \/ Busy(m) => Waiting(m)' \/ Busy(m)'
  <2> DEFINE s == [op |-> "has", m |-> h.m, readable |-> h.readable]
  <2>1. h \in Handler /\ h.m \in Messages /\ h.readable \in BOOLEAN
    BY <1>8, Fields DEF Store, TypeOK
  <2>2. s \in Statement /\ s.op # "last" /\ s.m = h.m
    BY <2>1 DEF Statement
  <2>3. /\ handlers' = Without(handlers, h) /\ dbQueue' = Append(dbQueue, s)
        /\ processQueue' = processQueue /\ lookups' = lookups
    BY <1>8 DEF Store
  <2> HIDE DEF s
  <2>4. /\ Asked(dbQueue, m) # {} => Asked(dbQueue', m) # {}
        /\ s.m = m => Asked(dbQueue', m) # {}
    BY <1>0, <2>2, <2>3, AskedMore
  <2>5. \A x \in BagToSet(handlers) : x # h => x \in BagToSet(handlers')
    BY <1>0, <2>3, WithoutCopy
  <2>6. Has(handlers, m) => Has(handlers', m) \/ h.m = m
    BY <2>5 DEF Has
  <2> QED BY <2>2, <2>3, <2>4, <2>6 DEF Waiting, Busy
<1> QED BY <1>1, <1>3, <1>4, <1>6, <1>7, <1>8 DEF ProcessStep

\* What the stream brings comes on top.
LEMMA ReadTakes ==
    ASSUME TypeOK, Read, NEW m
    PROVE  /\ Waiting(m) => Waiting(m)'
           /\ Head(s2c).type = "message" /\ Head(s2c).m = m => Waiting(m)'
           /\ UNCHANGED <<handlers, dbQueue, lookups, rows, interrupted>>
<1>1. /\ processQueue' = With(processQueue, Head(s2c)) /\ IsABag(processQueue)
      /\ UNCHANGED <<handlers, dbQueue, lookups, rows, interrupted>>
  BY DEF Read, TypeOK, local, store, history
<1>2. BagToSet(processQueue') = BagToSet(processQueue) \cup {Head(s2c)}
  BY <1>1, WithCopy
<1> QED BY <1>1, <1>2 DEF Waiting

LEMMA TakenKept == TypeOK /\ [Next]_vars => Taken \subseteq Taken'
<1> SUFFICES ASSUME TypeOK, [Next]_vars, NEW m \in Taken PROVE m \in Taken'
  OBVIOUS
<1> USE DEF counters, local, store, wire, server, history
<1>0. m \in Messages
  BY InHandMessages DEF Taken, Stored, TypeOK
<1>1. Waiting(m) \/ Busy(m) \/ rows[m] > 0 \/ m \in interrupted
  BY TakenIs DEF Taken, Stored
<1>2. SUFFICES Waiting(m)' \/ Busy(m)' \/ rows'[m] > 0 \/ m \in interrupted'
  <2>1. m \in UnderWay' <=> Busy(m)'
    BY DEF UnderWay, Busy, Has, Asked
  <2>2. m \in InHand' <=> Waiting(m)' \/ m \in UnderWay'
    BY DEF InHand, Waiting
  <2> QED BY <1>0, <2>1, <2>2 DEF Taken, Stored
<1>3. CASE ProcessStep
  BY <1>0, <1>1, <1>3, HandlerKeepsTaken
<1>4. CASE DatabaseStep \/ \E q \in BagToSet(lookups) : TypeFound(q)
  BY <1>0, <1>1, <1>4, StatementKeepsTaken
<1>5. ASSUME UNCHANGED <<processQueue, handlers, dbQueue, lookups, rows, interrupted>>
      PROVE  Waiting(m)' \/ Busy(m)' \/ rows'[m] > 0 \/ m \in interrupted'
  BY <1>1, <1>5 DEF Waiting, Busy
<1>6. CASE Connect \/ Teardown \/ LoseLink \/ UNCHANGED vars
  BY <1>5, <1>6 DEF Connect, Teardown, LoseLink, vars
<1>7. CASE SendAck \/ PersistState \/ Arrive \/ Expire
  BY <1>5, <1>7 DEF SendAck, PersistState, Arrive, Expire
<1>8. CASE Server
  BY <1>5, <1>8 DEF Server, SrvA, SrvResume, SrvEnable, SrvPresence, SrvArchive
<1>9. CASE Read
  BY <1>1, <1>9, ReadTakes DEF Busy
<1>10. CASE Crash
  <2>1. interrupted' = interrupted \cup InHand /\ rows' = rows
    BY <1>10 DEF Crash
  <2> QED BY <1>1, <2>1, TakenIs
<1> QED BY <1>3, <1>4, <1>6, <1>7, <1>8, <1>9, <1>10 DEF Next, Local

-----------------------------------------------------------------------------
(* The position of the client on the stream *)

LEMMA CountsType == ASSUME NEW n, Counts(n) PROVE n \in Nat
  BY FS_CardinalityType DEF Counts

LEMMA NoneUnstarted ==
    ASSUME BagToSet(processQueue) = {}
    PROVE  Counts(0)
<1>1. Unstarted = {}
  BY DEF Unstarted
<1> QED BY <1>1, FS_EmptySet DEF Counts

LEMMA OneMoreUnstarted ==
    ASSUME TypeOK, NEW e, processQueue' = With(processQueue, e), NEW n, Counts(n)
    PROVE  /\ e.type = "message" => Counts(n + 1)'
           /\ e.type # "message" => Counts(n)'
<1> DEFINE c == IF e \in BagToSet(processQueue) THEN processQueue[e] + 1 ELSE 1
<1>1. /\ BagToSet(processQueue') = BagToSet(processQueue) \cup {e}
      /\ \A x \in BagToSet(processQueue) : x # e => processQueue'[x] = processQueue[x]
      /\ processQueue'[e] = c
  BY WithCopy DEF TypeOK
<1>2. \A x \in BagToSet(processQueue) : processQueue[x] \in Nat /\ processQueue[x] > 0
  BY DEF TypeOK, IsABag, BagToSet
<1>3. /\ c \in Nat /\ 1 <= c
      /\ \A i \in Nat : i <= c <=> i = c \/ i <= c - 1
      /\ e \in BagToSet(processQueue) => c - 1 = processQueue[e]
      /\ e \notin BagToSet(processQueue) => c - 1 = 0
  BY <1>2
<1> HIDE DEF c
<1>4. Unstarted' = Unstarted \cup (IF e.type = "message" THEN {<<e, c>>} ELSE {})
  <2>1. ASSUME NEW t \in Unstarted' PROVE t \in Unstarted \/ (e.type = "message" /\ t = <<e, c>>)
    <3>1. /\ t \in (BagToSet(processQueue) \cup {e}) \X Nat
          /\ t[1].type = "message" /\ 1 <= t[2] /\ t[2] <= processQueue'[t[1]]
      BY <1>1, <2>1 DEF Unstarted
    <3>2. CASE t[1] = e
      BY <1>1, <1>3, <3>1, <3>2 DEF Unstarted
    <3>3. CASE t[1] # e
      BY <1>1, <3>1, <3>3 DEF Unstarted
    <3> QED BY <3>2, <3>3
  <2>2. ASSUME NEW t \in Unstarted PROVE t \in Unstarted'
    <3>1. /\ t \in BagToSet(processQueue) \X Nat
          /\ t[1].type = "message" /\ 1 <= t[2] /\ t[2] <= processQueue[t[1]]
      BY <2>2 DEF Unstarted
    <3>2. t[2] <= processQueue'[t[1]]
      BY <1>1, <1>2, <1>3, <3>1
    <3> QED BY <1>1, <3>1, <3>2 DEF Unstarted
  <2>3. e.type = "message" => <<e, c>> \in Unstarted'
    BY <1>1, <1>3 DEF Unstarted
  <2> QED BY <2>1, <2>2, <2>3
<1>5. <<e, c>> \notin Unstarted
  BY <1>3 DEF Unstarted
<1>6. e.type = "message" => Counts(n + 1)'
  <2> SUFFICES ASSUME e.type = "message" PROVE Counts(n + 1)'
    OBVIOUS
  <2>1. /\ IsFiniteSet(Unstarted \cup {<<e, c>>})
        /\ Cardinality(Unstarted \cup {<<e, c>>}) = n + 1
    BY <1>5, FS_AddElement DEF Counts
  <2> QED BY <1>4, <2>1 DEF Counts
<1>7. e.type # "message" => Counts(n)'
  BY <1>4 DEF Counts
<1> QED BY <1>6, <1>7

LEMMA OneLessUnstarted ==
    ASSUME TypeOK, NEW e \in BagToSet(processQueue), processQueue' = Without(processQueue, e),
           NEW n, Counts(n)
    PROVE  /\ e.type = "message" => Counts(n - 1)' /\ n >= 1
           /\ e.type # "message" => Counts(n)'
<1> DEFINE c == processQueue[e]
<1>1. /\ BagToSet(processQueue') \subseteq BagToSet(processQueue)
      /\ \A x \in BagToSet(processQueue) : x # e => /\ x \in BagToSet(processQueue')
                                                    /\ processQueue'[x] = processQueue[x]
      /\ c = 1 => e \notin BagToSet(processQueue')
      /\ c # 1 => e \in BagToSet(processQueue') /\ processQueue'[e] = c - 1
  BY WithoutCopy DEF TypeOK
<1>2. c \in Nat /\ 1 <= c /\ \A i \in Nat : i <= c - 1 <=> i <= c /\ i # c
  BY DEF TypeOK, IsABag, BagToSet
<1>3. Unstarted' = Unstarted \ (IF e.type = "message" THEN {<<e, c>>} ELSE {})
  <2>1. ASSUME NEW t \in Unstarted' PROVE t \in Unstarted /\ t # <<e, c>>
    <3>1. /\ t \in BagToSet(processQueue') \X Nat
          /\ t[1].type = "message" /\ 1 <= t[2] /\ t[2] <= processQueue'[t[1]]
      BY <2>1 DEF Unstarted
    <3>2. CASE t[1] = e
      BY <1>1, <1>2, <3>1, <3>2 DEF Unstarted
    <3>3. CASE t[1] # e
      BY <1>1, <3>1, <3>3 DEF Unstarted
    <3> QED BY <3>2, <3>3
  <2>2. ASSUME NEW t \in Unstarted, t # <<e, c>> \/ e.type # "message" PROVE t \in Unstarted'
    <3>1. /\ t \in BagToSet(processQueue) \X Nat
          /\ t[1].type = "message" /\ 1 <= t[2] /\ t[2] <= processQueue[t[1]]
      BY <2>2 DEF Unstarted
    <3>2. CASE t[1] = e
      <4>1. t[2] <= c - 1 /\ c # 1
        BY <1>2, <2>2, <3>1, <3>2
      <4> QED BY <1>1, <3>1, <3>2, <4>1 DEF Unstarted
    <3>3. CASE t[1] # e
      BY <1>1, <3>1, <3>3 DEF Unstarted
    <3> QED BY <3>2, <3>3
  <2> QED BY <2>1, <2>2
<1>4. e.type = "message" => <<e, c>> \in Unstarted
  BY <1>2 DEF Unstarted
<1>5. e.type = "message" => Counts(n - 1)' /\ n >= 1
  <2> SUFFICES ASSUME e.type = "message" PROVE Counts(n - 1)' /\ n >= 1
    OBVIOUS
  <2>1. /\ IsFiniteSet(Unstarted \ {<<e, c>>})
        /\ Cardinality(Unstarted \ {<<e, c>>}) = n - 1
    BY <1>4, FS_RemoveElement DEF Counts
  <2>2. n - 1 \in Nat /\ n \in Nat
    BY <2>1, FS_CardinalityType, CountsType
  <2> QED BY <1>3, <2>1, <2>2 DEF Counts
<1>6. e.type # "message" => Counts(n)'
  BY <1>3 DEF Counts
<1> QED BY <1>5, <1>6

LEMMA LeadType ==
    ASSUME TypeOK, Negotiated
    PROVE  /\ Lead \in {0, 1} /\ Lead <= Len(s2c)
           /\ \A k \in DOMAIN s2c : k > Lead <=> ~Answer(s2c[k])
           /\ Len(s2c) \in Nat /\ Len(srv.queue) \in Nat /\ srv.acked \in Nat
<1>1. s2c \in Seq(Incoming) /\ srv.queue \in Seq(Stanza) /\ srv.acked \in Nat
  BY DEF TypeOK
<1>2. /\ DOMAIN s2c = 1 .. Len(s2c) /\ Len(s2c) \in Nat /\ Len(srv.queue) \in Nat
  BY <1>1
<1>3. \A k \in DOMAIN s2c : Answer(s2c[k]) => k = 1
  BY DEF Negotiated, OneAtATime
<1>4. CASE \E k \in DOMAIN s2c : Answer(s2c[k])
  <2>1. Lead = 1 /\ 1 \in DOMAIN s2c /\ Answer(s2c[1])
    BY <1>3, <1>4 DEF Lead
  <2>2. \A k \in DOMAIN s2c : k > 1 <=> k # 1
    BY <1>2
  <2> QED BY <1>1, <1>2, <1>3, <2>1, <2>2
<1>5. CASE \A k \in DOMAIN s2c : ~Answer(s2c[k])
  <2>1. Lead = 0
    BY <1>5 DEF Lead
  <2> QED BY <1>1, <1>2, <1>5, <2>1
<1> QED BY <1>4, <1>5

\* Where the stream and the session stay as they are, the place does too.
LEMMA SameStream ==
    ASSUME UNCHANGED <<s2c, srv, link>>, Taken \subseteq Taken', NEW r, Along(r), Had(r)
    PROVE  Along(r)' /\ Had(r)'
<1>1. Lead' = Lead
  BY DEF Lead
<1> QED BY <1>1 DEF Along, Had

\* What is lost on the stream comes again with the next one.
LEMMA ShorterStream ==
    ASSUME TypeOK, Negotiated, NEW n \in 0 .. Len(s2c), s2c' = SubSeq(s2c, 1, n),
           srv'.queue = srv.queue, ~ (link' /\ srv'.attached), Taken \subseteq Taken',
           NEW r \in 0 .. Len(srv.queue), Along(r), Had(r)
    PROVE  Along(r)' /\ Had(r)'
<1>1. s2c \in Seq(Incoming) /\ Len(s2c) \in Nat /\ Len(srv.queue) \in Nat /\ Lead \in {0, 1}
  BY LeadType DEF TypeOK
<1>2. DOMAIN s2c' = 1 .. n /\ Len(s2c') = n /\ \A k \in 1 .. n : k \in DOMAIN s2c /\ s2c'[k] = s2c[k]
  BY <1>1
<1>3. n > 0 => Lead' = Lead
  <2>1. n > 0 => 1 \in DOMAIN s2c'
    BY <1>2
  <2>2. \A k \in DOMAIN s2c : Answer(s2c[k]) => k = 1
    BY DEF Negotiated, OneAtATime
  <2> QED BY <1>2, <2>1, <2>2 DEF Lead
<1>4. n = 0 => Lead' = 0
  BY <1>2 DEF Lead
<1>5. r + Len(s2c') - Lead' <= Len(srv'.queue)
  BY <1>1, <1>2, <1>3, <1>4 DEF Along
<1>6. Follows(s2c', srv'.queue, Lead', r)
  BY <1>2, <1>3 DEF Along, Follows
<1>7. Had(r)'
  BY DEF Had
<1> QED BY <1>5, <1>6, <1>7 DEF Along

\* What follows at the end of the queue follows at the end of the stream.
LEMMA Carried ==
    ASSUME NEW S, NEW q \in Seq(S), NEW s \in Seq(S), NEW t \in Seq(S),
           NEW l \in Nat, NEW r \in Nat,
           r + Len(s) - l = Len(q),
           Follows(s, q, l, r)
    PROVE  Follows(s \o t, q \o t, l, r)
<1>1. /\ Len(s) \in Nat /\ Len(q) \in Nat /\ Len(t) \in Nat
      /\ DOMAIN s = 1 .. Len(s)
  OBVIOUS
<1>2. /\ Len(q \o t) = Len(q) + Len(t)
      /\ \A k \in 1 .. Len(q) + Len(t) : (q \o t)[k] =
            IF k <= Len(q) THEN q[k] ELSE t[k - Len(q)]
  BY ConcatProperties, Zenon
<1>3. /\ Len(s \o t) = Len(s) + Len(t)
      /\ \A k \in 1 .. Len(s) + Len(t) : (s \o t)[k] =
            IF k <= Len(s) THEN s[k] ELSE t[k - Len(s)]
  <2>1. s \in Seq(S) /\ t \in Seq(S)
    OBVIOUS
  <2> QED BY ONLY <2>1, ConcatProperties, Zenon
<1>4. DOMAIN (s \o t) = 1 .. Len(s) + Len(t)
  <2>1. s \o t \in Seq(S)
    OBVIOUS
  <2> QED BY <1>3, <2>1
<1> SUFFICES ASSUME NEW k \in 1 .. Len(s) + Len(t), k > l
             PROVE  (s \o t)[k] = (q \o t)[r + k - l]
  BY <1>4 DEF Follows
<1>5. r + k - l \in 1 .. Len(q) + Len(t) /\ r + k - l - Len(q) = k - Len(s)
  <2>1. k \in Int /\ k >= 1 /\ k <= Len(s) + Len(t)
    BY <1>1
  <2>2. r \in Nat /\ l \in Nat /\ k > l /\ r + Len(s) - l = Len(q)
    OBVIOUS
  <2>3. Len(s) \in Int /\ Len(q) \in Int /\ Len(t) \in Int
    BY <1>1
  <2> QED BY ONLY <2>1, <2>2, <2>3
<1>6. CASE k <= Len(s)
  <2>1. k \in DOMAIN s
    BY <1>1, <1>6
  <2>2. s[k] = q[r + k - l]
    BY <2>1 DEF Follows
  <2>3. (s \o t)[k] = s[k]
    BY <1>3, <1>6
  <2>4. r + k - l <= Len(q)
    BY <1>1, <1>5, <1>6
  <2>5. (q \o t)[r + k - l] = q[r + k - l]
    BY <1>2, <1>5, <2>4
  <2> QED BY <2>2, <2>3, <2>5
<1>7. CASE ~ (k <= Len(s))
  <2>1. (s \o t)[k] = t[k - Len(s)]
    BY <1>3, <1>7
  <2>2. ~ (r + k - l <= Len(q))
    BY <1>1, <1>5, <1>7
  <2>3. (q \o t)[r + k - l] = t[r + k - l - Len(q)]
    BY <1>2, <1>5, <2>2
  <2> QED BY <1>5, <2>1, <2>3
<1> QED BY <1>6, <1>7

LEMMA LongerStream ==
    ASSUME TypeOK, Negotiated, NEW t \in Seq(Stanza), srv'.queue = srv.queue \o t,
           link /\ srv.attached => s2c' = s2c \o t,
           ~ (link /\ srv.attached) => s2c' = s2c,
           link' = link, srv'.attached = srv.attached, Taken \subseteq Taken',
           NEW r \in 0 .. Len(srv.queue), Along(r), Had(r)
    PROVE  Along(r)' /\ Had(r)' /\ r \in 0 .. Len(srv'.queue)
<1>1. /\ s2c \in Seq(Incoming) /\ Len(s2c) \in Nat /\ Len(srv.queue) \in Nat /\ Len(t) \in Nat
      /\ Lead \in {0, 1} /\ Lead \in Nat /\ Lead <= Len(s2c)
      /\ r \in Nat /\ r <= Len(srv.queue)
      /\ DOMAIN s2c = 1 .. Len(s2c)
  <2>1. s2c \in Seq(Incoming) /\ srv.queue \in Seq(Stanza)
    BY DEF TypeOK
  <2>2. Len(s2c) \in Nat /\ Len(srv.queue) \in Nat /\ Len(t) \in Nat /\ DOMAIN s2c = 1 .. Len(s2c)
    BY ONLY <2>1, t \in Seq(Stanza)
  <2>3. Lead \in {0, 1} /\ Lead \in Nat /\ Lead <= Len(s2c)
    BY LeadType
  <2>4. r \in Nat /\ r <= Len(srv.queue)
    BY ONLY <2>2, r \in 0 .. Len(srv.queue)
  <2> QED BY <2>1, <2>2, <2>3, <2>4
<1>2. t \in Seq(Incoming) /\ srv.queue \in Seq(Incoming) /\ srv.queue \in Seq(Stanza)
  <2>1. Stanza \subseteq Incoming
    BY DEF Incoming
  <2>2. srv.queue \in Seq(Stanza)
    BY DEF TypeOK
  <2> QED BY <2>1, <2>2
<1>3. /\ Len(srv.queue \o t) = Len(srv.queue) + Len(t)
      /\ \A k \in 1 .. Len(srv.queue) + Len(t) : (srv.queue \o t)[k] =
            IF k <= Len(srv.queue) THEN srv.queue[k] ELSE t[k - Len(srv.queue)]
  BY <1>2, ConcatProperties, Zenon
<1>4. /\ Len(s2c \o t) = Len(s2c) + Len(t) /\ s2c \o t \in Seq(Incoming)
      /\ \A k \in 1 .. Len(s2c) + Len(t) : (s2c \o t)[k] =
            IF k <= Len(s2c) THEN s2c[k] ELSE t[k - Len(s2c)]
  <2>1. s2c \in Seq(Incoming) /\ t \in Seq(Incoming)
    BY <1>1, <1>2
  <2> QED BY ONLY <2>1, ConcatProperties, Zenon
<1>5. Len(srv'.queue) = Len(srv.queue) + Len(t) /\ r \in 0 .. Len(srv'.queue)
  <2>1. Len(srv'.queue) = Len(srv.queue) + Len(t)
    BY <1>3
  <2> QED BY <1>1, <2>1
<1>6. \A k \in 1 .. Len(srv.queue) : srv'.queue[k] = srv.queue[k]
  <2>1. \A k \in 1 .. Len(srv.queue) : (srv.queue \o t)[k] = srv.queue[k]
    BY <1>1, <1>3
  <2> QED BY <2>1
<1>7. Had(r)'
  BY <1>1, <1>6 DEF Had
<1>8. CASE link /\ srv.attached
  <2>1. s2c' = s2c \o t
    BY <1>8
  <2>2. Lead' = Lead
    <3>1. \A k \in DOMAIN s2c : k \in DOMAIN (s2c \o t) /\ (s2c \o t)[k] = s2c[k]
      BY <1>1, <1>4
    <3>2. \A k \in DOMAIN (s2c \o t) :
             (k \in DOMAIN s2c /\ (s2c \o t)[k] = s2c[k]) \/ ~Answer((s2c \o t)[k])
      BY <2>1, StreamExtended
    <3>3. (\E k \in DOMAIN (s2c \o t) : Answer((s2c \o t)[k])) <=> \E k \in DOMAIN s2c : Answer(s2c[k])
      BY <3>1, <3>2
    <3> QED BY <2>1, <3>3 DEF Lead
  <2>3. r + Len(s2c) - Lead = Len(srv.queue)
    BY <1>8 DEF Along
  <2>4. Len(s2c') = Len(s2c) + Len(t)
    BY <1>4, <2>1
  <2>5. r + Len(s2c') - Lead' = Len(srv'.queue)
    <3>1. r \in Nat /\ Lead \in Nat /\ Len(s2c) \in Nat /\ Len(t) \in Nat /\ Len(srv.queue) \in Nat
      BY <1>1
    <3>2. r + (Len(s2c) + Len(t)) - Lead = (r + Len(s2c) - Lead) + Len(t)
      BY ONLY <3>1
    <3>3. r + (Len(s2c) + Len(t)) - Lead = Len(srv.queue) + Len(t)
      BY ONLY <2>3, <3>2
    <3> QED BY ONLY <1>5, <2>2, <2>4, <3>3
  <2>6. Follows(s2c \o t, srv.queue \o t, Lead, r)
    BY <1>1, <1>2, <2>3, Carried DEF Along
  <2>7. Follows(s2c', srv'.queue, Lead', r)
    BY <2>1, <2>2, <2>6
  <2>8. r + Len(s2c') - Lead' <= Len(srv'.queue)
    BY <1>1, <1>5, <2>5
  <2>9. Along(r)'
    BY <2>5, <2>7, <2>8 DEF Along
  <2> QED BY <1>5, <1>7, <2>9
<1>9. CASE ~ (link /\ srv.attached)
  <2>1. s2c' = s2c /\ Lead' = Lead
    BY <1>9 DEF Lead
  <2>2. r + Len(s2c) - Lead <= Len(srv.queue)
    BY DEF Along
  <2>3. r + Len(s2c') - Lead' <= Len(srv'.queue)
    BY ONLY <1>1, <1>5, <2>1, <2>2
  <2>4. ASSUME NEW k \in DOMAIN s2c, k > Lead PROVE s2c[k] = srv'.queue[r + k - Lead]
    <3>1. k \in 1 .. Len(s2c) /\ s2c[k] = srv.queue[r + k - Lead]
      BY <1>1, <2>4 DEF Along, Follows
    <3>2. /\ r \in Int /\ r >= 0 /\ k \in Int /\ k > Lead /\ k <= Len(s2c) /\ Lead \in Int
          /\ Len(s2c) \in Int /\ Len(srv.queue) \in Int
      BY <1>1, <2>4, <3>1
    <3>3. r + k - Lead \in 1 .. Len(srv.queue)
      BY ONLY <2>2, <3>2
    <3> QED BY ONLY <1>6, <3>1, <3>3
  <2>5. Along(r)'
    BY <1>9, <2>1, <2>3, <2>4 DEF Along, Follows
  <2> QED BY <1>5, <1>7, <2>5
<1> QED BY <1>8, <1>9

\* Where the stream and the session stay as they are, only the counters matter.
LEMMA SamePosition ==
    ASSUME TypeOK, UNCHANGED <<s2c, srv, link>>, Taken \subseteq Taken',
           NEW n \in Nat, srv.valid => \E r \in 0 .. Len(srv.queue) : Placed(r, n),
           NEW k \in Nat, Counts(k)', \A u \in Nat : Within(u, n) => Within(u, k)'
    PROVE  InPosition'
<1>1. ASSUME srv.valid PROVE \E r \in 0 .. Len(srv'.queue) : Placed(r, k)'
  <2>1. PICK r \in 0 .. Len(srv.queue) : Along(r) /\ Had(r) /\ Within(srv.acked + r, n)
    BY <1>1 DEF Placed
  <2>2. Along(r)' /\ Had(r)'
    BY <2>1, SameStream
  <2>3. srv.acked + r \in Nat
    BY DEF TypeOK
  <2>4. Within(srv.acked + r, k)'
    BY <2>1, <2>3
  <2>5. Placed(r, k)'
    BY <2>2, <2>4 DEF Placed
  <2> QED BY <2>5
<1> QED BY <1>1 DEF InPosition

LEMMA SameCounters ==
    ASSUME NEW u \in Nat, NEW n \in Nat, Within(u, n), srv'.sid = srv.sid,
           UNCHANGED <<lastHandled, streamID, persisted>>,
           \A h \in BagToSet(handlers') : h.at = "count" => h \in BagToSet(handlers),
           \A e \in ToSet(c2s') : e.type = "a" => e \in ToSet(c2s)
    PROVE  Within(u, n)'
  BY DEF Within

LEMMA SameUnstarted == ASSUME processQueue' = processQueue, NEW n, Counts(n) PROVE Counts(n)'
  BY DEF Counts, Unstarted

\* What Send adds
LEMMA SentOnTop ==
    ASSUME TypeOK, NEW e \in Outgoing, Send(e)
    PROVE  ToSet(c2s') \subseteq ToSet(c2s) \cup {e}
<1>1. c2s \in Seq(Outgoing)
  BY DEF TypeOK
<1>2. ToSet(Append(c2s, e)) = ToSet(c2s) \cup {e}
  BY <1>1, AppendedTo
<1> QED BY <1>2 DEF Send

LEMMA AsidePosition ==
    ASSUME TypeOK, InPosition, Taken \subseteq Taken', Aside
    PROVE  InPosition'
<1>1. PICK n \in Nat : Counts(n) /\ (srv.valid => \E r \in 0 .. Len(srv.queue) : Placed(r, n))
  BY DEF InPosition
<1>2. Counts(n)'
  BY <1>1, SameUnstarted DEF Aside
<1>3. ASSUME NEW u \in Nat, Within(u, n) PROVE Within(u, n)'
  BY <1>3 DEF Aside, Within
<1> QED BY <1>1, <1>2, <1>3, SamePosition DEF Aside

LEMMA SendersPosition ==
    ASSUME TypeOK, Negotiated, InPosition, Taken \subseteq Taken',
           SendAck \/ PersistState \/ QueryArchive
    PROVE  InPosition'
<1> USE DEF counters, local, store, wire, server, history
<1>1. PICK n \in Nat : Counts(n) /\ (srv.valid => \E r \in 0 .. Len(srv.queue) : Placed(r, n))
  BY DEF InPosition
<1>2. Counts(n)' /\ UNCHANGED <<s2c, srv, link, handlers, lastHandled, streamID>>
  <2>1. UNCHANGED <<s2c, srv, link, handlers, lastHandled, streamID, processQueue>>
    BY DEF SendAck, PersistState, QueryArchive
  <2> QED BY <1>1, <2>1, SameUnstarted
<1>3. SUFFICES ASSUME NEW u \in Nat, Within(u, n) PROVE Within(u, n)'
  BY <1>1, <1>2, <1>3, SamePosition
<1>4. lastHandled \in Nat
  BY DEF TypeOK
<1>5. CASE SendAck
  <2> DEFINE e == [type |-> "a", h |-> lastHandled]
  <2>1. Send(e) /\ persisted' = persisted /\ accountState = "Bound" /\ link
    BY <1>5 DEF SendAck
  <2>2. e \in Outgoing /\ e.h = lastHandled
    BY <1>4 DEF Outgoing
  <2> HIDE DEF e
  <2>3. ToSet(c2s') \subseteq ToSet(c2s) \cup {e}
    BY <2>1, <2>2, SentOnTop
  <2>4. streamID = srv.sid
    BY <2>1 DEF Negotiated, Attached
  <2>5. lastHandled <= u
    <3>1. lastHandled + n <= u
      BY <1>3, <2>4 DEF Within
    <3> QED BY <1>4, <3>1
  <2> QED BY <1>2, <1>3, <2>1, <2>2, <2>3, <2>5 DEF Within
<1>6. CASE PersistState
  <2>1. persisted'.lastHandled = lastHandled /\ persisted'.streamID = streamID /\ c2s' = c2s
    BY <1>6 DEF PersistState, Saved
  <2>2. streamID = srv.sid => lastHandled <= u
    <3>1. streamID = srv.sid => lastHandled + n <= u
      BY <1>3 DEF Within
    <3> QED BY <1>4, <3>1
  <2> QED BY <1>2, <1>3, <2>1, <2>2 DEF Within
<1>7. CASE QueryArchive
  <2>1. persisted' = persisted /\ \A e \in ToSet(c2s') : e.type = "a" => e \in ToSet(c2s)
    <3> DEFINE stored == {m \in Messages : rows[m] > 0}
               last == CHOOSE m \in stored : \A n_1 \in stored : n_1 <= m
               e == [type |-> "mam", after |-> last]
    <3>1. /\ persisted' = persisted
          /\ IF stored = {} THEN UNCHANGED c2s ELSE Send(e)
      BY <1>7 DEF QueryArchive
    <3>2. e.type = "mam"
      OBVIOUS
    <3>3. stored # {} => e \in Outgoing
      <4> SUFFICES ASSUME stored # {} PROVE e \in Outgoing
        OBVIOUS
      <4>1. stored \subseteq 1 .. Newest /\ Newest \in Nat
        BY MessageAssumption DEF Messages
      <4> HIDE DEF stored
      <4>2. \E m \in stored : \A n_1 \in stored : n_1 <= m
        BY <4>1, Greatest
      <4>3. last \in stored
        BY <4>2
      <4> HIDE DEF last
      <4>4. last \in Nat
        BY <4>1, <4>3
      <4> QED BY <4>4 DEF Outgoing
    <3> HIDE DEF e, last, stored
    <3>4. CASE stored = {}
      BY <3>1, <3>4
    <3>5. CASE stored # {}
      BY <3>1, <3>2, <3>3, <3>5, SentOnTop
    <3> QED BY <3>4, <3>5
  <2> QED BY <1>2, <1>3, <2>1, SameCounters
<1> QED BY <1>5, <1>6, <1>7

\* A session begins, or goes on, with nothing to count but what follows; a
\* handler takes the counter as it is, and writes what it took plus one.
LEMMA HandlersPosition ==
    ASSUME TypeOK, Negotiated, InPosition, Taken \subseteq Taken',
           \/ \E e \in BagToSet(processQueue) :
                 HandleEnabled(e) \/ HandleResumed(e) \/ HandleFailed(e) \/ HandleMessage(e)
           \/ \E h \in BagToSet(handlers) : Count(h)
    PROVE  InPosition'
<1> USE DEF counters, local, store, wire, server, history
<1>0. PICK n \in Nat : Counts(n) /\ (srv.valid => \E r \in 0 .. Len(srv.queue) : Placed(r, n))
  BY DEF InPosition
<1>1. /\ lastHandled \in Nat /\ srv.sid \in Nat /\ Nil \notin Nat
      /\ BagToSet(processQueue) \subseteq Incoming
      /\ \A h \in BagToSet(handlers) : h.at = "count" => h.seen \in Number
  BY NoNumber, Fields DEF TypeOK
<1>a. ASSUME NEW e \in Outgoing, e.type # "a", Send(e)
      PROVE  \A f \in ToSet(c2s') : f.type = "a" => f \in ToSet(c2s)
  BY <1>a, SentOnTop
<1>2. [type |-> "presence"] \in Outgoing /\ [type |-> "enable"] \in Outgoing
  BY DEF Outgoing
<1>b. ASSUME NEW e \in BagToSet(processQueue), e.type # "message",
             processQueue' = Without(processQueue, e)
      PROVE  Counts(n)'
  BY <1>0, <1>b, OneLessUnstarted
<1>3. ASSUME NEW e \in BagToSet(processQueue), HandleEnabled(e) PROVE InPosition'
  <2>1. /\ e.type = "enabled" /\ lastHandled' = 0 /\ streamID' = e.sid
        /\ persisted'.lastHandled = 0
        /\ processQueue' = Without(processQueue, e) /\ Send([type |-> "presence"])
        /\ UNCHANGED <<s2c, srv, link, handlers>>
    BY <1>3 DEF HandleEnabled, Take, Saved
  <2>2. \A h \in BagToSet(handlers) : h.at = "count" => h.seen = Nil
    BY <2>1 DEF Negotiated, Answered, Pending, Answer
  <2>3. \A f \in ToSet(c2s') : f.type = "a" => f \in ToSet(c2s)
    BY <1>2, <1>a, <2>1
  <2>4. Counts(n)'
    BY <1>b, <2>1
  <2>5. ASSUME NEW u \in Nat, Within(u, n) PROVE Within(u, n)'
    <3>1. n <= u /\ 0 + n <= u /\ 0 <= u
      BY <2>5 DEF Within
    <3> QED BY <2>1, <2>2, <2>3, <2>5, <3>1 DEF Within
  <2> QED BY <1>0, <2>1, <2>4, <2>5, SamePosition
<1>4. ASSUME NEW e \in BagToSet(processQueue), HandleResumed(e) PROVE InPosition'
  <2>1. /\ e.type = "resumed" /\ Send([type |-> "presence"])
        /\ processQueue' = Without(processQueue, e)
        /\ UNCHANGED <<lastHandled, streamID, persisted, s2c, srv, link, handlers>>
    BY <1>4 DEF HandleResumed, Take
  <2>2. \A f \in ToSet(c2s') : f.type = "a" => f \in ToSet(c2s)
    BY <1>2, <1>a, <2>1
  <2>3. Counts(n)'
    BY <1>b, <2>1
  <2>4. ASSUME NEW u \in Nat, Within(u, n) PROVE Within(u, n)'
    BY <2>1, <2>2, <2>4, SameCounters
  <2> QED BY <1>0, <2>1, <2>3, <2>4, SamePosition
<1>5. ASSUME NEW e \in BagToSet(processQueue), HandleFailed(e) PROVE InPosition'
  <2>1. /\ e.type = "failed" /\ streamID' = Nil /\ persisted'.streamID = Nil
        /\ Send([type |-> "enable"]) /\ processQueue' = Without(processQueue, e)
        /\ UNCHANGED <<s2c, srv, link, handlers>>
    BY <1>5 DEF HandleFailed, Take, Saved
  <2>2. \A f \in ToSet(c2s') : f.type = "a" => f \in ToSet(c2s)
    BY <1>2, <1>a, <2>1
  <2>3. Counts(n)'
    BY <1>b, <2>1
  <2>4. srv.sid # Nil
    BY <1>1
  <2>5. ASSUME NEW u \in Nat, Within(u, n) PROVE Within(u, n)'
    BY <2>1, <2>2, <2>4, <2>5 DEF Within
  <2> QED BY <1>0, <2>1, <2>3, <2>5, SamePosition
<1>6. ASSUME NEW e \in BagToSet(processQueue), HandleMessage(e) PROVE InPosition'
  <2> DEFINE h == [at |-> "count", m |-> e.m,
                   seen |-> IF accountState = "Bound" THEN lastHandled ELSE Nil]
  <2>1. /\ e.type = "message" /\ handlers' = With(handlers, h)
        /\ processQueue' = Without(processQueue, e)
        /\ UNCHANGED <<lastHandled, streamID, persisted, s2c, c2s, srv, link>>
    BY <1>6 DEF HandleMessage, Take
  <2>2. h.seen = lastHandled \/ h.seen = Nil
    OBVIOUS
  <2> HIDE DEF h
  <2>3. BagToSet(handlers') = BagToSet(handlers) \cup {h}
    BY <2>1, WithCopy DEF TypeOK
  <2>4. Counts(n - 1)' /\ n >= 1
    BY <1>0, <2>1, OneLessUnstarted
  <2>5. n - 1 \in Nat
    BY <2>4
  <2>6. ASSUME NEW u \in Nat, Within(u, n) PROVE Within(u, n - 1)'
    <3>1. n - 1 <= u
      BY <2>6 DEF Within
    <3>2. streamID = srv.sid => lastHandled + n <= u
      BY <2>6 DEF Within
    <3>3. streamID = srv.sid => lastHandled + (n - 1) <= u /\ lastHandled + 1 + (n - 1) <= u
      BY <1>1, <3>2
    <3>4. ASSUME streamID = srv.sid, NEW g \in BagToSet(handlers'), g.at = "count", g.seen # Nil
          PROVE  g.seen + 1 + (n - 1) <= u
      <4>1. CASE g = h
        BY <2>2, <3>3, <3>4, <4>1
      <4>2. CASE g \in BagToSet(handlers)
        <5>1. g.seen + 1 + n <= u
          BY <2>6, <3>4, <4>2 DEF Within
        <5>2. g.seen \in Nat
          BY <1>1, <3>4, <4>2 DEF Number
        <5> QED BY <5>1, <5>2
      <4> QED BY <2>3, <3>4, <4>1, <4>2
    <3> QED BY <2>1, <2>6, <3>1, <3>3, <3>4 DEF Within
  <2> QED BY <1>0, <2>1, <2>4, <2>5, <2>6, SamePosition
<1>7. ASSUME NEW h \in BagToSet(handlers), Count(h) PROVE InPosition'
  <2> DEFINE new == IF h.m \in Encrypted THEN [at |-> "open", m |-> h.m]
                    ELSE [at |-> "store", m |-> h.m, readable |-> TRUE]
  <2>1. /\ h.at = "count" /\ handlers' = With(Without(handlers, h), new)
        /\ lastHandled' = IF h.seen = Nil THEN lastHandled ELSE h.seen + 1
        /\ UNCHANGED <<streamID, persisted, processQueue, s2c, c2s, srv, link>>
    BY <1>7 DEF Count, Replace
  <2>2. new.at # "count"
    OBVIOUS
  <2> HIDE DEF new
  <2>3. \A g \in BagToSet(handlers') : g.at = "count" => g \in BagToSet(handlers)
    <3>1. BagToSet(handlers') \subseteq BagToSet(handlers) \cup {new}
      BY <2>1, ReplacedCopy DEF TypeOK
    <3> QED BY <2>2, <3>1
  <2>4. Counts(n)'
    BY <1>0, <2>1, SameUnstarted
  <2>5. ASSUME NEW u \in Nat, Within(u, n) PROVE Within(u, n)'
    <3>1. streamID = srv.sid => lastHandled' + n <= u
      BY <2>1, <2>5 DEF Within
    <3> QED BY <2>1, <2>3, <2>5, <3>1 DEF Within
  <2> QED BY <1>0, <2>1, <2>4, <2>5, SamePosition
<1> QED BY <1>3, <1>4, <1>5, <1>6, <1>7

\* Where the stream is cut, what it brought last comes again.
LEMMA ShorterPosition ==
    ASSUME TypeOK, Negotiated, NEW c \in 0 .. Len(s2c), s2c' = SubSeq(s2c, 1, c),
           srv'.queue = srv.queue, srv'.acked = srv.acked, srv'.valid = srv.valid,
           ~ (link' /\ srv'.attached), Taken \subseteq Taken',
           NEW n \in Nat, srv.valid => \E r \in 0 .. Len(srv.queue) : Placed(r, n),
           NEW k \in Nat, Counts(k)', \A u \in Nat : Within(u, n) => Within(u, k)'
    PROVE  InPosition'
<1>1. ASSUME srv.valid PROVE \E r \in 0 .. Len(srv'.queue) : Placed(r, k)'
  <2>1. PICK r \in 0 .. Len(srv.queue) : Along(r) /\ Had(r) /\ Within(srv.acked + r, n)
    BY <1>1 DEF Placed
  <2>2. Along(r)' /\ Had(r)'
    BY <2>1, ShorterStream
  <2>3. srv.acked + r \in Nat
    BY DEF TypeOK
  <2>4. Within(srv.acked + r, k)'
    BY <2>1, <2>3
  <2>5. Placed(r, k)'
    BY <2>2, <2>4 DEF Placed
  <2> QED BY <2>5
<1> QED BY <1>1 DEF InPosition

LEMMA ConnectionPosition ==
    ASSUME TypeOK, Negotiated, InPosition, Taken \subseteq Taken',
           Connect \/ Teardown \/ LoseLink \/ Crash
    PROVE  InPosition'
<1> USE DEF counters, local, store, wire, server, history
<1>0. PICK n \in Nat : Counts(n) /\ (srv.valid => \E r \in 0 .. Len(srv.queue) : Placed(r, n))
  BY DEF InPosition
<1>1. /\ s2c \in Seq(Incoming) /\ Len(s2c) \in Nat /\ 0 \in 0 .. Len(s2c) /\ SubSeq(s2c, 1, 0) = <<>>
      /\ srv \in [sid : Nat, valid : BOOLEAN, attached : BOOLEAN, acked : Nat, queue : Seq(Stanza)]
      /\ srv.sid # Nil
      /\ persisted.lastHandled \in Nat
  BY NoNumber DEF TypeOK
<1>2. BagToSet(EmptyBag) = {} /\ ToSet(<<>>) = {}
  BY NoCopies DEF ToSet
<1>3. CASE Connect
  <2> DEFINE e == IF persisted.streamID # Nil
                  THEN [type |-> "resume", previd |-> persisted.streamID,
                        h |-> persisted.lastHandled]
                  ELSE [type |-> "enable"]
  <2>1. /\ streamID' = persisted.streamID /\ lastHandled' = persisted.lastHandled
        /\ persisted' = persisted /\ s2c' = <<>> /\ c2s' = <<e>>
        /\ processQueue' = EmptyBag /\ handlers' = EmptyBag
    BY <1>3 DEF Connect, ReadState
  <2>2. /\ srv'.attached = FALSE /\ srv'.sid = srv.sid /\ srv'.valid = srv.valid
        /\ srv'.acked = srv.acked /\ srv'.queue = srv.queue
    BY <1>1, <1>3 DEF Connect
  <2>3. e.type # "a"
    OBVIOUS
  <2> HIDE DEF e
  <2>4. \A f \in ToSet(c2s') : f.type # "a"
    <3>1. ToSet(c2s') = {e}
      BY <2>1 DEF ToSet
    <3> QED BY <2>3, <3>1
  <2>5. Counts(0)'
    <3>1. Unstarted' = {}
      BY <1>2, <2>1 DEF Unstarted
    <3> QED BY <3>1, FS_EmptySet DEF Counts
  <2>6. ASSUME NEW u \in Nat, Within(u, n) PROVE Within(u, 0)'
    <3>1. persisted.streamID = srv.sid => persisted.lastHandled <= u
      BY <2>6 DEF Within
    <3>2. persisted.streamID = srv.sid => persisted.lastHandled + 0 <= u
      BY <1>1, <3>1
    <3> QED BY <1>2, <2>1, <2>2, <2>4, <3>1, <3>2 DEF Within
  <2> QED BY <1>0, <1>1, <2>1, <2>2, <2>5, <2>6, ShorterPosition
<1>4. ASSUME NEW c \in 0 .. Len(s2c), s2c' = SubSeq(s2c, 1, c), link' = FALSE, c2s' = <<>>,
             UNCHANGED <<lastHandled, streamID, persisted, processQueue, handlers, srv>>
      PROVE  InPosition'
  <2>1. Counts(n)'
    BY <1>0, <1>4, SameUnstarted
  <2>2. ASSUME NEW u \in Nat, Within(u, n) PROVE Within(u, n)'
    BY <1>2, <1>4, <2>2 DEF Within
  <2> QED BY <1>0, <1>4, <2>1, <2>2, ShorterPosition
<1>5. CASE Teardown
  <2>1. /\ s2c' = SubSeq(s2c, 1, 0) /\ link' = FALSE /\ c2s' = <<>>
        /\ UNCHANGED <<lastHandled, streamID, persisted, processQueue, handlers, srv>>
    BY <1>1, <1>5 DEF Teardown
  <2> QED BY <1>1, <1>4, <2>1
<1>6. CASE LoseLink
  BY <1>4, <1>6 DEF LoseLink
<1>7. CASE Crash
  <2>1. /\ streamID' = Nil /\ lastHandled' = 0 /\ persisted' = persisted /\ srv' = srv
        /\ processQueue' = EmptyBag /\ handlers' = EmptyBag
        /\ s2c' = <<>> /\ c2s' = <<>> /\ link' = FALSE
    BY <1>7 DEF Crash
  <2>2. Counts(0)'
    <3>1. Unstarted' = {}
      BY <1>2, <2>1 DEF Unstarted
    <3> QED BY <3>1, FS_EmptySet DEF Counts
  <2>3. ASSUME NEW u \in Nat, Within(u, n) PROVE Within(u, 0)'
    <3>1. persisted.streamID = srv.sid => persisted.lastHandled <= u
      BY <2>3 DEF Within
    <3> QED BY <1>1, <1>2, <2>1, <3>1 DEF Within
  <2> QED BY <1>0, <1>1, <2>1, <2>2, <2>3, ShorterPosition
<1> QED BY <1>3, <1>5, <1>6, <1>7

\* What is read is what comes next in the session.
LEMMA ReadStream ==
    ASSUME TypeOK, Negotiated, Read, Taken \subseteq Taken',
           NEW r \in 0 .. Len(srv.queue), Along(r), Had(r)
    PROVE  /\ Head(s2c).type = "message" =>
                 Along(r + 1)' /\ Had(r + 1)' /\ r + 1 \in 0 .. Len(srv'.queue)
           /\ Head(s2c).type # "message" => Along(r)' /\ Had(r)'
<1>1. /\ s2c \in Seq(Incoming) /\ s2c # <<>> /\ s2c' = Tail(s2c)
      /\ srv' = srv /\ link' = link
  BY DEF Read, TypeOK, server
<1>2. /\ Len(s2c) \in Nat /\ Len(s2c) >= 1 /\ Len(s2c') = Len(s2c) - 1
      /\ DOMAIN s2c = 1 .. Len(s2c) /\ DOMAIN s2c' = 1 .. Len(s2c) - 1
      /\ \A k \in 1 .. Len(s2c) - 1 : s2c'[k] = s2c[k + 1] /\ k + 1 \in DOMAIN s2c
      /\ 1 \in DOMAIN s2c /\ s2c[1] = Head(s2c)
  BY <1>1
<1>3. Len(srv.queue) \in Nat /\ r \in Nat /\ r <= Len(srv.queue)
  BY LeadType
<1>4. Lead' = 0
  <2>1. \A k \in DOMAIN s2c' : ~Answer(s2c'[k])
    <3> SUFFICES ASSUME NEW k \in 1 .. Len(s2c) - 1, Answer(s2c[k + 1]) PROVE FALSE
      BY <1>2
    <3>1. k + 1 = 1
      BY <1>2 DEF Negotiated, OneAtATime
    <3> QED BY <1>2, <3>1
  <2> QED BY <2>1 DEF Lead
<1>5. CASE Head(s2c).type = "message"
  <2>1. Lead = 0
    <3>1. \A k \in DOMAIN s2c : ~Answer(s2c[k])
      BY <1>2, <1>5 DEF Negotiated, OneAtATime, Answer
    <3> QED BY <3>1 DEF Lead
  <2>2. r + Len(s2c) <= Len(srv.queue)
    <3>1. r + Len(s2c) - 0 <= Len(srv.queue)
      BY <2>1 DEF Along
    <3> QED BY <1>2, <1>3, <3>1
  <2>3. \A k \in 1 .. Len(s2c) : s2c[k] = srv.queue[r + k]
    <3> SUFFICES ASSUME NEW k \in 1 .. Len(s2c) PROVE s2c[k] = srv.queue[r + k]
      OBVIOUS
    <3>1. k \in DOMAIN s2c /\ k > 0 /\ r + k - 0 = r + k
      BY <1>2, <1>3
    <3>2. s2c[k] = srv.queue[r + k - 0]
      BY <2>1, <3>1 DEF Along, Follows
    <3> QED BY <3>1, <3>2
  <2>4. Follows(s2c', srv.queue, 0, r + 1)
    <3> SUFFICES ASSUME NEW k \in 1 .. Len(s2c) - 1
                 PROVE  s2c'[k] = srv.queue[(r + 1) + k - 0]
      BY <1>2 DEF Follows
    <3>1. s2c'[k] = s2c[k + 1] /\ k + 1 \in 1 .. Len(s2c) /\ (r + 1) + k - 0 = r + (k + 1)
      BY <1>2, <1>3
    <3> QED BY <2>3, <3>1
  <2>5. /\ (r + 1) + Len(s2c') - 0 <= Len(srv.queue)
        /\ (r + 1) + Len(s2c') - 0 = r + Len(s2c)
        /\ r + 1 \in 0 .. Len(srv.queue)
    BY <1>2, <1>3, <2>2
  <2>6. link /\ srv.attached => r + Len(s2c) = Len(srv.queue)
    <3>1. link /\ srv.attached => r + Len(s2c) - 0 = Len(srv.queue)
      BY <2>1 DEF Along
    <3> QED BY <1>2, <1>3, <3>1
  <2>7. Along(r + 1)'
    BY <1>1, <1>4, <2>4, <2>5, <2>6 DEF Along
  <2>8. Had(r + 1)'
    <3>1. Head(s2c) = srv.queue[r + 1]
      BY <1>2, <2>3
    <3>2. Head(s2c).m \in Taken'
      <4>1. PICK m : m = Head(s2c).m
        OBVIOUS
      <4>2. Waiting(m)'
        BY <1>5, <4>1, ReadTakes
      <4>3. m \in InHand'
        BY <4>2 DEF Waiting, InHand
      <4> QED BY <4>1, <4>3 DEF Taken
    <3>3. \A k \in 1 .. r + 1 : k \in 1 .. r \/ k = r + 1
      BY <1>3
    <3> QED BY <1>1, <3>1, <3>2, <3>3 DEF Had
  <2> QED BY <1>1, <1>5, <2>5, <2>7, <2>8
<1>6. CASE Head(s2c).type # "message"
  <2>1. Lead = 1
    BY <1>2, <1>6 DEF Lead, Answer
  <2>2. r + Len(s2c) - 1 <= Len(srv.queue) /\ (link /\ srv.attached => r + Len(s2c) - 1 = Len(srv.queue))
    BY <2>1 DEF Along
  <2>3. Follows(s2c', srv.queue, 0, r)
    <3> SUFFICES ASSUME NEW k \in 1 .. Len(s2c) - 1
                 PROVE  s2c'[k] = srv.queue[r + k - 0]
      BY <1>2 DEF Follows
    <3>1. s2c'[k] = s2c[k + 1] /\ k + 1 \in DOMAIN s2c /\ k + 1 > 1 /\ r + (k + 1) - 1 = r + k - 0
      BY <1>2, <1>3
    <3>2. s2c[k + 1] = srv.queue[r + (k + 1) - 1]
      BY <2>1, <3>1 DEF Along, Follows
    <3> QED BY <3>1, <3>2
  <2>4. r + Len(s2c') - 0 = r + Len(s2c) - 1
    BY <1>2, <1>3
  <2>5. Along(r)'
    BY <1>1, <1>4, <2>2, <2>3, <2>4 DEF Along
  <2>6. Had(r)'
    BY <1>1 DEF Had
  <2> QED BY <1>6, <2>5, <2>6
<1> QED BY <1>5, <1>6

LEMMA ReadPosition ==
    ASSUME TypeOK, Negotiated, InPosition, Taken \subseteq Taken', Read
    PROVE  InPosition'
<1>0. PICK n \in Nat : Counts(n) /\ (srv.valid => \E r \in 0 .. Len(srv.queue) : Placed(r, n))
  BY DEF InPosition
<1>1. /\ processQueue' = With(processQueue, Head(s2c))
      /\ UNCHANGED <<lastHandled, streamID, persisted, handlers, c2s, srv>>
      /\ srv.acked \in Nat /\ lastHandled \in Nat
      /\ \A h \in BagToSet(handlers) : h.at = "count" => h.seen \in Number
  BY Fields DEF Read, counters, local, server, TypeOK
<1>2. CASE Head(s2c).type = "message"
  <2>1. Counts(n + 1)' /\ n + 1 \in Nat
    BY <1>0, <1>1, <1>2, OneMoreUnstarted
  <2>2. ASSUME NEW u \in Nat, Within(u, n) PROVE Within(u + 1, n + 1)'
    <3>1. /\ n + 1 <= u + 1
          /\ \A i \in Nat : i + n <= u => i + (n + 1) <= u + 1
          /\ \A i \in Nat : i + 1 + n <= u => i + 1 + (n + 1) <= u + 1
          /\ \A i \in Nat : i <= u => i <= u + 1
      <4>1. n <= u
        BY <2>2 DEF Within
      <4> QED BY <4>1
    <3>2. persisted.lastHandled \in Nat
      BY DEF TypeOK
    <3>3. \A e \in ToSet(c2s) : e.type = "a" => e.h <= u + 1
      <4> SUFFICES ASSUME NEW e \in ToSet(c2s), e.type = "a" PROVE e.h <= u + 1
        OBVIOUS
      <4>1. e.h \in Nat
        <5>1. c2s \in Seq(Outgoing)
          BY DEF TypeOK
        <5>2. e \in Outgoing
          BY <5>1 DEF ToSet
        <5> QED BY <5>2, Fields
      <4>2. e.h <= u
        BY <2>2 DEF Within
      <4> QED BY <4>1, <4>2
    <3>4. streamID = srv.sid => lastHandled + (n + 1) <= u + 1
      BY <1>1, <2>2, <3>1 DEF Within
    <3>5. persisted.streamID = srv.sid => persisted.lastHandled <= u + 1
      BY <2>2, <3>1, <3>2 DEF Within
    <3>6. ASSUME streamID = srv.sid, NEW h \in BagToSet(handlers), h.at = "count", h.seen # Nil
          PROVE  h.seen + 1 + (n + 1) <= u + 1
      <4>1. h.seen \in Nat
        BY <1>1, <3>6 DEF Number
      <4>2. h.seen + 1 + n <= u
        BY <2>2, <3>6 DEF Within
      <4> QED BY <4>1, <4>2
    <3> QED BY <1>1, <3>1, <3>3, <3>4, <3>5, <3>6 DEF Within
  <2>3. ASSUME srv.valid PROVE \E r \in 0 .. Len(srv'.queue) : Placed(r, n + 1)'
    <3>1. PICK r \in 0 .. Len(srv.queue) : Along(r) /\ Had(r) /\ Within(srv.acked + r, n)
      BY <1>0, <2>3 DEF Placed
    <3>2. Along(r + 1)' /\ Had(r + 1)' /\ r + 1 \in 0 .. Len(srv'.queue)
      BY <1>2, <3>1, ReadStream
    <3>3. srv.acked + r \in Nat /\ srv'.acked + (r + 1) = (srv.acked + r) + 1
      BY <1>1
    <3>4. Within(srv.acked + (r + 1), n + 1)'
      <4>1. PICK u \in Nat : u = srv.acked + r
        BY <3>3
      <4>2. Within(u + 1, n + 1)'
        BY <2>2, <3>1, <4>1
      <4>3. srv'.acked + (r + 1) = u + 1
        BY <3>3, <4>1
      <4> QED BY <4>2, <4>3
    <3>5. Placed(r + 1, n + 1)'
      BY <3>2, <3>4 DEF Placed
    <3> QED BY <3>2, <3>5
  <2> QED BY <1>1, <2>1, <2>3 DEF InPosition
<1>3. CASE Head(s2c).type # "message"
  <2>1. Counts(n)'
    BY <1>0, <1>1, <1>3, OneMoreUnstarted
  <2>2. ASSUME srv.valid PROVE \E r \in 0 .. Len(srv'.queue) : Placed(r, n)'
    <3>1. PICK r \in 0 .. Len(srv.queue) : Along(r) /\ Had(r) /\ Within(srv.acked + r, n)
      BY <1>0, <2>2 DEF Placed
    <3>2. Along(r)' /\ Had(r)'
      BY <1>3, <3>1, ReadStream
    <3>3. Within(srv.acked + r, n)'
      BY <1>1, <3>1 DEF Within
    <3>4. Placed(r, n)'
      BY <3>2, <3>3 DEF Placed
    <3> QED BY <1>1, <3>4
  <2> QED BY <1>0, <1>1, <2>1, <2>2 DEF InPosition
<1> QED BY <1>2, <1>3

LEMMA LongerPosition ==
    ASSUME TypeOK, Negotiated, InPosition, Taken \subseteq Taken',
           NEW t \in Seq(Stanza), srv'.queue = srv.queue \o t,
           link /\ srv.attached => s2c' = s2c \o t,
           ~ (link /\ srv.attached) => s2c' = s2c,
           link' = link, srv'.attached = srv.attached, srv'.acked = srv.acked,
           srv'.valid = srv.valid, srv'.sid = srv.sid, ToSet(c2s') \subseteq ToSet(c2s),
           UNCHANGED <<lastHandled, streamID, persisted, processQueue, handlers>>
    PROVE  InPosition'
<1>0. PICK n \in Nat : Counts(n) /\ (srv.valid => \E r \in 0 .. Len(srv.queue) : Placed(r, n))
  BY DEF InPosition
<1>1. Counts(n)'
  BY <1>0, SameUnstarted
<1>2. ASSUME srv.valid PROVE \E r \in 0 .. Len(srv'.queue) : Placed(r, n)'
  <2>1. PICK r \in 0 .. Len(srv.queue) : Along(r) /\ Had(r) /\ Within(srv.acked + r, n)
    BY <1>0, <1>2 DEF Placed
  <2>2. Along(r)' /\ Had(r)' /\ r \in 0 .. Len(srv'.queue)
    BY <2>1, LongerStream
  <2>3. PICK u \in Nat : u = srv.acked + r
    BY DEF TypeOK
  <2>4. Within(u, n)'
    BY <2>1, <2>3, SameCounters
  <2>5. Within(srv.acked + r, n)'
    BY <2>3, <2>4
  <2>6. Placed(r, n)'
    BY <2>2, <2>5 DEF Placed
  <2> QED BY <2>2, <2>6
<1> QED BY <1>0, <1>1, <1>2 DEF InPosition

LEMMA QuietPosition ==
    ASSUME TypeOK, InPosition, Taken \subseteq Taken', ToSet(c2s') \subseteq ToSet(c2s),
           UNCHANGED <<lastHandled, streamID, persisted, processQueue, handlers, s2c, srv, link>>
    PROVE  InPosition'
<1>0. PICK n \in Nat : Counts(n) /\ (srv.valid => \E r \in 0 .. Len(srv.queue) : Placed(r, n))
  BY DEF InPosition
<1>1. Counts(n)'
  BY <1>0, SameUnstarted
<1>2. ASSUME NEW u \in Nat, Within(u, n) PROVE Within(u, n)'
  BY <1>2, SameCounters
<1> QED BY <1>0, <1>1, <1>2, SamePosition

LEMMA DeliveredPosition ==
    ASSUME TypeOK, Negotiated, InPosition, Taken \subseteq Taken',
           Arrive \/ SrvPresence \/ SrvArchive
    PROVE  InPosition'
<1> USE DEF counters, local, store, wire, server, history
<1>0. /\ srv \in Session /\ srv.queue \in Seq(Stanza) /\ s2c \in Seq(Incoming)
      /\ OneAsking(c2s)
  BY DEF TypeOK, Session, Negotiated, OneAtATime
<1>1. CASE Arrive
  <2> DEFINE e == [type |-> "message", m |-> archived + 1, mam |-> FALSE]
  <2>1. archived + 1 \in Messages
    BY <1>1, MessageAssumption DEF Arrive, TypeOK, Messages
  <2>2. e \in Stanza
    BY <2>1, Fields
  <2>3. /\ UNCHANGED <<lastHandled, streamID, persisted, processQueue, handlers, link, c2s>>
        /\ IF srv.valid
           THEN /\ srv' = [srv EXCEPT !.queue = Append(@, e)]
                /\ s2c' = IF link /\ srv.attached THEN Append(s2c, e) ELSE s2c
           ELSE UNCHANGED <<srv, s2c>>
    BY <1>1 DEF Arrive
  <2> HIDE DEF e
  <2>4. CASE srv.valid
    <3>1. /\ <<e>> \in Seq(Stanza) /\ Append(s2c, e) = s2c \o <<e>>
          /\ Append(srv.queue, e) = srv.queue \o <<e>>
      BY <1>0, <2>2
    <3>2. srv' = [srv EXCEPT !.queue = Append(@, e)]
      BY <2>3, <2>4
    <3>3. /\ srv'.sid = srv.sid /\ srv'.attached = srv.attached /\ srv'.valid = srv.valid
          /\ srv'.acked = srv.acked /\ srv'.queue = Append(srv.queue, e)
      BY <1>0, <3>2 DEF Session
    <3>4. /\ link /\ srv.attached => s2c' = s2c \o <<e>>
          /\ ~ (link /\ srv.attached) => s2c' = s2c
      BY <2>3, <2>4, <3>1
    <3>5. srv'.queue = srv.queue \o <<e>>
      BY <3>1, <3>3
    <3> QED BY <2>3, <3>1, <3>3, <3>4, <3>5, LongerPosition
  <2>5. CASE ~srv.valid
    BY <2>3, <2>5, QuietPosition
  <2> QED BY <2>4, <2>5
<1>2. ASSUME NEW t \in Seq(Stanza), Deliver(t), link, srv.attached,
             ToSet(c2s') \subseteq ToSet(c2s),
             UNCHANGED <<lastHandled, streamID, persisted, processQueue, handlers, link>>
      PROVE  InPosition'
  <2>1. /\ s2c' = s2c \o t /\ srv'.queue = srv.queue \o t
        /\ srv'.sid = srv.sid /\ srv'.attached = srv.attached /\ srv'.valid = srv.valid
        /\ srv'.acked = srv.acked
    BY <1>0, <1>2 DEF Deliver, Session
  <2> QED BY <1>2, <2>1, LongerPosition
<1>3. CASE SrvPresence
  <2>1. Receive("presence") /\ Deliver(InOrder(offline, FALSE))
    BY <1>3 DEF SrvPresence
  <2>2. /\ link /\ Head(c2s) \in ToSet(c2s) /\ Head(c2s).type = "presence"
        /\ ToSet(c2s') \subseteq ToSet(c2s)
    BY <1>0, <2>1, Received
  <2>3. srv.attached
    BY <2>2 DEF Negotiated, Requested
  <2>4. InOrder(offline, FALSE) \in Seq(Stanza)
    BY InOrderType DEF TypeOK
  <2>5. UNCHANGED <<lastHandled, streamID, persisted, processQueue, handlers, link>>
    BY <1>3 DEF SrvPresence
  <2> QED BY <1>2, <2>1, <2>2, <2>3, <2>4, <2>5
<1>4. CASE SrvArchive
  <2> DEFINE t == InOrder(Head(c2s).after + 1 .. archived, TRUE)
  <2>1. Receive("mam")
    BY <1>4 DEF SrvArchive
  <2>2. /\ link /\ Head(c2s) \in Outgoing /\ Head(c2s).type = "mam"
        /\ ToSet(c2s') \subseteq ToSet(c2s)
    BY <1>0, <2>1, Received, TailOf DEF TypeOK, Receive
  <2>3. Head(c2s).after \in Nat /\ archived \in 0 .. Newest
    BY <2>2, Fields DEF TypeOK
  <2>4. Head(c2s).after + 1 .. archived \in SUBSET Messages
    BY <2>3, MessageAssumption DEF Messages
  <2>5. t \in Seq(Stanza)
    BY <2>4, InOrderType
  <2>6. UNCHANGED <<lastHandled, streamID, persisted, processQueue, handlers, link>>
    BY <1>4 DEF SrvArchive
  <2>7. IF srv.attached THEN Deliver(t) ELSE UNCHANGED <<s2c, srv>>
    BY <1>4 DEF SrvArchive
  <2> HIDE DEF t
  <2>8. CASE srv.attached
    BY <1>2, <2>2, <2>5, <2>6, <2>7, <2>8
  <2>9. CASE ~srv.attached
    BY <2>2, <2>6, <2>7, <2>9, QuietPosition
  <2> QED BY <2>8, <2>9
<1> QED BY <1>1, <1>3, <1>4

\* What the server forgets, the client has read.
LEMMA ForgottenStream ==
    ASSUME TypeOK, Negotiated, NEW r \in 0 .. Len(srv.queue), Along(r), Had(r), NEW f \in 0 .. r,
           srv'.queue = SubSeq(srv.queue, f + 1, Len(srv.queue)),
           srv'.attached = srv.attached, UNCHANGED <<s2c, link>>, Taken \subseteq Taken'
    PROVE  Along(r - f)' /\ Had(r - f)' /\ r - f \in 0 .. Len(srv'.queue)
<1>1. /\ Len(srv.queue) \in Nat /\ Len(s2c) \in Nat /\ DOMAIN s2c = 1 .. Len(s2c)
      /\ Lead \in Nat /\ Lead <= Len(s2c) /\ Lead' = Lead
      /\ r \in Nat /\ f \in Nat /\ f <= r /\ r <= Len(srv.queue)
      /\ srv.queue \in Seq(Stanza)
  BY LeadType DEF TypeOK, Lead
<1>2. /\ Len(srv'.queue) = Len(srv.queue) - f
      /\ \A k \in 1 .. Len(srv.queue) - f : srv'.queue[k] = srv.queue[k + f]
  <2> DEFINE q == srv.queue
             g == SubSeq(q, f + 1, Len(q))
  <2>1. /\ q \in Seq(Stanza) /\ Len(q) \in Nat /\ f \in Nat /\ f <= Len(q)
        /\ srv'.queue = g
    BY <1>1
  <2> HIDE DEF q
  <2>2. Len(g) = Len(q) - f /\ \A k \in 1 .. Len(q) - f : g[k] = q[k + f]
    <3>1. f \in 0 .. Len(q)
      BY <2>1
    <3> QED BY <2>1, <3>1, Suffix
  <2> HIDE DEF g
  <2>3. Len(srv'.queue) = Len(q) - f /\ \A k \in 1 .. Len(q) - f : srv'.queue[k] = q[k + f]
    BY <2>1, <2>2
  <2> QED BY <2>3 DEF q
<1>3. r + Len(s2c) - Lead <= Len(srv.queue)
  BY DEF Along
<1>a. /\ Len(srv.queue) \in Int /\ Len(s2c) \in Int /\ Lead \in Int /\ r \in Int /\ f \in Int
      /\ Len(srv'.queue) = Len(srv.queue) - f /\ f >= 0 /\ f <= r /\ Lead >= 0 /\ Lead <= Len(s2c)
  BY <1>1, <1>2
<1>4. (r - f) + Len(s2c) - Lead <= Len(srv'.queue)
  BY ONLY <1>a, <1>3
<1>b. r + Len(s2c) - Lead = Len(srv.queue) => (r - f) + Len(s2c) - Lead = Len(srv'.queue)
  BY ONLY <1>a
<1>5. link /\ srv.attached => (r - f) + Len(s2c) - Lead = Len(srv'.queue)
  BY <1>b DEF Along
<1>6. Follows(s2c, srv'.queue, Lead, r - f)
  <2> SUFFICES ASSUME NEW k \in 1 .. Len(s2c), k > Lead
               PROVE  s2c[k] = srv'.queue[(r - f) + k - Lead]
    BY <1>1 DEF Follows
  <2>1. s2c[k] = srv.queue[r + k - Lead]
    BY <1>1 DEF Along, Follows
  <2>a. k \in Nat /\ k > Lead /\ k <= Len(s2c)
    BY <1>1
  <2>2. (r - f) + k - Lead \in 1 .. Len(srv.queue) - f /\ ((r - f) + k - Lead) + f = r + k - Lead
    BY ONLY <1>a, <1>3, <2>a
  <2> QED BY <1>2, <2>1, <2>2
<1>7. Along(r - f)'
  BY <1>1, <1>4, <1>5, <1>6 DEF Along
<1>8. Had(r - f)'
  <2>1. \A k \in 1 .. r - f : srv'.queue[k] = srv.queue[k + f] /\ k + f \in 1 .. r
    BY <1>1, <1>2
  <2> QED BY <2>1 DEF Had
<1>9. r - f \in 0 .. Len(srv'.queue)
  BY ONLY <1>a, r <= Len(srv.queue)
<1> QED BY <1>7, <1>8, <1>9

\* An acknowledgment moves the session along, and claims nothing.
LEMMA AckedPosition ==
    ASSUME TypeOK, Negotiated, InPosition, Taken \subseteq Taken', SrvA
    PROVE  InPosition'
<1> USE DEF counters, local, store, wire, server, history
<1>0. PICK n \in Nat : Counts(n) /\ (srv.valid => \E r \in 0 .. Len(srv.queue) : Placed(r, n))
  BY DEF InPosition
<1>1. Receive("a") /\ OneAsking(c2s) /\ srv \in Session
  BY DEF SrvA, Negotiated, OneAtATime, TypeOK, Session
<1>2. /\ Head(c2s) \in Outgoing /\ Head(c2s) \in ToSet(c2s) /\ Head(c2s).type = "a"
      /\ ToSet(c2s') \subseteq ToSet(c2s)
  BY <1>1, Received, TailOf DEF TypeOK, Receive
<1>3. PICK h \in Nat : h = Head(c2s).h
  BY <1>2, Fields
<1>4. /\ Forget(h, srv.attached) /\ srv.attached \in BOOLEAN
      /\ UNCHANGED <<lastHandled, streamID, persisted, processQueue, handlers, s2c, link>>
  BY <1>1, <1>3 DEF SrvA, Session
<1>5. PICK f \in 0 .. Len(srv.queue) :
         /\ srv' = [srv EXCEPT !.attached = srv.attached, !.acked = @ + f,
                               !.queue = SubSeq(@, f + 1, Len(@))]
         /\ f = 0 \/ srv.acked + f <= h
  <2>1. srv \in [sid : Nat, valid : BOOLEAN, attached : BOOLEAN, acked : Nat, queue : Seq(Stanza)]
    BY DEF TypeOK
  <2>2. PICK on \in BOOLEAN : on = srv.attached
    BY <1>4
  <2>3. Forget(h, on)
    BY <1>4, <2>2
  <2>4. \E f \in 0 .. Len(srv.queue) :
           /\ srv' = [srv EXCEPT !.attached = on, !.acked = @ + f,
                                 !.queue = SubSeq(@, f + 1, Len(@))]
           /\ f = 0 \/ srv.acked + f <= h
           /\ h <= srv.acked + f \/ f = Len(srv.queue)
           /\ srv' \in [sid : Nat, valid : BOOLEAN, attached : BOOLEAN, acked : Nat,
                        queue : Seq(Stanza)]
    BY <2>1, <2>3, ForgetPrefix
  <2> QED BY <2>2, <2>4
<1>6. /\ srv'.queue = SubSeq(srv.queue, f + 1, Len(srv.queue)) /\ srv'.acked = srv.acked + f
      /\ srv'.sid = srv.sid /\ srv'.valid = srv.valid /\ srv'.attached = srv.attached
  BY <1>1, <1>5 DEF Session
<1>7. Counts(n)'
  BY <1>0, <1>4, SameUnstarted
<1>8. ASSUME srv.valid PROVE \E r \in 0 .. Len(srv'.queue) : Placed(r, n)'
  <2>1. PICK r \in 0 .. Len(srv.queue) : Along(r) /\ Had(r) /\ Within(srv.acked + r, n)
    BY <1>0, <1>8 DEF Placed
  <2>2. PICK u \in Nat : u = srv.acked + r
    BY DEF TypeOK
  <2>3. h <= srv.acked + r
    BY <1>2, <1>3, <2>1 DEF Within
  <2>4. f \in 0 .. r /\ srv'.acked + (r - f) = u
    <3>1. srv.acked \in Nat /\ r \in Nat /\ f \in Nat
      BY <1>1, LeadType DEF Session
    <3>2. f = 0 \/ srv.acked + f <= srv.acked + r
      BY <1>5, <2>3, <3>1
    <3> QED BY ONLY <3>1, <3>2, <2>2, <1>6
  <2>5. Along(r - f)' /\ Had(r - f)' /\ r - f \in 0 .. Len(srv'.queue)
    BY <1>4, <1>6, <2>1, <2>4, ForgottenStream
  <2>6. Within(u, n)'
    BY <1>2, <1>4, <1>6, <2>1, <2>2, SameCounters
  <2>7. Within(srv.acked + (r - f), n)'
    BY <2>4, <2>6
  <2>8. Placed(r - f, n)'
    BY <2>5, <2>7 DEF Placed
  <2> QED BY <2>5, <2>8
<1> QED BY <1>0, <1>6, <1>7, <1>8 DEF InPosition

\* An answer and what was kept: nothing of it is read yet.
LEMMA AnsweredPosition ==
    ASSUME TypeOK, BagToSet(processQueue) = {}, BagToSet(handlers) = {},
           processQueue' = processQueue, handlers' = handlers,
           NEW a \in Incoming, Answer(a), s2c' = <<a>> \o srv'.queue, srv'.queue \in Seq(Stanza),
           srv'.acked \in Nat, \A e \in ToSet(c2s') : e.type # "a",
           streamID' = srv'.sid => lastHandled' \in Nat /\ lastHandled' <= srv'.acked,
           persisted'.streamID = srv'.sid => persisted'.lastHandled <= srv'.acked
    PROVE  InPosition'
<1>1. Counts(0)'
  <2>1. Unstarted' = {}
    BY DEF Unstarted
  <2> QED BY <2>1, FS_EmptySet DEF Counts
<1>2. PICK q \in Seq(Stanza) : q = srv'.queue
  OBVIOUS
<1>3. q \in Seq(Incoming) /\ Len(q) \in Nat
  BY Fields
<1>4. /\ s2c' \in Seq(Incoming) /\ Len(s2c') = 1 + Len(q)
      /\ \A k \in 1 .. 1 + Len(q) : s2c'[k] = IF k = 1 THEN a ELSE q[k - 1]
  BY <1>2, <1>3, Prepended
<1>5. DOMAIN s2c' = 1 .. 1 + Len(q) /\ 1 \in DOMAIN s2c' /\ s2c'[1] = a
  BY <1>3, <1>4
<1>6. Lead' = 1
  BY <1>5 DEF Lead
<1>7. 0 + Len(s2c') - 1 = Len(q)
  BY <1>3, <1>4
<1>8. Follows(s2c', q, 1, 0)
  <2> SUFFICES ASSUME NEW k \in 1 .. 1 + Len(q), k > 1 PROVE s2c'[k] = q[0 + k - 1]
    BY <1>5 DEF Follows
  <2>1. 0 + k - 1 = k - 1 /\ k # 1
    OBVIOUS
  <2> QED BY <1>4, <2>1
<1>9. Along(0)'
  <2>1. 0 + Len(s2c') - 1 <= Len(q)
    BY <1>3, <1>7
  <2> QED BY <1>2, <1>6, <1>7, <1>8, <2>1 DEF Along
<1>10. Had(0)'
  BY DEF Had
<1>11. Within(srv.acked + 0, 0)'
  <2>1. srv'.acked + 0 = srv'.acked /\ 0 <= srv'.acked
    OBVIOUS
  <2>2. streamID' = srv'.sid => lastHandled' + 0 <= srv'.acked
    OBVIOUS
  <2> QED BY <2>1, <2>2 DEF Within
<1>12. Placed(0, 0)' /\ 0 \in 0 .. Len(srv'.queue)
  BY <1>2, <1>3, <1>9, <1>10, <1>11 DEF Placed
<1> QED BY <1>1, <1>12 DEF InPosition

\* <resume/> and <enable/> are read when nothing else is on its way.
LEMMA RequestPosition ==
    ASSUME TypeOK, Negotiated, InPosition, Taken \subseteq Taken', SrvResume \/ SrvEnable
    PROVE  InPosition'
<1> USE DEF counters, local, store, wire, server, history
<1>0. /\ srv \in Session /\ srv.queue \in Seq(Stanza) /\ srv.sid \in Nat /\ srv.acked \in Nat
      /\ Len(srv.queue) \in Nat /\ lastHandled \in Nat /\ persisted.lastHandled \in Nat
      /\ streamID \in Number /\ persisted.streamID \in Number /\ <<>> \in Seq(Stanza)
      /\ streamID # Nil => streamID <= srv.sid
      /\ persisted.streamID # Nil => persisted.streamID <= srv.sid
  BY NoElements DEF TypeOK, Session, Negotiated, Attached
<1>1. PICK n \in Nat : Counts(n) /\ (srv.valid => \E r \in 0 .. Len(srv.queue) : Placed(r, n))
  BY DEF InPosition
<1>2. UNCHANGED <<lastHandled, streamID, persisted, processQueue, handlers, link>>
  BY DEF SrvResume, SrvEnable
<1>3. CASE SrvEnable
  <2> DEFINE a == [type |-> "enabled", sid |-> srv.sid + 1]
  <2>1. Receive("enable")
    BY <1>3 DEF SrvEnable
  <2>2. /\ s2c = <<>> /\ BagToSet(processQueue) = {} /\ BagToSet(handlers) = {}
        /\ \A e \in ToSet(c2s') : e.type # "a"
    BY <2>1, AskingAlone
  <2>3. a \in Incoming /\ Answer(a)
    BY <1>0 DEF Incoming, Answer
  <2>4. /\ srv'.sid = srv.sid + 1 /\ srv'.queue = <<>> /\ srv'.acked = 0
        /\ s2c' = Append(<<>>, a)
    BY <1>3, <2>2 DEF SrvEnable
  <2> HIDE DEF a
  <2>5. s2c' = <<a>> \o srv'.queue
    BY <2>3, <2>4
  <2>6. streamID' # srv'.sid /\ persisted'.streamID # srv'.sid
    BY <1>0, <1>2, <2>4, NoNumber DEF Number
  <2> QED BY <1>0, <1>2, <2>2, <2>3, <2>4, <2>5, <2>6, AnsweredPosition
<1>4. CASE SrvResume
  <2>1. Receive("resume")
    BY <1>4 DEF SrvResume
  <2>2. /\ s2c = <<>> /\ BagToSet(processQueue) = {} /\ BagToSet(handlers) = {} /\ ~srv.attached
        /\ \A e \in ToSet(c2s') : e.type # "a"
        /\ Head(c2s).previd = streamID /\ Head(c2s).h = lastHandled
        /\ persisted = Saved(lastHandled, streamID)
    BY <2>1, AskingAlone
  <2>3. CASE srv.valid /\ Head(c2s).previd = srv.sid
    <3> DEFINE a == [type |-> "resumed"]
    <3>1. a \in Incoming /\ Answer(a)
      BY DEF Incoming, Answer
    <3>2. PICK h \in Nat : h = lastHandled
      BY <1>0
    <3>3. Forget(h, TRUE)
      BY <1>4, <2>2, <2>3, <3>2 DEF SrvResume
    <3>4. \E f \in 0 .. Len(srv.queue) :
             /\ srv' = [srv EXCEPT !.attached = TRUE, !.acked = @ + f,
                                   !.queue = SubSeq(@, f + 1, Len(@))]
             /\ f = 0 \/ srv.acked + f <= h
             /\ h <= srv.acked + f \/ f = Len(srv.queue)
             /\ srv' \in [sid : Nat, valid : BOOLEAN, attached : BOOLEAN, acked : Nat,
                          queue : Seq(Stanza)]
      <4>1. srv \in [sid : Nat, valid : BOOLEAN, attached : BOOLEAN, acked : Nat, queue : Seq(Stanza)]
        BY DEF TypeOK
      <4> QED BY <3>3, <4>1, ForgetPrefix
    <3>5. PICK f \in 0 .. Len(srv.queue) :
             /\ srv' = [srv EXCEPT !.attached = TRUE, !.acked = @ + f,
                                   !.queue = SubSeq(@, f + 1, Len(@))]
             /\ h <= srv.acked + f \/ f = Len(srv.queue)
             /\ srv' \in Session
      BY <3>4 DEF Session
    <3>6. srv'.acked = srv.acked + f /\ srv'.queue \in Seq(Stanza) /\ srv'.acked \in Nat
      <4>1. ASSUME NEW k, NEW q, srv' = [srv EXCEPT !.attached = TRUE, !.acked = k, !.queue = q]
            PROVE  srv'.acked = k
        BY <1>0, <4>1 DEF Session
      <4> QED BY <3>5, <4>1 DEF Session
    <3>7. PICK r \in 0 .. Len(srv.queue) : Placed(r, n)
      BY <1>1, <2>3
    <3>8. lastHandled <= srv'.acked
      <4>1. lastHandled + n <= srv.acked + r
        BY <2>2, <2>3, <3>7 DEF Placed, Within
      <4>2. lastHandled <= srv.acked + f \/ f = Len(srv.queue)
        BY <3>2, <3>5
      <4>3. r <= Len(srv.queue) /\ r \in Nat /\ f \in Nat
        BY <1>0
      <4>4. lastHandled <= srv.acked + f
        BY ONLY <1>0, <1>1, <4>1, <4>2, <4>3
      <4> QED BY <3>6, <4>4
    <3>9. persisted.lastHandled = lastHandled
      BY <2>2 DEF Saved
    <3>10. s2c' = <<a>> \o srv'.queue
      <4>1. s2c' = <<>> \o <<a>> \o srv'.queue
        BY <1>4, <2>2, <2>3 DEF SrvResume
      <4>2. <<>> \o <<a>> = <<a>>
        OBVIOUS
      <4> QED BY <4>1, <4>2
    <3> HIDE DEF a
    <3> QED BY <1>0, <1>2, <2>2, <3>1, <3>6, <3>8, <3>9, <3>10, AnsweredPosition
  <2>4. CASE ~ (srv.valid /\ Head(c2s).previd = srv.sid)
    <3> DEFINE a == [type |-> "failed"]
    <3>1. Answer(a)
      BY DEF Answer
    <3>2. srv' = srv /\ s2c' = Append(<<>>, a)
      BY <1>4, <2>2, <2>4 DEF SrvResume
    <3> HIDE DEF a
    <3>3. /\ Len(s2c') = 1 /\ DOMAIN s2c' = {1} /\ s2c'[1] = a
      BY <3>2
    <3>4. Lead' = 1
      BY <3>1, <3>3 DEF Lead
    <3>5. Counts(n)'
      BY <1>1, <1>2, SameUnstarted
    <3>6. ASSUME NEW r \in 0 .. Len(srv.queue), Placed(r, n) PROVE Placed(r, n)'
      <4>1. r \in Nat /\ r + Len(s2c') - Lead' <= Len(srv'.queue)
        BY <1>0, <3>2, <3>3, <3>4
      <4>2. Follows(s2c', srv'.queue, Lead', r)
        BY <3>3, <3>4 DEF Follows
      <4>3. Along(r)'
        BY <2>2, <3>2, <4>1, <4>2 DEF Along
      <4>4. Had(r)'
        BY <3>2, <3>6 DEF Had, Placed
      <4>5. PICK u \in Nat : u = srv.acked + r
        BY <1>0, <4>1
      <4>6. Within(u, n)'
        <5>1. Within(u, n)
          BY <3>6, <4>5 DEF Placed
        <5>2. ToSet(c2s') \subseteq ToSet(c2s)
          BY <2>1, Received DEF Negotiated, OneAtATime
        <5> QED BY <1>2, <3>2, <5>1, <5>2, SameCounters
      <4>7. Within(srv.acked + r, n)'
        BY <3>2, <4>5, <4>6
      <4> QED BY <4>3, <4>4, <4>7 DEF Placed
    <3> QED BY <1>1, <3>2, <3>5, <3>6 DEF InPosition
  <2> QED BY <2>3, <2>4
<1> QED BY <1>3, <1>4

LEMMA InPositionKept == TypeOK /\ Negotiated /\ InPosition /\ [Next]_vars => InPosition'
<1> SUFFICES ASSUME TypeOK, Negotiated, InPosition, [Next]_vars PROVE InPosition'
  OBVIOUS
<1>0. Taken \subseteq Taken'
  BY TakenKept
<1>1. CASE UNCHANGED vars
  <2>1. Aside
    BY <1>1 DEF vars, counters, local, wire, server, Aside
  <2> QED BY <1>0, <2>1, AsidePosition
<1>2. CASE \/ \E e \in BagToSet(processQueue) :
                 HandleEnabled(e) \/ HandleResumed(e) \/ HandleFailed(e) \/ HandleMessage(e)
           \/ \E h \in BagToSet(handlers) : Count(h)
  BY <1>0, <1>2, HandlersPosition
<1>3. CASE \/ \E h \in BagToSet(handlers) : Open(h) \/ Store(h)
           \/ HasMessageForId \/ Insert
           \/ \E q \in BagToSet(lookups) : TypeFound(q)
  BY <1>0, <1>3, AsideSteps, AsidePosition
<1>4. CASE SendAck \/ PersistState \/ QueryArchive
  BY <1>0, <1>4, SendersPosition
<1>5. CASE Connect \/ Teardown \/ LoseLink \/ Crash
  BY <1>0, <1>5, ConnectionPosition
<1>6. CASE Read
  BY <1>0, <1>6, ReadPosition
<1>7. CASE Arrive \/ SrvPresence \/ SrvArchive
  BY <1>0, <1>7, DeliveredPosition
<1>8. CASE SrvA
  BY <1>0, <1>8, AckedPosition
<1>9. CASE SrvResume \/ SrvEnable
  BY <1>0, <1>9, RequestPosition
<1>10. CASE Expire
  <2>1. PICK n \in Nat : Counts(n)
    BY DEF InPosition
  <2>2. srv'.valid = FALSE /\ processQueue' = processQueue
    BY <1>10 DEF Expire, TypeOK
  <2>3. Counts(n)'
    BY <2>1, <2>2, SameUnstarted
  <2> QED BY <2>2, <2>3 DEF InPosition
<1> QED BY <1>1, <1>2, <1>3, <1>4, <1>5, <1>6, <1>7, <1>8, <1>9, <1>10
        DEF Next, Local, Server, ProcessStep, DatabaseStep

LEMMA AtFirst == Init => Negotiated /\ InPosition
<1> SUFFICES ASSUME Init PROVE Negotiated /\ InPosition
  OBVIOUS
<1>1. BagToSet(EmptyBag) = {} /\ ToSet(<<>>) = {}
  BY NoCopies DEF ToSet
<1>2. Pending = {} /\ ToSet(c2s) = {}
  BY <1>1 DEF Init, Pending
<1>3. OneAtATime /\ Requested /\ Answered
  BY <1>1, <1>2 DEF Init, OneAtATime, OneAsking, Requested, Answered
<1>4. Attached
  BY <1>2 DEF Init, Attached, Saved
<1>5. Counts(0)
  BY <1>1, NoneUnstarted DEF Init
<1> QED BY <1>3, <1>4, <1>5 DEF Init, Negotiated, InPosition

LEMMA Invariant == Spec => [](TypeOK /\ Negotiated /\ InPosition)
<1>1. Init => TypeOK /\ Negotiated /\ InPosition
  BY TypeAtFirst, AtFirst
<1>2. (TypeOK /\ Negotiated /\ InPosition) /\ [Next]_vars => (TypeOK /\ Negotiated /\ InPosition)'
  BY TypeKept, NegotiatedKept, InPositionKept
<1> QED BY <1>1, <1>2, PTL DEF Spec

-----------------------------------------------------------------------------
(* The counter *)

\* Over new sessions, resumed ones, states read back and lost increments, the
\* counter never claims a stanza that has not been read (processInput, initSM3,
\* readState).
THEOREM CounterHonest == Spec => []NeverOverclaims
<1>1. TypeOK /\ Negotiated /\ InPosition => NeverOverclaims
  <2> DEFINE M == {k \in DOMAIN s2c : s2c[k].type = "message"}
  <2> SUFFICES ASSUME TypeOK, Negotiated, InPosition,
                      accountState = "Bound", srv.valid, streamID = srv.sid
               PROVE  lastHandled + Cardinality(M) <= srv.acked + Len(srv.queue)
    BY DEF NeverOverclaims
  <2>1. PICK n \in Nat, r \in 0 .. Len(srv.queue) : Placed(r, n)
    BY DEF InPosition
  <2>2. Lead = 0
    <3>1. \A k \in DOMAIN s2c : ~Answer(s2c[k])
      BY DEF Negotiated, Answered, Pending, ToSet
    <3> QED BY <3>1 DEF Lead
  <2>3. /\ Len(s2c) \in Nat /\ DOMAIN s2c = 1 .. Len(s2c) /\ Len(srv.queue) \in Nat
        /\ srv.acked \in Nat /\ lastHandled \in Nat /\ r \in Nat
    BY LeadType DEF TypeOK
  <2>4. Cardinality(M) \in Nat /\ Cardinality(M) <= Len(s2c)
    <3>1. M \in SUBSET (1 .. Len(s2c))
      BY <2>3
    <3>2. IsFiniteSet(1 .. Len(s2c))
      BY <2>3, FS_Interval
    <3>3. Cardinality(1 .. Len(s2c)) = Len(s2c)
      <4>1. PICK l \in Nat : l = Len(s2c)
        BY <2>3
      <4>2. 1 \in Int /\ l \in Int
        OBVIOUS
      <4>3. Cardinality(1 .. l) = IF 1 > l THEN 0 ELSE l - 1 + 1
        BY ONLY <4>2, FS_Interval
      <4> QED BY <4>1, <4>3
    <3> HIDE DEF M
    <3>4. IsFiniteSet(M) /\ Cardinality(M) <= Cardinality(1 .. Len(s2c))
      BY <3>1, <3>2, FS_Subset
    <3> QED BY <3>3, <3>4, FS_CardinalityType
  <2> HIDE DEF M
  <2>5. r + Len(s2c) - 0 <= Len(srv.queue)
    BY <2>1, <2>2 DEF Placed, Along
  <2>6. lastHandled + n <= srv.acked + r
    BY <2>1 DEF Placed, Within
  <2>7. n \in Nat
    BY <2>1
  <2> QED BY ONLY <2>3, <2>4, <2>5, <2>6, <2>7
<1> QED BY <1>1, Invariant, PTL

-----------------------------------------------------------------------------
(* Nothing gets lost. *)

LEMMA LiveOnTop ==
    ASSUME NEW q \in Seq(Stanza), NEW t \in Seq(Stanza)
    PROVE  /\ Live(q) \subseteq Live(q \o t)
           /\ \A k \in DOMAIN t : ~t[k].mam => t[k].m \in Live(q \o t)
<1>1. /\ Len(q) \in Nat /\ Len(t) \in Nat /\ DOMAIN q = 1 .. Len(q) /\ DOMAIN t = 1 .. Len(t)
  OBVIOUS
<1>2. /\ Len(q \o t) = Len(q) + Len(t)
      /\ \A k \in 1 .. Len(q) + Len(t) : (q \o t)[k] =
            IF k <= Len(q) THEN q[k] ELSE t[k - Len(q)]
  BY ConcatProperties, Zenon
<1>3. DOMAIN (q \o t) = 1 .. Len(q) + Len(t)
  <2>1. q \o t \in Seq(Stanza)
    OBVIOUS
  <2> QED BY <1>2, <2>1
<1>4. \A k \in DOMAIN q : k \in DOMAIN (q \o t) /\ (q \o t)[k] = q[k]
  BY <1>1, <1>2, <1>3
<1>5. \A k \in DOMAIN t : Len(q) + k \in DOMAIN (q \o t) /\ (q \o t)[Len(q) + k] = t[k]
  BY <1>1, <1>2, <1>3
<1> QED BY <1>4, <1>5 DEF Live

\* What is forgotten has been read.
LEMMA LiveForgotten ==
    ASSUME TypeOK, NEW r \in 0 .. Len(srv.queue), Had(r), NEW f \in 0 .. r,
           srv'.queue = SubSeq(srv.queue, f + 1, Len(srv.queue)), Taken \subseteq Taken'
    PROVE  Live(srv.queue) \subseteq Live(srv'.queue) \cup Taken'
<1> DEFINE q == srv.queue
           g == SubSeq(q, f + 1, Len(q))
<1>1. /\ q \in Seq(Stanza) /\ Len(q) \in Nat /\ DOMAIN q = 1 .. Len(q)
      /\ f \in Nat /\ f <= r /\ r \in Nat /\ r <= Len(q) /\ srv'.queue = g
  BY DEF TypeOK
<1>2. \A k \in 1 .. r : q[k].m \in Taken'
  BY DEF Had
<1>3. srv.queue = q
  OBVIOUS
<1> HIDE DEF q
<1>4. \A k \in f + 1 .. Len(q) : k - f \in DOMAIN g /\ g[k - f] = q[k]
  <2>1. f \in 0 .. Len(q)
    BY <1>1
  <2>2. g \in Seq(Stanza) /\ Len(g) = Len(q) - f /\ \A k \in 1 .. Len(q) - f : g[k] = q[k + f]
    BY <1>1, <2>1, Suffix
  <2> HIDE DEF g
  <2> SUFFICES ASSUME NEW k \in f + 1 .. Len(q) PROVE k - f \in DOMAIN g /\ g[k - f] = q[k]
    OBVIOUS
  <2>3. k \in Int /\ f + 1 <= k /\ k <= Len(q) /\ f \in Nat /\ Len(q) \in Nat
    BY <1>1
  <2>4. k - f \in 1 .. Len(q) - f /\ (k - f) + f = k
    BY ONLY <2>3
  <2>5. DOMAIN g = 1 .. Len(q) - f
    BY <2>2
  <2> QED BY <2>2, <2>4, <2>5
<1> HIDE DEF g
<1>5. ASSUME NEW k \in DOMAIN q, ~q[k].mam PROVE q[k].m \in Live(g) \cup Taken'
  <2>1. CASE k <= r
    BY <1>1, <1>2, <2>1
  <2>2. CASE ~ (k <= r)
    <3>1. k \in f + 1 .. Len(q)
      BY <1>1, <2>2
    <3> QED BY <1>4, <1>5, <3>1 DEF Live
  <2> QED BY <2>1, <2>2
<1>6. Live(q) \subseteq Live(g) \cup Taken'
  BY <1>5 DEF Live
<1> QED BY <1>1, <1>3, <1>6

\* What the server gives up goes to the client or to the next session.
LEMMA ServerKeeps ==
    ASSUME TypeOK, Negotiated, InPosition, Taken \subseteq Taken', Arrive \/ Server \/ Expire
    PROVE  offline \cup Live(srv.queue) \subseteq offline' \cup Live(srv'.queue) \cup Taken'
<1>0. /\ srv \in Session /\ srv.queue \in Seq(Stanza)
      /\ srv \in [sid : Nat, valid : BOOLEAN, attached : BOOLEAN, acked : Nat, queue : Seq(Stanza)]
  BY DEF TypeOK, Session
<1>1. CASE Arrive
  <2> DEFINE e == [type |-> "message", m |-> archived + 1, mam |-> FALSE]
  <2>1. archived + 1 \in Messages
    BY <1>1, MessageAssumption DEF Arrive, TypeOK, Messages
  <2>2. e \in Stanza
    BY <2>1, Fields
  <2>3. /\ srv' = srv \/ srv' = [srv EXCEPT !.queue = Append(@, e)]
        /\ offline \subseteq offline'
    BY <1>1 DEF Arrive
  <2> HIDE DEF e
  <2>4. <<e>> \in Seq(Stanza) /\ Append(srv.queue, e) = srv.queue \o <<e>>
    BY <1>0, <2>2
  <2>5. srv'.queue = srv.queue \/ srv'.queue = srv.queue \o <<e>>
    BY <1>0, <2>3, <2>4
  <2>6. Live(srv.queue) \subseteq Live(srv'.queue)
    BY <1>0, <2>4, <2>5, LiveOnTop
  <2> QED BY <2>3, <2>6
<1>2. ASSUME NEW h \in Nat, NEW on \in BOOLEAN, Forget(h, on), srv.valid,
             \A r \in 0 .. Len(srv.queue), n \in Nat : Placed(r, n) => h <= srv.acked + r,
             offline' = offline
      PROVE  offline \cup Live(srv.queue) \subseteq offline' \cup Live(srv'.queue) \cup Taken'
  <2>1. \E f \in 0 .. Len(srv.queue) :
           /\ srv' = [srv EXCEPT !.attached = on, !.acked = @ + f,
                                 !.queue = SubSeq(@, f + 1, Len(@))]
           /\ f = 0 \/ srv.acked + f <= h
           /\ h <= srv.acked + f \/ f = Len(srv.queue)
           /\ srv' \in [sid : Nat, valid : BOOLEAN, attached : BOOLEAN, acked : Nat,
                        queue : Seq(Stanza)]
    BY <1>0, <1>2, ForgetPrefix
  <2>2. PICK f \in 0 .. Len(srv.queue) :
           /\ srv' = [srv EXCEPT !.attached = on, !.acked = @ + f,
                                 !.queue = SubSeq(@, f + 1, Len(@))]
           /\ f = 0 \/ srv.acked + f <= h
    BY <2>1
  <2>3. srv'.queue = SubSeq(srv.queue, f + 1, Len(srv.queue))
    BY <1>0, <2>2 DEF Session
  <2>4. PICK n \in Nat, r \in 0 .. Len(srv.queue) : Placed(r, n)
    BY <1>2 DEF InPosition
  <2>5. Had(r)
    BY <2>4 DEF Placed
  <2>6. f \in 0 .. r
    <3>1. h <= srv.acked + r
      BY <1>2, <2>4
    <3>2. srv.acked \in Nat /\ r \in Nat /\ f \in Nat /\ (f = 0 \/ srv.acked + f <= h)
      BY <1>0, <2>2, LeadType
    <3> QED BY ONLY <1>2, <3>1, <3>2
  <2>7. Live(srv.queue) \subseteq Live(srv'.queue) \cup Taken'
    BY <2>3, <2>5, <2>6, LiveForgotten
  <2> QED BY <1>2, <2>7
<1>3. CASE SrvA
  <2>1. Receive("a") /\ OneAsking(c2s) /\ offline' = offline
    BY <1>3 DEF SrvA, Negotiated, OneAtATime
  <2>2. /\ Head(c2s) \in Outgoing /\ Head(c2s) \in ToSet(c2s) /\ Head(c2s).type = "a" /\ link
    BY <2>1, Received, TailOf DEF TypeOK, Receive
  <2>3. srv.attached /\ srv.valid
    BY <2>2 DEF Negotiated, Requested, Attached
  <2>4. PICK h \in Nat : h = Head(c2s).h
    BY <2>2, Fields
  <2>5. Forget(h, TRUE)
    <3>1. srv.attached = TRUE
      BY <1>0, <2>3
    <3> QED BY <1>3, <2>4, <3>1 DEF SrvA
  <2>6. \A r \in 0 .. Len(srv.queue), n \in Nat : Placed(r, n) => h <= srv.acked + r
    BY <2>2, <2>4 DEF Placed, Within
  <2> QED BY <1>2, <2>1, <2>3, <2>5, <2>6
<1>4. CASE SrvResume
  <2>1. Receive("resume") /\ offline' = offline
    BY <1>4 DEF SrvResume
  <2>2. Head(c2s).previd = streamID /\ Head(c2s).h = lastHandled
    BY <2>1, AskingAlone
  <2>3. CASE srv.valid /\ Head(c2s).previd = srv.sid
    <3>1. PICK h \in Nat : h = lastHandled
      BY DEF TypeOK
    <3>2. Forget(h, TRUE)
      BY <1>4, <2>2, <2>3, <3>1 DEF SrvResume
    <3>3. \A r \in 0 .. Len(srv.queue), n \in Nat : Placed(r, n) => h <= srv.acked + r
      <4> SUFFICES ASSUME NEW r \in 0 .. Len(srv.queue), NEW n \in Nat, Placed(r, n)
                   PROVE  h <= srv.acked + r
        OBVIOUS
      <4>1. h + n <= srv.acked + r
        BY <2>2, <2>3, <3>1 DEF Placed, Within
      <4>2. h \in Nat /\ n \in Nat /\ srv.acked \in Nat /\ r \in Nat
        BY <1>0, LeadType
      <4> QED BY ONLY <4>1, <4>2
    <3> QED BY <1>2, <2>1, <2>3, <3>2, <3>3
  <2>4. CASE ~ (srv.valid /\ Head(c2s).previd = srv.sid)
    BY <1>4, <2>1, <2>4 DEF SrvResume
  <2> QED BY <2>3, <2>4
<1>5. CASE SrvEnable \/ Expire
  <2>1. offline' = offline \cup Live(srv.queue)
    BY <1>5 DEF SrvEnable, Expire
  <2> QED BY <2>1
<1>6. CASE SrvPresence
  <2> DEFINE t == InOrder(offline, FALSE)
  <2>1. srv' = [srv EXCEPT !.queue = @ \o t]
    BY <1>6 DEF SrvPresence, Deliver
  <2>2. /\ t \in Seq(Stanza)
        /\ \A k \in DOMAIN t : t[k].mam = FALSE
        /\ \A m \in offline : \E k \in DOMAIN t : t[k].m = m
    <3>1. offline \in SUBSET Messages
      BY DEF TypeOK
    <3>2. /\ t \in Seq(Stanza)
          /\ \A k \in DOMAIN t : t[k].m \in offline /\ t[k].mam = FALSE
          /\ \A m \in offline : \E k \in DOMAIN t : t[k].m = m
      BY ONLY <3>1, InOrderType
    <3> QED BY <3>2
  <2> HIDE DEF t
  <2>3. srv'.queue = srv.queue \o t
    BY <1>0, <2>1 DEF Session
  <2>4. /\ Live(srv.queue) \subseteq Live(srv.queue \o t)
        /\ \A k \in DOMAIN t : ~t[k].mam => t[k].m \in Live(srv.queue \o t)
    BY <1>0, <2>2, LiveOnTop
  <2>5. offline \subseteq Live(srv.queue \o t)
    BY <2>2, <2>4
  <2> QED BY <2>3, <2>4, <2>5
<1>7. CASE SrvArchive
  <2> DEFINE t == InOrder(Head(c2s).after + 1 .. archived, TRUE)
  <2>1. Receive("mam") /\ offline' = offline /\ (srv' = srv \/ srv' = [srv EXCEPT !.queue = @ \o t])
    BY <1>7 DEF SrvArchive, Deliver
  <2>2. Head(c2s) \in Outgoing /\ Head(c2s).type = "mam"
    BY <2>1, TailOf DEF TypeOK, Receive
  <2>3. Head(c2s).after \in Nat /\ archived \in 0 .. Newest
    BY <2>2, Fields DEF TypeOK
  <2>4. Head(c2s).after + 1 .. archived \in SUBSET Messages
    BY <2>3, MessageAssumption DEF Messages
  <2>5. t \in Seq(Stanza)
    BY <2>4, InOrderType
  <2> HIDE DEF t
  <2>6. srv'.queue = srv.queue \/ srv'.queue = srv.queue \o t
    BY <1>0, <2>1 DEF Session
  <2>7. Live(srv.queue) \subseteq Live(srv'.queue)
    BY <1>0, <2>5, <2>6, LiveOnTop
  <2> QED BY <2>1, <2>7
<1> QED BY <1>1, <1>3, <1>4, <1>5, <1>6, <1>7 DEF Server

LEMMA HeldTyped == TypeOK => Held \subseteq Messages
<1> SUFFICES ASSUME TypeOK PROVE Held \subseteq Messages
  OBVIOUS
<1>1. \A k \in DOMAIN srv.queue : srv.queue[k].m \in Messages
  <2>1. srv.queue \in Seq(Stanza)
    BY DEF TypeOK
  <2> QED BY <2>1, Fields
<1>2. Live(srv.queue) \subseteq Messages
  BY <1>1 DEF Live
<1>3. InHand \subseteq Messages
  BY InHandMessages
<1> QED BY <1>2, <1>3 DEF TypeOK, Held, Stored

\* An insert stores what is in hand, and nothing else moves.
LEMMA InsertStores ==
    ASSUME TypeOK, Insert
    PROVE  \E m \in Messages : inbox!Store(m)
<1> USE DEF counters, local, store, wire, server, history
<1>1. /\ dbQueue # <<>> /\ Head(dbQueue).op = "insert" /\ dbQueue' = Tail(dbQueue)
      /\ rows' = [rows EXCEPT ![Head(dbQueue).m] = @ + 1]
      /\ UNCHANGED <<processQueue, handlers, lookups, srv, offline, interrupted>>
      /\ dbQueue \in Seq(Statement) /\ rows \in [Messages -> Nat]
  BY DEF Insert, Executing, TypeOK
<1>2. PICK s \in Statement : s = Head(dbQueue)
  BY <1>1, TailOf
<1>3. s.op # "last" /\ s.m \in Messages
  BY <1>1, <1>2, Fields
<1>4. \A m : Asked(dbQueue', m) # {} => Asked(dbQueue, m) # {}
  BY <1>1, AskedLess
<1>5. Asked(dbQueue, s.m) # {}
  <2>1. Head(dbQueue).op # "last" /\ Head(dbQueue).m = s.m
    BY <1>2, <1>3
  <2> QED BY <1>1, <2>1, AskedLess
<1>6. s.m \in InHand
  BY <1>5, TakenIs DEF Busy
<1>7. Stored' = Stored \cup {s.m}
  <2>1. \A m \in Messages : rows'[m] > 0 <=> rows[m] > 0 \/ m = s.m
    <3> SUFFICES ASSUME NEW m \in Messages PROVE rows'[m] > 0 <=> rows[m] > 0 \/ m = s.m
      OBVIOUS
    <3>1. CASE m = s.m
      <4>1. rows'[m] = rows[m] + 1 /\ rows[m] \in Nat
        BY <1>1, <1>2, <3>1
      <4>2. rows'[m] > 0
        BY <4>1
      <4> QED BY <3>1, <4>2
    <3>2. CASE m # s.m
      <4>1. rows'[m] = rows[m]
        BY <1>1, <1>2, <3>2
      <4> QED BY <3>2, <4>1
    <3> QED BY <3>1, <3>2
  <2> QED BY <1>3, <2>1 DEF Stored
<1>8. Taken' = Taken
  <2>1. Taken \subseteq Taken'
    <3>1. Next
      BY DEF Next, Local, DatabaseStep
    <3> QED BY <3>1, TakenKept
  <2>2. ASSUME NEW m \in InHand' PROVE m \in InHand
    <3>1. Waiting(m)' \/ Busy(m)'
      BY <2>2 DEF InHand, UnderWay, Waiting, Busy, Has, Asked
    <3>2. Waiting(m) \/ Busy(m)
      BY <1>1, <1>4, <3>1 DEF Waiting, Busy
    <3> QED BY <3>2, TakenIs
  <2> QED BY <1>1, <1>6, <1>7, <2>1, <2>2 DEF Taken
<1>9. Held' = Held
  BY <1>1, <1>8 DEF Held, Taken
<1>10. s.m \in Held
  BY <1>6 DEF Held
<1>11. inbox!Store(s.m)
  BY <1>1, <1>7, <1>9, <1>10 DEF inbox!Store
<1> QED BY <1>3, <1>11

\* A kill cuts short what is in hand, and moves nothing else.
LEMMA CrashKills ==
    ASSUME TypeOK, Crash
    PROVE  inbox!Kill(InHand) /\ InHand \in SUBSET Messages
<1> USE DEF store, server
<1>1. /\ interrupted' = interrupted \cup InHand
      /\ processQueue' = EmptyBag /\ handlers' = EmptyBag /\ dbQueue' = <<>> /\ lookups' = EmptyBag
      /\ rows' = rows /\ srv' = srv /\ offline' = offline
  BY DEF Crash
<1>2. InHand' = {}
  BY <1>1, NoCopies DEF InHand, UnderWay
<1>3. Stored' = Stored
  BY <1>1 DEF Stored
<1>4. Held' = Held
  BY <1>1, <1>2, <1>3 DEF Held
<1>5. InHand \subseteq Held
  BY DEF Held
<1> QED BY <1>1, <1>3, <1>4, <1>5, InHandMessages DEF inbox!Kill

LEMMA StepImplements ==
    TypeOK /\ Negotiated /\ InPosition /\ [Next]_vars => [inbox!Next]_(inbox!vars)
<1> SUFFICES ASSUME TypeOK, Negotiated, InPosition, [Next]_vars PROVE [inbox!Next]_(inbox!vars)
  OBVIOUS
<1> USE DEF counters, local, store, wire, server, history
<1>0. Taken \subseteq Taken' /\ Held' \in SUBSET Messages
  <2>1. TypeOK'
    BY TypeKept
  <2>2. (Held \subseteq Messages)'
    BY <2>1, HeldTyped, PTL
  <2> QED BY <2>2, TakenKept
<1>1. ASSUME rows' = rows, interrupted' = interrupted,
             offline \cup Live(srv.queue) \subseteq offline' \cup Live(srv'.queue) \cup Taken'
      PROVE  inbox!Next
  <2>1. Held \subseteq Held'
    BY <1>0, <1>1 DEF Held, Taken
  <2>2. Stored' = Stored
    BY <1>1 DEF Stored
  <2>3. inbox!Arrive(Held')
    BY <1>1, <2>1, <2>2 DEF inbox!Arrive
  <2> QED BY <1>0, <2>3 DEF inbox!Next
<1>2. ASSUME UNCHANGED <<rows, interrupted, offline>>, srv'.queue = srv.queue PROVE inbox!Next
  BY <1>1, <1>2
<1>3. CASE UNCHANGED vars
  BY <1>2, <1>3 DEF vars
<1>4. CASE Connect
  <2>1. srv'.queue = srv.queue
    BY <1>4 DEF Connect, TypeOK
  <2> QED BY <1>2, <1>4, <2>1 DEF Connect
<1>5. CASE Teardown \/ Read \/ SendAck \/ PersistState \/ LoseLink
  BY <1>2, <1>5 DEF Teardown, Read, SendAck, PersistState, LoseLink
<1>6. CASE ProcessStep
  BY <1>2, <1>6
  DEF ProcessStep, HandleEnabled, HandleResumed, HandleFailed, HandleMessage, Count, Open, Store
<1>7. CASE HasMessageForId \/ QueryArchive \/ \E q \in BagToSet(lookups) : TypeFound(q)
  BY <1>2, <1>7 DEF HasMessageForId, QueryArchive, TypeFound
<1>8. CASE Insert
  BY <1>8, InsertStores DEF inbox!Next
<1>9. CASE Crash
  BY <1>9, CrashKills DEF inbox!Next
<1>10. CASE Arrive \/ Server \/ Expire
  <2>1. rows' = rows /\ interrupted' = interrupted
    BY <1>10 DEF Arrive, Expire, Server, SrvA, SrvResume, SrvEnable, SrvPresence, SrvArchive
  <2> QED BY <1>0, <1>1, <1>10, <2>1, ServerKeeps
<1> QED BY <1>3, <1>4, <1>5, <1>6, <1>7, <1>8, <1>9, <1>10 DEF Next, Local, DatabaseStep

\* No received message gets lost but by a kill: of what the server keeps for the
\* client, it forgets only what is in hand or stored, and nothing in hand is
\* dropped on its way through processQueue and _dbQueue.
THEOREM NothingLost == Spec => InboxSafety
<1>1. Init => inbox!Init
  <2> SUFFICES ASSUME Init PROVE inbox!Init
    OBVIOUS
  <2>1. InHand = {} /\ Live(srv.queue) = {} /\ Stored = {}
    BY NoCopies DEF Init, InHand, UnderWay, Live, Stored
  <2> QED BY <2>1 DEF Init, inbox!Init, Held
<1> QED BY <1>1, Invariant, StepImplements, PTL DEF Spec, InboxSafety, inbox!Safety
=============================================================================
