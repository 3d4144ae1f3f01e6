--------------------------- MODULE InboundTheorems ---------------------------
(***************************************************************************)
(* What becomes of a received message, for any messages, faults and kills  *)
(* and every order of handlers, statements and look-ups: types, duplicates *)
(* and unreadable rows.                                                    *)
(***************************************************************************)
EXTENDS InboundMessages, ArraysTheorems, TLAPS

-----------------------------------------------------------------------------
(* Bags *)

LEMMA NoCopies ==
    IsABag(EmptyBag) /\ BagToSet(EmptyBag) = {}
  BY DEF IsABag, EmptyBag, SetToBag, BagToSet

\* Another copy of an element
LEMMA WithCopy ==
    ASSUME NEW b, IsABag(b), NEW e
    PROVE  /\ IsABag(With(b, e))
           /\ BagToSet(With(b, e)) = BagToSet(b) \cup {e}
           /\ \A x \in BagToSet(b) : x # e => With(b, e)[x] = b[x]
           /\ With(b, e)[e] = IF e \in BagToSet(b) THEN b[e] + 1 ELSE 1
<1> DEFINE w == [x \in DOMAIN b \cup {e} |->
                    (IF x \in DOMAIN b THEN b[x] ELSE 0) + (IF x \in {e} THEN 1 ELSE 0)]
<1>1. With(b, e) = w
  <2>1. DOMAIN SetToBag({e}) = {e} /\ \A x \in {e} : SetToBag({e})[x] = 1
    BY DEF SetToBag
  <2> QED BY <2>1 DEF With, (+)
<1>2. \A x \in DOMAIN b : b[x] \in Nat /\ b[x] > 0
  BY DEF IsABag
<1>3. \A x \in DOMAIN b \cup {e} :
         w[x] = (IF x \in DOMAIN b THEN b[x] ELSE 0) + (IF x = e THEN 1 ELSE 0)
  OBVIOUS
<1>4. DOMAIN w = DOMAIN b \cup {e}
  OBVIOUS
<1>5. \A x \in DOMAIN w : w[x] \in Nat /\ w[x] > 0
  BY <1>2, <1>3
<1>6. IsABag(w)
  BY <1>5 DEF IsABag
<1> HIDE DEF w
<1> QED BY <1>1, <1>2, <1>3, <1>4, <1>6 DEF BagToSet

\* One copy less
LEMMA WithoutCopy ==
    ASSUME NEW b, IsABag(b), NEW e \in BagToSet(b)
    PROVE  /\ IsABag(Without(b, e))
           /\ BagToSet(Without(b, e)) \subseteq BagToSet(b)
           /\ b[e] = 1 => e \notin BagToSet(Without(b, e))
           /\ b[e] # 1 => e \in BagToSet(Without(b, e)) /\ Without(b, e)[e] = b[e] - 1
           /\ \A x \in BagToSet(b) : x # e => /\ x \in BagToSet(Without(b, e))
                                              /\ Without(b, e)[x] = b[x]
<1> DEFINE less == [x \in DOMAIN b |-> IF x \in DOMAIN SetToBag({e}) THEN b[x] - SetToBag({e})[x]
                                       ELSE b[x]]
           w == [x \in {d \in DOMAIN less : less[d] > 0} |-> less[x]]
<1>1. Without(b, e) = w
  BY DEF Without, (-)
<1>2. \A x \in DOMAIN b : b[x] \in Nat /\ b[x] > 0
  BY DEF IsABag
<1>3. DOMAIN less = DOMAIN b /\ \A x \in DOMAIN b : less[x] = IF x = e THEN b[x] - 1 ELSE b[x]
  <2>1. DOMAIN SetToBag({e}) = {e} /\ \A x \in {e} : SetToBag({e})[x] = 1
    BY DEF SetToBag
  <2> QED BY <2>1
<1>4. DOMAIN w = {d \in DOMAIN b : less[d] > 0} /\ \A x \in DOMAIN w : w[x] = less[x]
  OBVIOUS
<1> HIDE DEF less, w
<1>5. \A x \in DOMAIN w : w[x] \in Nat /\ w[x] > 0
  BY <1>2, <1>3, <1>4
<1>w. w = [x \in DOMAIN w |-> w[x]]
  BY DEF w
<1>6. IsABag(w)
  BY <1>5, <1>w DEF IsABag
<1>7. e \in DOMAIN b
  BY DEF BagToSet
<1> QED BY <1>1, <1>2, <1>3, <1>4, <1>6, <1>7 DEF BagToSet

LEMMA ReplacedCopy ==
    ASSUME NEW b, IsABag(b), NEW e \in BagToSet(b), NEW f
    PROVE  /\ IsABag(With(Without(b, e), f))
           /\ BagToSet(With(Without(b, e), f)) \subseteq BagToSet(b) \cup {f}
           /\ f \in BagToSet(With(Without(b, e), f))
           /\ \A x \in BagToSet(b) : x # e => x \in BagToSet(With(Without(b, e), f))
           /\ b[e] = 1 /\ f # e => e \notin BagToSet(With(Without(b, e), f))
           /\ \A x \in BagToSet(b) : x # e /\ x # f => With(Without(b, e), f)[x] = b[x]
           /\ f \notin BagToSet(b) => With(Without(b, e), f)[f] = 1
<1> DEFINE c == Without(b, e)
<1>1. /\ IsABag(c)
      /\ BagToSet(c) \subseteq BagToSet(b)
      /\ b[e] = 1 => e \notin BagToSet(c)
      /\ \A x \in BagToSet(b) : x # e => x \in BagToSet(c) /\ c[x] = b[x]
  BY WithoutCopy
<1> HIDE DEF c
<1>2. /\ IsABag(With(c, f))
      /\ BagToSet(With(c, f)) = BagToSet(c) \cup {f}
      /\ \A x \in BagToSet(c) : x # f => With(c, f)[x] = c[x]
      /\ With(c, f)[f] = IF f \in BagToSet(c) THEN c[f] + 1 ELSE 1
  BY <1>1, WithCopy
<1>3. f \notin BagToSet(b) => With(c, f)[f] = 1
  BY <1>1, <1>2
<1>4. \A x \in BagToSet(b) : x # e /\ x # f => With(c, f)[x] = b[x]
  BY <1>1, <1>2
<1> QED BY <1>1, <1>2, <1>3, <1>4 DEF c

-----------------------------------------------------------------------------
(* Types *)

LEMMA Fields ==
    /\ \A e \in Stanza : e.type = "message" /\ e.m \in Messages /\ e.mam \in BOOLEAN
    /\ \A m \in Messages, b \in BOOLEAN : [type |-> "message", m |-> m, mam |-> b] \in Stanza
    /\ Stanza \subseteq Incoming
    /\ \A e \in Incoming : e.type = "message" => e \in Stanza
    /\ \A e \in Incoming : e.type = "enabled" => e.sid \in Nat
    /\ \A h \in Handler : /\ h.m \in Messages
                          /\ h.at = "count" => h.seen \in Number
                          /\ h.at = "store" => h.readable \in BOOLEAN
    /\ \A q \in Statement : q.op # "last" => q.m \in Messages /\ q.readable \in BOOLEAN
    /\ \A q \in Statement : q.op \in {"has", "insert"} =>
          /\ [q EXCEPT !.op = "insert"] \in [op : {"insert"}, m : Messages, readable : BOOLEAN]
          /\ [q EXCEPT !.op = "insert"].m = q.m /\ [q EXCEPT !.op = "insert"].op = "insert"
          /\ [q EXCEPT !.op = "insert"].readable = q.readable
    /\ \A e \in Outgoing : e.type = "a" => e.h \in Nat
    /\ \A e \in Outgoing : e.type = "resume" => e.h \in Nat /\ e.previd \in Nat
    /\ \A e \in Outgoing : e.type = "mam" => e.after \in Nat
<1>1. /\ \A e \in Stanza : e.type = "message" /\ e.m \in Messages /\ e.mam \in BOOLEAN
      /\ \A m \in Messages, b \in BOOLEAN : [type |-> "message", m |-> m, mam |-> b] \in Stanza
  BY DEF Stanza
<1>2. /\ Stanza \subseteq Incoming
      /\ \A e \in Incoming : e.type = "message" => e \in Stanza
      /\ \A e \in Incoming : e.type = "enabled" => e.sid \in Nat
  BY DEF Incoming, Stanza
<1>3. \A h \in Handler : /\ h.m \in Messages
                         /\ h.at = "count" => h.seen \in Number
                         /\ h.at = "store" => h.readable \in BOOLEAN
  BY DEF Handler
<1>4. \A q \in Statement : q.op # "last" => q.m \in Messages /\ q.readable \in BOOLEAN
  BY DEF Statement
<1>5. ASSUME NEW q \in Statement, q.op \in {"has", "insert"}
      PROVE  /\ [q EXCEPT !.op = "insert"] \in [op : {"insert"}, m : Messages, readable : BOOLEAN]
             /\ [q EXCEPT !.op = "insert"].m = q.m /\ [q EXCEPT !.op = "insert"].op = "insert"
             /\ [q EXCEPT !.op = "insert"].readable = q.readable
  <2>1. q \in [op : {"has", "insert"}, m : Messages, readable : BOOLEAN]
    BY <1>5 DEF Statement
  <2> QED BY <2>1
<1>6. /\ \A e \in Outgoing : e.type = "a" => e.h \in Nat
      /\ \A e \in Outgoing : e.type = "resume" => e.h \in Nat /\ e.previd \in Nat
      /\ \A e \in Outgoing : e.type = "mam" => e.after \in Nat
  BY DEF Outgoing
<1> QED BY <1>1, <1>2, <1>3, <1>4, <1>5, <1>6

\* The messages a client sends fit the stream.
LEMMA SentTyped ==
    ASSUME TypeOK, NEW e \in Outgoing, Send(e)
    PROVE  c2s' \in Seq(Outgoing)
  BY AppendedTo DEF Send, TypeOK

LEMMA InOrderType ==
    ASSUME NEW S \in SUBSET Messages, NEW mam \in BOOLEAN
    PROVE  /\ InOrder(S, mam) \in Seq(Stanza)
           /\ \A k \in DOMAIN InOrder(S, mam) : /\ InOrder(S, mam)[k].m \in S
                                                /\ InOrder(S, mam)[k].mam = mam
           /\ \A m \in S : \E k \in DOMAIN InOrder(S, mam) : InOrder(S, mam)[k].m = m
<1>1. S \in SUBSET (1 .. Newest) /\ Newest \in Nat
  BY MessageAssumption DEF Messages
<1>2. Cardinality(S) \in Nat
  BY <1>1, RankType
<1>3. \A k \in 1 .. Cardinality(S) : Pick(S, k) \in S
  BY <1>1, PickInIndices
<1>4. \A m \in S : Rank(S, m) \in 1 .. Cardinality(S) /\ Pick(S, Rank(S, m)) = m
  BY <1>1, PickRank
<1>5. \A k \in 1 .. Cardinality(S) : [type |-> "message", m |-> Pick(S, k), mam |-> mam] \in Stanza
  BY <1>3, Fields
<1>6. DOMAIN InOrder(S, mam) = 1 .. Cardinality(S)
  BY DEF InOrder
<1>7. \A k \in 1 .. Cardinality(S) :
         InOrder(S, mam)[k] = [type |-> "message", m |-> Pick(S, k), mam |-> mam]
  BY DEF InOrder
<1>8. InOrder(S, mam) \in Seq(Stanza)
  BY <1>2, <1>5 DEF InOrder
<1> QED BY <1>3, <1>4, <1>6, <1>7, <1>8

\* An acknowledgment removes a prefix.
LEMMA ForgetPrefix ==
    ASSUME srv \in [sid : Nat, valid : BOOLEAN, attached : BOOLEAN, acked : Nat, queue : Seq(Stanza)],
           NEW h \in Nat, NEW on \in BOOLEAN, Forget(h, on)
    PROVE  \E n \in 0 .. Len(srv.queue) :
              /\ srv' = [srv EXCEPT !.attached = on, !.acked = @ + n,
                                    !.queue = SubSeq(@, n + 1, Len(@))]
              /\ n = 0 \/ srv.acked + n <= h
              /\ h <= srv.acked + n \/ n = Len(srv.queue)
              /\ srv' \in [sid : Nat, valid : BOOLEAN, attached : BOOLEAN, acked : Nat,
                           queue : Seq(Stanza)]
<1> DEFINE n == IF h <= srv.acked THEN 0
                ELSE IF h - srv.acked < Len(srv.queue) THEN h - srv.acked ELSE Len(srv.queue)
<1>1. srv.acked \in Nat /\ srv.queue \in Seq(Stanza) /\ Len(srv.queue) \in Nat
  OBVIOUS
<1>2. n \in 0 .. Len(srv.queue) /\ (n = 0 \/ srv.acked + n <= h)
      /\ (h <= srv.acked + n \/ n = Len(srv.queue))
  BY <1>1
<1>3. srv' = [srv EXCEPT !.attached = on, !.acked = @ + n, !.queue = SubSeq(@, n + 1, Len(@))]
  BY DEF Forget
<1> HIDE DEF n
<1>4. SubSeq(srv.queue, n + 1, Len(srv.queue)) \in Seq(Stanza) /\ srv.acked + n \in Nat
  BY <1>1, <1>2
<1> QED BY <1>2, <1>3, <1>4

LEMMA InHandMessages ==
    ASSUME TypeOK
    PROVE  UnderWay \subseteq Messages /\ InHand \subseteq Messages
<1>1. \A h \in BagToSet(handlers) : h.m \in Messages
  BY Fields DEF TypeOK
<1>2. \A q \in BagToSet(lookups) : q.m \in Messages
  BY DEF TypeOK
<1>3. \A k \in DOMAIN dbQueue : dbQueue[k].op # "last" => dbQueue[k].m \in Messages
  BY Fields DEF TypeOK
<1>4. \A e \in BagToSet(processQueue) : e.type = "message" => e.m \in Messages
  BY Fields DEF TypeOK
<1> QED BY <1>1, <1>2, <1>3, <1>4 DEF UnderWay, InHand

LEMMA ConnectionTyped ==
    ASSUME TypeOK, Connect \/ Teardown \/ Read \/ LoseLink \/ Crash
    PROVE  TypeOK'
<1> USE DEF counters, local, store, wire, server, history
<1>0. <<>> \in Seq(Outgoing) /\ <<>> \in Seq(Incoming) /\ <<>> \in Seq(Statement)
  BY NoElements
<1>1. CASE Connect
  <2> DEFINE e == IF persisted.streamID # Nil
                  THEN [type |-> "resume", previd |-> persisted.streamID,
                        h |-> persisted.lastHandled]
                  ELSE [type |-> "enable"]
  <2>1. e \in Outgoing
    BY DEF TypeOK, Outgoing, Number
  <2>2. <<e>> \in Seq(Outgoing)
    BY <2>1
  <2>3. srv' \in [sid : Nat, valid : BOOLEAN, attached : BOOLEAN, acked : Nat, queue : Seq(Stanza)]
    BY <1>1 DEF Connect, TypeOK
  <2>4. lastHandled' \in Nat /\ streamID' \in Number
    BY <1>1 DEF Connect, ReadState, TypeOK
  <2> QED BY <1>0, <1>1, <2>2, <2>3, <2>4 DEF Connect, TypeOK, AccountStates
<1>2. CASE Teardown
  <2>1. faults' \in Nat /\ accountState' \in AccountStates
    BY <1>2 DEF Teardown, TypeOK, AccountStates
  <2> QED BY <1>0, <1>2, <2>1 DEF Teardown, TypeOK
<1>3. CASE Read
  <2>1. Head(s2c) \in Incoming /\ Tail(s2c) \in Seq(Incoming)
    BY <1>3, TailOf DEF Read, TypeOK
  <2>2. IsABag(processQueue') /\ BagToSet(processQueue') \subseteq Incoming
    BY <1>3, <2>1, WithCopy DEF Read, TypeOK
  <2> QED BY <1>3, <2>1, <2>2 DEF Read, TypeOK
<1>4. CASE LoseLink
  <2>1. ASSUME NEW n \in 0 .. Len(s2c), s2c' = SubSeq(s2c, 1, n) PROVE s2c' \in Seq(Incoming)
    BY <2>1 DEF TypeOK
  <2>2. s2c' \in Seq(Incoming)
    BY <1>4, <2>1 DEF LoseLink
  <2>3. faults' \in Nat
    <3>1. faults' = faults + 1
      BY <1>4 DEF LoseLink
    <3> QED BY <3>1 DEF TypeOK
  <2> QED BY <1>0, <1>4, <2>2, <2>3 DEF LoseLink, TypeOK
<1>5. CASE Crash
  <2>1. IsABag(EmptyBag) /\ BagToSet(EmptyBag) = {}
    BY NoCopies
  <2>2. faults' \in Nat /\ crashes' \in Nat /\ accountState' \in AccountStates
    <3>1. faults' = faults + 1 /\ crashes' = crashes + 1 /\ accountState' = "Disconnected"
      BY <1>5 DEF Crash
    <3> QED BY <3>1 DEF TypeOK, AccountStates
  <2>3. interrupted' \subseteq Messages /\ lastHandled' \in Nat /\ streamID' \in Number
    BY <1>5, InHandMessages DEF Crash, TypeOK, Number
  <2> QED BY <1>0, <1>5, <2>1, <2>2, <2>3 DEF Crash, TypeOK
<1> QED BY <1>1, <1>2, <1>3, <1>4, <1>5

LEMMA HandlersTyped ==
    ASSUME TypeOK, ProcessStep
    PROVE  TypeOK'
<1> USE DEF counters, local, store, wire, server, history
<1>0. IsABag(processQueue) /\ IsABag(handlers)
  BY DEF TypeOK
<1>t. ASSUME NEW e \in BagToSet(processQueue), NEW type, Take(e, type)
      PROVE  /\ IsABag(processQueue') /\ BagToSet(processQueue') \subseteq Incoming
             /\ e \in Incoming
  BY <1>0, <1>t, WithoutCopy DEF Take, TypeOK
<1>1. ASSUME NEW e \in BagToSet(processQueue), HandleEnabled(e) PROVE TypeOK'
  <2>1. e \in Incoming /\ e.sid \in Nat
    BY <1>1, <1>t, Fields DEF HandleEnabled, Take
  <2>2. [type |-> "presence"] \in Outgoing /\ [op |-> "last"] \in Statement
    BY DEF Outgoing, Statement
  <2>3. c2s' \in Seq(Outgoing) /\ dbQueue' \in Seq(Statement)
    BY <1>1, <2>2, SentTyped, AppendedTo DEF HandleEnabled, TypeOK
  <2>4. persisted' \in [lastHandled : Nat, streamID : Number]
    BY <1>1, <2>1 DEF HandleEnabled, Saved, Number
  <2> QED BY <1>1, <1>t, <2>1, <2>3, <2>4 DEF HandleEnabled, TypeOK, AccountStates, Number
<1>2. ASSUME NEW e \in BagToSet(processQueue), HandleResumed(e) PROVE TypeOK'
  <2>1. [type |-> "presence"] \in Outgoing
    BY DEF Outgoing
  <2>2. c2s' \in Seq(Outgoing)
    BY <1>2, <2>1, SentTyped DEF HandleResumed
  <2> QED BY <1>2, <1>t, <2>2 DEF HandleResumed, TypeOK, AccountStates
<1>3. ASSUME NEW e \in BagToSet(processQueue), HandleFailed(e) PROVE TypeOK'
  <2>1. [type |-> "enable"] \in Outgoing
    BY DEF Outgoing
  <2>2. c2s' \in Seq(Outgoing)
    BY <1>3, <2>1, SentTyped DEF HandleFailed
  <2>3. persisted' \in [lastHandled : Nat, streamID : Number]
    BY <1>3 DEF HandleFailed, Saved, Number, TypeOK
  <2> QED BY <1>3, <1>t, <2>2, <2>3 DEF HandleFailed, TypeOK, Number
<1>4. ASSUME NEW e \in BagToSet(processQueue), HandleMessage(e) PROVE TypeOK'
  <2> DEFINE h == [at |-> "count", m |-> e.m,
                   seen |-> IF accountState = "Bound" THEN lastHandled ELSE Nil]
  <2>1. e \in Incoming /\ e.m \in Messages
    BY <1>4, <1>t, Fields DEF HandleMessage, Take
  <2>2. h \in Handler
    BY <2>1 DEF Handler, Number, TypeOK
  <2>3. IsABag(handlers') /\ BagToSet(handlers') \subseteq Handler
    BY <1>0, <1>4, <2>2, WithCopy DEF HandleMessage, TypeOK
  <2>4. overlapped' \subseteq Messages
    BY <1>4, <2>1 DEF HandleMessage, TypeOK
  <2> QED BY <1>4, <1>t, <2>3, <2>4 DEF HandleMessage, TypeOK
<1>5. ASSUME NEW h \in BagToSet(handlers), Count(h) PROVE TypeOK'
  <2> DEFINE new == IF h.m \in Encrypted THEN [at |-> "open", m |-> h.m]
                    ELSE [at |-> "store", m |-> h.m, readable |-> TRUE]
  <2>1. h \in Handler /\ h.m \in Messages /\ h.seen \in Number
    BY <1>5, Fields DEF Count, TypeOK
  <2>2. new \in Handler
    BY <2>1 DEF Handler
  <2>r. handlers' = With(Without(handlers, h), new)
    BY <1>5 DEF Count, Replace
  <2> HIDE DEF new
  <2>3. IsABag(handlers') /\ BagToSet(handlers') \subseteq Handler
    BY <1>0, <2>2, <2>r, ReplacedCopy DEF TypeOK
  <2>4. lastHandled' \in Nat
    <3>1. lastHandled' = (IF h.seen = Nil THEN lastHandled ELSE h.seen + 1) /\ lastHandled \in Nat
      BY <1>5 DEF Count, TypeOK
    <3>2. h.seen = Nil \/ h.seen \in Nat
      BY <2>1 DEF Number
    <3> QED BY ONLY <3>1, <3>2
  <2>5. /\ UNCHANGED <<accountState, streamID, persisted, processQueue, dbQueue, lookups,
                        store, wire, server, history>>
    BY <1>5 DEF Count
  <2> QED BY <2>3, <2>4, <2>5 DEF TypeOK
<1>6. ASSUME NEW h \in BagToSet(handlers), Open(h) PROVE TypeOK'
  <2> DEFINE new == [at |-> "store", m |-> h.m, readable |-> h.m \notin opened]
  <2>1. h \in Handler /\ h.m \in Messages
    BY Fields DEF TypeOK
  <2>2. new \in Handler
    BY <2>1 DEF Handler
  <2>3. IsABag(handlers') /\ BagToSet(handlers') \subseteq Handler
    BY <1>0, <1>6, <2>2, ReplacedCopy DEF Open, Replace, TypeOK
  <2> QED BY <1>6, <2>1, <2>3 DEF Open, TypeOK
<1>7. ASSUME NEW h \in BagToSet(handlers), Store(h) PROVE TypeOK'
  <2>1. h \in Handler /\ h.m \in Messages /\ h.readable \in BOOLEAN
    BY <1>7, Fields DEF Store, TypeOK
  <2>2. [op |-> "has", m |-> h.m, readable |-> h.readable] \in Statement
    BY <2>1 DEF Statement
  <2>3. dbQueue' \in Seq(Statement)
    BY <1>7, <2>2, AppendedTo DEF Store, TypeOK
  <2>4. IsABag(handlers') /\ BagToSet(handlers') \subseteq Handler
    BY <1>0, <1>7, WithoutCopy DEF Store, TypeOK
  <2> QED BY <1>7, <2>3, <2>4 DEF Store, TypeOK
<1> QED BY <1>1, <1>2, <1>3, <1>4, <1>5, <1>6, <1>7 DEF ProcessStep

LEMMA StatementsTyped ==
    ASSUME TypeOK, DatabaseStep \/ \E q \in BagToSet(lookups) : TypeFound(q)
    PROVE  TypeOK'
<1> USE DEF counters, local, store, wire, server, history
<1>0. IsABag(lookups)
  BY DEF TypeOK
<1>h. ASSUME NEW op, Executing(op)
      PROVE  Head(dbQueue) \in Statement /\ Head(dbQueue).op = op /\ Tail(dbQueue) \in Seq(Statement)
  BY <1>h, TailOf DEF Executing, TypeOK
<1>1. CASE HasMessageForId
  <2> DEFINE q == [Head(dbQueue) EXCEPT !.op = "insert"]
  <2>1. Head(dbQueue) \in Statement /\ Head(dbQueue).op = "has" /\ Tail(dbQueue) \in Seq(Statement)
    BY <1>1, <1>h DEF HasMessageForId
  <2>2. q \in [op : {"insert"}, m : Messages, readable : BOOLEAN]
    BY <2>1, Fields
  <2>3. lookups' = lookups \/ lookups' = With(lookups, q)
    BY <1>1 DEF HasMessageForId
  <2> HIDE DEF q
  <2>4. /\ IsABag(lookups')
        /\ BagToSet(lookups') \subseteq [op : {"insert"}, m : Messages, readable : BOOLEAN]
    BY <1>0, <2>2, <2>3, WithCopy DEF TypeOK
  <2> QED BY <1>1, <2>1, <2>4 DEF HasMessageForId, TypeOK
<1>2. CASE Insert
  <2>1. /\ Head(dbQueue) \in Statement /\ Head(dbQueue).m \in Messages
        /\ Tail(dbQueue) \in Seq(Statement)
    BY <1>2, <1>h, Fields DEF Insert
  <2>2. rows[Head(dbQueue).m] + 1 \in Nat
    BY <2>1 DEF TypeOK
  <2>3. rows' \in [Messages -> Nat] /\ readable' \subseteq Messages
    BY <1>2, <2>1, <2>2 DEF Insert, TypeOK
  <2> QED BY <1>2, <2>1, <2>3 DEF Insert, TypeOK
<1>3. CASE QueryArchive
  <2> DEFINE stored == {m \in Messages : rows[m] > 0}
             last == CHOOSE m \in stored : \A n \in stored : n <= m
  <2>1. Tail(dbQueue) \in Seq(Statement)
    BY <1>3, <1>h DEF QueryArchive
  <2>2. stored # {} => last \in Nat
    <3> SUFFICES ASSUME stored # {} PROVE last \in stored
      BY MessageAssumption DEF Messages
    <3>1. \E m \in stored : \A n \in stored : n <= m
      BY MessageAssumption, Greatest DEF Messages
    <3> QED BY <3>1
  <2>3. stored # {} => [type |-> "mam", after |-> last] \in Outgoing
    BY <2>2 DEF Outgoing
  <2>4. IF stored = {} THEN UNCHANGED c2s ELSE Send([type |-> "mam", after |-> last])
    BY <1>3 DEF QueryArchive
  <2> HIDE DEF last, stored
  <2>5. c2s' \in Seq(Outgoing)
    BY <2>3, <2>4, SentTyped DEF TypeOK
  <2> QED BY <1>3, <2>1, <2>5 DEF QueryArchive, TypeOK
<1>4. ASSUME NEW q \in BagToSet(lookups), TypeFound(q) PROVE TypeOK'
  <2>1. q \in Statement
    BY DEF TypeOK, Statement
  <2>2. dbQueue' \in Seq(Statement)
    BY <1>4, <2>1, AppendedTo DEF TypeFound, TypeOK
  <2>3. IsABag(lookups') /\ BagToSet(lookups') \subseteq BagToSet(lookups)
    BY <1>0, <1>4, WithoutCopy DEF TypeFound
  <2> QED BY <1>4, <2>2, <2>3 DEF TypeFound, TypeOK
<1> QED BY <1>1, <1>2, <1>3, <1>4 DEF DatabaseStep

\* What a session keeps for a client
Session == [sid : Nat, valid : BOOLEAN, attached : BOOLEAN, acked : Nat, queue : Seq(Stanza)]

LEMMA ServerTyped ==
    ASSUME TypeOK, SendAck \/ PersistState \/ Arrive \/ Server \/ Expire
    PROVE  TypeOK'
<1> USE DEF counters, local, store, wire, server, history
<1>0. /\ srv \in Session /\ srv.queue \in Seq(Stanza) /\ srv.acked \in Nat /\ srv.sid \in Nat
      /\ srv.valid \in BOOLEAN /\ srv.attached \in BOOLEAN
  BY DEF TypeOK, Session
<1>r. ASSUME NEW type, Receive(type)
      PROVE  Head(c2s) \in Outgoing /\ Head(c2s).type = type /\ Tail(c2s) \in Seq(Outgoing)
             /\ c2s' = Tail(c2s)
  BY <1>r, TailOf DEF Receive, TypeOK
<1>d. ASSUME NEW stanzas \in Seq(Stanza), Deliver(stanzas)
      PROVE  srv' \in Session /\ s2c' \in Seq(Incoming)
  <2>1. srv.queue \o stanzas \in Seq(Stanza)
    BY <1>0, Concatenated
  <2>2. srv' \in Session
    BY <1>0, <1>d, <2>1 DEF Deliver, Session
  <2>3. stanzas \in Seq(Incoming)
    BY Fields
  <2>4. s2c' \in Seq(Incoming)
    BY <1>d, <2>3, Concatenated DEF Deliver, TypeOK
  <2> QED BY <2>2, <2>4
<1>l. Live(srv.queue) \subseteq Messages
  BY <1>0, Fields DEF Live
<1>1. CASE SendAck
  <2>1. [type |-> "a", h |-> lastHandled] \in Outgoing
    BY DEF Outgoing, TypeOK
  <2>2. c2s' \in Seq(Outgoing)
    BY <1>1, <2>1, SentTyped DEF SendAck
  <2> QED BY <1>1, <2>2 DEF SendAck, TypeOK
<1>2. CASE PersistState
  <2>1. persisted' \in [lastHandled : Nat, streamID : Number]
    BY <1>2 DEF PersistState, Saved, TypeOK
  <2> QED BY <1>2, <2>1 DEF PersistState, TypeOK
<1>3. CASE Arrive
  <2> DEFINE e == [type |-> "message", m |-> archived + 1, mam |-> FALSE]
  <2>1. archived + 1 \in Messages /\ archived' \in 0 .. Newest
    BY <1>3, MessageAssumption DEF Arrive, TypeOK, Messages
  <2>2. e \in Stanza /\ e \in Incoming
    BY <2>1, Fields
  <2> HIDE DEF e
  <2>3. Append(srv.queue, e) \in Seq(Stanza) /\ Append(s2c, e) \in Seq(Incoming)
    BY <1>0, <2>2, AppendedTo DEF TypeOK
  <2>4. CASE srv.valid
    <3>1. srv' = [srv EXCEPT !.queue = Append(@, e)] /\ s2c' \in {s2c, Append(s2c, e)}
          /\ offline' = offline
      BY <1>3, <2>4 DEF Arrive, e
    <3>2. srv' \in Session
      BY <1>0, <2>3, <3>1 DEF Session
    <3> QED BY <1>3, <2>1, <2>3, <3>1, <3>2 DEF Arrive, TypeOK, Session
  <2>5. CASE ~ srv.valid
    <3>1. srv' = srv /\ s2c' = s2c /\ offline' \in {offline, offline \cup {archived + 1}}
      BY <1>3, <2>5 DEF Arrive
    <3>2. offline' \subseteq Messages
      BY <2>1, <3>1 DEF TypeOK
    <3> QED BY <1>3, <2>1, <3>1, <3>2 DEF Arrive, TypeOK
  <2> QED BY <2>4, <2>5
<1>4. CASE SrvA
  <2>1. Head(c2s) \in Outgoing /\ Head(c2s).type = "a" /\ Tail(c2s) \in Seq(Outgoing)
        /\ c2s' = Tail(c2s)
    BY <1>4, <1>r DEF SrvA
  <2>2. srv' \in Session
    BY <1>0, <1>4, <2>1, ForgetPrefix, Fields DEF SrvA, Session
  <2> QED BY <1>4, <2>1, <2>2 DEF SrvA, TypeOK, Session
<1>5. CASE SrvResume
  <2>1. Head(c2s) \in Outgoing /\ Head(c2s).type = "resume" /\ Tail(c2s) \in Seq(Outgoing)
        /\ c2s' = Tail(c2s)
    BY <1>5, <1>r DEF SrvResume
  <2>2. [type |-> "resumed"] \in Incoming /\ [type |-> "failed"] \in Incoming
    BY DEF Incoming
  <2>3. CASE srv.valid /\ Head(c2s).previd = srv.sid
    <3>1. srv' \in Session
      BY <1>0, <1>5, <2>1, <2>3, ForgetPrefix, Fields DEF SrvResume, Session
    <3>2. srv'.queue \in Seq(Incoming) /\ <<[type |-> "resumed"]>> \in Seq(Incoming)
      BY <2>2, <3>1, Fields DEF Session
    <3>3. s2c' = s2c \o <<[type |-> "resumed"]>> \o srv'.queue
      BY <1>5, <2>3 DEF SrvResume
    <3>4. s2c' \in Seq(Incoming)
      BY <3>2, <3>3, Concatenated DEF TypeOK
    <3> QED BY <1>5, <2>1, <3>1, <3>4 DEF SrvResume, TypeOK, Session
  <2>4. CASE ~ (srv.valid /\ Head(c2s).previd = srv.sid)
    <3>1. s2c' = Append(s2c, [type |-> "failed"]) /\ srv' = srv
      BY <1>5, <2>4 DEF SrvResume
    <3>2. s2c' \in Seq(Incoming)
      BY <2>2, <3>1, AppendedTo DEF TypeOK
    <3> QED BY <1>5, <2>1, <3>1, <3>2 DEF SrvResume, TypeOK
  <2> QED BY <2>3, <2>4
<1>6. CASE SrvEnable
  <2>1. Tail(c2s) \in Seq(Outgoing) /\ c2s' = Tail(c2s)
    BY <1>6, <1>r DEF SrvEnable
  <2>2. srv' \in Session
    BY <1>0, <1>6, NoElements DEF SrvEnable, Session
  <2>3. [type |-> "enabled", sid |-> srv.sid + 1] \in Incoming
    BY <1>0 DEF Incoming
  <2>4. s2c' \in Seq(Incoming)
    BY <1>6, <2>3, AppendedTo DEF SrvEnable, TypeOK
  <2> QED BY <1>6, <1>l, <2>1, <2>2, <2>4 DEF SrvEnable, TypeOK, Session
<1>7. CASE SrvPresence
  <2>1. Tail(c2s) \in Seq(Outgoing) /\ c2s' = Tail(c2s)
    BY <1>7, <1>r DEF SrvPresence
  <2>2. InOrder(offline, FALSE) \in Seq(Stanza)
    BY InOrderType DEF TypeOK
  <2>3. srv' \in Session /\ s2c' \in Seq(Incoming)
    BY <1>7, <1>d, <2>2 DEF SrvPresence
  <2> QED BY <1>7, <2>1, <2>3 DEF SrvPresence, TypeOK, Session
<1>8. CASE SrvArchive
  <2>1. Head(c2s) \in Outgoing /\ Head(c2s).type = "mam" /\ Tail(c2s) \in Seq(Outgoing)
        /\ c2s' = Tail(c2s)
    BY <1>8, <1>r DEF SrvArchive
  <2>2. Head(c2s).after \in Nat /\ archived \in 0 .. Newest
    BY <2>1, Fields DEF TypeOK
  <2>3. Head(c2s).after + 1 .. archived \in SUBSET Messages
    BY <2>2, MessageAssumption DEF Messages
  <2>4. InOrder(Head(c2s).after + 1 .. archived, TRUE) \in Seq(Stanza)
    BY <2>3, InOrderType
  <2>5. srv' \in Session /\ s2c' \in Seq(Incoming)
    BY <1>0, <1>8, <1>d, <2>4 DEF SrvArchive, TypeOK
  <2> QED BY <1>8, <2>1, <2>5 DEF SrvArchive, TypeOK, Session
<1>9. CASE Expire
  <2>1. srv' \in Session
    BY <1>0, <1>9, NoElements DEF Expire, Session
  <2> QED BY <1>9, <1>l, <2>1 DEF Expire, TypeOK, Session
<1> QED BY <1>1, <1>2, <1>3, <1>4, <1>5, <1>6, <1>7, <1>8, <1>9 DEF Server

LEMMA TypeAtFirst == Init => TypeOK
<1> SUFFICES ASSUME Init PROVE TypeOK
  OBVIOUS
<1>1. /\ <<>> \in Seq(Outgoing) /\ <<>> \in Seq(Incoming) /\ <<>> \in Seq(Statement)
      /\ <<>> \in Seq(Stanza)
  BY NoElements
<1>2. IsABag(EmptyBag) /\ BagToSet(EmptyBag) = {}
  BY NoCopies
<1>3. /\ persisted \in [lastHandled : Nat, streamID : Number]
      /\ srv \in [sid : Nat, valid : BOOLEAN, attached : BOOLEAN, acked : Nat,
                  queue : Seq(Stanza)]
  BY <1>1 DEF Init, Saved, Number
<1>4. archived \in 0 .. Newest /\ rows \in [Messages -> Nat]
  BY MessageAssumption DEF Init
<1> QED BY <1>1, <1>2, <1>3, <1>4 DEF Init, TypeOK, AccountStates, Number

LEMMA TypeKept == TypeOK /\ [Next]_vars => TypeOK'
<1> SUFFICES ASSUME TypeOK, [Next]_vars PROVE TypeOK'
  OBVIOUS
<1>1. CASE UNCHANGED vars
  BY <1>1 DEF TypeOK, vars, counters, local, store, wire, server, history
<1> QED BY <1>1, ConnectionTyped, HandlersTyped, StatementsTyped, ServerTyped DEF Next, Local

\* The types hold in every reachable state.
THEOREM TypeCorrect == Spec => []TypeOK
  BY TypeAtFirst, TypeKept, PTL DEF Spec

-----------------------------------------------------------------------------
(* One copy at a time *)

\* A copy of m among some handlers or look-ups; and one at most
Has(b, m) == \E h \in BagToSet(b) : h.m = m
Alone(b, m) == \A g, h \in BagToSet(b) : g.m = m /\ h.m = m => g = h /\ b[g] = 1

\* The same of statements
Asked(q, m) == {k \in DOMAIN q : q[k].op # "last" /\ q[k].m = m}
OneAsked(q, m) == \A j, k \in Asked(q, m) : j = k

LEMMA AloneWith ==
    ASSUME NEW b, IsABag(b), NEW e, NEW m, Alone(b, m), e.m = m => ~Has(b, m)
    PROVE  Alone(With(b, e), m) /\ (Has(With(b, e), m) <=> e.m = m \/ Has(b, m))
<1> DEFINE c == With(b, e)
<1>1. /\ BagToSet(c) = BagToSet(b) \cup {e}
      /\ \A x \in BagToSet(b) : x # e => c[x] = b[x]
      /\ c[e] = IF e \in BagToSet(b) THEN b[e] + 1 ELSE 1
  BY WithCopy
<1> HIDE DEF c
<1>2. ASSUME NEW g \in BagToSet(c), NEW h \in BagToSet(c), g.m = m, h.m = m
      PROVE  g = h /\ c[g] = 1
  <2>1. CASE e.m = m
    <3>1. g = e /\ h = e /\ e \notin BagToSet(b)
      BY <1>1, <1>2, <2>1 DEF Has
    <3> QED BY <1>1, <3>1
  <2>2. CASE e.m # m
    <3>1. g \in BagToSet(b) /\ h \in BagToSet(b) /\ g # e
      BY <1>1, <1>2, <2>2
    <3> QED BY <1>1, <1>2, <3>1 DEF Alone
  <2> QED BY <2>1, <2>2
<1>3. Has(c, m) <=> e.m = m \/ Has(b, m)
  BY <1>1 DEF Has
<1>4. Alone(c, m)
  BY <1>2 DEF Alone
<1> QED BY <1>3, <1>4 DEF c

LEMMA AloneWithout ==
    ASSUME NEW b, IsABag(b), NEW e \in BagToSet(b), NEW m, Alone(b, m)
    PROVE  /\ Alone(Without(b, e), m)
           /\ e.m = m => ~Has(Without(b, e), m)
           /\ e.m # m => (Has(Without(b, e), m) <=> Has(b, m))
<1> DEFINE c == Without(b, e)
<1>1. /\ BagToSet(c) \subseteq BagToSet(b)
      /\ b[e] = 1 => e \notin BagToSet(c)
      /\ \A x \in BagToSet(b) : x # e => x \in BagToSet(c) /\ c[x] = b[x]
  BY WithoutCopy
<1> HIDE DEF c
<1>2. e.m = m => b[e] = 1 /\ \A h \in BagToSet(b) : h.m = m => h = e
  BY DEF Alone
<1>3. e.m = m => ~Has(c, m)
  BY <1>1, <1>2 DEF Has
<1>4. e.m # m => (Has(c, m) <=> Has(b, m)) /\ Alone(c, m)
  <2> SUFFICES ASSUME e.m # m PROVE (Has(c, m) <=> Has(b, m)) /\ Alone(c, m)
    OBVIOUS
  <2>1. \A h \in BagToSet(b) : h.m = m => h # e
    OBVIOUS
  <2>2. \A h \in BagToSet(b) : h.m = m => h \in BagToSet(c) /\ c[h] = b[h]
    BY <1>1, <2>1
  <2> QED BY <1>1, <2>2 DEF Has, Alone
<1>5. e.m = m => Alone(c, m)
  BY <1>3 DEF Has, Alone
<1> QED BY <1>3, <1>4, <1>5 DEF c

LEMMA AskedAgain ==
    ASSUME NEW q \in Seq(Statement), NEW s \in Statement, s.op # "last", NEW m, OneAsked(q, m),
           s.m = m => Asked(q, m) = {}
    PROVE  /\ OneAsked(Append(q, s), m)
           /\ \A k \in Asked(Append(q, s), m) : \/ k \in Asked(q, m) /\ Append(q, s)[k] = q[k]
                                                \/ s.m = m /\ Append(q, s)[k] = s
           /\ Asked(Append(q, s), m) # {} <=> s.m = m \/ Asked(q, m) # {}
<1>1. /\ DOMAIN Append(q, s) = DOMAIN q \cup {Len(q) + 1} /\ Len(q) + 1 \notin DOMAIN q
      /\ Append(q, s)[Len(q) + 1] = s
      /\ \A k \in DOMAIN q : Append(q, s)[k] = q[k]
  OBVIOUS
<1>2. Asked(Append(q, s), m) = Asked(q, m) \cup (IF s.m = m THEN {Len(q) + 1} ELSE {})
  BY <1>1 DEF Asked
<1>3. OneAsked(Append(q, s), m)
  BY <1>2 DEF OneAsked
<1>4. \A k \in Asked(q, m) : Append(q, s)[k] = q[k]
  BY <1>1 DEF Asked
<1> QED BY <1>1, <1>2, <1>3, <1>4

LEMMA AskedFirst ==
    ASSUME NEW q \in Seq(Statement), q # <<>>, NEW m, OneAsked(q, m)
    PROVE  /\ OneAsked(Tail(q), m)
           /\ \A k \in Asked(Tail(q), m) : k + 1 \in Asked(q, m) /\ Tail(q)[k] = q[k + 1]
           /\ Head(q).op # "last" /\ Head(q).m = m => 1 \in Asked(q, m) /\ Asked(Tail(q), m) = {}
           /\ ~ (Head(q).op # "last" /\ Head(q).m = m) =>
                 (Asked(Tail(q), m) # {} <=> Asked(q, m) # {})
<1>1. /\ \A k \in DOMAIN Tail(q) : k \in Nat \ {0} /\ k + 1 \in DOMAIN q /\ Tail(q)[k] = q[k + 1]
      /\ \A k \in DOMAIN q : k = 1 \/ (k - 1 \in DOMAIN Tail(q) /\ Tail(q)[k - 1] = q[k])
      /\ 1 \in DOMAIN q /\ q[1] = Head(q)
  OBVIOUS
<1>2. \A k \in Asked(Tail(q), m) : k + 1 \in Asked(q, m) /\ Tail(q)[k] = q[k + 1] /\ k \in Nat \ {0}
  BY <1>1 DEF Asked
<1>3. \A k \in Asked(q, m) : k = 1 \/ k - 1 \in Asked(Tail(q), m)
  BY <1>1 DEF Asked
<1>4. OneAsked(Tail(q), m)
  <2> SUFFICES ASSUME NEW j \in Asked(Tail(q), m), NEW k \in Asked(Tail(q), m) PROVE j = k
    BY DEF OneAsked
  <2>1. j + 1 = k + 1
    BY <1>2 DEF OneAsked
  <2> QED BY <1>2, <2>1
<1>5. Head(q).op # "last" /\ Head(q).m = m <=> 1 \in Asked(q, m)
  BY <1>1 DEF Asked
<1>6. 1 \in Asked(q, m) => Asked(Tail(q), m) = {}
  <2> SUFFICES ASSUME 1 \in Asked(q, m), NEW k \in Asked(Tail(q), m) PROVE FALSE
    OBVIOUS
  <2>1. k + 1 = 1 /\ k \in Nat \ {0}
    BY <1>2 DEF OneAsked
  <2> QED BY <2>1
<1>7. 1 \notin Asked(q, m) => (Asked(Tail(q), m) # {} <=> Asked(q, m) # {})
  BY <1>2, <1>3
<1> QED BY <1>2, <1>4, <1>5, <1>6, <1>7

\* A message that has not met a second copy is in one place, and its row is
\* asked for only while there is none, or none that the search finds.
Checked(m) == Has(lookups, m) \/ \E k \in Asked(dbQueue, m) : dbQueue[k].op = "insert"

Sole(m) ==
    /\ Alone(handlers, m) /\ Alone(lookups, m) /\ OneAsked(dbQueue, m)
    /\ Has(handlers, m) => ~Has(lookups, m) /\ Asked(dbQueue, m) = {}
    /\ Has(lookups, m) => Asked(dbQueue, m) = {}
    /\ m \notin Untraceable => rows[m] <= 1 /\ (Checked(m) => rows[m] = 0)

Single == \A m \in Messages \ overlapped : Sole(m)

\* A handler of a copy starts.
LEMMA StartKeepsSole ==
    ASSUME TypeOK, NEW e \in BagToSet(processQueue), HandleMessage(e),
           NEW m \in Messages, m \notin overlapped', Sole(m)
    PROVE  Sole(m)'
<1> DEFINE h == [at |-> "count", m |-> e.m,
                 seen |-> IF accountState = "Bound" THEN lastHandled ELSE Nil]
<1>1. handlers' = With(handlers, h) /\ UNCHANGED <<dbQueue, lookups, rows>>
  BY DEF HandleMessage, store
<1>2. h.m = e.m
  OBVIOUS
<1>3. e.m = m => m \notin UnderWay
  BY DEF HandleMessage
<1>4. m \notin UnderWay => ~Has(handlers, m) /\ ~Has(lookups, m) /\ Asked(dbQueue, m) = {}
  BY DEF UnderWay, Has, Asked
<1> HIDE DEF h
<1>5. Alone(handlers', m) /\ (Has(handlers', m) <=> e.m = m \/ Has(handlers, m))
  BY <1>1, <1>2, <1>3, <1>4, AloneWith DEF Sole, TypeOK
<1> QED BY <1>1, <1>3, <1>4, <1>5 DEF Sole, Checked

\* A handler goes on, or hands its message to the database.
LEMMA HandlerKeepsSole ==
    ASSUME TypeOK, NEW h \in BagToSet(handlers), Count(h) \/ Open(h) \/ Store(h),
           NEW m \in Messages, Sole(m)
    PROVE  Sole(m)'
<1>0. IsABag(handlers) /\ h \in Handler /\ Alone(handlers, m)
  BY DEF TypeOK, Sole
<1>1. ASSUME NEW new, new.m = h.m, handlers' = With(Without(handlers, h), new),
             UNCHANGED <<dbQueue, lookups, rows>>
      PROVE  Sole(m)'
  <2> DEFINE c == Without(handlers, h)
  <2>1. /\ IsABag(c) /\ Alone(c, m) /\ (h.m = m => ~Has(c, m))
        /\ h.m # m => (Has(c, m) <=> Has(handlers, m))
    BY <1>0, AloneWithout, WithoutCopy
  <2> HIDE DEF c
  <2>2. Alone(With(c, new), m) /\ (Has(With(c, new), m) <=> new.m = m \/ Has(c, m))
    BY <1>1, <2>1, AloneWith
  <2>3. h.m = m => Has(handlers, m)
    BY DEF Has
  <2>4. Alone(handlers', m) /\ (Has(handlers', m) <=> Has(handlers, m))
    BY <1>1, <2>1, <2>2, <2>3 DEF c
  <2> QED BY <1>1, <2>4 DEF Sole, Checked
<1>2. CASE Count(h)
  <2> DEFINE new == IF h.m \in Encrypted THEN [at |-> "open", m |-> h.m]
                    ELSE [at |-> "store", m |-> h.m, readable |-> TRUE]
  <2>1. new.m = h.m
    OBVIOUS
  <2>2. handlers' = With(Without(handlers, h), new) /\ UNCHANGED <<dbQueue, lookups, rows>>
    BY <1>2 DEF Count, Replace, store
  <2> HIDE DEF new
  <2> QED BY <1>1, <2>1, <2>2
<1>3. CASE Open(h)
  <2> DEFINE new == [at |-> "store", m |-> h.m, readable |-> h.m \notin opened]
  <2>1. new.m = h.m
    OBVIOUS
  <2>2. handlers' = With(Without(handlers, h), new) /\ UNCHANGED <<dbQueue, lookups, rows>>
    BY <1>3 DEF Open, Replace
  <2> HIDE DEF new
  <2> QED BY <1>1, <2>1, <2>2
<1>4. CASE Store(h)
  <2> DEFINE s == [op |-> "has", m |-> h.m, readable |-> h.readable]
  <2>1. h.m \in Messages /\ h.readable \in BOOLEAN
    BY <1>0, <1>4, Fields DEF Store
  <2>2. s \in Statement /\ s.op = "has" /\ s.m = h.m
    BY <2>1 DEF Statement
  <2>3. /\ handlers' = Without(handlers, h) /\ dbQueue' = Append(dbQueue, s)
        /\ UNCHANGED <<lookups, rows>>
    BY <1>4 DEF Store, store
  <2> HIDE DEF s
  <2>4. /\ Alone(handlers', m) /\ (h.m = m => ~Has(handlers', m))
        /\ h.m # m => (Has(handlers', m) <=> Has(handlers, m))
    BY <1>0, <2>3, AloneWithout
  <2>5. h.m = m => Has(handlers, m)
    BY DEF Has
  <2>6. /\ s.m = m => Asked(dbQueue, m) = {}
        /\ s.op # "last" /\ dbQueue \in Seq(Statement) /\ OneAsked(dbQueue, m)
    BY <2>2, <2>5 DEF Sole, TypeOK
  <2>a. /\ OneAsked(Append(dbQueue, s), m)
        /\ \A k \in Asked(Append(dbQueue, s), m) :
              \/ k \in Asked(dbQueue, m) /\ Append(dbQueue, s)[k] = dbQueue[k]
              \/ s.m = m /\ Append(dbQueue, s)[k] = s
        /\ Asked(Append(dbQueue, s), m) # {} <=> s.m = m \/ Asked(dbQueue, m) # {}
    BY <2>2, <2>6, AskedAgain
  <2>7. /\ OneAsked(dbQueue', m)
        /\ \A k \in Asked(dbQueue', m) : \/ k \in Asked(dbQueue, m) /\ dbQueue'[k] = dbQueue[k]
                                         \/ s.m = m /\ dbQueue'[k] = s
        /\ Asked(dbQueue', m) # {} <=> s.m = m \/ Asked(dbQueue, m) # {}
    BY <2>3, <2>a
  <2>8. Checked(m)' => Checked(m)
    BY <2>2, <2>3, <2>7 DEF Checked
  <2>9. Has(handlers', m) => h.m # m /\ Has(handlers, m)
    BY <2>4
  <2>10. Has(handlers', m) => ~Has(lookups', m) /\ Asked(dbQueue', m) = {}
    BY <2>2, <2>3, <2>7, <2>9 DEF Sole
  <2>11. Has(lookups', m) => Asked(dbQueue', m) = {}
    BY <2>2, <2>3, <2>5, <2>7 DEF Sole
  <2> QED BY <2>3, <2>4, <2>7, <2>8, <2>10, <2>11 DEF Sole
<1> QED BY <1>2, <1>3, <1>4

\* The head of _dbQueue is executed.
LEMMA HeadAsked ==
    ASSUME TypeOK, dbQueue # <<>>, NEW m \in Messages, OneAsked(dbQueue, m),
           dbQueue' = Tail(dbQueue)
    PROVE  /\ OneAsked(dbQueue', m)
           /\ \A k \in Asked(dbQueue', m) : k + 1 \in Asked(dbQueue, m)
                                            /\ dbQueue'[k] = dbQueue[k + 1]
           /\ Head(dbQueue).op # "last" /\ Head(dbQueue).m = m =>
                 /\ 1 \in Asked(dbQueue, m) /\ dbQueue[1] = Head(dbQueue)
                 /\ Asked(dbQueue', m) = {}
           /\ ~ (Head(dbQueue).op # "last" /\ Head(dbQueue).m = m) =>
                 (Asked(dbQueue', m) # {} <=> Asked(dbQueue, m) # {})
<1>1. dbQueue \in Seq(Statement) /\ dbQueue[1] = Head(dbQueue)
  BY DEF TypeOK
<1>2. /\ OneAsked(Tail(dbQueue), m)
      /\ \A k \in Asked(Tail(dbQueue), m) : k + 1 \in Asked(dbQueue, m)
                                            /\ Tail(dbQueue)[k] = dbQueue[k + 1]
      /\ Head(dbQueue).op # "last" /\ Head(dbQueue).m = m =>
            1 \in Asked(dbQueue, m) /\ Asked(Tail(dbQueue), m) = {}
      /\ ~ (Head(dbQueue).op # "last" /\ Head(dbQueue).m = m) =>
            (Asked(Tail(dbQueue), m) # {} <=> Asked(dbQueue, m) # {})
  BY <1>1, AskedFirst
<1> QED BY <1>1, <1>2

\* The look-up of a message ends: its row is asked for.
LEMMA LookupAsked ==
    ASSUME TypeOK, NEW q \in BagToSet(lookups), TypeFound(q), NEW m \in Messages, Sole(m)
    PROVE  /\ OneAsked(dbQueue', m)
           /\ \A k \in Asked(dbQueue', m) : \/ k \in Asked(dbQueue, m) /\ dbQueue'[k] = dbQueue[k]
                                            \/ q.m = m /\ dbQueue'[k] = q
           /\ Asked(dbQueue', m) # {} <=> q.m = m \/ Asked(dbQueue, m) # {}
<1>1. /\ q \in Statement /\ q.op = "insert" /\ dbQueue' = Append(dbQueue, q)
      /\ dbQueue \in Seq(Statement) /\ OneAsked(dbQueue, m)
  BY DEF TypeFound, TypeOK, Statement, Sole
<1>2. q.m = m => Has(lookups, m)
  BY DEF Has
<1>3. q.op # "last" /\ (q.m = m => Asked(dbQueue, m) = {})
  BY <1>1, <1>2 DEF Sole
<1>4. /\ OneAsked(Append(dbQueue, q), m)
      /\ \A k \in Asked(Append(dbQueue, q), m) :
            \/ k \in Asked(dbQueue, m) /\ Append(dbQueue, q)[k] = dbQueue[k]
            \/ q.m = m /\ Append(dbQueue, q)[k] = q
      /\ Asked(Append(dbQueue, q), m) # {} <=> q.m = m \/ Asked(dbQueue, m) # {}
  BY <1>1, <1>3, AskedAgain
<1> QED BY <1>1, <1>4

LEMMA StatementKeepsSole ==
    ASSUME TypeOK, DatabaseStep \/ \E q \in BagToSet(lookups) : TypeFound(q),
           NEW m \in Messages, Sole(m)
    PROVE  Sole(m)'
<1>0. /\ IsABag(lookups) /\ dbQueue \in Seq(Statement) /\ rows[m] \in Nat
      /\ Alone(lookups, m) /\ OneAsked(dbQueue, m)
  BY DEF TypeOK, Sole
<1>1. CASE HasMessageForId
  <2> DEFINE q == [Head(dbQueue) EXCEPT !.op = "insert"]
  <2>1. /\ Head(dbQueue) \in Statement /\ Head(dbQueue).op = "has" /\ dbQueue # <<>>
        /\ dbQueue' = Tail(dbQueue) /\ UNCHANGED <<handlers, rows>>
    BY <1>0, <1>1, TailOf DEF HasMessageForId, Executing, store
  <2>2. /\ OneAsked(dbQueue', m)
        /\ \A k \in Asked(dbQueue', m) : k + 1 \in Asked(dbQueue, m)
                                         /\ dbQueue'[k] = dbQueue[k + 1]
        /\ Head(dbQueue).m = m => 1 \in Asked(dbQueue, m) /\ Asked(dbQueue', m) = {}
        /\ Head(dbQueue).m # m => (Asked(dbQueue', m) # {} <=> Asked(dbQueue, m) # {})
    BY <1>0, <2>1, HeadAsked
  <2>3. q.m = Head(dbQueue).m
    BY <2>1, Fields
  <2>4. lookups' = IF Exists(Head(dbQueue).m) THEN lookups ELSE With(lookups, q)
    BY <1>1 DEF HasMessageForId
  <2> HIDE DEF q
  <2>5. Head(dbQueue).m = m => ~Has(lookups, m) /\ ~Has(handlers, m)
    BY <2>2 DEF Sole
  <2>6. Alone(With(lookups, q), m) /\ (Has(With(lookups, q), m) <=> q.m = m \/ Has(lookups, m))
    BY <1>0, <2>3, <2>5, AloneWith
  <2>7. Alone(lookups', m)
    BY <1>0, <2>4, <2>6
  <2>8. Has(lookups', m) => \/ Has(lookups, m)
                            \/ Head(dbQueue).m = m /\ (rows[m] = 0 \/ m \in Untraceable)
    BY <1>0, <2>3, <2>4, <2>6 DEF Exists
  <2>9. Asked(dbQueue', m) # {} => Head(dbQueue).m # m /\ Asked(dbQueue, m) # {}
    BY <2>2
  <2>10. Has(handlers', m) => ~Has(lookups', m) /\ Asked(dbQueue', m) = {}
    BY <2>1, <2>5, <2>8, <2>9 DEF Sole
  <2>11. Has(lookups', m) => Asked(dbQueue', m) = {}
    BY <2>8, <2>9 DEF Sole
  <2>12. m \notin Untraceable /\ Checked(m)' => rows[m] = 0
    BY <2>2, <2>8 DEF Checked, Sole
  <2> QED BY <2>1, <2>2, <2>7, <2>10, <2>11, <2>12 DEF Sole
<1>2. CASE Insert
  <2>1. /\ Head(dbQueue) \in Statement /\ Head(dbQueue).op = "insert" /\ dbQueue # <<>>
        /\ dbQueue' = Tail(dbQueue) /\ UNCHANGED <<handlers, lookups>>
        /\ rows' = [rows EXCEPT ![Head(dbQueue).m] = @ + 1]
    BY <1>0, <1>2, TailOf DEF Insert, Executing
  <2>2. /\ OneAsked(dbQueue', m)
        /\ \A k \in Asked(dbQueue', m) : k + 1 \in Asked(dbQueue, m)
                                         /\ dbQueue'[k] = dbQueue[k + 1]
        /\ Head(dbQueue).m = m => /\ 1 \in Asked(dbQueue, m) /\ dbQueue[1] = Head(dbQueue)
                                  /\ Asked(dbQueue', m) = {}
        /\ Head(dbQueue).m # m => (Asked(dbQueue', m) # {} <=> Asked(dbQueue, m) # {})
    BY <1>0, <2>1, HeadAsked
  <2>3. CASE Head(dbQueue).m = m
    <3>1. ~Has(lookups, m) /\ (m \notin Untraceable => rows[m] = 0)
      BY <2>1, <2>2, <2>3 DEF Checked, Sole
    <3>2. m \notin Untraceable => rows'[m] = 1
      BY <2>1, <2>3, <3>1 DEF TypeOK
    <3>3. ~ Checked(m)'
      BY <2>1, <2>2, <2>3, <3>1 DEF Checked
    <3> QED BY <2>1, <2>2, <2>3, <3>2, <3>3 DEF Sole
  <2>4. CASE Head(dbQueue).m # m
    <3>1. rows'[m] = rows[m]
      BY <2>1, <2>4 DEF TypeOK
    <3>2. Checked(m)' => Checked(m)
      BY <2>1, <2>2 DEF Checked
    <3> QED BY <2>1, <2>2, <2>4, <3>1, <3>2 DEF Sole
  <2> QED BY <2>3, <2>4
<1>3. CASE QueryArchive
  <2>1. /\ Head(dbQueue).op = "last" /\ dbQueue # <<>>
        /\ dbQueue' = Tail(dbQueue) /\ UNCHANGED <<handlers, lookups, rows>>
    BY <1>3 DEF QueryArchive, Executing, store
  <2>2. /\ OneAsked(dbQueue', m)
        /\ \A k \in Asked(dbQueue', m) : k + 1 \in Asked(dbQueue, m)
                                         /\ dbQueue'[k] = dbQueue[k + 1]
        /\ Asked(dbQueue', m) # {} <=> Asked(dbQueue, m) # {}
    BY <1>0, <2>1, HeadAsked
  <2>3. Checked(m)' => Checked(m)
    BY <2>1, <2>2 DEF Checked
  <2> QED BY <2>1, <2>2, <2>3 DEF Sole
<1>4. ASSUME NEW q \in BagToSet(lookups), TypeFound(q) PROVE Sole(m)'
  <2>1. /\ q \in Statement /\ q.op = "insert"
        /\ dbQueue' = Append(dbQueue, q) /\ lookups' = Without(lookups, q)
        /\ UNCHANGED <<handlers, rows>>
    BY <1>4 DEF TypeFound, store, TypeOK, Statement
  <2>2. /\ Alone(lookups', m) /\ (q.m = m => ~Has(lookups', m))
        /\ q.m # m => (Has(lookups', m) <=> Has(lookups, m))
    BY <1>0, <2>1, AloneWithout
  <2>3. q.m = m => Has(lookups, m)
    BY DEF Has
  <2>4. q.m = m => Asked(dbQueue, m) = {}
    BY <2>3 DEF Sole
  <2>5. /\ OneAsked(dbQueue', m)
        /\ \A k \in Asked(dbQueue', m) : \/ k \in Asked(dbQueue, m) /\ dbQueue'[k] = dbQueue[k]
                                         \/ q.m = m /\ dbQueue'[k] = q
        /\ Asked(dbQueue', m) # {} <=> q.m = m \/ Asked(dbQueue, m) # {}
    BY <1>4, LookupAsked
  <2>6. Checked(m)' => Checked(m)
    BY <2>1, <2>2, <2>3, <2>5 DEF Checked
  <2>7. Has(handlers', m) => ~Has(lookups', m) /\ Asked(dbQueue', m) = {}
    BY <2>1, <2>2, <2>3, <2>5 DEF Sole
  <2>8. Has(lookups', m) => Asked(dbQueue', m) = {}
    BY <2>1, <2>2, <2>5 DEF Sole
  <2> QED BY <2>1, <2>2, <2>5, <2>6, <2>7, <2>8 DEF Sole
<1> QED BY <1>1, <1>2, <1>3, <1>4 DEF DatabaseStep

\* The question for the last message is about no message in particular.
LEMMA OtherStatement ==
    ASSUME NEW q \in Seq(Statement), NEW m
    PROVE  LET r == Append(q, [op |-> "last"]) IN
           Asked(r, m) = Asked(q, m) /\ \A k \in Asked(q, m) : r[k] = q[k]
<1> DEFINE r == Append(q, [op |-> "last"])
<1>1. /\ DOMAIN r = DOMAIN q \cup {Len(q) + 1}
      /\ r[Len(q) + 1] = [op |-> "last"]
      /\ \A k \in DOMAIN q : r[k] = q[k]
  OBVIOUS
<1> HIDE DEF r
<1>2. Asked(r, m) = Asked(q, m)
  BY <1>1 DEF Asked
<1>3. \A k \in Asked(q, m) : r[k] = q[k]
  BY <1>1 DEF Asked
<1> QED BY <1>2, <1>3 DEF r

\* Steps that move no message of the client
Elsewhere ==
    \/ Connect \/ Teardown \/ Read \/ LoseLink
    \/ SendAck \/ PersistState \/ Arrive \/ Server \/ Expire
    \/ \E e \in BagToSet(processQueue) : HandleResumed(e) \/ HandleFailed(e)

LEMMA ElsewhereUnchanged ==
    ASSUME Elsewhere
    PROVE  UNCHANGED <<handlers, dbQueue, lookups, rows, readable, opened, interrupted,
                       overlapped>>
<1> USE DEF local, store, history
<1>1. CASE Connect \/ Teardown \/ Read \/ LoseLink
  BY <1>1 DEF Connect, Teardown, Read, LoseLink
<1>2. CASE SendAck \/ PersistState \/ Arrive \/ Expire
  BY <1>2 DEF SendAck, PersistState, Arrive, Expire
<1>3. CASE Server
  BY <1>3 DEF Server, SrvA, SrvResume, SrvEnable, SrvPresence, SrvArchive
<1>4. ASSUME NEW e \in BagToSet(processQueue), HandleResumed(e) \/ HandleFailed(e)
      PROVE  UNCHANGED <<handlers, dbQueue, lookups, rows, readable, opened, interrupted,
                         overlapped>>
  BY <1>4 DEF HandleResumed, HandleFailed
<1> QED BY <1>1, <1>2, <1>3, <1>4 DEF Elsewhere

LEMMA EnabledUnchanged ==
    ASSUME TypeOK, NEW e \in BagToSet(processQueue), HandleEnabled(e), NEW m
    PROVE  /\ Asked(dbQueue', m) = Asked(dbQueue, m)
           /\ \A k \in Asked(dbQueue, m) : dbQueue'[k] = dbQueue[k]
           /\ UNCHANGED <<handlers, lookups, rows, readable, opened, interrupted, overlapped>>
<1>1. /\ dbQueue \in Seq(Statement) /\ dbQueue' = Append(dbQueue, [op |-> "last"])
      /\ UNCHANGED <<handlers, lookups, rows, readable, opened, interrupted, overlapped>>
  BY DEF HandleEnabled, store, history, TypeOK
<1>2. LET r == Append(dbQueue, [op |-> "last"]) IN
      Asked(r, m) = Asked(dbQueue, m) /\ \A k \in Asked(dbQueue, m) : r[k] = dbQueue[k]
  BY <1>1, OtherStatement
<1> QED BY <1>1, <1>2

\* A kill clears what is under way.
LEMMA NothingLeft ==
    ASSUME Crash, NEW m
    PROVE  /\ Alone(handlers', m) /\ Alone(lookups', m) /\ OneAsked(dbQueue', m)
           /\ BagToSet(handlers') = {} /\ BagToSet(lookups') = {} /\ Asked(dbQueue', m) = {}
           /\ interrupted' = interrupted \cup InHand
           /\ UNCHANGED <<rows, readable, opened, overlapped>>
<1>1. BagToSet(EmptyBag) = {}
  BY NoCopies
<1>2. /\ handlers' = EmptyBag /\ lookups' = EmptyBag /\ dbQueue' = <<>>
      /\ interrupted' = interrupted \cup InHand
      /\ UNCHANGED <<rows, readable, opened, overlapped>>
  BY DEF Crash, store
<1>3. Asked(<<>>, m) = {}
  BY DEF Asked
<1> QED BY <1>1, <1>2, <1>3 DEF Alone, OneAsked

LEMMA SingleKept ==
    ASSUME TypeOK, Single, [Next]_vars
    PROVE  Single'
<1> SUFFICES ASSUME NEW m \in Messages, m \notin overlapped' PROVE Sole(m)'
  BY DEF Single
<1>1. overlapped \subseteq overlapped' => Sole(m)
  BY DEF Single
<1>2. CASE Elsewhere
  <2>1. UNCHANGED <<handlers, dbQueue, lookups, rows, overlapped>>
    BY <1>2, ElsewhereUnchanged
  <2> QED BY <1>1, <2>1 DEF Sole, Checked
<1>3. CASE UNCHANGED vars
  BY <1>1, <1>3 DEF vars, local, store, history, Sole, Checked
<1>4. ASSUME NEW e \in BagToSet(processQueue), HandleEnabled(e) PROVE Sole(m)'
  <2>1. /\ Asked(dbQueue', m) = Asked(dbQueue, m)
        /\ \A k \in Asked(dbQueue, m) : dbQueue'[k] = dbQueue[k]
        /\ UNCHANGED <<handlers, lookups, rows, overlapped>>
    BY <1>4, EnabledUnchanged
  <2>2. Checked(m)' => Checked(m)
    BY <2>1 DEF Checked
  <2> QED BY <1>1, <2>1, <2>2 DEF Sole, OneAsked
<1>5. ASSUME NEW e \in BagToSet(processQueue), HandleMessage(e) PROVE Sole(m)'
  <2>1. overlapped \subseteq overlapped'
    BY <1>5 DEF HandleMessage
  <2> QED BY <1>1, <1>5, <2>1, StartKeepsSole
<1>6. ASSUME NEW h \in BagToSet(handlers), Count(h) \/ Open(h) \/ Store(h) PROVE Sole(m)'
  <2>1. overlapped' = overlapped
    BY <1>6 DEF Count, Open, Store, history
  <2> QED BY <1>1, <1>6, <2>1, HandlerKeepsSole
<1>7. CASE DatabaseStep \/ \E q \in BagToSet(lookups) : TypeFound(q)
  <2>1. overlapped' = overlapped
    BY <1>7 DEF DatabaseStep, HasMessageForId, Insert, QueryArchive, TypeFound, history
  <2> QED BY <1>1, <1>7, <2>1, StatementKeepsSole
<1>8. CASE Crash
  <2>1. /\ Alone(handlers', m) /\ Alone(lookups', m) /\ OneAsked(dbQueue', m)
        /\ BagToSet(handlers') = {} /\ BagToSet(lookups') = {} /\ Asked(dbQueue', m) = {}
        /\ UNCHANGED <<rows, overlapped>>
    BY <1>8, NothingLeft
  <2> QED BY <1>1, <2>1 DEF Sole, Checked, Has
<1> QED BY <1>2, <1>3, <1>4, <1>5, <1>6, <1>7, <1>8 DEF Next, Local, ProcessStep, Elsewhere

LEMMA SingleAtFirst == Init => Single
<1> SUFFICES ASSUME Init, NEW m \in Messages PROVE Sole(m)
  BY DEF Single
<1>1. BagToSet(EmptyBag) = {}
  BY NoCopies
<1>2. /\ BagToSet(handlers) = {} /\ BagToSet(lookups) = {} /\ dbQueue = <<>> /\ rows[m] = 0
  BY <1>1 DEF Init
<1>3. Asked(dbQueue, m) = {}
  BY <1>2 DEF Asked
<1> QED BY <1>2, <1>3 DEF Sole, Alone, OneAsked, Has, Checked

\* A message has two rows only if the handler of a second copy started before the
\* first was stored (addMessageFrom asks and inserts in two statements), or if it
\* came without an id (MLMessageProcessor makes one up for each copy).
THEOREM DuplicatesOverlap == Spec => []DuplicateNeedsOverlap
<1>1. Init => TypeOK /\ Single
  BY TypeAtFirst, SingleAtFirst
<1>2. TypeOK /\ Single /\ [Next]_vars => (TypeOK /\ Single)'
  BY TypeKept, SingleKept
<1>3. TypeOK /\ Single => DuplicateNeedsOverlap
  <2> SUFFICES ASSUME TypeOK, Single, NEW m \in Messages, rows[m] > 1,
                      m \notin overlapped, m \notin Untraceable
               PROVE  FALSE
    BY DEF DuplicateNeedsOverlap
  <2>1. rows[m] \in Nat /\ rows[m] <= 1
    BY DEF TypeOK, Single, Sole
  <2> QED BY <2>1
<1> QED BY <1>1, <1>2, <1>3, PTL DEF Spec

-----------------------------------------------------------------------------
(* Readable rows *)

\* A message whose key is used up has a row or is on its way to one, and what
\* is on its way without a row is the text.
AtStore(h, m) == h.m = m /\ h.at = "store"

OnItsWay(m) ==
    \/ Has(lookups, m) \/ Asked(dbQueue, m) # {}
    \/ \E h \in BagToSet(handlers) : AtStore(h, m)

Legible(m) ==
    /\ rows[m] > 0 => m \in readable
    /\ m \in opened => rows[m] > 0 \/ OnItsWay(m)
    /\ \A h \in BagToSet(handlers) : AtStore(h, m) /\ ~h.readable => rows[m] > 0
    /\ \A q \in BagToSet(lookups) : q.m = m => q.readable \/ rows[m] > 0
    /\ \A k \in Asked(dbQueue, m) : dbQueue[k].readable \/ rows[m] > 0

AllLegible == \A m \in Messages \ (overlapped \cup interrupted) : Legible(m)

LEMMA HandlerKeepsLegible ==
    ASSUME TypeOK, NEW h \in BagToSet(handlers), Count(h) \/ Open(h) \/ Store(h),
           NEW m \in Messages, Sole(m), Legible(m)
    PROVE  Legible(m)'
<1>0. /\ IsABag(handlers) /\ h \in Handler /\ dbQueue \in Seq(Statement)
      /\ h.m = m => /\ ~Has(lookups, m) /\ Asked(dbQueue, m) = {}
                    /\ \A g \in BagToSet(handlers) : g.m = m => g = h
  BY DEF TypeOK, Sole, Has, Alone
<1>1. CASE Count(h)
  <2> DEFINE new == IF h.m \in Encrypted THEN [at |-> "open", m |-> h.m]
                    ELSE [at |-> "store", m |-> h.m, readable |-> TRUE]
  <2>1. AtStore(new, m) => new.readable = TRUE
    BY DEF AtStore
  <2>2. handlers' = With(Without(handlers, h), new)
        /\ UNCHANGED <<dbQueue, lookups, rows, readable, opened>>
    BY <1>1 DEF Count, Replace, store
  <2> HIDE DEF new
  <2>3. /\ BagToSet(handlers') \subseteq BagToSet(handlers) \cup {new}
        /\ \A x \in BagToSet(handlers) : x # h => x \in BagToSet(handlers')
    BY <1>0, <2>2, ReplacedCopy
  <2>4. ~AtStore(h, m)
    BY <1>1 DEF Count, AtStore
  <2>5. OnItsWay(m) => OnItsWay(m)'
    BY <2>2, <2>3, <2>4 DEF OnItsWay
  <2>6. \A g \in BagToSet(handlers') : AtStore(g, m) /\ ~g.readable => rows[m] > 0
    BY <2>1, <2>3 DEF Legible
  <2> QED BY <2>2, <2>5, <2>6 DEF Legible
<1>2. CASE Open(h)
  <2> DEFINE new == [at |-> "store", m |-> h.m, readable |-> h.m \notin opened]
  <2>1. /\ AtStore(new, m) <=> h.m = m
        /\ new.readable = (h.m \notin opened)
    BY DEF AtStore
  <2>2. handlers' = With(Without(handlers, h), new) /\ opened' = opened \cup {h.m}
        /\ UNCHANGED <<dbQueue, lookups, rows, readable>>
    BY <1>2 DEF Open, Replace
  <2> HIDE DEF new
  <2>3. /\ BagToSet(handlers') \subseteq BagToSet(handlers) \cup {new}
        /\ \A x \in BagToSet(handlers) : x # h => x \in BagToSet(handlers')
        /\ new \in BagToSet(handlers')
    BY <1>0, <2>2, ReplacedCopy
  <2>4. h.at = "open" /\ ~AtStore(h, m)
    BY <1>2 DEF Open, AtStore
  <2>5. OnItsWay(m) => OnItsWay(m)'
    BY <2>2, <2>3, <2>4 DEF OnItsWay
  <2>6. h.m = m => OnItsWay(m)'
    BY <2>1, <2>3 DEF OnItsWay
  <2>7. h.m = m /\ m \in opened => rows[m] > 0
    <3> SUFFICES ASSUME h.m = m, m \in opened PROVE ~OnItsWay(m)
      BY DEF Legible
    <3>1. \A g \in BagToSet(handlers) : AtStore(g, m) => g = h
      BY <1>0 DEF AtStore
    <3> QED BY <1>0, <2>4, <3>1 DEF OnItsWay
  <2>8. \A g \in BagToSet(handlers') : AtStore(g, m) /\ ~g.readable => rows[m] > 0
    BY <2>1, <2>3, <2>7 DEF Legible
  <2> QED BY <2>2, <2>5, <2>6, <2>8 DEF Legible
<1>3. CASE Store(h)
  <2> DEFINE s == [op |-> "has", m |-> h.m, readable |-> h.readable]
  <2>1. h.m \in Messages /\ h.readable \in BOOLEAN /\ h.at = "store"
    BY <1>0, <1>3, Fields DEF Store
  <2>2. s \in Statement /\ s.op # "last" /\ s.m = h.m /\ s.readable = h.readable
    BY <2>1 DEF Statement
  <2>3. /\ handlers' = Without(handlers, h) /\ dbQueue' = Append(dbQueue, s)
        /\ UNCHANGED <<lookups, rows, readable, opened>>
    BY <1>3 DEF Store, store
  <2> HIDE DEF s
  <2>4. /\ BagToSet(handlers') \subseteq BagToSet(handlers)
        /\ \A x \in BagToSet(handlers) : x # h => x \in BagToSet(handlers')
    BY <1>0, <2>3, WithoutCopy
  <2>5. /\ s.m = m => Asked(dbQueue, m) = {}
        /\ OneAsked(dbQueue, m)
        /\ dbQueue \in Seq(Statement) /\ s \in Statement /\ s.op # "last"
    BY <1>0, <2>2 DEF Sole
  <2>6. /\ OneAsked(Append(dbQueue, s), m)
        /\ \A k \in Asked(Append(dbQueue, s), m) :
              \/ k \in Asked(dbQueue, m) /\ Append(dbQueue, s)[k] = dbQueue[k]
              \/ s.m = m /\ Append(dbQueue, s)[k] = s
        /\ Asked(Append(dbQueue, s), m) # {} <=> s.m = m \/ Asked(dbQueue, m) # {}
    BY <2>5, <2>2, AskedAgain
  <2>7. h.m = m => h.readable \/ rows[m] > 0
    BY <2>1 DEF Legible, AtStore
  <2>8. \A k \in Asked(dbQueue', m) : dbQueue'[k].readable \/ rows[m] > 0
    BY <2>2, <2>3, <2>6, <2>7 DEF Legible
  <2>9. OnItsWay(m) => OnItsWay(m)'
    BY <2>2, <2>3, <2>4, <2>6 DEF OnItsWay, AtStore
  <2>10. \A g \in BagToSet(handlers') : AtStore(g, m) /\ ~g.readable => rows[m] > 0
    BY <2>4 DEF Legible
  <2> QED BY <2>3, <2>8, <2>9, <2>10 DEF Legible
<1> QED BY <1>1, <1>2, <1>3

LEMMA StatementKeepsLegible ==
    ASSUME TypeOK, DatabaseStep \/ \E q \in BagToSet(lookups) : TypeFound(q),
           NEW m \in Messages, Sole(m), Legible(m)
    PROVE  Legible(m)'
<1>0. /\ IsABag(lookups) /\ dbQueue \in Seq(Statement) /\ rows[m] \in Nat
      /\ OneAsked(dbQueue, m)
  BY DEF TypeOK, Sole
<1>1. CASE HasMessageForId
  <2> DEFINE q == [Head(dbQueue) EXCEPT !.op = "insert"]
  <2>1. /\ Head(dbQueue) \in Statement /\ Head(dbQueue).op = "has" /\ dbQueue # <<>>
        /\ dbQueue' = Tail(dbQueue) /\ UNCHANGED <<handlers, rows, readable, opened>>
    BY <1>0, <1>1, TailOf DEF HasMessageForId, Executing, store
  <2>2. /\ \A k \in Asked(dbQueue', m) : k + 1 \in Asked(dbQueue, m)
                                         /\ dbQueue'[k] = dbQueue[k + 1]
        /\ Head(dbQueue).m = m => /\ 1 \in Asked(dbQueue, m) /\ dbQueue[1] = Head(dbQueue)
                                  /\ Asked(dbQueue', m) = {}
        /\ Head(dbQueue).m # m => (Asked(dbQueue', m) # {} <=> Asked(dbQueue, m) # {})
    BY <1>0, <2>1, HeadAsked
  <2>3. q.m = Head(dbQueue).m /\ q.readable = Head(dbQueue).readable
    BY <2>1, Fields
  <2>4. lookups' = IF Exists(Head(dbQueue).m) THEN lookups ELSE With(lookups, q)
    BY <1>1 DEF HasMessageForId
  <2> HIDE DEF q
  <2>5. BagToSet(With(lookups, q)) = BagToSet(lookups) \cup {q}
    BY <1>0, WithCopy
  <2>6. Head(dbQueue).m = m => Head(dbQueue).readable \/ rows[m] > 0
    BY <2>2 DEF Legible
  <2>7. \A g \in BagToSet(lookups') : g.m = m => g.readable \/ rows[m] > 0
    BY <2>3, <2>4, <2>5, <2>6 DEF Legible
  <2>8. OnItsWay(m) => rows[m] > 0 \/ OnItsWay(m)'
    <3>1. CASE Head(dbQueue).m = m
      <4>1. rows[m] > 0 \/ Has(lookups', m)
        BY <2>3, <2>4, <2>5, <3>1 DEF Has, Exists
      <4> QED BY <4>1 DEF OnItsWay
    <3>2. CASE Head(dbQueue).m # m
      <4>1. BagToSet(lookups) \subseteq BagToSet(lookups')
        BY <2>4, <2>5
      <4>2. Has(lookups, m) => Has(lookups', m)
        BY <4>1 DEF Has
      <4> QED BY <2>1, <2>2, <3>2, <4>2 DEF OnItsWay
    <3> QED BY <3>1, <3>2
  <2>9. \A k \in Asked(dbQueue', m) : dbQueue'[k].readable \/ rows[m] > 0
    BY <2>2 DEF Legible
  <2> QED BY <2>1, <2>7, <2>8, <2>9 DEF Legible
<1>2. CASE Insert
  <2>1. /\ Head(dbQueue) \in Statement /\ Head(dbQueue).op = "insert" /\ dbQueue # <<>>
        /\ dbQueue' = Tail(dbQueue) /\ UNCHANGED <<handlers, lookups, opened>>
        /\ rows' = [rows EXCEPT ![Head(dbQueue).m] = @ + 1]
        /\ readable' = IF Head(dbQueue).readable THEN readable \cup {Head(dbQueue).m}
                       ELSE readable
    BY <1>0, <1>2, TailOf DEF Insert, Executing
  <2>2. /\ \A k \in Asked(dbQueue', m) : k + 1 \in Asked(dbQueue, m)
                                         /\ dbQueue'[k] = dbQueue[k + 1]
        /\ Head(dbQueue).m = m => /\ 1 \in Asked(dbQueue, m) /\ dbQueue[1] = Head(dbQueue)
                                  /\ Asked(dbQueue', m) = {}
        /\ Head(dbQueue).m # m => (Asked(dbQueue', m) # {} <=> Asked(dbQueue, m) # {})
    BY <1>0, <2>1, HeadAsked
  <2>3. CASE Head(dbQueue).m = m
    <3>1. ~Has(lookups, m) /\ ~Has(handlers, m)
      BY <2>1, <2>2, <2>3 DEF Sole
    <3>2. rows'[m] > 0
      BY <1>0, <2>1, <2>3 DEF TypeOK
    <3>3. m \in readable'
      BY <2>1, <2>2, <2>3, <3>1 DEF Legible
    <3>4. \A g \in BagToSet(lookups') : g.m # m
      BY <2>1, <3>1 DEF Has
    <3> QED BY <3>2, <3>3, <3>4 DEF Legible
  <2>4. CASE Head(dbQueue).m # m
    <3>1. rows'[m] = rows[m] /\ (m \in readable' <=> m \in readable)
      BY <2>1, <2>4 DEF TypeOK
    <3>2. OnItsWay(m)' <=> OnItsWay(m)
      BY <2>1, <2>2, <2>4 DEF OnItsWay
    <3>3. \A k \in Asked(dbQueue', m) : dbQueue'[k].readable \/ rows[m] > 0
      BY <2>2 DEF Legible
    <3> QED BY <2>1, <3>1, <3>2, <3>3 DEF Legible
  <2> QED BY <2>3, <2>4
<1>3. CASE QueryArchive
  <2>1. /\ Head(dbQueue).op = "last" /\ dbQueue # <<>>
        /\ dbQueue' = Tail(dbQueue) /\ UNCHANGED <<handlers, lookups, rows, readable, opened>>
    BY <1>3 DEF QueryArchive, Executing, store
  <2>2. /\ \A k \in Asked(dbQueue', m) : k + 1 \in Asked(dbQueue, m)
                                         /\ dbQueue'[k] = dbQueue[k + 1]
        /\ Asked(dbQueue', m) # {} <=> Asked(dbQueue, m) # {}
    BY <1>0, <2>1, HeadAsked
  <2>3. OnItsWay(m)' <=> OnItsWay(m)
    BY <2>1, <2>2 DEF OnItsWay
  <2>4. \A k \in Asked(dbQueue', m) : dbQueue'[k].readable \/ rows[m] > 0
    BY <2>2 DEF Legible
  <2> QED BY <2>1, <2>3, <2>4 DEF Legible
<1>4. ASSUME NEW q \in BagToSet(lookups), TypeFound(q) PROVE Legible(m)'
  <2>1. /\ q \in Statement /\ q.op # "last"
        /\ dbQueue' = Append(dbQueue, q) /\ lookups' = Without(lookups, q)
        /\ UNCHANGED <<handlers, rows, readable, opened>>
    BY <1>4 DEF TypeFound, store, TypeOK, Statement
  <2>2. /\ BagToSet(lookups') \subseteq BagToSet(lookups)
        /\ \A x \in BagToSet(lookups) : x # q => x \in BagToSet(lookups')
    BY <1>0, <2>1, WithoutCopy
  <2>3. /\ \A k \in Asked(dbQueue', m) : \/ k \in Asked(dbQueue, m) /\ dbQueue'[k] = dbQueue[k]
                                         \/ q.m = m /\ dbQueue'[k] = q
        /\ Asked(dbQueue', m) # {} <=> q.m = m \/ Asked(dbQueue, m) # {}
    BY <1>4, LookupAsked
  <2>4. \A k \in Asked(dbQueue', m) : dbQueue'[k].readable \/ rows[m] > 0
    BY <2>3 DEF Legible
  <2>5. OnItsWay(m) => OnItsWay(m)'
    <3>1. Has(lookups, m) => Has(lookups', m) \/ Asked(dbQueue', m) # {}
      BY <2>2, <2>3 DEF Has
    <3>2. Asked(dbQueue, m) # {} => Asked(dbQueue', m) # {}
      BY <2>3
    <3> QED BY <2>1, <3>1, <3>2 DEF OnItsWay
  <2>6. \A g \in BagToSet(lookups') : g.m = m => g.readable \/ rows[m] > 0
    BY <2>2 DEF Legible
  <2> QED BY <2>1, <2>4, <2>5, <2>6 DEF Legible
<1> QED BY <1>1, <1>2, <1>3, <1>4 DEF DatabaseStep

LEMMA LegibleKept ==
    ASSUME TypeOK, Single, AllLegible, [Next]_vars
    PROVE  AllLegible'
<1> SUFFICES ASSUME NEW m \in Messages, m \notin overlapped', m \notin interrupted'
             PROVE  Legible(m)'
  BY DEF AllLegible
<1>1. overlapped \subseteq overlapped' /\ interrupted \subseteq interrupted' =>
         Sole(m) /\ Legible(m)
  BY DEF Single, AllLegible
<1>2. CASE Elsewhere
  <2>1. UNCHANGED <<handlers, dbQueue, lookups, rows, readable, opened, interrupted, overlapped>>
    BY <1>2, ElsewhereUnchanged
  <2> QED BY <1>1, <2>1 DEF Legible, OnItsWay
<1>3. CASE UNCHANGED vars
  BY <1>1, <1>3 DEF vars, local, store, history, Legible, OnItsWay
<1>4. ASSUME NEW e \in BagToSet(processQueue), HandleEnabled(e) PROVE Legible(m)'
  <2>1. /\ Asked(dbQueue', m) = Asked(dbQueue, m)
        /\ \A k \in Asked(dbQueue, m) : dbQueue'[k] = dbQueue[k]
        /\ UNCHANGED <<handlers, lookups, rows, readable, opened, interrupted, overlapped>>
    BY <1>4, EnabledUnchanged
  <2>2. OnItsWay(m)' <=> OnItsWay(m)
    BY <2>1 DEF OnItsWay
  <2> QED BY <1>1, <2>1, <2>2 DEF Legible
<1>5. ASSUME NEW e \in BagToSet(processQueue), HandleMessage(e) PROVE Legible(m)'
  <2> DEFINE h == [at |-> "count", m |-> e.m,
                   seen |-> IF accountState = "Bound" THEN lastHandled ELSE Nil]
  <2>1. /\ overlapped \subseteq overlapped' /\ interrupted' = interrupted
        /\ handlers' = With(handlers, h)
        /\ UNCHANGED <<dbQueue, lookups, rows, readable, opened>>
    BY <1>5 DEF HandleMessage, store
  <2>2. ~AtStore(h, m)
    BY DEF AtStore
  <2> HIDE DEF h
  <2>3. BagToSet(handlers') = BagToSet(handlers) \cup {h}
    BY <2>1, WithCopy DEF TypeOK
  <2>4. OnItsWay(m)' <=> OnItsWay(m)
    BY <2>1, <2>2, <2>3 DEF OnItsWay
  <2> QED BY <1>1, <2>1, <2>2, <2>3, <2>4 DEF Legible
<1>6. ASSUME NEW h \in BagToSet(handlers), Count(h) \/ Open(h) \/ Store(h) PROVE Legible(m)'
  <2>1. overlapped' = overlapped /\ interrupted' = interrupted
    BY <1>6 DEF Count, Open, Store, history
  <2> QED BY <1>1, <1>6, <2>1, HandlerKeepsLegible
<1>7. CASE DatabaseStep \/ \E q \in BagToSet(lookups) : TypeFound(q)
  <2>1. overlapped' = overlapped /\ interrupted' = interrupted
    BY <1>7 DEF DatabaseStep, HasMessageForId, Insert, QueryArchive, TypeFound, history
  <2> QED BY <1>1, <1>7, <2>1, StatementKeepsLegible
<1>8. CASE Crash
  <2>1. /\ BagToSet(handlers') = {} /\ BagToSet(lookups') = {} /\ Asked(dbQueue', m) = {}
        /\ interrupted' = interrupted \cup InHand
        /\ UNCHANGED <<rows, readable, opened, overlapped>>
    BY <1>8, NothingLeft
  <2>2. OnItsWay(m) => m \in InHand
    BY DEF OnItsWay, AtStore, Has, Asked, InHand, UnderWay
  <2>3. Legible(m) /\ ~OnItsWay(m)
    BY <1>1, <2>1, <2>2
  <2> QED BY <2>1, <2>3 DEF Legible
<1> QED BY <1>2, <1>3, <1>4, <1>5, <1>6, <1>7, <1>8 DEF Next, Local, ProcessStep, Elsewhere

LEMMA LegibleAtFirst == Init => AllLegible
<1> SUFFICES ASSUME Init, NEW m \in Messages PROVE Legible(m)
  BY DEF AllLegible
<1>1. BagToSet(EmptyBag) = {}
  BY NoCopies
<1>2. /\ BagToSet(handlers) = {} /\ BagToSet(lookups) = {} /\ dbQueue = <<>> /\ rows[m] = 0
      /\ opened = {}
  BY <1>1 DEF Init
<1>3. Asked(dbQueue, m) = {}
  BY <1>2 DEF Asked
<1> QED BY <1>2, <1>3 DEF Legible

\* A message of which the rows show but an error was decrypted twice: two copies
\* were under way at once, or a kill came between decryption and storage
\* (decryptMessage, addMessageFrom).
THEOREM UnreadableRaces == Spec => []UnreadableNeedsRace
<1>1. Init => TypeOK /\ Single /\ AllLegible
  BY TypeAtFirst, SingleAtFirst, LegibleAtFirst
<1>2. TypeOK /\ Single /\ AllLegible /\ [Next]_vars => (TypeOK /\ Single /\ AllLegible)'
  BY TypeKept, SingleKept, LegibleKept
<1>3. AllLegible => UnreadableNeedsRace
  BY DEF AllLegible, Legible, UnreadableNeedsRace, Stored
<1> QED BY <1>1, <1>2, <1>3, PTL DEF Spec
=============================================================================
