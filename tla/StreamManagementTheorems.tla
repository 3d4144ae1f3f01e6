---------------------- MODULE StreamManagementTheorems ----------------------
(***************************************************************************)
(* Safety of stream management for any number of messages and connections. *)
(***************************************************************************)
EXTENDS StreamManagement, ArraysTheorems, TLAPS

-----------------------------------------------------------------------------
(* The records of the model, by their constructors and by their fields *)

LEMMA OpConstructors ==
    /\ \A st \in Stanza : TrackOp(st) \in Op
    /\ \A st \in Stanza, t \in BOOLEAN : WriteOp(st, t) \in Op
    /\ \A h \in Nat : [op |-> "remove", h |-> h] \in Op
    /\ \A u \in Seq(Entry) : [op |-> "resendSaved", saved |-> u] \in Op
    /\ \A n \in {"resend", "resendAndClear", "clear", "close", "cleanup", "suspend"} :
          [op |-> n] \in Op
<1>1. ASSUME NEW st \in Stanza PROVE TrackOp(st) \in Op
  BY DEF TrackOp, Op
<1>2. ASSUME NEW st \in Stanza, NEW t \in BOOLEAN PROVE WriteOp(st, t) \in Op
  <2>1. [type |-> "stanza", st |-> st, numbered |-> t] \in Outgoing
    BY DEF Outgoing, Stanzas
  <2> QED BY <2>1 DEF WriteOp, Op
<1> QED BY <1>1, <1>2 DEF Op

LEMMA NonzaType ==
    /\ \A n \in {"bind", "enable", "close"} : Nonza([type |-> n]) \in Seq(Op)
    /\ \A p \in Nat : Nonza([type |-> "resume", previd |-> p]) \in Seq(Op)
<1>1. ASSUME NEW n \in {"bind", "enable", "close"} PROVE Nonza([type |-> n]) \in Seq(Op)
  <2>1. [type |-> n] \in Outgoing
    BY DEF Outgoing
  <2>2. [op |-> "write", e |-> [type |-> n]] \in Op
    BY <2>1 DEF Op
  <2> QED BY <2>2 DEF Nonza
<1>2. ASSUME NEW p \in Nat PROVE Nonza([type |-> "resume", previd |-> p]) \in Seq(Op)
  <2>1. [type |-> "resume", previd |-> p] \in Outgoing
    BY DEF Outgoing
  <2>2. [op |-> "write", e |-> [type |-> "resume", previd |-> p]] \in Op
    BY <2>1 DEF Op
  <2> QED BY <2>2 DEF Nonza
<1> QED BY <1>1, <1>2

LEMMA OpFields ==
    ASSUME NEW o \in Op
    PROVE  /\ o.op = "track" => o.st \in Stanza
           /\ o.op = "write" => o.e \in Outgoing
           /\ o.op = "remove" => o.h \in Nat
           /\ o.op = "resendSaved" => o.saved \in Seq(Entry)
BY DEF Op

LEMMA IncomingFields ==
    ASSUME NEW e \in Incoming
    PROVE  /\ e.type = "features" => e.sm \in BOOLEAN
           /\ e.type = "enabled" => e.sid \in Nat /\ e.resume \in BOOLEAN
           /\ e.type \in {"resumed", "failed", "a"} => e.h \in Nat
           /\ e.type = "result" => e.st \in Cleanable
BY DEF Incoming

LEMMA ContinuationFields ==
    ASSUME NEW c \in Continuation
    PROVE  /\ c.at = "resumed" => c.h \in Nat
           /\ c.at = "clean" => c.st \in Cleanable /\ c.copy \in UnAcked
BY DEF Continuation

-----------------------------------------------------------------------------
(* What the helpers return *)

LEMMA ConcatType ==
    ASSUME NEW S, NEW s \in Seq(S), NEW t \in Seq(S)
    PROVE  s \o t \in Seq(S)
OBVIOUS

LEMMA SingleType ==
    ASSUME NEW S, NEW e \in S
    PROVE  <<e>> \in Seq(S)
OBVIOUS

LEMMA IsASeqOver ==
    ASSUME NEW S, NEW n \in Nat, NEW f \in [1 .. n -> S]
    PROVE  f \in Seq(S) /\ Len(f) = n
OBVIOUS

LEMMA StanzasOfType ==
    ASSUME NEW u \in UnAcked
    PROVE  StanzasOf(u) \in Seq(Stanza)
<1>1. CASE u = Nil
  BY <1>1 DEF StanzasOf
<1>2. CASE u # Nil
  <2>1. u \in Seq(Entry)
    BY <1>2 DEF UnAcked
  <2>2. Len(u) \in Nat /\ \A k \in 1 .. Len(u) : u[k] \in Entry
    BY <2>1
  <2>3. \A k \in 1 .. Len(u) : u[k].st \in Stanza
    BY <2>2 DEF Entry
  <2> QED BY <1>2, <2>2, <2>3 DEF StanzasOf
<1> QED BY <1>1, <1>2

\* send: queues operations, and none that records unless it is to track.
LEMMA SendOpsType ==
    ASSUME NEW sts \in Seq(Stanza), NEW t \in BOOLEAN
    PROVE  /\ SendOps(sts, t) \in Seq(Op)
           /\ ~t => \A k \in 1 .. Len(SendOps(sts, t)) : SendOps(sts, t)[k].op # "track"
<1>1. Len(sts) \in Nat /\ \A k \in 1 .. Len(sts) : sts[k] \in Stanza
  OBVIOUS
<1>2. CASE t
  <2>1. ASSUME NEW k \in 1 .. 2 * Len(sts), k % 2 = 1
        PROVE  TrackOp(sts[(k + 1) \div 2]) \in Op
    <3>1. (k + 1) \div 2 \in 1 .. Len(sts)
      BY <1>1, <2>1
    <3> QED BY <1>1, <3>1, OpConstructors
  <2>2. ASSUME NEW k \in 1 .. 2 * Len(sts), k % 2 # 1
        PROVE  WriteOp(sts[k \div 2], TRUE) \in Op
    <3>1. k \div 2 \in 1 .. Len(sts)
      BY <1>1, <2>2
    <3> QED BY <1>1, <3>1, OpConstructors
  <2>3. SendOps(sts, t) = [k \in 1 .. 2 * Len(sts) |->
                               IF k % 2 = 1 THEN TrackOp(sts[(k + 1) \div 2])
                                            ELSE WriteOp(sts[k \div 2], TRUE)]
    BY <1>2 DEF SendOps
  <2>4. SendOps(sts, t) \in [1 .. 2 * Len(sts) -> Op]
    BY <2>1, <2>2, <2>3
  <2>5. 2 * Len(sts) \in Nat
    BY <1>1
  <2> QED BY <1>2, <2>4, <2>5, IsASeqOver
<1>3. CASE ~t
  <2>1. \A k \in 1 .. Len(sts) : WriteOp(sts[k], FALSE) \in Op
    BY <1>1, OpConstructors
  <2>2. SendOps(sts, t) = [k \in 1 .. Len(sts) |-> WriteOp(sts[k], FALSE)]
    BY <1>3 DEF SendOps
  <2>3. SendOps(sts, t) \in [1 .. Len(sts) -> Op]
    BY <2>1, <2>2
  <2>4. SendOps(sts, t) \in Seq(Op) /\ Len(SendOps(sts, t)) = Len(sts)
    BY <1>1, <2>3, IsASeqOver
  <2>5. \A k \in 1 .. Len(sts) : WriteOp(sts[k], FALSE).op # "track"
    BY DEF WriteOp
  <2> QED BY <2>2, <2>4, <2>5
<1> QED BY <1>2, <1>3

LEMMA TrackingType ==
    \A state, sm, u : Tracking(state, sm, u) \in BOOLEAN
BY DEF Tracking

LEMMA FilterType ==
    /\ \A u \in Seq(Entry), h \in Nat : Above(u, h) \in Seq(Entry)
    /\ \A u \in UnAcked, st \in Stanza : Without(u, st) \in UnAcked
<1>1. ASSUME NEW u \in Seq(Entry), NEW h \in Nat PROVE Above(u, h) \in Seq(Entry)
  BY SubsequenceType DEF Above
<1>2. ASSUME NEW u \in UnAcked, NEW st \in Stanza PROVE Without(u, st) \in UnAcked
  <2>1. CASE u = Nil
    BY <2>1 DEF Without, UnAcked
  <2>2. CASE u # Nil
    <3>1. u \in Seq(Entry)
      BY <2>2 DEF UnAcked
    <3>2. Subsequence(u, {i \in 1 .. Len(u) : u[i].st # st}) \in Seq(Entry)
      BY <3>1, SubsequenceType
    <3> QED BY <2>2, <3>2 DEF Without, UnAcked
  <2> QED BY <2>1, <2>2
<1> QED BY <1>1, <1>2

LEMMA CappedType ==
    ASSUME NEW u \in UnAcked
    PROVE  Capped(u) \in UnAcked
BY DEF Capped, UnAcked

LEMMA SessionOpsType ==
    ASSUME NEW sm \in BOOLEAN, NEW u
    PROVE  SessionOps(sm, u) \in Seq(Op)
<1>1. SessionStanzas \in Seq(Stanza)
  BY StanzaAssumption DEF Stanza
<1>2. SendOps(SessionStanzas, Tracking("Bound", sm, u)) \in Seq(Op)
  BY <1>1, SendOpsType, TrackingType
<1>3. <<[op |-> "clear"]>> \in Seq(Op)
  BY OpConstructors
<1> QED BY <1>2, <1>3 DEF SessionOps

-----------------------------------------------------------------------------
(* Type correctness *)

\* The operation that runs, and the queue without it.
LEMMA HeadOfQueue ==
    ASSUME netQueue \in Seq(Op), NEW name, Running(name)
    PROVE  /\ Head(netQueue) \in Op /\ Head(netQueue).op = name
           /\ Tail(netQueue) \in Seq(Op)
BY DEF Running

LEMMA TakeType ==
    ASSUME s2c \in Seq(Incoming), NEW i \in DOMAIN s2c, NEW type, Take(i, type)
    PROVE  s2c[i] \in Incoming /\ s2c[i].type = type /\ s2c' \in Seq(Incoming)
<1>1. i \in 1 .. Len(s2c) /\ Len(s2c) \in Nat
  OBVIOUS
<1>2. SubSeq(s2c, 1, i - 1) \in Seq(Incoming) /\ SubSeq(s2c, i + 1, Len(s2c)) \in Seq(Incoming)
  BY <1>1
<1> QED BY <1>1, <1>2 DEF Take

LEMMA SavedType ==
    ASSUME NEW u \in UnAcked, NEW n \in Number, NEW s \in Number
    PROVE  Saved(u, n, s) \in [unAcked : UnAcked, lastOutbound : Number, streamID : Number]
BY DEF Saved

LEMMA NumberType == Nil \in Number /\ Nat \subseteq Number /\ (\A n \in Number : n # Nil => n \in Nat)
BY DEF Number

LEMMA EmptyNotNil == <<>> # Nil
<1>1. <<>> \in Seq([id : Nat, st : Stanza])
  OBVIOUS
<1> QED BY <1>1, NilAssumption, Zenon

LEMMA UnAckedType ==
    /\ Nil \in UnAcked /\ <<>> \in UnAcked /\ Seq(Entry) \subseteq UnAcked
    /\ \A u \in UnAcked : u # Nil => u \in Seq(Entry)
BY DEF UnAcked

LEMMA LinkLostType ==
    ASSUME TypeOK, NEW read \in 0 .. Len(s2c), LinkLost(read)
    PROVE  /\ link' \in BOOLEAN /\ c2s' \in Seq(Outgoing) /\ s2c' \in Seq(Incoming)
           /\ srv' \in [sid : Nat, h : Nat, acked : Nat, extra : Nat, on : BOOLEAN]
<1>1. s2c \in Seq(Incoming) /\ Len(s2c) \in Nat
  BY DEF TypeOK
<1>2. \A i \in 1 .. read : s2c[i] \in Incoming
  BY <1>1
<1>3. SubSeq(s2c, 1, read) \in Seq(Incoming)
  BY <1>1, <1>2
<1>4. srv' \in [sid : Nat, h : Nat, acked : Nat, extra : Nat, on : BOOLEAN]
  <2>1. srv \in [sid : Nat, h : Nat, acked : Nat, extra : Nat, on : BOOLEAN]
    BY DEF TypeOK
  <2> QED BY <2>1 DEF LinkLost
<1>5. <<>> \in Seq(Outgoing)
  OBVIOUS
<1> QED BY <1>3, <1>4, <1>5 DEF LinkLost

LEMMA CapType ==
    ASSUME TypeOK, Cap
    PROVE  /\ unAcked' \in UnAcked /\ dropped' \subseteq Msgs
           /\ persisted' \in [unAcked : UnAcked, lastOutbound : Number, streamID : Number]
<1>1. unAcked' \in UnAcked
  BY CappedType DEF Cap, TypeOK
<1>2. dropped' \subseteq Msgs
  BY DEF Cap, Recorded, TypeOK
<1>3. Saved(unAcked', lastOutbound, streamID)
         \in [unAcked : UnAcked, lastOutbound : Number, streamID : Number]
  BY <1>1, SavedType DEF TypeOK
<1> QED BY <1>1, <1>2, <1>3 DEF Cap, TypeOK

LEMMA InitType == Init => TypeOK
<1> SUFFICES ASSUME Init PROVE TypeOK
  OBVIOUS
<1>1. persisted \in [unAcked : UnAcked, lastOutbound : Number, streamID : Number]
  BY SavedType, NumberType, UnAckedType DEF Init
<1>2. srv \in [sid : Nat, h : Nat, acked : Nat, extra : Nat, on : BOOLEAN]
  BY DEF Init
<1>3. connects \in 0 .. MaxConnects /\ queries \in 0 .. MaxQueries
  BY BoundAssumption DEF Init
<1>4. netQueue \in Seq(Op) /\ c2s \in Seq(Outgoing) /\ s2c \in Seq(Incoming)
  BY DEF Init, FreshMemory
<1>5. {explicitLogout, supportsSM3, resuming, link} \subseteq BOOLEAN
  BY DEF Init, FreshMemory
<1>6. streamID \in Number /\ lastOutbound \in Number /\ unAcked \in UnAcked
  BY NumberType, UnAckedType DEF Init, FreshMemory
<1>7. accountState \in AccountStates /\ running \subseteq Continuation
  BY DEF Init, FreshMemory, AccountStates
<1>8. unsent \subseteq Msgs /\ handled \subseteq Msgs /\ dropped \subseteq Msgs
  BY DEF Init
<1> QED BY <1>1, <1>2, <1>3, <1>4, <1>5, <1>6, <1>7, <1>8 DEF TypeOK

\* What the user and the timers do.
LEMMA UserType ==
    ASSUME TypeOK,
           \/ \E m \in Msgs : AppSend(m)
           \/ Teardown \/ Reconnect \/ GoToBackground \/ Logout \/ LogIn \/ Connect
           \/ \E sm \in BOOLEAN : Authenticate(sm)
    PROVE  TypeOK'
<1>0. /\ <<[op |-> "close"], [op |-> "cleanup"]>> \in Seq(Op)
      /\ <<[op |-> "suspend"]>> \in Seq(Op) /\ <<>> \in Seq(Op)
  BY OpConstructors
<1>1. ASSUME NEW m \in Msgs, AppSend(m) PROVE TypeOK'
  <2>1. <<m>> \in Seq(Stanza)
    BY DEF Stanza
  <2>2. SendOps(<<m>>, Tracking(accountState, supportsSM3, unAcked)) \in Seq(Op)
    BY <2>1, SendOpsType, TrackingType
  <2>3. netQueue' \in Seq(Op)
    BY <1>1, <2>2 DEF AppSend, Enqueue, TypeOK
  <2> QED BY <1>1, <2>3 DEF AppSend, TypeOK, memory, wire, history
<1>2. CASE Teardown
  BY <1>0, <1>2 DEF Teardown, TypeOK, memory, wire, history
<1>3. CASE Reconnect
  BY <1>0, <1>3 DEF Reconnect, TypeOK, memory, wire, history
<1>4. CASE GoToBackground
  <2>1. netQueue' \in Seq(Op)
    BY <1>0, <1>4 DEF GoToBackground, Enqueue, TypeOK
  <2> QED BY <1>4, <2>1 DEF GoToBackground, TypeOK, memory, wire, history
<1>5. CASE Logout
  <2>1. [type |-> "close"] \in Outgoing
    BY DEF Outgoing
  <2>2. c2s' \in Seq(Outgoing)
    <3>1. c2s \in Seq(Outgoing)
      BY DEF TypeOK
    <3>2. Append(c2s, [type |-> "close"]) \in Seq(Outgoing)
      BY <2>1, <3>1
    <3>3. c2s' \in {c2s, Append(c2s, [type |-> "close"])}
      BY <1>5 DEF Logout
    <3> QED BY <3>1, <3>2, <3>3
  <2>3. lastOutbound' \in Number /\ streamID' \in Number
    BY <1>5, NumberType DEF Logout, TypeOK
  <2>4. persisted' \in [unAcked : UnAcked, lastOutbound : Number, streamID : Number]
    BY <1>5, SavedType, NumberType DEF Logout, TypeOK
  <2> QED BY <1>0, <1>5, <2>2, <2>3, <2>4 DEF Logout, TypeOK, history
<1>6. CASE LogIn
  BY <1>0, <1>6, NumberType, UnAckedType DEF LogIn, Restart, TypeOK, AccountStates, wire, history
<1>7. CASE Connect
  <2>1. unAcked' \in UnAcked /\ lastOutbound' \in Number /\ streamID' \in Number
    BY <1>7 DEF Connect, TypeOK
  <2>2. connects' \in 0 .. MaxConnects
    BY <1>7, BoundAssumption DEF Connect, TypeOK
  <2>3. accountState' \in AccountStates
    BY <1>7 DEF Connect, AccountStates
  <2> QED BY <1>7, <2>1, <2>2, <2>3 DEF Connect, TypeOK, wire
<1>8. ASSUME NEW sm \in BOOLEAN, Authenticate(sm) PROVE TypeOK'
  <2>1. [type |-> "features", sm |-> sm] \in Incoming
    BY DEF Incoming
  <2>2. s2c' \in Seq(Incoming) /\ c2s' \in Seq(Outgoing)
    BY <1>8, <2>1 DEF Authenticate
  <2>3. accountState' \in AccountStates /\ link' \in BOOLEAN
    BY <1>8 DEF Authenticate, AccountStates
  <2> QED BY <1>8, <2>2, <2>3 DEF Authenticate, TypeOK, history
<1> QED BY <1>1, <1>2, <1>3, <1>4, <1>5, <1>6, <1>7, <1>8

\* The operations of networkQueue.
LEMMA NetworkType ==
    ASSUME TypeOK, NetworkStep
    PROVE  TypeOK'
<1> DEFINE T == Tracking(accountState, supportsSM3, unAcked)
           P == [unAcked : UnAcked, lastOutbound : Number, streamID : Number]
<1>0. /\ netQueue \in Seq(Op) /\ unAcked \in UnAcked /\ lastOutbound \in Number
      /\ streamID \in Number /\ persisted \in P /\ c2s \in Seq(Outgoing)
      /\ s2c \in Seq(Incoming)
      /\ T \in BOOLEAN
  BY TrackingType DEF TypeOK
<1>1. SendOps(StanzasOf(unAcked), T) \in Seq(Op)
  BY <1>0, StanzasOfType, SendOpsType
<1>2. CASE Track
  <2>1. Head(netQueue).st \in Stanza /\ netQueue' \in Seq(Op)
    BY <1>0, <1>2, HeadOfQueue, OpFields DEF Track, Finish
  <2>2. lastOutbound \in Nat /\ lastOutbound' \in Number
    BY <1>0, <1>2, NumberType DEF Track
  <2>3. [id |-> lastOutbound, st |-> Head(netQueue).st] \in Entry
    BY <2>1, <2>2 DEF Entry
  <2>4. unAcked' \in UnAcked
    <3>1. CASE unAcked = Nil
      BY <1>2, <3>1, UnAckedType DEF Track
    <3>2. CASE unAcked # Nil
      <4>1. unAcked \in Seq(Entry)
        BY <1>0, <3>2, UnAckedType
      <4>2. Append(unAcked, [id |-> lastOutbound, st |-> Head(netQueue).st]) \in Seq(Entry)
        BY <2>3, <4>1
      <4> QED BY <1>2, <3>2, <4>2, UnAckedType DEF Track
    <3> QED BY <3>1, <3>2
  <2>5. persisted' \in P
    BY <1>0, <1>2, <2>2, <2>4, SavedType DEF Track
  <2> QED BY <1>2, <2>1, <2>2, <2>4, <2>5 DEF Track, TypeOK, wire, history
<1>3. CASE Write
  <2>1. Head(netQueue).e \in Outgoing /\ netQueue' \in Seq(Op)
    BY <1>0, <1>3, HeadOfQueue, OpFields DEF Write, Finish
  <2>2. Append(c2s, Head(netQueue).e) \in Seq(Outgoing)
    BY <1>0, <2>1
  <2>3. c2s' \in Seq(Outgoing)
    BY <1>0, <1>3, <2>2 DEF Write
  <2> QED BY <1>3, <2>1, <2>3 DEF Write, TypeOK, memory, history
<1>4. CASE RemoveUnAcked
  <2>1. Head(netQueue).h \in Nat /\ netQueue' \in Seq(Op)
    BY <1>0, <1>4, HeadOfQueue, OpFields DEF RemoveUnAcked, Finish
  <2>2. unAcked # Nil => Above(unAcked, Head(netQueue).h) \in Seq(Entry)
    BY <1>0, <2>1, FilterType, UnAckedType
  <2>3. unAcked' \in UnAcked
    BY <1>0, <1>4, <2>2, UnAckedType DEF RemoveUnAcked
  <2>4. persisted' \in P
    BY <1>0, <1>4, <2>3, SavedType DEF RemoveUnAcked
  <2> QED BY <1>4, <2>1, <2>3, <2>4 DEF RemoveUnAcked, TypeOK, wire, history
<1>5. CASE Resend
  <2>1. netQueue' \in Seq(Op)
    BY <1>0, <1>1, <1>5, HeadOfQueue DEF Resend
  <2>2. unAcked' \in UnAcked
    BY <1>5, UnAckedType DEF Resend
  <2>3. persisted' \in P
    BY <1>0, <1>5, <2>2, SavedType DEF Resend
  <2> QED BY <1>5, <2>1, <2>2, <2>3 DEF Resend, TypeOK, wire, history
<1>6. CASE ResendSaved
  <2>1. Head(netQueue).saved \in UnAcked
    BY <1>0, <1>6, HeadOfQueue, OpFields, UnAckedType DEF ResendSaved
  <2>2. SendOps(StanzasOf(Head(netQueue).saved), T) \in Seq(Op)
    BY <1>0, <2>1, StanzasOfType, SendOpsType
  <2>3. netQueue' \in Seq(Op)
    BY <1>0, <1>6, <2>2, HeadOfQueue DEF ResendSaved
  <2> QED BY <1>6, <2>3 DEF ResendSaved, TypeOK, memory, wire, history
<1>7. CASE ResendAndClear
  <2>1. netQueue' \in Seq(Op)
    BY <1>0, <1>1, <1>7, HeadOfQueue DEF ResendAndClear
  <2>2. unAcked' \in UnAcked
    BY <1>0, <1>7, UnAckedType DEF ResendAndClear
  <2>3. persisted' \in P
    BY <1>0, <1>7, UnAckedType, SavedType DEF ResendAndClear
  <2> QED BY <1>7, <2>1, <2>2, <2>3 DEF ResendAndClear, TypeOK, wire, history
<1>8. CASE Clear
  <2>1. netQueue' \in Seq(Op)
    BY <1>0, <1>8, HeadOfQueue DEF Clear, Finish
  <2>2. unAcked' \in UnAcked
    BY <1>0, <1>8, UnAckedType DEF Clear
  <2>3. persisted' \in P
    BY <1>0, <1>8, UnAckedType, SavedType DEF Clear
  <2> QED BY <1>8, <2>1, <2>2, <2>3 DEF Clear, TypeOK, wire, history
<1>9. CASE Close
  <2>1. netQueue' \in Seq(Op)
    BY <1>0, <1>9, HeadOfQueue DEF Close, Finish
  <2>2. CASE link
    <3>1. PICK read \in 0 .. Len(s2c) : LinkLost(read)
      BY <1>9, <2>2 DEF Close
    <3> QED BY <1>9, <2>1, <3>1, LinkLostType DEF Close, TypeOK, memory, history
  <2>3. CASE ~link
    BY <1>9, <2>1, <2>3 DEF Close, TypeOK, memory, wire, history
  <2> QED BY <2>2, <2>3
<1>10. CASE Suspend
  <2>1. netQueue' \in Seq(Op)
    BY <1>10, OpConstructors DEF Suspend
  <2> QED BY <1>10, <2>1 DEF Suspend, TypeOK, AccountStates, wire, history
<1>11. CASE Cleanup
  <2>1. netQueue' \in Seq(Op)
    <3>1. Tail(netQueue) \in Seq(Op) /\ <<>> \in Seq(Op)
      BY <1>0, <1>11, HeadOfQueue DEF Cleanup
    <3>2. netQueue' \in {<<>>, Tail(netQueue)}
      BY <1>11 DEF Cleanup, Finish
    <3> QED BY <3>1, <3>2
  <2>2. unAcked' \in UnAcked
    BY <1>0, <1>11, UnAckedType DEF Cleanup
  <2>3. persisted' \in P
    BY <1>0, <1>11, UnAckedType, SavedType DEF Cleanup
  <2> QED BY <1>11, <2>1, <2>2, <2>3 DEF Cleanup, TypeOK, AccountStates, wire, history
<1> QED BY <1>2, <1>3, <1>4, <1>5, <1>6, <1>7, <1>8, <1>9, <1>10, <1>11 DEF NetworkStep

\* The handlers.
LEMMA ProcessType ==
    ASSUME TypeOK, ProcessStep
    PROVE  TypeOK'
<1> DEFINE P == [unAcked : UnAcked, lastOutbound : Number, streamID : Number]
           T(u) == Tracking(accountState, supportsSM3, u)
<1>0. /\ netQueue \in Seq(Op) /\ unAcked \in UnAcked /\ lastOutbound \in Number
      /\ streamID \in Number /\ persisted \in P /\ s2c \in Seq(Incoming)
      /\ supportsSM3 \in BOOLEAN /\ running \subseteq Continuation
      /\ accountState \in AccountStates
  BY DEF TypeOK
<1>a. /\ <<>> \in Seq(Op)
      /\ ResendLater \in Continuation
      /\ "Bound" \in AccountStates
  BY DEF AccountStates, ResendLater, Continuation
<1>1. ASSUME NEW i \in DOMAIN s2c, HandleFeatures(i) PROVE TypeOK'
  <2>1. s2c[i].sm \in BOOLEAN /\ s2c' \in Seq(Incoming)
    BY <1>0, <1>1, TakeType, IncomingFields DEF HandleFeatures
  <2>2. streamID # Nil => Nonza([type |-> "resume", previd |-> streamID]) \in Seq(Op)
    BY <1>0, NumberType, NonzaType
  <2>3. Nonza([type |-> "bind"]) \in Seq(Op)
    BY NonzaType
  <2>4. netQueue' \in Seq(Op)
    <3>1. PICK ops \in Seq(Op) : netQueue' \in {netQueue, netQueue \o ops}
      BY <1>1, <2>2, <2>3 DEF HandleFeatures, Enqueue
    <3>2. netQueue \o ops \in Seq(Op)
      BY <1>0, ConcatType
    <3> QED BY <1>0, <3>1, <3>2
  <2>5. {explicitLogout, supportsSM3, resuming, link}' \subseteq BOOLEAN
    BY <1>1, <2>1 DEF HandleFeatures, Take, TypeOK
  <2> QED BY <1>1, <2>1, <2>4, <2>5 DEF HandleFeatures, Take, TypeOK, history
<1>2. ASSUME NEW i \in DOMAIN s2c, HandleBound(i) PROVE TypeOK'
  <2>1. s2c' \in Seq(Incoming)
    BY <1>0, <1>2, TakeType DEF HandleBound
  <2>2. Nonza([type |-> "enable"]) \in Seq(Op)
    BY NonzaType
  <2>3. SessionOps(FALSE, unAcked) \in Seq(Op)
    BY SessionOpsType
  <2>4. netQueue' \in Seq(Op)
    <3>1. CASE supportsSM3
      <4>1. netQueue' = netQueue \o Nonza([type |-> "enable"])
        BY <1>2, <3>1 DEF HandleBound, Enqueue
      <4> QED BY <1>0, <2>2, <4>1, ConcatType
    <3>2. CASE ~supportsSM3
      <4>1. netQueue' = netQueue \o (<<>> \o SessionOps(FALSE, unAcked) \o <<>>)
        BY <1>2, <3>2 DEF HandleBound, InitSession, Enqueue
      <4>2. <<>> \o SessionOps(FALSE, unAcked) \o <<>> \in Seq(Op)
        BY <1>a, <2>3, ConcatType
      <4> QED BY <1>0, <4>1, <4>2, ConcatType
    <3> QED BY <3>1, <3>2
  <2>5. running' \subseteq Continuation /\ accountState' \in AccountStates
    BY <1>0, <1>2, <1>a DEF HandleBound, InitSession
  <2>6. unAcked' \in UnAcked /\ persisted' \in P /\ dropped' \subseteq Msgs
    BY <1>2, CapType DEF HandleBound, TypeOK
  <2> QED BY <1>2, <2>1, <2>4, <2>5, <2>6 DEF HandleBound, Take, TypeOK, history
<1>3. ASSUME NEW i \in DOMAIN s2c, HandleEnabled(i) PROVE TypeOK'
  <2>1. s2c[i].sid \in Nat /\ s2c' \in Seq(Incoming)
    BY <1>0, <1>3, TakeType, IncomingFields DEF HandleEnabled
  <2>2. unAcked # Nil => <<[op |-> "resendSaved", saved |-> unAcked]>> \in Seq(Op)
    BY <1>0, UnAckedType, OpConstructors
  <2>3. SessionOps(supportsSM3, <<>>) \in Seq(Op)
    BY <1>0, SessionOpsType
  <2>4. netQueue' \in Seq(Op)
    BY <1>0, <1>3, <1>a, <2>2, <2>3 DEF HandleEnabled, InitSession, Enqueue
  <2>5. /\ unAcked' \in UnAcked /\ running' \subseteq Continuation
        /\ accountState' \in AccountStates
    BY <1>0, <1>3, <1>a, UnAckedType DEF HandleEnabled, InitSession
  <2>6. lastOutbound' \in Number /\ streamID' \in Number
    BY <1>3, <2>1, NumberType DEF HandleEnabled
  <2>7. persisted' \in P
    BY <1>3, <2>6, NumberType, UnAckedType, SavedType DEF HandleEnabled
  <2> QED BY <1>3, <2>1, <2>4, <2>5, <2>6, <2>7 DEF HandleEnabled, Take, TypeOK, history
<1>4. ASSUME NEW i \in DOMAIN s2c, HandleA(i) PROVE TypeOK'
  <2>1. s2c[i].h \in Nat /\ s2c' \in Seq(Incoming)
    BY <1>0, <1>4, TakeType, IncomingFields DEF HandleA
  <2>2. <<[op |-> "remove", h |-> s2c[i].h]>> \in Seq(Op)
    BY <2>1, OpConstructors
  <2>3. netQueue' \in Seq(Op)
    BY <1>0, <1>4, <1>a, <2>2 DEF HandleA, Enqueue
  <2> QED BY <1>4, <2>1, <2>3 DEF HandleA, Take, TypeOK, memory, history
<1>5. ASSUME NEW i \in DOMAIN s2c, HandleResumed(i) PROVE TypeOK'
  <2>1. s2c[i].h \in Nat /\ s2c' \in Seq(Incoming)
    BY <1>0, <1>5, TakeType, IncomingFields DEF HandleResumed
  <2>2. [at |-> "resumed", h |-> s2c[i].h] \in Continuation
    BY <2>1 DEF Continuation
  <2>3. running' \subseteq Continuation
    BY <1>0, <1>5, <2>2 DEF HandleResumed
  <2> QED BY <1>5, <1>a, <2>1, <2>3 DEF HandleResumed, Take, TypeOK, history
<1>6. ASSUME NEW i \in DOMAIN s2c, HandleResumeFailed(i) PROVE TypeOK'
  <2>1. s2c[i].h \in Nat /\ s2c' \in Seq(Incoming)
    BY <1>0, <1>6, TakeType, IncomingFields DEF HandleResumeFailed
  <2>2. <<[op |-> "remove", h |-> s2c[i].h]>> \in Seq(Op)
    BY <2>1, OpConstructors
  <2>3. netQueue' \in Seq(Op)
    BY <1>0, <1>6, <2>2, NonzaType DEF HandleResumeFailed, Enqueue
  <2>4. persisted' \in P
    BY <1>0, <1>6, NumberType, SavedType DEF HandleResumeFailed
  <2> QED BY <1>6, <2>1, <2>3, <2>4, NumberType DEF HandleResumeFailed, Take, TypeOK, history
<1>7. ASSUME NEW i \in DOMAIN s2c, HandleEnableFailed(i) PROVE TypeOK'
  <2>1. s2c' \in Seq(Incoming)
    BY <1>0, <1>7, TakeType DEF HandleEnableFailed
  <2>2. SessionOps(FALSE, unAcked) \in Seq(Op) /\ <<[op |-> "resendAndClear"]>> \in Seq(Op)
    <3>1. SessionOps(FALSE, unAcked) \in Seq(Op)
      BY SessionOpsType
    <3>2. [op |-> "resendAndClear"] \in Op
      BY OpConstructors
    <3> QED BY <3>1, <3>2, SingleType
  <2>3. netQueue' \in Seq(Op)
    <3>1. netQueue' = netQueue \o (<<>> \o SessionOps(FALSE, unAcked)
                                        \o <<[op |-> "resendAndClear"]>>)
      BY <1>7 DEF HandleEnableFailed, InitSession, Enqueue
    <3>2. <<>> \o SessionOps(FALSE, unAcked) \o <<[op |-> "resendAndClear"]>> \in Seq(Op)
      BY <1>a, <2>2, ConcatType
    <3> QED BY <1>0, <3>1, <3>2, ConcatType
  <2>4. running' \subseteq Continuation /\ accountState' \in AccountStates
    BY <1>0, <1>7, <1>a DEF HandleEnableFailed, InitSession
  <2>5. unAcked' \in UnAcked /\ persisted' \in P /\ dropped' \subseteq Msgs
    BY <1>7, CapType DEF HandleEnableFailed
  <2> QED BY <1>7, <2>1, <2>3, <2>4, <2>5 DEF HandleEnableFailed, Take, TypeOK, history
<1>8. ASSUME NEW i \in DOMAIN s2c, HandleResult(i) PROVE TypeOK'
  <2>1. s2c[i].st \in Cleanable /\ s2c' \in Seq(Incoming)
    BY <1>0, <1>8, TakeType, IncomingFields DEF HandleResult
  <2>2. Without(unAcked, s2c[i].st) \in UnAcked
    BY <1>0, <2>1, FilterType, StanzaAssumption DEF Stanza
  <2>3. [at |-> "clean", st |-> s2c[i].st, copy |-> Without(unAcked, s2c[i].st)] \in Continuation
    BY <2>1, <2>2 DEF Continuation
  <2>4. running' \subseteq Continuation
    BY <1>0, <1>8, <2>3 DEF HandleResult
  <2> QED BY <1>8, <2>1, <2>4 DEF HandleResult, Take, TypeOK, memory, history
<1>9. ASSUME NEW c \in running, FinishResumed(c) PROVE TypeOK'
  <2>1. c.h \in Nat
    BY <1>0, <1>9, ContinuationFields DEF FinishResumed
  <2>2. SendOps(ResumeStanzas, T(unAcked')) \in Seq(Op)
    <3>1. ResumeStanzas \in Seq(Stanza)
      BY StanzaAssumption DEF Stanza
    <3> QED BY <3>1, SendOpsType, TrackingType
  <2>3. <<[op |-> "remove", h |-> c.h]>> \in Seq(Op)
    BY <2>1, OpConstructors
  <2>4. netQueue' \in Seq(Op)
    BY <1>0, <1>9, <2>2, <2>3 DEF FinishResumed, Enqueue
  <2>5. running' \subseteq Continuation
    BY <1>0, <1>9, <1>a DEF FinishResumed
  <2>6. unAcked' \in UnAcked /\ persisted' \in P /\ dropped' \subseteq Msgs
    BY <1>9, CapType DEF FinishResumed
  <2> QED BY <1>9, <2>4, <2>5, <2>6 DEF FinishResumed, TypeOK, wire, history
<1>10. ASSUME NEW c \in running, FinishClean(c) PROVE TypeOK'
  <2>1. c.st \in Cleanable /\ c.copy \in UnAcked
    BY <1>0, <1>10, ContinuationFields DEF FinishClean
  <2>2. FollowUp[c.st] \in Seq(Stanza)
    BY <2>1, StanzaAssumption DEF Stanza
  <2>3. SendOps(FollowUp[c.st], T(c.copy)) \in Seq(Op)
    BY <2>2, SendOpsType, TrackingType
  <2>4. netQueue' \in Seq(Op)
    BY <1>0, <1>10, <2>3 DEF FinishClean, Enqueue
  <2> QED BY <1>0, <1>10, <2>1, <2>4 DEF FinishClean, TypeOK, wire, history
<1>11. ASSUME NEW c \in running, NEW fg \in BOOLEAN, DispatchResend(c, fg) PROVE TypeOK'
  <2>1. <<[op |-> "resend"]>> \in Seq(Op)
    BY OpConstructors
  <2>2. netQueue' \in Seq(Op)
    BY <1>0, <1>11, <1>a, <2>1 DEF DispatchResend, Enqueue
  <2> QED BY <1>0, <1>11, <2>2 DEF DispatchResend, TypeOK, memory, wire, history
<1> QED BY <1>1, <1>2, <1>3, <1>4, <1>5, <1>6, <1>7, <1>8, <1>9, <1>10, <1>11 DEF ProcessStep

\* The server, the link and the process.
LEMMA EnvironmentType ==
    ASSUME TypeOK, Server \/ LoseLink \/ Crash
    PROVE  TypeOK'
<1> DEFINE R == [sid : Nat, h : Nat, acked : Nat, extra : Nat, on : BOOLEAN]
<1>0. /\ c2s \in Seq(Outgoing) /\ s2c \in Seq(Incoming) /\ srv \in R
      /\ srv.sid \in Nat /\ srv.h \in Nat /\ srv.extra \in Nat /\ handled \subseteq Msgs
  BY DEF TypeOK
<1>c. \A n \in Nat, x \in Nat, b \in BOOLEAN :
         /\ [srv EXCEPT !.h = n, !.extra = x] \in R
         /\ [srv EXCEPT !.on = b, !.sid = n] \in R
         /\ [srv EXCEPT !.on = b] \in R
         /\ [sid |-> n, h |-> 0, acked |-> 0, extra |-> 0, on |-> b] \in R
  <2>1. srv \in R
    BY <1>0
  <2> QED BY <2>1
<1>d. srv.sid + 1 \in Nat /\ srv.h + 1 \in Nat /\ srv.extra + 1 \in Nat
  BY <1>0
<1>a. ASSUME NEW type, Receive(type)
      PROVE  Head(c2s) \in Outgoing /\ Head(c2s).type = type /\ c2s' \in Seq(Outgoing)
  BY <1>0, <1>a DEF Receive
<1>b. ASSUME NEW e \in Incoming, Reply(e) PROVE s2c' \in Seq(Incoming)
  BY <1>0, <1>b DEF Reply
<1>1. CASE SrvBind
  <2>1. [type |-> "bound"] \in Incoming
    BY DEF Incoming
  <2>2. s2c' \in Seq(Incoming) /\ c2s' \in Seq(Outgoing)
    BY <1>1, <1>a, <1>b, <2>1 DEF SrvBind
  <2> QED BY <1>1, <2>2 DEF SrvBind, TypeOK, memory, history
<1>2. CASE SrvEnable
  <2>1. /\ \A r \in BOOLEAN : [type |-> "enabled", sid |-> srv.sid + 1, resume |-> r] \in Incoming
        /\ [type |-> "failed", h |-> 0] \in Incoming
    BY <1>0 DEF Incoming
  <2>2. s2c' \in Seq(Incoming) /\ c2s' \in Seq(Outgoing)
    BY <1>2, <1>a, <1>b, <2>1 DEF SrvEnable
  <2>3. \/ srv' = [sid |-> srv.sid + 1, h |-> 0, acked |-> 0, extra |-> 0, on |-> TRUE]
        \/ srv' = srv
    BY ONLY <1>2 DEF SrvEnable
  <2>4. srv.sid + 1 \in Nat
    BY ONLY <1>0
  <2>5. srv' \in R
    BY <1>0, <1>c, <2>3, <2>4
  <2> QED BY <1>2, <2>2, <2>5 DEF SrvEnable, TypeOK, memory, history
<1>3. CASE SrvResume
  <2>1. \A h \in Nat : [type |-> "failed", h |-> h] \in Incoming /\ [type |-> "resumed", h |-> h] \in Incoming
    BY DEF Incoming
  <2>2. s2c' \in Seq(Incoming) /\ c2s' \in Seq(Outgoing)
    BY <1>0, <1>3, <1>a, <1>b, <2>1 DEF SrvResume
  <2>3. srv' \in R
    BY <1>0, <1>3 DEF SrvResume
  <2> QED BY <1>3, <2>2, <2>3 DEF SrvResume, TypeOK, memory, history
<1>4. CASE SrvStanza
  <2>1. Head(c2s).st \in Stanza /\ c2s' \in Seq(Outgoing)
    <3>1. Head(c2s) \in Outgoing /\ Head(c2s).type = "stanza" /\ c2s' \in Seq(Outgoing)
      BY <1>4, <1>a DEF SrvStanza
    <3> QED BY <3>1 DEF Outgoing, Stanzas
  <2>2. s2c' \in Seq(Incoming)
    <3>1. Head(c2s).st \in Cleanable =>
             [type |-> "result", st |-> Head(c2s).st] \in Incoming
      BY DEF Incoming
    <3> QED BY <1>0, <1>4, <3>1 DEF SrvStanza
  <2>3. srv' \in R
    <3>1. CASE srv.on /\ Head(c2s).numbered
      <4>1. srv' = [srv EXCEPT !.h = srv.h + 1, !.extra = srv.extra]
        BY <1>4, <3>1 DEF SrvStanza
      <4> QED BY <1>0, <1>c, <1>d, <4>1
    <3>2. CASE srv.on /\ ~Head(c2s).numbered
      <4>1. srv' = [srv EXCEPT !.h = srv.h + 1, !.extra = srv.extra + 1]
        BY <1>4, <3>2 DEF SrvStanza
      <4> QED BY <1>c, <1>d, <4>1
    <3>3. CASE ~srv.on
      BY <1>0, <1>4, <3>3 DEF SrvStanza
    <3> QED BY <3>1, <3>2, <3>3
  <2>4. handled' \subseteq Msgs
    BY <1>0, <1>4 DEF SrvStanza
  <2> QED BY <1>4, <2>1, <2>2, <2>3, <2>4 DEF SrvStanza, TypeOK, memory
<1>5. CASE SrvClose
  <2>1. c2s' \in Seq(Outgoing)
    BY <1>5, <1>a DEF SrvClose
  <2>2. srv' \in R
    BY <1>5, <1>c, <1>d DEF SrvClose
  <2> QED BY <1>5, <2>1, <2>2 DEF SrvClose, TypeOK, memory, history
<1>6. CASE SrvAck
  <2>1. [type |-> "a", h |-> srv.h] \in Incoming
    BY <1>0 DEF Incoming
  <2>2. s2c' \in Seq(Incoming)
    BY <1>6, <1>b, <2>1 DEF SrvAck
  <2>3. srv' \in R
    BY <1>0, <1>6 DEF SrvAck
  <2> QED BY <1>6, <2>2, <2>3 DEF SrvAck, TypeOK, memory, history
<1>9. CASE SrvQuery
  <2>1. \A st \in Cleanable : [type |-> "result", st |-> st] \in Incoming
    BY DEF Incoming
  <2>2. s2c' \in Seq(Incoming)
    BY <1>9, <1>b, <2>1 DEF SrvQuery
  <2>3. queries' \in 0 .. MaxQueries
    BY <1>9, BoundAssumption DEF SrvQuery, TypeOK
  <2> QED BY <1>9, <2>2, <2>3 DEF SrvQuery, TypeOK, memory
<1>7. CASE LoseLink
  <2>1. PICK read \in 0 .. Len(s2c) : LinkLost(read)
    BY <1>7 DEF LoseLink
  <2> QED BY <1>7, <2>1, LinkLostType DEF LoseLink, TypeOK, memory, history
<1>8. CASE Crash
  <2>1. srv' \in R
    BY <1>8, <1>c DEF Crash
  <2>2. netQueue' \in Seq(Op) /\ c2s' \in Seq(Outgoing) /\ s2c' \in Seq(Incoming)
    BY <1>8 DEF Crash, Restart
  <2>3. {explicitLogout, supportsSM3, resuming, link}' \subseteq BOOLEAN
    BY <1>8 DEF Crash, Restart
  <2>4. running' \subseteq Continuation /\ accountState' \in AccountStates
    BY <1>8 DEF Crash, Restart, AccountStates
  <2> QED BY <1>8, <2>1, <2>2, <2>3, <2>4, NumberType, UnAckedType
          DEF Crash, Restart, TypeOK, history
<1> QED BY <1>1, <1>2, <1>3, <1>4, <1>5, <1>6, <1>7, <1>8, <1>9 DEF Server

LEMMA TypeStep == TypeOK /\ [Next]_vars => TypeOK'
<1>1. ASSUME TypeOK, UNCHANGED vars PROVE TypeOK'
  BY <1>1 DEF TypeOK, vars, memory, wire, history
<1> QED BY <1>1, UserType, NetworkType, ProcessType, EnvironmentType DEF Next

\* Every value the client keeps, queues, saves or exchanges has the type the
\* code means it to have, for any number of messages and connections.
THEOREM TypeCorrect == Spec => []TypeOK
BY InitType, TypeStep, PTL DEF Spec

-----------------------------------------------------------------------------
(***************************************************************************)
(* Numbering.  SavedNumbering and NumberingSound are not inductive alone:  *)
(* before the first readState there is no counter, and what keeps a stanza *)
(* from being recorded then is that nothing else is known either           *)
(* (NumbersKnown); and connect reads back what was saved, so that has to   *)
(* be numbered as well as what is in memory (SavedSound).                  *)
(***************************************************************************)
NoTrack(q) == \A k \in 1 .. Len(q) : q[k].op # "track"

NumbersKnown ==
    /\ lastOutbound = Nil =>
          /\ streamID = Nil
          /\ unAcked = Nil
          /\ NoTrack(netQueue)
          /\ \A c \in running : c.at = "clean" => c.copy = Nil
    /\ persisted.lastOutbound = Nil =>
          persisted.streamID = Nil /\ persisted.unAcked = Nil

SavedSound ==
    persisted.streamID # Nil => Numbered(persisted.unAcked, persisted.lastOutbound)

Numbers == NumbersKnown /\ SavedNumbering /\ NumberingSound /\ SavedSound

LEMMA NoTrackConcat ==
    ASSUME NEW q \in Seq(Op), NEW r \in Seq(Op), NoTrack(q), NoTrack(r)
    PROVE  NoTrack(q \o r)
<1>1. ASSUME NEW k \in 1 .. Len(q \o r) PROVE (q \o r)[k].op # "track"
  <2>1. CASE k \in 1 .. Len(q)
    <3>1. (q \o r)[k] = q[k]
      BY <2>1
    <3> QED BY <2>1, <3>1 DEF NoTrack
  <2>2. CASE k \notin 1 .. Len(q)
    <3>1. (q \o r)[k] = r[k - Len(q)] /\ k - Len(q) \in 1 .. Len(r)
      BY <2>2
    <3> QED BY <3>1 DEF NoTrack
  <2> QED BY <2>1, <2>2
<1> QED BY <1>1 DEF NoTrack

LEMMA NoTrackTail ==
    ASSUME NEW q \in Seq(Op), q # <<>>, NoTrack(q)
    PROVE  NoTrack(Tail(q)) /\ Head(q).op # "track"
<1>1. Len(q) \in Nat \ {0}
  OBVIOUS
<1>2. \A k \in 1 .. Len(Tail(q)) : Tail(q)[k] = q[k + 1] /\ k + 1 \in 1 .. Len(q)
  BY <1>1
<1>3. Head(q) = q[1] /\ 1 \in 1 .. Len(q)
  BY <1>1
<1> QED BY <1>2, <1>3 DEF NoTrack

\* What send: queues does not record if the record is absent.
LEMMA NoTrackSendOps ==
    ASSUME NEW sts \in Seq(Stanza), NEW state, NEW sm
    PROVE  NoTrack(SendOps(sts, Tracking(state, sm, Nil)))
<1>1. Tracking(state, sm, Nil) = FALSE
  BY DEF Tracking
<1> QED BY <1>1, SendOpsType DEF NoTrack

\* A record thinned out is numbered if the whole one was.
LEMMA FilterNumbered ==
    ASSUME NEW u \in Seq(Entry), NEW n \in Number, Numbered(u, n), u # Nil,
           NEW K \in SUBSET (1 .. Len(u))
    PROVE  Numbered(Subsequence(u, K), n)
<1> DEFINE w == Subsequence(u, K)
<1>1. Len(u) \in Nat /\ Cardinality(K) \in Nat
  BY RankType
<1>2. /\ n # Nil
      /\ \A i \in 1 .. Len(u) : u[i].id < n
      /\ \A i, j \in 1 .. Len(u) : i < j => u[i].id < u[j].id
  BY DEF Numbered
<1>3. /\ Len(w) = Cardinality(K)
      /\ \A k \in 1 .. Cardinality(K) : Pick(K, k) \in 1 .. Len(u) /\ w[k] = u[Pick(K, k)]
  BY SubsequenceType
<1>4. \A a, b \in 1 .. Cardinality(K) : a < b => Pick(K, a) < Pick(K, b)
  BY <1>1, PickIncreasing
<1>5. \A k \in 1 .. Len(w) : w[k].id < n
  BY <1>2, <1>3
<1>6. \A a, b \in 1 .. Len(w) : a < b => w[a].id < w[b].id
  BY <1>2, <1>3, <1>4
<1> QED BY <1>2, <1>5, <1>6 DEF Numbered

LEMMA ShrunkNumbered ==
    ASSUME NEW u \in UnAcked, NEW n \in Number, Numbered(u, n)
    PROVE  /\ u # Nil => \A h \in Nat : Numbered(Above(u, h), n)
           /\ \A st \in Stanza : Numbered(Without(u, st), n)
           /\ Numbered(Capped(u), n)
           /\ Numbered(Nil, n)
           /\ n # Nil => Numbered(<<>>, n)
<1>1. ASSUME u # Nil, NEW h \in Nat PROVE Numbered(Above(u, h), n)
  BY <1>1, UnAckedType, FilterNumbered DEF Above
<1>2. ASSUME NEW st \in Stanza PROVE Numbered(Without(u, st), n)
  <2>1. CASE u = Nil
    BY <2>1 DEF Without
  <2>2. CASE u # Nil
    <3>1. Numbered(Subsequence(u, {i \in 1 .. Len(u) : u[i].st # st}), n)
      BY <2>2, UnAckedType, FilterNumbered
    <3> QED BY <2>2, <3>1 DEF Without
  <2> QED BY <2>1, <2>2
<1>3. Numbered(Nil, n) /\ (n # Nil => Numbered(<<>>, n))
  BY DEF Numbered
<1>4. Numbered(Capped(u), n)
  <2>1. u # Nil => n # Nil
    BY DEF Numbered
  <2> QED BY <1>3, <2>1 DEF Capped
<1> QED BY <1>1, <1>2, <1>3, <1>4

\* The next stanza takes the number of the counter, which then moves on.
LEMMA AppendNumbered ==
    ASSUME NEW u \in UnAcked, NEW n \in Nat, Numbered(u, n)
    PROVE  /\ Numbered(u, n + 1)
           /\ u # Nil => \A st \in Stanza : Numbered(Append(u, [id |-> n, st |-> st]), n + 1)
<1>1. n + 1 # Nil
  BY NilAssumption
<1>2. u # Nil => u \in Seq(Entry) /\ Len(u) \in Nat /\ \A i \in 1 .. Len(u) : u[i].id \in Nat
  <2>1. u # Nil => u \in Seq(Entry) /\ Len(u) \in Nat /\ \A i \in 1 .. Len(u) : u[i] \in Entry
    BY UnAckedType
  <2> QED BY <2>1 DEF Entry
<1>3. Numbered(u, n + 1)
  BY <1>1, <1>2 DEF Numbered
<1>4. ASSUME u # Nil, NEW st \in Stanza
      PROVE  Numbered(Append(u, [id |-> n, st |-> st]), n + 1)
  <2> DEFINE w == Append(u, [id |-> n, st |-> st])
  <2>1. /\ Len(w) = Len(u) + 1 /\ w[Len(u) + 1].id = n
        /\ \A i \in 1 .. Len(u) : w[i] = u[i]
    BY <1>2, <1>4
  <2>2. \A i \in 1 .. Len(u) : w[i].id \in Nat /\ w[i].id < n
    BY <1>2, <1>4, <2>1 DEF Numbered
  <2>3. \A i \in 1 .. Len(w) : w[i].id < n + 1
    BY <1>2, <1>4, <2>1, <2>2
  <2>4. \A i, j \in 1 .. Len(w) : i < j => w[i].id < w[j].id
    <3>1. TAKE i \in 1 .. Len(w), j \in 1 .. Len(w)
    <3>2. HAVE i < j
    <3>3. i \in 1 .. Len(u)
      BY <1>2, <1>4, <2>1, <3>2
    <3>4. CASE j \in 1 .. Len(u)
      BY <1>4, <2>1, <3>2, <3>3, <3>4 DEF Numbered
    <3>5. CASE j = Len(u) + 1
      BY <2>1, <2>2, <3>3, <3>5
    <3> QED BY <1>2, <1>4, <2>1, <3>4, <3>5
  <2> QED BY <1>1, <2>3, <2>4 DEF Numbered
<1> QED BY <1>3, <1>4

\* A step that leaves the stream and the counter alone, and the record too or
\* saves what it makes of it.
LEMMA RecordStep ==
    ASSUME TypeOK, Numbers,
           streamID' = streamID, lastOutbound' = lastOutbound,
           \A c \in running' : c.at = "clean" => c \in running,
           \/ unAcked' = unAcked /\ persisted' = persisted
           \/ persisted' = Saved(unAcked', lastOutbound, streamID),
           streamID # Nil => Numbered(unAcked', lastOutbound),
           unAcked = Nil => unAcked' = Nil,
           lastOutbound = Nil => NoTrack(netQueue')
    PROVE  Numbers'
<1>1. NumbersKnown'
  BY DEF Numbers, NumbersKnown, Saved
<1>2. SavedNumbering'
  BY DEF Numbers, SavedNumbering, Saved
<1>3. NumberingSound'
  BY DEF Numbers, NumberingSound
<1>4. SavedSound'
  BY DEF Numbers, SavedSound, Saved
<1> QED BY <1>1, <1>2, <1>3, <1>4 DEF Numbers

\* A step that touches the queue only.
LEMMA QueueStep ==
    ASSUME TypeOK, Numbers,
           UNCHANGED <<streamID, lastOutbound, unAcked, persisted>>,
           \A c \in running' : c.at = "clean" => c \in running,
           lastOutbound = Nil => NoTrack(netQueue')
    PROVE  Numbers'
<1>1. streamID # Nil => Numbered(unAcked', lastOutbound)
  BY DEF Numbers, NumberingSound
<1> QED BY <1>1, RecordStep

\* Without a counter nothing that records is queued.
LEMMA NoTrackQueued ==
    ASSUME TypeOK, Numbers, lastOutbound = Nil
    PROVE  /\ unAcked = Nil /\ NoTrack(netQueue)
           /\ netQueue # <<>> => NoTrack(Tail(netQueue)) /\ Head(netQueue).op # "track"
           /\ \A sts \in Seq(Stanza) : \A state, sm :
                 NoTrack(SendOps(sts, Tracking(state, sm, Nil)))
<1>1. unAcked = Nil /\ NoTrack(netQueue)
  BY DEF Numbers, NumbersKnown
<1>2. netQueue \in Seq(Op)
  BY DEF TypeOK
<1> QED BY <1>1, <1>2, NoTrackTail, NoTrackSendOps

LEMMA NoTrackEnqueue ==
    ASSUME TypeOK, Numbers, lastOutbound = Nil,
           NEW ops \in Seq(Op), NoTrack(ops), Enqueue(ops)
    PROVE  NoTrack(netQueue')
BY NoTrackQueued, NoTrackConcat DEF Enqueue, TypeOK

\* A new object knows nothing; what is saved stays.
LEMMA RestartNumbers ==
    ASSUME Numbers, Restart, persisted' = persisted
    PROVE  Numbers'
<1>1. NoTrack(<<>>)
  BY DEF NoTrack
<1> QED BY <1>1 DEF Restart, Numbers, NumbersKnown, SavedNumbering, NumberingSound, SavedSound

LEMMA UserNumbers ==
    ASSUME TypeOK, Numbers,
           \/ \E m \in Msgs : AppSend(m)
           \/ Teardown \/ Reconnect \/ GoToBackground \/ Logout \/ LogIn \/ Connect
           \/ \E sm \in BOOLEAN : Authenticate(sm)
    PROVE  Numbers'
<1>0. 0 # Nil /\ NoTrack(<<>>) /\ NoTrack(<<[op |-> "close"], [op |-> "cleanup"]>>)
      /\ NoTrack(<<[op |-> "suspend"]>>) /\ <<[op |-> "suspend"]>> \in Seq(Op)
  BY NilAssumption, OpConstructors DEF NoTrack
<1>1. ASSUME NEW m \in Msgs, AppSend(m) PROVE Numbers'
  <2>1. <<m>> \in Seq(Stanza)
    BY DEF Stanza
  <2>2. SendOps(<<m>>, Tracking(accountState, supportsSM3, unAcked)) \in Seq(Op)
    BY <2>1, SendOpsType, TrackingType
  <2>3. lastOutbound = Nil => NoTrack(netQueue')
    BY <1>1, <2>1, <2>2, NoTrackQueued, NoTrackEnqueue DEF AppSend
  <2> QED BY <1>1, <2>3, QueueStep DEF AppSend, memory
<1>2. CASE Teardown
  BY <1>0, <1>2, QueueStep DEF Teardown, memory
<1>3. CASE Reconnect
  BY <1>0, <1>3, QueueStep DEF Reconnect, memory
<1>4. CASE GoToBackground
  <2>1. lastOutbound = Nil => NoTrack(netQueue')
    BY <1>0, <1>4, NoTrackEnqueue DEF GoToBackground
  <2> QED BY <1>4, <2>1, QueueStep DEF GoToBackground, memory
<1>5. CASE Logout
  <2>1. CASE lastOutbound' = 0 /\ streamID' = Nil /\ persisted' = Saved(unAcked, 0, Nil)
    <3>1. persisted'.lastOutbound = 0 /\ persisted'.streamID = Nil
      BY <2>1 DEF Saved
    <3> QED BY <1>0, <2>1, <3>1
            DEF Numbers, NumbersKnown, SavedNumbering, NumberingSound, SavedSound
  <2>2. CASE UNCHANGED <<lastOutbound, streamID, persisted>>
    BY <1>0, <1>5, <2>2, QueueStep DEF Logout
  <2> QED BY <1>5, <2>1, <2>2 DEF Logout
<1>6. CASE LogIn
  BY <1>0, <1>6, RestartNumbers DEF LogIn
<1>7. CASE Connect
  <2>1. /\ unAcked' = persisted.unAcked /\ lastOutbound' = persisted.lastOutbound
        /\ streamID' = persisted.streamID
        /\ UNCHANGED <<netQueue, running, persisted>> /\ running = {}
    BY <1>7 DEF Connect
  <2>2. persisted.lastOutbound = Nil => lastOutbound = Nil
    BY DEF Numbers, SavedNumbering
  <2>3. NumbersKnown'
    BY <2>1, <2>2 DEF Numbers, NumbersKnown
  <2>4. SavedNumbering' /\ NumberingSound' /\ SavedSound'
    BY <2>1 DEF Numbers, SavedNumbering, NumberingSound, SavedSound
  <2> QED BY <2>3, <2>4 DEF Numbers
<1>8. ASSUME NEW sm \in BOOLEAN, Authenticate(sm) PROVE Numbers'
  <2>1. lastOutbound = Nil => NoTrack(netQueue')
    BY <1>8, NoTrackQueued DEF Authenticate
  <2> QED BY <1>8, <2>1, QueueStep DEF Authenticate
<1> QED BY <1>1, <1>2, <1>3, <1>4, <1>5, <1>6, <1>7, <1>8

LEMMA NetworkNumbers ==
    ASSUME TypeOK, Numbers, NetworkStep
    PROVE  Numbers'
<1> DEFINE T == Tracking(accountState, supportsSM3, unAcked)
<1>0. /\ netQueue \in Seq(Op) /\ unAcked \in UnAcked /\ lastOutbound \in Number
      /\ streamID # Nil => lastOutbound # Nil /\ lastOutbound \in Nat /\ Numbered(unAcked, lastOutbound)
  BY NumberType DEF TypeOK, Numbers, NumbersKnown, NumberingSound
<1>1. streamID # Nil => Numbered(<<>>, lastOutbound) /\ Numbered(Nil, lastOutbound)
  BY <1>0, ShrunkNumbered
<1>2. lastOutbound = Nil /\ netQueue # <<>> => NoTrack(Tail(netQueue))
  BY NoTrackQueued
<1>3. CASE Track
  <2> DEFINE e == [id |-> lastOutbound, st |-> Head(netQueue).st]
  <2>1. Head(netQueue).st \in Stanza /\ lastOutbound \in Nat
    BY <1>0, <1>3, HeadOfQueue, OpFields, NumberType DEF Track
  <2>2. lastOutbound' = lastOutbound + 1 /\ lastOutbound' # Nil
    BY <1>3, <2>1, NilAssumption DEF Track
  <2>3. /\ persisted'.lastOutbound = lastOutbound' /\ persisted'.streamID = streamID
        /\ persisted'.unAcked = unAcked' /\ streamID' = streamID /\ running' = running
    BY <1>3 DEF Track, Saved
  <2>4. ASSUME streamID # Nil PROVE Numbered(unAcked', lastOutbound')
    <3>1. Numbered(unAcked, lastOutbound)
      BY <1>0, <2>4
    <3>2. CASE unAcked = Nil
      BY <1>3, <3>2 DEF Track, Numbered
    <3>3. CASE unAcked # Nil
      <4>1. unAcked' = Append(unAcked, e)
        BY <1>3, <3>3 DEF Track
      <4> QED BY <1>0, <2>1, <2>2, <3>1, <3>3, <4>1, AppendNumbered
    <3> QED BY <3>2, <3>3
  <2>5. ASSUME streamID # Nil, NEW c \in running, c.at = "clean"
        PROVE  Numbered(c.copy, lastOutbound')
    <3>1. c.copy \in UnAcked /\ Numbered(c.copy, lastOutbound)
      BY <2>5, ContinuationFields DEF TypeOK, Numbers, NumberingSound
    <3> QED BY <2>1, <2>2, <3>1, AppendNumbered
  <2>6. NumbersKnown' /\ SavedNumbering'
    BY <2>2, <2>3 DEF NumbersKnown, SavedNumbering
  <2>7. NumberingSound' /\ SavedSound'
    BY <2>3, <2>4, <2>5 DEF NumberingSound, SavedSound
  <2> QED BY <2>6, <2>7 DEF Numbers
<1>4. CASE Write
  BY <1>2, <1>4, QueueStep DEF Write, Running, Finish, memory
<1>5. CASE RemoveUnAcked
  <2>1. streamID # Nil => Numbered(unAcked', lastOutbound)
    <3>1. Head(netQueue).h \in Nat
      BY <1>0, <1>5, HeadOfQueue, OpFields DEF RemoveUnAcked
    <3> QED BY <1>0, <1>5, <3>1, ShrunkNumbered DEF RemoveUnAcked
  <2>2. unAcked = Nil => unAcked' = Nil
    BY <1>5 DEF RemoveUnAcked
  <2>3. \/ unAcked' = unAcked /\ persisted' = persisted
        \/ persisted' = Saved(unAcked', lastOutbound, streamID)
    BY <1>5 DEF RemoveUnAcked
  <2> QED BY <1>2, <1>5, <2>1, <2>2, <2>3, RecordStep DEF RemoveUnAcked, Running, Finish
<1>6. CASE Resend
  <2>1. lastOutbound = Nil => NoTrack(netQueue')
    <3>1. SendOps(StanzasOf(unAcked), T) \in Seq(Op) /\ StanzasOf(unAcked) \in Seq(Stanza)
      BY <1>0, StanzasOfType, SendOpsType, TrackingType
    <3>2. Tail(netQueue) \in Seq(Op) /\ netQueue # <<>>
      BY <1>0, <1>6, HeadOfQueue DEF Resend, Running
    <3> QED BY <1>2, <1>6, <3>1, <3>2, NoTrackQueued, NoTrackConcat DEF Resend
  <2> QED BY <1>1, <1>6, <2>1, RecordStep DEF Resend
<1>7. CASE ResendSaved
  <2>1. lastOutbound = Nil => NoTrack(netQueue')
    <3> DEFINE sts == StanzasOf(Head(netQueue).saved)
    <3>1. Head(netQueue).saved \in UnAcked
      BY <1>0, <1>7, HeadOfQueue, OpFields, UnAckedType DEF ResendSaved
    <3>2. SendOps(sts, T) \in Seq(Op) /\ sts \in Seq(Stanza)
      BY <3>1, StanzasOfType, SendOpsType, TrackingType
    <3>3. Tail(netQueue) \in Seq(Op) /\ netQueue # <<>>
      BY <1>0, <1>7, HeadOfQueue DEF ResendSaved, Running
    <3> QED BY <1>2, <1>7, <3>2, <3>3, NoTrackQueued, NoTrackConcat DEF ResendSaved
  <2> QED BY <1>7, <2>1, QueueStep DEF ResendSaved, memory
<1>8. CASE ResendAndClear
  <2>1. lastOutbound = Nil => NoTrack(netQueue')
    <3>1. SendOps(StanzasOf(unAcked), T) \in Seq(Op) /\ StanzasOf(unAcked) \in Seq(Stanza)
      BY <1>0, StanzasOfType, SendOpsType, TrackingType
    <3>2. Tail(netQueue) \in Seq(Op) /\ netQueue # <<>>
      BY <1>0, <1>8, HeadOfQueue DEF ResendAndClear, Running
    <3> QED BY <1>2, <1>8, <3>1, <3>2, NoTrackQueued, NoTrackConcat DEF ResendAndClear
  <2> QED BY <1>0, <1>1, <1>8, <2>1, RecordStep DEF ResendAndClear
<1>9. CASE Clear
  BY <1>0, <1>1, <1>2, <1>9, RecordStep DEF Clear, Running, Finish
<1>10. CASE Close
  BY <1>2, <1>10, QueueStep DEF Close, Running, Finish, memory
<1>11. CASE Suspend
  <2>1. NoTrack(netQueue')
    BY <1>11 DEF Suspend, NoTrack
  <2> QED BY <1>11, <2>1, QueueStep DEF Suspend
<1>12. CASE Cleanup
  <2>1. lastOutbound = Nil => NoTrack(netQueue')
    BY <1>2, <1>12 DEF Cleanup, Running, Finish, NoTrack
  <2> QED BY <1>0, <1>1, <1>12, <2>1, RecordStep DEF Cleanup
<1> QED BY <1>3, <1>4, <1>5, <1>6, <1>7, <1>8, <1>9, <1>10, <1>11, <1>12 DEF NetworkStep

LEMMA EnvironmentNumbers ==
    ASSUME TypeOK, Numbers, Server \/ LoseLink \/ Crash
    PROVE  Numbers'
<1>1. lastOutbound = Nil => NoTrack(netQueue)
  BY NoTrackQueued
<1>2. CASE Server \/ LoseLink
  <2>1. UNCHANGED <<memory, netQueue, running, persisted>>
    BY <1>2 DEF Server, SrvBind, SrvEnable, SrvResume, SrvStanza, SrvQuery, SrvClose, SrvAck, LoseLink
  <2> QED BY <1>1, <2>1, QueueStep DEF memory
<1>3. CASE Crash
  BY <1>3, RestartNumbers DEF Crash, history
<1> QED BY <1>2, <1>3

\* Without a counter, what initSession queues does not record.
LEMMA NoTrackSessionOps ==
    ASSUME NEW sm \in BOOLEAN
    PROVE  NoTrack(SessionOps(sm, Nil))
<1>1. SessionStanzas \in Seq(Stanza)
  BY StanzaAssumption DEF Stanza
<1>2. SendOps(SessionStanzas, Tracking("Bound", sm, Nil)) \in Seq(Op)
      /\ NoTrack(SendOps(SessionStanzas, Tracking("Bound", sm, Nil)))
  BY <1>1, SendOpsType, TrackingType, NoTrackSendOps
<1>3. /\ <<>> \in Seq(Op) /\ NoTrack(<<>>)
      /\ <<[op |-> "clear"]>> \in Seq(Op) /\ NoTrack(<<[op |-> "clear"]>>)
  BY OpConstructors DEF NoTrack
<1> QED BY <1>2, <1>3, NoTrackConcat DEF SessionOps

LEMMA ProcessNumbers ==
    ASSUME TypeOK, Numbers, ProcessStep
    PROVE  Numbers'
<1> DEFINE T(u) == Tracking(accountState, supportsSM3, u)
           SavedOrSame == \/ unAcked' = unAcked /\ persisted' = persisted
                          \/ persisted' = Saved(unAcked', lastOutbound, streamID)
<1>0. /\ netQueue \in Seq(Op) /\ unAcked \in UnAcked /\ lastOutbound \in Number
      /\ streamID \in Number /\ supportsSM3 \in BOOLEAN /\ running \subseteq Continuation
      /\ streamID # Nil => Numbered(unAcked, lastOutbound)
      /\ s2c \in Seq(Incoming)
  BY DEF TypeOK, Numbers, NumberingSound
<1>a. /\ Capped(Nil) = Nil
      /\ streamID # Nil => Numbered(Capped(unAcked), lastOutbound)
  BY <1>0, ShrunkNumbered DEF Capped
<1>b. /\ <<>> \in Seq(Op) /\ NoTrack(<<>>) /\ ResendLater.at # "clean" /\ 0 # Nil
      /\ \A n \in {"resend", "resendAndClear", "clear"} :
            <<[op |-> n]>> \in Seq(Op) /\ NoTrack(<<[op |-> n]>>)
      /\ \A h \in Nat : <<[op |-> "remove", h |-> h]>> \in Seq(Op)
                        /\ NoTrack(<<[op |-> "remove", h |-> h]>>)
      /\ \A e : NoTrack(Nonza(e))
  BY OpConstructors, NilAssumption DEF NoTrack, Nonza, ResendLater
<1>1. ASSUME NEW i \in DOMAIN s2c, HandleFeatures(i) PROVE Numbers'
  <2>1. streamID # Nil => Nonza([type |-> "resume", previd |-> streamID]) \in Seq(Op)
    BY <1>0, NumberType, NonzaType
  <2>2. Nonza([type |-> "bind"]) \in Seq(Op)
    BY NonzaType
  <2>3. \/ netQueue' = netQueue
        \/ \E ops \in Seq(Op) : NoTrack(ops) /\ Enqueue(ops)
    BY <1>1, <1>b, <2>1, <2>2 DEF HandleFeatures
  <2>4. lastOutbound = Nil => NoTrack(netQueue')
    BY <2>3, NoTrackQueued, NoTrackEnqueue
  <2> QED BY <1>1, <2>4, QueueStep DEF HandleFeatures
<1>2. ASSUME NEW i \in DOMAIN s2c, HandleBound(i) PROVE Numbers'
  <2>1. ASSUME lastOutbound = Nil PROVE NoTrack(netQueue')
    <3>1. unAcked = Nil
      BY <2>1, NoTrackQueued
    <3>2. CASE supportsSM3
      <4>1. Nonza([type |-> "enable"]) \in Seq(Op)
        BY NonzaType
      <4> QED BY <1>2, <1>b, <2>1, <3>2, <4>1, NoTrackEnqueue DEF HandleBound
    <3>3. CASE ~supportsSM3
      <4> DEFINE ops == <<>> \o SessionOps(FALSE, unAcked) \o <<>>
      <4>1. ops \in Seq(Op) /\ NoTrack(ops)
        BY <1>b, <3>1, SessionOpsType, NoTrackSessionOps, NoTrackConcat, ConcatType
      <4>2. Enqueue(ops)
        BY <1>2, <3>3 DEF HandleBound, InitSession
      <4> QED BY <2>1, <4>1, <4>2, NoTrackEnqueue
    <3> QED BY <3>2, <3>3
  <2>2. SavedOrSame
    BY <1>2 DEF HandleBound, Cap
  <2>3. streamID # Nil => Numbered(unAcked', lastOutbound)
    BY <1>0, <1>2, <1>a DEF HandleBound, Cap
  <2>4. \A c \in running' : c.at = "clean" => c \in running
    BY <1>2, <1>b DEF HandleBound, InitSession
  <2>5. unAcked = Nil => unAcked' = Nil
    BY <1>2, <1>a DEF HandleBound, Cap
  <2> QED BY <1>2, <2>1, <2>2, <2>3, <2>4, <2>5, RecordStep DEF HandleBound
<1>3. ASSUME NEW i \in DOMAIN s2c, HandleEnabled(i) PROVE Numbers'
  <2>1. unAcked' = <<>> /\ lastOutbound' = 0 /\ persisted' = Saved(<<>>, 0, streamID')
    BY <1>3 DEF HandleEnabled
  <2>2. \A c \in running' : c.at # "clean"
    BY <1>3, <1>b DEF HandleEnabled, InitSession
  <2>3. Numbered(<<>>, 0)
    BY <1>b DEF Numbered
  <2> QED BY <1>b, <2>1, <2>2, <2>3
          DEF Numbers, NumbersKnown, SavedNumbering, NumberingSound, SavedSound, Saved
<1>4. ASSUME NEW i \in DOMAIN s2c, HandleA(i) PROVE Numbers'
  <2>1. s2c[i].h \in Nat
    BY <1>0, <1>4, TakeType, IncomingFields DEF HandleA
  <2>2. \E ops \in Seq(Op) : NoTrack(ops) /\ Enqueue(ops)
    BY <1>4, <1>b, <2>1 DEF HandleA
  <2>3. lastOutbound = Nil => NoTrack(netQueue')
    BY <2>2, NoTrackEnqueue
  <2> QED BY <1>4, <2>3, QueueStep DEF HandleA, memory
<1>5. ASSUME NEW i \in DOMAIN s2c, HandleResumed(i) PROVE Numbers'
  <2>1. lastOutbound = Nil => NoTrack(netQueue')
    BY <1>5, NoTrackQueued DEF HandleResumed
  <2>2. \A c \in running' : c.at = "clean" => c \in running
    BY <1>5 DEF HandleResumed
  <2> QED BY <1>5, <2>1, <2>2, QueueStep DEF HandleResumed
<1>6. ASSUME NEW i \in DOMAIN s2c, HandleResumeFailed(i) PROVE Numbers'
  <2>1. s2c[i].h \in Nat
    BY <1>0, <1>6, TakeType, IncomingFields DEF HandleResumeFailed
  <2> DEFINE ops == <<[op |-> "remove", h |-> s2c[i].h]>> \o Nonza([type |-> "bind"])
  <2>2. ops \in Seq(Op) /\ NoTrack(ops)
    BY <1>b, <2>1, NonzaType, ConcatType, NoTrackConcat
  <2>3. Enqueue(ops)
    BY <1>6 DEF HandleResumeFailed
  <2>4. lastOutbound = Nil => NoTrack(netQueue')
    BY <2>2, <2>3, NoTrackEnqueue
  <2>5. /\ streamID' = Nil /\ persisted' = Saved(unAcked, lastOutbound, Nil)
        /\ UNCHANGED <<unAcked, lastOutbound, running>>
    BY <1>6 DEF HandleResumeFailed
  <2> QED BY <2>4, <2>5
          DEF Numbers, NumbersKnown, SavedNumbering, NumberingSound, SavedSound, Saved
<1>7. ASSUME NEW i \in DOMAIN s2c, HandleEnableFailed(i) PROVE Numbers'
  <2>1. ASSUME lastOutbound = Nil PROVE NoTrack(netQueue')
    <3> DEFINE ops == <<>> \o SessionOps(FALSE, unAcked) \o <<[op |-> "resendAndClear"]>>
    <3>1. unAcked = Nil
      BY <2>1, NoTrackQueued
    <3>2. ops \in Seq(Op) /\ NoTrack(ops)
      BY <1>b, <3>1, SessionOpsType, NoTrackSessionOps, NoTrackConcat, ConcatType
    <3>3. Enqueue(ops)
      BY <1>7 DEF HandleEnableFailed, InitSession
    <3> QED BY <2>1, <3>2, <3>3, NoTrackEnqueue
  <2>2. SavedOrSame
    BY <1>7 DEF HandleEnableFailed, Cap
  <2>3. \A c \in running' : c.at = "clean" => c \in running
    BY <1>7, <1>b DEF HandleEnableFailed, InitSession
  <2>4. unAcked' = Capped(unAcked) /\ UNCHANGED <<streamID, lastOutbound>>
    BY <1>7 DEF HandleEnableFailed, Cap
  <2> QED BY <1>a, <2>1, <2>2, <2>3, <2>4, RecordStep
<1>8. ASSUME NEW i \in DOMAIN s2c, HandleResult(i) PROVE Numbers'
  <2> DEFINE c == [at |-> "clean", st |-> s2c[i].st, copy |-> Without(unAcked, s2c[i].st)]
  <2>1. s2c[i].st \in Stanza
    BY <1>0, <1>8, TakeType, IncomingFields, StanzaAssumption DEF HandleResult, Stanza
  <2>2. /\ unAcked = Nil => c.copy = Nil
        /\ streamID # Nil => Numbered(c.copy, lastOutbound)
    BY <1>0, <2>1, ShrunkNumbered DEF Without
  <2>3. running' = running \cup {c} /\ UNCHANGED <<memory, netQueue, persisted>>
    BY <1>8 DEF HandleResult
  <2>4. NumbersKnown'
    BY <2>2, <2>3 DEF Numbers, NumbersKnown, memory
  <2>5. NumberingSound'
    BY <2>2, <2>3 DEF Numbers, NumberingSound, memory
  <2> QED BY <2>3, <2>4, <2>5 DEF Numbers, SavedNumbering, SavedSound, memory
<1>9. ASSUME NEW c \in running, FinishResumed(c) PROVE Numbers'
  <2>1. ASSUME lastOutbound = Nil PROVE NoTrack(netQueue')
    <3> DEFINE send == SendOps(ResumeStanzas, T(unAcked'))
               ops == <<[op |-> "remove", h |-> c.h]>> \o send
    <3>1. unAcked = Nil /\ unAcked' = Nil
      BY <1>9, <1>a, <2>1, NoTrackQueued DEF FinishResumed, Cap
    <3>2. ResumeStanzas \in Seq(Stanza)
      BY StanzaAssumption DEF Stanza
    <3>3. send \in Seq(Op) /\ NoTrack(send)
      BY <3>1, <3>2, SendOpsType, TrackingType, NoTrackSendOps
    <3>4. c.h \in Nat
      BY <1>0, <1>9, ContinuationFields DEF FinishResumed
    <3>5. ops \in Seq(Op) /\ NoTrack(ops)
      BY <1>b, <3>3, <3>4, ConcatType, NoTrackConcat
    <3>6. Enqueue(ops)
      BY <1>9 DEF FinishResumed
    <3> QED BY <2>1, <3>5, <3>6, NoTrackEnqueue
  <2>2. SavedOrSame
    BY <1>9 DEF FinishResumed, Cap
  <2>3. \A d \in running' : d.at = "clean" => d \in running
    BY <1>9, <1>b DEF FinishResumed
  <2>4. unAcked' = Capped(unAcked) /\ UNCHANGED <<streamID, lastOutbound>>
    BY <1>9 DEF FinishResumed, Cap
  <2> QED BY <1>a, <2>1, <2>2, <2>3, <2>4, RecordStep
<1>10. ASSUME NEW c \in running, FinishClean(c) PROVE Numbers'
  <2>1. /\ lastOutbound = Nil => c.copy = Nil
        /\ streamID # Nil => Numbered(c.copy, lastOutbound)
    BY <1>10 DEF FinishClean, Numbers, NumbersKnown, NumberingSound
  <2>2. /\ unAcked' = c.copy /\ running' = running \ {c}
        /\ UNCHANGED <<streamID, lastOutbound, persisted>>
    BY <1>10 DEF FinishClean
  <2>3. ASSUME lastOutbound = Nil PROVE NoTrack(netQueue')
    <3> DEFINE ops == SendOps(FollowUp[c.st], T(c.copy))
    <3>1. FollowUp[c.st] \in Seq(Stanza)
      BY <1>0, <1>10, ContinuationFields, StanzaAssumption DEF FinishClean, Stanza
    <3>2. ops \in Seq(Op) /\ NoTrack(ops)
      BY <2>1, <2>3, <3>1, SendOpsType, TrackingType, NoTrackSendOps
    <3>3. Enqueue(ops)
      BY <1>10 DEF FinishClean
    <3> QED BY <2>3, <3>2, <3>3, NoTrackEnqueue
  <2>4. NumbersKnown'
    BY <2>1, <2>2, <2>3 DEF Numbers, NumbersKnown
  <2>5. NumberingSound'
    BY <2>1, <2>2 DEF Numbers, NumberingSound
  <2> QED BY <2>2, <2>4, <2>5 DEF Numbers, SavedNumbering, SavedSound
<1>11. ASSUME NEW c \in running, NEW fg \in BOOLEAN, DispatchResend(c, fg) PROVE Numbers'
  <2>1. \E ops \in Seq(Op) : NoTrack(ops) /\ Enqueue(ops)
    BY <1>11, <1>b DEF DispatchResend
  <2>2. lastOutbound = Nil => NoTrack(netQueue')
    BY <2>1, NoTrackEnqueue
  <2> QED BY <1>11, <2>2, QueueStep DEF DispatchResend, memory
<1> QED BY <1>1, <1>2, <1>3, <1>4, <1>5, <1>6, <1>7, <1>8, <1>9, <1>10, <1>11 DEF ProcessStep

-----------------------------------------------------------------------------
IInv == TypeOK /\ Numbers

LEMMA InitIInv == Init => IInv
<1> SUFFICES ASSUME Init PROVE IInv
  OBVIOUS
<1>1. /\ streamID = Nil /\ unAcked = Nil /\ netQueue = <<>> /\ running = {}
      /\ lastOutbound = Nil /\ persisted.streamID = Nil /\ persisted.unAcked = Nil
  BY DEF Init, FreshMemory, Saved
<1>2. Numbers
  BY <1>1 DEF Numbers, NumbersKnown, SavedNumbering, NumberingSound, SavedSound, NoTrack
<1> QED BY <1>2, InitType DEF IInv

LEMMA IInvStep == IInv /\ [Next]_vars => IInv'
<1> SUFFICES ASSUME TypeOK, Numbers, [Next]_vars PROVE Numbers'
  BY TypeStep DEF IInv
<1>1. CASE UNCHANGED vars
  BY <1>1 DEF vars, memory, Numbers, NumbersKnown, SavedNumbering, NumberingSound, SavedSound
<1>2. CASE Next
  BY <1>2, UserNumbers, NetworkNumbers, ProcessNumbers, EnvironmentNumbers DEF Next
<1> QED BY <1>1, <1>2

LEMMA IInvAlways == Spec => []IInv
BY InitIInv, IInvStep, PTL DEF Spec

\* While a stream can be resumed, the record is in the order of its numbers and
\* below the counter, whatever the handlers, the queue and the crashes do: an
\* acknowledgment removes a prefix of what was sent.
THEOREM NumberingIsSound == Spec => []NumberingSound
<1>1. IInv => NumberingSound
  BY DEF IInv, Numbers
<1> QED BY <1>1, IInvAlways, PTL

\* The saved stream and counter are those in memory from the first connect on.
THEOREM SavedNumberingHolds == Spec => []SavedNumbering
<1>1. IInv => SavedNumbering
  BY DEF IInv, Numbers
<1> QED BY <1>1, IInvAlways, PTL

\* No stanza is to be recorded without a counter: the dictionary literal in the
\* first operation of send: never meets a nil.
THEOREM TrackAlwaysFindsCounter == Spec => []TrackFindsCounter
<1>1. ASSUME IInv PROVE TrackFindsCounter
  <2>1. TypeOK /\ Numbers
    BY <1>1 DEF IInv
  <2> QED BY <2>1, NoTrackQueued DEF TrackFindsCounter, Running
<1> QED BY <1>1, IInvAlways, PTL

-----------------------------------------------------------------------------
(***************************************************************************)
(* What the server has counted.  Between the number a stanza gets and the  *)
(* server that counts it lie two queues.  The operation that numbers it is *)
(* directly before the one that writes it (Paired), so at most one stanza  *)
(* is numbered and not yet written (Pending), and what is on the wire is   *)
(* numbered (InFlight): together with what the server has counted they are *)
(* no more than the client has numbered (Covered).  <enabled/> starts the  *)
(* counter over: it must find nothing numbered under way.  There is not,   *)
(* because a stream is negotiated by one element at a time, and until it   *)
(* has been the account is not bound (Negotiation).                        *)
(***************************************************************************)
NumberedStanza(e) == e.type = "stanza" /\ e.numbered
NumberedWrite(o) == o.op = "write" /\ NumberedStanza(o.e)
CountedOp == {o \in Op : o.op = "track" \/ NumberedWrite(o)}
CountedElement == {e \in Outgoing : NumberedStanza(e)}

Paired(q) ==
    /\ \A k \in 1 .. Len(q) : NumberedWrite(q[k]) => k = 1 \/ q[k - 1].op = "track"
    /\ \A k \in 1 .. Len(q) : q[k].op = "track" =>
          k + 1 \in 1 .. Len(q) /\ q[k + 1] = WriteOp(q[k].st, TRUE)

\* A queue that does not begin in the middle of a pair
Whole(q) == Paired(q) /\ (q # <<>> => ~NumberedWrite(q[1]))

Pending(q) == IF q # <<>> /\ NumberedWrite(q[1]) THEN 1 ELSE 0
Marks(c) == [k \in 1 .. Len(c) |-> IF NumberedStanza(c[k]) THEN 1 ELSE 0]
InFlight(c) == Copies(Marks(c), 1)

Request == {e \in Outgoing : e.type \in {"bind", "enable", "resume"}}
RequestOp == {o \in Op : o.op = "write" /\ o.e \in Request}
Answer == {e \in Incoming : e.type \in {"features", "bound", "enabled", "resumed", "failed"}}

LEMMA PairedTail ==
    ASSUME NEW q \in Seq(Op), q # <<>>, Paired(q)
    PROVE  /\ Tail(q) \in Seq(Op) /\ Head(q) = q[1] /\ Paired(Tail(q))
           /\ q[1].op # "track" => Whole(Tail(q))
           /\ q[1].op = "track" => Tail(q) # <<>> /\ Tail(q)[1] = WriteOp(q[1].st, TRUE)
<1>1. /\ Len(q) \in Nat \ {0} /\ Tail(q) \in Seq(Op) /\ Len(Tail(q)) = Len(q) - 1
      /\ Head(q) = q[1] /\ (Tail(q) # <<>> => 1 \in 1 .. Len(Tail(q)))
  OBVIOUS
<1>2. \A k \in 1 .. Len(Tail(q)) : /\ k \in Nat \ {0} /\ k + 1 \in 1 .. Len(q)
                                   /\ Tail(q)[k] = q[k + 1] /\ (k + 1) - 1 = k
  BY <1>1
<1>3. ASSUME NEW k \in 1 .. Len(Tail(q)), NumberedWrite(Tail(q)[k])
      PROVE  IF k = 1 THEN q[1].op = "track" ELSE Tail(q)[k - 1].op = "track"
  <2>1. NumberedWrite(q[k + 1]) /\ k + 1 # 1
    BY <1>2, <1>3
  <2>2. q[(k + 1) - 1].op = "track"
    BY <1>2, <2>1 DEF Paired
  <2>3. q[k].op = "track"
    BY <1>2, <2>2
  <2>4. k # 1 => k - 1 \in 1 .. Len(Tail(q)) /\ Tail(q)[k - 1] = q[k]
    BY <1>1, <1>2
  <2> QED BY <2>3, <2>4
<1>4. ASSUME NEW k \in 1 .. Len(Tail(q)), Tail(q)[k].op = "track"
      PROVE  k + 1 \in 1 .. Len(Tail(q)) /\ Tail(q)[k + 1] = WriteOp(Tail(q)[k].st, TRUE)
  <2>1. q[k + 1].op = "track"
    BY <1>2, <1>4
  <2>2. (k + 1) + 1 \in 1 .. Len(q) /\ q[(k + 1) + 1] = WriteOp(q[k + 1].st, TRUE)
    BY <1>2, <2>1 DEF Paired
  <2>3. k + 1 \in 1 .. Len(Tail(q))
    BY <1>1, <1>2, <2>2
  <2> QED BY <1>2, <2>2, <2>3
<1>5. Paired(Tail(q))
  BY <1>3, <1>4 DEF Paired
<1>6. q[1].op # "track" => Whole(Tail(q))
  BY <1>1, <1>3, <1>5 DEF Whole
<1>7. ASSUME q[1].op = "track" PROVE Tail(q) # <<>> /\ Tail(q)[1] = WriteOp(q[1].st, TRUE)
  <2>0. 1 \in 1 .. Len(q)
    BY <1>1
  <2>1. 1 + 1 \in 1 .. Len(q) /\ q[1 + 1] = WriteOp(q[1].st, TRUE)
    BY <1>7, <2>0 DEF Paired
  <2>2. 1 \in 1 .. Len(Tail(q)) /\ Len(Tail(q)) \in Nat
    BY <1>1, <2>1
  <2>3. Tail(q) # <<>>
    <3>1. \A r : r = <<>> => Len(r) = 0
      OBVIOUS
    <3>2. \A n \in Nat : 1 \in 1 .. n => n # 0
      OBVIOUS
    <3>3. Len(Tail(q)) # 0
      BY <2>2, <3>2
    <3> QED BY <3>1, <3>3, Zenon
  <2>4. Tail(q)[1] = q[1 + 1]
    BY <1>2, <2>2
  <2> QED BY <2>1, <2>3, <2>4
<1> QED BY <1>1, <1>5, <1>6, <1>7

LEMMA PairedConcat ==
    ASSUME NEW q \in Seq(Op), NEW r \in Seq(Op), Paired(q), Whole(r)
    PROVE  /\ q \o r \in Seq(Op) /\ Paired(q \o r)
           /\ Whole(q) => Whole(q \o r)
           /\ Pending(q \o r) = Pending(q)
<1>1. /\ q \o r \in Seq(Op) /\ Len(q \o r) = Len(q) + Len(r)
      /\ \A i \in 1 .. Len(q) + Len(r) :
            (q \o r)[i] = IF i <= Len(q) THEN q[i] ELSE r[i - Len(q)]
  BY ConcatProperties, Zenon
<1>2. Len(q) \in Nat /\ Len(r) \in Nat /\ (q = <<>> <=> Len(q) = 0) /\ (r = <<>> <=> Len(r) = 0)
  OBVIOUS
<1>3. \A k \in 1 .. Len(q \o r) : k \in 1 .. Len(q) => (q \o r)[k] = q[k]
  BY <1>1, <1>2
<1>4. \A k \in 1 .. Len(q \o r) : k \notin 1 .. Len(q) =>
         k \in Nat /\ k - Len(q) \in 1 .. Len(r) /\ (q \o r)[k] = r[k - Len(q)]
  BY <1>1, <1>2
<1>5. ASSUME NEW k \in 1 .. Len(q \o r), NumberedWrite((q \o r)[k]), k # 1
      PROVE  (q \o r)[k - 1].op = "track"
  <2>1. CASE k \in 1 .. Len(q)
    <3>1. q[k - 1].op = "track"
      BY <1>3, <1>5, <2>1 DEF Paired
    <3>2. k - 1 \in 1 .. Len(q) /\ k - 1 \in 1 .. Len(q \o r)
      BY <1>1, <1>2, <1>5, <2>1
    <3> QED BY <1>3, <3>1, <3>2
  <2>2. CASE k \notin 1 .. Len(q)
    <3>1. k - Len(q) \in 1 .. Len(r) /\ NumberedWrite(r[k - Len(q)])
      BY <1>4, <1>5, <2>2
    <3>2. r # <<>>
      BY <1>2, <3>1
    <3>3. k - Len(q) # 1
      BY <3>1, <3>2 DEF Whole
    <3>4. r[(k - Len(q)) - 1].op = "track"
      BY <3>1, <3>3 DEF Whole, Paired
    <3>5. k - 1 \in 1 .. Len(q \o r) /\ k - 1 \notin 1 .. Len(q) /\ (k - 1) - Len(q) = (k - Len(q)) - 1
      BY <1>1, <1>2, <1>4, <2>2, <3>1, <3>3
    <3> QED BY <1>4, <3>4, <3>5
  <2> QED BY <2>1, <2>2
<1>6. ASSUME NEW k \in 1 .. Len(q \o r), (q \o r)[k].op = "track"
      PROVE  k + 1 \in 1 .. Len(q \o r) /\ (q \o r)[k + 1] = WriteOp((q \o r)[k].st, TRUE)
  <2>1. CASE k \in 1 .. Len(q)
    <3>1. k + 1 \in 1 .. Len(q) /\ q[k + 1] = WriteOp(q[k].st, TRUE)
      BY <1>3, <1>6, <2>1 DEF Paired
    <3>2. k + 1 \in 1 .. Len(q \o r)
      BY <1>1, <1>2, <3>1
    <3> QED BY <1>3, <2>1, <3>1, <3>2
  <2>2. CASE k \notin 1 .. Len(q)
    <3>1. k \in Nat /\ k - Len(q) \in 1 .. Len(r) /\ (q \o r)[k] = r[k - Len(q)]
      BY <1>4, <2>2
    <3>2. (k - Len(q)) + 1 \in 1 .. Len(r) /\ r[(k - Len(q)) + 1] = WriteOp(r[k - Len(q)].st, TRUE)
      BY <1>6, <3>1 DEF Whole, Paired
    <3>3. k + 1 \in 1 .. Len(q \o r) /\ k + 1 \notin 1 .. Len(q) /\ (k + 1) - Len(q) = (k - Len(q)) + 1
      BY <1>1, <1>2, <2>2, <3>1, <3>2
    <3> QED BY <1>4, <3>1, <3>2, <3>3
  <2> QED BY <2>1, <2>2
<1>7. Paired(q \o r)
  BY <1>5, <1>6 DEF Paired
<1>8. CASE q = <<>>
  <2>1. q \o r = r
    BY <1>8
  <2> QED BY <1>1, <1>7, <1>8, <2>1 DEF Whole, Pending
<1>9. CASE q # <<>>
  <2>1. 1 \in 1 .. Len(q \o r) /\ 1 \in 1 .. Len(q) /\ Len(q \o r) # 0
    BY <1>1, <1>2, <1>9
  <2>2. (q \o r)[1] = q[1]
    BY <1>3, <2>1
  <2>3. q \o r # <<>>
    BY <1>1, <2>1
  <2> QED BY <1>1, <1>7, <1>9, <2>2, <2>3 DEF Whole, Pending
<1> QED BY <1>8, <1>9

\* What is queued and neither numbers a stanza nor writes a numbered one
LEMMA PlainWhole ==
    ASSUME NEW q \in Seq(Op), NoneOf(q, CountedOp)
    PROVE  Whole(q)
<1>1. \A k \in 1 .. Len(q) : q[k] \in Op /\ k \in DOMAIN q
  OBVIOUS
<1>2. \A k \in 1 .. Len(q) : q[k].op # "track" /\ ~NumberedWrite(q[k])
  BY <1>1 DEF NoneOf, CountedOp
<1>3. q # <<>> => 1 \in 1 .. Len(q)
  OBVIOUS
<1> QED BY <1>2, <1>3 DEF Whole, Paired

\* What send: queues: pairs, or stanzas that are not numbered.
LEMMA SendOpsWhole ==
    ASSUME NEW sts \in Seq(Stanza), NEW t \in BOOLEAN
    PROVE  /\ SendOps(sts, t) \in Seq(Op) /\ Whole(SendOps(sts, t))
           /\ NoneOf(SendOps(sts, t), RequestOp)
           /\ ~t => NoneOf(SendOps(sts, t), CountedOp)
<1> DEFINE q == SendOps(sts, t)
<1>1. q \in Seq(Op)
  BY SendOpsType
<1>2. \A s : TrackOp(s).op = "track" /\ TrackOp(s).st = s
  BY DEF TrackOp
<1>7. \A s, b : WriteOp(s, b).op = "write"
  BY DEF WriteOp
<1>8. \A s, b : TrackOp(s) \notin RequestOp /\ WriteOp(s, b) \notin RequestOp
  BY DEF TrackOp, WriteOp, RequestOp, Request
<1>3. \A s : WriteOp(s, FALSE).op = "write" /\ ~NumberedWrite(WriteOp(s, FALSE))
  BY DEF WriteOp, NumberedWrite, NumberedStanza
<1>4. Len(sts) \in Nat
  OBVIOUS
<1>5. CASE t
  <2> DEFINE n == 2 * Len(sts)
  <2>1. q = [k \in 1 .. n |-> IF k % 2 = 1 THEN TrackOp(sts[(k + 1) \div 2])
                                           ELSE WriteOp(sts[k \div 2], TRUE)]
    BY <1>5 DEF SendOps
  <2>2. DOMAIN q = 1 .. n /\ n \in Nat
    BY <1>4, <2>1
  <2>3. Len(q) = n
    BY <1>1, <2>2
  <2>4. /\ \A k \in 1 .. n : k % 2 = 1 => q[k] = TrackOp(sts[(k + 1) \div 2])
        /\ \A k \in 1 .. n : k % 2 # 1 => q[k] = WriteOp(sts[k \div 2], TRUE)
    BY <2>1
  <2> HIDE DEF q, n
  <2>5. ASSUME NEW k \in 1 .. n, NumberedWrite(q[k]), k # 1
        PROVE  q[k - 1].op = "track"
    <3>1. q[k].op = "write"
      BY <2>5 DEF NumberedWrite
    <3>2. k % 2 # 1
      BY <1>2, <2>4, <3>1
    <3>3. k - 1 \in 1 .. n /\ (k - 1) % 2 = 1
      BY <2>2, <2>5, <3>2
    <3>4. q[k - 1] = TrackOp(sts[((k - 1) + 1) \div 2])
      BY <2>4, <3>3
    <3> QED BY <1>2, <3>4
  <2>6. ASSUME NEW k \in 1 .. n, q[k].op = "track"
        PROVE  k + 1 \in 1 .. n /\ q[k + 1] = WriteOp(q[k].st, TRUE)
    <3>1. k % 2 = 1
      BY <1>7, <2>4, <2>6
    <3>2. k + 1 \in 1 .. n /\ (k + 1) % 2 # 1
      BY <1>4, <2>2, <2>6, <3>1 DEF n
    <3>3. q[k] = TrackOp(sts[(k + 1) \div 2])
      BY <2>4, <3>1
    <3>4. q[k].st = sts[(k + 1) \div 2]
      BY <1>2, <3>3
    <3>5. q[k + 1] = WriteOp(sts[(k + 1) \div 2], TRUE)
      BY <2>4, <3>2
    <3> QED BY <3>2, <3>4, <3>5
  <2>7. Paired(q)
    BY <2>3, <2>5, <2>6 DEF Paired
  <2>8. q # <<>> => ~NumberedWrite(q[1])
    <3>1. CASE 1 \in 1 .. n
      <4>0. 1 % 2 = 1
        OBVIOUS
      <4>2. q[1] = TrackOp(sts[(1 + 1) \div 2])
        BY <2>4, <3>1, <4>0
      <4>1. q[1].op = "track"
        BY <1>2, <4>2
      <4> QED BY <4>1 DEF NumberedWrite
    <3>2. CASE 1 \notin 1 .. n
      BY <1>1, <2>2, <2>3, <3>2
    <3> QED BY <3>1, <3>2
  <2>9. NoneOf(q, RequestOp)
    <3>1. \A k \in 1 .. n : q[k] \notin RequestOp
      BY <1>8, <2>4
    <3> QED BY <2>2, <3>1 DEF NoneOf
  <2> QED BY <1>1, <1>5, <2>7, <2>8, <2>9 DEF Whole, q
<1>6. CASE ~t
  <2>1. q = [k \in 1 .. Len(sts) |-> WriteOp(sts[k], FALSE)]
    BY <1>6 DEF SendOps
  <2>2. DOMAIN q = 1 .. Len(sts) /\ \A k \in DOMAIN q : q[k] = WriteOp(sts[k], FALSE)
    BY <2>1
  <2> HIDE DEF q
  <2>3. NoneOf(q, RequestOp) /\ NoneOf(q, CountedOp)
    <3>1. \A k \in DOMAIN q : q[k] \notin RequestOp
      BY <1>8, <2>2
    <3>2. \A s : WriteOp(s, FALSE) \notin CountedOp
      BY <1>3 DEF CountedOp
    <3>3. \A k \in DOMAIN q : q[k] \notin CountedOp
      BY <2>2, <3>2
    <3> QED BY <3>1, <3>3 DEF NoneOf
  <2>4. Whole(q)
    BY <1>1, <2>3, PlainWhole
  <2> QED BY <1>1, <2>3, <2>4 DEF q
<1> QED BY <1>5, <1>6

\* What is added to the queue at once, in a state of the account: nothing is
\* numbered before it is bound.
Batch(ops, state) ==
    /\ ops \in Seq(Op) /\ Whole(ops) /\ NoneOf(ops, RequestOp)
    /\ state = "Bound" \/ NoneOf(ops, CountedOp)

LEMMA SentBatch ==
    ASSUME NEW sts \in Seq(Stanza), NEW state, NEW sm, NEW u
    PROVE  Batch(SendOps(sts, Tracking(state, sm, u)), IF u = Nil THEN "Disconnected" ELSE state)
<1>1. Tracking(state, sm, u) \in BOOLEAN /\ (Tracking(state, sm, u) => state = "Bound" /\ u # Nil)
  BY DEF Tracking
<1> QED BY <1>1, SendOpsWhole DEF Batch

LEMMA PlainBatch ==
    ASSUME NEW state
    PROVE  /\ Batch(<<>>, state)
           /\ \A n \in {"resend", "resendAndClear", "clear", "close", "cleanup", "suspend"} :
                 Batch(<<[op |-> n]>>, state)
           /\ \A h \in Nat : Batch(<<[op |-> "remove", h |-> h]>>, state)
           /\ \A u \in Seq(Entry) : Batch(<<[op |-> "resendSaved", saved |-> u]>>, state)
<1>1. ASSUME NEW o \in Op, o.op \notin {"track", "write"} PROVE Batch(<<o>>, state)
  <2>1. o \notin CountedOp /\ o \notin RequestOp
    BY <1>1 DEF CountedOp, RequestOp, NumberedWrite
  <2>2. <<o>> \in Seq(Op)
    BY SingleType
  <2>3. NoneOf(<<o>>, CountedOp) /\ NoneOf(<<o>>, RequestOp)
    BY <2>1, FewOfFew, Zenon
  <2> QED BY <2>2, <2>3, PlainWhole DEF Batch
<1>2. Batch(<<>>, state)
  <2>1. <<>> \in Seq(Op) /\ NoneOf(<<>>, CountedOp) /\ NoneOf(<<>>, RequestOp)
    BY FewOfFew
  <2> QED BY <2>1, PlainWhole DEF Batch
<1>3. ASSUME NEW n \in {"resend", "resendAndClear", "clear", "close", "cleanup", "suspend"}
      PROVE  Batch(<<[op |-> n]>>, state)
  BY <1>1, OpConstructors
<1>4. ASSUME NEW h \in Nat PROVE Batch(<<[op |-> "remove", h |-> h]>>, state)
  BY <1>1, OpConstructors
<1>5. ASSUME NEW u \in Seq(Entry) PROVE Batch(<<[op |-> "resendSaved", saved |-> u]>>, state)
  BY <1>1, OpConstructors
<1> QED BY <1>2, <1>3, <1>4, <1>5

LEMMA BothBatches ==
    ASSUME NEW state, NEW q, NEW r, Batch(q, state), Batch(r, state)
    PROVE  Batch(q \o r, state)
<1>1. /\ q \in Seq(Op) /\ r \in Seq(Op) /\ Paired(q) /\ Whole(q) /\ Whole(r)
      /\ NoneOf(q, RequestOp) /\ NoneOf(r, RequestOp)
      /\ state = "Bound" \/ (NoneOf(q, CountedOp) /\ NoneOf(r, CountedOp))
  BY DEF Batch, Whole
<1>2. q \o r \in Seq(Op) /\ Whole(q \o r)
  BY <1>1, PairedConcat
<1>3. NoneOf(q \o r, RequestOp) /\ (state = "Bound" \/ NoneOf(q \o r, CountedOp))
  BY <1>1, FewInBoth
<1> QED BY <1>2, <1>3 DEF Batch

\* A request is queued alone.
LEMMA RequestQueued ==
    ASSUME NEW e \in Request
    PROVE  /\ Nonza(e) \in Seq(Op) /\ Whole(Nonza(e))
           /\ OneOf(Nonza(e), RequestOp) /\ NoneOf(Nonza(e), CountedOp)
<1> DEFINE o == [op |-> "write", e |-> e]
<1>1. e \in Outgoing /\ e.type # "stanza"
  BY DEF Request
<1>2. o \in Op /\ o \notin CountedOp
  BY <1>1 DEF Op, CountedOp, NumberedWrite, NumberedStanza
<1>3. <<o>> \in Seq(Op)
  BY <1>2, SingleType
<1>4. OneOf(<<o>>, RequestOp) /\ NoneOf(<<o>>, CountedOp)
  BY <1>2, FewOfFew, Zenon
<1>5. Whole(<<o>>)
  BY <1>3, <1>4, PlainWhole
<1> QED BY <1>3, <1>4, <1>5 DEF Nonza

LEMMA RequestTypes ==
    /\ [type |-> "bind"] \in Request /\ [type |-> "enable"] \in Request
    /\ \A p \in Nat : [type |-> "resume", previd |-> p] \in Request
BY DEF Request, Outgoing

LEMMA SeqIsFunction ==
    ASSUME NEW S, NEW s \in Seq(S)
    PROVE  s = [k \in 1 .. Len(s) |-> s[k]]
OBVIOUS

\* The stanzas on the wire that are numbered
LEMMA InFlightType ==
    ASSUME NEW c \in Seq(Outgoing)
    PROVE  /\ Marks(c) \in Seq({0, 1}) /\ InFlight(c) \in Nat
           /\ NoneOf(c, CountedElement) => InFlight(c) = 0
<1>1. Len(c) \in Nat /\ \A k \in 1 .. Len(c) : c[k] \in Outgoing /\ k \in DOMAIN c
  OBVIOUS
<1>2. Marks(c) \in [1 .. Len(c) -> {0, 1}]
  BY DEF Marks
<1>3. Marks(c) \in Seq({0, 1}) /\ DOMAIN Marks(c) = 1 .. Len(c)
  BY <1>1, <1>2, IsASeqOver
<1>4. InFlight(c) \in Nat
  BY <1>3, CopiesType DEF InFlight
<1>5. ASSUME NoneOf(c, CountedElement) PROVE InFlight(c) = 0
  <2>1. \A k \in 1 .. Len(c) : ~NumberedStanza(c[k])
    BY <1>1, <1>5 DEF NoneOf, CountedElement
  <2>2. Places(Marks(c), 1) = {}
    BY <1>3, <2>1 DEF Places, Marks
  <2> QED BY <2>2, FS_EmptySet DEF InFlight, Copies
<1> QED BY <1>3, <1>4, <1>5

LEMMA InFlightAppend ==
    ASSUME NEW c \in Seq(Outgoing), NEW e \in Outgoing
    PROVE  InFlight(Append(c, e)) = IF NumberedStanza(e) THEN InFlight(c) + 1 ELSE InFlight(c)
<1> DEFINE m == IF NumberedStanza(e) THEN 1 ELSE 0
<1>1. /\ Len(c) \in Nat /\ Len(Append(c, e)) = Len(c) + 1
      /\ \A k \in 1 .. Len(c) : Append(c, e)[k] = c[k]
      /\ Append(c, e)[Len(c) + 1] = e
  OBVIOUS
<1>2. Marks(c) \in Seq({0, 1}) /\ Len(Marks(c)) = Len(c)
  BY <1>1, InFlightType DEF Marks
<1>3. /\ Len(Append(Marks(c), m)) = Len(c) + 1
      /\ \A k \in 1 .. Len(c) : Append(Marks(c), m)[k] = Marks(c)[k]
      /\ Append(Marks(c), m)[Len(c) + 1] = m
      /\ Append(Marks(c), m) \in Seq({0, 1})
  BY <1>2
<1>4. \A k \in 1 .. Len(c) + 1 :
         Append(Marks(c), m)[k] = IF NumberedStanza(Append(c, e)[k]) THEN 1 ELSE 0
  <2>1. TAKE k \in 1 .. Len(c) + 1
  <2>2. CASE k \in 1 .. Len(c)
    BY <1>1, <1>3, <2>2 DEF Marks
  <2>3. CASE k = Len(c) + 1
    BY <1>1, <1>3, <2>3
  <2>4. k \in 1 .. Len(c) \/ k = Len(c) + 1
    BY <1>1
  <2> QED BY <2>2, <2>3, <2>4
<1>5. Append(Marks(c), m) = [k \in 1 .. Len(c) + 1 |-> Append(Marks(c), m)[k]]
  BY <1>3
<1>6. Marks(Append(c, e)) = Append(Marks(c), m)
  BY <1>1, <1>4, <1>5 DEF Marks
<1>7. Copies(Append(Marks(c), m), 1) = IF m = 1 THEN Copies(Marks(c), 1) + 1 ELSE Copies(Marks(c), 1)
  BY <1>2, AppendedCopies
<1> QED BY <1>6, <1>7 DEF InFlight

LEMMA InFlightTail ==
    ASSUME NEW c \in Seq(Outgoing), c # <<>>
    PROVE  InFlight(Tail(c)) = IF NumberedStanza(Head(c)) THEN InFlight(c) - 1 ELSE InFlight(c)
<1>1. /\ Len(c) \in Nat \ {0} /\ Len(Tail(c)) = Len(c) - 1 /\ Head(c) = c[1]
      /\ \A k \in 1 .. Len(c) - 1 : Tail(c)[k] = c[k + 1] /\ k + 1 \in 1 .. Len(c)
  OBVIOUS
<1>2. Marks(c) \in Seq({0, 1}) /\ Len(Marks(c)) = Len(c)
  BY <1>1, InFlightType DEF Marks
<1>3. Marks(c) # <<>>
  BY <1>1, <1>2
<1>4. /\ Len(Tail(Marks(c))) = Len(c) - 1 /\ Head(Marks(c)) = Marks(c)[1]
      /\ \A k \in 1 .. Len(c) - 1 : Tail(Marks(c))[k] = Marks(c)[k + 1]
      /\ Tail(Marks(c)) \in Seq({0, 1})
  BY <1>1, <1>2, <1>3
<1>5. Tail(Marks(c)) = [k \in 1 .. Len(c) - 1 |-> Tail(Marks(c))[k]]
  BY <1>4, SeqIsFunction
<1>6. \A k \in 1 .. Len(c) - 1 :
         Tail(Marks(c))[k] = IF NumberedStanza(Tail(c)[k]) THEN 1 ELSE 0
  BY <1>1, <1>4 DEF Marks
<1>7. Marks(Tail(c)) = Tail(Marks(c))
  BY <1>1, <1>5, <1>6 DEF Marks
<1>8. Head(Marks(c)) = IF NumberedStanza(Head(c)) THEN 1 ELSE 0
  <2>1. 1 \in 1 .. Len(c)
    BY <1>1
  <2> QED BY <1>1, <1>4, <2>1 DEF Marks
<1>9. Copies(Tail(Marks(c)), 1) =
         IF Head(Marks(c)) = 1 THEN Copies(Marks(c), 1) - 1 ELSE Copies(Marks(c), 1)
  BY <1>2, <1>3, TailCopies
<1>10. Head(Marks(c)) = 1 <=> NumberedStanza(Head(c))
  BY <1>8
<1> QED BY <1>7, <1>9, <1>10 DEF InFlight

-----------------------------------------------------------------------------
(* How the queue changes *)

\* What is numbered is numbered by a bound account that has a record.
NumberingState == IF unAcked = Nil THEN "Disconnected" ELSE accountState

\* What any action may do to the queue: add to it, or cancel it
QueueGrown == \E ops : Batch(ops, NumberingState') /\ netQueue' = netQueue \o ops
QueueFed == QueueGrown \/ Batch(netQueue', "Disconnected")

\* The operation at its head is done.
QueueServed ==
    /\ netQueue # <<>>
    /\ \E ops : Batch(ops, NumberingState') /\ netQueue' = Tail(netQueue) \o ops

QueueMove == QueueFed \/ QueueServed

\* A handler asks the server for the next thing.
RequestMove ==
    \E e \in Request : netQueue' = netQueue \o Nonza(e)
                       \/ \E h \in Nat : netQueue' = netQueue \o (<<[op |-> "remove", h |-> h]>> \o Nonza(e))

LEMMA Unqueued ==
    ASSUME netQueue \in Seq(Op)
    PROVE  /\ netQueue' = netQueue => QueueGrown
           /\ netQueue # <<>> /\ netQueue' = Tail(netQueue) => QueueServed
           /\ netQueue' = <<>> => QueueFed /\ Batch(netQueue', "Disconnected")
<1>1. Batch(<<>>, NumberingState') /\ Batch(<<>>, "Disconnected")
  BY PlainBatch
<1>2. netQueue \o <<>> = netQueue
  OBVIOUS
<1>3. netQueue # <<>> => Tail(netQueue) \o <<>> = Tail(netQueue)
  OBVIOUS
<1> QED BY <1>1, <1>2, <1>3 DEF QueueGrown, QueueFed, QueueServed

LEMMA ResentMove ==
    ASSUME NEW u \in UnAcked, netQueue # <<>>, accountState' = accountState,
           unAcked' = Nil <=> unAcked = Nil,
           netQueue' = Tail(netQueue) \o SendOps(StanzasOf(u),
                                            Tracking(accountState, supportsSM3, unAcked))
    PROVE  QueueServed
<1>1. StanzasOf(u) \in Seq(Stanza)
  BY StanzasOfType
<1>2. Batch(SendOps(StanzasOf(u), Tracking(accountState, supportsSM3, unAcked)),
            NumberingState')
  BY <1>1, SentBatch DEF NumberingState
<1> QED BY <1>2 DEF QueueServed

LEMMA UserMoves ==
    ASSUME TypeOK,
           \/ \E m \in Msgs : AppSend(m)
           \/ Teardown \/ Reconnect \/ GoToBackground \/ Logout \/ LogIn \/ Connect
           \/ \E sm \in BOOLEAN : Authenticate(sm)
    PROVE  QueueFed
<1>0. netQueue \in Seq(Op)
  BY DEF TypeOK
<1>a. /\ Batch(<<[op |-> "close"], [op |-> "cleanup"]>>, "Disconnected")
      /\ Batch(<<[op |-> "suspend"]>>, NumberingState')
  <2>1. Batch(<<[op |-> "close"]>>, "Disconnected") /\ Batch(<<[op |-> "cleanup"]>>, "Disconnected")
    BY PlainBatch
  <2>2. <<[op |-> "close"], [op |-> "cleanup"]>> = <<[op |-> "close"]>> \o <<[op |-> "cleanup"]>>
    OBVIOUS
  <2>3. Batch(<<[op |-> "close"]>> \o <<[op |-> "cleanup"]>>, "Disconnected")
    BY <2>1, BothBatches
  <2> QED BY <2>2, <2>3, PlainBatch
<1>1. ASSUME NEW m \in Msgs, AppSend(m) PROVE QueueFed
  <2>1. <<m>> \in Seq(Stanza)
    BY DEF Stanza
  <2>2. accountState' = accountState /\ unAcked' = unAcked
    BY <1>1 DEF AppSend, memory
  <2>3. Batch(SendOps(<<m>>, Tracking(accountState, supportsSM3, unAcked)), NumberingState')
    BY <2>1, <2>2, SentBatch DEF NumberingState
  <2> QED BY <1>1, <2>3 DEF AppSend, Enqueue, QueueGrown, QueueFed
<1>2. CASE Teardown \/ Logout
  BY <1>a, <1>2 DEF Teardown, Logout, QueueFed
<1>3. CASE GoToBackground
  BY <1>a, <1>3 DEF GoToBackground, Enqueue, QueueGrown, QueueFed
<1>4. CASE Reconnect \/ LogIn \/ Connect
  BY <1>0, <1>4, Unqueued DEF Reconnect, LogIn, Restart, Connect, QueueFed
<1>5. ASSUME NEW sm \in BOOLEAN, Authenticate(sm) PROVE QueueFed
  BY <1>0, <1>5, Unqueued DEF Authenticate, QueueFed
<1> QED BY <1>1, <1>2, <1>3, <1>4, <1>5

LEMMA NetworkMoves ==
    ASSUME TypeOK, NetworkStep
    PROVE  /\ QueueMove /\ (QueueServed \/ Batch(netQueue', "Disconnected"))
           /\ netQueue # <<>> /\ (accountState' = "Bound" => accountState = "Bound")
<1>0. netQueue \in Seq(Op) /\ unAcked \in UnAcked
  BY DEF TypeOK
<1>1. netQueue # <<>> /\ (accountState' = "Bound" => accountState = "Bound")
  BY DEF NetworkStep, Track, Write, RemoveUnAcked, Resend, ResendSaved, ResendAndClear, Clear, Close,
         Suspend, Cleanup, Running, memory
<1>3. ASSUME Track \/ Write \/ RemoveUnAcked \/ Clear \/ Close PROVE QueueServed
  BY <1>0, <1>1, <1>3, Unqueued
     DEF Track, Write, RemoveUnAcked, Clear, Close, Finish
<1>4. ASSUME Resend \/ ResendAndClear PROVE QueueServed
  <2>1. /\ accountState' = accountState /\ (unAcked' = Nil <=> unAcked = Nil)
        /\ netQueue' = Tail(netQueue) \o SendOps(StanzasOf(unAcked),
                                            Tracking(accountState, supportsSM3, unAcked))
    BY <1>4, EmptyNotNil DEF Resend, ResendAndClear
  <2> QED BY <1>0, <1>1, <2>1, ResentMove
<1>5. ASSUME ResendSaved PROVE QueueServed
  <2>1. Head(netQueue).saved \in UnAcked
    BY <1>0, <1>5, HeadOfQueue, OpFields, UnAckedType DEF ResendSaved
  <2>2. /\ accountState' = accountState /\ unAcked' = unAcked
        /\ netQueue' = Tail(netQueue) \o SendOps(StanzasOf(Head(netQueue).saved),
                                            Tracking(accountState, supportsSM3, unAcked))
    BY <1>5 DEF ResendSaved, memory
  <2> QED BY <1>1, <2>1, <2>2, ResentMove
<1>6. ASSUME Suspend PROVE Batch(netQueue', "Disconnected")
  <2>1. Batch(<<[op |-> "close"]>>, "Disconnected")
    BY PlainBatch
  <2>2. netQueue' = <<[op |-> "close"]>>
    BY <1>6 DEF Suspend
  <2> QED BY <2>1, <2>2, Zenon
<1>7. ASSUME Cleanup PROVE QueueServed \/ Batch(netQueue', "Disconnected")
  BY <1>0, <1>1, <1>7, Unqueued DEF Cleanup, Finish
<1>8. QueueServed \/ Batch(netQueue', "Disconnected")
  BY <1>3, <1>4, <1>5, <1>6, <1>7 DEF NetworkStep
<1> QED BY <1>1, <1>8 DEF QueueMove, QueueFed

LEMMA EnvironmentMoves ==
    ASSUME TypeOK, Server \/ LoseLink \/ Crash
    PROVE  /\ QueueFed /\ (accountState' = "Bound" => accountState = "Bound")
           /\ ~Crash => netQueue' = netQueue /\ UNCHANGED memory
<1>0. netQueue \in Seq(Op)
  BY DEF TypeOK
<1>1. CASE Server \/ LoseLink
  <2>1. netQueue' = netQueue /\ UNCHANGED memory
    BY <1>1 DEF Server, SrvBind, SrvEnable, SrvResume, SrvStanza, SrvQuery, SrvClose, SrvAck, LoseLink
  <2> QED BY <1>0, <2>1, Unqueued DEF memory, QueueFed
<1>2. CASE Crash
  <2>1. netQueue' = <<>> /\ accountState' = "Disconnected"
    BY <1>2 DEF Crash, Restart
  <2> QED BY <1>0, <1>2, <2>1, Unqueued
<1> QED BY <1>1, <1>2

\* initSession queues its stanzas once the account is bound.
LEMMA SessionBatch ==
    ASSUME NEW sm, NEW u, NEW before, NEW after,
           \A state : Batch(before, state) /\ Batch(after, state),
           InitSession(sm, u, before, after), unAcked' = Nil <=> u = Nil
    PROVE  QueueGrown /\ accountState' = "Bound"
<1>1. SessionStanzas \in Seq(Stanza)
  BY StanzaAssumption DEF Stanza
<1>6. accountState' = "Bound" /\ netQueue' = netQueue \o (before \o SessionOps(sm, u) \o after)
  BY DEF InitSession, Enqueue
<1>2. Batch(SendOps(SessionStanzas, Tracking("Bound", sm, u)), NumberingState')
  BY <1>1, <1>6, SentBatch DEF NumberingState
<1>3. Batch(<<>>, NumberingState') /\ Batch(<<[op |-> "clear"]>>, NumberingState')
  BY PlainBatch
<1>4. Batch(SessionOps(sm, u), NumberingState')
  BY <1>2, <1>3, BothBatches DEF SessionOps
<1>a. Batch(before, NumberingState') /\ Batch(after, NumberingState')
  OBVIOUS
<1>5. Batch(before \o SessionOps(sm, u) \o after, NumberingState')
  BY <1>4, <1>a, BothBatches
<1> QED BY <1>5, <1>6 DEF QueueGrown

\* What the handlers queue. Only the answers that do not end the negotiation are
\* followed by a request.
LEMMA ProcessMoves ==
    ASSUME TypeOK, ProcessStep
    PROVE  \/ QueueGrown
           \/ /\ RequestMove
              /\ accountState' = "Bound" => accountState = "Bound"
              /\ \E i \in DOMAIN s2c : HandleFeatures(i) \/ HandleBound(i) \/ HandleResumeFailed(i)
<1>0. /\ netQueue \in Seq(Op) /\ s2c \in Seq(Incoming) /\ unAcked \in UnAcked
      /\ running \subseteq Continuation
      /\ streamID # Nil => streamID \in Nat
  BY NumberType DEF TypeOK
<1>a. \A state :
         /\ Batch(<<>>, state)
         /\ Batch(<<[op |-> "resendAndClear"]>>, state)
         /\ \A u \in Seq(Entry) : Batch(<<[op |-> "resendSaved", saved |-> u]>>, state)
         /\ \A h \in Nat : Batch(<<[op |-> "remove", h |-> h]>>, state)
         /\ Batch(<<[op |-> "resend"]>>, state)
  BY PlainBatch
<1>b. Cap => (unAcked' = Nil <=> unAcked = Nil)
  BY EmptyNotNil DEF Cap, Capped
<1>1. ASSUME NEW i \in DOMAIN s2c, HandleFeatures(i)
      PROVE  QueueGrown \/ (RequestMove /\ (accountState' = "Bound" => accountState = "Bound"))
  <2>1. accountState' = accountState
    BY <1>1 DEF HandleFeatures
  <2>2. \/ netQueue' = netQueue
        \/ netQueue' = netQueue \o Nonza([type |-> "bind"])
        \/ streamID # Nil /\ netQueue' = netQueue \o Nonza([type |-> "resume", previd |-> streamID])
    BY <1>1 DEF HandleFeatures, Enqueue
  <2> QED BY <1>0, <2>1, <2>2, RequestTypes, Unqueued DEF RequestMove
<1>2. ASSUME NEW i \in DOMAIN s2c, HandleBound(i)
      PROVE  QueueGrown \/ (RequestMove /\ (accountState' = "Bound" => accountState = "Bound"))
  <2>1. CASE supportsSM3
    <3>1. netQueue' = netQueue \o Nonza([type |-> "enable"]) /\ accountState' = accountState
      BY <1>2, <2>1 DEF HandleBound, Enqueue
    <3> QED BY <3>1, RequestTypes DEF RequestMove
  <2>2. CASE ~supportsSM3
    <3>1. InitSession(FALSE, unAcked, <<>>, <<>>) /\ Cap
      BY <1>2, <2>2 DEF HandleBound
    <3> QED BY <1>a, <1>b, <3>1, SessionBatch
  <2> QED BY <2>1, <2>2
<1>3. ASSUME NEW i \in DOMAIN s2c, HandleEnabled(i) PROVE QueueGrown
  <2> DEFINE after == IF unAcked = Nil THEN <<>>
                      ELSE <<[op |-> "resendSaved", saved |-> unAcked]>>
  <2>1. InitSession(supportsSM3, <<>>, <<>>, after) /\ unAcked' = <<>>
    BY <1>3 DEF HandleEnabled
  <2>2. \A state : Batch(after, state)
    BY <1>0, <1>a, UnAckedType
  <2> HIDE DEF after
  <2> QED BY <1>a, <2>1, <2>2, SessionBatch
<1>4. ASSUME NEW i \in DOMAIN s2c, HandleA(i) PROVE QueueGrown
  <2>1. s2c[i].h \in Nat
    BY <1>0, <1>4, TakeType, IncomingFields DEF HandleA
  <2>2. \/ netQueue' = netQueue \o <<[op |-> "remove", h |-> s2c[i].h]>>
        \/ netQueue' = netQueue \o <<>>
    BY <1>4 DEF HandleA, Enqueue
  <2> QED BY <1>a, <2>1, <2>2 DEF QueueGrown
<1>5. ASSUME NEW i \in DOMAIN s2c, HandleResumed(i) \/ HandleResult(i) PROVE QueueGrown
  BY <1>0, <1>5, Unqueued DEF HandleResumed, HandleResult
<1>6. ASSUME NEW i \in DOMAIN s2c, HandleResumeFailed(i)
      PROVE  RequestMove /\ (accountState' = "Bound" => accountState = "Bound")
  <2>1. s2c[i].h \in Nat
    BY <1>0, <1>6, TakeType, IncomingFields DEF HandleResumeFailed
  <2>2. /\ netQueue' = netQueue \o (<<[op |-> "remove", h |-> s2c[i].h]>>
                                       \o Nonza([type |-> "bind"]))
        /\ accountState' = accountState
    BY <1>6 DEF HandleResumeFailed, Enqueue
  <2> QED BY <2>1, <2>2, RequestTypes DEF RequestMove
<1>7. ASSUME NEW i \in DOMAIN s2c, HandleEnableFailed(i) PROVE QueueGrown
  <2>1. InitSession(FALSE, unAcked, <<>>, <<[op |-> "resendAndClear"]>>) /\ Cap
    BY <1>7 DEF HandleEnableFailed
  <2> QED BY <1>a, <1>b, <2>1, SessionBatch
<1>8. ASSUME NEW c \in running, FinishResumed(c) PROVE QueueGrown
  <2> DEFINE send == SendOps(ResumeStanzas, Tracking(accountState, supportsSM3, unAcked'))
  <2>1. c.h \in Nat
    BY <1>0, <1>8, ContinuationFields DEF FinishResumed
  <2>2. ResumeStanzas \in Seq(Stanza) /\ accountState' = accountState
    BY <1>8, StanzaAssumption DEF FinishResumed, Stanza
  <2>3. Batch(send, NumberingState')
    BY <2>2, SentBatch DEF NumberingState
  <2>4. Batch(<<[op |-> "remove", h |-> c.h]>>, NumberingState')
    BY <1>a, <2>1
  <2>5. netQueue' = netQueue \o (<<[op |-> "remove", h |-> c.h]>> \o send)
    BY <1>8 DEF FinishResumed, Enqueue
  <2> HIDE DEF send
  <2>6. Batch(<<[op |-> "remove", h |-> c.h]>> \o send, NumberingState')
    BY <2>3, <2>4, BothBatches
  <2> QED BY <2>5, <2>6 DEF QueueGrown
<1>9. ASSUME NEW c \in running, FinishClean(c) PROVE QueueGrown
  <2> DEFINE send == SendOps(FollowUp[c.st], Tracking(accountState, supportsSM3, c.copy))
  <2>1. FollowUp[c.st] \in Seq(Stanza) /\ accountState' = accountState /\ unAcked' = c.copy
    BY <1>0, <1>9, ContinuationFields, StanzaAssumption DEF FinishClean, Stanza
  <2>2. Batch(send, NumberingState')
    BY <2>1, SentBatch DEF NumberingState
  <2>3. netQueue' = netQueue \o send
    BY <1>9 DEF FinishClean, Enqueue
  <2> QED BY <2>2, <2>3 DEF QueueGrown
<1>10. ASSUME NEW c \in running, NEW fg \in BOOLEAN, DispatchResend(c, fg) PROVE QueueGrown
  <2>1. netQueue' = netQueue \o <<[op |-> "resend"]>> \/ netQueue' = netQueue \o <<>>
    BY <1>10 DEF DispatchResend, Enqueue
  <2> QED BY <1>a, <2>1 DEF QueueGrown
<1> QED BY <1>1, <1>2, <1>3, <1>4, <1>5, <1>6, <1>7, <1>8, <1>9, <1>10 DEF ProcessStep

\* No move breaks a pair, asks for anything, or numbers anything before the
\* account is bound. Only an operation that numbers leaves one more stanza that
\* is numbered and not written.
MovedTo(q, r, state) ==
    /\ r \in Seq(Op) /\ Paired(r)
    /\ NoneOf(q, RequestOp) => NoneOf(r, RequestOp)
    /\ OneOf(q, RequestOp) => OneOf(r, RequestOp)
    /\ state = "Bound" \/ (NoneOf(q, CountedOp) => NoneOf(r, CountedOp))

LEMMA AddedQueue ==
    ASSUME NEW state, NEW q, NEW r, MovedTo(q, r, state), NEW ops, Batch(ops, state)
    PROVE  MovedTo(q, r \o ops, state) /\ Pending(r \o ops) = Pending(r)
<1>1. /\ ops \in Seq(Op) /\ Whole(ops) /\ NoneOf(ops, RequestOp)
      /\ state = "Bound" \/ NoneOf(ops, CountedOp)
  BY DEF Batch
<1>a. r \in Seq(Op) /\ Paired(r)
  BY DEF MovedTo
<1>2. r \o ops \in Seq(Op) /\ Paired(r \o ops) /\ Pending(r \o ops) = Pending(r)
  BY <1>1, <1>a, PairedConcat
<1>3. /\ NoneOf(r, RequestOp) => NoneOf(r \o ops, RequestOp)
      /\ OneOf(r, RequestOp) => OneOf(r \o ops, RequestOp)
      /\ NoneOf(ops, CountedOp) /\ NoneOf(r, CountedOp) => NoneOf(r \o ops, CountedOp)
  BY <1>1, <1>a, FewInBoth
<1> QED BY <1>1, <1>2, <1>3 DEF MovedTo

LEMMA PendingType == \A q : Pending(q) \in {0, 1}
BY DEF Pending

LEMMA FedQueue ==
    ASSUME netQueue \in Seq(Op), Paired(netQueue), QueueFed
    PROVE  MovedTo(netQueue, netQueue', NumberingState')
           /\ Pending(netQueue') <= Pending(netQueue)
<1>1. CASE \E ops : Batch(ops, NumberingState') /\ netQueue' = netQueue \o ops
  <2>1. PICK ops : Batch(ops, NumberingState') /\ netQueue' = netQueue \o ops
    BY <1>1
  <2>a. MovedTo(netQueue, netQueue, NumberingState')
    BY DEF MovedTo
  <2>2. MovedTo(netQueue, netQueue \o ops, NumberingState')
        /\ Pending(netQueue \o ops) = Pending(netQueue)
    BY <2>1, <2>a, AddedQueue, Zenon
  <2>3. Pending(netQueue) <= Pending(netQueue)
    BY PendingType
  <2> QED BY <2>1, <2>2, <2>3
<1>2. CASE Batch(netQueue', "Disconnected")
  <2>1. /\ netQueue' \in Seq(Op) /\ Whole(netQueue')
        /\ NoneOf(netQueue', RequestOp) /\ NoneOf(netQueue', CountedOp)
    BY <1>2 DEF Batch
  <2>2. Pending(netQueue') = 0 /\ Pending(netQueue) \in {0, 1}
    BY <2>1, PendingType DEF Whole, Pending
  <2>3. Pending(netQueue') <= Pending(netQueue)
    BY <2>2
  <2> QED BY <2>1, <2>3, FewOfFew DEF MovedTo, Whole
<1> QED BY <1>1, <1>2 DEF QueueFed, QueueGrown

LEMMA ServedQueue ==
    ASSUME netQueue \in Seq(Op), Paired(netQueue), QueueServed
    PROVE  /\ MovedTo(netQueue, netQueue', NumberingState')
           /\ ~Running("track") => Pending(netQueue') = 0
           /\ OneOf(netQueue, RequestOp) /\ Head(netQueue) \in RequestOp
                 => NoneOf(netQueue', RequestOp)
<1> DEFINE q == Tail(netQueue)
<1>1. PICK ops : Batch(ops, NumberingState') /\ netQueue' = q \o ops
  BY DEF QueueServed
<1>2. /\ q \in Seq(Op) /\ Head(netQueue) = netQueue[1] /\ Paired(q)
      /\ netQueue[1].op # "track" => Whole(q)
  BY PairedTail DEF QueueServed
<1>3. /\ NoneOf(netQueue, RequestOp) => NoneOf(q, RequestOp)
      /\ OneOf(netQueue, RequestOp) => OneOf(q, RequestOp)
      /\ OneOf(netQueue, RequestOp) /\ Head(netQueue) \in RequestOp => NoneOf(q, RequestOp)
      /\ NoneOf(netQueue, CountedOp) => NoneOf(q, CountedOp)
  BY FewerInTail DEF QueueServed
<1>4. ~Running("track") => Pending(q) = 0
  BY <1>2 DEF QueueServed, Running, Whole, Pending
<1> HIDE DEF q
<1>a. MovedTo(netQueue, q, NumberingState')
  BY <1>2, <1>3 DEF MovedTo, Whole
<1>5. MovedTo(netQueue, q \o ops, NumberingState') /\ Pending(q \o ops) = Pending(q)
  BY <1>1, <1>a, AddedQueue, Zenon
<1>6. NoneOf(q, RequestOp) => NoneOf(q \o ops, RequestOp)
  BY <1>1, <1>2, FewInBoth DEF Batch
<1> QED BY <1>1, <1>3, <1>4, <1>5, <1>6

LEMMA RequestedQueue ==
    ASSUME netQueue \in Seq(Op), Paired(netQueue), RequestMove
    PROVE  /\ netQueue' \in Seq(Op) /\ Paired(netQueue')
           /\ Pending(netQueue') <= Pending(netQueue)
           /\ NoneOf(netQueue, RequestOp) => OneOf(netQueue', RequestOp)
           /\ NoneOf(netQueue, CountedOp) => NoneOf(netQueue', CountedOp)
<1>1. PICK e \in Request : netQueue' = netQueue \o Nonza(e)
                       \/ \E h \in Nat : netQueue' = netQueue \o (<<[op |-> "remove", h |-> h]>> \o Nonza(e))
  BY DEF RequestMove
<1>2. /\ Nonza(e) \in Seq(Op) /\ Whole(Nonza(e))
      /\ OneOf(Nonza(e), RequestOp) /\ NoneOf(Nonza(e), CountedOp)
  BY RequestQueued
<1>3. ASSUME NEW r \in Seq(Op), Whole(r), OneOf(r, RequestOp), NoneOf(r, CountedOp),
             netQueue' = netQueue \o r
      PROVE  /\ netQueue' \in Seq(Op) /\ Paired(netQueue')
             /\ Pending(netQueue') <= Pending(netQueue)
             /\ NoneOf(netQueue, RequestOp) => OneOf(netQueue', RequestOp)
             /\ NoneOf(netQueue, CountedOp) => NoneOf(netQueue', CountedOp)
  <2>1. /\ netQueue \o r \in Seq(Op) /\ Paired(netQueue \o r)
        /\ Pending(netQueue \o r) = Pending(netQueue)
    BY <1>3, PairedConcat
  <2>2. /\ NoneOf(netQueue, RequestOp) => OneOf(netQueue \o r, RequestOp)
        /\ NoneOf(netQueue, CountedOp) => NoneOf(netQueue \o r, CountedOp)
    BY <1>3, FewInBoth
  <2>3. Pending(netQueue) <= Pending(netQueue)
    BY PendingType
  <2> QED BY <1>3, <2>1, <2>2, <2>3
<1>4. CASE netQueue' = netQueue \o Nonza(e)
  BY <1>2, <1>3, <1>4
<1>5. ASSUME NEW h \in Nat, netQueue' = netQueue \o (<<[op |-> "remove", h |-> h]>> \o Nonza(e))
      PROVE  /\ netQueue' \in Seq(Op) /\ Paired(netQueue')
             /\ Pending(netQueue') <= Pending(netQueue)
             /\ NoneOf(netQueue, RequestOp) => OneOf(netQueue', RequestOp)
             /\ NoneOf(netQueue, CountedOp) => NoneOf(netQueue', CountedOp)
  <2> DEFINE r == <<[op |-> "remove", h |-> h]>>
  <2>1. Batch(r, "Disconnected")
    BY PlainBatch
  <2>2. r \in Seq(Op) /\ Whole(r) /\ NoneOf(r, RequestOp) /\ NoneOf(r, CountedOp)
    BY <2>1 DEF Batch
  <2> HIDE DEF r
  <2>3. r \o Nonza(e) \in Seq(Op) /\ Whole(r \o Nonza(e))
    BY <1>2, <2>2, PairedConcat DEF Whole
  <2>4. OneOf(r \o Nonza(e), RequestOp) /\ NoneOf(r \o Nonza(e), CountedOp)
    BY <1>2, <2>2, FewInBoth
  <2>5. netQueue' = netQueue \o (r \o Nonza(e))
    BY <1>5 DEF r
  <2> QED BY <1>3, <2>3, <2>4, <2>5
<1> QED BY <1>1, <1>4, <1>5


-----------------------------------------------------------------------------
(* One element negotiates a stream: a request queued or on the wire, or the *)
(* answer.  While it does the account is not bound, and nothing numbered is *)
(* under way.                                                               *)

Asking ==
    OneOf(netQueue, RequestOp) /\ NoneOf(c2s, Request) /\ NoneOf(s2c, Answer)
Asked ==
    NoneOf(netQueue, RequestOp) /\ OneOf(c2s, Request) /\ NoneOf(s2c, Answer)
Answered ==
    NoneOf(netQueue, RequestOp) /\ NoneOf(c2s, Request) /\ OneOf(s2c, Answer)
Negotiated ==
    NoneOf(netQueue, RequestOp) /\ NoneOf(c2s, Request) /\ NoneOf(s2c, Answer)

Unnumbered == NoneOf(netQueue, CountedOp) /\ NoneOf(c2s, CountedElement)

Negotiation ==
    /\ Asking \/ Asked \/ Answered
    /\ Negotiated \/ (accountState # "Bound" /\ Unnumbered)

\* The streams lose elements, or get some that do not negotiate.
NoMore(q, r, X) == (NoneOf(q, X) => NoneOf(r, X)) /\ (OneOf(q, X) => OneOf(r, X))

LEMMA SameNoMore == \A q, r, X : r = q \/ r = <<>> => NoMore(q, r, X)
BY FewOfFew DEF NoMore

LEMMA NegotiationKept ==
    ASSUME netQueue \in Seq(Op), Paired(netQueue), Negotiation, QueueMove,
           NoMore(c2s, c2s', Request), NoMore(s2c, s2c', Answer),
           accountState' = "Bound" => accountState = "Bound",
           NoneOf(c2s, CountedElement) => NoneOf(c2s', CountedElement)
    PROVE  Negotiation'
<1>1. MovedTo(netQueue, netQueue', NumberingState')
  BY FedQueue, ServedQueue DEF QueueMove
<1>2. /\ NoneOf(netQueue, RequestOp) => NoneOf(netQueue', RequestOp)
      /\ OneOf(netQueue, RequestOp) => OneOf(netQueue', RequestOp)
      /\ accountState' = "Bound" \/ (NoneOf(netQueue, CountedOp) => NoneOf(netQueue', CountedOp))
  BY <1>1 DEF MovedTo, NumberingState
<1>3. (Asking \/ Asked \/ Answered)'
  BY <1>2 DEF Negotiation, Asking, Asked, Answered, NoMore
<1>4. (Negotiated \/ (accountState # "Bound" /\ Unnumbered))'
  BY <1>2 DEF Negotiation, Negotiated, Unnumbered, NoMore
<1> QED BY <1>3, <1>4 DEF Negotiation

LEMMA IdleNegotiation ==
    ASSUME Negotiated' PROVE Negotiation'
BY FewOfFew DEF Negotiated, Negotiation, Answered

\* The closing tag is no request and not numbered.
LEMMA ClosingTag ==
    ASSUME c2s \in Seq(Outgoing)
    PROVE  LET d == Append(c2s, [type |-> "close"])
           IN  /\ d \in Seq(Outgoing) /\ NoMore(c2s, d, Request)
               /\ NoneOf(c2s, CountedElement) => NoneOf(d, CountedElement)
               /\ InFlight(d) = InFlight(c2s)
<1> DEFINE e == [type |-> "close"]
<1>1. e \in Outgoing /\ e \notin Request /\ e \notin CountedElement /\ ~NumberedStanza(e)
  BY DEF Outgoing, Request, CountedElement, NumberedStanza
<1> HIDE DEF e
<1>2. Append(c2s, e) \in Seq(Outgoing)
  BY <1>1
<1>3. NoMore(c2s, Append(c2s, e), Request)
  BY <1>1, FewAppended DEF NoMore
<1>4. NoneOf(c2s, CountedElement) => NoneOf(Append(c2s, e), CountedElement)
  BY <1>1, FewAppended
<1>5. InFlight(Append(c2s, e)) = InFlight(c2s)
  BY <1>1, InFlightAppend
<1> QED BY <1>2, <1>3, <1>4, <1>5 DEF e

LEMMA UserNegotiation ==
    ASSUME TypeOK, Paired(netQueue), Negotiation,
           \/ \E m \in Msgs : AppSend(m)
           \/ Teardown \/ Reconnect \/ GoToBackground \/ Logout \/ LogIn \/ Connect
           \/ \E sm \in BOOLEAN : Authenticate(sm)
    PROVE  Negotiation'
<1>0. netQueue \in Seq(Op) /\ c2s \in Seq(Outgoing)
  BY DEF TypeOK
<1>1. QueueMove
  BY UserMoves DEF QueueMove
<1>2. CASE c2s' = c2s /\ s2c' = s2c /\ (accountState' = "Bound" => accountState = "Bound")
  <2>1. NoMore(c2s, c2s', Request) /\ NoMore(s2c, s2c', Answer)
    BY <1>2, SameNoMore
  <2> QED BY <1>0, <1>1, <1>2, <2>1, NegotiationKept
<1>3. CASE Logout
  <2>1. /\ c2s' = c2s \/ c2s' = Append(c2s, [type |-> "close"])
        /\ s2c' = s2c /\ accountState' = accountState
    BY <1>3 DEF Logout
  <2>2. NoMore(c2s, c2s', Request) /\ NoMore(s2c, s2c', Answer)
        /\ (NoneOf(c2s, CountedElement) => NoneOf(c2s', CountedElement))
    BY <1>0, <2>1, SameNoMore, ClosingTag
  <2> QED BY <1>0, <1>1, <2>1, <2>2, NegotiationKept
<1>4. ASSUME NEW sm \in BOOLEAN, Authenticate(sm) PROVE Negotiation'
  <2>1. /\ netQueue' = <<>> /\ c2s' = <<>> /\ s2c' = <<[type |-> "features", sm |-> sm]>>
        /\ accountState' # "Bound"
    BY <1>4 DEF Authenticate
  <2>2. Answered' /\ Unnumbered'
    BY <2>1, FewOfFew DEF Answered, Unnumbered
  <2> QED BY <2>1, <2>2 DEF Negotiation
<1>5. CASE \/ \E m \in Msgs : AppSend(m)
           \/ Teardown \/ Reconnect \/ GoToBackground \/ LogIn \/ Connect
  <2>1. c2s' = c2s /\ s2c' = s2c /\ (accountState' = "Bound" => accountState = "Bound")
    BY <1>5 DEF AppSend, Teardown, Reconnect, GoToBackground, LogIn, Restart, Connect, wire, memory
  <2> QED BY <1>2, <2>1
<1> QED BY <1>3, <1>4, <1>5

LEMMA NetworkNegotiation ==
    ASSUME TypeOK, Paired(netQueue), Negotiation, NetworkStep
    PROVE  Negotiation'
<1>0. netQueue \in Seq(Op) /\ c2s \in Seq(Outgoing) /\ s2c \in Seq(Incoming)
  BY DEF TypeOK
<1>1. QueueMove /\ netQueue # <<>> /\ (accountState' = "Bound" => accountState = "Bound")
  BY NetworkMoves
<1>2. CASE c2s' = c2s /\ s2c' = s2c
  <2>1. NoMore(c2s, c2s', Request) /\ NoMore(s2c, s2c', Answer)
    BY <1>2, SameNoMore
  <2> QED BY <1>0, <1>1, <1>2, <2>1, NegotiationKept
<1>3. CASE Close
  <2>1. CASE link
    <3>1. PICK read \in 0 .. Len(s2c) : LinkLost(read)
      BY <1>3, <2>1 DEF Close
    <3>2. c2s' = <<>> /\ s2c' = SubSeq(s2c, 1, read)
      BY <3>1 DEF LinkLost
    <3>3. NoMore(s2c, s2c', Answer)
      BY <1>0, <3>2, FewerInPrefix DEF NoMore
    <3>4. NoMore(c2s, c2s', Request) /\ NoneOf(c2s', CountedElement)
      BY <3>2, SameNoMore, FewOfFew
    <3> QED BY <1>0, <1>1, <3>3, <3>4, NegotiationKept
  <2>2. CASE ~link
    BY <1>2, <1>3, <2>2 DEF Close, wire
  <2> QED BY <2>1, <2>2
<1>4. CASE Write
  <2> DEFINE o == Head(netQueue)
  <2>1. /\ o \in Op /\ o.op = "write" /\ netQueue' = Tail(netQueue)
        /\ c2s' = c2s \/ c2s' = Append(c2s, o.e)
        /\ s2c' = s2c /\ accountState' = accountState
    BY <1>0, <1>4, HeadOfQueue DEF Write, Finish, memory
  <2>2. o.e \in Outgoing /\ (o.e \in Request => o \in RequestOp)
        /\ (o.e \in CountedElement => o \in CountedOp)
    BY <2>1, OpFields DEF RequestOp, CountedOp, CountedElement, NumberedWrite
  <2>3. /\ NoneOf(netQueue, RequestOp) => o \notin RequestOp
        /\ NoneOf(netQueue, CountedOp) => o \notin CountedOp
        /\ OneOf(netQueue, RequestOp) /\ o \in RequestOp => NoneOf(netQueue', RequestOp)
    BY <1>0, <1>1, <2>1, FewerInTail
  <2> HIDE DEF o
  <2>a. /\ NoneOf(c2s, Request) => OneOf(Append(c2s, o.e), Request)
        /\ NoneOf(c2s, CountedElement) /\ o.e \notin CountedElement
              => NoneOf(Append(c2s, o.e), CountedElement)
    BY <1>0, <2>2, FewAppended
  <2>4. NoneOf(netQueue, CountedOp) => (NoneOf(c2s, CountedElement) => NoneOf(c2s', CountedElement))
    BY <2>1, <2>2, <2>3, <2>a
  <2>5. NoneOf(netQueue, CountedOp) /\ Paired(netQueue) => NoneOf(netQueue', CountedOp)
    BY <1>0, <1>1, <2>1, FewerInTail
  <2>6. CASE o.e \in Request
    <3>1. Asking /\ ~NoneOf(netQueue, RequestOp)
      BY <2>2, <2>3, <2>6 DEF Negotiation, Asked, Answered, Asking
    <3>2. accountState' # "Bound" /\ Unnumbered'
      BY <2>1, <2>4, <2>5, <3>1 DEF Negotiation, Negotiated, Unnumbered
    <3>3. NoneOf(netQueue', RequestOp) /\ OneOf(c2s', Request) /\ NoneOf(s2c', Answer)
      BY <2>1, <2>2, <2>3, <2>6, <2>a, <3>1, FewOfFew DEF Asking
    <3> QED BY <3>2, <3>3 DEF Negotiation, Asked
  <2>7. CASE o.e \notin Request
    <3>1. NoMore(c2s, c2s', Request) /\ NoMore(s2c, s2c', Answer)
      BY <1>0, <2>1, <2>2, <2>7, SameNoMore, FewAppended DEF NoMore
    <3>2. MovedTo(netQueue, netQueue', NumberingState')
      BY <1>0, <1>1, FedQueue, ServedQueue DEF QueueMove
    <3>3. (Asking \/ Asked \/ Answered)'
      BY <3>1, <3>2 DEF Negotiation, Asking, Asked, Answered, NoMore, MovedTo
    <3>4. (Negotiated \/ (accountState # "Bound" /\ Unnumbered))'
      BY <2>1, <2>4, <2>5, <3>1, <3>2 DEF Negotiation, Negotiated, Unnumbered, NoMore, MovedTo, NumberingState
    <3> QED BY <3>3, <3>4 DEF Negotiation
  <2> QED BY <2>6, <2>7
<1>5. CASE \/ Track \/ RemoveUnAcked \/ Resend \/ ResendSaved \/ ResendAndClear
           \/ Clear \/ Suspend \/ Cleanup
  <2>1. c2s' = c2s /\ s2c' = s2c
    BY <1>5 DEF Track, RemoveUnAcked, Resend, ResendSaved, ResendAndClear, Clear, Suspend,
                Cleanup, wire
  <2> QED BY <1>2, <2>1
<1> QED BY <1>3, <1>4, <1>5 DEF NetworkStep

\* The handlers of the answers that negotiate
AnswerTaken == \E i \in DOMAIN s2c :
    HandleFeatures(i) \/ HandleBound(i) \/ HandleEnabled(i) \/ HandleResumed(i)
    \/ HandleResumeFailed(i) \/ HandleEnableFailed(i)

LEMMA TakenAnswer ==
    ASSUME TypeOK, Negotiation, AnswerTaken
    PROVE  /\ Answered /\ accountState # "Bound" /\ Unnumbered
           /\ c2s' = c2s /\ srv' = srv /\ NoneOf(s2c', Answer)
<1>0. s2c \in Seq(Incoming)
  BY DEF TypeOK
<1>1. PICK i \in DOMAIN s2c :
         \E type \in {"features", "bound", "enabled", "resumed", "failed"} : Take(i, type)
  BY DEF AnswerTaken, HandleFeatures, HandleBound, HandleEnabled, HandleResumed,
         HandleResumeFailed, HandleEnableFailed
<1>2. /\ s2c[i].type \in {"features", "bound", "enabled", "resumed", "failed"}
      /\ s2c' = Dropped(s2c, i) /\ c2s' = c2s /\ srv' = srv
  BY <1>1 DEF Take, Dropped
<1>3. s2c[i] \in Answer
  BY <1>0, <1>2 DEF Answer
<1>4. ~NoneOf(s2c, Answer)
  BY <1>3 DEF NoneOf
<1>5. Answered /\ accountState # "Bound" /\ Unnumbered
  BY <1>4 DEF Negotiation, Asking, Asked, Negotiated
<1>6. NoneOf(s2c', Answer)
  BY <1>0, <1>2, <1>3, <1>5, FewerDropped DEF Answered
<1> QED BY <1>2, <1>5, <1>6

\* The other handlers
OthersTaken ==
    \/ \E i \in DOMAIN s2c : HandleA(i) \/ HandleResult(i)
    \/ \E c \in running : FinishResumed(c) \/ FinishClean(c) \/ \E fg \in BOOLEAN : DispatchResend(c, fg)

LEMMA ProcessIsOneOf == ProcessStep <=> AnswerTaken \/ OthersTaken
BY DEF ProcessStep, AnswerTaken, OthersTaken

LEMMA TakenOthers ==
    ASSUME TypeOK, OthersTaken
    PROVE  /\ c2s' = c2s /\ srv' = srv /\ NoMore(s2c, s2c', Answer) /\ accountState' = accountState
           /\ \A X : NoneOf(s2c, X) => NoneOf(s2c', X)
<1>0. s2c \in Seq(Incoming)
  BY DEF TypeOK
<1>1. ASSUME NEW i \in DOMAIN s2c, HandleA(i) \/ HandleResult(i)
      PROVE  /\ c2s' = c2s /\ srv' = srv /\ s2c' = Dropped(s2c, i) /\ accountState' = accountState
  BY <1>1 DEF HandleA, HandleResult, Take, Dropped, memory
<1>2. ASSUME NEW i \in DOMAIN s2c, s2c' = Dropped(s2c, i)
      PROVE  NoMore(s2c, s2c', Answer) /\ \A X : NoneOf(s2c, X) => NoneOf(s2c', X)
  BY <1>0, <1>2, FewerDropped DEF NoMore
<1>3. ASSUME \E c \in running : FinishResumed(c) \/ FinishClean(c) \/ \E fg \in BOOLEAN : DispatchResend(c, fg)
      PROVE  c2s' = c2s /\ srv' = srv /\ s2c' = s2c /\ accountState' = accountState
  BY <1>3 DEF FinishResumed, FinishClean, DispatchResend, wire, memory
<1>4. CASE \E i \in DOMAIN s2c : HandleA(i) \/ HandleResult(i)
  BY <1>1, <1>2, <1>4
<1>5. CASE \E c \in running : FinishResumed(c) \/ FinishClean(c) \/ \E fg \in BOOLEAN : DispatchResend(c, fg)
  BY <1>3, <1>5, SameNoMore
<1> QED BY <1>4, <1>5 DEF OthersTaken

LEMMA ProcessNegotiation ==
    ASSUME TypeOK, Paired(netQueue), Negotiation, ProcessStep
    PROVE  Negotiation'
<1>0. netQueue \in Seq(Op)
  BY DEF TypeOK
<1>1. CASE AnswerTaken
  <2>1. /\ NoneOf(netQueue, RequestOp) /\ NoneOf(c2s, Request) /\ NoneOf(netQueue, CountedOp)
        /\ accountState # "Bound" /\ Unnumbered /\ c2s' = c2s /\ NoneOf(s2c', Answer)
    BY <1>1, TakenAnswer DEF Answered, Unnumbered
  <2>2. CASE QueueFed
    <3>1. NoneOf(netQueue', RequestOp)
      BY <1>0, <2>1, <2>2, FedQueue DEF MovedTo
    <3>2. Negotiated'
      BY <2>1, <3>1 DEF Negotiated
    <3> QED BY <3>2, IdleNegotiation
  <2>3. CASE RequestMove /\ (accountState' = "Bound" => accountState = "Bound")
    <3>1. OneOf(netQueue', RequestOp) /\ NoneOf(netQueue', CountedOp)
      BY <1>0, <2>1, <2>3, RequestedQueue
    <3> QED BY <2>1, <2>3, <3>1 DEF Negotiation, Asking, Unnumbered
  <2> QED BY <2>2, <2>3, ProcessMoves DEF QueueFed
<1>2. CASE OthersTaken /\ ~AnswerTaken
  <2>1. QueueFed
    BY <1>2, ProcessMoves DEF AnswerTaken, QueueFed
  <2>2. c2s' = c2s /\ NoMore(s2c, s2c', Answer) /\ accountState' = accountState
    BY <1>2, TakenOthers
  <2>3. NoMore(c2s, c2s', Request)
    BY <2>2, SameNoMore
  <2> QED BY <1>0, <2>1, <2>2, <2>3, NegotiationKept DEF QueueMove
<1> QED BY <1>1, <1>2, ProcessIsOneOf

LEMMA EnvironmentNegotiation ==
    ASSUME TypeOK, Paired(netQueue), Negotiation, Server \/ LoseLink \/ Crash
    PROVE  Negotiation'
<1>0. netQueue \in Seq(Op) /\ c2s \in Seq(Outgoing) /\ s2c \in Seq(Incoming)
      /\ srv \in [sid : Nat, h : Nat, acked : Nat, extra : Nat, on : BOOLEAN]
  BY DEF TypeOK
<1>1. QueueMove /\ (accountState' = "Bound" => accountState = "Bound")
      /\ (~Crash => netQueue' = netQueue /\ UNCHANGED memory)
  BY EnvironmentMoves DEF QueueMove
<1>2. CASE Crash
  <2>1. netQueue' = <<>> /\ c2s' = <<>> /\ s2c' = <<>>
    BY <1>2 DEF Crash, Restart
  <2>2. Negotiated'
    BY <2>1, FewOfFew DEF Negotiated
  <2> QED BY <2>2, IdleNegotiation
<1>3. CASE LoseLink
  <2>1. PICK read \in 0 .. Len(s2c) : LinkLost(read)
    BY <1>3 DEF LoseLink
  <2>2. c2s' = <<>> /\ s2c' = SubSeq(s2c, 1, read)
    BY <2>1 DEF LinkLost
  <2>3. NoMore(s2c, s2c', Answer)
    BY <1>0, <2>2, FewerInPrefix DEF NoMore
  <2>4. NoMore(c2s, c2s', Request) /\ NoneOf(c2s', CountedElement)
    BY <2>2, SameNoMore, FewOfFew
  <2> QED BY <1>0, <1>1, <2>3, <2>4, NegotiationKept
<1>4. ASSUME c2s # <<>>, c2s' = Tail(c2s), Head(c2s) \in Request, NEW e \in Incoming,
             s2c' = Append(s2c, e), ~Crash
      PROVE  Negotiation'
  <2>1. Asked /\ ~NoneOf(c2s, Request)
    <3>1. ~NoneOf(c2s, Request)
      BY <1>0, <1>4, FewerInTail
    <3> QED BY <3>1 DEF Negotiation, Asking, Answered, Asked
  <2>2. accountState # "Bound" /\ Unnumbered
    BY <2>1 DEF Negotiation, Negotiated
  <2>3. NoneOf(c2s', Request) /\ (NoneOf(c2s, CountedElement) => NoneOf(c2s', CountedElement))
    BY <1>0, <1>4, <2>1, FewerInTail DEF Asked
  <2>4. OneOf(s2c', Answer)
    BY <1>0, <1>4, <2>1, FewAppended DEF Asked
  <2>5. netQueue' = netQueue /\ accountState' = accountState
    BY <1>1, <1>4 DEF memory
  <2>6. Answered'
    BY <2>1, <2>3, <2>4, <2>5 DEF Asked, Answered
  <2>7. accountState' # "Bound" /\ Unnumbered'
    BY <2>2, <2>3, <2>5 DEF Unnumbered
  <2> QED BY <2>6, <2>7 DEF Negotiation
<1>5. CASE SrvBind \/ SrvEnable \/ SrvResume
  <2>0. c2s # <<>> /\ c2s' = Tail(c2s) /\ Head(c2s).type \in {"bind", "enable", "resume"}
    BY <1>5 DEF SrvBind, SrvEnable, SrvResume, Receive
  <2>a. Head(c2s) \in Outgoing
    BY <1>0, <2>0, TailOf
  <2>1. c2s # <<>> /\ c2s' = Tail(c2s) /\ Head(c2s) \in Request
    BY <2>0, <2>a DEF Request
  <2>2. \E e \in Incoming : s2c' = Append(s2c, e)
    <3>1. /\ [type |-> "bound"] \in Incoming
          /\ \A n \in Nat, r \in BOOLEAN : [type |-> "enabled", sid |-> n, resume |-> r] \in Incoming
          /\ \A h \in Nat : /\ [type |-> "failed", h |-> h] \in Incoming
                            /\ [type |-> "resumed", h |-> h] \in Incoming
      BY DEF Incoming
    <3>2. srv.sid + 1 \in Nat /\ srv.h \in Nat /\ 0 \in Nat
      BY <1>0
    <3>3. CASE SrvBind
      BY <3>1, <3>3 DEF SrvBind, Reply
    <3>4. CASE SrvEnable
      BY <3>1, <3>2, <3>4 DEF SrvEnable, Reply
    <3>5. CASE SrvResume
      BY <3>1, <3>2, <3>5 DEF SrvResume, Reply
    <3> QED BY <1>5, <3>3, <3>4, <3>5
  <2> QED BY <1>2, <1>4, <2>1, <2>2
<1>6. CASE SrvStanza \/ SrvQuery \/ SrvClose \/ SrvAck
  <2>1. NoMore(c2s, c2s', Request) /\ (NoneOf(c2s, CountedElement) => NoneOf(c2s', CountedElement))
    <3>1. c2s' = c2s \/ (c2s # <<>> /\ c2s' = Tail(c2s))
      BY <1>6 DEF SrvStanza, SrvQuery, SrvClose, SrvAck, Receive
    <3> QED BY <1>0, <3>1, SameNoMore, FewerInTail DEF NoMore
  <2>2. NoMore(s2c, s2c', Answer)
    <3>1. s2c' = s2c \/ \E e \in Incoming : e \notin Answer /\ s2c' = Append(s2c, e)
      BY <1>0, <1>6 DEF SrvStanza, SrvQuery, SrvClose, SrvAck, Reply, Incoming, Answer
    <3> QED BY <1>0, <3>1, SameNoMore, FewAppended DEF NoMore
  <2> QED BY <1>0, <1>1, <2>1, <2>2, NegotiationKept
<1> QED BY <1>2, <1>3, <1>5, <1>6 DEF Server


-----------------------------------------------------------------------------
(* What the client has numbered covers what the server has counted, what is *)
(* on the wire and what is about to be written.                             *)

UnderWay == InFlight(c2s) + Pending(netQueue)

\* For the session s with the counter n: v is the server's session, t how many
\* numbered stanzas are under way.
Cover(v, t, s, n) ==
    s # Nil => n # Nil /\ s <= v.sid /\ (s = v.sid => v.h + t <= n + v.extra)

Covered ==
    /\ Cover(srv, UnderWay, streamID, lastOutbound)
    /\ Cover(srv, UnderWay, persisted.streamID, persisted.lastOutbound)

\* <enabled/> for a session of which the server has counted a numbered stanza
Stale(v) ==
    {e \in Incoming : e.type = "enabled" /\ ~(e.sid <= v.sid /\ (e.sid = v.sid => v.h <= v.extra))}
Fresh == NoneOf(s2c, Stale(srv))

Session == [sid : Nat, h : Nat, acked : Nat, extra : Nat, on : BOOLEAN]

\* The server has a newer session, or has counted no more of the same one than
\* has left the wire.
CountsNoMore(v, t, w, u) ==
    v.sid <= w.sid /\ (w.sid = v.sid => w.h + u + v.extra <= v.h + t + w.extra)

LEMMA CoverKept ==
    ASSUME NEW v \in Session, NEW w \in Session, NEW t \in Nat, NEW u \in Nat,
           NEW s \in Number, NEW n \in Number, Cover(v, t, s, n), CountsNoMore(v, t, w, u)
    PROVE  Cover(w, u, s, n)
<1>1. CASE s = Nil
  BY <1>1 DEF Cover
<1>2. CASE s # Nil
  <2>1. s \in Nat /\ n \in Nat /\ n # Nil
    BY <1>2, NumberType DEF Cover
  <2>2. /\ v.sid \in Nat /\ v.h \in Nat /\ v.extra \in Nat
        /\ w.sid \in Nat /\ w.h \in Nat /\ w.extra \in Nat
    BY DEF Session
  <2>3. s <= v.sid /\ (s = v.sid => v.h + t <= n + v.extra)
    BY <1>2 DEF Cover
  <2>4. v.sid <= w.sid /\ (w.sid = v.sid => w.h + u + v.extra <= v.h + t + w.extra)
    BY DEF CountsNoMore
  <2>5. s <= w.sid
    BY ONLY <2>1, <2>2, <2>3, <2>4
  <2>6. s = w.sid => s = v.sid /\ w.sid = v.sid
    BY ONLY <2>1, <2>2, <2>3, <2>4
  <2>7. w.h + u + v.extra <= v.h + t + w.extra /\ v.h + t <= n + v.extra => w.h + u <= n + w.extra
    BY ONLY <2>1, <2>2, t \in Nat, u \in Nat
  <2> QED BY <2>1, <2>3, <2>4, <2>5, <2>6, <2>7 DEF Cover
<1> QED BY <1>1, <1>2

LEMMA SameCounts ==
    ASSUME NEW v \in Session, NEW t \in Nat, NEW u \in Nat, u <= t
    PROVE  /\ CountsNoMore(v, t, v, u)
           /\ \A on \in BOOLEAN : CountsNoMore(v, t, [v EXCEPT !.on = on], u)
<1>1. v.sid \in Nat /\ v.h \in Nat /\ v.extra \in Nat
  BY DEF Session
<1>2. CountsNoMore(v, t, v, u)
  BY <1>1 DEF CountsNoMore
<1>3. ASSUME NEW on \in BOOLEAN PROVE CountsNoMore(v, t, [v EXCEPT !.on = on], u)
  <2>1. /\ [v EXCEPT !.on = on].sid = v.sid /\ [v EXCEPT !.on = on].h = v.h
        /\ [v EXCEPT !.on = on].extra = v.extra
    BY DEF Session
  <2> QED BY <1>2, <2>1 DEF CountsNoMore
<1> QED BY <1>2, <1>3

LEMMA UnderWayType ==
    ASSUME TypeOK
    PROVE  /\ srv \in Session /\ UnderWay \in Nat /\ InFlight(c2s) \in Nat
           /\ Pending(netQueue) \in {0, 1} /\ c2s \in Seq(Outgoing)
           /\ netQueue \in Seq(Op) /\ s2c \in Seq(Incoming)
<1>1. /\ srv \in Session /\ c2s \in Seq(Outgoing) /\ netQueue \in Seq(Op)
      /\ s2c \in Seq(Incoming)
  BY DEF TypeOK, Session
<1>2. InFlight(c2s) \in Nat /\ Pending(netQueue) \in {0, 1}
  BY <1>1, InFlightType, PendingType
<1>3. UnderWay \in Nat
  BY <1>2 DEF UnderWay
<1> QED BY <1>1, <1>2, <1>3

LEMMA NoFlight == InFlight(<<>>) = 0
<1>1. <<>> \in Seq(Outgoing) /\ NoneOf(<<>>, CountedElement)
  BY FewOfFew
<1> QED BY <1>1, InFlightType

\* Every step but the one that numbers
LEMMA ServerCounts ==
    ASSUME TypeOK, Paired(netQueue), Negotiation, Server
    PROVE  CountsNoMore(srv, UnderWay, srv', UnderWay')
<1>0. /\ srv \in Session /\ InFlight(c2s) \in Nat /\ Pending(netQueue) \in {0, 1}
      /\ c2s \in Seq(Outgoing) /\ UnderWay \in Nat
      /\ srv.sid \in Nat /\ srv.h \in Nat /\ srv.extra \in Nat
  BY UnderWayType DEF Session
<1>1. netQueue' = netQueue
  BY DEF Server, SrvBind, SrvEnable, SrvResume, SrvStanza, SrvQuery, SrvClose, SrvAck
<1>2. UnderWay' = InFlight(c2s') + Pending(netQueue)
  BY <1>1 DEF UnderWay
<1>3. ASSUME c2s # <<>>, c2s' = Tail(c2s)
      PROVE  /\ Head(c2s) \in Outgoing /\ InFlight(c2s') \in Nat
             /\ InFlight(c2s') = IF NumberedStanza(Head(c2s)) THEN InFlight(c2s) - 1 ELSE InFlight(c2s)
             /\ UnderWay' \in Nat /\ UnderWay' <= UnderWay
  <2>1. Tail(c2s) \in Seq(Outgoing) /\ Head(c2s) \in Outgoing
    BY <1>0, <1>3
  <2>2. InFlight(c2s') = IF NumberedStanza(Head(c2s)) THEN InFlight(c2s) - 1 ELSE InFlight(c2s)
    BY <1>0, <1>3, InFlightTail
  <2>3. InFlight(c2s') \in Nat
    BY <1>3, <2>1, InFlightType
  <2>4. UnderWay = InFlight(c2s) + Pending(netQueue)
    BY DEF UnderWay
  <2>5. InFlight(c2s') <= InFlight(c2s)
    BY <1>0, <2>2, <2>3
  <2>6. UnderWay' \in Nat /\ UnderWay' <= UnderWay
    BY <1>0, <1>2, <2>3, <2>4, <2>5
  <2> QED BY <2>1, <2>2, <2>3, <2>6
<1>4. CASE SrvBind \/ SrvResume
  <2>1. c2s # <<>> /\ c2s' = Tail(c2s) /\ (srv' = srv \/ srv' = [srv EXCEPT !.on = TRUE])
    BY <1>4 DEF SrvBind, SrvResume, Receive
  <2> QED BY <1>0, <1>3, <2>1, SameCounts
<1>5. CASE SrvEnable
  <2>1. c2s # <<>> /\ c2s' = Tail(c2s) /\ (srv' = srv \/ srv'.sid = srv.sid + 1)
    BY <1>5 DEF SrvEnable, Receive
  <2>2. CASE srv' = srv
    BY <1>0, <1>3, <2>1, <2>2, SameCounts
  <2>3. CASE srv'.sid = srv.sid + 1
    <3>1. srv.sid <= srv'.sid /\ srv.sid # srv'.sid
      BY <1>0, <2>3
    <3> QED BY <3>1 DEF CountsNoMore
  <2> QED BY <2>1, <2>2, <2>3
<1>6. CASE SrvClose
  <2>1. srv'.sid = srv.sid + 1
    BY <1>0, <1>6 DEF SrvClose, Session
  <2>2. srv.sid <= srv'.sid /\ srv.sid # srv'.sid
    BY <1>0, <2>1
  <2> QED BY <2>2 DEF CountsNoMore
<1>7. CASE SrvAck \/ SrvQuery
  <2>1. c2s' = c2s /\ srv'.sid = srv.sid /\ srv'.h = srv.h /\ srv'.extra = srv.extra
    BY <1>0, <1>7 DEF SrvAck, SrvQuery, Session
  <2>2. UnderWay' = UnderWay
    BY <1>2, <2>1 DEF UnderWay
  <2> QED BY <1>0, <2>1, <2>2 DEF CountsNoMore
<1>8. CASE SrvStanza
  <2>1. /\ c2s # <<>> /\ c2s' = Tail(c2s) /\ Head(c2s).type = "stanza"
        /\ srv' = IF srv.on
                  THEN [srv EXCEPT !.h = @ + 1,
                                   !.extra = IF Head(c2s).numbered THEN @ ELSE @ + 1]
                  ELSE srv
    BY <1>8 DEF SrvStanza, Receive
  <2>2. CASE ~srv.on
    BY <1>0, <1>3, <2>1, <2>2, SameCounts
  <2>3. CASE srv.on
    <3>1. /\ srv'.sid = srv.sid /\ srv'.h = srv.h + 1
          /\ srv'.extra = IF NumberedStanza(Head(c2s)) THEN srv.extra ELSE srv.extra + 1
      BY <1>0, <2>1, <2>3 DEF Session, NumberedStanza
    <3>2. /\ InFlight(c2s') = IF NumberedStanza(Head(c2s)) THEN InFlight(c2s) - 1 ELSE InFlight(c2s)
          /\ InFlight(c2s') \in Nat
      BY <1>3, <2>1
    <3>3. UnderWay = InFlight(c2s) + Pending(netQueue)
      BY DEF UnderWay
    <3>4. CASE NumberedStanza(Head(c2s))
      <4>1. /\ srv'.h = srv.h + 1 /\ srv'.extra = srv.extra /\ InFlight(c2s') = InFlight(c2s) - 1
        BY <3>1, <3>2, <3>4
      <4>a. UnderWay' = UnderWay - 1
        BY <1>0, <1>2, <3>3, <4>1
      <4>2. srv'.h + UnderWay' + srv.extra <= srv.h + UnderWay + srv'.extra
        BY <1>0, <4>1, <4>a
      <4> QED BY <1>0, <3>1, <4>2 DEF CountsNoMore
    <3>5. CASE ~NumberedStanza(Head(c2s))
      <4>1. /\ srv'.h = srv.h + 1 /\ srv'.extra = srv.extra + 1 /\ InFlight(c2s') = InFlight(c2s)
        BY <3>1, <3>2, <3>5
      <4>a. UnderWay' = UnderWay
        BY <1>2, <3>3, <4>1
      <4>2. srv'.h + UnderWay' + srv.extra <= srv.h + UnderWay + srv'.extra
        BY <1>0, <4>1, <4>a
      <4> QED BY <1>0, <3>1, <4>2 DEF CountsNoMore
    <3> QED BY <3>4, <3>5
  <2> QED BY <2>2, <2>3
<1> QED BY <1>4, <1>5, <1>6, <1>7, <1>8 DEF Server

LEMMA LessUnderWay ==
    ASSUME TypeOK, TypeOK', srv' = srv \/ srv' = [srv EXCEPT !.on = FALSE],
           InFlight(c2s') <= InFlight(c2s), Pending(netQueue') <= Pending(netQueue)
    PROVE  CountsNoMore(srv, UnderWay, srv', UnderWay')
<1>1. /\ srv \in Session /\ UnderWay \in Nat /\ InFlight(c2s) \in Nat
      /\ Pending(netQueue) \in {0, 1}
  BY UnderWayType
<1>2. InFlight(c2s') \in Nat /\ Pending(netQueue') \in {0, 1}
  <2>1. c2s' \in Seq(Outgoing)
    BY DEF TypeOK
  <2> QED BY <2>1, InFlightType, PendingType
<1>3. UnderWay = InFlight(c2s) + Pending(netQueue) /\ UnderWay' = InFlight(c2s') + Pending(netQueue')
  BY DEF UnderWay
<1>4. UnderWay' \in Nat /\ UnderWay' <= UnderWay
  BY <1>1, <1>2, <1>3
<1> QED BY <1>1, <1>4, SameCounts

LEMMA OtherCounts ==
    ASSUME TypeOK, TypeOK', Paired(netQueue), Negotiation, Next, ~Track, ~Server
    PROVE  CountsNoMore(srv, UnderWay, srv', UnderWay')
<1>0. /\ srv \in Session /\ InFlight(c2s) \in Nat /\ Pending(netQueue) \in {0, 1}
      /\ c2s \in Seq(Outgoing) /\ netQueue \in Seq(Op) /\ UnderWay \in Nat
  BY UnderWayType
<1>a. InFlight(c2s) <= InFlight(c2s) /\ 0 <= InFlight(c2s) /\ 0 <= Pending(netQueue)
  BY <1>0
<1>1. CASE ProcessStep
  <2>1. c2s' = c2s /\ srv' = srv
    BY <1>1, ProcessIsOneOf, TakenAnswer, TakenOthers
  <2>2. Pending(netQueue') <= Pending(netQueue)
    BY <1>0, <1>1, ProcessMoves, FedQueue, RequestedQueue DEF QueueFed
  <2> QED BY <1>a, <2>1, <2>2, LessUnderWay
<1>2. CASE \/ \E m \in Msgs : AppSend(m)
           \/ Teardown \/ Reconnect \/ GoToBackground \/ Logout \/ LogIn \/ Connect
           \/ \E sm \in BOOLEAN : Authenticate(sm)
  <2>1. Pending(netQueue') <= Pending(netQueue)
    BY <1>0, <1>2, UserMoves, FedQueue
  <2>2. srv' = srv /\ (c2s' = c2s \/ c2s' = <<>> \/ c2s' = Append(c2s, [type |-> "close"]))
    BY <1>2 DEF AppSend, Teardown, Reconnect, GoToBackground, Logout, LogIn, Connect, Authenticate,
                wire
  <2>3. InFlight(c2s') <= InFlight(c2s)
    BY <1>0, <1>a, <2>2, NoFlight, ClosingTag
  <2> QED BY <2>1, <2>2, <2>3, LessUnderWay
<1>3. CASE LoseLink \/ Crash
  <2>1. Pending(netQueue') <= Pending(netQueue)
    BY <1>0, <1>3, EnvironmentMoves, FedQueue
  <2>2. c2s' = <<>> /\ srv' = [srv EXCEPT !.on = FALSE]
    BY <1>3 DEF LoseLink, LinkLost, Crash
  <2> QED BY <1>a, <2>1, <2>2, NoFlight, LessUnderWay
<1>4. CASE NetworkStep /\ ~Write
  <2>1. QueueMove /\ netQueue # <<>> /\ ~Running("track")
    BY <1>4, NetworkMoves
       DEF NetworkStep, RemoveUnAcked, Resend, ResendSaved, ResendAndClear, Clear, Close, Suspend,
           Cleanup, Running
  <2>2. Pending(netQueue') <= Pending(netQueue)
    BY <1>0, <1>a, <2>1, FedQueue, ServedQueue DEF QueueMove
  <2>3. /\ c2s' = c2s \/ c2s' = <<>>
        /\ srv' = srv \/ srv' = [srv EXCEPT !.on = FALSE]
    BY <1>4 DEF NetworkStep, RemoveUnAcked, Resend, ResendSaved, ResendAndClear, Clear, Close,
                Suspend, Cleanup, LinkLost, wire
  <2>4. InFlight(c2s') <= InFlight(c2s)
    BY <1>a, <2>3, NoFlight
  <2> QED BY <2>2, <2>3, <2>4, LessUnderWay
<1>5. CASE Write
  <2> DEFINE o == Head(netQueue)
  <2>1. /\ o \in Op /\ o.op = "write" /\ netQueue' = Tail(netQueue) /\ netQueue # <<>>
        /\ c2s' = c2s \/ c2s' = Append(c2s, o.e)
        /\ srv' = srv
    BY <1>0, <1>5, HeadOfQueue DEF Write, Finish, Running
  <2>2. o.e \in Outgoing /\ o = netQueue[1] /\ Whole(Tail(netQueue))
    BY <1>0, <2>1, OpFields, PairedTail
  <2>3. Pending(netQueue') = 0 /\ Pending(netQueue) = IF NumberedStanza(o.e) THEN 1 ELSE 0
    BY <2>1, <2>2 DEF Whole, Pending, NumberedWrite
  <2> HIDE DEF o
  <2>4. InFlight(Append(c2s, o.e)) = IF NumberedStanza(o.e) THEN InFlight(c2s) + 1 ELSE InFlight(c2s)
    BY <1>0, <2>2, InFlightAppend
  <2>5. UnderWay = InFlight(c2s) + Pending(netQueue) /\ UnderWay' = InFlight(c2s')
    <3>1. UnderWay' = InFlight(c2s') + 0
      BY <2>3 DEF UnderWay
    <3>2. c2s' \in Seq(Outgoing)
      BY DEF TypeOK
    <3>3. InFlight(c2s') \in Nat
      BY <3>2, InFlightType
    <3> QED BY <3>1, <3>3 DEF UnderWay
  <2>a. InFlight(c2s') = InFlight(c2s) \/ InFlight(c2s') = InFlight(Append(c2s, o.e))
    BY <2>1
  <2>b. CASE NumberedStanza(o.e)
    <3>1. /\ UnderWay = InFlight(c2s) + 1
          /\ UnderWay' = InFlight(c2s) \/ UnderWay' = InFlight(c2s) + 1
      BY <2>3, <2>4, <2>5, <2>a, <2>b
    <3> QED BY <1>0, <2>1, <3>1, SameCounts
  <2>c. CASE ~NumberedStanza(o.e)
    <3>1. UnderWay = InFlight(c2s) + 0 /\ UnderWay' = InFlight(c2s)
      BY <2>3, <2>4, <2>5, <2>a, <2>c
    <3> QED BY <1>0, <2>1, <3>1, SameCounts
  <2> QED BY <2>b, <2>c
<1> QED BY <1>1, <1>2, <1>3, <1>4, <1>5 DEF Next

LEMMA QueueStaysPaired ==
    ASSUME TypeOK, Paired(netQueue), Next
    PROVE  Paired(netQueue') /\ (Track => Pending(netQueue') \in {0, 1})
<1>0. netQueue \in Seq(Op)
  BY DEF TypeOK
<1>1. QueueMove \/ RequestMove
  BY UserMoves, NetworkMoves, EnvironmentMoves, ProcessMoves DEF Next, QueueMove, QueueFed
<1> QED BY <1>0, <1>1, FedQueue, ServedQueue, RequestedQueue, PendingType DEF QueueMove, MovedTo

LEMMA NegotiationInductive ==
    ASSUME TypeOK, Paired(netQueue), Negotiation, Next
    PROVE  Negotiation'
BY UserNegotiation, NetworkNegotiation, ProcessNegotiation, EnvironmentNegotiation DEF Next

\* <enabled/> is fresh when it is handled: the request for it was the only thing
\* under way, so what the server has counted since was not numbered.
LEMMA FreshKept ==
    ASSUME TypeOK, Paired(netQueue), Negotiation, Fresh, Next
    PROVE  Fresh'
<1>0. /\ srv \in Session /\ c2s \in Seq(Outgoing) /\ s2c \in Seq(Incoming)
      /\ srv.sid \in Nat /\ srv.h \in Nat /\ srv.extra \in Nat
  BY UnderWayType DEF Session
<1>1. ASSUME NEW w, srv' = w, w.sid = srv.sid, w.h = srv.h, w.extra = srv.extra
      PROVE  Stale(srv') = Stale(srv)
  BY <1>1 DEF Stale
<1>a. srv' = srv \/ srv' = [srv EXCEPT !.on = FALSE] \/ srv' = [srv EXCEPT !.on = TRUE]
          \/ srv' = [srv EXCEPT !.acked = srv.h] => Stale(srv') = Stale(srv)
  BY <1>0, <1>1 DEF Session
<1>2. ASSUME Stale(srv') = Stale(srv), NoneOf(s2c', Stale(srv)) PROVE Fresh'
  BY <1>2 DEF Fresh
<1>3. CASE s2c' = s2c /\ srv' = srv
  BY <1>3 DEF Fresh
<1>4. CASE ProcessStep
  <2>1. CASE AnswerTaken
    <3>1. NoneOf(s2c', Answer)
      BY <2>1, TakenAnswer
    <3>2. Stale(srv') \subseteq Answer
      BY DEF Stale, Answer
    <3> QED BY <3>1, <3>2 DEF Fresh, NoneOf
  <2>2. CASE OthersTaken
    BY <1>a, <1>2, <2>2, TakenOthers DEF Fresh
  <2> QED BY <1>4, <2>1, <2>2, ProcessIsOneOf
<1>5. ASSUME NEW read \in 0 .. Len(s2c), LinkLost(read) PROVE Fresh'
  <2>1. s2c' = SubSeq(s2c, 1, read) /\ Stale(srv') = Stale(srv)
    BY <1>a, <1>5 DEF LinkLost
  <2> QED BY <1>0, <1>2, <2>1, FewerInPrefix DEF Fresh
<1>6. CASE NetworkStep
  <2>1. (s2c' = s2c /\ srv' = srv) \/ \E read \in 0 .. Len(s2c) : LinkLost(read)
    BY <1>6 DEF NetworkStep, Track, Write, RemoveUnAcked, Resend, ResendSaved, ResendAndClear,
                Clear, Close, Suspend, Cleanup, wire
  <2> QED BY <1>3, <1>5, <2>1
<1>7. ASSUME NEW sm \in BOOLEAN, Authenticate(sm) PROVE Fresh'
  <2>1. s2c' = <<[type |-> "features", sm |-> sm]>> /\ srv' = srv
    BY <1>7 DEF Authenticate
  <2>2. [type |-> "features", sm |-> sm] \notin Stale(srv)
    BY DEF Stale
  <2>3. NoneOf(<<[type |-> "features", sm |-> sm]>>, Stale(srv))
    BY <2>2, FewOfFew, Zenon
  <2> QED BY <2>1, <2>3 DEF Fresh
<1>8. CASE \/ \E m \in Msgs : AppSend(m)
           \/ Teardown \/ Reconnect \/ GoToBackground \/ Logout \/ LogIn \/ Connect
  <2>1. s2c' = s2c /\ srv' = srv
    BY <1>8 DEF AppSend, Teardown, Reconnect, GoToBackground, Logout, LogIn, Connect, wire
  <2> QED BY <1>3, <2>1
<1>9. CASE LoseLink
  BY <1>5, <1>9 DEF LoseLink
<1>10. CASE Crash
  BY <1>10, FewOfFew DEF Crash, Fresh
<1>11. CASE Server
  <2>1. ASSUME NEW e \in Incoming, e \notin Stale(srv'), s2c' = s2c \/ s2c' = Append(s2c, e),
               NoneOf(s2c, Stale(srv'))
        PROVE  Fresh'
    <3>1. NoneOf(Append(s2c, e), Stale(srv'))
      BY <1>0, <2>1, FewAppended
    <3> QED BY <2>1, <3>1 DEF Fresh
  <2>2. \A e \in Incoming : e.type # "enabled" => e \notin Stale(srv')
    BY DEF Stale
  <2>3. CASE SrvBind \/ SrvResume \/ SrvQuery \/ SrvAck
    <3>1. Stale(srv') = Stale(srv)
      BY <1>a, <2>3 DEF SrvBind, SrvResume, SrvQuery, SrvAck
    <3>2. \E e \in Incoming : e.type # "enabled" /\ s2c' = Append(s2c, e)
      <4>1. CASE SrvBind \/ SrvResume \/ SrvAck
        BY <1>0, <4>1 DEF SrvBind, SrvResume, SrvAck, Reply, Incoming
      <4>2. CASE SrvQuery
        <5>1. PICK st \in Cleanable : s2c' = Append(s2c, [type |-> "result", st |-> st])
          BY <4>2 DEF SrvQuery, Reply
        <5>2. [type |-> "result", st |-> st] \in Incoming
          BY DEF Incoming
        <5> QED BY <5>1, <5>2
      <4> QED BY <2>3, <4>1, <4>2
    <3> QED BY <2>1, <2>2, <3>1, <3>2 DEF Fresh
  <2>4. CASE SrvClose
    <3>1. srv'.sid = srv.sid + 1 /\ s2c' = s2c
      BY <1>0, <2>4 DEF SrvClose, Session
    <3>2. Stale(srv') \subseteq Stale(srv)
      BY <1>0, <3>1, IncomingFields DEF Stale
    <3> QED BY <3>1, <3>2 DEF Fresh, NoneOf
  <2>5. CASE SrvEnable
    <3>1. Head(c2s) \in Request /\ c2s # <<>>
      BY <1>0, <2>5 DEF SrvEnable, Receive, Request
    <3>2. ~NoneOf(c2s, Request)
      BY <1>0, <3>1, FewerInTail
    <3>3. NoneOf(s2c, Answer)
      BY <3>2 DEF Negotiation, Asking, Asked, Answered
    <3>4. Stale(srv') \subseteq Answer
      BY DEF Stale, Answer
    <3>5. NoneOf(s2c, Stale(srv'))
      BY <3>3, <3>4 DEF NoneOf
    <3>6. \E e \in Incoming : e \notin Stale(srv') /\ s2c' = Append(s2c, e)
      <4>1. CASE s2c' = Append(s2c, [type |-> "failed", h |-> 0])
        BY <2>2, <4>1 DEF Incoming
      <4>2. ASSUME NEW r \in BOOLEAN, srv'.sid = srv.sid + 1, srv'.h = 0, srv'.extra = 0,
                   s2c' = Append(s2c, [type |-> "enabled", sid |-> srv.sid + 1, resume |-> r])
            PROVE  \E e \in Incoming : e \notin Stale(srv') /\ s2c' = Append(s2c, e)
        <5> DEFINE e == [type |-> "enabled", sid |-> srv.sid + 1, resume |-> r]
        <5>1. e \in Incoming
          BY <1>0 DEF Incoming
        <5>2. e \notin Stale(srv')
          BY <1>0, <4>2 DEF Stale
        <5> QED BY <4>2, <5>1, <5>2
      <4>3. \/ s2c' = Append(s2c, [type |-> "failed", h |-> 0])
            \/ /\ srv' = [sid |-> srv.sid + 1, h |-> 0, acked |-> 0, extra |-> 0, on |-> TRUE]
               /\ \E r \in BOOLEAN : s2c' = Append(s2c, [type |-> "enabled", sid |-> srv.sid + 1, resume |-> r])
        BY <2>5 DEF SrvEnable, Reply
      <4>4. srv' = [sid |-> srv.sid + 1, h |-> 0, acked |-> 0, extra |-> 0, on |-> TRUE]
              => srv'.sid = srv.sid + 1 /\ srv'.h = 0 /\ srv'.extra = 0
        OBVIOUS
      <4> QED BY <4>1, <4>2, <4>3, <4>4
    <3> QED BY <2>1, <3>5, <3>6
  <2>6. CASE SrvStanza
    <3>1. s2c' = s2c \/ \E e \in Incoming : e.type # "enabled" /\ s2c' = Append(s2c, e)
      BY <1>0, <2>6 DEF SrvStanza, Incoming
    <3>a. /\ c2s # <<>> /\ Head(c2s) \in Outgoing /\ Head(c2s).type = "stanza"
          /\ srv' = IF srv.on
                    THEN [srv EXCEPT !.h = @ + 1,
                                     !.extra = IF Head(c2s).numbered THEN @ ELSE @ + 1]
                    ELSE srv
      BY <1>0, <2>6 DEF SrvStanza, Receive
    <3>2. NoneOf(s2c, Stale(srv'))
      <4>1. CASE Head(c2s) \in CountedElement
        <5>1. ~NoneOf(c2s, CountedElement)
          BY <1>0, <3>a, <4>1, FewerInTail
        <5>2. NoneOf(s2c, Answer)
          BY <5>1 DEF Negotiation, Unnumbered, Negotiated
        <5>3. Stale(srv') \subseteq Answer
          BY DEF Stale, Answer
        <5> QED BY <5>2, <5>3 DEF NoneOf
      <4>2. CASE Head(c2s) \notin CountedElement
        <5>a. ~Head(c2s).numbered
          BY <3>a, <4>2 DEF CountedElement, NumberedStanza
        <5>1. /\ srv'.sid = srv.sid
              /\ \/ srv'.h = srv.h /\ srv'.extra = srv.extra
                 \/ srv'.h = srv.h + 1 /\ srv'.extra = srv.extra + 1
          BY <1>0, <3>a, <5>a DEF Session
        <5>2. srv'.h <= srv'.extra <=> srv.h <= srv.extra
          BY <1>0, <5>1
        <5>3. Stale(srv') = Stale(srv)
          BY <5>1, <5>2 DEF Stale
        <5> QED BY <5>3 DEF Fresh
      <4> QED BY <4>1, <4>2
    <3>3. CASE s2c' = s2c
      BY <3>2, <3>3 DEF Fresh
    <3> QED BY <2>1, <2>2, <3>1, <3>2, <3>3
  <2> QED BY <1>11, <2>3, <2>4, <2>5, <2>6 DEF Server
<1> QED BY <1>4, <1>6, <1>7, <1>8, <1>9, <1>10, <1>11 DEF Next

\* A session and its counter in memory or on disk were there before a step, in
\* memory or on disk, unless the step numbers a stanza or is <enabled/>.
PairKept(s, n) ==
    \/ s = Nil
    \/ s = streamID /\ n = lastOutbound
    \/ s = persisted.streamID /\ n = persisted.lastOutbound

LEMMA PairsKept ==
    ASSUME Next, ~Track, ~\E i \in DOMAIN s2c : HandleEnabled(i)
    PROVE  /\ PairKept(streamID', lastOutbound')
           /\ PairKept(persisted'.streamID, persisted'.lastOutbound)
<1>1. \A u, n, s : Saved(u, n, s).streamID = s /\ Saved(u, n, s).lastOutbound = n
  BY DEF Saved
<1>2. CASE streamID' = streamID /\ lastOutbound' = lastOutbound /\ persisted' = persisted
  BY <1>2 DEF PairKept
<1>3. ASSUME streamID' = streamID, lastOutbound' = lastOutbound,
             NEW u, persisted' = persisted \/ persisted' = Saved(u, lastOutbound, streamID)
      PROVE  /\ PairKept(streamID', lastOutbound')
             /\ PairKept(persisted'.streamID, persisted'.lastOutbound)
  BY <1>1, <1>3 DEF PairKept
<1>4. CASE \/ \E m \in Msgs : AppSend(m)
           \/ Teardown \/ Reconnect \/ GoToBackground
           \/ \E sm \in BOOLEAN : Authenticate(sm)
           \/ Server \/ LoseLink \/ Write \/ ResendSaved \/ Close \/ Suspend
  BY <1>2, <1>4 DEF AppSend, Teardown, Reconnect, GoToBackground, Authenticate, Server, SrvBind,
         SrvEnable, SrvResume, SrvStanza, SrvQuery, SrvClose, SrvAck, LoseLink, Write, ResendSaved, Close,
         Suspend, memory
<1>5. CASE Crash \/ LogIn
  <2>1. streamID' = Nil /\ persisted' = persisted
    BY <1>5 DEF Crash, LogIn, Restart
  <2> QED BY <2>1 DEF PairKept
<1>6. CASE Connect
  BY <1>6 DEF Connect, PairKept
<1>7. CASE Logout
  <2>1. \/ streamID' = streamID /\ lastOutbound' = lastOutbound /\ persisted' = persisted
        \/ streamID' = Nil /\ persisted' = Saved(unAcked, 0, Nil)
    BY <1>7 DEF Logout
  <2> QED BY <1>1, <1>2, <2>1 DEF PairKept
<1>8. CASE RemoveUnAcked \/ Resend \/ ResendAndClear \/ Clear \/ Cleanup
  <2>1. /\ streamID' = streamID /\ lastOutbound' = lastOutbound
        /\ \E u : persisted' = persisted \/ persisted' = Saved(u, lastOutbound, streamID)
    BY <1>8 DEF RemoveUnAcked, Resend, ResendAndClear, Clear, Cleanup
  <2> QED BY <1>3, <2>1
<1>9. CASE ProcessStep
  <2>1. CASE \E i \in DOMAIN s2c : HandleResumeFailed(i)
    <3>1. streamID' = Nil /\ persisted' = Saved(unAcked, lastOutbound, Nil)
      BY <2>1 DEF HandleResumeFailed
    <3> QED BY <1>1, <3>1 DEF PairKept
  <2>2. CASE \/ \E i \in DOMAIN s2c : \/ HandleFeatures(i) \/ HandleA(i) \/ HandleResumed(i)
                                       \/ HandleResult(i)
             \/ \E c \in running : FinishClean(c) \/ \E fg \in BOOLEAN : DispatchResend(c, fg)
    <3>1. streamID' = streamID /\ lastOutbound' = lastOutbound /\ persisted' = persisted
      BY <2>2 DEF HandleFeatures, HandleA, HandleResumed, HandleResult, FinishClean,
                  DispatchResend, memory
    <3> QED BY <1>2, <3>1
  <2>3. CASE \/ \E i \in DOMAIN s2c : HandleBound(i) \/ HandleEnableFailed(i)
             \/ \E c \in running : FinishResumed(c)
    <3>1. /\ streamID' = streamID /\ lastOutbound' = lastOutbound
          /\ persisted' = persisted \/ persisted' = Saved(unAcked', lastOutbound, streamID)
      BY <2>3 DEF HandleBound, HandleEnableFailed, FinishResumed, Cap
    <3> QED BY <1>1, <3>1 DEF PairKept
  <2> QED BY <1>9, <2>1, <2>2, <2>3 DEF ProcessStep
<1> QED BY <1>4, <1>5, <1>6, <1>7, <1>8, <1>9 DEF Next, NetworkStep

LEMMA CoveredKept ==
    ASSUME TypeOK, TypeOK', Paired(netQueue), Negotiation, Fresh, Covered, Next
    PROVE  Covered'
<1>0. /\ srv \in Session /\ UnderWay \in Nat /\ InFlight(c2s) \in Nat
      /\ Pending(netQueue) \in {0, 1} /\ c2s \in Seq(Outgoing)
      /\ netQueue \in Seq(Op) /\ s2c \in Seq(Incoming)
  BY UnderWayType
<1>1. /\ srv' \in Session /\ UnderWay' \in Nat
  <2>1. srv' \in Session /\ c2s' \in Seq(Outgoing)
    BY DEF TypeOK, Session
  <2>2. InFlight(c2s') \in Nat /\ Pending(netQueue') \in {0, 1}
    BY <2>1, InFlightType, PendingType
  <2> QED BY <2>1, <2>2 DEF UnderWay
<1>2. /\ streamID \in Number /\ lastOutbound \in Number
      /\ persisted.streamID \in Number /\ persisted.lastOutbound \in Number
  BY DEF TypeOK
<1>3. CASE Track
  <2>1. /\ c2s' = c2s /\ srv' = srv /\ streamID' = streamID /\ lastOutbound # Nil
        /\ lastOutbound' = lastOutbound + 1 /\ Running("track")
        /\ persisted' = Saved(unAcked', lastOutbound', streamID)
    BY <1>3 DEF Track, wire
  <2>2. Pending(netQueue') \in {0, 1}
    BY PendingType
  <2>3. UnderWay = InFlight(c2s) + Pending(netQueue) /\ UnderWay' = InFlight(c2s) + Pending(netQueue')
    BY <2>1 DEF UnderWay
  <2>4. UnderWay' <= UnderWay + 1
    BY <1>0, <2>2, <2>3
  <2>5. Cover(srv', UnderWay', streamID', lastOutbound')
    <3>1. CASE streamID = Nil
      BY <2>1, <3>1 DEF Cover
    <3>2. CASE streamID # Nil
      <4>1. streamID \in Nat /\ lastOutbound \in Nat /\ lastOutbound + 1 \in Nat
        BY <1>2, <2>1, <3>2, NumberType
      <4>2. srv.sid \in Nat /\ srv.h \in Nat /\ srv.extra \in Nat
        BY <1>0 DEF Session
      <4>3. /\ streamID <= srv.sid
            /\ streamID = srv.sid => srv.h + UnderWay <= lastOutbound + srv.extra
        BY <3>2 DEF Covered, Cover
      <4>4. srv.h + UnderWay <= lastOutbound + srv.extra
              => srv.h + UnderWay' <= (lastOutbound + 1) + srv.extra
        <5>1. \A h, t, u, n, x \in Nat : u <= t + 1 /\ h + t <= n + x => h + u <= (n + 1) + x
          BY ONLY TRUE
        <5> QED BY <1>0, <1>1, <2>4, <4>1, <4>2, <5>1
      <4>5. lastOutbound' # Nil
        BY <2>1, <4>1, NilAssumption
      <4> QED BY <2>1, <4>3, <4>4, <4>5 DEF Cover
    <3> QED BY <3>1, <3>2
  <2>6. persisted'.streamID = streamID' /\ persisted'.lastOutbound = lastOutbound'
    BY <2>1 DEF Saved
  <2> QED BY <2>5, <2>6 DEF Covered
<1>4. CASE ~Track
  <2>1. CountsNoMore(srv, UnderWay, srv', UnderWay')
    BY <1>4, ServerCounts, OtherCounts
  <2>2. \A s \in Number, n \in Number : Cover(srv, UnderWay, s, n) => Cover(srv', UnderWay', s, n)
    BY <1>0, <1>1, <2>1, CoverKept
  <2>3. \A s, n : s = Nil => Cover(srv', UnderWay', s, n)
    BY DEF Cover
  <2>4. CASE ~\E i \in DOMAIN s2c : HandleEnabled(i)
    <3>1. \A s, n : PairKept(s, n) => Cover(srv', UnderWay', s, n)
      BY <1>2, <2>2, <2>3 DEF PairKept, Covered
    <3>2. /\ Cover(srv', UnderWay', streamID', lastOutbound')
          /\ Cover(srv', UnderWay', persisted'.streamID, persisted'.lastOutbound)
      BY <1>4, <2>4, <3>1, PairsKept
    <3> QED BY <3>2 DEF Covered
  <2>5. ASSUME NEW i \in DOMAIN s2c, HandleEnabled(i) PROVE Covered'
    <3>1. /\ s2c[i] \in Incoming /\ s2c[i].type = "enabled" /\ lastOutbound' = 0
          /\ streamID' = s2c[i].sid \/ streamID' = Nil
          /\ persisted' = Saved(<<>>, 0, streamID')
      BY <1>0, <2>5, TakeType DEF HandleEnabled
    <3>2. NoneOf(netQueue, CountedOp) /\ NoneOf(c2s, CountedElement)
      BY <2>5, TakenAnswer DEF AnswerTaken, Unnumbered
    <3>3. UnderWay = 0
      <4>1. Pending(netQueue) = 0
        BY <1>0, <3>2, PlainWhole DEF Whole, Pending
      <4>2. InFlight(c2s) = 0
        BY <1>0, <3>2, InFlightType
      <4> QED BY <4>1, <4>2 DEF UnderWay
    <3>4. s2c[i].sid \in Nat /\ s2c[i].sid <= srv.sid
          /\ (s2c[i].sid = srv.sid => srv.h <= srv.extra)
      BY <3>1, IncomingFields DEF Fresh, NoneOf, Stale
    <3>5. srv.h \in Nat /\ srv.extra \in Nat
      BY <1>0 DEF Session
    <3>6. Cover(srv, UnderWay, s2c[i].sid, 0)
      BY <3>3, <3>4, <3>5, NilAssumption DEF Cover
    <3>7. s2c[i].sid \in Number /\ 0 \in Number
      BY <3>4, NumberType
    <3>8. Cover(srv', UnderWay', streamID', 0)
      BY <2>2, <2>3, <3>1, <3>6, <3>7
    <3>9. persisted'.streamID = streamID' /\ persisted'.lastOutbound = 0
      BY <3>1 DEF Saved
    <3> QED BY <3>1, <3>8, <3>9 DEF Covered
  <2> QED BY <2>4, <2>5
<1> QED BY <1>3, <1>4

Counting == Paired(netQueue) /\ Negotiation /\ Fresh /\ Covered

LEMMA InitCounting == Init => Counting
<1> SUFFICES ASSUME Init PROVE Counting
  OBVIOUS
<1>1. /\ netQueue = <<>> /\ c2s = <<>> /\ s2c = <<>> /\ streamID = Nil
      /\ persisted = Saved(Nil, Nil, Nil)
  BY DEF Init, FreshMemory
<1>2. Paired(netQueue)
  <2>1. <<>> \in Seq(Op) /\ NoneOf(<<>>, CountedOp)
    BY FewOfFew
  <2> QED BY <1>1, <2>1, PlainWhole DEF Whole
<1>3. Asking /\ Negotiated
  BY <1>1, FewOfFew DEF Asking, Negotiated
<1>4. Fresh
  BY <1>1, FewOfFew DEF Fresh
<1>5. Covered
  BY <1>1 DEF Covered, Cover, Saved
<1> QED BY <1>2, <1>3, <1>4, <1>5 DEF Counting, Negotiation

LEMMA CountingStep == TypeOK /\ TypeOK' /\ Counting /\ [Next]_vars => Counting'
<1> SUFFICES ASSUME TypeOK, TypeOK', Counting, [Next]_vars PROVE Counting'
  OBVIOUS
<1>0. Paired(netQueue) /\ Negotiation /\ Fresh /\ Covered
  BY DEF Counting
<1>1. CASE UNCHANGED vars
  <2>1. /\ netQueue' = netQueue /\ c2s' = c2s /\ s2c' = s2c /\ srv' = srv
        /\ accountState' = accountState /\ streamID' = streamID
        /\ lastOutbound' = lastOutbound /\ persisted' = persisted
    BY <1>1 DEF vars, memory, wire
  <2>2. Negotiation'
    BY <1>0, <2>1 DEF Negotiation, Asking, Asked, Answered, Negotiated, Unnumbered
  <2>3. Fresh' /\ Covered'
    BY <1>0, <2>1 DEF Fresh, Covered, UnderWay
  <2> QED BY <1>0, <2>1, <2>2, <2>3 DEF Counting
<1>2. CASE Next
  BY <1>0, <1>2, QueueStaysPaired, NegotiationInductive, FreshKept, CoveredKept DEF Counting
<1> QED BY <1>1, <1>2

LEMMA CountingAlways == Spec => []Counting
<1>1. Spec => []TypeOK
  BY TypeCorrect
<1> QED BY <1>1, InitCounting, CountingStep, PTL DEF Spec

\* The server has never counted more of the session the client would resume than
\* the client has numbered and the stanzas it sent without a number: whatever h
\* the server names, the client has a number for it.
THEOREM ServerNeverAhead == Spec => []ServerNotAhead
<1>1. TypeOK /\ Counting => ServerNotAhead
  <2> SUFFICES ASSUME TypeOK, Counting, streamID # Nil, streamID = srv.sid
               PROVE  srv.h <= lastOutbound + srv.extra
    BY DEF ServerNotAhead
  <2>1. srv.h + UnderWay <= lastOutbound + srv.extra /\ lastOutbound # Nil
    BY DEF Counting, Covered, Cover
  <2>2. lastOutbound \in Nat /\ UnderWay \in Nat /\ srv.h \in Nat /\ srv.extra \in Nat
    BY <2>1, UnderWayType, NumberType DEF Session, TypeOK
  <2> QED BY ONLY <2>1, <2>2
<1> QED BY <1>1, TypeCorrect, CountingAlways, PTL


-----------------------------------------------------------------------------
(***************************************************************************)
(* No message is written that is not saved.  The operation that saves a    *)
(* stanza is directly before the one that writes it (Paired), so what has  *)
(* to be kept is one stanza, the one Pending: on a live stream it was      *)
(* recorded, because a live stream with something to number has a record   *)
(* (RecordThere), and what any other thread saves before the write still   *)
(* has it (PendingSaved).  Where there is no record, there is none in any  *)
(* copy of a cleanup either (CleanCopies), or the account is logging out   *)
(* and closes the stream before anything else (Leaving).                   *)
(***************************************************************************)
LiveWire == link \/ c2s = <<>>

Closes(q) == q # <<>> /\ Head(q).op = "close"
CleansUp(q) == q # <<>> /\ Head(q).op = "cleanup"
Leaving ==
    explicitLogout =>
        /\ link => Closes(netQueue)
        /\ accountState = "Reconnecting" =>
               CleansUp(netQueue) \/ (Closes(netQueue) /\ CleansUp(Tail(netQueue)))

CleanCopies ==
    ~explicitLogout \/ link =>
        \A c \in running : c.at = "clean" => (c.copy = Nil <=> unAcked = Nil)

RecordThere == link /\ unAcked = Nil => NoneOf(netQueue, CountedOp)

PendingSaved ==
    link /\ Pending(netQueue) = 1 =>
        {netQueue[1].e.st} \cap Msgs \subseteq Recorded(persisted.unAcked) \cup dropped

Live == LiveWire /\ Leaving /\ CleanCopies /\ RecordThere /\ PendingSaved

LEMMA ProcessAppends ==
    ASSUME TypeOK, ProcessStep
    PROVE  \E r \in Seq(Op) : netQueue' = netQueue \o r
<1>1. CASE QueueGrown
  BY <1>1 DEF QueueGrown, Batch
<1>2. CASE RequestMove
  <2>1. PICK e \in Request : netQueue' = netQueue \o Nonza(e)
                         \/ \E h \in Nat : netQueue' = netQueue \o (<<[op |-> "remove", h |-> h]>> \o Nonza(e))
    BY <1>2 DEF RequestMove
  <2>2. Nonza(e) \in Seq(Op)
    BY RequestQueued
  <2>3. \A h \in Nat : <<[op |-> "remove", h |-> h]>> \o Nonza(e) \in Seq(Op)
    <3>1. \A h \in Nat : <<[op |-> "remove", h |-> h]>> \in Seq(Op)
      BY OpConstructors, SingleType
    <3> QED BY <2>2, <3>1, ConcatType
  <2> QED BY <2>1, <2>2, <2>3
<1> QED BY <1>1, <1>2, ProcessMoves

LEMMA FrontKept ==
    ASSUME NEW q \in Seq(Op), NEW r \in Seq(Op), q # <<>>
    PROVE  /\ q \o r # <<>> /\ Head(q \o r) = Head(q) /\ (q \o r)[1] = q[1] /\ Head(q) = q[1]
           /\ Tail(q) \in Seq(Op) /\ Tail(q \o r) = Tail(q) \o r
OBVIOUS

LEMMA LiveWireKept ==
    ASSUME LiveWire, Next
    PROVE  LiveWire'
<1>1. CASE \/ \E m \in Msgs : AppSend(m)
           \/ Teardown \/ Reconnect \/ GoToBackground \/ LogIn \/ Connect
  BY <1>1 DEF LiveWire, AppSend, Teardown, Reconnect, GoToBackground, LogIn, Connect, wire
<1>a. CASE Logout
  <2>1. link' = link /\ (~link => c2s' = c2s)
    BY <1>a DEF Logout
  <2> QED BY <2>1 DEF LiveWire
<1>b. CASE \E sm \in BOOLEAN : Authenticate(sm)
  BY <1>b DEF LiveWire, Authenticate
<1>2. CASE NetworkStep
  <2>1. CASE Write
    BY <2>1 DEF LiveWire, Write
  <2>2. CASE Close
    <3>1. (link' = FALSE /\ c2s' = <<>>) \/ (link' = link /\ c2s' = c2s)
      BY <2>2 DEF Close, LinkLost, wire
    <3> QED BY <3>1 DEF LiveWire
  <2>3. CASE \/ Track \/ RemoveUnAcked \/ Resend \/ ResendSaved \/ ResendAndClear \/ Clear
             \/ Suspend \/ Cleanup
    BY <2>3 DEF LiveWire, Track, RemoveUnAcked, Resend, ResendSaved, ResendAndClear, Clear,
                Suspend, Cleanup, wire
  <2> QED BY <1>2, <2>1, <2>2, <2>3 DEF NetworkStep
<1>3. CASE ProcessStep
  BY <1>3 DEF LiveWire, ProcessStep, HandleFeatures, HandleBound, HandleEnabled, HandleA,
              HandleResumed, HandleResumeFailed, HandleEnableFailed, HandleResult, FinishResumed,
              FinishClean, DispatchResend, Take, wire
<1>4. CASE Server \/ LoseLink \/ Crash
  BY <1>4 DEF LiveWire, Server, SrvBind, SrvEnable, SrvResume, SrvStanza, SrvQuery, SrvClose,
              SrvAck, Receive, LoseLink, LinkLost, Crash
<1> QED BY <1>1, <1>a, <1>b, <1>2, <1>3, <1>4 DEF Next

\* Until a login, an account that logs out closes its stream first and opens
\* no other.
LEMMA LeavingKept ==
    ASSUME TypeOK, Leaving, Next
    PROVE  Leaving'
<1>0. netQueue \in Seq(Op)
  BY DEF TypeOK
<1>1. ASSUME NEW r \in Seq(Op), netQueue' = netQueue \o r, link' => link,
             accountState' = "Reconnecting" => accountState = "Reconnecting",
             explicitLogout' = explicitLogout
      PROVE  Leaving'
  <2> SUFFICES ASSUME explicitLogout
               PROVE  /\ link => Closes(netQueue')
                      /\ accountState = "Reconnecting" =>
                            \/ CleansUp(netQueue')
                            \/ Closes(netQueue') /\ CleansUp(Tail(netQueue'))
    BY <1>1 DEF Leaving
  <2>1. CASE netQueue = <<>>
    BY <2>1 DEF Leaving, Closes, CleansUp
  <2>2. CASE netQueue # <<>>
    <3>1. /\ netQueue' # <<>> /\ Head(netQueue') = Head(netQueue)
          /\ Tail(netQueue) \in Seq(Op) /\ Tail(netQueue') = Tail(netQueue) \o r
      BY <1>0, <1>1, <2>2, FrontKept
    <3>2. Tail(netQueue) # <<>> =>
             Tail(netQueue') # <<>> /\ Head(Tail(netQueue')) = Head(Tail(netQueue))
      BY <3>1, FrontKept
    <3> QED BY <2>2, <3>1, <3>2 DEF Leaving, Closes, CleansUp
  <2> QED BY <2>1, <2>2
<1>a. <<>> \in Seq(Op) /\ netQueue \o <<>> = netQueue
  BY <1>0
<1>2. CASE Teardown \/ Reconnect \/ GoToBackground \/ Connect
  BY <1>2 DEF Leaving, Teardown, Reconnect, GoToBackground, Connect, memory
<1>3. CASE LogIn \/ Crash
  BY <1>3 DEF Leaving, LogIn, Crash, Restart
<1>4. CASE Logout
  <2>1. netQueue' = <<[op |-> "close"], [op |-> "cleanup"]>>
    BY <1>4 DEF Logout
  <2>2. Head(netQueue').op = "close" /\ netQueue' # <<>>
        /\ Tail(netQueue') = <<[op |-> "cleanup"]>>
    BY <2>1
  <2>3. Closes(netQueue')
    BY <2>2 DEF Closes
  <2>4. CleansUp(Tail(netQueue'))
    <3>1. Head(<<[op |-> "cleanup"]>>).op = "cleanup" /\ <<[op |-> "cleanup"]>> # <<>>
      OBVIOUS
    <3> QED BY <2>2, <3>1 DEF CleansUp
  <2> QED BY <2>3, <2>4 DEF Leaving
<1>5. ASSUME NEW m \in Msgs, AppSend(m) PROVE Leaving'
  <2>1. SendOps(<<m>>, Tracking(accountState, supportsSM3, unAcked)) \in Seq(Op)
    <3>1. <<m>> \in Seq(Stanza)
      BY DEF Stanza
    <3> QED BY <3>1, SendOpsType, TrackingType
  <2> QED BY <1>1, <1>5, <2>1 DEF AppSend, Enqueue, memory, wire
<1>6. ASSUME NEW sm \in BOOLEAN, Authenticate(sm) PROVE Leaving'
  BY <1>6 DEF Authenticate, Leaving, CleansUp, Closes
<1>7. CASE NetworkStep
  <2>1. CASE Close
    <3>1. /\ netQueue' = Tail(netQueue) /\ Head(netQueue).op = "close" /\ UNCHANGED memory
          /\ link' = FALSE
      BY <2>1 DEF Close, LinkLost, Running, Finish, wire
    <3>2. explicitLogout /\ accountState = "Reconnecting" => CleansUp(Tail(netQueue))
      BY <3>1 DEF Leaving, CleansUp
    <3> QED BY <3>1, <3>2 DEF Leaving, CleansUp, memory
  <2>2. CASE Cleanup
    BY <2>2 DEF Cleanup, Running, Leaving, Closes, CleansUp, wire
  <2>3. CASE Suspend
    BY <2>3 DEF Suspend, Running, Leaving, Closes, CleansUp, wire
  <2>4. CASE \/ Track \/ Write \/ RemoveUnAcked \/ Resend \/ ResendSaved \/ ResendAndClear \/ Clear
    <3>1. /\ Head(netQueue).op \notin {"close", "cleanup"}
          /\ explicitLogout' = explicitLogout /\ link' = link /\ accountState' = accountState
      BY <2>4 DEF Track, Write, RemoveUnAcked, Resend, ResendSaved, ResendAndClear, Clear,
                  Running, memory, wire
    <3> QED BY <3>1 DEF Leaving, Closes, CleansUp
  <2> QED BY <1>7, <2>1, <2>2, <2>3, <2>4 DEF NetworkStep
<1>8. CASE ProcessStep
  <2>1. /\ link' = link /\ explicitLogout' = explicitLogout
        /\ accountState' = "Reconnecting" => accountState = "Reconnecting"
    BY <1>8 DEF ProcessStep, HandleFeatures, HandleBound, HandleEnabled, HandleA,
              HandleResumed, HandleResumeFailed, HandleEnableFailed, HandleResult, FinishResumed,
              FinishClean, DispatchResend, InitSession, Take, memory, wire
  <2> QED BY <1>1, <1>8, <2>1, ProcessAppends
<1>9. CASE Server \/ LoseLink
  <2>1. netQueue' = netQueue /\ UNCHANGED memory /\ (link' => link)
    BY <1>9 DEF Server, SrvBind, SrvEnable, SrvResume, SrvStanza, SrvQuery, SrvClose, SrvAck,
                LoseLink, LinkLost
  <2> QED BY <1>1, <1>a, <2>1 DEF memory
<1> QED BY <1>2, <1>3, <1>4, <1>5, <1>6, <1>7, <1>8, <1>9 DEF Next

LEMMA RecordNotNil == \A u \in Seq(Entry) : u # Nil
BY NilAssumption, Zenon DEF Entry

\* Only a few steps make a record where there was none, or end one.
LEMMA NilStays ==
    ASSUME TypeOK, Next, ~LogIn, ~Connect, ~Crash, Cleanup => ~explicitLogout,
           ~\E i \in DOMAIN s2c : HandleEnabled(i), ~\E c \in running : FinishClean(c)
    PROVE  unAcked' = Nil <=> unAcked = Nil
<1>0. /\ unAcked \in UnAcked /\ netQueue \in Seq(Op)
      /\ unAcked # Nil => unAcked \in Seq(Entry)
  BY UnAckedType DEF TypeOK
<1>1. CASE \/ \E m \in Msgs : AppSend(m)
           \/ Teardown \/ Reconnect \/ GoToBackground \/ Logout
           \/ \E sm \in BOOLEAN : Authenticate(sm)
           \/ Server \/ LoseLink
  BY <1>1 DEF AppSend, Teardown, Reconnect, GoToBackground, Logout, Authenticate, Server, SrvBind,
              SrvEnable, SrvResume, SrvStanza, SrvQuery, SrvClose, SrvAck, LoseLink, memory
<1>2. CASE Track
  <2>1. lastOutbound \in Nat /\ Head(netQueue).st \in Stanza
    BY <1>0, <1>2, HeadOfQueue, OpFields, NumberType DEF Track, TypeOK
  <2>2. [id |-> lastOutbound, st |-> Head(netQueue).st] \in Entry
    BY <2>1 DEF Entry
  <2>3. unAcked # Nil => Append(unAcked, [id |-> lastOutbound, st |-> Head(netQueue).st]) \in Seq(Entry)
    BY <1>0, <2>2
  <2> QED BY <1>2, <2>3, RecordNotNil DEF Track
<1>3. CASE RemoveUnAcked
  <2>1. Head(netQueue).h \in Nat
    BY <1>0, <1>3, HeadOfQueue, OpFields DEF RemoveUnAcked
  <2>2. unAcked # Nil => Above(unAcked, Head(netQueue).h) \in Seq(Entry)
    BY <1>0, <2>1, FilterType
  <2> QED BY <1>3, <2>2, RecordNotNil DEF RemoveUnAcked
<1>4. CASE Write \/ ResendSaved \/ Close \/ Suspend \/ Cleanup
  BY <1>4 DEF Write, ResendSaved, Close, Suspend, Cleanup, memory
<1>5. CASE Resend \/ ResendAndClear \/ Clear
  BY <1>5, EmptyNotNil DEF Resend, ResendAndClear, Clear
<1>6. CASE ProcessStep
  <2>1. ASSUME NEW i \in DOMAIN s2c,
               \/ HandleFeatures(i) \/ HandleA(i) \/ HandleResumed(i) \/ HandleResumeFailed(i)
               \/ HandleResult(i)
        PROVE  unAcked' = unAcked
    BY <2>1 DEF HandleFeatures, HandleA, HandleResumed, HandleResumeFailed, HandleResult, memory
  <2>2. Cap => (unAcked' = Nil <=> unAcked = Nil)
    BY EmptyNotNil DEF Cap, Capped
  <2>3. ASSUME NEW i \in DOMAIN s2c, HandleBound(i) \/ HandleEnableFailed(i)
        PROVE  unAcked' = Nil <=> unAcked = Nil
    BY <2>2, <2>3 DEF HandleBound, HandleEnableFailed
  <2>4. ASSUME NEW c \in running, FinishResumed(c) \/ \E fg \in BOOLEAN : DispatchResend(c, fg)
        PROVE  unAcked' = Nil <=> unAcked = Nil
    BY <2>2, <2>4 DEF FinishResumed, DispatchResend, memory
  <2> QED BY <1>6, <2>1, <2>3, <2>4 DEF ProcessStep
<1> QED BY <1>1, <1>2, <1>3, <1>4, <1>5, <1>6 DEF Next, NetworkStep

LEMMA CleanCopiesKept ==
    ASSUME TypeOK, Leaving, CleanCopies, Next
    PROVE  CleanCopies'
<1>0. unAcked \in UnAcked /\ running \subseteq Continuation /\ s2c \in Seq(Incoming)
  BY DEF TypeOK
<1>1. CASE LogIn \/ Crash \/ Connect
  BY <1>1 DEF CleanCopies, LogIn, Crash, Connect, Restart
<1>2. CASE Cleanup /\ explicitLogout
  BY <1>2 DEF Cleanup, Running, Leaving, Closes, CleanCopies, wire
<1>3. ASSUME NEW i \in DOMAIN s2c, HandleEnabled(i) PROVE CleanCopies'
  <2>1. \A c \in running' : c.at # "clean"
    BY <1>3 DEF HandleEnabled, InitSession, ResendLater
  <2> QED BY <2>1 DEF CleanCopies
<1>a. ASSUME ~LogIn, ~Crash, ~Connect, ~(Cleanup /\ explicitLogout)
      PROVE  ~explicitLogout' \/ link' => ~explicitLogout \/ link
  <2>1. CASE \/ \E m \in Msgs : AppSend(m)
             \/ Teardown \/ Reconnect \/ GoToBackground
    BY <2>1 DEF AppSend, Teardown, Reconnect, GoToBackground, memory, wire
  <2>6. CASE Logout
    BY <2>6 DEF Logout
  <2>2. CASE \E sm \in BOOLEAN : Authenticate(sm)
    BY <2>2 DEF Authenticate, Leaving, Closes, CleansUp
  <2>3. CASE NetworkStep
    <3>1. CASE Close
      BY <3>1 DEF Close, LinkLost, memory, wire
    <3>2. CASE \/ Track \/ Write \/ RemoveUnAcked \/ Resend \/ ResendSaved \/ ResendAndClear
               \/ Clear \/ Suspend \/ Cleanup
      BY <3>2 DEF Track, Write, RemoveUnAcked, Resend, ResendSaved, ResendAndClear, Clear,
                  Suspend, Cleanup, memory, wire
    <3> QED BY <2>3, <3>1, <3>2 DEF NetworkStep
  <2>4. CASE ProcessStep
    BY <2>4 DEF ProcessStep, HandleFeatures, HandleBound, HandleEnabled, HandleA,
              HandleResumed, HandleResumeFailed, HandleEnableFailed, HandleResult, FinishResumed,
              FinishClean, DispatchResend, Take, memory, wire
  <2>5. CASE Server \/ LoseLink
    BY <2>5 DEF Server, SrvBind, SrvEnable, SrvResume, SrvStanza, SrvQuery, SrvClose, SrvAck,
                LoseLink, LinkLost, memory
  <2> QED BY <1>a, <2>1, <2>2, <2>3, <2>4, <2>5, <2>6 DEF Next
<1>b. ASSUME ~explicitLogout \/ link, NEW c \in running, c.at = "clean"
      PROVE  c.copy = Nil <=> unAcked = Nil
  BY <1>b DEF CleanCopies
<1>4. ASSUME NEW c \in running, FinishClean(c) PROVE CleanCopies'
  <2>1. /\ unAcked' = c.copy /\ running' = running \ {c} /\ c.at = "clean"
        /\ explicitLogout' = explicitLogout /\ link' = link
    BY <1>4 DEF FinishClean, wire
  <2> SUFFICES ASSUME ~explicitLogout \/ link, NEW d \in running, d.at = "clean"
               PROVE  d.copy = Nil <=> c.copy = Nil
    BY <2>1 DEF CleanCopies
  <2> QED BY <1>b, <2>1
<1>5. ASSUME NEW i \in DOMAIN s2c, HandleResult(i) PROVE CleanCopies'
  <2> DEFINE c == [at |-> "clean", st |-> s2c[i].st, copy |-> Without(unAcked, s2c[i].st)]
  <2>1. /\ running' = running \cup {c} /\ unAcked' = unAcked
        /\ explicitLogout' = explicitLogout /\ link' = link
    BY <1>5 DEF HandleResult, Take, memory
  <2>2. s2c[i].st \in Stanza
    BY <1>0, <1>5, TakeType, IncomingFields, StanzaAssumption DEF HandleResult, Stanza
  <2>3. c.copy = Nil <=> unAcked = Nil
    <3>1. unAcked # Nil => Without(unAcked, s2c[i].st) \in Seq(Entry)
      <4>1. ASSUME unAcked # Nil PROVE Without(unAcked, s2c[i].st) \in Seq(Entry)
        <5>1. unAcked \in Seq(Entry)
          BY <1>0, <4>1, UnAckedType
        <5>2. Without(unAcked, s2c[i].st)
                = Subsequence(unAcked, {k \in 1 .. Len(unAcked) : unAcked[k].st # s2c[i].st})
          BY <4>1 DEF Without
        <5> QED BY <5>1, <5>2, SubsequenceType
      <4> QED BY <4>1
    <3>2. unAcked = Nil => Without(unAcked, s2c[i].st) = Nil
      BY DEF Without
    <3> QED BY <3>1, <3>2, RecordNotNil
  <2> HIDE DEF c
  <2> QED BY <1>b, <2>1, <2>3 DEF CleanCopies
<1>6. ASSUME ~LogIn, ~Crash, ~Connect, ~(Cleanup /\ explicitLogout),
             ~\E i \in DOMAIN s2c : HandleEnabled(i) \/ HandleResult(i),
             ~\E c \in running : FinishClean(c)
      PROVE  CleanCopies'
  <2>1. unAcked' = Nil <=> unAcked = Nil
    BY <1>6, NilStays
  <2>2. \A c \in running' : c.at = "clean" => c \in running
    <3>1. CASE \/ \E m \in Msgs : AppSend(m)
               \/ Teardown \/ Reconnect \/ GoToBackground \/ Logout
               \/ \E sm \in BOOLEAN : Authenticate(sm)
               \/ Server \/ LoseLink
      BY <3>1 DEF AppSend, Teardown, Reconnect, GoToBackground, Logout, Authenticate, Server, SrvBind,
                  SrvEnable, SrvResume, SrvStanza, SrvQuery, SrvClose, SrvAck, LoseLink
    <3>2. CASE NetworkStep
      BY <3>2 DEF NetworkStep, Track, Write, RemoveUnAcked, Resend, ResendSaved, ResendAndClear,
                  Clear, Close, Suspend, Cleanup
    <3>3. CASE ProcessStep
      <4>1. ASSUME NEW i \in DOMAIN s2c,
                   \/ HandleFeatures(i) \/ HandleA(i) \/ HandleResumeFailed(i) \/ HandleBound(i)
                   \/ HandleEnableFailed(i)
            PROVE  \A c \in running' : c.at = "clean" => c \in running
        <5>1. running' = running \/ running' = running \cup {ResendLater}
          BY <4>1 DEF HandleFeatures, HandleA, HandleResumeFailed, HandleBound, HandleEnableFailed,
                      InitSession
        <5> QED BY <5>1 DEF ResendLater
      <4>3. ASSUME NEW i \in DOMAIN s2c, HandleResumed(i)
            PROVE  \A c \in running' : c.at = "clean" => c \in running
        BY <4>3 DEF HandleResumed
      <4>2. ASSUME NEW d \in running, FinishResumed(d) \/ \E fg \in BOOLEAN : DispatchResend(d, fg)
            PROVE  \A c \in running' : c.at = "clean" => c \in running
        BY <4>2 DEF FinishResumed, DispatchResend, ResendLater
      <4> QED BY <1>6, <3>3, <4>1, <4>2, <4>3 DEF ProcessStep
    <3> QED BY <1>6, <3>1, <3>2, <3>3 DEF Next
  <2> QED BY <1>6, <1>a, <1>b, <2>1, <2>2 DEF CleanCopies
<1> QED BY <1>1, <1>2, <1>3, <1>4, <1>5, <1>6

\* On a live stream, what would be numbered has a record to go to.
LEMMA RecordThereKept ==
    ASSUME TypeOK, Paired(netQueue), Leaving, CleanCopies, RecordThere, Next
    PROVE  RecordThere'
<1> SUFFICES ASSUME link', unAcked' = Nil PROVE NoneOf(netQueue', CountedOp)
  BY DEF RecordThere
<1>0. netQueue \in Seq(Op)
  BY DEF TypeOK
<1>1. CASE LogIn \/ Connect \/ Crash \/ \E sm \in BOOLEAN : Authenticate(sm)
  <2>1. CASE LogIn
    <3>1. netQueue' = <<>>
      BY <2>1 DEF LogIn, Restart
    <3> QED BY <3>1, FewOfFew
  <2>2. CASE Connect
    BY <2>2 DEF Connect, wire
  <2>3. CASE Crash
    BY <2>3 DEF Crash
  <2>4. CASE \E sm \in BOOLEAN : Authenticate(sm)
    <3>1. netQueue' = <<>>
      BY <2>4 DEF Authenticate
    <3> QED BY <3>1, FewOfFew
  <2> QED BY <1>1, <2>1, <2>2, <2>3, <2>4
<1>2. CASE Cleanup /\ explicitLogout
  BY <1>2 DEF Cleanup, Running, Leaving, Closes, wire
<1>3. CASE \E i \in DOMAIN s2c : HandleEnabled(i)
  BY <1>3, EmptyNotNil DEF HandleEnabled
<1>4. ASSUME ~LogIn, ~Connect, ~Crash, ~\E sm \in BOOLEAN : Authenticate(sm)
      PROVE  link
  <2>1. CASE \/ \E m \in Msgs : AppSend(m)
             \/ Teardown \/ Reconnect \/ GoToBackground \/ Logout
    BY <2>1 DEF AppSend, Teardown, Reconnect, GoToBackground, Logout, wire
  <2>2. CASE NetworkStep
    <3>1. CASE Close
      BY <3>1 DEF Close, LinkLost, wire
    <3>2. CASE \/ Track \/ Write \/ RemoveUnAcked \/ Resend \/ ResendSaved \/ ResendAndClear
               \/ Clear \/ Suspend \/ Cleanup
      BY <3>2 DEF Track, Write, RemoveUnAcked, Resend, ResendSaved, ResendAndClear, Clear,
                  Suspend, Cleanup, wire
    <3> QED BY <2>2, <3>1, <3>2 DEF NetworkStep
  <2>3. CASE ProcessStep
    BY <2>3 DEF ProcessStep, HandleFeatures, HandleBound, HandleEnabled, HandleA,
              HandleResumed, HandleResumeFailed, HandleEnableFailed, HandleResult, FinishResumed,
              FinishClean, DispatchResend, Take, wire
  <2>4. CASE Server \/ LoseLink
    BY <2>4 DEF Server, SrvBind, SrvEnable, SrvResume, SrvStanza, SrvQuery, SrvClose, SrvAck,
                LoseLink, LinkLost
  <2> QED BY <1>4, <2>1, <2>2, <2>3, <2>4 DEF Next
<1>5. ASSUME unAcked = Nil, link PROVE NoneOf(netQueue', CountedOp)
  <2>1. NoneOf(netQueue, CountedOp)
    BY <1>5 DEF RecordThere
  <2>2. QueueMove \/ RequestMove
    BY UserMoves, NetworkMoves, EnvironmentMoves, ProcessMoves DEF Next, QueueMove, QueueFed
  <2>3. NumberingState' = "Disconnected"
    BY DEF NumberingState
  <2>4. CASE QueueMove
    <3>1. MovedTo(netQueue, netQueue', NumberingState')
      BY <1>0, <2>4, FedQueue, ServedQueue DEF QueueMove
    <3> QED BY <2>1, <2>3, <3>1 DEF MovedTo
  <2>5. CASE RequestMove
    BY <1>0, <2>1, <2>5, RequestedQueue
  <2> QED BY <2>2, <2>4, <2>5
<1>6. ASSUME NEW c \in running, FinishClean(c) PROVE unAcked = Nil
  <2>1. unAcked' = c.copy /\ c.at = "clean" /\ link
    BY <1>6 DEF FinishClean, wire
  <2> QED BY <2>1 DEF CleanCopies
<1>7. CASE \E c \in running : FinishClean(c)
  <2>1. PICK c \in running : FinishClean(c)
    BY <1>7
  <2>2. link
    BY <2>1 DEF FinishClean, wire
  <2> QED BY <1>5, <1>6, <2>1, <2>2
<1> QED BY <1>1, <1>2, <1>3, <1>4, <1>5, <1>7, NilStays

\* The stanza about to be written stays at the head of the queue and saved.
LEMMA PendingSavedKept ==
    ASSUME TypeOK, TypeOK', Paired(netQueue), Negotiation, RecordThere, PendingSaved, Next
    PROVE  PendingSaved'
<1> SUFFICES ASSUME link', Pending(netQueue') = 1
             PROVE  {netQueue'[1].e.st} \cap Msgs \subseteq Recorded(persisted'.unAcked) \cup dropped'
  BY DEF PendingSaved
<1>0. netQueue \in Seq(Op) /\ unAcked \in UnAcked
  BY DEF TypeOK
<1>1. CASE Track
  <2>1. /\ netQueue # <<>> /\ Head(netQueue).op = "track" /\ netQueue' = Tail(netQueue)
        /\ lastOutbound # Nil /\ link
        /\ unAcked' = IF unAcked = Nil THEN Nil
                      ELSE Append(unAcked, [id |-> lastOutbound, st |-> Head(netQueue).st])
        /\ persisted'.unAcked = unAcked'
    BY <1>1 DEF Track, Running, Finish, Saved, wire
  <2>2. netQueue[1] = Head(netQueue) /\ netQueue'[1] = WriteOp(netQueue[1].st, TRUE)
    BY <1>0, <2>1, PairedTail
  <2>3. netQueue'[1].e.st = Head(netQueue).st
    BY <2>2 DEF WriteOp
  <2>4. unAcked # Nil
    <3>1. Head(netQueue) \in CountedOp
      BY <1>0, <2>1, HeadOfQueue DEF CountedOp
    <3>2. ~NoneOf(netQueue, CountedOp)
      BY <1>0, <2>1, <3>1, FewerInTail
    <3> QED BY <2>1, <3>2 DEF RecordThere
  <2> DEFINE e == [id |-> lastOutbound, st |-> Head(netQueue).st]
  <2>5. unAcked \in Seq(Entry) /\ unAcked' = Append(unAcked, e)
    BY <1>0, <2>1, <2>4, UnAckedType
  <2>6. e \in Entry /\ e.st = Head(netQueue).st
    <3>1. lastOutbound \in Nat /\ Head(netQueue).st \in Stanza
      BY <1>0, <1>1, <2>1, HeadOfQueue, OpFields, NumberType DEF Track, TypeOK
    <3> QED BY <3>1 DEF Entry
  <2> HIDE DEF e
  <2>7. unAcked' \in Seq(Entry) /\ Len(unAcked) + 1 \in 1 .. Len(unAcked')
        /\ unAcked'[Len(unAcked) + 1] = e
    BY <2>5, <2>6
  <2>8. unAcked' # Nil
    BY <2>7, RecordNotNil
  <2>9. e \in Entries(unAcked')
    BY <2>7, <2>8 DEF Entries
  <2>10. {e.st} \cap Msgs \subseteq Recorded(unAcked')
    BY <2>9 DEF Recorded
  <2> QED BY <2>1, <2>3, <2>6, <2>10
<1>2. CASE NetworkStep /\ ~Track
  <2>1. /\ QueueServed \/ Batch(netQueue', "Disconnected")
        /\ netQueue # <<>> /\ ~Running("track")
    BY <1>2, NetworkMoves
       DEF NetworkStep, Write, RemoveUnAcked, Resend, ResendSaved, ResendAndClear, Clear, Close,
           Suspend, Cleanup, Running
  <2>2. CASE QueueServed
    BY <1>0, <2>1, <2>2, ServedQueue
  <2>3. CASE Batch(netQueue', "Disconnected")
    BY <2>3 DEF Batch, Whole, Pending
  <2> QED BY <2>1, <2>2, <2>3
<1>3. ASSUME NEW r \in Seq(Op), netQueue' = netQueue \o r, Pending(netQueue') <= Pending(netQueue),
             link, (persisted' = persisted /\ dropped' = dropped) \/ Cap
      PROVE  {netQueue'[1].e.st} \cap Msgs \subseteq Recorded(persisted'.unAcked) \cup dropped'
  <2>1. Pending(netQueue) = 1
    BY <1>3, PendingType
  <2>2. netQueue # <<>>
    BY <2>1 DEF Pending
  <2>3. netQueue'[1] = netQueue[1]
    BY <1>0, <1>3, <2>2, FrontKept
  <2>4. {netQueue[1].e.st} \cap Msgs \subseteq Recorded(persisted.unAcked) \cup dropped
    BY <1>3, <2>1 DEF PendingSaved
  <2>5. Recorded(persisted.unAcked) \cup dropped \subseteq Recorded(persisted'.unAcked) \cup dropped'
    BY <1>3 DEF Cap
  <2> QED BY <2>3, <2>4, <2>5
<1>4. CASE Teardown \/ Reconnect \/ Logout \/ LogIn \/ \E sm \in BOOLEAN : Authenticate(sm)
  <2>1. netQueue' = <<>> \/ netQueue' = <<[op |-> "close"], [op |-> "cleanup"]>>
    BY <1>4 DEF Teardown, Reconnect, Logout, LogIn, Restart, Authenticate
  <2>2. Pending(netQueue') = 0
    BY <2>1 DEF Pending, NumberedWrite
  <2> QED BY <2>2
<1>5. CASE Connect \/ Crash \/ LoseLink
  BY <1>5 DEF Connect, Crash, LoseLink, LinkLost, wire
<1>6. CASE GoToBackground \/ \E m \in Msgs : AppSend(m)
  <2>1. \E r \in Seq(Op) : netQueue' = netQueue \o r
    <3>1. CASE GoToBackground
      BY <3>1, OpConstructors, SingleType DEF GoToBackground, Enqueue
    <3>2. ASSUME NEW m \in Msgs, AppSend(m) PROVE \E r \in Seq(Op) : netQueue' = netQueue \o r
      <4>1. <<m>> \in Seq(Stanza)
        BY DEF Stanza
      <4>2. SendOps(<<m>>, Tracking(accountState, supportsSM3, unAcked)) \in Seq(Op)
        BY <4>1, SendOpsType, TrackingType
      <4> QED BY <3>2, <4>2 DEF AppSend, Enqueue
    <3> QED BY <1>6, <3>1, <3>2
  <2>2. Pending(netQueue') <= Pending(netQueue)
    BY <1>0, <1>6, UserMoves, FedQueue
  <2>3. link /\ persisted' = persisted /\ dropped' = dropped
    BY <1>6 DEF GoToBackground, AppSend, wire, history
  <2> QED BY <1>3, <2>1, <2>2, <2>3
<1>7. CASE ProcessStep
  <2>1. Pending(netQueue') <= Pending(netQueue)
    BY <1>0, <1>7, ProcessMoves, FedQueue, RequestedQueue DEF QueueFed
  <2>2. CASE AnswerTaken
    <3>1. NoneOf(netQueue, CountedOp)
      BY <2>2, TakenAnswer DEF Unnumbered
    <3>2. Pending(netQueue) = 0
      BY <1>0, <3>1, PlainWhole DEF Whole, Pending
    <3> QED BY <2>1, <3>2
  <2>3. CASE OthersTaken
    <3>1. link /\ ((persisted' = persisted /\ dropped' = dropped) \/ Cap)
      BY <2>3 DEF OthersTaken, HandleA, HandleResult, FinishResumed, FinishClean, DispatchResend,
                  Take, wire, history
    <3> QED BY <1>3, <1>7, <2>1, <3>1, ProcessAppends
  <2> QED BY <1>7, <2>2, <2>3, ProcessIsOneOf
<1>8. CASE Server
  <2>1. netQueue' = netQueue /\ persisted' = persisted /\ dropped' = dropped /\ link' = link
    BY <1>8 DEF Server, SrvBind, SrvEnable, SrvResume, SrvStanza, SrvQuery, SrvClose, SrvAck,
                Receive, history
  <2> QED BY <2>1 DEF PendingSaved
<1> QED BY <1>1, <1>2, <1>4, <1>5, <1>6, <1>7, <1>8 DEF Next

LEMMA LiveStep == TypeOK /\ TypeOK' /\ Counting /\ Live /\ [Next]_vars => Live'
<1> SUFFICES ASSUME TypeOK, TypeOK', Counting, Live, [Next]_vars PROVE Live'
  OBVIOUS
<1>0. /\ Paired(netQueue) /\ Negotiation
      /\ LiveWire /\ Leaving /\ CleanCopies /\ RecordThere /\ PendingSaved
  BY DEF Counting, Live
<1>1. CASE UNCHANGED vars
  <2>1. UNCHANGED <<accountState, explicitLogout, unAcked, netQueue, running, persisted, link, c2s, dropped>>
    BY <1>1 DEF vars, memory, wire, history
  <2>2. LiveWire' /\ Leaving' /\ CleanCopies' /\ RecordThere'
    BY <1>0, <2>1 DEF LiveWire, Leaving, CleanCopies, RecordThere
  <2>3. PendingSaved'
    BY <1>0, <2>1 DEF PendingSaved
  <2> QED BY <2>2, <2>3 DEF Live
<1>2. CASE Next
  BY <1>0, <1>2, LiveWireKept, LeavingKept, CleanCopiesKept, RecordThereKept, PendingSavedKept
     DEF Live
<1> QED BY <1>1, <1>2

LEMMA InitLive == Init => Live
<1> SUFFICES ASSUME Init PROVE Live
  OBVIOUS
<1>1. /\ netQueue = <<>> /\ c2s = <<>> /\ running = {} /\ explicitLogout = FALSE /\ link = FALSE
  BY DEF Init, FreshMemory
<1> QED BY <1>1 DEF Live, LiveWire, Leaving, CleanCopies, RecordThere, PendingSaved

LEMMA LiveAlways == Spec => []Live
BY InitLive, LiveStep, TypeCorrect, CountingAlways, PTL DEF Spec

\* No numbered message goes to a live stream before it is in the saved record (or
\* was dropped with a record that was too long): a process that ends after the
\* write reads it back when it connects again.
THEOREM WrittenWasSaved == Spec => WrittenIsSaved
<1>1. ASSUME TypeOK, Live, Write, link, Head(netQueue).e \in Stanzas({TRUE})
      PROVE  {Head(netQueue).e.st} \cap Msgs \subseteq Recorded(persisted.unAcked) \cup dropped
  <2>1. netQueue # <<>> /\ Head(netQueue).op = "write"
    BY <1>1 DEF Write, Running
  <2>2. Head(netQueue) = netQueue[1]
    BY <1>1, <2>1 DEF TypeOK
  <2>3. NumberedWrite(netQueue[1])
    BY <1>1, <2>1, <2>2 DEF NumberedWrite, NumberedStanza, Stanzas
  <2>4. Pending(netQueue) = 1
    BY <2>1, <2>3 DEF Pending
  <2> QED BY <1>1, <2>2, <2>4 DEF Live, PendingSaved
<1>2. TypeOK /\ Live /\ [Next]_vars =>
        [Write /\ link /\ Head(netQueue).e \in Stanzas({TRUE}) =>
            {Head(netQueue).e.st} \cap Msgs \subseteq Recorded(persisted.unAcked) \cup dropped]_vars
  BY <1>1
<1> QED BY <1>2, TypeCorrect, LiveAlways, PTL DEF Spec, WrittenIsSaved

-----------------------------------------------------------------------------
(***************************************************************************)
(* No message is lost where a stream is negotiated: where one leaves the   *)
(* record, the queue or the wire, it is in another of them, or handled.    *)
(* The operation that numbers a stanza leaves the queue with the one that  *)
(* writes it at its head (Paired).                                         *)
(***************************************************************************)
Content(o) ==
    CASE o.op = "track" -> {o.st}
      [] o.op = "write" -> IF o.e.type = "stanza" THEN {o.e.st} ELSE {}
      [] o.op = "resendSaved" -> {e.st : e \in Entries(o.saved)}
      [] OTHER -> {}

LEMMA InQueueContent ==
    ASSUME NEW q
    PROVE  InQueue(q) = UNION {Content(q[k]) : k \in DOMAIN q}
BY DEF InQueue, Content

LEMMA ContentOf ==
    /\ \A st : Content(TrackOp(st)) = {st}
    /\ \A st, t : Content(WriteOp(st, t)) = {st}
    /\ \A o : o.op \in {"remove", "resend", "resendAndClear", "clear", "close", "cleanup", "suspend"}
                => Content(o) = {}
    /\ \A u : Content([op |-> "resendSaved", saved |-> u]) = {e.st : e \in Entries(u)}
BY DEF Content, TrackOp, WriteOp

LEMMA InQueueConcat ==
    ASSUME NEW q \in Seq(Op), NEW r \in Seq(Op)
    PROVE  InQueue(q) \subseteq InQueue(q \o r) /\ InQueue(r) \subseteq InQueue(q \o r)
<1>0. /\ q \o r \in Seq(Op) /\ Len(q \o r) = Len(q) + Len(r)
      /\ \A i \in 1 .. Len(q) + Len(r) :
            (q \o r)[i] = IF i <= Len(q) THEN q[i] ELSE r[i - Len(q)]
  BY ConcatProperties, Zenon
<1>1. /\ Len(q) \in Nat /\ Len(r) \in Nat /\ DOMAIN (q \o r) = 1 .. Len(q) + Len(r)
      /\ \A i \in 1 .. Len(q) + Len(r) :
            (q \o r)[i] = IF i <= Len(q) THEN q[i] ELSE r[i - Len(q)]
      /\ DOMAIN q = 1 .. Len(q) /\ DOMAIN r = 1 .. Len(r)
  BY <1>0
<1>2. \A k \in DOMAIN q : k \in DOMAIN (q \o r) /\ (q \o r)[k] = q[k]
  BY <1>1
<1>3. \A k \in DOMAIN r : k + Len(q) \in DOMAIN (q \o r) /\ (q \o r)[k + Len(q)] = r[k]
  <2>1. TAKE k \in DOMAIN r
  <2>2. /\ k + Len(q) \in 1 .. Len(q) + Len(r) /\ ~(k + Len(q) <= Len(q))
        /\ (k + Len(q)) - Len(q) = k
    BY <1>1
  <2> QED BY <1>1, <2>2
<1>4. InQueue(q) \subseteq InQueue(q \o r)
  BY <1>2, InQueueContent
<1>5. InQueue(r) \subseteq InQueue(q \o r)
  BY <1>3, InQueueContent
<1> QED BY <1>4, <1>5

LEMMA InQueueTail ==
    ASSUME NEW q \in Seq(Op), q # <<>>
    PROVE  InQueue(q) \subseteq Content(Head(q)) \cup InQueue(Tail(q))
<1>1. /\ Len(q) \in Nat \ {0} /\ DOMAIN q = 1 .. Len(q) /\ Head(q) = q[1]
      /\ DOMAIN Tail(q) = 1 .. Len(q) - 1
      /\ \A k \in 1 .. Len(q) - 1 : Tail(q)[k] = q[k + 1]
  OBVIOUS
<1>2. ASSUME NEW k \in DOMAIN q, k # 1
      PROVE  k - 1 \in DOMAIN Tail(q) /\ Tail(q)[k - 1] = q[k]
  <2>1. k - 1 \in 1 .. Len(q) - 1 /\ (k - 1) + 1 = k
    BY <1>1, <1>2
  <2> QED BY <1>1, <2>1
<1>3. ASSUME NEW st \in InQueue(q) PROVE st \in Content(Head(q)) \cup InQueue(Tail(q))
  <2>1. PICK k \in DOMAIN q : st \in Content(q[k])
    BY InQueueContent
  <2>2. CASE k = 1
    BY <1>1, <2>1, <2>2
  <2>3. CASE k # 1
    <3>1. k - 1 \in DOMAIN Tail(q) /\ st \in Content(Tail(q)[k - 1])
      BY <1>2, <2>1, <2>3
    <3> QED BY <3>1, InQueueContent
  <2> QED BY <2>2, <2>3
<1> QED BY <1>3

\* send: queues every stanza it is given.
LEMMA SentInQueue ==
    ASSUME NEW sts \in Seq(Stanza), NEW t \in BOOLEAN
    PROVE  {sts[k] : k \in 1 .. Len(sts)} \subseteq InQueue(SendOps(sts, t))
<1> DEFINE q == SendOps(sts, t)
<1>1. ASSUME NEW k \in 1 .. Len(sts) PROVE sts[k] \in InQueue(q)
  <2>1. CASE t
    <3>1. /\ 2 * k \in 1 .. 2 * Len(sts) /\ (2 * k) % 2 # 1 /\ (2 * k) \div 2 = k
      OBVIOUS
    <3>2. q = [j \in 1 .. 2 * Len(sts) |-> IF j % 2 = 1 THEN TrackOp(sts[(j + 1) \div 2])
                                                       ELSE WriteOp(sts[j \div 2], TRUE)]
      BY <2>1 DEF SendOps
    <3>3. 2 * k \in DOMAIN q /\ q[2 * k] = WriteOp(sts[k], TRUE)
      BY <3>1, <3>2
    <3>4. Content(WriteOp(sts[k], TRUE)) = {sts[k]}
      BY ContentOf
    <3>5. 2 * k \in DOMAIN q /\ sts[k] \in Content(q[2 * k])
      BY <3>3, <3>4
    <3> QED BY <3>5, InQueueContent, Zenon
  <2>2. CASE ~t
    <3>1. q = [j \in 1 .. Len(sts) |-> WriteOp(sts[j], FALSE)]
      BY <2>2 DEF SendOps
    <3>2. k \in DOMAIN q /\ q[k] = WriteOp(sts[k], FALSE)
      BY <3>1
    <3>3. Content(WriteOp(sts[k], FALSE)) = {sts[k]}
      BY ContentOf
    <3>4. k \in DOMAIN q /\ sts[k] \in Content(q[k])
      BY <3>2, <3>3
    <3> QED BY <3>4, InQueueContent, Zenon
  <2> QED BY <2>1, <2>2
<1> QED BY <1>1

LEMMA RecordSent ==
    ASSUME NEW u \in UnAcked, NEW t \in BOOLEAN
    PROVE  {e.st : e \in Entries(u)} \subseteq InQueue(SendOps(StanzasOf(u), t))
<1>1. CASE u = Nil
  BY <1>1 DEF Entries
<1>2. CASE u # Nil
  <2>1. /\ StanzasOf(u) = [k \in 1 .. Len(u) |-> u[k].st]
        /\ Entries(u) = {u[i] : i \in 1 .. Len(u)}
    BY <1>2 DEF StanzasOf, Entries
  <2>2. u \in Seq(Entry)
    BY <1>2, UnAckedType
  <2>3. Len(u) \in Nat
    BY <2>2
  <2>4. StanzasOf(u) \in Seq(Stanza)
    BY StanzasOfType
  <2>5. Len(StanzasOf(u)) = Len(u)
    BY <2>1, <2>3
  <2>6. {e.st : e \in Entries(u)} \subseteq {StanzasOf(u)[k] : k \in 1 .. Len(StanzasOf(u))}
    BY <2>1, <2>5
  <2>7. {StanzasOf(u)[k] : k \in 1 .. Len(StanzasOf(u))} \subseteq InQueue(SendOps(StanzasOf(u), t))
    BY <2>4, SentInQueue
  <2> QED BY <2>6, <2>7
<1> QED BY <1>1, <1>2

LEMMA OnWireTail ==
    ASSUME NEW c \in Seq(Outgoing), c # <<>>
    PROVE  /\ OnWire(c) \subseteq OnWire(Tail(c)) \cup {Head(c).st}
           /\ Head(c).type # "stanza" => OnWire(c) \subseteq OnWire(Tail(c))
<1>1. /\ Len(c) \in Nat \ {0} /\ DOMAIN c = 1 .. Len(c) /\ Head(c) = c[1]
      /\ DOMAIN Tail(c) = 1 .. Len(c) - 1
      /\ \A k \in 1 .. Len(c) - 1 : Tail(c)[k] = c[k + 1]
  OBVIOUS
<1>2. ASSUME NEW k \in DOMAIN c, k # 1
      PROVE  k - 1 \in DOMAIN Tail(c) /\ Tail(c)[k - 1] = c[k]
  <2>1. k - 1 \in 1 .. Len(c) - 1 /\ (k - 1) + 1 = k
    BY <1>1, <1>2
  <2> QED BY <1>1, <2>1
<1>3. \A st : st \in OnWire(c) <=> \E k \in DOMAIN c : c[k].type = "stanza" /\ st = c[k].st
  BY DEF OnWire
<1>4. \A st : st \in OnWire(Tail(c)) <=>
                \E k \in DOMAIN Tail(c) : Tail(c)[k].type = "stanza" /\ st = Tail(c)[k].st
  BY DEF OnWire
<1>5. ASSUME NEW k \in DOMAIN c, c[k].type = "stanza"
      PROVE  c[k].st \in OnWire(Tail(c)) \/ (k = 1 /\ Head(c).type = "stanza" /\ c[k].st = Head(c).st)
  <2>1. CASE k = 1
    BY <1>1, <1>5, <2>1
  <2>2. CASE k # 1
    <3>1. k - 1 \in DOMAIN Tail(c) /\ Tail(c)[k - 1].type = "stanza" /\ c[k].st = Tail(c)[k - 1].st
      BY <1>2, <1>5, <2>2
    <3> QED BY <1>4, <3>1
  <2> QED BY <2>1, <2>2
<1> QED BY <1>3, <1>5

LEMMA OnWireAppend ==
    ASSUME NEW c \in Seq(Outgoing), NEW e \in Outgoing
    PROVE  /\ OnWire(c) \subseteq OnWire(Append(c, e))
           /\ e.type = "stanza" => e.st \in OnWire(Append(c, e))
<1>1. /\ Len(c) \in Nat /\ DOMAIN c = 1 .. Len(c) /\ DOMAIN Append(c, e) = 1 .. Len(c) + 1
      /\ Append(c, e)[Len(c) + 1] = e
      /\ \A k \in 1 .. Len(c) : Append(c, e)[k] = c[k]
  OBVIOUS
<1>2. \A k \in DOMAIN c : k \in DOMAIN Append(c, e) /\ Append(c, e)[k] = c[k]
  BY <1>1
<1>3. Len(c) + 1 \in DOMAIN Append(c, e)
  BY <1>1
<1> QED BY <1>1, <1>2, <1>3 DEF OnWire

LEMMA InQueueSingle ==
    ASSUME NEW o
    PROVE  InQueue(<<o>>) = Content(o)
<1>1. DOMAIN <<o>> = {1} /\ <<o>>[1] = o
  OBVIOUS
<1> QED BY <1>1, InQueueContent

\* The handlers add to the queue, and take a record away only with an operation
\* that sends it again.
LEMMA ProcessQueues ==
    ASSUME TypeOK, ProcessStep
    PROVE  InQueue(netQueue) \subseteq InQueue(netQueue')
<1>1. netQueue \in Seq(Op)
  BY DEF TypeOK
<1>2. PICK r \in Seq(Op) : netQueue' = netQueue \o r
  BY ProcessAppends
<1> QED BY <1>1, <1>2, InQueueConcat

LEMMA ProcessRecord ==
    ASSUME TypeOK, ProcessStep, \A c \in running \ running' : c.at # "clean"
    PROVE  Recorded(unAcked) \subseteq Recorded(unAcked') \cup InQueue(netQueue') \cup dropped'
<1>0. netQueue \in Seq(Op) /\ unAcked \in UnAcked /\ supportsSM3 \in BOOLEAN
  BY DEF TypeOK
<1>1. Cap => unAcked' = unAcked \/ Recorded(unAcked) \subseteq dropped'
  BY DEF Cap
<1>2. ASSUME NEW i \in DOMAIN s2c, HandleEnabled(i)
      PROVE  Recorded(unAcked) \subseteq InQueue(netQueue')
  <2>1. CASE unAcked = Nil
    BY <2>1 DEF Recorded, Entries
  <2>2. CASE unAcked # Nil
    <3> DEFINE after == <<[op |-> "resendSaved", saved |-> unAcked]>>
               ops == <<>> \o SessionOps(supportsSM3, <<>>) \o after
    <3>1. after \in Seq(Op)
      BY <1>0, <2>2, UnAckedType, OpConstructors
    <3>2. SessionOps(supportsSM3, <<>>) \in Seq(Op) /\ <<>> \o SessionOps(supportsSM3, <<>>) \in Seq(Op)
      <4>1. SessionOps(supportsSM3, <<>>) \in Seq(Op)
        BY <1>0, SessionOpsType
      <4> QED BY <4>1, ConcatType
    <3>3. netQueue' = netQueue \o ops
      BY <1>2, <2>2 DEF HandleEnabled, InitSession, Enqueue
    <3>4. InQueue(after) = {e.st : e \in Entries(unAcked)}
      BY InQueueSingle, ContentOf
    <3> HIDE DEF after
    <3>5. ops \in Seq(Op) /\ InQueue(after) \subseteq InQueue(ops)
      BY <3>1, <3>2, InQueueConcat, ConcatType
    <3> HIDE DEF ops
    <3>6. InQueue(ops) \subseteq InQueue(netQueue')
      BY <1>0, <3>3, <3>5, InQueueConcat
    <3> QED BY <3>4, <3>5, <3>6 DEF Recorded
  <2> QED BY <2>1, <2>2
<1>3. CASE \E c \in running : FinishClean(c)
  BY <1>3 DEF FinishClean
<1>4. CASE \/ \E i \in DOMAIN s2c :
                 \/ HandleFeatures(i) \/ HandleA(i) \/ HandleResumed(i)
                 \/ HandleResumeFailed(i) \/ HandleResult(i)
           \/ \E c \in running : \E fg \in BOOLEAN : DispatchResend(c, fg)
  BY <1>4 DEF HandleFeatures, HandleA, HandleResumed, HandleResumeFailed, HandleResult,
              DispatchResend, memory
<1>5. CASE \/ \E i \in DOMAIN s2c : HandleBound(i) \/ HandleEnableFailed(i)
           \/ \E c \in running : FinishResumed(c)
  <2>1. unAcked' = unAcked \/ Cap
    BY <1>5 DEF HandleBound, HandleEnableFailed, FinishResumed
  <2> QED BY <1>1, <2>1
<1> QED BY <1>2, <1>3, <1>4, <1>5 DEF ProcessStep

\* What is held is accounted for part by part.
Accounted == Held' \cup dropped'

LEMMA HeldParts ==
    ASSUME unsent \subseteq Accounted, handled \subseteq Accounted,
           Recorded(unAcked) \subseteq Accounted,
           Msgs \cap InQueue(netQueue) \subseteq Accounted, Msgs \cap OnWire(c2s) \subseteq Accounted
    PROVE  Held \subseteq Accounted
BY DEF Held

LEMMA HeldNext ==
    /\ unsent' \subseteq Accounted /\ handled' \subseteq Accounted /\ dropped' \subseteq Accounted
    /\ Recorded(unAcked') \subseteq Accounted
    /\ Msgs \cap InQueue(netQueue') \subseteq Accounted /\ Msgs \cap OnWire(c2s') \subseteq Accounted
BY DEF Held, Accounted

LEMMA RecordedMsgs ==
    ASSUME NEW u
    PROVE  Recorded(u) \subseteq Msgs /\ Recorded(u) \subseteq {e.st : e \in Entries(u)}
BY DEF Recorded

LEMMA HandshakeStep ==
    ASSUME TypeOK, Paired(netQueue), LiveWire, KeepsMessages
    PROVE  Held \subseteq Held' \cup dropped'
<1> SUFFICES Held \subseteq Accounted
  BY DEF Accounted
<1>0. /\ netQueue \in Seq(Op) /\ unAcked \in UnAcked /\ c2s \in Seq(Outgoing)
  BY DEF TypeOK
<1>a. \A sm, u, v : v \in UnAcked =>
         {e.st : e \in Entries(v)} \subseteq InQueue(SendOps(StanzasOf(v), Tracking(accountState, sm, u)))
  BY RecordSent, TrackingType
<1>b. \A sm, u, v : v \in UnAcked => SendOps(StanzasOf(v), Tracking(accountState, sm, u)) \in Seq(Op)
  BY StanzasOfType, SendOpsType, TrackingType
<1>1. CASE /\ ProcessStep
           /\ \A c \in running \ running' : c.at # "clean"
  <2>1. InQueue(netQueue) \subseteq InQueue(netQueue')
        /\ Recorded(unAcked) \subseteq Recorded(unAcked') \cup InQueue(netQueue') \cup dropped'
    BY <1>1, ProcessQueues, ProcessRecord
  <2>2. c2s' = c2s /\ unsent' = unsent /\ handled' = handled
    BY <1>1 DEF ProcessStep, HandleFeatures, HandleBound, HandleEnabled, HandleA, HandleResumed,
       HandleResumeFailed, HandleEnableFailed, HandleResult, FinishResumed, FinishClean,
       DispatchResend, Take, wire, history
  <2> QED BY <2>1, <2>2, RecordedMsgs, HeldNext, HeldParts
<1>2. CASE Track
  <2>1. /\ netQueue # <<>> /\ netQueue' = Tail(netQueue) /\ Head(netQueue).op = "track"
        /\ c2s' = c2s /\ unsent' = unsent /\ handled' = handled
        /\ unAcked' = IF unAcked = Nil THEN Nil
                      ELSE Append(unAcked, [id |-> lastOutbound, st |-> Head(netQueue).st])
    BY <1>2 DEF Track, Running, Finish, wire, history
  <2>2. Recorded(unAcked) \subseteq Recorded(unAcked')
    <3>1. CASE unAcked = Nil
      BY <2>1, <3>1
    <3>2. CASE unAcked # Nil
      <4> DEFINE e == [id |-> lastOutbound, st |-> Head(netQueue).st]
      <4>1. unAcked \in Seq(Entry) /\ unAcked' = Append(unAcked, e)
        BY <1>0, <2>1, <3>2, UnAckedType
      <4>a. e \in Entry
        <5>1. lastOutbound \in Nat /\ Head(netQueue).st \in Stanza
          BY <1>0, <1>2, <2>1, HeadOfQueue, OpFields, NumberType DEF Track, TypeOK
        <5> QED BY <5>1 DEF Entry
      <4> HIDE DEF e
      <4>2. \A i \in 1 .. Len(unAcked) : i \in 1 .. Len(unAcked') /\ unAcked'[i] = unAcked[i]
        <5>1. /\ Len(unAcked) \in Nat /\ Len(Append(unAcked, e)) = Len(unAcked) + 1
              /\ \A i \in 1 .. Len(unAcked) : Append(unAcked, e)[i] = unAcked[i]
          BY <4>1
        <5> QED BY <4>1, <5>1
      <4>3. unAcked' # Nil
        <5>1. unAcked' \in Seq(Entry)
          BY <4>1, <4>a
        <5>2. Nil \notin Seq(Entry)
          BY NilAssumption, Zenon DEF Entry
        <5> QED BY <5>1, <5>2
      <4>4. Entries(unAcked) \subseteq Entries(unAcked')
        BY <3>2, <4>2, <4>3 DEF Entries
      <4> QED BY <4>4 DEF Recorded
    <3> QED BY <3>1, <3>2
  <2>3. InQueue(netQueue) \subseteq InQueue(Tail(netQueue))
    <3>1. /\ Tail(netQueue) \in Seq(Op) /\ Head(netQueue) = netQueue[1] /\ Tail(netQueue) # <<>>
          /\ Tail(netQueue)[1] = WriteOp(Head(netQueue).st, TRUE)
      BY <1>0, <2>1, PairedTail
    <3>2. 1 \in DOMAIN Tail(netQueue)
      BY <3>1
    <3>a. Content(WriteOp(Head(netQueue).st, TRUE)) = {Head(netQueue).st}
      BY ContentOf
    <3>b. Content(Head(netQueue)) = {Head(netQueue).st}
      BY <2>1 DEF Content
    <3>3. Content(Tail(netQueue)[1]) = {Head(netQueue).st} /\ Content(Head(netQueue)) = {Head(netQueue).st}
      BY <3>1, <3>a, <3>b
    <3>4. Content(Head(netQueue)) \subseteq InQueue(Tail(netQueue))
      BY <3>2, <3>3, InQueueContent
    <3> QED BY <1>0, <2>1, <3>4, InQueueTail
  <2> QED BY <2>1, <2>2, <2>3, HeldNext, HeldParts
<1>3. CASE Resend \/ ResendAndClear
  <2> DEFINE send == SendOps(StanzasOf(unAcked), Tracking(accountState, supportsSM3, unAcked))
  <2>1. /\ netQueue # <<>> /\ netQueue' = Tail(netQueue) \o send
        /\ Head(netQueue).op \in {"resend", "resendAndClear"}
        /\ c2s' = c2s /\ unsent' = unsent /\ handled' = handled
    BY <1>3 DEF Resend, ResendAndClear, Running, wire, history
  <2>2. send \in Seq(Op) /\ {e.st : e \in Entries(unAcked)} \subseteq InQueue(send)
    BY <1>0, <1>a, <1>b
  <2> HIDE DEF send
  <2>3. Tail(netQueue) \in Seq(Op)
    BY <1>0, <2>1
  <2>4. InQueue(send) \subseteq InQueue(netQueue') /\ InQueue(Tail(netQueue)) \subseteq InQueue(netQueue')
    BY <2>1, <2>2, <2>3, InQueueConcat
  <2>5. Content(Head(netQueue)) = {}
    BY <2>1, ContentOf
  <2>6. InQueue(netQueue) \subseteq InQueue(netQueue')
    BY <1>0, <2>1, <2>4, <2>5, InQueueTail
  <2> QED BY <2>1, <2>2, <2>4, <2>6, RecordedMsgs, HeldNext, HeldParts
<1>4. CASE ResendSaved
  <2> DEFINE v == Head(netQueue).saved
             send == SendOps(StanzasOf(v), Tracking(accountState, supportsSM3, unAcked))
  <2>1. /\ netQueue # <<>> /\ netQueue' = Tail(netQueue) \o send
        /\ Head(netQueue).op = "resendSaved" /\ unAcked' = unAcked
        /\ c2s' = c2s /\ unsent' = unsent /\ handled' = handled
    BY <1>4 DEF ResendSaved, Running, memory, wire, history
  <2>2. v \in UnAcked
    BY <1>0, <1>4, HeadOfQueue, OpFields, UnAckedType DEF ResendSaved
  <2>3. send \in Seq(Op) /\ {e.st : e \in Entries(v)} \subseteq InQueue(send)
    BY <1>a, <1>b, <2>2
  <2>4. Content(Head(netQueue)) = {e.st : e \in Entries(v)}
    BY <2>1 DEF Content
  <2> HIDE DEF send, v
  <2>5. Tail(netQueue) \in Seq(Op)
    BY <1>0, <2>1
  <2>6. InQueue(send) \subseteq InQueue(netQueue') /\ InQueue(Tail(netQueue)) \subseteq InQueue(netQueue')
    BY <2>1, <2>3, <2>5, InQueueConcat
  <2>7. InQueue(netQueue) \subseteq InQueue(netQueue')
    BY <1>0, <2>1, <2>3, <2>4, <2>6, InQueueTail
  <2> QED BY <2>1, <2>7, HeldNext, HeldParts
<1>5. CASE Server
  <2>1. unsent' = unsent /\ unAcked' = unAcked /\ netQueue' = netQueue /\ handled \subseteq handled'
    BY <1>5 DEF Server, SrvBind, SrvEnable, SrvResume, SrvStanza, SrvQuery, SrvClose, SrvAck, memory, history
  <2>2. \/ c2s' = c2s
        \/ c2s # <<>> /\ c2s' = Tail(c2s) /\ Head(c2s).type # "stanza"
        \/ c2s # <<>> /\ c2s' = Tail(c2s) /\ Msgs \cap {Head(c2s).st} \subseteq handled'
    BY <1>5 DEF Server, SrvBind, SrvEnable, SrvResume, SrvStanza, SrvQuery, SrvClose, SrvAck, Receive
  <2>3. Msgs \cap OnWire(c2s) \subseteq OnWire(c2s') \cup handled'
    BY <1>0, <2>2, OnWireTail
  <2> QED BY <2>1, <2>3, HeldNext, HeldParts
<1>6. CASE Write /\ link
  <2> DEFINE o == Head(netQueue)
  <2>1. /\ netQueue # <<>> /\ netQueue' = Tail(netQueue) /\ o.op = "write"
        /\ c2s' = Append(c2s, o.e)
        /\ unsent' = unsent /\ handled' = handled /\ unAcked' = unAcked
    BY <1>6 DEF Write, Running, Finish, history, memory
  <2>2. o.e \in Outgoing
    BY <1>0, <1>6, HeadOfQueue, OpFields DEF Write
  <2>3. Content(o) = IF o.e.type = "stanza" THEN {o.e.st} ELSE {}
    BY <2>1 DEF Content
  <2> HIDE DEF o
  <2>4. OnWire(c2s) \subseteq OnWire(c2s') /\ Content(o) \subseteq OnWire(c2s')
    BY <1>0, <2>1, <2>2, <2>3, OnWireAppend
  <2>5. InQueue(netQueue) \subseteq Content(o) \cup InQueue(netQueue')
    BY <1>0, <2>1, InQueueTail DEF o
  <2> QED BY <2>1, <2>4, <2>5, HeldNext, HeldParts
<1>7. ASSUME NEW m \in Msgs, AppSend(m) PROVE Held \subseteq Accounted
  <2> DEFINE send == SendOps(<<m>>, Tracking(accountState, supportsSM3, unAcked))
  <2>1. /\ unsent' = unsent \ {m} /\ netQueue' = netQueue \o send
        /\ c2s' = c2s /\ handled' = handled /\ unAcked' = unAcked
    BY <1>7 DEF AppSend, Enqueue, memory, wire
  <2>2. <<m>> \in Seq(Stanza) /\ m \in {<<m>>[k] : k \in 1 .. Len(<<m>>)}
    BY DEF Stanza
  <2>3. send \in Seq(Op) /\ m \in InQueue(send)
    BY <2>2, SendOpsType, SentInQueue, TrackingType
  <2> HIDE DEF send
  <2>4. InQueue(netQueue) \subseteq InQueue(netQueue') /\ InQueue(send) \subseteq InQueue(netQueue')
    BY <1>0, <2>1, <2>3, InQueueConcat
  <2> QED BY <2>1, <2>3, <2>4, HeldNext, HeldParts
<1>8. ASSUME NEW sm \in BOOLEAN, Authenticate(sm) PROVE Held \subseteq Accounted
  <2>1. /\ unsent' = unsent /\ netQueue' = netQueue /\ handled' = handled /\ unAcked' = unAcked
        /\ c2s = <<>>
    BY <1>8 DEF Authenticate, LiveWire, history
  <2>2. OnWire(c2s) = {}
    BY <2>1 DEF OnWire
  <2> QED BY <2>1, <2>2, HeldNext, HeldParts
<1> QED BY <1>1, <1>2, <1>3, <1>4, <1>5, <1>6, <1>7, <1>8 DEF KeepsMessages

\* On a stream that nobody takes down, no step of its handshake, of sending, of
\* recording and sending again, or of the server loses a message: it is still to
\* be sent, recorded, queued, on the wire, handled, or was dropped with a record
\* that was too long. The operation that empties the record for a session without
\* stream management is not among these steps: it does lose messages, see
\* SentBeforeCleared.
THEOREM HandshakeLosesNothing == Spec => HandshakeKeepsMessages
<1>1. TypeOK /\ Counting /\ Live /\ [Next]_vars
        => [~explicitLogout /\ KeepsMessages => Held \subseteq Held' \cup dropped']_vars
  BY HandshakeStep DEF Counting, Live
<1> QED BY <1>1, TypeCorrect, CountingAlways, LiveAlways, PTL DEF Spec, HandshakeKeepsMessages
=============================================================================
