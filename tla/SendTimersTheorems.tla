-------------------------- MODULE SendTimersTheorems --------------------------
(***************************************************************************)
(* Safety of the send timers, for any messages and bounds and every        *)
(* interleaving of the two queues (Spec).                                  *)
(***************************************************************************)
EXTENDS SendTimers, ArraysTheorems, TLAPS

-----------------------------------------------------------------------------
(* Types *)

LEMMA TimerFields ==
    /\ \A t \in Timer : t.id \in Ids /\ t.try \in Nat
    /\ \A id \in Ids, n \in Nat : [id |-> id, try |-> n] \in Timer
  BY DEF Timer

\* The entry of timerList that SentSearch finds is one of its message.
LEMMA FoundEntry ==
    ASSUME timerList \in Seq(Timer), {i \in DOMAIN timerList : timerList[i].id = sentAt.id} # {}
    PROVE  LET found == {i \in DOMAIN timerList : timerList[i].id = sentAt.id}
               i == CHOOSE i \in found : \A j \in found : i <= j
           IN  /\ i \in DOMAIN timerList /\ i \in Nat \ {0}
               /\ timerList[i] \in Timer /\ timerList[i].id = sentAt.id
<1> DEFINE found == {i \in DOMAIN timerList : timerList[i].id = sentAt.id}
           i == CHOOSE i \in found : \A j \in found : i <= j
<1>1. found \in SUBSET Nat /\ found # {}
  OBVIOUS
<1>2. i \in found
  BY <1>1, First, Zenon
<1> HIDE DEF i
<1>3. i \in DOMAIN timerList /\ timerList[i].id = sentAt.id
  BY <1>2
<1>4. i \in Nat \ {0} /\ timerList[i] \in Timer
  BY <1>3
<1> QED BY <1>3, <1>4 DEF i

LEMMA DieTyped == ASSUME TypeOK, Die, crashes' \in 0 .. MaxCrashes PROVE TypeOK'
<1>1. <<>> \in Seq(Ids) /\ <<>> \in Seq(Timer)
  BY NoElements
<1>2. Pending \subseteq Ids
  <2>1. netAt # Nil => netAt.t.id \in Ids
    BY TimerFields DEF TypeOK
  <2>2. ToSet(netQueue) \subseteq Ids /\ {t.id : t \in timers} \subseteq Ids
    BY TimerFields DEF TypeOK, ToSet
  <2> QED BY <2>1, <2>2 DEF Pending, TypeOK
<1> QED BY <1>1, <1>2 DEF Die, TypeOK

LEMMA TypeStep == TypeOK /\ Next => TypeOK'
<1> SUFFICES ASSUME TypeOK, Next PROVE TypeOK'
  OBVIOUS
<1>u. ASSUME NEW m \in Ids, UserSend(m) PROVE TypeOK'
  <2>1. Append(netQueue, m) \in Seq(Ids)
    BY AppendedTo DEF TypeOK
  <2> QED BY <1>u, <2>1 DEF UserSend, TypeOK, lists, history
<1>i. ASSUME NEW id \in Ids, Insert(id) PROVE TypeOK'
  <2>1. Append(netQueue, id) \in Seq(Ids)
    BY AppendedTo DEF TypeOK
  <2> QED BY <1>i, <2>1 DEF Insert, TypeOK, lists, bounds, history
<1>y. ASSUME NEW id \in Ids, Retry(id) PROVE TypeOK'
  <2>1. Append(netQueue, id) \in Seq(Ids)
    BY AppendedTo DEF TypeOK
  <2> QED BY <1>y, <2>1, BoundAssumption DEF Retry, TypeOK, store, lists
<1>s. ASSUME NEW id \in Ids, Resend(id) PROVE TypeOK'
  <2>1. Append(account, id) \in Seq(Ids)
    BY AppendedTo DEF TypeOK
  <2> QED BY <1>s, <2>1, BoundAssumption DEF Resend, TypeOK, store, lists, history
<1>r. CASE RunSend
  <2> DEFINE id == Head(netQueue)
             t == [id |-> id, try |-> tries[id] + 1]
  <2>1. id \in Ids /\ Tail(netQueue) \in Seq(Ids)
    BY <1>r, TailOf DEF RunSend, TypeOK
  <2>2. t \in Timer /\ tries[id] + 1 \in Nat
    BY <2>1, TimerFields DEF TypeOK
  <2>3. Append(timerList, t) \in Seq(Timer) /\ Append(account, id) \in Seq(Ids)
    BY <2>1, <2>2, AppendedTo DEF TypeOK
  <2> HIDE DEF id
  <2> QED BY <1>r, <2>1, <2>2, <2>3 DEF RunSend, NewTimer, TypeOK, store, bounds, id
<1>f. ASSUME NEW t \in timers, TimerFires(t) PROVE TypeOK'
  <2>1. t \in Timer /\ t.id \in Ids
    BY TimerFields DEF TypeOK
  <2>2. netAt'.at = "search" /\ netAt'.t = t
    BY <1>f DEF TimerFires
  <2> QED BY <1>f, <2>1, <2>2 DEF TimerFires, TypeOK, store, bounds
<1>t. CASE TimerSearch
  <2>1. netAt.t \in Timer /\ netAt.t.id \in Ids
    BY <1>t, TimerFields DEF TimerSearch, TypeOK
  <2>2. netAt' # Nil => netAt'.t = netAt.t /\ (netAt'.at = "remove" => netAt'.i \in Nat \ {0})
    <3>1. \A i \in DOMAIN timerList : i \in Nat \ {0}
      BY DEF TypeOK
    <3> QED BY <1>t, <3>1 DEF TimerSearch
  <2>3. rows' \in [Ids -> {"none", "delivered", "failed"}]
    BY <1>t, <2>1 DEF TimerSearch, SetDelivered, TypeOK
  <2>4. excused' \subseteq Ids
    BY <1>t, <2>1 DEF TimerSearch, TypeOK
  <2> QED BY <1>t, <2>1, <2>2, <2>3, <2>4 DEF TimerSearch, TypeOK, lists, bounds
<1>m. CASE TimerRemove
  <2>1. timerList' \in Seq(Timer) /\ timerList[netAt.i] \in Timer
    BY <1>m, RemovedAt DEF TimerRemove, RemoveFound, TypeOK
  <2>2. timerList[netAt.i].id \in Ids
    BY <2>1, TimerFields
  <2> QED BY <1>m, <2>1, <2>2 DEF TimerRemove, TypeOK, store, bounds
<1>w. CASE WriteOut
  <2>1. Head(account) \in Ids /\ Tail(account) \in Seq(Ids)
    BY <1>w, TailOf DEF WriteOut, TypeOK
  <2>2. sentAt'.at = "search" /\ sentAt'.id = Head(account)
    BY <1>w DEF WriteOut
  <2>3. rows' \in [Ids -> {"none", "delivered", "failed"}]
    BY <1>w, <2>1 DEF WriteOut, SetDelivered, TypeOK
  <2>4. crossed' \subseteq Ids /\ written' \subseteq Ids
    BY <1>w, <2>1 DEF WriteOut, TypeOK
  <2> QED BY <1>w, <2>1, <2>2, <2>3, <2>4 DEF WriteOut, TypeOK, lists, bounds
<1>x. CASE WriteFails
  BY <1>x, TailOf DEF WriteFails, TypeOK, store, lists, bounds, history
<1>a. CASE SentSearch
  <2> DEFINE found == {i \in DOMAIN timerList : timerList[i].id = sentAt.id}
             first == CHOOSE i \in found : \A j \in found : i <= j
  <2>1. sentAt' # Nil => sentAt'.id = sentAt.id /\ sentAt'.at = "remove" /\ sentAt'.i \in Nat \ {0}
    <3>1. found # {} => first \in Nat \ {0}
      BY FoundEntry DEF TypeOK
    <3>2. sentAt' = IF found = {} THEN Nil ELSE [at |-> "remove", id |-> sentAt.id, i |-> first]
      BY <1>a DEF SentSearch
    <3> HIDE DEF found, first
    <3> QED BY <3>1, <3>2
  <2>2. timers' \subseteq timers
    BY <1>a DEF SentSearch
  <2>3. sentAt # Nil /\ sentAt.id \in Ids
    BY <1>a DEF SentSearch, TypeOK
  <2> QED BY <1>a, <2>1, <2>2, <2>3 DEF SentSearch, TypeOK, store, bounds, history
<1>b. CASE SentRemove
  <2>1. timerList' \in Seq(Timer) /\ timerList[sentAt.i] \in Timer
    BY <1>b, RemovedAt DEF SentRemove, RemoveFound, TypeOK
  <2>2. timerList[sentAt.i].id \in Ids
    BY <2>1, TimerFields
  <2> QED BY <1>b, <2>1, <2>2 DEF SentRemove, TypeOK, store, bounds
<1>l. CASE ListRaises
  <2>1. Die /\ crashes' = crashes
    BY <1>l DEF ListRaises, Raise
  <2> QED BY <2>1, DieTyped DEF TypeOK
<1>c. CASE Crash
  <2>1. Die /\ crashes' \in 0 .. MaxCrashes
    BY <1>c, BoundAssumption DEF Crash, TypeOK
  <2> QED BY <2>1, DieTyped
<1> QED BY <1>u, <1>i, <1>y, <1>s, <1>r, <1>f, <1>t, <1>m, <1>w, <1>x, <1>a, <1>b, <1>l, <1>c
        DEF Next, NetStep, SentStep

\* Every reachable state is well typed, for any messages and bounds.
THEOREM TypeCorrect == Spec => []TypeOK
<1>1. Init => TypeOK
  <2>1. <<>> \in Seq(Ids) /\ <<>> \in Seq(Timer)
    BY NoElements
  <2> QED BY <2>1, BoundAssumption DEF Init, TypeOK
<1>2. TypeOK /\ [Next]_vars => TypeOK'
  <2>1. TypeOK /\ UNCHANGED vars => TypeOK'
    BY DEF TypeOK, vars, store, lists, bounds, history
  <2> QED BY <2>1, TypeStep
<1> QED BY <1>1, <1>2, PTL DEF Spec

-----------------------------------------------------------------------------
(* A message that was written shows as undelivered only if it was crossed *)

\* A message nobody has retried is in one place on its way to its one timer: it is
\* to be inserted, or waits on _netQueue, or has been sent.
SentOnce(id) ==
    /\ id \in inserting => id \in used
    /\ id \in inserting \cap Chats => id \notin ToSet(netQueue) /\ tries[id] = 0
    /\ id \in ToSet(netQueue) => id \in used /\ tries[id] = 0
    /\ Once(netQueue, id)
    /\ tries[id] \in {0, 1}
    /\ tries[id] = 1 => id \in used
    /\ id \in ToSet(account) \cup handed => tries[id] = 1

OneTimer(id) ==
    /\ \A t \in timers \cup ToSet(timerList) : t.id = id => t.try = 1 /\ tries[id] = 1
    /\ netAt # Nil /\ netAt.t.id = id => netAt.t.try = 1 /\ tries[id] = 1

Searching(id) == sentAt # Nil /\ sentAt.at = "search" /\ sentAt.id = id

\* Once it was written nothing can mark it: a timer of it that may still fire, or
\* has fired, is no longer in timerList, except until handleSentMessage has found
\* the timer to cancel.
Settled(id) ==
    id \in written =>
       /\ tries[id] = 1
       /\ rows[id] # "failed"
       /\ \A t \in timers \cap ToSet(timerList) : t.id = id => Searching(id)
       /\ netAt # Nil /\ netAt.t.id = id => netAt.t \notin ToSet(timerList)

Tidy == \A id \in Ids : id \notin crossed => SentOnce(id) /\ OneTimer(id) /\ Settled(id)

LEMMA TidyInit == Init => Tidy
<1> SUFFICES ASSUME Init, NEW id \in Ids PROVE SentOnce(id) /\ OneTimer(id) /\ Settled(id)
  BY DEF Tidy
<1>1. ToSet(netQueue) = {} /\ ToSet(account) = {} /\ ToSet(timerList) = {} /\ DOMAIN netQueue = {}
  BY NoElements DEF Init
<1> QED BY <1>1 DEF Init, SentOnce, OneTimer, Settled, Once

LEMMA DieTidy ==
    ASSUME TypeOK, Tidy, Die, NEW id \in Ids, id \notin crossed
    PROVE  (SentOnce(id) /\ OneTimer(id) /\ Settled(id))'
<1>1. ToSet(<<>>) = {} /\ DOMAIN <<>> = {}
  BY NoElements
<1>2. ToSet(account') \subseteq ToSet(account) /\ ToSet(netQueue') = {} /\ ToSet(timerList') = {}
  BY <1>1 DEF Die
<1>3. SentOnce(id) /\ Settled(id)
  BY DEF Tidy
<1>4. SentOnce(id)'
  BY <1>1, <1>2, <1>3 DEF SentOnce, Once, Die
<1>5. OneTimer(id)' /\ Settled(id)'
  BY <1>2, <1>3 DEF OneTimer, Settled, Die
<1> QED BY <1>4, <1>5

LEMMA TidyStep == TypeOK /\ Tidy /\ Next => Tidy'
<1> SUFFICES ASSUME TypeOK, Tidy, Next, NEW id \in Ids, id \notin crossed'
             PROVE  (SentOnce(id) /\ OneTimer(id) /\ Settled(id))'
  BY DEF Tidy
<1> USE DEF lists, store, bounds, history
<1>0. crossed \subseteq crossed' => SentOnce(id) /\ OneTimer(id) /\ Settled(id) /\ id \notin crossed
  BY DEF Tidy
<1>u. ASSUME NEW m \in Ids, UserSend(m) PROVE (SentOnce(id) /\ OneTimer(id) /\ Settled(id))'
  <2>0. SentOnce(id) /\ OneTimer(id) /\ Settled(id)
    BY <1>0, <1>u DEF UserSend
  <2>1. SentOnce(id)'
    <3>1. CASE m \in Links
      <4>1. ToSet(netQueue') = ToSet(netQueue) \cup {m}
        BY <1>u, <3>1, AppendedTo DEF UserSend, TypeOK
      <4>2. m = id => id \notin ToSet(netQueue) /\ tries[id] = 0 /\ id \notin Chats
        BY <1>u, <2>0, <3>1, KindAssumption DEF UserSend, SentOnce, TypeOK
      <4>3. Once(netQueue', id)
        BY <1>u, <2>0, <3>1, <4>2, AppendedOnce DEF UserSend, TypeOK, SentOnce
      <4> QED BY <1>u, <2>0, <4>1, <4>2, <4>3 DEF UserSend, SentOnce, TypeOK
    <3>2. CASE m \notin Links
      BY <1>u, <2>0, <3>2 DEF UserSend, SentOnce, TypeOK
    <3> QED BY <3>1, <3>2
  <2>2. (OneTimer(id) /\ Settled(id))'
    BY <1>u, <2>0 DEF UserSend, OneTimer, Settled, Searching
  <2> QED BY <2>1, <2>2
<1>i. ASSUME NEW m \in Ids, Insert(m) PROVE (SentOnce(id) /\ OneTimer(id) /\ Settled(id))'
  <2>0. SentOnce(id) /\ OneTimer(id) /\ Settled(id)
    BY <1>0, <1>i DEF Insert
  <2>1. SentOnce(id)'
    <3>1. CASE m \in Chats
      <4>1. ToSet(netQueue') = ToSet(netQueue) \cup {m}
        BY <1>i, <3>1, AppendedTo DEF Insert, TypeOK
      <4>2. m = id => id \notin ToSet(netQueue) /\ tries[id] = 0 /\ id \in used
        BY <1>i, <2>0, <3>1 DEF Insert, SentOnce
      <4>3. Once(netQueue', id)
        BY <1>i, <2>0, <3>1, <4>2, AppendedOnce DEF Insert, TypeOK, SentOnce
      <4> QED BY <1>i, <2>0, <4>1, <4>2, <4>3 DEF Insert, SentOnce, TypeOK
    <3>2. CASE m \notin Chats
      BY <1>i, <2>0, <3>2 DEF Insert, SentOnce, TypeOK
    <3> QED BY <3>1, <3>2
  <2>2. (OneTimer(id) /\ Settled(id))'
    BY <1>i, <2>0 DEF Insert, OneTimer, Settled, Searching, TypeOK
  <2> QED BY <2>1, <2>2
<1>y. ASSUME NEW m \in Ids, Retry(m) PROVE (SentOnce(id) /\ OneTimer(id) /\ Settled(id))'
  <2>0. SentOnce(id) /\ OneTimer(id) /\ Settled(id) /\ m # id
    BY <1>0, <1>y DEF Retry
  <2>1. SentOnce(id)'
    <3>1. ToSet(netQueue') = ToSet(netQueue) \cup {m}
      BY <1>y, AppendedTo DEF Retry, TypeOK
    <3>2. Once(netQueue', id)
      BY <1>y, <2>0, AppendedOnce DEF Retry, TypeOK, SentOnce
    <3> QED BY <1>y, <2>0, <3>1, <3>2 DEF Retry, SentOnce, TypeOK
  <2>2. (OneTimer(id) /\ Settled(id))'
    BY <1>y, <2>0 DEF Retry, OneTimer, Settled, Searching
  <2> QED BY <2>1, <2>2
<1>s. ASSUME NEW m \in Ids, Resend(m) PROVE (SentOnce(id) /\ OneTimer(id) /\ Settled(id))'
  <2>0. SentOnce(id) /\ OneTimer(id) /\ Settled(id)
    BY <1>0, <1>s DEF Resend
  <2>1. ToSet(account') = ToSet(account) \cup {m} /\ m \in handed
    BY <1>s, AppendedTo DEF Resend, TypeOK
  <2>2. SentOnce(id)'
    BY <1>s, <2>0, <2>1 DEF Resend, SentOnce
  <2>3. (OneTimer(id) /\ Settled(id))'
    BY <1>s, <2>0 DEF Resend, OneTimer, Settled, Searching
  <2> QED BY <2>2, <2>3
<1>r. CASE RunSend
  <2>0. SentOnce(id) /\ OneTimer(id) /\ Settled(id)
    BY <1>0, <1>r DEF RunSend
  <2> DEFINE m == Head(netQueue)
             t == [id |-> m, try |-> tries[m] + 1]
  <2>1. m \in Ids /\ m \in ToSet(netQueue) /\ ToSet(netQueue') \subseteq ToSet(netQueue)
    BY <1>r, TailOf DEF RunSend, TypeOK
  <2>2. /\ t \in Timer /\ tries[m] \in Nat /\ timers' = timers \cup {t}
        /\ timerList' = Append(timerList, t)
        /\ tries' = [tries EXCEPT ![m] = tries[m] + 1]
    <3>1. tries[m] \in Nat
      BY <2>1 DEF TypeOK
    <3>2. t \in Timer
      BY <2>1, <3>1, TimerFields
    <3> QED BY <1>r, <3>1, <3>2 DEF RunSend, NewTimer
  <2>3. ToSet(timerList') = ToSet(timerList) \cup {t}
    BY <2>2, AppendedTo DEF TypeOK
  <2>4. /\ Once(netQueue', id)
        /\ id = m => id \notin ToSet(netQueue')
    BY <1>r, <2>0, TailOnce DEF RunSend, TypeOK, SentOnce
  <2>5. ToSet(account') \subseteq ToSet(account) \cup {m} /\ handed' \subseteq handed \cup {m}
    <3>1. ToSet(Append(account, m)) = ToSet(account) \cup {m}
      BY <2>1, AppendedTo DEF TypeOK
    <3> QED BY <1>r, <3>1 DEF RunSend
  <2>6. t.id = m /\ t.try = tries[m] + 1 /\ tries'[id] = IF m = id THEN tries[id] + 1 ELSE tries[id]
    BY <2>1, <2>2 DEF TypeOK
  <2>7. m = id => tries[id] = 0 /\ id \in used /\ id \notin inserting \cap Chats
    BY <2>0, <2>1 DEF SentOnce
  <2>8. netAt' = netAt /\ sentAt' = sentAt /\ rows' = rows /\ written' = written /\ netAt = Nil
        /\ inserting' = inserting /\ used' = used
    BY <1>r DEF RunSend
  <2> HIDE DEF m, t
  <2>9. SentOnce(id)'
    BY <2>0, <2>1, <2>4, <2>5, <2>6, <2>7, <2>8 DEF SentOnce
  <2>10. OneTimer(id)'
    BY <2>0, <2>2, <2>3, <2>6, <2>7, <2>8 DEF OneTimer
  <2>11. Settled(id)'
    <3> SUFFICES ASSUME id \in written PROVE Settled(id)'
      BY <2>8 DEF Settled
    <3>1. m # id
      BY <2>0, <2>7 DEF Settled
    <3> QED BY <2>0, <2>2, <2>3, <2>6, <2>8, <3>1 DEF Settled, Searching
  <2> QED BY <2>9, <2>10, <2>11
<1>f. ASSUME NEW t \in timers, TimerFires(t) PROVE (SentOnce(id) /\ OneTimer(id) /\ Settled(id))'
  <2>0. SentOnce(id) /\ OneTimer(id) /\ Settled(id)
    BY <1>0, <1>f DEF TimerFires
  <2>1. netAt'.t = t
    BY <1>f DEF TimerFires
  <2>2. t.id = id => ~ Searching(id)
    BY <1>f DEF TimerFires, Searching
  <2>3. SentOnce(id)'
    BY <1>f, <2>0 DEF TimerFires, SentOnce
  <2>4. OneTimer(id)'
    BY <1>f, <2>0, <2>1 DEF TimerFires, OneTimer
  <2>5. Settled(id)'
    BY <1>f, <2>0, <2>1, <2>2 DEF TimerFires, Settled, Searching
  <2> QED BY <2>3, <2>4, <2>5
<1>t. CASE TimerSearch
  <2>0. SentOnce(id) /\ OneTimer(id) /\ Settled(id)
    BY <1>0, <1>t DEF TimerSearch
  <2>1. netAt' # Nil => netAt # Nil /\ netAt'.t = netAt.t
    BY <1>t DEF TimerSearch
  <2>2. rows'[id] = rows[id] \/ (id = netAt.t.id /\ netAt.t \in ToSet(timerList))
    BY <1>t DEF TimerSearch, SetDelivered, TypeOK
  <2>3. netAt # Nil
    BY <1>t DEF TimerSearch
  <2>4. SentOnce(id)'
    BY <1>t, <2>0 DEF TimerSearch, SentOnce
  <2>5. OneTimer(id)'
    BY <1>t, <2>0, <2>1 DEF TimerSearch, OneTimer
  <2>6. Settled(id)'
    BY <1>t, <2>0, <2>1, <2>2, <2>3 DEF TimerSearch, Settled, Searching
  <2> QED BY <2>4, <2>5, <2>6
<1>m. CASE TimerRemove
  <2>0. SentOnce(id) /\ OneTimer(id) /\ Settled(id)
    BY <1>0, <1>m DEF TimerRemove
  <2>1. ToSet(timerList') \subseteq ToSet(timerList)
    BY <1>m, RemovedAt DEF TimerRemove, RemoveFound, TypeOK
  <2>2. SentOnce(id)'
    BY <1>m, <2>0 DEF TimerRemove, SentOnce
  <2>3. OneTimer(id)' /\ Settled(id)'
    BY <1>m, <2>0, <2>1 DEF TimerRemove, OneTimer, Settled, Searching
  <2> QED BY <2>2, <2>3
<1>w. CASE WriteOut
  <2>0. SentOnce(id) /\ OneTimer(id) /\ Settled(id)
    BY <1>0, <1>w DEF WriteOut
  <2>1. Head(account) \in ToSet(account) /\ ToSet(account') \subseteq ToSet(account)
        /\ Head(account) \in Ids
    BY <1>w, TailOf DEF WriteOut, TypeOK
  <2>2. SentOnce(id)'
    BY <1>w, <2>0, <2>1 DEF WriteOut, SentOnce
  <2>3. OneTimer(id)'
    BY <1>w, <2>0 DEF WriteOut, OneTimer
  <2>4. Settled(id)'
    <3>1. CASE Head(account) = id
      <4>1. tries[id] = 1 /\ rows'[id] # "failed"
        BY <1>w, <2>0, <2>1, <3>1 DEF WriteOut, SentOnce, SetDelivered, TypeOK
      <4>2. Searching(id)'
        <5>1. [at |-> "search", id |-> id, seen |-> timerList] \in SentSearches
          BY DEF SentSearches, TypeOK
        <5> QED BY <1>w, <3>1, <5>1, NilAssumption DEF WriteOut, Searching
      <4>3. netAt # Nil => netAt.t.id # id
        BY <1>w, <3>1 DEF WriteOut
      <4> QED BY <1>w, <4>1, <4>2, <4>3 DEF WriteOut, Settled
    <3>2. CASE Head(account) # id
      <4>1. rows'[id] = rows[id] /\ (id \in written' => id \in written) /\ ~ Searching(id)
        BY <1>w, <3>2 DEF WriteOut, SetDelivered, TypeOK, Searching
      <4> QED BY <1>w, <2>0, <4>1 DEF WriteOut, Settled
    <3> QED BY <3>1, <3>2
  <2> QED BY <2>2, <2>3, <2>4
<1>x. CASE WriteFails
  <2>0. SentOnce(id) /\ OneTimer(id) /\ Settled(id)
    BY <1>0, <1>x DEF WriteFails
  <2>1. ToSet(account') \subseteq ToSet(account)
    BY <1>x, TailOf DEF WriteFails, TypeOK
  <2>2. SentOnce(id)'
    BY <1>x, <2>0, <2>1 DEF WriteFails, SentOnce
  <2>3. OneTimer(id)' /\ Settled(id)'
    BY <1>x, <2>0 DEF WriteFails, OneTimer, Settled, Searching
  <2> QED BY <2>2, <2>3
<1>a. CASE SentSearch
  <2>0. SentOnce(id) /\ OneTimer(id) /\ Settled(id)
    BY <1>0, <1>a DEF SentSearch
  <2> DEFINE found == {i \in DOMAIN timerList : timerList[i].id = sentAt.id}
             first == CHOOSE i \in found : \A j \in found : i <= j
  <2>1. timers' = IF found = {} THEN timers ELSE timers \ {timerList[first]}
    BY <1>a DEF SentSearch
  <2>2. found # {} => timerList[first] \in Timer /\ timerList[first].id = sentAt.id
                      /\ timerList[first] \in ToSet(timerList)
    BY FoundEntry DEF TypeOK, ToSet
  <2>3. sentAt' = Nil \/ sentAt'.at # "search"
    BY <1>a DEF SentSearch
  <2>4. ASSUME NEW t \in timers' \cap ToSet(timerList), t.id = id, id \in written PROVE FALSE
    <3>1. t \in timers /\ t \in Timer /\ Searching(id)
      BY <1>a, <2>0, <2>4 DEF SentSearch, Settled, TypeOK
    <3>2. PICK i \in DOMAIN timerList : timerList[i] = t
      BY <2>4 DEF ToSet
    <3>3. found # {}
      BY <2>4, <3>1, <3>2 DEF Searching
    <3>4. timerList[first].try = 1 /\ t.try = 1 /\ timerList[first].id = t.id
      BY <2>0, <2>2, <2>4, <3>1, <3>3 DEF OneTimer, Searching
    <3> HIDE DEF first, found
    <3>5. timerList[first] = t
      BY <2>2, <3>1, <3>3, <3>4 DEF Timer
    <3> QED BY <2>1, <2>4, <3>3, <3>5
  <2> HIDE DEF first, found
  <2>5. timers' \subseteq timers
    BY <2>1
  <2>6. SentOnce(id)'
    BY <1>a, <2>0 DEF SentSearch, SentOnce
  <2>7. OneTimer(id)'
    BY <1>a, <2>0, <2>5 DEF SentSearch, OneTimer
  <2>8. Settled(id)'
    BY <1>a, <2>0, <2>4 DEF SentSearch, Settled
  <2> QED BY <2>6, <2>7, <2>8
<1>b. CASE SentRemove
  <2>0. SentOnce(id) /\ OneTimer(id) /\ Settled(id)
    BY <1>0, <1>b DEF SentRemove
  <2>1. ToSet(timerList') \subseteq ToSet(timerList)
    BY <1>b, RemovedAt DEF SentRemove, RemoveFound, TypeOK
  <2>2. ~ Searching(id)
    BY <1>b DEF SentRemove, Searching
  <2>3. SentOnce(id)'
    BY <1>b, <2>0 DEF SentRemove, SentOnce
  <2>4. OneTimer(id)' /\ Settled(id)'
    BY <1>b, <2>0, <2>1, <2>2 DEF SentRemove, OneTimer, Settled
  <2> QED BY <2>3, <2>4
<1>l. CASE ListRaises
  <2>1. Die
    BY <1>l DEF ListRaises, Raise
  <2> QED BY <1>0, <2>1, DieTidy DEF Die
<1>c. CASE Crash
  <2>1. Die
    BY <1>c DEF Crash
  <2> QED BY <1>0, <2>1, DieTidy DEF Die
<1> QED BY <1>u, <1>i, <1>y, <1>s, <1>r, <1>f, <1>t, <1>m, <1>w, <1>x, <1>a, <1>b, <1>l, <1>c
        DEF Next, NetStep, SentStep

\* A message that was written shows as undelivered only if its timer fired while the
\* notification was being handled, or if the user has retried it: in every
\* interleaving of _netQueue and networkQueue, with any number of messages.
THEOREM WrittenStaysDelivered == Spec => []FailedIsUnwritten
<1>1. Init => Tidy
  BY TidyInit
<1>2. TypeOK /\ Tidy /\ [Next]_vars => Tidy'
  <2>1. Tidy /\ UNCHANGED vars => Tidy'
    BY DEF Tidy, SentOnce, OneTimer, Settled, Searching, vars, store, lists, bounds, history
  <2> QED BY <2>1, TidyStep
<1>3. TypeOK /\ Tidy => FailedIsUnwritten
  BY DEF FailedIsUnwritten, Tidy, Settled
<1> QED BY <1>1, <1>2, <1>3, TypeCorrect, PTL DEF Spec

-----------------------------------------------------------------------------
(* A message that shows as delivered and waits for nothing was written *)

TimedOut(t) == netAt # Nil /\ netAt.at = "search" /\ netAt.t = t

\* What will still become of a message: it is to be sent, or a timer of it is in
\* timerList and may still fire, or has fired and looks for its entry.
Open(id) ==
    \/ id \in inserting \cap Chats
    \/ id \in ToSet(netQueue)
    \/ \E t \in ToSet(timerList) : t.id = id /\ (t \in timers \/ TimedOut(t))

Unsettled(id) == id \notin written \cup excused

\* A row that shows a message as delivered, or will when it is inserted, is open,
\* and a timer that is about to remove an entry has marked its row.
Watched(id) ==
    /\ Unsettled(id) /\ (rows[id] = "delivered" \/ id \in inserting) => Open(id)
    /\ Unsettled(id) /\ netAt # Nil /\ netAt.at = "remove" /\ netAt.t.id = id =>
          rows[id] # "delivered" /\ id \notin inserting

\* What is on its way was written by the user, and what handleSentMessage looks for
\* was written to the stream.
Origins ==
    /\ netAt # Nil => netAt.t.id \in used
    /\ inserting \cup ToSet(netQueue) \cup {t.id : t \in timers} \subseteq used
    /\ \A id \in Ids : rows[id] = "failed" => id \in used
    /\ sentAt # Nil => sentAt.id \in written

Followed == Origins /\ \A id \in Ids : Watched(id)

LEMMA OriginsStep == TypeOK /\ Origins /\ Next => Origins'
<1> SUFFICES ASSUME TypeOK, Origins, Next PROVE Origins'
  OBVIOUS
<1> USE DEF lists, store, bounds, history
<1>d. ASSUME Die PROVE Origins'
  BY <1>d, NoElements DEF Die, Origins
<1>u. ASSUME NEW m \in Ids, UserSend(m) PROVE Origins'
  <2>1. ToSet(netQueue') \subseteq ToSet(netQueue) \cup {m}
    BY <1>u, AppendedTo DEF UserSend, TypeOK
  <2> QED BY <1>u, <2>1 DEF UserSend, Origins
<1>i. ASSUME NEW m \in Ids, Insert(m) PROVE Origins'
  <2>1. ToSet(netQueue') \subseteq ToSet(netQueue) \cup {m}
    BY <1>i, AppendedTo DEF Insert, TypeOK
  <2>2. m \in used
    BY <1>i DEF Insert, Origins
  <2> QED BY <1>i, <2>1, <2>2 DEF Insert, Origins, TypeOK
<1>y. ASSUME NEW m \in Ids, Retry(m) PROVE Origins'
  <2>1. ToSet(netQueue') = ToSet(netQueue) \cup {m}
    BY <1>y, AppendedTo DEF Retry, TypeOK
  <2>2. m \in used
    BY <1>y DEF Retry, Origins
  <2> QED BY <1>y, <2>1, <2>2 DEF Retry, Origins
<1>s. ASSUME NEW m \in Ids, Resend(m) PROVE Origins'
  BY <1>s DEF Resend, Origins
<1>r. CASE RunSend
  <2>1. Head(netQueue) \in ToSet(netQueue) /\ ToSet(netQueue') \subseteq ToSet(netQueue)
    BY <1>r, TailOf DEF RunSend, TypeOK
  <2>2. \A t \in timers' : t \in timers \/ t.id = Head(netQueue)
    BY <1>r DEF RunSend, NewTimer
  <2>3. Head(netQueue) \in used
    BY <2>1 DEF Origins
  <2>4. {t.id : t \in timers'} \subseteq used
    BY <2>2, <2>3 DEF Origins
  <2> QED BY <1>r, <2>1, <2>4 DEF RunSend, Origins
<1>f. ASSUME NEW t \in timers, TimerFires(t) PROVE Origins'
  <2>1. netAt'.t = t /\ t.id \in used /\ timers' \subseteq timers
    BY <1>f DEF TimerFires, Origins
  <2> QED BY <1>f, <2>1 DEF TimerFires, Origins
<1>t. CASE TimerSearch
  <2>1. netAt' # Nil => netAt # Nil /\ netAt'.t = netAt.t
    BY <1>t DEF TimerSearch
  <2>2. \A id \in Ids : rows'[id] = rows[id] \/ id \in used
    BY <1>t DEF TimerSearch, SetDelivered, TypeOK, Origins
  <2> QED BY <1>t, <2>1, <2>2 DEF TimerSearch, Origins
<1>m. CASE TimerRemove
  BY <1>m DEF TimerRemove, Origins
<1>w. CASE WriteOut
  <2>1. \A id \in Ids : rows'[id] = "failed" => rows[id] = "failed"
    BY <1>w DEF WriteOut, SetDelivered, TypeOK
  <2>2. sentAt'.id \in written'
    BY <1>w DEF WriteOut
  <2> QED BY <1>w, <2>1, <2>2 DEF WriteOut, Origins
<1>x. CASE WriteFails
  BY <1>x DEF WriteFails, Origins
<1>a. CASE SentSearch
  <2>1. timers' \subseteq timers /\ (sentAt' # Nil => sentAt # Nil /\ sentAt'.id = sentAt.id)
    BY <1>a DEF SentSearch
  <2> QED BY <1>a, <2>1 DEF SentSearch, Origins
<1>b. CASE SentRemove
  BY <1>b DEF SentRemove, Origins
<1>l. CASE ListRaises
  BY <1>d, <1>l DEF ListRaises, Raise
<1>c. CASE Crash
  BY <1>c, <1>d DEF Crash
<1> QED BY <1>u, <1>i, <1>y, <1>s, <1>r, <1>f, <1>t, <1>m, <1>w, <1>x, <1>a, <1>b, <1>l, <1>c
        DEF Next, NetStep, SentStep

LEMMA OpenPending ==
    ASSUME TypeOK, NEW id \in Ids, Open(id)
    PROVE  id \in Pending
<1>1. TimedOut(netAt.t) => netAt # Nil
  BY DEF TimedOut
<1> QED BY <1>1 DEF Open, Pending, TimedOut

\* An entry leaves timerList only if its message was written, is excused, or is the
\* one whose timer removes it.
LEMMA RemovalKeepsOpen ==
    ASSUME TypeOK, NEW i \in DOMAIN timerList, RemoveFound([i |-> i]),
           NEW id \in Ids, timerList[i].id # id
    PROVE  \A t \in ToSet(timerList) : t.id = id => t \in ToSet(timerList')
<1>1. timerList \in Seq(Timer) /\ timerList' = RemoveAt(timerList, i)
  BY DEF TypeOK, RemoveFound
<1>2. \A k \in DOMAIN timerList : k # i => timerList[k] \in ToSet(timerList')
  BY <1>1, RemovedAt
<1>3. \A t \in ToSet(timerList) : \E k \in DOMAIN timerList : t = timerList[k]
  BY DEF ToSet
<1> QED BY <1>2, <1>3

LEMMA WatchedStep == TypeOK /\ Followed /\ Next => \A id \in Ids : Watched(id)'
<1> SUFFICES ASSUME TypeOK, Followed, Next, NEW id \in Ids PROVE Watched(id)'
  OBVIOUS
<1> USE DEF lists, store, bounds, history
<1>0. Watched(id) /\ Origins
  BY DEF Followed
<1>d. ASSUME Die PROVE Watched(id)'
  <2>1. netAt' = Nil /\ inserting' = {} /\ rows' = rows /\ written' = written
        /\ excused' = excused \cup Pending
    BY <1>d DEF Die
  <2>2. ~ (Unsettled(id)' /\ rows[id] = "delivered")
    BY <1>0, <2>1, OpenPending DEF Watched, Unsettled
  <2> QED BY <2>1, <2>2 DEF Watched
<1>u. ASSUME NEW m \in Ids, UserSend(m) PROVE Watched(id)'
  <2>1. /\ ToSet(netQueue) \subseteq ToSet(netQueue')
        /\ m \in Links => m \in ToSet(netQueue')
    BY <1>u, AppendedTo DEF UserSend, TypeOK
  <2>2. Open(id) \/ id = m => Open(id)'
    BY <1>u, <2>1 DEF UserSend, Open, TimedOut, Ids
  <2>3. netAt # Nil => netAt.t.id # m
    BY <1>0, <1>u DEF UserSend, Origins
  <2> QED BY <1>0, <1>u, <2>2, <2>3 DEF UserSend, Watched, Unsettled
<1>i. ASSUME NEW m \in Ids, Insert(m) PROVE Watched(id)'
  <2>1. /\ ToSet(netQueue) \subseteq ToSet(netQueue')
        /\ m \in Chats => m \in ToSet(netQueue')
    BY <1>i, AppendedTo DEF Insert, TypeOK
  <2>2. Open(id) => Open(id)'
    BY <1>i, <2>1 DEF Insert, Open, TimedOut
  <2>3. rows'[id] = IF m = id THEN "delivered" ELSE rows[id]
    BY <1>i DEF Insert, TypeOK
  <2>4. m \in inserting
    BY <1>i DEF Insert
  <2> QED BY <1>0, <1>i, <2>2, <2>3, <2>4 DEF Insert, Watched, Unsettled
<1>y. ASSUME NEW m \in Ids, Retry(m) PROVE Watched(id)'
  <2>1. ToSet(netQueue) \subseteq ToSet(netQueue')
    BY <1>y, AppendedTo DEF Retry, TypeOK
  <2>2. Open(id) => Open(id)'
    BY <1>y, <2>1 DEF Retry, Open, TimedOut
  <2> QED BY <1>0, <1>y, <2>2 DEF Retry, Watched, Unsettled
<1>s. ASSUME NEW m \in Ids, Resend(m) PROVE Watched(id)'
  BY <1>0, <1>s DEF Resend, Watched, Unsettled, Open, TimedOut
<1>r. CASE RunSend
  <2> DEFINE m == Head(netQueue)
             t == [id |-> m, try |-> tries[m] + 1]
  <2>1. m \in Ids /\ \A e \in ToSet(netQueue) : e = m \/ e \in ToSet(netQueue')
    <3>1. netQueue \in Seq(Ids) /\ netQueue # <<>> /\ netQueue' = Tail(netQueue)
      BY <1>r DEF RunSend, TypeOK
    <3>2. m = netQueue[1] /\ m \in Ids
      BY <3>1
    <3>3. /\ Tail(netQueue) \in Seq(Ids) /\ Len(Tail(netQueue)) = Len(netQueue) - 1
          /\ \A k \in 1 .. Len(netQueue) - 1 : Tail(netQueue)[k] = netQueue[k + 1]
      BY <3>1
    <3>a. DOMAIN netQueue' = 1 .. Len(netQueue) - 1 /\ netQueue' = Tail(netQueue)
      BY <3>1, <3>3
    <3>4. ASSUME NEW k \in DOMAIN netQueue, k # 1
          PROVE  k - 1 \in DOMAIN netQueue' /\ netQueue'[k - 1] = netQueue[k]
      <4>1. k \in 1 .. Len(netQueue) /\ Len(netQueue) \in Nat
        BY <3>1
      <4>2. k - 1 \in 1 .. Len(netQueue) - 1 /\ (k - 1) + 1 = k
        BY ONLY <3>4, <4>1
      <4> QED BY ONLY <3>3, <3>a, <4>2
    <3>5. ASSUME NEW e \in ToSet(netQueue) PROVE e = m \/ e \in ToSet(netQueue')
      <4>1. PICK k \in DOMAIN netQueue : e = netQueue[k]
        BY DEF ToSet
      <4>2. CASE k = 1
        BY ONLY <3>2, <4>1, <4>2
      <4>3. CASE k # 1
        <5>1. k - 1 \in DOMAIN netQueue' /\ netQueue'[k - 1] = e
          BY ONLY <3>4, <4>1, <4>3, k \in DOMAIN netQueue
        <5> QED BY ONLY <5>1 DEF ToSet
      <4> QED BY <4>2, <4>3
    <3> QED BY <3>2, <3>5
  <2>2. t \in Timer
    <3>1. m \in Ids /\ tries[m] + 1 \in Nat
      BY <2>1 DEF TypeOK
    <3> HIDE DEF m
    <3> QED BY ONLY <3>1 DEF Timer
  <2>3. timers' = timers \cup {t} /\ ToSet(timerList') = ToSet(timerList) \cup {t} /\ t.id = m
    BY <1>r, <2>2, AppendedTo DEF RunSend, NewTimer, TypeOK
  <2>4. netAt' = netAt /\ rows' = rows /\ written' = written /\ excused' = excused
        /\ inserting' = inserting /\ netAt = Nil
    BY <1>r DEF RunSend
  <2> HIDE DEF m, t
  <2>5. Open(id) => Open(id)'
    BY <2>1, <2>3, <2>4 DEF Open, TimedOut
  <2> QED BY <1>0, <2>4, <2>5 DEF Watched, Unsettled
<1>f. ASSUME NEW t \in timers, TimerFires(t) PROVE Watched(id)'
  <2>1. netAt = Nil /\ netAt'.at = "search" /\ netAt'.t = t /\ timers' = timers \ {t}
    BY <1>f DEF TimerFires
  <2>2. netAt' # Nil
    <3>1. [at |-> "search", t |-> t, seen |-> timerList] \in TimerSearches
      BY DEF TimerSearches, TypeOK
    <3> QED BY <1>f, <3>1, NilAssumption DEF TimerFires
  <2>3. Open(id) => Open(id)'
    BY <1>f, <2>1, <2>2 DEF TimerFires, Open, TimedOut
  <2> QED BY <1>0, <1>f, <2>1, <2>3 DEF TimerFires, Watched, Unsettled
<1>t. CASE TimerSearch
  <2>1. netAt # Nil /\ netAt.at = "search" /\ netAt.t.id \in Ids /\ netAt.t \in Timer
    BY <1>t, TimerFields DEF TimerSearch, TypeOK
  <2>2. CASE netAt.t \in ToSet(timerList)
    <3>1. /\ SetDelivered(netAt.t.id, "failed")
          /\ excused' = excused \cup ({netAt.t.id} \cap inserting)
          /\ netAt'.at = "remove" /\ netAt'.t = netAt.t
      BY <1>t, <2>2 DEF TimerSearch
    <3>2. rows'[id] = IF netAt.t.id = id /\ rows[id] # "none" THEN "failed" ELSE rows[id]
      BY <2>1, <3>1 DEF SetDelivered, TypeOK
    <3>3. CASE id = netAt.t.id
      BY <1>t, <3>1, <3>2, <3>3 DEF TimerSearch, Watched, Unsettled
    <3>4. CASE id # netAt.t.id
      <4>1. Open(id) => Open(id)'
        BY <1>t, <3>4 DEF TimerSearch, Open, TimedOut
      <4> QED BY <1>0, <1>t, <3>1, <3>2, <3>4, <4>1 DEF TimerSearch, Watched, Unsettled
    <3> QED BY <3>3, <3>4
  <2>3. CASE netAt.t \notin ToSet(timerList)
    <3>1. netAt' = Nil /\ rows' = rows /\ excused' = excused
      BY <1>t, <2>3 DEF TimerSearch
    <3>2. Open(id) => Open(id)'
      BY <1>t, <2>3 DEF TimerSearch, Open, TimedOut
    <3> QED BY <1>0, <1>t, <3>1, <3>2 DEF TimerSearch, Watched, Unsettled
  <2> QED BY <2>2, <2>3
<1>m. CASE TimerRemove
  <2>1. netAt.i \in DOMAIN timerList /\ RemoveFound([i |-> netAt.i])
        /\ netAt' = Nil /\ netAt # Nil /\ netAt.at = "remove"
    BY <1>m DEF TimerRemove, RemoveFound
  <2>2. CASE timerList[netAt.i].id = id
    <3>1. Unsettled(id)' => netAt.t.id = id /\ Unsettled(id)
      BY <1>m, <2>2 DEF TimerRemove, Unsettled
    <3> QED BY <1>0, <1>m, <2>1, <3>1 DEF TimerRemove, Watched
  <2>3. CASE timerList[netAt.i].id # id
    <3>1. \A t \in ToSet(timerList) : t.id = id => t \in ToSet(timerList')
      BY <2>1, <2>3, RemovalKeepsOpen
    <3>2. Open(id) => Open(id)'
      BY <1>m, <2>1, <3>1 DEF TimerRemove, Open, TimedOut
    <3> QED BY <1>0, <1>m, <2>1, <3>2 DEF TimerRemove, Watched, Unsettled
  <2> QED BY <2>2, <2>3
<1>w. CASE WriteOut
  <2>1. id \in written' \/ rows'[id] = rows[id]
    BY <1>w DEF WriteOut, SetDelivered, TypeOK
  <2>2. Open(id) => Open(id)'
    BY <1>w DEF WriteOut, Open, TimedOut
  <2> QED BY <1>0, <1>w, <2>1, <2>2 DEF WriteOut, Watched, Unsettled
<1>x. CASE WriteFails
  BY <1>0, <1>x DEF WriteFails, Watched, Unsettled, Open, TimedOut
<1>a. CASE SentSearch
  <2> DEFINE found == {i \in DOMAIN timerList : timerList[i].id = sentAt.id}
             first == CHOOSE i \in found : \A j \in found : i <= j
  <2>1. timers' = IF found = {} THEN timers ELSE timers \ {timerList[first]}
    BY <1>a DEF SentSearch
  <2>2. found # {} => timerList[first].id = sentAt.id
    BY FoundEntry DEF TypeOK
  <2> HIDE DEF first, found
  <2>3. id \notin written => \A t \in timers : t.id = id => t \in timers'
    BY <1>0, <1>a, <2>1, <2>2 DEF SentSearch, Origins
  <2>4. id \notin written /\ Open(id) => Open(id)'
    BY <1>a, <2>3 DEF SentSearch, Open, TimedOut
  <2> QED BY <1>0, <1>a, <2>4 DEF SentSearch, Watched, Unsettled
<1>b. CASE SentRemove
  <2>1. sentAt.i \in DOMAIN timerList /\ RemoveFound([i |-> sentAt.i]) /\ sentAt # Nil
    BY <1>b DEF SentRemove, RemoveFound
  <2>2. CASE timerList[sentAt.i].id = id
    <3>1. ~ Unsettled(id)'
      BY <1>0, <1>b, <2>1, <2>2 DEF SentRemove, Unsettled, Origins
    <3> QED BY <3>1 DEF Watched
  <2>3. CASE timerList[sentAt.i].id # id
    <3>1. \A t \in ToSet(timerList) : t.id = id => t \in ToSet(timerList')
      BY <2>1, <2>3, RemovalKeepsOpen
    <3>2. Open(id) => Open(id)'
      BY <1>b, <3>1 DEF SentRemove, Open, TimedOut
    <3> QED BY <1>0, <1>b, <3>2 DEF SentRemove, Watched, Unsettled
  <2> QED BY <2>2, <2>3
<1>l. CASE ListRaises
  BY <1>d, <1>l DEF ListRaises, Raise
<1>c. CASE Crash
  BY <1>c, <1>d DEF Crash
<1> QED BY <1>u, <1>i, <1>y, <1>s, <1>r, <1>f, <1>t, <1>m, <1>w, <1>x, <1>a, <1>b, <1>l, <1>c
        DEF Next, NetStep, SentStep

\* A message that shows as delivered and waits for nothing was written, unless a kill,
\* a wrong index or a late row has hit it: in every interleaving, for any messages.
THEOREM DeliveredWasWritten == Spec => []DeliveredIsWritten
<1>1. Init => Followed
  <2>1. ToSet(<<>>) = {}
    BY NoElements
  <2> QED BY <2>1 DEF Init, Followed, Origins, Watched
<1>2. TypeOK /\ Followed /\ [Next]_vars => Followed'
  <2>1. Followed /\ UNCHANGED vars => Followed'
    BY DEF Followed, Origins, Watched, Unsettled, Open, TimedOut, vars, store, lists, bounds,
           history
  <2>2. TypeOK /\ Followed /\ Next => Followed'
    BY OriginsStep, WatchedStep DEF Followed
  <2> QED BY <2>1, <2>2
<1>3. TypeOK /\ Followed => DeliveredIsWritten
  BY OpenPending DEF Followed, Watched, Unsettled, DeliveredIsWritten
<1> QED BY <1>1, <1>2, <1>3, TypeCorrect, PTL DEF Spec
=============================================================================
