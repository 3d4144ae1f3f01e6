-------------------------- MODULE PresenceTheorems --------------------------
(***************************************************************************)
(* Proofs about Presence.  A resource is shown and hidden by work that is  *)
(* spread over threads and the database queue.  The proofs look at it as   *)
(* sets of resources, one for each step of each kind of work (Entering,    *)
(* Looked, ...): every action moves one resource from one set to the next  *)
(* or changes the table, and the invariants relate these sets, the table   *)
(* and what the server has sent.                                           *)
(***************************************************************************)
EXTENDS Presence, ArraysTheorems

Work == [kind : DOMAIN Issued, r : Sources, step : 1 .. 3, waits : BOOLEAN]
Statements == {"add", "lookup", "isOnline", "insert", "setOnline"} \cup Awaited
Operation == [do : Statements, r : Sources, by : Everyone \cup {Nil}]

Typed ==
    /\ row \in BOOLEAN /\ resources \in SUBSET Resources /\ online \in BOOLEAN
    /\ thread \in [Everyone -> Work \cup {Idle}]
    /\ dbQueue \in Seq(Operation)
    /\ link \in {"down", "reset", "bound"} /\ streamID \in BOOLEAN /\ session \in BOOLEAN
    /\ server \in {"none", "count", "resume"}
    /\ wire \in Seq(Element) /\ available \in SUBSET Sources /\ events \in 0 .. MaxEvents
    /\ crossed \in BOOLEAN /\ emptied \in BOOLEAN /\ left \in BOOLEAN

\* The statement a thread executes next, and the statements issued by a thread that
\* waits for them.
Call(w, t) == Do(Issued[w.kind][w.step], w.r, t)
By(t) == {o \in Operation : o.by = t}

\* The threads and the queue agree on who waits for what.
Sound(w, t, q) ==
    w # Idle =>
       /\ w.step \in DOMAIN Issued[w.kind]
       /\ w.r \in IF w.kind \in {"on", "off"} THEN Sources ELSE {Nil}
       /\ w.kind = "on" /\ w.step = 1 => w.r \in Resources
       /\ w.waits => w.kind \in {"off", "reset"} /\ Call(w, t) \in ToSet(q)
Answers(o, f) ==
    /\ o.do \in {"lookup", "insert"} => o.r \in Resources
    /\ o.do \notin Awaited => o.by = Nil
    /\ o.do \in Awaited =>
          /\ o.by \in Everyone /\ f[o.by] # Idle /\ f[o.by].waits
          /\ o = Call(f[o.by], o.by)
Synced ==
    /\ \A t \in Everyone : Sound(thread[t], t, dbQueue)
    /\ \A o \in ToSet(dbQueue) : Answers(o, thread)
    /\ \A t \in Everyone : OneOf(dbQueue, By(t))

-----------------------------------------------------------------------------
(* The work of each kind *)

LEMMA Kinds ==
    /\ DOMAIN Issued = {"roster", "on", "off", "reset"}
    /\ Issued["roster"] = <<"add">>
    /\ Issued["on"] = <<"lookup", "isOnline">>
    /\ Issued["off"] = <<"delete", "count", "setOffline">>
    /\ Issued["reset"] = <<"wipe", "reset">>
    /\ Nil \notin Resources /\ Nil \notin Everyone
    /\ Nil \notin {"roster", "on", "off", "reset"}
<1>1. DOMAIN Issued = {"roster", "on", "off", "reset"}
  BY DEF Issued
<1>2. /\ Issued["roster"] = <<"add">>
      /\ Issued["on"] = <<"lookup", "isOnline">>
      /\ Issued["off"] = <<"delete", "count", "setOffline">>
      /\ Issued["reset"] = <<"wipe", "reset">>
  BY DEF Issued
<1> QED BY <1>1, <1>2, NilAssumption

\* What a thread that has work executes next, and whether anything follows.
Stage(w, kind, step, statement, last) ==
    /\ w.kind = kind /\ w.step = step
    /\ Issued[w.kind][w.step] = statement
    /\ Len(Issued[w.kind]) = last

LEMMA Stages ==
    ASSUME NEW w \in Work, w.step \in DOMAIN Issued[w.kind]
    PROVE  \/ Stage(w, "roster", 1, "add", 1)
           \/ Stage(w, "on", 1, "lookup", 2) \/ Stage(w, "on", 2, "isOnline", 2)
           \/ Stage(w, "off", 1, "delete", 3) \/ Stage(w, "off", 2, "count", 3)
           \/ Stage(w, "off", 3, "setOffline", 3)
           \/ Stage(w, "reset", 1, "wipe", 2) \/ Stage(w, "reset", 2, "reset", 2)
<1>1. w.kind \in {"roster", "on", "off", "reset"} /\ w.step \in 1 .. 3
  BY Kinds DEF Work
<1>2. CASE w.kind = "roster"
  BY <1>1, <1>2, Kinds DEF Stage
<1>3. CASE w.kind = "on"
  BY <1>1, <1>3, Kinds DEF Stage
<1>4. CASE w.kind = "off"
  BY <1>1, <1>4, Kinds DEF Stage
<1>5. CASE w.kind = "reset"
  BY <1>1, <1>5, Kinds DEF Stage
<1> QED BY <1>1, <1>2, <1>3, <1>4, <1>5

LEMMA WorkType ==
    /\ Idle \notin Work /\ Idle.kind = Nil
    /\ \A w \in Work \cup {Idle} : w # Idle => w \in Work
    /\ \A w \in Work : w.kind # Nil
    /\ \A kind \in DOMAIN Issued, r \in Sources : Works(kind, r) \in Work
    /\ \A w \in Work : [w EXCEPT !.waits = TRUE] \in Work
    /\ \A w \in Work : w.step + 1 \in 1 .. 3 => [w EXCEPT !.step = @ + 1] \in Work
<1>1. Idle.kind = Nil /\ \A w \in Work : w.kind # Nil
  BY Kinds DEF Idle, Work
<1>2. Idle \notin Work
  BY <1>1
<1>3. \A kind \in DOMAIN Issued, r \in Sources : Works(kind, r) \in Work
  BY DEF Works, Work, Sources
<1>4. \A w \in Work : [w EXCEPT !.waits = TRUE] \in Work
  BY DEF Work
<1>5. \A w \in Work : w.step + 1 \in 1 .. 3 => [w EXCEPT !.step = @ + 1] \in Work
  BY DEF Work
<1> QED BY <1>1, <1>2, <1>3, <1>4, <1>5

LEMMA CallType ==
    ASSUME NEW w \in Work, w.step \in DOMAIN Issued[w.kind], NEW t \in Everyone
    PROVE  /\ Call(w, t) \in Operation /\ Call(w, t).by = t
           /\ Call(w, t).do = Issued[w.kind][w.step] /\ Call(w, t).r = w.r
           /\ Do(Issued[w.kind][w.step], w.r, Nil) \in Operation
<1>1. Issued[w.kind][w.step] \in Statements
  BY Stages DEF Stage, Statements, Awaited
<1>2. w.r \in Sources
  BY DEF Work
<1> QED BY <1>1, <1>2 DEF Call, Do, Operation


-----------------------------------------------------------------------------
(* The queue: at most one statement is queued for each thread that waits *)

Single(q) == \A t \in Everyone : OneOf(q, By(t))
Unasked(q, t) == \A o \in ToSet(q) : o.by # t

LEMMA Fed ==
    ASSUME NEW q \in Seq(Operation), NEW e \in Operation,
           Single(q), e.by \in Everyone => Unasked(q, e.by)
    PROVE  /\ Append(q, e) \in Seq(Operation) /\ Single(Append(q, e))
           /\ ToSet(Append(q, e)) = ToSet(q) \cup {e}
<1>1. Append(q, e) \in Seq(Operation) /\ ToSet(Append(q, e)) = ToSet(q) \cup {e}
  BY AppendedTo
<1>2. ASSUME NEW t \in Everyone PROVE OneOf(Append(q, e), By(t))
  <2>1. CASE e.by = t
    <3>1. NoneOf(q, By(t))
      BY <2>1 DEF Unasked, NoneOf, By, ToSet
    <3> QED BY <3>1, FewAppended
  <2>2. CASE e.by # t
    <3>1. OneOf(q, By(t)) /\ e \notin By(t)
      BY <2>2 DEF Single, By
    <3> QED BY <3>1, FewAppended
  <2> QED BY <2>1, <2>2
<1> QED BY <1>1, <1>2 DEF Single

LEMMA Served ==
    ASSUME NEW q \in Seq(Operation), q # <<>>, Single(q)
    PROVE  /\ Tail(q) \in Seq(Operation) /\ Head(q) \in Operation /\ Single(Tail(q))
           /\ ToSet(q) = {Head(q)} \cup ToSet(Tail(q))
           /\ Head(q).by \in Everyone => Unasked(Tail(q), Head(q).by)
<1>1. /\ Tail(q) \in Seq(Operation) /\ Head(q) \in Operation
      /\ ToSet(q) = {Head(q)} \cup ToSet(Tail(q))
  BY TailOf, HeadAndTail
<1>2. Single(Tail(q))
  BY FewerInTail DEF Single
<1>3. ASSUME Head(q).by \in Everyone PROVE Unasked(Tail(q), Head(q).by)
  <2>1. OneOf(q, By(Head(q).by)) /\ Head(q) \in By(Head(q).by)
    BY <1>1, <1>3 DEF Single, By
  <2>2. NoneOf(Tail(q), By(Head(q).by))
    BY <2>1, FewerInTail
  <2>3. ASSUME NEW o \in ToSet(Tail(q)) PROVE o.by # Head(q).by
    <3>1. o \in Operation /\ o \notin By(Head(q).by)
      BY <1>1, <2>2 DEF NoneOf, ToSet
    <3> QED BY <3>1 DEF By
  <2> QED BY <2>3 DEF Unasked
<1> QED BY <1>1, <1>2, <1>3

-----------------------------------------------------------------------------
(* Threads and queue stay in step *)

Coupled ==
    /\ thread \in [Everyone -> Work \cup {Idle}] /\ dbQueue \in Seq(Operation)
    /\ Synced

\* A thread that has no work gets some.
LEMMA StartCoupled ==
    ASSUME Coupled, NEW t \in Everyone, NEW kind \in DOMAIN Issued,
           NEW r \in IF kind \in {"on", "off"} THEN Sources ELSE {Nil},
           thread[t] = Idle, thread' = [thread EXCEPT ![t] = Works(kind, r)],
           UNCHANGED dbQueue
    PROVE  Coupled'
<1>1. Works(kind, r) \in Work
  BY WorkType DEF Sources
<1>2. /\ thread' \in [Everyone -> Work \cup {Idle}] /\ thread'[t] = Works(kind, r)
      /\ \A u \in Everyone : u # t => thread'[u] = thread[u]
  BY <1>1 DEF Coupled
<1>3. Sound(thread'[t], t, dbQueue)
  BY <1>2, Kinds DEF Sound, Works, Sources
<1>4. \A o \in ToSet(dbQueue) : Answers(o, thread) => Answers(o, thread')
  BY <1>2 DEF Answers
<1> QED BY <1>2, <1>3, <1>4 DEF Coupled, Synced

\* What a thread that does not wait issues.
LEMMA IssueCoupled ==
    ASSUME Coupled, NEW t \in Everyone, Issue(t)
    PROVE  Coupled'
<1> DEFINE w == thread[t]
           statement == Issued[w.kind][w.step]
           e == Do(statement, w.r, IF statement \in Awaited THEN t ELSE Nil)
<1>1. /\ w \in Work /\ w.step \in DOMAIN Issued[w.kind] /\ ~w.waits /\ w # Idle
      /\ w.r \in IF w.kind \in {"on", "off"} THEN Sources ELSE {Nil}
      /\ w.kind = "on" /\ w.step = 1 => w.r \in Resources
  BY WorkType DEF Issue, Coupled, Synced, Sound
<1>2. Single(dbQueue) /\ Unasked(dbQueue, t)
  <2>1. ASSUME NEW o \in ToSet(dbQueue), o.by = t PROVE FALSE
    BY <1>1, <2>1, Kinds DEF Coupled, Synced, Answers
  <2> QED BY <2>1 DEF Coupled, Synced, Single, Unasked
<1>3. dbQueue' = Append(dbQueue, e)
  BY DEF Issue
<1>4. e \in Operation
  BY <1>1, CallType DEF Call
<1>5. e.by \in {t, Nil} /\ e.do = statement /\ e.r = w.r
  BY DEF Do
<1>6. /\ dbQueue' \in Seq(Operation) /\ Single(dbQueue')
      /\ ToSet(dbQueue') = ToSet(dbQueue) \cup {e}
  <2>1. e.by \in Everyone => Unasked(dbQueue, e.by)
    BY <1>2, <1>5, Kinds
  <2> HIDE DEF e
  <2> QED BY <1>2, <1>3, <1>4, <2>1, Fed DEF Coupled
<1>7. ASSUME NEW v \in Work \cup {Idle}, thread' = [thread EXCEPT ![t] = v],
             Sound(v, t, dbQueue'), Answers(e, thread')
      PROVE  Coupled'
  <2>1. /\ thread' \in [Everyone -> Work \cup {Idle}] /\ thread'[t] = v
        /\ \A u \in Everyone : u # t => thread'[u] = thread[u]
    BY <1>7 DEF Coupled
  <2>2. \A o \in ToSet(dbQueue) : Answers(o, thread')
    BY <1>2, <2>1 DEF Answers, Unasked, Coupled, Synced
  <2>3. \A u \in Everyone : Sound(thread'[u], u, dbQueue')
    BY <1>6, <1>7, <2>1 DEF Coupled, Synced, Sound
  <2> QED BY <1>6, <1>7, <2>1, <2>2, <2>3 DEF Coupled, Synced, Single
<1>8. CASE statement \in Awaited
  <2> DEFINE v == [w EXCEPT !.waits = TRUE]
  <2>1. thread' = [thread EXCEPT ![t] = v] /\ v \in Work /\ e = Call(w, t)
    BY <1>1, <1>8, WorkType DEF Issue, Call
  <2>2. v.kind = w.kind /\ v.step = w.step /\ v.r = w.r /\ v.waits
    BY <1>1 DEF Work
  <2>3. e = Call(v, t) /\ w.kind \in {"off", "reset"}
    <3>1. w.kind \in {"off", "reset"}
      BY <1>1, <1>8, Stages DEF Stage, Awaited
    <3> QED BY <2>1, <2>2, <3>1 DEF Call
  <2>4. thread'[t] = v /\ v # Idle
    BY <2>1, WorkType DEF Coupled
  <2>5. Sound(v, t, dbQueue')
    BY <1>1, <1>6, <2>2, <2>3 DEF Sound
  <2>6. e.by = t /\ statement \notin {"lookup", "insert"}
    BY <1>1, <1>8 DEF Do, Awaited
  <2>7. Answers(e, thread')
    BY <1>5, <1>8, <2>2, <2>3, <2>4, <2>6 DEF Answers
  <2> QED BY <1>7, <2>1, <2>5, <2>7
<1>9. CASE statement \notin Awaited
  <2> DEFINE v == IF w.step = Len(Issued[w.kind]) THEN Idle ELSE [w EXCEPT !.step = @ + 1]
  <2>1. thread' = [thread EXCEPT ![t] = v]
    BY <1>9 DEF Issue
  <2>2. e.by = Nil /\ Answers(e, thread')
    <3>1. e.by = Nil
      BY <1>9 DEF Do
    <3>2. statement \in {"lookup", "insert"} => e.r \in Resources
      BY <1>1, <1>5, Stages DEF Stage
    <3> QED BY <1>5, <1>9, <3>1, <3>2 DEF Answers
  <2>3. CASE v = Idle
    BY <1>7, <2>1, <2>2, <2>3 DEF Sound
  <2>4. CASE v # Idle
    <3>1. w.kind = "on" /\ w.step = 1 /\ v = [w EXCEPT !.step = @ + 1]
      BY <1>1, <1>9, <2>4, Stages DEF Stage, Awaited
    <3>2. v \in Work /\ v.kind = "on" /\ v.step = 2 /\ v.r = w.r /\ ~v.waits
      BY <1>1, <3>1 DEF Work
    <3>3. Sound(v, t, dbQueue')
      BY <1>1, <3>1, <3>2, Kinds DEF Sound
    <3> QED BY <1>7, <2>1, <2>2, <3>2, <3>3
  <2> QED BY <2>3, <2>4
<1> QED BY <1>8, <1>9


\* A statement that nobody waits for leaves the queue, and may queue another.
LEMMA AsyncCoupled ==
    ASSUME Coupled, dbQueue # <<>>, Head(dbQueue).do \notin Awaited, UNCHANGED thread,
           \/ dbQueue' = Tail(dbQueue)
           \/ \E do \in OfOnline :
                 /\ dbQueue' = Append(Tail(dbQueue), [Head(dbQueue) EXCEPT !.do = do])
                 /\ Head(dbQueue).do \in OfOnline
                 /\ do # "setOnline" => Head(dbQueue).do = "lookup"
    PROVE  Coupled'
<1> DEFINE h == Head(dbQueue)
           q == Tail(dbQueue)
<1>1. /\ q \in Seq(Operation) /\ h \in Operation /\ Single(q) /\ ToSet(dbQueue) = {h} \cup ToSet(q)
  BY Served DEF Coupled, Synced, Single
<1>2. Answers(h, thread) /\ \A o \in ToSet(q) : Answers(o, thread)
  BY <1>1 DEF Coupled, Synced
<1>3. \A t \in Everyone : thread[t] # Idle /\ thread[t].waits => Call(thread[t], t) \in ToSet(q)
  <2>1. ASSUME NEW t \in Everyone, thread[t] # Idle, thread[t].waits
        PROVE  Call(thread[t], t) # h
    <3>1. /\ thread[t] \in Work /\ thread[t].step \in DOMAIN Issued[thread[t].kind]
          /\ thread[t].kind \in {"off", "reset"}
      BY <2>1, WorkType DEF Coupled, Synced, Sound
    <3>2. Issued[thread[t].kind][thread[t].step] \in Awaited
      BY <3>1, Stages DEF Stage, Awaited
    <3> QED BY <3>2 DEF Call, Do
  <2> QED BY <1>1, <2>1 DEF Coupled, Synced, Sound
<1>4. CASE dbQueue' = q
  BY <1>1, <1>2, <1>3, <1>4 DEF Coupled, Synced, Sound, Single
<1>5. ASSUME NEW do \in OfOnline, h.do \in OfOnline, do # "setOnline" => h.do = "lookup",
             dbQueue' = Append(q, [h EXCEPT !.do = do])
      PROVE  Coupled'
  <2> DEFINE e == [h EXCEPT !.do = do]
  <2>1. /\ e \in Operation /\ e.by = h.by /\ e.do = do /\ e.r = h.r
    BY <1>1, <1>5 DEF Operation, Statements, OfOnline
  <2>2. e.by = Nil /\ Answers(e, thread)
    BY <1>2, <1>5, <2>1 DEF Answers, OfOnline, Awaited
  <2> HIDE DEF e, q
  <2>3. /\ dbQueue' \in Seq(Operation) /\ Single(dbQueue')
        /\ ToSet(dbQueue') = ToSet(q) \cup {e}
    BY <1>1, <1>5, <2>1, <2>2, Fed, Kinds DEF e
  <2> QED BY <1>2, <1>3, <2>2, <2>3 DEF Coupled, Synced, Sound, Single
<1> QED BY <1>4, <1>5

\* The thread that waited for the head of the queue.
Caller == Head(dbQueue).by

LEMMA CallerWaits ==
    ASSUME Coupled, dbQueue # <<>>, Head(dbQueue).do \in Awaited
    PROVE  /\ Caller \in Everyone /\ thread[Caller] \in Work /\ thread[Caller] # Idle
           /\ thread[Caller].step \in DOMAIN Issued[thread[Caller].kind]
           /\ thread[Caller].kind \in {"off", "reset"} /\ thread[Caller].waits
           /\ thread[Caller].r \in IF thread[Caller].kind = "off" THEN Sources ELSE {Nil}
           /\ Head(dbQueue) = Call(thread[Caller], Caller)
           /\ Head(dbQueue).do = Issued[thread[Caller].kind][thread[Caller].step]
           /\ Head(dbQueue).r = thread[Caller].r
<1>1. Head(dbQueue) \in ToSet(dbQueue)
  BY TailOf DEF Coupled
<1>2. Answers(Head(dbQueue), thread)
  BY <1>1 DEF Coupled, Synced
<1>3. /\ Caller \in Everyone /\ thread[Caller] # Idle /\ thread[Caller].waits
      /\ Head(dbQueue) = Call(thread[Caller], Caller)
  BY <1>2 DEF Answers, Caller
<1>4. /\ thread[Caller] \in Work /\ thread[Caller].step \in DOMAIN Issued[thread[Caller].kind]
      /\ thread[Caller].r \in IF thread[Caller].kind \in {"on", "off"} THEN Sources ELSE {Nil}
      /\ thread[Caller].kind \in {"off", "reset"}
  BY <1>3, WorkType DEF Coupled, Synced, Sound
<1>5. /\ Head(dbQueue).do = Issued[thread[Caller].kind][thread[Caller].step]
      /\ Head(dbQueue).r = thread[Caller].r
  BY <1>3, <1>4, CallType
<1> QED BY <1>3, <1>4, <1>5

\* A statement returns to the thread that waits.
LEMMA ReturnCoupled ==
    ASSUME Coupled, dbQueue # <<>>, Head(dbQueue).do \in Awaited, NEW goesOn \in BOOLEAN,
           Returns(goesOn), goesOn => Head(dbQueue).do \in {"delete", "count", "wipe"}
    PROVE  Coupled'
<1> DEFINE t == Caller
           w == thread[t]
           q == Tail(dbQueue)
<1>1. /\ t \in Everyone /\ w \in Work /\ w # Idle
      /\ w.step \in DOMAIN Issued[w.kind] /\ w.kind \in {"off", "reset"} /\ w.waits
      /\ w.r \in IF w.kind = "off" THEN Sources ELSE {Nil}
      /\ Head(dbQueue).do = Issued[w.kind][w.step]
  BY CallerWaits
<1>2. /\ q \in Seq(Operation) /\ Single(q) /\ Unasked(q, t)
      /\ ToSet(dbQueue) = {Head(dbQueue)} \cup ToSet(q)
  BY <1>1, Served DEF Coupled, Synced, Single, Caller
<1>3. \A o \in ToSet(q) : Answers(o, thread) /\ o.by # t
  BY <1>2 DEF Coupled, Synced, Unasked
<1>4. \A u \in Everyone : u # t /\ thread[u] # Idle /\ thread[u].waits => Call(thread[u], u) \in ToSet(q)
  <2>1. \A u \in Everyone : Call(thread[u], u).by = u /\ Head(dbQueue).by = t
    BY DEF Call, Do, Caller
  <2> QED BY <1>2, <2>1 DEF Coupled, Synced, Sound
<1>5. CASE ~goesOn
  <2>1. thread' = [thread EXCEPT ![t] = Idle] /\ dbQueue' = q
    BY <1>5 DEF Returns, Caller
  <2>2. /\ thread' \in [Everyone -> Work \cup {Idle}] /\ thread'[t] = Idle
        /\ \A u \in Everyone : u # t => thread'[u] = thread[u]
    BY <1>1, <2>1 DEF Coupled
  <2>3. \A o \in ToSet(q) : Answers(o, thread')
    BY <1>3, <2>2 DEF Answers
  <2>4. \A u \in Everyone : Sound(thread'[u], u, q)
    BY <1>4, <2>2 DEF Coupled, Synced, Sound
  <2> QED BY <1>2, <2>1, <2>2, <2>3, <2>4 DEF Coupled, Synced, Single
<1>6. CASE goesOn
  <2> DEFINE v == [w EXCEPT !.step = @ + 1]
             e == Do(Issued[w.kind][w.step + 1], w.r, t)
  <2>1. thread' = [thread EXCEPT ![t].step = @ + 1] /\ dbQueue' = Append(q, e)
    BY <1>6 DEF Returns, Caller
  <2>2. w.step + 1 \in DOMAIN Issued[w.kind] /\ w.step + 1 \in 1 .. 3
    BY <1>1, <1>6, Stages, Kinds DEF Stage
  <2>3. /\ v \in Work /\ v.kind = w.kind /\ v.step = w.step + 1 /\ v.r = w.r /\ v.waits
    BY <1>1, <2>2, WorkType DEF Work
  <2>4. /\ thread' = [thread EXCEPT ![t] = v]
        /\ thread' \in [Everyone -> Work \cup {Idle}] /\ thread'[t] = v
        /\ \A u \in Everyone : u # t => thread'[u] = thread[u]
    BY <1>1, <2>1, <2>3 DEF Coupled
  <2> HIDE DEF v
  <2>a. v.step \in DOMAIN Issued[v.kind] /\ v.kind \in {"off", "reset"} /\ v # Idle
    BY <1>1, <2>2, <2>3, WorkType
  <2>b. e = Call(v, t)
    BY <2>3 DEF Call
  <2>5. e \in Operation /\ e.by = t /\ e.do = Issued[v.kind][v.step] /\ e.r = v.r
    BY <1>1, <2>3, <2>a, <2>b, CallType
  <2>c. Issued[v.kind][v.step] \in Awaited
    BY <2>3, <2>a, Stages DEF Stage, Awaited
  <2>6. e.do \in Awaited /\ v # Idle
    BY <2>5, <2>a, <2>c
  <2>7. Answers(e, thread')
    BY <1>1, <2>3, <2>4, <2>5, <2>6, <2>b DEF Answers, Awaited, OfOnline
  <2> HIDE DEF e, q
  <2>8. /\ dbQueue' \in Seq(Operation) /\ Single(dbQueue')
        /\ ToSet(dbQueue') = ToSet(q) \cup {e}
    BY <1>2, <2>1, <2>5, Fed
  <2>9. \A o \in ToSet(q) : Answers(o, thread')
    BY <1>3, <2>4 DEF Answers
  <2>10. Sound(v, t, dbQueue')
    BY <1>1, <2>2, <2>3, <2>5, <2>8, <2>b DEF Sound
  <2>11. \A u \in Everyone : Sound(thread'[u], u, dbQueue')
    BY <1>4, <2>4, <2>8, <2>10 DEF Coupled, Synced, Sound
  <2> QED BY <2>4, <2>7, <2>8, <2>9, <2>11 DEF Coupled, Synced, Single
<1> QED BY <1>5, <1>6


LEMMA StatementCoupled ==
    ASSUME Coupled, Statement, row \in BOOLEAN
    PROVE  Coupled'
<1>1. CASE AddContact \/ InsertResource \/ SetOnline
  <2>1. dbQueue # <<>> /\ Head(dbQueue).do \notin Awaited /\ UNCHANGED thread /\ dbQueue' = Tail(dbQueue)
    BY <1>1 DEF AddContact, InsertResource, SetOnline, Executes, Awaited
  <2> QED BY <2>1, AsyncCoupled
<1>2. CASE LookUp
  <2>1. dbQueue # <<>> /\ Head(dbQueue).do = "lookup" /\ "lookup" \in OfOnline \ Awaited
        /\ UNCHANGED thread
    BY <1>2 DEF LookUp, Executes, Awaited, OfOnline
  <2>2. \/ dbQueue' = Tail(dbQueue)
        \/ dbQueue' = Append(Tail(dbQueue), [Head(dbQueue) EXCEPT !.do = "insert"])
    BY <1>2 DEF LookUp
  <2> QED BY <2>1, <2>2, AsyncCoupled DEF OfOnline
<1>3. CASE IsOnline
  <2>1. dbQueue # <<>> /\ Head(dbQueue).do \in OfOnline \ Awaited /\ UNCHANGED thread
    BY <1>3 DEF IsOnline, Executes, Awaited, OfOnline
  <2>2. \/ dbQueue' = Tail(dbQueue)
        \/ dbQueue' = Append(Tail(dbQueue), [Head(dbQueue) EXCEPT !.do = "setOnline"])
    BY <1>3 DEF IsOnline
  <2> QED BY <2>1, <2>2, AsyncCoupled DEF OfOnline
<1>4. CASE DeleteResource \/ CountResources \/ SetOffline \/ WipeResources \/ ResetContacts
  <2>1. dbQueue # <<>> /\ Head(dbQueue).do \in Awaited
    BY <1>4 DEF DeleteResource, CountResources, SetOffline, WipeResources, ResetContacts,
                Executes, Awaited
  <2>2. \/ Returns(FALSE)
        \/ \E goesOn \in BOOLEAN : Returns(goesOn) /\ Head(dbQueue).do \in {"delete", "count", "wipe"}
    BY <1>4 DEF DeleteResource, CountResources, SetOffline, WipeResources, ResetContacts, Executes
  <2> QED BY <2>1, <2>2, ReturnCoupled
<1> QED BY <1>1, <1>2, <1>3, <1>4 DEF Statement

LEMMA ElementType ==
    ASSUME NEW e \in Element
    PROVE  /\ e.kind \in DOMAIN Issued \ {"reset"}
           /\ e.kind # "roster" => e.kind \in {"on", "off"} /\ e.r \in Sources
BY Kinds DEF Element

\* The work a thread begins with an element or a reset.
Begins(t, kind, r) ==
    /\ Starts(t, kind, r) /\ UNCHANGED dbQueue
    /\ t \in Everyone /\ kind \in DOMAIN Issued
    /\ r \in IF kind \in {"on", "off"} THEN Sources ELSE {Nil}

TakenResource == IF Head(wire).kind = "roster" THEN Nil ELSE Head(wire).r

LEMMA TakeBegins ==
    ASSUME Typed, NEW t \in Threads, Take(t)
    PROVE  Head(wire) \in Element /\ Begins(t, Head(wire).kind, TakenResource)
<1>1. Head(wire) \in Element
  BY DEF Typed, Take
<1>2. TakenResource \in IF Head(wire).kind \in {"on", "off"} THEN Sources ELSE {Nil}
  BY <1>1, ElementType DEF TakenResource
<1>3. Head(wire).kind \in DOMAIN Issued
  BY <1>1, ElementType
<1> QED BY <1>1, <1>2, <1>3 DEF Take, Begins, TakenResource, Everyone

LEMMA ResetBegins ==
    ASSUME NEW t \in Everyone, Starts(t, "reset", Nil), UNCHANGED dbQueue
    PROVE  Begins(t, "reset", Nil)
BY Kinds DEF Begins

LEMMA CoupledKept ==
    ASSUME Typed, Synced, Next
    PROVE  Coupled'
<1>0. Coupled
  BY DEF Typed, Coupled
<1>1. CASE UNCHANGED <<thread, dbQueue>>
  BY <1>0, <1>1 DEF Coupled, Synced
<1>2. ASSUME NEW t, NEW kind, NEW r, Begins(t, kind, r) PROVE Coupled'
  BY <1>0, <1>2, StartCoupled DEF Begins, Starts
<1>3. ASSUME NEW t \in Threads, Take(t) PROVE Coupled'
  BY <1>2, <1>3, TakeBegins
<1>4. ASSUME NEW t \in Threads, Connect(t) PROVE Coupled'
  <2>1. UNCHANGED dbQueue /\ (UNCHANGED thread \/ Starts(t, "reset", Nil)) /\ t \in Everyone
    BY <1>4 DEF Connect, Everyone
  <2> QED BY <1>1, <1>2, <2>1, ResetBegins
<1>5. ASSUME NEW t \in Everyone, Issue(t) PROVE Coupled'
  BY <1>0, <1>5, IssueCoupled
<1>6. CASE Statement
  BY <1>0, <1>6, StatementCoupled DEF Typed
<1>7. CASE Bind
  BY <1>1, <1>7 DEF Bind, local
<1>8. CASE Teardown
  <2>1. UNCHANGED dbQueue /\ Starts(Cleanup, "reset", Nil) /\ Cleanup \in Everyone
    BY <1>8 DEF Teardown, StreamGone, Everyone
  <2> QED BY <1>2, <2>1, ResetBegins
<1>9. CASE Suspend
  BY <1>1, <1>9 DEF Suspend, StreamGone
<1>10. CASE Crash
  <2>1. thread' = [t \in Everyone |-> Idle] /\ dbQueue' = <<>>
    BY <1>10 DEF Crash
  <2>2. /\ thread' \in [Everyone -> Work \cup {Idle}] /\ dbQueue' \in Seq(Operation)
        /\ ToSet(dbQueue') = {} /\ \A t \in Everyone : thread'[t] = Idle
    BY <2>1, NoElements
  <2>3. \A t \in Everyone : OneOf(dbQueue', By(t))
    BY <2>1, FewOfFew
  <2> QED BY <2>2, <2>3 DEF Coupled, Synced, Sound
<1>11. CASE Expire
  BY <1>1, <1>11 DEF Expire, local
<1>12. ASSUME NEW kind, NEW r, Change(kind, r) PROVE Coupled'
  BY <1>1, <1>12 DEF Change, local
<1> QED BY <1>3, <1>4, <1>5, <1>6, <1>7, <1>8, <1>9, <1>10, <1>11, <1>12 DEF Next


-----------------------------------------------------------------------------
(* Types *)

\* What a new session begins with.
LEMMA Announced ==
    ASSUME available \in SUBSET Sources, NEW both \in BOOLEAN, NEW order \in Announcements
    PROVE  LET w == (IF both THEN <<[kind |-> "roster"]>> ELSE <<>>) \o order IN
           /\ w \in Seq(Element)
           /\ \A k \in DOMAIN w :
                 \/ k = 1 /\ w[k].kind = "roster"
                 \/ w[k].kind = "on" /\ w[k].r \in available
           /\ \A r \in available : \E e \in ToSet(w) : e.kind = "on" /\ e.r = r
<1> DEFINE first == IF both THEN <<[kind |-> "roster"]>> ELSE <<>>
           m == Len(first)
           n == Cardinality(available)
           w == first \o order
<1>1. n \in Nat
  <2>1. IsFiniteSet(Sources)
    BY ResourcesAssumption, FS_AddElement DEF Sources
  <2> QED BY <2>1, FS_Subset, FS_CardinalityType
<1>2. /\ order \in [1 .. n -> [kind : {"on"}, r : available]]
      /\ \A r \in available : \E k \in DOMAIN order : order[k].r = r
  BY DEF Announcements
<1>3. [kind : {"on"}, r : available] \subseteq Element /\ [kind |-> "roster"] \in Element
  BY DEF Element
<1>4. \A k \in 1 .. n : order[k] \in Element /\ order[k].kind = "on" /\ order[k].r \in available
  BY <1>2, <1>3
<1>5. order \in Seq(Element) /\ Len(order) = n /\ DOMAIN order = 1 .. n
  <2>1. order \in [1 .. n -> Element]
    BY <1>2, <1>3
  <2> QED BY <1>1, <2>1
<1>6. /\ first \in Seq(Element) /\ m \in {0, 1}
      /\ \A i \in 1 .. m : i = 1 /\ first[i].kind = "roster"
  BY <1>3
<1> HIDE DEF first, n
<1>7. /\ w \in Seq(Element) /\ Len(w) = m + n
      /\ \A i \in 1 .. m + n : w[i] = IF i <= m THEN first[i] ELSE order[i - m]
  <2>1. /\ first \o order \in Seq(Element) /\ Len(first \o order) = Len(first) + Len(order)
        /\ \A i \in 1 .. Len(first) + Len(order) :
              (first \o order)[i] = IF i <= Len(first) THEN first[i] ELSE order[i - Len(first)]
    <3>1. first \in Seq(Element) /\ order \in Seq(Element)
      BY <1>5, <1>6
    <3> QED BY ONLY <3>1, ConcatProperties
  <2> QED BY <1>5, <2>1
<1>a. m \in Nat
  BY <1>6
<1> HIDE DEF w, m
<1>8. \A i \in 1 .. m + n : (i \in 1 .. m /\ i <= m) \/ (i - m \in 1 .. n /\ ~(i <= m))
  BY <1>1, <1>a
<1>9. \A i \in 1 .. n : i + m \in 1 .. m + n /\ (i + m) - m = i /\ ~(i + m <= m)
  BY ONLY <1>1, <1>a
<1>10. DOMAIN w = 1 .. m + n
  BY <1>1, <1>6, <1>7
<1>11. \A i \in DOMAIN w :
          \/ i = 1 /\ w[i].kind = "roster"
          \/ w[i].kind = "on" /\ w[i].r \in available
  <2>1. ASSUME NEW i \in 1 .. m + n
        PROVE  \/ i = 1 /\ w[i].kind = "roster"
               \/ w[i].kind = "on" /\ w[i].r \in available
    <3>1. w[i] = IF i <= m THEN first[i] ELSE order[i - m]
      BY <1>7
    <3>2. CASE i \in 1 .. m /\ i <= m
      BY <1>6, <3>1, <3>2
    <3>3. CASE i - m \in 1 .. n /\ ~(i <= m)
      <4>1. w[i] = order[i - m]
        BY <3>1, <3>3
      <4> QED BY <1>4, <3>3, <4>1
    <3> QED BY <1>8, <3>2, <3>3
  <2> QED BY <1>10, <2>1
<1>12. ASSUME NEW r \in available PROVE \E e \in ToSet(w) : e.kind = "on" /\ e.r = r
  <2>1. PICK k \in 1 .. n : order[k].r = r
    BY <1>2, <1>5
  <2>2. w[k + m] = order[k] /\ k + m \in DOMAIN w
    BY <1>7, <1>9, <1>10
  <2> QED BY <1>4, <2>1, <2>2 DEF ToSet
<1> QED BY <1>7, <1>11, <1>12 DEF w, first

LEMMA NewSessionType ==
    ASSUME Typed, NewSession, UNCHANGED available
    PROVE  /\ link' = "bound" /\ wire' \in Seq(Element) /\ session' = TRUE
           /\ streamID' \in BOOLEAN /\ emptied' \in BOOLEAN /\ crossed' \in BOOLEAN /\ left' \in BOOLEAN
<1>1. wire' \in Seq(Element)
  BY Announced DEF NewSession, Typed
<1> QED BY <1>1 DEF NewSession, Typed

\* The table is all that changes besides threads and queue.
LEMMA StatementTable ==
    ASSUME Typed, Synced, Statement
    PROVE  row' \in BOOLEAN /\ resources' \in SUBSET Resources /\ online' \in BOOLEAN
<1>1. CASE InsertResource
  <2>1. Head(dbQueue) \in ToSet(dbQueue) /\ Head(dbQueue).do \in OfOnline
    BY <1>1, TailOf DEF InsertResource, Executes, Typed, OfOnline
  <2>2. Head(dbQueue).r \in Resources
    BY <1>1, <2>1 DEF Synced, Answers, InsertResource, Executes
  <2> QED BY <1>1, <2>2 DEF InsertResource, Typed
<1>2. CASE ~InsertResource
  BY <1>2 DEF Statement, AddContact, LookUp, IsOnline, SetOnline, DeleteResource, CountResources,
              SetOffline, WipeResources, ResetContacts, Typed, table
<1> QED BY <1>1, <1>2

LEMMA StreamGoneType ==
    ASSUME Typed, events < MaxEvents, events' = events + 1,
           wire' = IF session' THEN wire ELSE <<>>, session' = (session /\ streamID)
    PROVE  events' \in 0 .. MaxEvents /\ wire' \in Seq(Element) /\ session' \in BOOLEAN
<1>1. events' \in 0 .. MaxEvents
  BY BoundAssumption DEF Typed
<1> QED BY <1>1, NoElements DEF Typed

LEMMA TypedKept ==
    ASSUME Typed, Synced, Next
    PROVE  Typed'
<1>0. thread' \in [Everyone -> Work \cup {Idle}] /\ dbQueue' \in Seq(Operation)
  BY CoupledKept DEF Coupled
<1>1. ASSUME NEW t, NEW kind, NEW r, Starts(t, kind, r) PROVE crossed' \in BOOLEAN
  BY <1>1 DEF Starts, Typed
<1>2. ASSUME NEW t \in Threads, Take(t) PROVE Typed'
  <2>1. wire' \in Seq(Element)
    BY <1>2, TailOf DEF Take, Typed
  <2> QED BY <1>0, <1>1, <1>2, <2>1 DEF Take, Typed, table
<1>3. ASSUME NEW t \in Threads, Connect(t) PROVE Typed'
  <2>1. CASE NewSession
    BY <1>0, <1>3, <2>1, NewSessionType DEF Connect, Typed, table
  <2>2. CASE ~NewSession
    BY <1>0, <1>1, <1>3, <2>2 DEF Connect, Typed, table
  <2> QED BY <2>1, <2>2
<1>4. ASSUME NEW t \in Everyone, Issue(t) PROVE Typed'
  BY <1>0, <1>4 DEF Issue, Typed, table, net, history
<1>5. CASE Statement
  <2>1. row' \in BOOLEAN /\ resources' \in SUBSET Resources /\ online' \in BOOLEAN
    BY <1>5, StatementTable
  <2>2. UNCHANGED <<net, available, events, history>>
    BY <1>5 DEF Statement
  <2> QED BY <1>0, <2>1, <2>2 DEF Typed, net, history
<1>6. CASE Bind
  BY <1>0, <1>6, NewSessionType DEF Bind, Typed, table
<1>7. CASE Teardown \/ Suspend
  <2>1. StreamGone /\ crossed' \in BOOLEAN /\ emptied' \in BOOLEAN /\ left' \in BOOLEAN
    BY <1>1, <1>7 DEF Teardown, Suspend, Typed
  <2>2. events' \in 0 .. MaxEvents /\ wire' \in Seq(Element) /\ session' \in BOOLEAN
    BY <2>1, StreamGoneType DEF StreamGone
  <2> QED BY <1>0, <2>1, <2>2 DEF StreamGone, Typed, table
<1>8. CASE Crash
  <2>1. events' \in 0 .. MaxEvents /\ wire' \in Seq(Element) /\ session' \in BOOLEAN
    BY <1>8, StreamGoneType DEF Crash
  <2>2. crossed' \in BOOLEAN /\ left' \in BOOLEAN
    BY <1>8 DEF Crash, Typed
  <2> QED BY <1>0, <1>8, <2>1, <2>2 DEF Crash, Typed, table
<1>9. CASE Expire
  BY <1>0, <1>9, NoElements DEF Expire, Typed, table, history
<1>10. ASSUME NEW kind \in {"on", "off"}, NEW r \in Sources, Change(kind, r) PROVE Typed'
  <2>1. [kind |-> kind, r |-> r] \in Element
    BY DEF Element
  <2>2. wire' \in Seq(Element)
    BY <1>10, <2>1, AppendedTo DEF Change, Typed
  <2>3. events' \in 0 .. MaxEvents /\ available' \in SUBSET Sources
    BY <1>10, BoundAssumption DEF Change, Typed
  <2> QED BY <1>0, <1>10, <2>2, <2>3 DEF Change, Typed, table, history
<1> QED BY <1>2, <1>3, <1>4, <1>5, <1>6, <1>7, <1>8, <1>9, <1>10 DEF Next


-----------------------------------------------------------------------------
(* Work as sets of resources: those at a step of a thread's work, and those *)
(* of the statements that are queued                                        *)

At(f, kind, step) == {f[t].r : t \in {u \in Everyone : f[u].kind = kind /\ f[u].step = step}}
Under(q, do) == {o.r : o \in {p \in ToSet(q) : p.do = do}}

Enrolling == At(thread, "roster", 1)
Entering == At(thread, "on", 1)
Noting == At(thread, "on", 2)
Deleting == At(thread, "off", 1)
Counting == At(thread, "off", 2)
Clearing == At(thread, "off", 3)
Wiping == At(thread, "reset", 1)
Resetting == At(thread, "reset", 2)

Adds == Under(dbQueue, "add")
LookUps == Under(dbQueue, "lookup")
Inserts == Under(dbQueue, "insert")
Asks == Under(dbQueue, "isOnline")
Sets == Under(dbQueue, "setOnline")

doing == <<Enrolling, Entering, Noting, Deleting, Counting, Clearing, Wiping, Resetting>>
queued == <<Adds, LookUps, Inserts, Asks, Sets>>

BeingAdded == Entering \cup Noting \cup LookUps \cup Inserts \cup Asks \cup Sets
BeingRemoved == Deleting \cup Counting \cup Clearing \cup Wiping \cup Resetting
BeingEnrolled == Enrolling \cup Adds

LEMMA StepsInRange ==
    ASSUME NEW f \in [Everyone -> Work \cup {Idle}], NEW t \in Everyone, Sound(f[t], t, dbQueue)
    PROVE  /\ f[t].kind = "roster" => f[t].step = 1
           /\ f[t].kind = "on" => f[t].step \in {1, 2} /\ f[t].r \in Sources
           /\ f[t].kind = "on" /\ f[t].step = 1 => f[t].r \in Resources
           /\ f[t].kind = "off" => f[t].step \in {1, 2, 3} /\ f[t].r \in Sources
           /\ f[t].kind = "reset" => f[t].step \in {1, 2} /\ f[t].r = Nil
           /\ f[t].kind = "roster" => f[t].r = Nil
<1>1. CASE f[t] = Idle
  BY <1>1, WorkType, Kinds
<1>2. CASE f[t] # Idle
  <2>1. f[t] \in Work /\ f[t].step \in DOMAIN Issued[f[t].kind]
    BY <1>2, WorkType DEF Sound
  <2>2. /\ f[t].r \in IF f[t].kind \in {"on", "off"} THEN Sources ELSE {Nil}
        /\ f[t].kind = "on" /\ f[t].step = 1 => f[t].r \in Resources
    BY <1>2 DEF Sound
  <2> QED BY <2>1, <2>2, Stages DEF Stage
<1> QED BY <1>1, <1>2

LEMMA Views ==
    ASSUME Typed, Synced
    PROVE  /\ BeingAdded \in SUBSET Sources /\ Deleting \in SUBSET Sources
           /\ Entering \cup LookUps \cup Inserts \in SUBSET Resources
           /\ Enrolling \in SUBSET {Nil} /\ Wiping \in SUBSET {Nil} /\ Resetting \in SUBSET {Nil}
           /\ Adding <=> BeingAdded # {}
           /\ Removing <=> BeingRemoved # {}
           /\ Registering <=> ~row /\ BeingEnrolled # {}
           /\ AtRest => BeingAdded = {} /\ BeingRemoved = {} /\ BeingEnrolled = {}
<1>1. \A t \in Everyone :
        /\ thread[t].kind = "roster" => thread[t].step = 1
        /\ thread[t].kind = "on" => thread[t].step \in {1, 2} /\ thread[t].r \in Sources
        /\ thread[t].kind = "on" /\ thread[t].step = 1 => thread[t].r \in Resources
        /\ thread[t].kind = "off" => thread[t].step \in {1, 2, 3} /\ thread[t].r \in Sources
        /\ thread[t].kind = "reset" => thread[t].step \in {1, 2} /\ thread[t].r = Nil
        /\ thread[t].kind = "roster" => thread[t].r = Nil
  BY StepsInRange DEF Typed, Synced
<1>2. \A o \in ToSet(dbQueue) : o.r \in Sources /\ (o.do \in {"lookup", "insert"} => o.r \in Resources)
  <2>1. dbQueue \in Seq(Operation)
    BY DEF Typed
  <2>2. \A o \in ToSet(dbQueue) : o \in Operation
    BY <2>1 DEF ToSet
  <2> QED BY <2>2 DEF Operation, Synced, Answers
<1>3. /\ Entering \in SUBSET Resources /\ Noting \in SUBSET Sources
      /\ Deleting \in SUBSET Sources
      /\ Enrolling \in SUBSET {Nil} /\ Wiping \in SUBSET {Nil} /\ Resetting \in SUBSET {Nil}
  BY <1>1 DEF Entering, Noting, Deleting, Enrolling, Wiping, Resetting, At
<1>4. /\ LookUps \in SUBSET Resources /\ Inserts \in SUBSET Resources
      /\ Asks \in SUBSET Sources /\ Sets \in SUBSET Sources
  BY <1>2 DEF LookUps, Inserts, Asks, Sets, Under
<1>5. /\ Entering \cup Noting # {} <=> \E t \in Everyone : thread[t].kind = "on"
      /\ Enrolling # {} <=> \E t \in Everyone : thread[t].kind = "roster"
      /\ BeingRemoved # {} <=> \E t \in Everyone : thread[t].kind \in {"off", "reset"}
  <2>1. \A kind, step : At(thread, kind, step) # {} <=>
                           \E t \in Everyone : thread[t].kind = kind /\ thread[t].step = step
    BY DEF At
  <2>2. Entering \cup Noting # {} <=> \E t \in Everyone : thread[t].kind = "on"
    BY <1>1, <2>1 DEF Entering, Noting
  <2>3. Enrolling # {} <=> \E t \in Everyone : thread[t].kind = "roster"
    BY <1>1, <2>1 DEF Enrolling
  <2>4. /\ Deleting \cup Counting \cup Clearing # {} <=> \E t \in Everyone : thread[t].kind = "off"
        /\ Wiping \cup Resetting # {} <=> \E t \in Everyone : thread[t].kind = "reset"
    BY <1>1, <2>1 DEF Deleting, Counting, Clearing, Wiping, Resetting
  <2> QED BY <2>2, <2>3, <2>4 DEF BeingRemoved
<1>6. /\ LookUps \cup Inserts \cup Asks \cup Sets # {} <=> \E o \in ToSet(dbQueue) : o.do \in OfOnline
      /\ Adds # {} <=> \E o \in ToSet(dbQueue) : o.do = "add"
  BY DEF LookUps, Inserts, Asks, Sets, Adds, Under, OfOnline
<1>7. \A X : (\E k \in DOMAIN dbQueue : dbQueue[k].do \in X) <=> (\E o \in ToSet(dbQueue) : o.do \in X)
  BY DEF ToSet
<1>8. Adding <=> BeingAdded # {}
  BY <1>5, <1>6, <1>7 DEF Adding, BeingAdded
<1>9. Registering <=> ~row /\ BeingEnrolled # {}
  BY <1>5, <1>6, <1>7 DEF Registering, BeingEnrolled, ToSet
<1>10. ASSUME NEW o \in ToSet(dbQueue), o.do \in Awaited
       PROVE  \E t \in Everyone : thread[t].kind \in {"off", "reset"}
  BY <1>10 DEF Synced, Answers, Sound
<1>11. Removing <=> BeingRemoved # {}
  BY <1>5, <1>7, <1>10 DEF Removing
<1>12. ASSUME AtRest PROVE BeingAdded = {} /\ BeingRemoved = {} /\ BeingEnrolled = {}
  <2>1. ToSet(dbQueue) = {} /\ \A t \in Everyone : thread[t].kind = Nil
    BY <1>12, WorkType DEF AtRest, ToSet
  <2> QED BY <1>5, <1>6, <2>1, Kinds DEF BeingAdded, BeingEnrolled
<1> QED BY <1>3, <1>4, <1>8, <1>9, <1>11, <1>12 DEF BeingAdded, Sources


\* A set that loses this element, or keeps it because of another thread or statement.
Less(new, old, r) == new = old \/ new = old \ {r}

IsAt(w, kind, step) == w.kind = kind /\ w.step = step

\* Thread t has the work v in g and other work in f.
Replaced(g, f, t, v) ==
    \A kind, step :
       /\ IsAt(v, kind, step) /\ ~IsAt(f[t], kind, step)
             => At(g, kind, step) = At(f, kind, step) \cup {v.r}
       /\ IsAt(f[t], kind, step) => f[t].r \in At(f, kind, step)
       /\ IsAt(f[t], kind, step) /\ ~IsAt(v, kind, step)
             => Less(At(g, kind, step), At(f, kind, step), f[t].r)
       /\ ~IsAt(f[t], kind, step) /\ ~IsAt(v, kind, step)
             => At(g, kind, step) = At(f, kind, step)
       /\ IsAt(f[t], kind, step) /\ IsAt(v, kind, step) /\ v.r = f[t].r
             => At(g, kind, step) = At(f, kind, step)

LEMMA AtNext ==
    ASSUME NEW f \in [Everyone -> Work \cup {Idle}], NEW t \in Everyone, NEW v,
           NEW g, g = [f EXCEPT ![t] = v]
    PROVE  Replaced(g, f, t, v)
<1> SUFFICES ASSUME NEW kind, NEW step
    PROVE /\ IsAt(v, kind, step) /\ ~IsAt(f[t], kind, step)
                => At(g, kind, step) = At(f, kind, step) \cup {v.r}
          /\ IsAt(f[t], kind, step) => f[t].r \in At(f, kind, step)
          /\ IsAt(f[t], kind, step) /\ ~IsAt(v, kind, step)
                => Less(At(g, kind, step), At(f, kind, step), f[t].r)
          /\ ~IsAt(f[t], kind, step) /\ ~IsAt(v, kind, step)
                => At(g, kind, step) = At(f, kind, step)
          /\ IsAt(f[t], kind, step) /\ IsAt(v, kind, step) /\ v.r = f[t].r
                => At(g, kind, step) = At(f, kind, step)
  BY DEF Replaced
<1>1. g[t] = v /\ \A u \in Everyone : u # t => g[u] = f[u]
  OBVIOUS
<1>2. \A h, x : x \in At(h, kind, step) <=> \E u \in Everyone : IsAt(h[u], kind, step) /\ h[u].r = x
  BY DEF At, IsAt
<1>3. \A x : x \in At(g, kind, step) <=>
               \/ IsAt(v, kind, step) /\ v.r = x
               \/ \E u \in Everyone \ {t} : IsAt(f[u], kind, step) /\ f[u].r = x
  <2>1. t \in Everyone
    OBVIOUS
  <2> QED BY ONLY <1>1, <1>2, <2>1
<1>4. \A x : x \in At(f, kind, step) <=>
               \/ IsAt(f[t], kind, step) /\ f[t].r = x
               \/ \E u \in Everyone \ {t} : IsAt(f[u], kind, step) /\ f[u].r = x
  BY <1>2
<1> DEFINE Others == {x \in At(f, kind, step) : \E u \in Everyone \ {t} : IsAt(f[u], kind, step) /\ f[u].r = x}
<1>5. /\ At(g, kind, step) = Others \cup IF IsAt(v, kind, step) THEN {v.r} ELSE {}
      /\ At(f, kind, step) = Others \cup IF IsAt(f[t], kind, step) THEN {f[t].r} ELSE {}
  BY <1>3, <1>4
<1> HIDE DEF Others
<1> QED BY <1>5 DEF Less

LEMMA UnderNext ==
    ASSUME NEW q \in Seq(Operation)
    PROVE  /\ \A e \in Operation : \A do :
                 Under(Append(q, e), do) = Under(q, do) \cup IF e.do = do THEN {e.r} ELSE {}
           /\ q # <<>> => \A do :
                 /\ do # Head(q).do => Under(Tail(q), do) = Under(q, do)
                 /\ Less(Under(Tail(q), Head(q).do), Under(q, Head(q).do), Head(q).r)
                 /\ Head(q).r \in Under(q, Head(q).do)
<1>1. ASSUME NEW e \in Operation, NEW do
      PROVE  Under(Append(q, e), do) = Under(q, do) \cup IF e.do = do THEN {e.r} ELSE {}
  <2>1. ToSet(Append(q, e)) = ToSet(q) \cup {e}
    BY AppendedTo
  <2> QED BY <2>1 DEF Under
<1>2. ASSUME q # <<>>, NEW do
      PROVE  Under(q, do) = Under(Tail(q), do) \cup IF Head(q).do = do THEN {Head(q).r} ELSE {}
  <2>1. ToSet(q) = {Head(q)} \cup ToSet(Tail(q))
    BY <1>2, HeadAndTail
  <2> QED BY <2>1 DEF Under
<1>3. ASSUME q # <<>>, NEW do
      PROVE  /\ do # Head(q).do => Under(Tail(q), do) = Under(q, do)
             /\ Less(Under(Tail(q), Head(q).do), Under(q, Head(q).do), Head(q).r)
             /\ Head(q).r \in Under(q, Head(q).do)
  BY <1>2, <1>3 DEF Less
<1> QED BY <1>1, <1>3

\* What a thread that begins its work changes.
BeginEffect(kind, r) ==
    /\ Enrolling' = Enrolling \cup IF kind = "roster" THEN {r} ELSE {}
    /\ Entering' = Entering \cup IF kind = "on" /\ r # Nil THEN {r} ELSE {}
    /\ Noting' = Noting \cup IF kind = "on" /\ r = Nil THEN {r} ELSE {}
    /\ Deleting' = Deleting \cup IF kind = "off" THEN {r} ELSE {}
    /\ Wiping' = Wiping \cup IF kind = "reset" THEN {r} ELSE {}
    /\ UNCHANGED <<Counting, Clearing, Resetting, queued>>

LEMMA BeginsEffect ==
    ASSUME Typed, NEW t, NEW kind, NEW r, Begins(t, kind, r)
    PROVE  BeginEffect(kind, r)
<1> DEFINE v == Works(kind, r)
           step == IF kind = "on" /\ r = Nil THEN 2 ELSE 1
<1>1. /\ t \in Everyone /\ thread[t] = Idle /\ thread' = [thread EXCEPT ![t] = v]
      /\ v \in Work \cup {Idle} /\ v.kind = kind /\ v.step = step /\ v.r = r
      /\ UNCHANGED dbQueue
  <2>1. r \in Sources
    BY DEF Begins, Sources
  <2> QED BY <2>1, WorkType DEF Begins, Starts, Works
<1>2. thread \in [Everyone -> Work \cup {Idle}]
  BY DEF Typed
<1>3. \A k, s : IsAt(v, k, s) <=> k = kind /\ s = step
  BY <1>1 DEF IsAt
<1>4. \A k \in {"roster", "on", "off", "reset"} : \A s : ~IsAt(thread[t], k, s)
  BY <1>1, WorkType, Kinds DEF IsAt
<1> HIDE DEF v, step
<1>5. Replaced(thread', thread, t, v)
  BY <1>1, <1>2, AtNext
<1>a. \A k \in {"roster", "on", "off", "reset"} : \A s : k # kind \/ s # step => At(thread', k, s) = At(thread, k, s)
  BY <1>3, <1>4, <1>5 DEF Replaced
<1>b. At(thread', kind, step) = At(thread, kind, step) \cup {r}
  <2>1. kind \in {"roster", "on", "off", "reset"}
    BY Kinds DEF Begins
  <2>2. IsAt(v, kind, step) /\ ~IsAt(thread[t], kind, step)
    BY <1>3, <1>4, <2>1
  <2> QED BY <1>1, <1>5, <2>2 DEF Replaced
<1>6. UNCHANGED queued
  BY <1>1 DEF queued, Adds, LookUps, Inserts, Asks, Sets
<1>7. /\ Enrolling' = Enrolling \cup IF kind = "roster" THEN {r} ELSE {}
      /\ Entering' = Entering \cup IF kind = "on" /\ r # Nil THEN {r} ELSE {}
      /\ Noting' = Noting \cup IF kind = "on" /\ r = Nil THEN {r} ELSE {}
      /\ Deleting' = Deleting \cup IF kind = "off" THEN {r} ELSE {}
      /\ Wiping' = Wiping \cup IF kind = "reset" THEN {r} ELSE {}
  BY <1>a, <1>b DEF Enrolling, Entering, Noting, Deleting, Wiping, step
<1>8. Counting' = Counting /\ Clearing' = Clearing /\ Resetting' = Resetting
  BY <1>a DEF Counting, Clearing, Resetting, step
<1> QED BY <1>6, <1>7, <1>8 DEF BeginEffect


\* What a thread that issues a statement changes: a statement that is waited for
\* leaves the sets as they are.
IssueEffect(r) ==
    \/ UNCHANGED <<doing, queued>>
    \/ /\ r \in Enrolling
       /\ Less(Enrolling', Enrolling, r) /\ Adds' = Adds \cup {r}
       /\ UNCHANGED <<Entering, Noting, Deleting, Counting, Clearing, Wiping, Resetting>>
       /\ UNCHANGED <<LookUps, Inserts, Asks, Sets>>
    \/ /\ r \in Entering
       /\ Less(Entering', Entering, r) /\ Noting' = Noting \cup {r} /\ LookUps' = LookUps \cup {r}
       /\ UNCHANGED <<Enrolling, Deleting, Counting, Clearing, Wiping, Resetting>>
       /\ UNCHANGED <<Adds, Inserts, Asks, Sets>>
    \/ /\ r \in Noting
       /\ Less(Noting', Noting, r) /\ Asks' = Asks \cup {r}
       /\ UNCHANGED <<Enrolling, Entering, Deleting, Counting, Clearing, Wiping, Resetting>>
       /\ UNCHANGED <<Adds, LookUps, Inserts, Sets>>

\* A thread was at this step and has no work any more.
Vacated(kind, step, r) ==
    /\ r \in At(thread, kind, step) /\ Less(At(thread', kind, step), At(thread, kind, step), r)
    /\ \A k \in {"roster", "on", "off", "reset"} : \A s :
          k # kind \/ s # step => At(thread', k, s) = At(thread, k, s)

LEMMA IssuesEffect ==
    ASSUME Typed, Synced, NEW t \in Everyone, Issue(t)
    PROVE  IssueEffect(thread[t].r)
<1> DEFINE w == thread[t]
           statement == Issued[w.kind][w.step]
           e == Do(statement, w.r, IF statement \in Awaited THEN t ELSE Nil)
<1>1. w \in Work /\ w.step \in DOMAIN Issued[w.kind]
  BY WorkType DEF Issue, Typed, Synced, Sound
<1>2. thread \in [Everyone -> Work \cup {Idle}] /\ dbQueue \in Seq(Operation)
  BY DEF Typed
<1>3. e \in Operation /\ e.do = statement /\ e.r = w.r
  BY <1>1, CallType DEF Call, Do
<1>4. dbQueue' = Append(dbQueue, e)
  BY DEF Issue
<1> HIDE DEF e
<1>5. \A do : Under(dbQueue', do) = Under(dbQueue, do) \cup IF statement = do THEN {w.r} ELSE {}
  BY <1>2, <1>3, <1>4, UnderNext
<1>6. \A v : thread' = [thread EXCEPT ![t] = v] => Replaced(thread', thread, t, v)
  BY <1>2, AtNext
<1>7. CASE statement \in Awaited
  <2> DEFINE v == [w EXCEPT !.waits = TRUE]
  <2>1. v.kind = w.kind /\ v.step = w.step /\ v.r = w.r
    BY <1>1 DEF Work
  <2>2. thread' = [thread EXCEPT ![t] = v]
    BY <1>7 DEF Issue
  <2> HIDE DEF v
  <2>3. Replaced(thread', thread, t, v) /\ \A k, s : IsAt(v, k, s) <=> IsAt(w, k, s)
    BY <1>6, <2>1, <2>2 DEF IsAt
  <2>4. \A k, s : At(thread', k, s) = At(thread, k, s)
    BY <2>1, <2>3 DEF Replaced
  <2>5. \A do \in {"add", "lookup", "insert", "isOnline", "setOnline"} : Under(dbQueue', do) = Under(dbQueue, do)
    BY <1>5, <1>7 DEF Awaited
  <2>6. UNCHANGED <<doing, queued>>
    BY <2>4, <2>5 DEF doing, queued, Enrolling, Entering, Noting, Deleting, Counting, Clearing,
                      Wiping, Resetting, Adds, LookUps, Inserts, Asks, Sets
  <2> QED BY <2>6 DEF IssueEffect
<1>8. ASSUME NEW kind \in {"roster", "on", "off", "reset"}, NEW step, IsAt(w, kind, step),
             thread' = [thread EXCEPT ![t] = Idle]
      PROVE  Vacated(kind, step, w.r)
  <2>1. Replaced(thread', thread, t, Idle)
    BY <1>6, <1>8
  <2>2. \A k \in {"roster", "on", "off", "reset"} : \A s :
          ~IsAt(Idle, k, s) /\ (k # kind \/ s # step => ~IsAt(w, k, s))
    BY <1>8, WorkType, Kinds DEF IsAt
  <2> QED BY <1>8, <2>1, <2>2 DEF Replaced, Vacated
<1>9. CASE Stage(w, "roster", 1, "add", 1)
  <2>1. thread' = [thread EXCEPT ![t] = Idle] /\ IsAt(w, "roster", 1) /\ statement = "add"
    BY <1>9 DEF Stage, Issue, IsAt, Awaited
  <2>a. /\ w.r \in At(thread, "roster", 1) /\ Less(At(thread', "roster", 1), At(thread, "roster", 1), w.r)
        /\ \A k \in {"on", "off", "reset"} : \A s : At(thread', k, s) = At(thread, k, s)
    <3>1. Vacated("roster", 1, w.r)
      BY <1>8, <2>1
    <3> QED BY <3>1 DEF Vacated
  <2>2. /\ w.r \in Enrolling /\ Less(Enrolling', Enrolling, w.r)
        /\ UNCHANGED <<Entering, Noting, Deleting, Counting, Clearing, Wiping, Resetting>>
    BY <2>a DEF Enrolling, Entering, Noting, Deleting, Counting, Clearing, Wiping, Resetting
  <2>3. Adds' = Adds \cup {w.r} /\ UNCHANGED <<LookUps, Inserts, Asks, Sets>>
    BY <1>5, <2>1 DEF Adds, LookUps, Inserts, Asks, Sets
  <2> QED BY <2>2, <2>3 DEF IssueEffect
<1>10. CASE Stage(w, "on", 1, "lookup", 2)
  <2> DEFINE v == [w EXCEPT !.step = @ + 1]
  <2>1. thread' = [thread EXCEPT ![t] = v] /\ IsAt(w, "on", 1) /\ statement = "lookup"
    BY <1>10 DEF Stage, Issue, IsAt, Awaited
  <2>2. IsAt(v, "on", 2) /\ v.r = w.r
    BY <1>1, <2>1 DEF IsAt, Work
  <2> HIDE DEF v
  <2>3. Replaced(thread', thread, t, v)
    BY <1>6, <2>1
  <2>4. /\ \A k, s : IsAt(v, k, s) <=> k = "on" /\ s = 2
        /\ \A k, s : IsAt(w, k, s) <=> k = "on" /\ s = 1
    BY <2>1, <2>2 DEF IsAt
  <2>5. /\ w.r \in Entering /\ Less(Entering', Entering, w.r) /\ Noting' = Noting \cup {w.r}
    BY <2>2, <2>3, <2>4 DEF Replaced, Entering, Noting
  <2>6. \A k, s : k # "on" => At(thread', k, s) = At(thread, k, s)
    BY <2>3, <2>4 DEF Replaced
  <2>7. UNCHANGED <<Enrolling, Deleting, Counting, Clearing, Wiping, Resetting>>
    BY <2>6 DEF Enrolling, Deleting, Counting, Clearing, Wiping, Resetting
  <2>8. LookUps' = LookUps \cup {w.r} /\ UNCHANGED <<Adds, Inserts, Asks, Sets>>
    BY <1>5, <2>1 DEF Adds, LookUps, Inserts, Asks, Sets
  <2> QED BY <2>5, <2>7, <2>8 DEF IssueEffect
<1>11. CASE Stage(w, "on", 2, "isOnline", 2)
  <2>1. thread' = [thread EXCEPT ![t] = Idle] /\ IsAt(w, "on", 2) /\ statement = "isOnline"
    BY <1>11 DEF Stage, Issue, IsAt, Awaited
  <2>a. /\ w.r \in At(thread, "on", 2) /\ Less(At(thread', "on", 2), At(thread, "on", 2), w.r)
        /\ At(thread', "on", 1) = At(thread, "on", 1)
        /\ \A k \in {"roster", "off", "reset"} : \A s : At(thread', k, s) = At(thread, k, s)
    <3>1. Vacated("on", 2, w.r)
      BY <1>8, <2>1
    <3> QED BY <3>1 DEF Vacated
  <2>2. /\ w.r \in Noting /\ Less(Noting', Noting, w.r)
        /\ UNCHANGED <<Enrolling, Entering, Deleting, Counting, Clearing, Wiping, Resetting>>
    BY <2>a DEF Enrolling, Entering, Noting, Deleting, Counting, Clearing, Wiping, Resetting
  <2>3. Asks' = Asks \cup {w.r} /\ UNCHANGED <<Adds, LookUps, Inserts, Sets>>
    BY <1>5, <2>1 DEF Adds, LookUps, Inserts, Asks, Sets
  <2> QED BY <2>2, <2>3 DEF IssueEffect
<1>12. \/ statement \in Awaited
       \/ Stage(w, "roster", 1, "add", 1)
       \/ Stage(w, "on", 1, "lookup", 2) \/ Stage(w, "on", 2, "isOnline", 2)
  BY <1>1, Stages DEF Stage, Awaited
<1> QED BY <1>7, <1>9, <1>10, <1>11, <1>12


\* A statement has left the queue, and another one for the same resource has
\* joined it ("none": no other).
Consumed(q2, q, do, r, next) ==
    /\ r \in Under(q, do)
    /\ \A d \in Statements :
          /\ d = do => Less(Under(q2, d), Under(q, d), r)
          /\ d # do /\ d = next => Under(q2, d) = Under(q, d) \cup {r}
          /\ d # do /\ d # next => Under(q2, d) = Under(q, d)

LEMMA ConsumedNext ==
    ASSUME NEW q \in Seq(Operation), q # <<>>
    PROVE  /\ Consumed(Tail(q), q, Head(q).do, Head(q).r, "none")
           /\ \A e \in Operation : e.r = Head(q).r /\ e.do # Head(q).do =>
                 Consumed(Append(Tail(q), e), q, Head(q).do, Head(q).r, e.do)
<1>1. \A d : /\ d # Head(q).do => Under(Tail(q), d) = Under(q, d)
             /\ Less(Under(Tail(q), Head(q).do), Under(q, Head(q).do), Head(q).r)
             /\ Head(q).r \in Under(q, Head(q).do)
  BY UnderNext
<1>2. "none" \notin Statements
  BY DEF Statements, Awaited
<1>3. Consumed(Tail(q), q, Head(q).do, Head(q).r, "none")
  BY <1>1, <1>2 DEF Consumed
<1>4. Tail(q) \in Seq(Operation)
  BY TailOf
<1>5. ASSUME NEW e \in Operation, e.r = Head(q).r, e.do # Head(q).do
      PROVE  Consumed(Append(Tail(q), e), q, Head(q).do, Head(q).r, e.do)
  <2>1. \A d : Under(Append(Tail(q), e), d) = Under(Tail(q), d) \cup IF e.do = d THEN {e.r} ELSE {}
    BY <1>4, UnderNext
  <2> QED BY <1>1, <1>5, <2>1 DEF Consumed
<1> QED BY <1>3, <1>5

\* A thread that waited goes on with its next statement, or it is done.
LEMMA ReturnsEffect ==
    ASSUME Typed, Synced, dbQueue # <<>>, Head(dbQueue).do \in Awaited,
           NEW goesOn \in BOOLEAN, Returns(goesOn),
           NEW kind \in {"off", "reset"}, NEW step \in 1 .. 3, IsAt(thread[Caller], kind, step)
    PROVE  /\ Head(dbQueue).r \in At(thread, kind, step)
           /\ Less(At(thread', kind, step), At(thread, kind, step), Head(dbQueue).r)
           /\ At(thread', kind, step + 1) =
                 At(thread, kind, step + 1) \cup IF goesOn THEN {Head(dbQueue).r} ELSE {}
           /\ \A k \in {"roster", "on", "off", "reset"} : \A s :
                 k # kind \/ s \notin {step, step + 1} => At(thread', k, s) = At(thread, k, s)
<1> DEFINE w == thread[Caller]
           v == IF goesOn THEN [w EXCEPT !.step = @ + 1] ELSE Idle
<1>1. /\ Caller \in Everyone /\ w \in Work /\ Head(dbQueue).r = w.r
      /\ thread \in [Everyone -> Work \cup {Idle}]
  BY CallerWaits DEF Typed, Coupled
<1>2. thread' = [thread EXCEPT ![Caller] = v]
  BY <1>1 DEF Returns, Caller
<1>3. \A k \in {"roster", "on", "off", "reset"} : \A s :
         /\ IsAt(v, k, s) <=> goesOn /\ k = kind /\ s = step + 1
         /\ IsAt(w, k, s) <=> k = kind /\ s = step
  <2>1. w.kind = kind /\ w.step = step
    BY DEF IsAt
  <2>2. CASE goesOn
    <3>1. v.kind = kind /\ v.step = step + 1
      BY <1>1, <2>1, <2>2 DEF Work
    <3> QED BY <2>1, <2>2, <3>1 DEF IsAt
  <2>3. CASE ~goesOn
    BY <2>1, <2>3, WorkType, Kinds DEF IsAt
  <2> QED BY <2>2, <2>3
<1>4. goesOn => v.r = w.r
  BY <1>1 DEF Work
<1>5. step # step + 1
  OBVIOUS
<1> HIDE DEF v
<1>6. Replaced(thread', thread, Caller, v)
  BY <1>1, <1>2, AtNext
<1>7. ASSUME NEW k \in {"roster", "on", "off", "reset"}, NEW s
      PROVE  /\ IsAt(v, k, s) /\ ~IsAt(w, k, s) => At(thread', k, s) = At(thread, k, s) \cup {v.r}
             /\ IsAt(w, k, s) => w.r \in At(thread, k, s)
             /\ IsAt(w, k, s) /\ ~IsAt(v, k, s) => Less(At(thread', k, s), At(thread, k, s), w.r)
             /\ ~IsAt(w, k, s) /\ ~IsAt(v, k, s) => At(thread', k, s) = At(thread, k, s)
  BY <1>6 DEF Replaced
<1>8. w.r \in At(thread, kind, step) /\ Less(At(thread', kind, step), At(thread, kind, step), w.r)
  BY <1>3, <1>5, <1>7
<1>9. At(thread', kind, step + 1) = At(thread, kind, step + 1) \cup IF goesOn THEN {w.r} ELSE {}
  BY <1>3, <1>4, <1>5, <1>7
<1>10. \A k \in {"roster", "on", "off", "reset"} : \A s :
         k # kind \/ s \notin {step, step + 1} => At(thread', k, s) = At(thread, k, s)
  BY <1>3, <1>7
<1> QED BY <1>1, <1>8, <1>9, <1>10

\* Nothing that is queued without being waited for is touched by a return.
LEMMA ReturnsQueue ==
    ASSUME Typed, Synced, dbQueue # <<>>, Head(dbQueue).do \in Awaited,
           NEW goesOn \in BOOLEAN, Returns(goesOn),
           goesOn => Head(dbQueue).do \in {"delete", "count", "wipe"}
    PROVE  UNCHANGED queued
<1> DEFINE w == thread[Caller]
           e == Do(Issued[w.kind][w.step + 1], w.r, Caller)
<1>1. dbQueue \in Seq(Operation) /\ Tail(dbQueue) \in Seq(Operation)
  BY TailOf DEF Typed
<1>2. /\ Caller \in Everyone /\ w \in Work /\ w.step \in DOMAIN Issued[w.kind]
      /\ Head(dbQueue).do = Issued[w.kind][w.step] /\ w.kind \in {"off", "reset"}
  BY CallerWaits DEF Typed, Coupled
<1>3. \A d : d \notin Awaited => Under(Tail(dbQueue), d) = Under(dbQueue, d)
  BY <1>1, UnderNext
<1>4. CASE ~goesOn
  <2>1. dbQueue' = Tail(dbQueue)
    BY <1>4 DEF Returns
  <2>2. \A d : d \notin Awaited => Under(dbQueue', d) = Under(dbQueue, d)
    BY <1>3, <2>1
  <2> QED BY <2>2 DEF queued, Adds, LookUps, Inserts, Asks, Sets, Awaited
<1>5. CASE goesOn
  <2>1. dbQueue' = Append(Tail(dbQueue), e)
    BY <1>5 DEF Returns, Caller
  <2>2. Issued[w.kind][w.step + 1] \in Awaited
    <3>1. \/ Stage(w, "off", 1, "delete", 3) \/ Stage(w, "off", 2, "count", 3)
          \/ Stage(w, "reset", 1, "wipe", 2)
      BY <1>2, <1>5, Stages DEF Stage
    <3> QED BY <3>1, Kinds DEF Stage, Awaited
  <2>3. e \in Operation /\ e.do \in Awaited
    BY <1>2, <2>2 DEF Do, Operation, Statements, Work
  <2> HIDE DEF e
  <2>4. \A d : d \notin Awaited => Under(dbQueue', d) = Under(dbQueue, d)
    <3>1. \A d : Under(Append(Tail(dbQueue), e), d) =
                   Under(Tail(dbQueue), d) \cup IF e.do = d THEN {e.r} ELSE {}
      BY <1>1, <2>3, UnderNext
    <3> QED BY <1>3, <2>1, <2>3, <3>1
  <2> QED BY <2>4 DEF queued, Adds, LookUps, Inserts, Asks, Sets, Awaited
<1> QED BY <1>4, <1>5


-----------------------------------------------------------------------------
(* What each statement changes *)

AddEffect ==
    /\ row' = TRUE /\ UNCHANGED <<resources, online>> /\ Adds # {}
    /\ UNCHANGED <<doing, LookUps, Inserts, Asks, Sets>>

LookUpEffect(r) ==
    /\ UNCHANGED table
    /\ UNCHANGED <<doing, Adds, Asks, Sets>>
    /\ r \in LookUps /\ Less(LookUps', LookUps, r)
    /\ Inserts' = Inserts \cup IF row THEN {r} ELSE {}

InsertEffect(r) ==
    /\ resources' = resources \cup {r} /\ UNCHANGED <<row, online>>
    /\ UNCHANGED <<doing, Adds, LookUps, Asks, Sets>>
    /\ r \in Inserts /\ Less(Inserts', Inserts, r)

AskEffect(r) ==
    /\ UNCHANGED table
    /\ UNCHANGED <<doing, Adds, LookUps, Inserts>>
    /\ r \in Asks /\ Less(Asks', Asks, r)
    /\ Sets' = Sets \cup IF online THEN {} ELSE {r}

SetEffect(r) ==
    /\ online' = row /\ UNCHANGED <<row, resources>>
    /\ UNCHANGED <<doing, Adds, LookUps, Inserts, Asks>>
    /\ r \in Sets /\ Less(Sets', Sets, r)

DeleteEffect(r) ==
    /\ resources' = resources \ {r} /\ UNCHANGED <<row, online>>
    /\ r \in Deleting /\ Less(Deleting', Deleting, r)
    /\ Counting' = Counting \cup IF row THEN {r} ELSE {}
    /\ UNCHANGED <<Enrolling, Entering, Noting, Clearing, Wiping, Resetting, queued>>

CountEffect(r) ==
    /\ UNCHANGED table
    /\ r \in Counting /\ Less(Counting', Counting, r)
    /\ Clearing' = Clearing \cup IF resources = {} THEN {r} ELSE {}
    /\ UNCHANGED <<Enrolling, Entering, Noting, Deleting, Wiping, Resetting, queued>>

ClearEffect(r) ==
    /\ online' = FALSE /\ UNCHANGED <<row, resources>>
    /\ r \in Clearing /\ Less(Clearing', Clearing, r)
    /\ UNCHANGED <<Enrolling, Entering, Noting, Deleting, Counting, Wiping, Resetting, queued>>

WipeEffect(r) ==
    /\ resources' = {} /\ UNCHANGED <<row, online>>
    /\ r \in Wiping /\ Less(Wiping', Wiping, r)
    /\ Resetting' = Resetting \cup {r}
    /\ UNCHANGED <<Enrolling, Entering, Noting, Deleting, Counting, Clearing, queued>>

ResetEffect(r) ==
    /\ online' = FALSE /\ UNCHANGED <<row, resources>>
    /\ r \in Resetting /\ Less(Resetting', Resetting, r)
    /\ UNCHANGED <<Enrolling, Entering, Noting, Deleting, Counting, Clearing, Wiping, queued>>

Named == Head(dbQueue).r

\* A statement that nobody waits for.
LEMMA AsyncEffects ==
    ASSUME Typed
    PROVE  /\ AddContact => AddEffect
           /\ LookUp => LookUpEffect(Named)
           /\ InsertResource => InsertEffect(Named)
           /\ IsOnline => AskEffect(Named)
           /\ SetOnline => SetEffect(Named)
<1>1. dbQueue \in Seq(Operation)
  BY DEF Typed
<1>2. ASSUME dbQueue # <<>>, dbQueue' = Tail(dbQueue)
      PROVE  Consumed(dbQueue', dbQueue, Head(dbQueue).do, Named, "none")
  BY <1>1, <1>2, ConsumedNext DEF Named
<1>3. ASSUME dbQueue # <<>>, NEW do \in {"insert", "setOnline"}, Head(dbQueue).do # do,
             dbQueue' = Append(Tail(dbQueue), [Head(dbQueue) EXCEPT !.do = do])
      PROVE  Consumed(dbQueue', dbQueue, Head(dbQueue).do, Named, do)
  <2> DEFINE e == [Head(dbQueue) EXCEPT !.do = do]
  <2>1. e \in Operation /\ e.do = do /\ e.r = Head(dbQueue).r
    <3>1. Head(dbQueue) \in Operation
      BY <1>1, <1>3, TailOf
    <3> QED BY <3>1 DEF Operation, Statements
  <2>2. dbQueue' = Append(Tail(dbQueue), e)
    BY <1>3
  <2> HIDE DEF e
  <2> QED BY <1>1, <1>3, <2>1, <2>2, ConsumedNext DEF Named
<1>4. UNCHANGED thread => UNCHANGED doing
  BY DEF doing, Enrolling, Entering, Noting, Deleting, Counting, Clearing, Wiping, Resetting
<1>5. {"add", "lookup", "insert", "isOnline", "setOnline"} \subseteq Statements
  BY DEF Statements
<1>6. ASSUME NEW do \in {"add", "lookup", "insert", "isOnline", "setOnline"},
             NEW next \in {"none", "insert", "setOnline"}, next # do, NEW r,
             Consumed(dbQueue', dbQueue, do, r, next)
      PROVE  /\ r \in Under(dbQueue, do) /\ Less(Under(dbQueue', do), Under(dbQueue, do), r)
             /\ \A d \in {"add", "lookup", "insert", "isOnline", "setOnline"} :
                   d # do => Under(dbQueue', d) = Under(dbQueue, d) \cup IF d = next THEN {r} ELSE {}
  BY <1>5, <1>6 DEF Consumed
<1>7. ASSUME AddContact PROVE AddEffect
  <2>1. Consumed(dbQueue', dbQueue, "add", Named, "none") /\ UNCHANGED doing
    BY <1>2, <1>4, <1>7 DEF AddContact, Executes
  <2>9. row' = TRUE /\ UNCHANGED <<resources, online>>
    BY <1>7 DEF AddContact
  <2>10. Adds # {} /\ UNCHANGED <<LookUps, Inserts, Asks, Sets>>
    BY <1>6, <2>1 DEF Adds, LookUps, Inserts, Asks, Sets
  <2> QED BY <2>1, <2>9, <2>10 DEF AddEffect
<1>8. ASSUME LookUp PROVE LookUpEffect(Named)
  <2>1. /\ Consumed(dbQueue', dbQueue, "lookup", Named, IF row THEN "insert" ELSE "none")
        /\ UNCHANGED doing
    BY <1>2, <1>3, <1>4, <1>8 DEF LookUp, Executes
  <2>9. UNCHANGED table
    BY <1>8 DEF LookUp
  <2> QED BY <1>6, <2>1, <2>9 DEF LookUpEffect, LookUps, Adds, Inserts, Asks, Sets
<1>9. ASSUME InsertResource PROVE InsertEffect(Named)
  <2>1. Consumed(dbQueue', dbQueue, "insert", Named, "none") /\ UNCHANGED doing
    BY <1>2, <1>4, <1>9 DEF InsertResource, Executes
  <2>9. resources' = resources \cup {Named} /\ UNCHANGED <<row, online>>
    BY <1>9 DEF InsertResource, Named
  <2> QED BY <1>6, <2>1, <2>9 DEF InsertEffect, LookUps, Adds, Inserts, Asks, Sets
<1>10. ASSUME IsOnline PROVE AskEffect(Named)
  <2>1. /\ Consumed(dbQueue', dbQueue, "isOnline", Named, IF online THEN "none" ELSE "setOnline")
        /\ UNCHANGED doing
    BY <1>2, <1>3, <1>4, <1>10 DEF IsOnline, Executes
  <2>9. UNCHANGED table
    BY <1>10 DEF IsOnline
  <2> QED BY <1>6, <2>1, <2>9 DEF AskEffect, LookUps, Adds, Inserts, Asks, Sets
<1>11. ASSUME SetOnline PROVE SetEffect(Named)
  <2>1. Consumed(dbQueue', dbQueue, "setOnline", Named, "none") /\ UNCHANGED doing
    BY <1>2, <1>4, <1>11 DEF SetOnline, Executes
  <2>9. online' = row /\ UNCHANGED <<row, resources>>
    BY <1>11 DEF SetOnline
  <2> QED BY <1>6, <2>1, <2>9 DEF SetEffect, LookUps, Adds, Inserts, Asks, Sets
<1> QED BY <1>7, <1>8, <1>9, <1>10, <1>11


\* The step of the thread that waits for the head of the queue.
LEMMA CallerStage ==
    ASSUME Typed, Synced, dbQueue # <<>>
    PROVE  /\ Head(dbQueue).do = "delete" => IsAt(thread[Caller], "off", 1)
           /\ Head(dbQueue).do = "count" => IsAt(thread[Caller], "off", 2)
           /\ Head(dbQueue).do = "setOffline" => IsAt(thread[Caller], "off", 3)
           /\ Head(dbQueue).do = "wipe" => IsAt(thread[Caller], "reset", 1)
           /\ Head(dbQueue).do = "reset" => IsAt(thread[Caller], "reset", 2)
<1>1. CASE Head(dbQueue).do \in Awaited
  <2>1. /\ thread[Caller] \in Work /\ thread[Caller].step \in DOMAIN Issued[thread[Caller].kind]
        /\ Head(dbQueue).do = Issued[thread[Caller].kind][thread[Caller].step]
    BY <1>1, CallerWaits DEF Typed, Coupled
  <2> QED BY <2>1, Stages DEF Stage, IsAt
<1>2. CASE Head(dbQueue).do \notin Awaited
  BY <1>2 DEF Awaited
<1> QED BY <1>1, <1>2

\* A return in the words of the sets.
Moved(kind, step, r, goesOn) ==
    /\ r \in At(thread, kind, step)
    /\ Less(At(thread', kind, step), At(thread, kind, step), r)
    /\ At(thread', kind, step + 1) = At(thread, kind, step + 1) \cup IF goesOn THEN {r} ELSE {}
    /\ \A k \in {"roster", "on", "off", "reset"} : \A s :
          k # kind \/ s \notin {step, step + 1} => At(thread', k, s) = At(thread, k, s)

LEMMA ReturnsMove ==
    ASSUME Typed, Synced, dbQueue # <<>>, Head(dbQueue).do \in Awaited,
           NEW goesOn \in BOOLEAN, Returns(goesOn),
           goesOn => Head(dbQueue).do \in {"delete", "count", "wipe"},
           NEW kind \in {"off", "reset"}, NEW step \in 1 .. 3, IsAt(thread[Caller], kind, step)
    PROVE  Moved(kind, step, Named, goesOn) /\ UNCHANGED queued
BY ReturnsEffect, ReturnsQueue DEF Moved, Named

LEMMA SyncEffects ==
    ASSUME Typed, Synced
    PROVE  /\ DeleteResource => DeleteEffect(Named)
           /\ CountResources => CountEffect(Named)
           /\ SetOffline => ClearEffect(Named)
           /\ WipeResources => WipeEffect(Named)
           /\ ResetContacts => ResetEffect(Named)
<1>1. row \in BOOLEAN
  BY DEF Typed
<1>2. ASSUME DeleteResource PROVE DeleteEffect(Named)
  <2>1. dbQueue # <<>> /\ Head(dbQueue).do = "delete" /\ Returns(row)
    BY <1>2 DEF DeleteResource, Executes
  <2>a. Head(dbQueue).do \in Awaited /\ IsAt(thread[Caller], "off", 1)
    BY <2>1, CallerStage DEF Awaited
  <2>2. Moved("off", 1, Named, row) /\ UNCHANGED queued
    BY <1>1, <2>1, <2>a, ReturnsMove
  <2>3. /\ Named \in Deleting /\ Less(Deleting', Deleting, Named)
        /\ Counting' = Counting \cup IF row THEN {Named} ELSE {}
    BY <2>2 DEF Moved, Deleting, Counting
  <2>4. /\ \A s : s \notin {1, 2} => At(thread', "off", s) = At(thread, "off", s)
        /\ \A k \in {"roster", "on", "reset"} : \A s : At(thread', k, s) = At(thread, k, s)
    BY <2>2 DEF Moved
  <2>5. UNCHANGED <<Enrolling, Entering, Noting, Clearing, Wiping, Resetting>>
    BY <2>4 DEF Enrolling, Entering, Noting, Clearing, Wiping, Resetting
  <2>9. resources' = resources \ {Named} /\ UNCHANGED <<row, online>>
    BY <1>2 DEF DeleteResource, Named
  <2> QED BY <2>2, <2>3, <2>5, <2>9 DEF DeleteEffect
<1>3. ASSUME CountResources PROVE CountEffect(Named)
  <2>1. dbQueue # <<>> /\ Head(dbQueue).do = "count" /\ Returns(resources = {})
    BY <1>3 DEF CountResources, Executes
  <2> DEFINE goesOn == IF resources = {} THEN TRUE ELSE FALSE
  <2>a. /\ goesOn \in BOOLEAN /\ Returns(goesOn) /\ (goesOn <=> resources = {})
        /\ Head(dbQueue).do \in Awaited
    BY <2>1 DEF Returns, Awaited
  <2>b. IsAt(thread[Caller], "off", 2)
    BY <2>1, CallerStage
  <2> HIDE DEF goesOn
  <2>2. Moved("off", 2, Named, goesOn) /\ UNCHANGED queued
    BY <2>1, <2>a, <2>b, ReturnsMove
  <2>3. /\ Named \in Counting /\ Less(Counting', Counting, Named)
        /\ Clearing' = Clearing \cup IF resources = {} THEN {Named} ELSE {}
    BY <2>2, <2>a DEF Moved, Counting, Clearing
  <2>4. /\ At(thread', "off", 1) = At(thread, "off", 1)
        /\ \A k \in {"roster", "on", "reset"} : \A s : At(thread', k, s) = At(thread, k, s)
    BY <2>2 DEF Moved
  <2>5. UNCHANGED <<Enrolling, Entering, Noting, Deleting, Wiping, Resetting>>
    BY <2>4 DEF Enrolling, Entering, Noting, Deleting, Wiping, Resetting
  <2>9. UNCHANGED table
    BY <1>3 DEF CountResources
  <2> QED BY <2>2, <2>3, <2>5, <2>9 DEF CountEffect
<1>4. ASSUME SetOffline PROVE ClearEffect(Named)
  <2>1. dbQueue # <<>> /\ Head(dbQueue).do = "setOffline" /\ Returns(FALSE)
    BY <1>4 DEF SetOffline, Executes
  <2> DEFINE goesOn == FALSE
  <2>a. Head(dbQueue).do \in Awaited /\ IsAt(thread[Caller], "off", 3)
    BY <2>1, CallerStage DEF Awaited
  <2>b. goesOn \in BOOLEAN /\ ~goesOn /\ Returns(goesOn)
    BY <2>1
  <2> HIDE DEF goesOn
  <2>2. Moved("off", 3, Named, goesOn) /\ UNCHANGED queued
    BY <2>1, <2>a, <2>b, ReturnsMove
  <2>3. Named \in Clearing /\ Less(Clearing', Clearing, Named)
    BY <2>2, <2>b DEF Moved, Clearing
  <2>4. /\ \A s \in {1, 2} : At(thread', "off", s) = At(thread, "off", s)
        /\ \A k \in {"roster", "on", "reset"} : \A s : At(thread', k, s) = At(thread, k, s)
    BY <2>2 DEF Moved
  <2>5. UNCHANGED <<Enrolling, Entering, Noting, Deleting, Counting, Wiping, Resetting>>
    BY <2>4 DEF Enrolling, Entering, Noting, Deleting, Counting, Wiping, Resetting
  <2>9. online' = FALSE /\ UNCHANGED <<row, resources>>
    BY <1>4 DEF SetOffline
  <2> QED BY <2>2, <2>3, <2>5, <2>9 DEF ClearEffect
<1>5. ASSUME WipeResources PROVE WipeEffect(Named)
  <2>1. dbQueue # <<>> /\ Head(dbQueue).do = "wipe" /\ Returns(TRUE)
    BY <1>5 DEF WipeResources, Executes
  <2> DEFINE goesOn == TRUE
  <2>a. /\ Head(dbQueue).do \in Awaited /\ IsAt(thread[Caller], "reset", 1)
        /\ Head(dbQueue).do \in {"delete", "count", "wipe"} /\ dbQueue # <<>>
    BY <2>1, CallerStage DEF Awaited
  <2>b. goesOn \in BOOLEAN /\ Returns(goesOn)
    BY <2>1
  <2>c. goesOn
    OBVIOUS
  <2> HIDE DEF goesOn
  <2>2. Moved("reset", 1, Named, goesOn) /\ UNCHANGED queued
    BY <2>a, <2>b, ReturnsMove
  <2>3. /\ Named \in Wiping /\ Less(Wiping', Wiping, Named)
        /\ Resetting' = Resetting \cup {Named}
    BY <2>2, <2>c DEF Moved, Wiping, Resetting
  <2>4. \A k \in {"roster", "on", "off"} : \A s : At(thread', k, s) = At(thread, k, s)
    BY <2>2 DEF Moved
  <2>5. UNCHANGED <<Enrolling, Entering, Noting, Deleting, Counting, Clearing>>
    BY <2>4 DEF Enrolling, Entering, Noting, Deleting, Counting, Clearing
  <2>9. resources' = {} /\ UNCHANGED <<row, online>>
    BY <1>5 DEF WipeResources
  <2> QED BY <2>2, <2>3, <2>5, <2>9 DEF WipeEffect
<1>6. ASSUME ResetContacts PROVE ResetEffect(Named)
  <2>1. dbQueue # <<>> /\ Head(dbQueue).do = "reset" /\ Returns(FALSE)
    BY <1>6 DEF ResetContacts, Executes
  <2> DEFINE goesOn == FALSE
  <2>a. Head(dbQueue).do \in Awaited /\ IsAt(thread[Caller], "reset", 2)
    BY <2>1, CallerStage DEF Awaited
  <2>b. goesOn \in BOOLEAN /\ ~goesOn /\ Returns(goesOn)
    BY <2>1
  <2> HIDE DEF goesOn
  <2>2. Moved("reset", 2, Named, goesOn) /\ UNCHANGED queued
    BY <2>1, <2>a, <2>b, ReturnsMove
  <2>3. Named \in Resetting /\ Less(Resetting', Resetting, Named)
    BY <2>2, <2>b DEF Moved, Resetting
  <2>4. /\ At(thread', "reset", 1) = At(thread, "reset", 1)
        /\ \A k \in {"roster", "on", "off"} : \A s : At(thread', k, s) = At(thread, k, s)
    BY <2>2 DEF Moved
  <2>5. UNCHANGED <<Enrolling, Entering, Noting, Deleting, Counting, Clearing, Wiping>>
    BY <2>4 DEF Enrolling, Entering, Noting, Deleting, Counting, Clearing, Wiping
  <2>9. online' = FALSE /\ UNCHANGED <<row, resources>>
    BY <1>6 DEF ResetContacts
  <2> QED BY <2>2, <2>3, <2>5, <2>9 DEF ResetEffect
<1> QED BY <1>2, <1>3, <1>4, <1>5, <1>6


-----------------------------------------------------------------------------
(* The invariant: what is in the table, what is on its way into it and out  *)
(* of it, and what the server has still to be heard of                       *)

\* The resources of which an element in the stream speaks, and that the last such
\* element says what holds.
About(e, r) == e.kind # "roster" /\ e.r = r
Told == {r \in Sources : \E k \in DOMAIN wire : About(wire[k], r)}
Right(e) == e.kind = IF e.r \in available THEN "on" ELSE "off"
Truthful ==
    \A k \in DOMAIN wire : wire[k].kind # "roster" /\ ~Right(wire[k])
        => \E j \in DOMAIN wire : j > k /\ About(wire[j], wire[k].r)

\* The roster comes before every presence, or not at all.
RosterFirst == \A k \in DOMAIN wire : wire[k].kind = "roster" => k = 1

\* The session and its name.
Linked ==
    /\ link = "bound" => session
    /\ ~session => wire = <<>>
    /\ session /\ link # "bound" => streamID
    /\ link = "reset" => ~streamID
    /\ link = "bound" /\ server = "resume" => streamID
    /\ streamID => server = "resume"

\* Only a contact in the list has resources.
RowFirst == (Shown \/ Inserts # {}) => row

\* What adds a resource runs neither with what removes one nor with what adds the
\* contact.
Apart ==
    /\ BeingAdded = {} \/ BeingRemoved = {}
    /\ BeingAdded = {} \/ row \/ BeingEnrolled = {}

\* The resources that will be in the table, and the work that sets online.
Bringing == Inserts \cup IF row THEN Entering \cup LookUps ELSE {}
Marking == IF row THEN Entering \cup Noting \cup Asks \cup Sets ELSE {}
Agree ==
    /\ resources \cup Bringing # {} => online \/ Marking # {}
    /\ Resetting \cup Clearing # {} => resources = {}

\* The contact is in the list, about to be, or in the roster that comes first.
Listed == row \/ BeingEnrolled # {} \/ (wire # <<>> /\ Head(wire).kind = "roster")

\* A contact is or will be online with a resource, until the work that removes it is
\* done, or because it is available without one or was so before what is to be heard.
Justified ==
    online \/ Marking # {} =>
       resources \cup Bringing # {} \/ BeingRemoved # {} \/ Nil \in available \cup Told

\* A resource that is not available, with nothing to be heard about it, is neither
\* on its way nor there to stay; and a session is left only with an empty table or
\* with a reset under way.
Gone(r) ==
    /\ r \notin Entering \cup LookUps \cup Inserts
    /\ r \in resources => r \in Deleting \/ Wiping # {}
Emptying ==
    /\ BeingAdded = {}
    /\ resources = {} \/ Wiping # {}
    /\ online => Wiping \cup Resetting # {}
NoneLeft ==
    /\ session => Justified /\ \A r \in Resources \ (available \cup Told) : Gone(r)
    /\ link = "reset" \/ (link = "down" /\ ~streamID /\ server # "none") => Emptying

\* One that is available, with nothing to be heard about it, is there or on its way,
\* if the contact is in the list or will be.
Coming(r) == r \notin Deleting /\ Wiping = {} /\ r \in resources \cup Bringing
NoneMissing == session /\ Listed => \A r \in (available \cap Resources) \ Told : Coming(r)

\* The parts that no history excuses, and those that one does.
Always == Typed /\ Synced /\ Linked /\ RowFirst /\ Truthful /\ RosterFirst
Unless ==
    /\ ~crossed => Apart /\ Agree
    /\ ~crossed /\ ~left => NoneLeft
    /\ ~crossed /\ ~emptied => NoneMissing
PresenceInv == Always /\ Unless


-----------------------------------------------------------------------------
(* Statements keep the invariant *)

StatementEffect ==
    \/ AddEffect \/ LookUpEffect(Named) \/ InsertEffect(Named) \/ AskEffect(Named)
    \/ SetEffect(Named) \/ DeleteEffect(Named) \/ CountEffect(Named) \/ ClearEffect(Named)
    \/ WipeEffect(Named) \/ ResetEffect(Named)

\* What the sets are made of.
Shape ==
    /\ row \in BOOLEAN /\ online \in BOOLEAN /\ resources \in SUBSET Resources
    /\ BeingAdded \in SUBSET Sources /\ Deleting \in SUBSET Sources
    /\ Wiping \in SUBSET {Nil} /\ Resetting \in SUBSET {Nil}

LEMMA StatementEffects ==
    ASSUME Typed, Synced, Statement
    PROVE  StatementEffect /\ UNCHANGED <<net, available, events, history>>
BY AsyncEffects, SyncEffects DEF Statement, StatementEffect

LEMMA ShapeHolds ==
    ASSUME Typed, Synced
    PROVE  Shape
BY Views DEF Shape, Typed

\* A resource is inserted only after the contact was found.
LEMMA RowFirstStays ==
    ASSUME Shape, RowFirst, StatementEffect
    PROVE  RowFirst'
<1>1. CASE AddEffect
  BY <1>1 DEF AddEffect, doing, queued, table, Less, Shape, RowFirst, Shown
<1>2. CASE LookUpEffect(Named)
  BY <1>2 DEF LookUpEffect, doing, queued, table, Less, Shape, RowFirst, Shown
<1>3. CASE InsertEffect(Named)
  BY <1>3 DEF InsertEffect, doing, queued, table, Less, Shape, RowFirst, Shown
<1>4. CASE AskEffect(Named)
  BY <1>4 DEF AskEffect, doing, queued, table, Less, Shape, RowFirst, Shown
<1>5. CASE SetEffect(Named)
  BY <1>5 DEF SetEffect, doing, queued, table, Less, Shape, RowFirst, Shown
<1>6. CASE DeleteEffect(Named)
  BY <1>6 DEF DeleteEffect, doing, queued, table, Less, Shape, RowFirst, Shown
<1>7. CASE CountEffect(Named)
  BY <1>7 DEF CountEffect, doing, queued, table, Less, Shape, RowFirst, Shown
<1>8. CASE ClearEffect(Named)
  BY <1>8 DEF ClearEffect, doing, queued, table, Less, Shape, RowFirst, Shown
<1>9. CASE WipeEffect(Named)
  BY <1>9 DEF WipeEffect, doing, queued, table, Less, Shape, RowFirst, Shown
<1>10. CASE ResetEffect(Named)
  BY <1>10 DEF ResetEffect, doing, queued, table, Less, Shape, RowFirst, Shown
<1> QED BY <1>1, <1>2, <1>3, <1>4, <1>5, <1>6, <1>7, <1>8, <1>9, <1>10 DEF StatementEffect

\* No statement begins work of another kind.
LEMMA ApartStays ==
    ASSUME Shape, Apart, StatementEffect
    PROVE  Apart'
<1>1. CASE AddEffect
  BY <1>1 DEF AddEffect, doing, queued, table, Less, Shape, Apart, BeingAdded, BeingRemoved, BeingEnrolled
<1>2. CASE LookUpEffect(Named)
  BY <1>2 DEF LookUpEffect, doing, queued, table, Less, Shape, Apart, BeingAdded, BeingRemoved, BeingEnrolled
<1>3. CASE InsertEffect(Named)
  BY <1>3 DEF InsertEffect, doing, queued, table, Less, Shape, Apart, BeingAdded, BeingRemoved, BeingEnrolled
<1>4. CASE AskEffect(Named)
  BY <1>4 DEF AskEffect, doing, queued, table, Less, Shape, Apart, BeingAdded, BeingRemoved, BeingEnrolled
<1>5. CASE SetEffect(Named)
  BY <1>5 DEF SetEffect, doing, queued, table, Less, Shape, Apart, BeingAdded, BeingRemoved, BeingEnrolled
<1>6. CASE DeleteEffect(Named)
  BY <1>6 DEF DeleteEffect, doing, queued, table, Less, Shape, Apart, BeingAdded, BeingRemoved, BeingEnrolled
<1>7. CASE CountEffect(Named)
  BY <1>7 DEF CountEffect, doing, queued, table, Less, Shape, Apart, BeingAdded, BeingRemoved, BeingEnrolled
<1>8. CASE ClearEffect(Named)
  BY <1>8 DEF ClearEffect, doing, queued, table, Less, Shape, Apart, BeingAdded, BeingRemoved, BeingEnrolled
<1>9. CASE WipeEffect(Named)
  BY <1>9 DEF WipeEffect, doing, queued, table, Less, Shape, Apart, BeingAdded, BeingRemoved, BeingEnrolled
<1>10. CASE ResetEffect(Named)
  BY <1>10 DEF ResetEffect, doing, queued, table, Less, Shape, Apart, BeingAdded, BeingRemoved, BeingEnrolled
<1> QED BY <1>1, <1>2, <1>3, <1>4, <1>5, <1>6, <1>7, <1>8, <1>9, <1>10 DEF StatementEffect

\* What adds a resource sets online, and what removes the last one clears it.
LEMMA AgreeStays ==
    ASSUME Shape, RowFirst, Apart, Agree, StatementEffect
    PROVE  Agree'
<1>1. CASE AddEffect
  BY <1>1 DEF AddEffect, doing, queued, table, Less, Shape, RowFirst, Shown, Apart, Agree, Bringing, Marking, BeingAdded, BeingRemoved, BeingEnrolled
<1>2. CASE LookUpEffect(Named)
  BY <1>2 DEF LookUpEffect, doing, queued, table, Less, Shape, RowFirst, Shown, Apart, Agree, Bringing, Marking, BeingAdded, BeingRemoved, BeingEnrolled
<1>3. CASE InsertEffect(Named)
  BY <1>3 DEF InsertEffect, doing, queued, table, Less, Shape, RowFirst, Shown, Apart, Agree, Bringing, Marking, BeingAdded, BeingRemoved, BeingEnrolled
<1>4. CASE AskEffect(Named)
  BY <1>4 DEF AskEffect, doing, queued, table, Less, Shape, RowFirst, Shown, Apart, Agree, Bringing, Marking, BeingAdded, BeingRemoved, BeingEnrolled
<1>5. CASE SetEffect(Named)
  BY <1>5 DEF SetEffect, doing, queued, table, Less, Shape, RowFirst, Shown, Apart, Agree, Bringing, Marking, BeingAdded, BeingRemoved, BeingEnrolled
<1>6. CASE DeleteEffect(Named)
  BY <1>6 DEF DeleteEffect, doing, queued, table, Less, Shape, RowFirst, Shown, Apart, Agree, Bringing, Marking, BeingAdded, BeingRemoved, BeingEnrolled
<1>7. CASE CountEffect(Named)
  BY <1>7 DEF CountEffect, doing, queued, table, Less, Shape, RowFirst, Shown, Apart, Agree, Bringing, Marking, BeingAdded, BeingRemoved, BeingEnrolled
<1>8. CASE ClearEffect(Named)
  BY <1>8 DEF ClearEffect, doing, queued, table, Less, Shape, RowFirst, Shown, Apart, Agree, Bringing, Marking, BeingAdded, BeingRemoved, BeingEnrolled
<1>9. CASE WipeEffect(Named)
  BY <1>9 DEF WipeEffect, doing, queued, table, Less, Shape, RowFirst, Shown, Apart, Agree, Bringing, Marking, BeingAdded, BeingRemoved, BeingEnrolled
<1>10. CASE ResetEffect(Named)
  BY <1>10 DEF ResetEffect, doing, queued, table, Less, Shape, RowFirst, Shown, Apart, Agree, Bringing, Marking, BeingAdded, BeingRemoved, BeingEnrolled
<1> QED BY <1>1, <1>2, <1>3, <1>4, <1>5, <1>6, <1>7, <1>8, <1>9, <1>10 DEF StatementEffect

\* Only what removes the last resource leaves a contact online without one.
LEMMA JustifiedStays ==
    ASSUME Shape, RowFirst, Apart, Justified, StatementEffect, UNCHANGED <<available, Told>>
    PROVE  Justified'
<1>1. CASE AddEffect
  BY <1>1 DEF AddEffect, doing, queued, table, Less, Shape, RowFirst, Shown, Apart, Justified, Bringing, Marking, BeingAdded, BeingRemoved, BeingEnrolled
<1>2. CASE LookUpEffect(Named)
  BY <1>2 DEF LookUpEffect, doing, queued, table, Less, Shape, RowFirst, Shown, Apart, Justified, Bringing, Marking, BeingAdded, BeingRemoved, BeingEnrolled
<1>3. CASE InsertEffect(Named)
  BY <1>3 DEF InsertEffect, doing, queued, table, Less, Shape, RowFirst, Shown, Apart, Justified, Bringing, Marking, BeingAdded, BeingRemoved, BeingEnrolled
<1>4. CASE AskEffect(Named)
  BY <1>4 DEF AskEffect, doing, queued, table, Less, Shape, RowFirst, Shown, Apart, Justified, Bringing, Marking, BeingAdded, BeingRemoved, BeingEnrolled
<1>5. CASE SetEffect(Named)
  BY <1>5 DEF SetEffect, doing, queued, table, Less, Shape, RowFirst, Shown, Apart, Justified, Bringing, Marking, BeingAdded, BeingRemoved, BeingEnrolled
<1>6. CASE DeleteEffect(Named)
  BY <1>6 DEF DeleteEffect, doing, queued, table, Less, Shape, RowFirst, Shown, Apart, Justified, Bringing, Marking, BeingAdded, BeingRemoved, BeingEnrolled
<1>7. CASE CountEffect(Named)
  BY <1>7 DEF CountEffect, doing, queued, table, Less, Shape, RowFirst, Shown, Apart, Justified, Bringing, Marking, BeingAdded, BeingRemoved, BeingEnrolled
<1>8. CASE ClearEffect(Named)
  BY <1>8 DEF ClearEffect, doing, queued, table, Less, Shape, RowFirst, Shown, Apart, Justified, Bringing, Marking, BeingAdded, BeingRemoved, BeingEnrolled
<1>9. CASE WipeEffect(Named)
  BY <1>9 DEF WipeEffect, doing, queued, table, Less, Shape, RowFirst, Shown, Apart, Justified, Bringing, Marking, BeingAdded, BeingRemoved, BeingEnrolled
<1>10. CASE ResetEffect(Named)
  BY <1>10 DEF ResetEffect, doing, queued, table, Less, Shape, RowFirst, Shown, Apart, Justified, Bringing, Marking, BeingAdded, BeingRemoved, BeingEnrolled
<1> QED BY <1>1, <1>2, <1>3, <1>4, <1>5, <1>6, <1>7, <1>8, <1>9, <1>10 DEF StatementEffect

\* What is gone stays gone.
LEMMA GoneStays ==
    ASSUME Shape, NEW r \in Resources, Gone(r), StatementEffect
    PROVE  Gone(r)'
<1>1. CASE AddEffect
  BY <1>1 DEF AddEffect, doing, queued, table, Less, Shape, Gone
<1>2. CASE LookUpEffect(Named)
  BY <1>2 DEF LookUpEffect, doing, queued, table, Less, Shape, Gone
<1>3. CASE InsertEffect(Named)
  BY <1>3 DEF InsertEffect, doing, queued, table, Less, Shape, Gone
<1>4. CASE AskEffect(Named)
  BY <1>4 DEF AskEffect, doing, queued, table, Less, Shape, Gone
<1>5. CASE SetEffect(Named)
  BY <1>5 DEF SetEffect, doing, queued, table, Less, Shape, Gone
<1>6. CASE DeleteEffect(Named)
  BY <1>6 DEF DeleteEffect, doing, queued, table, Less, Shape, Gone
<1>7. CASE CountEffect(Named)
  BY <1>7 DEF CountEffect, doing, queued, table, Less, Shape, Gone
<1>8. CASE ClearEffect(Named)
  BY <1>8 DEF ClearEffect, doing, queued, table, Less, Shape, Gone
<1>9. CASE WipeEffect(Named)
  BY <1>9 DEF WipeEffect, doing, queued, table, Less, Shape, Gone
<1>10. CASE ResetEffect(Named)
  BY <1>10 DEF ResetEffect, doing, queued, table, Less, Shape, Gone
<1> QED BY <1>1, <1>2, <1>3, <1>4, <1>5, <1>6, <1>7, <1>8, <1>9, <1>10 DEF StatementEffect

\* What a reset empties stays empty.
LEMMA EmptyingStays ==
    ASSUME Shape, Emptying, StatementEffect
    PROVE  Emptying'
<1>1. CASE AddEffect
  BY <1>1 DEF AddEffect, doing, queued, table, Less, Shape, Emptying, BeingAdded, BeingRemoved, BeingEnrolled
<1>2. CASE LookUpEffect(Named)
  BY <1>2 DEF LookUpEffect, doing, queued, table, Less, Shape, Emptying, BeingAdded, BeingRemoved, BeingEnrolled
<1>3. CASE InsertEffect(Named)
  BY <1>3 DEF InsertEffect, doing, queued, table, Less, Shape, Emptying, BeingAdded, BeingRemoved, BeingEnrolled
<1>4. CASE AskEffect(Named)
  BY <1>4 DEF AskEffect, doing, queued, table, Less, Shape, Emptying, BeingAdded, BeingRemoved, BeingEnrolled
<1>5. CASE SetEffect(Named)
  BY <1>5 DEF SetEffect, doing, queued, table, Less, Shape, Emptying, BeingAdded, BeingRemoved, BeingEnrolled
<1>6. CASE DeleteEffect(Named)
  BY <1>6 DEF DeleteEffect, doing, queued, table, Less, Shape, Emptying, BeingAdded, BeingRemoved, BeingEnrolled
<1>7. CASE CountEffect(Named)
  BY <1>7 DEF CountEffect, doing, queued, table, Less, Shape, Emptying, BeingAdded, BeingRemoved, BeingEnrolled
<1>8. CASE ClearEffect(Named)
  BY <1>8 DEF ClearEffect, doing, queued, table, Less, Shape, Emptying, BeingAdded, BeingRemoved, BeingEnrolled
<1>9. CASE WipeEffect(Named)
  BY <1>9 DEF WipeEffect, doing, queued, table, Less, Shape, Emptying, BeingAdded, BeingRemoved, BeingEnrolled
<1>10. CASE ResetEffect(Named)
  BY <1>10 DEF ResetEffect, doing, queued, table, Less, Shape, Emptying, BeingAdded, BeingRemoved, BeingEnrolled
<1> QED BY <1>1, <1>2, <1>3, <1>4, <1>5, <1>6, <1>7, <1>8, <1>9, <1>10 DEF StatementEffect

\* What is on its way arrives, and stays.
LEMMA ComingStays ==
    ASSUME Shape, NEW r \in Resources, Coming(r), StatementEffect
    PROVE  Coming(r)'
<1>1. CASE AddEffect
  BY <1>1 DEF AddEffect, doing, queued, table, Less, Shape, Coming, Bringing
<1>2. CASE LookUpEffect(Named)
  BY <1>2 DEF LookUpEffect, doing, queued, table, Less, Shape, Coming, Bringing
<1>3. CASE InsertEffect(Named)
  BY <1>3 DEF InsertEffect, doing, queued, table, Less, Shape, Coming, Bringing
<1>4. CASE AskEffect(Named)
  BY <1>4 DEF AskEffect, doing, queued, table, Less, Shape, Coming, Bringing
<1>5. CASE SetEffect(Named)
  BY <1>5 DEF SetEffect, doing, queued, table, Less, Shape, Coming, Bringing
<1>6. CASE DeleteEffect(Named)
  BY <1>6 DEF DeleteEffect, doing, queued, table, Less, Shape, Coming, Bringing
<1>7. CASE CountEffect(Named)
  BY <1>7 DEF CountEffect, doing, queued, table, Less, Shape, Coming, Bringing
<1>8. CASE ClearEffect(Named)
  BY <1>8 DEF ClearEffect, doing, queued, table, Less, Shape, Coming, Bringing
<1>9. CASE WipeEffect(Named)
  BY <1>9 DEF WipeEffect, doing, queued, table, Less, Shape, Coming, Bringing
<1>10. CASE ResetEffect(Named)
  BY <1>10 DEF ResetEffect, doing, queued, table, Less, Shape, Coming, Bringing
<1> QED BY <1>1, <1>2, <1>3, <1>4, <1>5, <1>6, <1>7, <1>8, <1>9, <1>10 DEF StatementEffect


\* With the work unchanged, so are the sets.
LEMMA WorkUnchanged ==
    ASSUME UNCHANGED local
    PROVE  UNCHANGED <<doing, queued>>
BY DEF local, doing, queued, Enrolling, Entering, Noting, Deleting, Counting, Clearing, Wiping,
       Resetting, Adds, LookUps, Inserts, Asks, Sets

LEMMA ToldUnchanged ==
    ASSUME UNCHANGED wire
    PROVE  /\ Told' = Told /\ (UNCHANGED available /\ Truthful => Truthful')
           /\ RosterFirst => RosterFirst'
BY DEF Told, Truthful, Right, About, RosterFirst

\* Only a roster brings a contact into the list.
LEMMA ListedBefore ==
    ASSUME Shape, StatementEffect, UNCHANGED net, Listed'
    PROVE  Listed
<1>1. CASE AddEffect
  BY <1>1 DEF AddEffect, Listed, BeingEnrolled
<1>2. CASE ~AddEffect
  <2>1. row' = row /\ Enrolling' = Enrolling /\ Adds' = Adds
    BY <1>2 DEF StatementEffect, LookUpEffect, InsertEffect, AskEffect, SetEffect, DeleteEffect,
                CountEffect, ClearEffect, WipeEffect, ResetEffect, doing, queued, table
  <2> QED BY <2>1 DEF Listed, BeingEnrolled, net
<1> QED BY <1>1, <1>2

LEMMA StatementKeeps ==
    ASSUME PresenceInv, Statement
    PROVE  Linked' /\ RowFirst' /\ Truthful' /\ RosterFirst' /\ Unless'
<1>1. StatementEffect /\ UNCHANGED <<net, available, events, history>> /\ Shape
  BY StatementEffects, ShapeHolds DEF PresenceInv, Always
<1>2. UNCHANGED <<link, streamID, server, session, wire, available, crossed, emptied, left>>
  BY <1>1 DEF net, history
<1>3. Told' = Told /\ Truthful' /\ RosterFirst'
  BY <1>2, ToldUnchanged DEF PresenceInv, Always
<1>4. Linked'
  BY <1>2 DEF PresenceInv, Always, Linked
<1>5. RowFirst'
  BY <1>1, RowFirstStays DEF PresenceInv, Always
<1>6. ASSUME ~crossed PROVE Apart' /\ Agree'
  BY <1>1, <1>6, ApartStays, AgreeStays DEF PresenceInv, Always, Unless
<1>7. ASSUME ~crossed, ~left PROVE NoneLeft'
  <2>1. NoneLeft /\ Apart /\ RowFirst
    BY <1>7 DEF PresenceInv, Unless, Always
  <2>2. \A r \in Resources : Gone(r) => Gone(r)'
    BY <1>1, GoneStays
  <2>3. Emptying => Emptying'
    BY <1>1, EmptyingStays
  <2>4. Justified => Justified'
    BY <1>1, <1>2, <1>3, <2>1, JustifiedStays
  <2> QED BY <1>2, <1>3, <2>1, <2>2, <2>3, <2>4 DEF NoneLeft
<1>8. ASSUME ~crossed, ~emptied PROVE NoneMissing'
  <2>1. NoneMissing
    BY <1>8 DEF PresenceInv, Always, Unless, Typed
  <2>2. \A r \in Resources : Coming(r) => Coming(r)'
    BY <1>1, ComingStays
  <2>3. Listed' => Listed
    BY <1>1, ListedBefore
  <2> QED BY <1>2, <1>3, <2>1, <2>2, <2>3 DEF NoneMissing
<1> QED BY <1>2, <1>3, <1>4, <1>5, <1>6, <1>7, <1>8 DEF Unless

-----------------------------------------------------------------------------
(* A thread issues a statement *)

LEMMA IssueKeeps ==
    ASSUME PresenceInv, NEW t \in Everyone, Issue(t)
    PROVE  Linked' /\ RowFirst' /\ Truthful' /\ RosterFirst' /\ Unless'
<1> DEFINE r == thread[t].r
<1>1. IssueEffect(r) /\ Shape
  BY IssuesEffect, ShapeHolds DEF PresenceInv, Always
<1>2. UNCHANGED <<row, resources, online, link, streamID, server, session, wire, available, crossed, emptied, left>>
  BY DEF Issue, table, net, history
<1>3. Told' = Told /\ Truthful' /\ RosterFirst'
  BY <1>2, ToldUnchanged DEF PresenceInv, Always
<1>4. Linked' /\ RowFirst /\ Typed
  BY <1>2 DEF PresenceInv, Always, Linked
<1> HIDE DEF r
<1>5. RowFirst'
  BY <1>1, <1>2, <1>4 DEF IssueEffect, doing, queued, RowFirst, Shown
<1>6. Apart => Apart'
  BY <1>1, <1>2 DEF IssueEffect, doing, queued, Less, Apart, BeingAdded, BeingRemoved, BeingEnrolled
<1>7. Apart /\ Agree => Agree'
  BY <1>1, <1>2, <1>4 DEF IssueEffect, doing, queued, Less, Agree, Bringing, Marking
<1>a. Justified => Justified'
  BY <1>1, <1>2, <1>3, <1>4
     DEF IssueEffect, doing, queued, Less, Justified, Bringing, Marking, BeingRemoved
<1>8. Listed' => Listed
  BY <1>1, <1>2 DEF IssueEffect, doing, queued, Less, Listed, BeingEnrolled
<1>9. ASSUME NEW x \in Resources, Gone(x) PROVE Gone(x)'
  BY <1>1, <1>2, <1>9 DEF IssueEffect, doing, queued, Less, Gone
<1>10. Emptying => Emptying'
  BY <1>1, <1>2 DEF IssueEffect, doing, queued, Less, Emptying, BeingAdded
<1>11. ASSUME NEW x \in Resources, Coming(x) PROVE Coming(x)'
  BY <1>1, <1>2, <1>11 DEF IssueEffect, doing, queued, Less, Coming, Bringing
<1>12. ~crossed => Apart' /\ Agree'
  BY <1>6, <1>7 DEF PresenceInv, Unless
<1>13. ~crossed /\ ~left => NoneLeft'
  BY <1>2, <1>3, <1>9, <1>10, <1>a DEF PresenceInv, Unless, NoneLeft
<1>14. ~crossed /\ ~emptied => NoneMissing'
  BY <1>2, <1>3, <1>8, <1>11 DEF PresenceInv, Unless, NoneMissing
<1> QED BY <1>2, <1>3, <1>4, <1>5, <1>12, <1>13, <1>14 DEF Unless


-----------------------------------------------------------------------------
(* What there is to be heard *)

LEMMA ToldTail ==
    ASSUME Typed, Truthful, RosterFirst, wire # <<>>, wire' = Tail(wire), UNCHANGED available
    PROVE  /\ Truthful' /\ (\A k \in DOMAIN wire' : wire'[k].kind # "roster")
           /\ Told' \subseteq Told
           /\ \A r \in Told \ Told' : About(Head(wire), r) /\ Right(Head(wire))
<1>1. wire \in Seq(Element) /\ Len(wire) \in Nat \ {0} /\ Len(Tail(wire)) = Len(wire) - 1
  BY DEF Typed
<1>2. /\ \A k \in DOMAIN wire' : k \in Nat \ {0} /\ k + 1 \in DOMAIN wire /\ wire'[k] = wire[k + 1]
      /\ \A k \in DOMAIN wire : k \in Nat \ {0} /\ (k = 1 \/ (k - 1 \in DOMAIN wire' /\ wire'[k - 1] = wire[k]))
      /\ Head(wire) = wire[1] /\ 1 \in DOMAIN wire
  BY <1>1
<1>3. \A k, j \in Nat \ {0} : /\ j > k + 1 => j # 1 /\ j - 1 > k
                              /\ j > 1 => j # 1
  OBVIOUS
<1>4. \A e : Right(e)' <=> Right(e)
  BY DEF Right
<1>5. Truthful'
  <2> SUFFICES ASSUME NEW k \in DOMAIN wire', wire'[k].kind # "roster", ~Right(wire'[k])
               PROVE  \E j \in DOMAIN wire' : j > k /\ About(wire'[j], wire'[k].r)
    BY <1>4 DEF Truthful, About, Right
  <2>1. PICK j \in DOMAIN wire : j > k + 1 /\ About(wire[j], wire[k + 1].r)
    BY <1>2 DEF Truthful
  <2>2. j - 1 \in DOMAIN wire' /\ wire'[j - 1] = wire[j] /\ j - 1 > k
    BY <1>2, <1>3, <2>1
  <2> QED BY <1>2, <2>1, <2>2
<1>6. Told' \subseteq Told
  BY <1>2 DEF Told, About
<1>7. ASSUME NEW r \in Told, r \notin Told' PROVE About(Head(wire), r) /\ Right(Head(wire))
  <2>1. ASSUME NEW k \in DOMAIN wire, About(wire[k], r) PROVE k = 1
    <3>1. r \in Sources /\ \A i \in DOMAIN wire' : ~About(wire'[i], r)
      BY <1>7 DEF Told, About
    <3>2. k # 1 => k - 1 \in DOMAIN wire' /\ wire'[k - 1] = wire[k]
      BY <1>2
    <3> QED BY <2>1, <3>1, <3>2
  <2>2. About(wire[1], r)
    BY <1>7, <2>1 DEF Told
  <2>3. Right(wire[1])
    <3>1. wire[1].kind # "roster" /\ wire[1].r = r
      BY <2>2 DEF About
    <3>2. \A j \in DOMAIN wire : j > 1 => ~About(wire[j], r)
      BY <1>2, <1>3, <2>1
    <3> QED BY <1>2, <3>1, <3>2 DEF Truthful
  <2> QED BY <1>2, <2>2, <2>3
<1>8. \A k \in DOMAIN wire' : wire'[k].kind # "roster"
  <2>1. \A k \in Nat \ {0} : k + 1 # 1
    OBVIOUS
  <2> QED BY <1>2, <2>1 DEF RosterFirst
<1> QED BY <1>5, <1>6, <1>7, <1>8

LEMMA ToldAppended ==
    ASSUME Typed, Truthful, RosterFirst, NEW kind \in {"on", "off"}, NEW r \in Sources,
           wire' = Append(wire, [kind |-> kind, r |-> r]),
           available' = IF kind = "on" THEN available \cup {r} ELSE available \ {r}
    PROVE  /\ Truthful' /\ RosterFirst' /\ Told' = Told \cup {r}
           /\ Head(wire') = IF wire = <<>> THEN [kind |-> kind, r |-> r] ELSE Head(wire)
<1> DEFINE e == [kind |-> kind, r |-> r]
           n == Len(wire) + 1
<1>0. wire \in Seq(Element) /\ e \in Element /\ e.kind = kind /\ e.r = r
  BY DEF Typed, Element
<1>a. Len(wire) \in Nat /\ wire' \in Seq(Element) /\ Len(wire') = n
  BY <1>0
<1>b. \A k \in 1 .. Len(wire) : k \in 1 .. n /\ n > k
  BY ONLY <1>a
<1>c. n \in 1 .. n /\ \A k \in 1 .. n : k = n \/ k \in 1 .. Len(wire)
  BY ONLY <1>a
<1>1. /\ \A k \in DOMAIN wire : k \in DOMAIN wire' /\ wire'[k] = wire[k] /\ n > k
      /\ n \in DOMAIN wire' /\ wire'[n] = e
      /\ \A k \in DOMAIN wire' : k = n \/ k \in DOMAIN wire
  BY <1>0, <1>a, <1>b, <1>c
<1>2. Head(wire') = IF wire = <<>> THEN e ELSE Head(wire)
  BY <1>0, <1>a
<1> HIDE DEF n, e
<1>7. RosterFirst'
  BY <1>0, <1>1 DEF RosterFirst
<1>3. About(e, r) /\ \A x : About(e, x) => x = r
  BY <1>0 DEF About
<1>4. Told' = Told \cup {r}
  BY <1>1, <1>3 DEF Told, About
<1>5. e.kind = IF e.r \in available' THEN "on" ELSE "off"
  BY <1>0
<1>6. Truthful'
  <2> SUFFICES ASSUME NEW k \in DOMAIN wire', wire'[k].kind # "roster",
                      ~(wire'[k].kind = IF wire'[k].r \in available' THEN "on" ELSE "off")
               PROVE  \E j \in DOMAIN wire' : j > k /\ About(wire'[j], wire'[k].r)
    BY DEF Truthful, About, Right
  <2>1. k \in DOMAIN wire /\ wire'[k] = wire[k] /\ n > k
    BY <1>1, <1>5
  <2>2. CASE wire[k].r = r
    BY <1>1, <1>3, <2>1, <2>2
  <2>3. CASE wire[k].r # r
    <3>1. ~Right(wire[k])
      BY <2>1, <2>3 DEF Right
    <3>2. PICK j \in DOMAIN wire : j > k /\ About(wire[j], wire[k].r)
      BY <2>1, <3>1 DEF Truthful
    <3> QED BY <1>1, <2>1, <3>2
  <2> QED BY <2>2, <2>3
<1> QED BY <1>2, <1>4, <1>6, <1>7 DEF e

\* An empty stream, and the one a new session begins with.
LEMMA ToldNothing ==
    ASSUME wire' = <<>>
    PROVE  Truthful' /\ RosterFirst'
BY DEF Truthful, RosterFirst

LEMMA ToldAll ==
    ASSUME Typed, NewSession, UNCHANGED available
    PROVE  Truthful' /\ RosterFirst' /\ available' \subseteq Told'
<1>1. available \in SUBSET Sources
  BY DEF Typed
<1>2. PICK both \in BOOLEAN, order \in Announcements :
         wire' = (IF both THEN <<[kind |-> "roster"]>> ELSE <<>>) \o order
  BY DEF NewSession
<1>3. /\ \A k \in DOMAIN wire' : \/ k = 1 /\ wire'[k].kind = "roster"
                                 \/ wire'[k].kind = "on" /\ wire'[k].r \in available
      /\ \A r \in available : \E e \in ToSet(wire') : e.kind = "on" /\ e.r = r
  BY <1>1, <1>2, Announced
<1>4. Truthful' /\ RosterFirst'
  BY <1>3 DEF Truthful, Right, RosterFirst
<1>5. available' \subseteq Told'
  BY <1>1, <1>3 DEF Told, About, ToSet
<1> QED BY <1>4, <1>5


-----------------------------------------------------------------------------
(* The handlers and the connection *)

\* What new work that crosses nothing runs with.
LEMMA NothingCrossed ==
    ASSUME Typed, Synced, NEW t, NEW kind \in {"roster", "on", "off", "reset"}, NEW r,
           Starts(t, kind, r), ~crossed'
    PROVE  /\ ~crossed
           /\ kind = "on" => BeingRemoved = {} /\ (row \/ BeingEnrolled = {})
           /\ kind = "roster" => BeingAdded = {} \/ row
           /\ kind \in {"off", "reset"} => BeingAdded = {}
<1>1. ~crossed /\ ~Crosses(kind)
  BY DEF Starts
<1>2. /\ kind = "on" => ~Removing /\ ~Registering
      /\ kind = "roster" => ~Adding \/ row
      /\ kind \in {"off", "reset"} => ~Adding
  BY <1>1 DEF Crosses
<1> QED BY <1>1, <1>2, Views

LEMMA TakeKeeps ==
    ASSUME PresenceInv, NEW t \in Threads, Take(t)
    PROVE  Linked' /\ RowFirst' /\ Truthful' /\ RosterFirst' /\ Unless'
<1> DEFINE e == Head(wire)
           r == TakenResource
<1>1. /\ wire # <<>> /\ wire' = Tail(wire) /\ session
      /\ UNCHANGED <<row, resources, online, link, streamID, server, session, available, emptied, left>>
  BY DEF Take, table, PresenceInv, Always, Linked
<1>2. /\ e.kind \in {"roster", "on", "off"} /\ BeginEffect(e.kind, r) /\ Starts(t, e.kind, r)
      /\ e.kind # "roster" => r = e.r /\ r \in Sources
  <2>1. e \in Element /\ Begins(t, e.kind, r)
    BY TakeBegins DEF PresenceInv, Always
  <2>2. e.kind \in {"roster", "on", "off"} /\ (e.kind # "roster" => e.r \in Sources)
    BY <2>1 DEF Element
  <2> QED BY <2>1, <2>2, BeginsEffect DEF Begins, TakenResource, PresenceInv, Always
<1>3. /\ Truthful' /\ (\A k \in DOMAIN wire' : wire'[k].kind # "roster") /\ Told' \subseteq Told
      /\ \A x \in Told \ Told' : About(e, x) /\ Right(e)
  BY <1>1, ToldTail DEF PresenceInv, Always
<1>4. Shape /\ RowFirst /\ Typed
  BY ShapeHolds DEF PresenceInv, Always
<1>a. \A y \in Sources : About(e, y) => y \in Told
  <2>1. 1 \in DOMAIN wire /\ e = wire[1]
    BY <1>1, <1>4 DEF Typed
  <2> QED BY <2>1 DEF Told
<1>b. RosterFirst' /\ (Listed' => row \/ BeingEnrolled' # {})
  <2>1. RosterFirst'
    BY <1>3 DEF RosterFirst
  <2>2. wire' # <<>> => Head(wire') = wire'[1] /\ 1 \in DOMAIN wire'
    <3>1. wire' \in Seq(Element)
      BY <1>1, <1>4, TailOf DEF Typed
    <3> QED BY <3>1
  <2> QED BY <1>1, <1>3, <2>1, <2>2 DEF Listed
<1>5. Linked'
  BY <1>1 DEF PresenceInv, Always, Linked
<1>6. RowFirst'
  BY <1>1, <1>2, <1>4 DEF BeginEffect, queued, RowFirst, Shown
<1>7. ASSUME ~crossed' PROVE Unless'
  <2>1. /\ ~crossed
        /\ e.kind = "on" => BeingRemoved = {} /\ (row \/ BeingEnrolled = {})
        /\ e.kind = "roster" => BeingAdded = {} \/ row
        /\ e.kind = "off" => BeingAdded = {}
    BY <1>2, <1>7, NothingCrossed DEF PresenceInv, Always
  <2>2. Apart /\ Agree
    BY <2>1 DEF PresenceInv, Unless
  <2>4. Apart'
    BY <1>1, <1>2, <2>1, <2>2
       DEF BeginEffect, queued, Apart, BeingAdded, BeingRemoved, BeingEnrolled
  <2>5. Agree'
    BY <1>1, <1>2, <1>4, <2>1, <2>2
       DEF BeginEffect, queued, Agree, Bringing, Marking, BeingRemoved
  <2>7. ASSUME ~left PROVE NoneLeft'
    <3>1. NoneLeft /\ link = "bound"
      BY <2>1, <2>7 DEF PresenceInv, Unless, Take
    <3>2. ASSUME NEW x \in Resources \ (available \cup Told') PROVE Gone(x)'
      <4>1. CASE x \notin Told
        <5>1. Gone(x)
          BY <1>1, <3>1, <3>2, <4>1 DEF NoneLeft
        <5>2. e.kind = "on" => x # r
          BY <1>2, <1>a, <4>1 DEF About
        <5> QED BY <1>1, <1>2, <3>2, <5>1, <5>2 DEF BeginEffect, queued, Gone
      <4>2. CASE x \in Told
        <5>1. e.kind = "off" /\ r = x
          BY <1>2, <1>3, <3>2, <4>2 DEF About, Right
        <5> QED BY <1>1, <1>2, <2>1, <5>1 DEF BeginEffect, queued, Gone, BeingAdded
      <4> QED BY <4>1, <4>2
    <3>3. Justified'
      <4> SUFFICES ASSUME online \/ Marking' # {}, resources \cup Bringing' = {}, BeingRemoved' = {},
                          Nil \notin available, Nil \notin Told'
                   PROVE  FALSE
        BY <1>1 DEF Justified
      <4>1. BeingRemoved = {} /\ e.kind # "off"
        BY <1>2 DEF BeginEffect, queued, BeingRemoved
      <4>2. Nil \notin Told
        BY <1>2, <1>3, <4>1 DEF Right, About
      <4>3. ~(e.kind = "on" /\ r = Nil)
        BY <1>2, <1>a, <4>2 DEF About, Sources
      <4>4. online \/ Marking # {} \/ (row /\ e.kind = "on")
        BY <1>1, <1>2, <4>3 DEF BeginEffect, queued, Marking
      <4>5. ~(row /\ e.kind = "on")
        BY <1>1, <1>2, <4>3 DEF BeginEffect, queued, Bringing
      <4>6. resources \cup Bringing = {}
        BY <1>1, <1>2 DEF BeginEffect, queued, Bringing
      <4> QED BY <1>1, <3>1, <4>1, <4>2, <4>4, <4>5, <4>6 DEF NoneLeft, Justified
    <3> QED BY <1>1, <3>1, <3>2, <3>3 DEF NoneLeft
  <2>8. ASSUME ~emptied PROVE NoneMissing'
    <3>1. NoneMissing
      BY <2>1, <2>8 DEF PresenceInv, Unless
    <3> SUFFICES ASSUME Listed', NEW x \in available \cap Resources, x \notin Told'
                 PROVE  Coming(x)'
      BY <1>1 DEF NoneMissing
    <3>2. Listed /\ (e.kind = "on" => row)
      <4>1. row \/ e.kind = "roster" \/ BeingEnrolled # {}
        BY <1>2, <1>b DEF BeginEffect, queued, BeingEnrolled
      <4> QED BY <1>1, <2>1, <4>1 DEF Listed
    <3>3. CASE x \notin Told
      <4>1. Coming(x) /\ ~About(e, x)
        BY <1>1, <1>a, <3>1, <3>2, <3>3 DEF NoneMissing, Sources
      <4>2. e.kind # "roster" => r # x
        BY <1>2, <4>1 DEF About
      <4> QED BY <1>1, <1>2, <4>1, <4>2 DEF BeginEffect, queued, Coming, Bringing
    <3>4. CASE x \in Told
      <4>1. e.kind = "on" /\ r = x /\ r # Nil
        BY <1>2, <1>3, <3>4, NilAssumption DEF About, Right
      <4>2. row /\ BeingRemoved = {}
        BY <2>1, <3>2, <4>1
      <4> QED BY <1>1, <1>2, <4>1, <4>2 DEF BeginEffect, queued, Coming, Bringing, BeingRemoved
    <3> QED BY <3>3, <3>4
  <2> QED BY <1>1, <2>4, <2>5, <2>7, <2>8 DEF Unless
<1>8. crossed' => Unless'
  BY DEF Unless
<1> QED BY <1>3, <1>5, <1>6, <1>7, <1>8, <1>b


LEMMA NewSessionKeeps ==
    ASSUME PresenceInv, NewSession, AtRest, UNCHANGED <<table, local, server, available>>,
           link = "reset" \/ (link = "down" /\ ~streamID /\ server # "none")
    PROVE  Linked' /\ RowFirst' /\ Truthful' /\ RosterFirst' /\ Unless'
<1>1. /\ link' = "bound" /\ session' = TRUE /\ streamID' = (server = "resume") /\ emptied' = FALSE
      /\ crossed' = (crossed /\ Shown) /\ left' = (left /\ Shown)
      /\ UNCHANGED <<row, resources, online, server, available>>
  BY DEF NewSession, table
<1>2. UNCHANGED <<doing, queued>> /\ BeingAdded = {} /\ BeingRemoved = {} /\ BeingEnrolled = {} /\ Typed
  BY WorkUnchanged, Views DEF PresenceInv, Always
<1>3. Truthful' /\ RosterFirst' /\ available' \subseteq Told'
  BY ToldAll DEF PresenceInv, Always
<1>4. Linked'
  BY <1>1 DEF Linked
<1>5. RowFirst'
  BY <1>1, <1>2 DEF doing, queued, RowFirst, Shown, PresenceInv, Always
<1>6. Apart' /\ NoneMissing'
  BY <1>1, <1>2, <1>3 DEF doing, queued, Apart, NoneMissing, BeingAdded, BeingRemoved
<1>7. Agree => Agree'
  BY <1>1, <1>2 DEF doing, queued, Agree, Bringing, Marking, BeingRemoved
<1>8. ~Shown => Agree'
  BY <1>1, <1>2 DEF doing, queued, Agree, Bringing, Marking, BeingAdded, BeingRemoved, Shown
<1>9. ~crossed' => Agree'
  BY <1>1, <1>7, <1>8 DEF PresenceInv, Unless
<1>10. ASSUME ~crossed', ~left' PROVE NoneLeft'
  <2>1. ~Shown
    <3>1. CASE Shown
      <4>1. Emptying
        BY <1>1, <1>10, <3>1 DEF PresenceInv, Unless, NoneLeft
      <4> QED BY <1>2, <4>1 DEF Emptying, BeingRemoved, Shown
    <3> QED BY <3>1
  <2>2. Justified' /\ \A r \in Resources : Gone(r)'
    BY <1>1, <1>2, <2>1 DEF doing, queued, Justified, Marking, Gone, BeingAdded, Shown
  <2> QED BY <1>1, <2>2 DEF NoneLeft
<1> QED BY <1>3, <1>4, <1>5, <1>6, <1>9, <1>10 DEF Unless

LEMMA ConnectKeeps ==
    ASSUME PresenceInv, NEW t \in Threads, Connect(t)
    PROVE  Linked' /\ RowFirst' /\ Truthful' /\ RosterFirst' /\ Unless'
<1>1. link = "down" /\ AtRest /\ UNCHANGED <<table, dbQueue, server, available, events>>
  BY DEF Connect
<1>2. CASE streamID /\ session
  <2>1. link' = "bound" /\ UNCHANGED <<thread, streamID, session, wire, crossed, emptied, left>>
    BY <1>2 DEF Connect
  <2>2. UNCHANGED <<doing, queued, row, resources, online, available>>
    BY <1>1, <2>1, WorkUnchanged DEF local, table
  <2>3. Told' = Told /\ Truthful' /\ RosterFirst'
    BY <1>1, <2>1, ToldUnchanged DEF PresenceInv, Always
  <2>4. Linked'
    BY <1>1, <1>2, <2>1 DEF Linked, PresenceInv, Always
  <2>5. RowFirst'
    BY <2>2 DEF doing, queued, RowFirst, Shown, PresenceInv, Always
  <2>a. UNCHANGED <<Bringing, Marking, BeingAdded, BeingRemoved, BeingEnrolled>>
    BY <2>2 DEF doing, queued, Bringing, Marking, BeingAdded, BeingRemoved, BeingEnrolled
  <2>6. ~crossed' => Apart' /\ Agree'
    BY <2>1, <2>2, <2>a DEF doing, queued, PresenceInv, Unless, Apart, Agree
  <2>7. ~crossed' /\ ~left' => NoneLeft'
    BY <2>1, <2>2, <2>3, <2>a DEF doing, queued, PresenceInv, Unless, NoneLeft, Gone, Justified
  <2>8. ~crossed' /\ ~emptied' => NoneMissing'
    BY <2>1, <2>2, <2>3, <2>a DEF doing, queued, PresenceInv, Unless, NoneMissing, Coming, Listed
  <2> QED BY <2>3, <2>4, <2>5, <2>6, <2>7, <2>8 DEF Unless
<1>3. CASE ~(streamID /\ session) /\ (streamID \/ server = "none")
  <2>1. /\ link' = "reset" /\ streamID' = FALSE /\ Starts(t, "reset", Nil)
        /\ UNCHANGED <<session, wire, emptied, left>>
    BY <1>3 DEF Connect
  <2>2. ~session /\ ~session'
    BY <1>1, <1>3, <2>1 DEF PresenceInv, Always, Linked
  <2>3. BeginEffect("reset", Nil)
    BY <1>1, <2>1, ResetBegins, BeginsEffect DEF Everyone, PresenceInv, Always
  <2>4. /\ BeingAdded = {} /\ BeingRemoved = {} /\ BeingEnrolled = {}
        /\ UNCHANGED <<row, resources, online>>
    BY <1>1, Views DEF PresenceInv, Always, table
  <2>5. Truthful' /\ RosterFirst'
    BY <1>1, <2>1, ToldUnchanged DEF PresenceInv, Always
  <2>6. Linked'
    BY <1>1, <2>1, <2>2 DEF Linked, PresenceInv, Always
  <2>7. RowFirst'
    BY <2>3, <2>4 DEF BeginEffect, queued, RowFirst, Shown, PresenceInv, Always
  <2>8. Apart' /\ NoneMissing'
    BY <2>2, <2>3, <2>4 DEF BeginEffect, queued, Apart, NoneMissing, BeingAdded
  <2>9. Agree => Agree'
    BY <2>3, <2>4 DEF BeginEffect, queued, Agree, Bringing, Marking, BeingRemoved
  <2>10. ~crossed' => Agree'
    BY <2>1, <2>9 DEF Starts, PresenceInv, Unless
  <2>11. NoneLeft'
    BY <2>2, <2>3, <2>4 DEF BeginEffect, queued, NoneLeft, Emptying, BeingAdded
  <2> QED BY <2>5, <2>6, <2>7, <2>8, <2>10, <2>11 DEF Unless
<1>4. CASE ~(streamID /\ session) /\ ~(streamID \/ server = "none")
  <2>1. NewSession /\ UNCHANGED local
    BY <1>1, <1>4 DEF Connect, local
  <2> QED BY <1>1, <1>4, <2>1, NewSessionKeeps
<1> QED BY <1>2, <1>3, <1>4

LEMMA BindKeeps ==
    ASSUME PresenceInv, Bind
    PROVE  Linked' /\ RowFirst' /\ Truthful' /\ RosterFirst' /\ Unless'
BY NewSessionKeeps DEF Bind

\* The stream of a session that the server keeps is not lost.
LEMMA WireLeft ==
    ASSUME PresenceInv, link' = "down", UNCHANGED <<streamID, server, available>>,
           session' = (session /\ streamID), wire' = IF session' THEN wire ELSE <<>>
    PROVE  /\ Linked' /\ Truthful' /\ RosterFirst'
           /\ session' => session /\ wire' = wire /\ Told' = Told
<1>1. Linked'
  BY DEF PresenceInv, Always, Linked, Typed
<1>2. Truthful' /\ RosterFirst'
  BY ToldUnchanged, ToldNothing DEF PresenceInv, Always
<1>3. session' => session /\ wire' = wire /\ Told' = Told
  BY ToldUnchanged
<1> QED BY <1>1, <1>2, <1>3

LEMMA TeardownKeeps ==
    ASSUME PresenceInv, Teardown
    PROVE  Linked' /\ RowFirst' /\ Truthful' /\ RosterFirst' /\ Unless'
<1>1. /\ link' = "down" /\ session' = (session /\ streamID) /\ wire' = IF session' THEN wire ELSE <<>>
      /\ UNCHANGED <<row, resources, online, dbQueue, streamID, server, available, left>>
      /\ Starts(Cleanup, "reset", Nil) /\ emptied' = TRUE
  BY DEF Teardown, StreamGone, table
<1>2. /\ Linked' /\ Truthful' /\ RosterFirst'
      /\ session' => session /\ wire' = wire /\ Told' = Told
  BY <1>1, WireLeft
<1>3. BeginEffect("reset", Nil) /\ Shape
  BY <1>1, ResetBegins, BeginsEffect, ShapeHolds DEF Everyone, PresenceInv, Always
<1>4. RowFirst'
  BY <1>1, <1>3 DEF BeginEffect, queued, RowFirst, Shown, PresenceInv, Always
<1>5. ASSUME ~crossed' PROVE Unless'
  <2>1. BeingAdded = {} /\ ~crossed
    BY <1>1, <1>5, NothingCrossed DEF PresenceInv, Always
  <2>2. Agree
    BY <2>1 DEF PresenceInv, Unless
  <2>3. Apart'
    BY <1>3, <2>1 DEF BeginEffect, queued, Apart, BeingAdded
  <2>4. Agree'
    BY <1>1, <1>3, <2>2 DEF BeginEffect, queued, Agree, Bringing, Marking, BeingRemoved
  <2>6. ASSUME ~left' PROVE NoneLeft'
    <3>1. NoneLeft
      BY <1>1, <2>1, <2>6 DEF PresenceInv, Unless
    <3>2. \A x \in Resources : Gone(x)'
      BY <1>3, <2>1 DEF BeginEffect, queued, Gone, BeingAdded
    <3>3. Emptying'
      BY <1>3, <2>1 DEF BeginEffect, queued, Emptying, BeingAdded
    <3>4. Justified'
      BY <1>3 DEF BeginEffect, Justified, BeingRemoved
    <3> QED BY <3>2, <3>3, <3>4 DEF NoneLeft
  <2> QED BY <1>1, <2>3, <2>4, <2>6 DEF Unless
<1>6. crossed' => Unless'
  BY DEF Unless
<1> QED BY <1>2, <1>4, <1>5, <1>6


LEMMA SuspendKeeps ==
    ASSUME PresenceInv, Suspend
    PROVE  Linked' /\ RowFirst' /\ Truthful' /\ RosterFirst' /\ Unless'
<1>1. /\ link # "down" /\ link' = "down" /\ session' = (session /\ streamID)
      /\ wire' = IF session' THEN wire ELSE <<>>
      /\ UNCHANGED <<row, resources, online, streamID, server, available, crossed, emptied>>
      /\ left' = (left \/ server = "count") /\ UNCHANGED local
  BY DEF Suspend, StreamGone, table, local
<1>2. /\ Linked' /\ Truthful' /\ RosterFirst'
      /\ session' => session /\ wire' = wire /\ Told' = Told
  BY <1>1, WireLeft
<1>3. UNCHANGED <<doing, queued>>
  BY <1>1, WorkUnchanged
<1>4. RowFirst'
  BY <1>1, <1>3 DEF doing, queued, RowFirst, Shown, PresenceInv, Always
<1>a. UNCHANGED <<Bringing, Marking, BeingAdded, BeingRemoved, BeingEnrolled>>
  BY <1>1, <1>3 DEF doing, queued, Bringing, Marking, BeingAdded, BeingRemoved, BeingEnrolled
<1>5. ~crossed' => Apart' /\ Agree'
  BY <1>1, <1>3, <1>a DEF doing, queued, PresenceInv, Unless, Apart, Agree
<1>6. ASSUME ~crossed', ~left' PROVE NoneLeft'
  <2>1. NoneLeft /\ server # "count"
    BY <1>1, <1>6 DEF PresenceInv, Unless
  <2>2. \A x \in Resources : Gone(x) => Gone(x)'
    BY <1>1, <1>3 DEF doing, queued, Gone
  <2>3. Emptying => Emptying'
    BY <1>1, <1>3 DEF doing, queued, Emptying, BeingAdded
  <2>4. ~streamID /\ server # "none" => link = "reset"
    BY <1>1, <2>1 DEF PresenceInv, Always, Linked, Typed
  <2>5. session' => (Justified => Justified')
    BY <1>1, <1>2, <1>a DEF Justified
  <2> QED BY <1>1, <1>2, <2>1, <2>2, <2>3, <2>4, <2>5 DEF NoneLeft
<1>7. ~crossed' /\ ~emptied' => NoneMissing'
  BY <1>1, <1>2, <1>3, <1>a DEF doing, queued, PresenceInv, Unless, NoneMissing, Coming, Listed
<1> QED BY <1>2, <1>4, <1>5, <1>6, <1>7 DEF Unless

\* A process that ends takes all work with it.
LEMMA CrashEffect ==
    ASSUME Crash
    PROVE  /\ BeingAdded' = {} /\ BeingRemoved' = {} /\ BeingEnrolled' = {}
<1>1. thread' = [t \in Everyone |-> Idle] /\ ToSet(dbQueue') = {}
  BY NoElements DEF Crash
<1>2. \A k \in {"roster", "on", "off", "reset"} : \A s : At(thread', k, s) = {}
  BY <1>1, WorkType, Kinds DEF At
<1>3. \A do : Under(dbQueue', do) = {}
  BY <1>1 DEF Under
<1>4. BeingAdded' = {}
  BY <1>2, <1>3 DEF BeingAdded, Entering, Noting, LookUps, Inserts, Asks, Sets
<1>5. BeingRemoved' = {}
  BY <1>2 DEF BeingRemoved, Deleting, Counting, Clearing, Wiping, Resetting
<1>6. BeingEnrolled' = {}
  BY <1>2, <1>3 DEF BeingEnrolled, Enrolling, Adds
<1> QED BY <1>4, <1>5, <1>6

LEMMA CrashKeeps ==
    ASSUME PresenceInv, Crash
    PROVE  Linked' /\ RowFirst' /\ Truthful' /\ RosterFirst' /\ Unless'
<1>1. /\ link' = "down" /\ session' = (session /\ streamID)
      /\ wire' = IF session' THEN wire ELSE <<>>
      /\ UNCHANGED <<row, resources, online, streamID, server, available, emptied>>
      /\ left' = (left \/ server = "count") /\ crossed' = (crossed \/ ~AtRest)
  BY DEF Crash, table
<1>2. /\ Linked' /\ Truthful' /\ RosterFirst'
      /\ session' => session /\ wire' = wire /\ Told' = Told
  BY <1>1, WireLeft
<1>3. BeingAdded' = {} /\ BeingRemoved' = {} /\ BeingEnrolled' = {}
  BY CrashEffect
<1>4. RowFirst'
  BY <1>1, <1>3 DEF RowFirst, Shown, BeingAdded, PresenceInv, Always
<1>5. ASSUME ~crossed' PROVE Unless'
  <2>1. BeingAdded = {} /\ BeingRemoved = {} /\ BeingEnrolled = {} /\ ~crossed
    BY <1>1, <1>5, Views DEF PresenceInv, Always
  <2>2. UNCHANGED <<Entering, Noting, LookUps, Inserts, Asks, Sets>>
    BY <1>3, <2>1 DEF BeingAdded
  <2>3. UNCHANGED <<Deleting, Counting, Clearing, Wiping, Resetting, BeingEnrolled, BeingAdded, BeingRemoved>>
    BY <1>3, <2>1 DEF BeingRemoved
  <2>a. UNCHANGED <<Bringing, Marking>>
    BY <1>1, <2>2 DEF Bringing, Marking
  <2>4. Apart' /\ Agree'
    BY <1>1, <2>1, <2>3, <2>a DEF PresenceInv, Unless, Apart, Agree
  <2>5. ASSUME ~left' PROVE NoneLeft'
    <3>1. NoneLeft /\ server # "count"
      BY <1>1, <2>1, <2>5 DEF PresenceInv, Unless
    <3>2. \A x \in Resources : Gone(x) => Gone(x)'
      BY <1>1, <2>2, <2>3 DEF Gone
    <3>3. Emptying => Emptying'
      BY <1>1, <2>2, <2>3 DEF Emptying
    <3>4. ~streamID /\ server # "none" => link \in {"down", "reset"}
      BY <1>1, <3>1 DEF PresenceInv, Always, Linked, Typed
    <3>5. session' => (Justified => Justified')
      BY <1>1, <1>2, <2>3, <2>a DEF Justified
    <3> QED BY <1>1, <1>2, <3>1, <3>2, <3>3, <3>4, <3>5 DEF NoneLeft
  <2>6. ~emptied' => NoneMissing'
    BY <1>1, <1>2, <2>1, <2>3, <2>a DEF PresenceInv, Unless, NoneMissing, Coming, Listed
  <2> QED BY <2>4, <2>5, <2>6 DEF Unless
<1>6. crossed' => Unless'
  BY DEF Unless
<1> QED BY <1>2, <1>4, <1>5, <1>6

LEMMA ExpireKeeps ==
    ASSUME PresenceInv, Expire
    PROVE  Linked' /\ RowFirst' /\ Truthful' /\ RosterFirst' /\ Unless'
<1>1. /\ link = "down" /\ ~session' /\ wire' = <<>>
      /\ UNCHANGED <<row, resources, online, link, streamID, server, available, crossed, emptied, left>>
      /\ UNCHANGED local
  BY DEF Expire, table, history
<1>2. UNCHANGED <<doing, queued>>
  BY <1>1, WorkUnchanged
<1>3. Linked' /\ Truthful' /\ RosterFirst'
  BY <1>1, ToldNothing DEF PresenceInv, Always, Linked
<1>4. RowFirst'
  BY <1>1, <1>2 DEF doing, queued, RowFirst, Shown, PresenceInv, Always
<1>5. ~crossed' => Apart' /\ Agree'
  BY <1>1, <1>2 DEF doing, queued, PresenceInv, Unless, Apart, Agree, Bringing, Marking,
                     BeingAdded, BeingRemoved, BeingEnrolled
<1>6. ~crossed' /\ ~left' => NoneLeft'
  BY <1>1, <1>2 DEF doing, queued, PresenceInv, Unless, NoneLeft, Emptying, BeingAdded
<1>7. NoneMissing'
  BY <1>1 DEF NoneMissing
<1> QED BY <1>3, <1>4, <1>5, <1>6, <1>7 DEF Unless

LEMMA ChangeKeeps ==
    ASSUME PresenceInv, NEW kind \in {"on", "off"}, NEW r \in Sources, Change(kind, r)
    PROVE  Linked' /\ RowFirst' /\ Truthful' /\ RosterFirst' /\ Unless'
<1>1. /\ available' = IF kind = "on" THEN available \cup {r} ELSE available \ {r}
      /\ wire' = IF session THEN Append(wire, [kind |-> kind, r |-> r]) ELSE wire
      /\ UNCHANGED <<row, resources, online, link, streamID, server, session, crossed, emptied, left>>
      /\ UNCHANGED local
  BY DEF Change, table, history
<1>2. UNCHANGED <<doing, queued>>
  BY <1>1, WorkUnchanged
<1>3. ~session => wire' = <<>>
  BY <1>1 DEF PresenceInv, Always, Linked
<1>4. /\ Truthful' /\ RosterFirst'
      /\ session => Told' = Told \cup {r}
      /\ wire' # <<>> /\ Head(wire').kind = "roster" => wire # <<>> /\ Head(wire).kind = "roster"
  <2>1. CASE session
    BY <1>1, <2>1, ToldAppended DEF PresenceInv, Always
  <2>2. CASE ~session
    BY <1>3, <2>2, ToldNothing
  <2> QED BY <2>1, <2>2
<1>5. Linked'
  BY <1>1, <1>3 DEF PresenceInv, Always, Linked
<1>6. RowFirst'
  BY <1>1, <1>2 DEF doing, queued, RowFirst, Shown, PresenceInv, Always
<1>a. UNCHANGED <<Bringing, Marking, BeingAdded, BeingRemoved, BeingEnrolled>>
  BY <1>1, <1>2 DEF doing, queued, Bringing, Marking, BeingAdded, BeingRemoved, BeingEnrolled
<1>7. ~crossed' => Apart' /\ Agree'
  BY <1>1, <1>2, <1>a DEF doing, queued, PresenceInv, Unless, Apart, Agree
<1>8. ~crossed' /\ ~left' => NoneLeft'
  <2>1. session => (Justified => Justified')
    BY <1>1, <1>4, <1>a DEF Justified
  <2> QED BY <1>1, <1>2, <1>4, <1>a, <2>1
        DEF doing, queued, PresenceInv, Unless, NoneLeft, Gone, Emptying
<1>9. ~crossed' /\ ~emptied' => NoneMissing'
  <2>1. Listed' => Listed
    BY <1>1, <1>4, <1>a DEF Listed
  <2> QED BY <1>1, <1>2, <1>4, <1>a, <2>1
        DEF doing, queued, PresenceInv, Unless, NoneMissing, Coming
<1> QED BY <1>4, <1>5, <1>6, <1>7, <1>8, <1>9 DEF Unless

-----------------------------------------------------------------------------
(* The invariant holds, and what it is for follows *)

LEMMA PresenceInit ==
    ASSUME Init
    PROVE  PresenceInv
<1>1. Typed
  <2>1. thread \in [Everyone -> Work \cup {Idle}]
    BY DEF Init
  <2>2. dbQueue \in Seq(Operation)
    BY NoElements DEF Init
  <2>3. wire \in Seq(Element)
    BY NoElements DEF Init
  <2>4. events \in 0 .. MaxEvents
    BY BoundAssumption DEF Init
  <2>5. resources \subseteq Resources /\ available \subseteq Sources
    BY DEF Init
  <2> QED BY <2>1, <2>2, <2>3, <2>4, <2>5 DEF Init, Typed
<1>2. ToSet(dbQueue) = {} /\ \A t \in Everyone : thread[t] = Idle
  BY NoElements DEF Init
<1>3. Synced
  <2>1. \A t \in Everyone : OneOf(dbQueue, By(t))
    BY FewOfFew DEF Init
  <2> QED BY <1>2, <2>1 DEF Synced, Sound
<1>4. AtRest
  BY <1>2 DEF AtRest, Init
<1>5. BeingAdded = {} /\ BeingRemoved = {} /\ BeingEnrolled = {}
  BY <1>1, <1>3, <1>4, Views
<1>6. Linked /\ Truthful /\ RosterFirst
  BY DEF Init, Linked, Truthful, RosterFirst
<1>7. RowFirst
  BY <1>5 DEF Init, RowFirst, Shown, BeingAdded
<1>8. Apart /\ NoneMissing
  BY <1>5 DEF Init, Apart, NoneMissing
<1>9. Agree
  BY <1>5 DEF Init, Agree, Bringing, Marking, BeingAdded, BeingRemoved
<1>10. NoneLeft
  BY <1>5 DEF Init, NoneLeft, Emptying
<1> QED BY <1>1, <1>3, <1>6, <1>7, <1>8, <1>9, <1>10 DEF PresenceInv, Always, Unless

LEMMA PresenceStep ==
    ASSUME PresenceInv, [Next]_vars
    PROVE  PresenceInv'
<1>1. CASE Next
  <2>1. Typed' /\ Synced'
    BY <1>1, TypedKept, CoupledKept DEF PresenceInv, Always, Coupled
  <2>2. Linked' /\ RowFirst' /\ Truthful' /\ RosterFirst' /\ Unless'
    BY <1>1, TakeKeeps, ConnectKeeps, IssueKeeps, StatementKeeps, BindKeeps, TeardownKeeps,
       SuspendKeeps, CrashKeeps, ExpireKeeps, ChangeKeeps DEF Next
  <2> QED BY <2>1, <2>2 DEF PresenceInv, Always
<1>2. CASE UNCHANGED vars
  <2>1. UNCHANGED <<row, resources, online, thread, dbQueue, link, streamID, server, session, wire,
                    available, events, crossed, emptied, left>>
    BY <1>2 DEF vars, table, local, net, history
  <2>2. UNCHANGED <<doing, queued>>
    BY <2>1, WorkUnchanged DEF local
  <2>3. Typed' /\ Synced'
    BY <2>1 DEF PresenceInv, Always, Typed, Synced
  <2>4. Linked' /\ Truthful' /\ RosterFirst' /\ Told' = Told
    BY <2>1, ToldUnchanged DEF PresenceInv, Always, Linked
  <2>5. RowFirst'
    BY <2>1, <2>2 DEF doing, queued, RowFirst, Shown, PresenceInv, Always
  <2>a. UNCHANGED <<Bringing, Marking, BeingAdded, BeingRemoved, BeingEnrolled>>
    BY <2>1, <2>2 DEF doing, queued, Bringing, Marking, BeingAdded, BeingRemoved, BeingEnrolled
  <2>6. ~crossed' => Apart' /\ Agree'
    BY <2>1, <2>2, <2>a DEF doing, queued, PresenceInv, Unless, Apart, Agree
  <2>7. ~crossed' /\ ~left' => NoneLeft'
    BY <2>1, <2>2, <2>4, <2>a DEF doing, queued, PresenceInv, Unless, NoneLeft, Gone, Emptying, Justified
  <2>8. ~crossed' /\ ~emptied' => NoneMissing'
    BY <2>1, <2>2, <2>4, <2>a DEF doing, queued, PresenceInv, Unless, NoneMissing, Coming, Listed
  <2> QED BY <2>3, <2>4, <2>5, <2>6, <2>7, <2>8 DEF PresenceInv, Always, Unless
<1> QED BY <1>1, <1>2

LEMMA PresenceInvariant == Spec => []PresenceInv
<1>1. Init => PresenceInv
  BY PresenceInit
<1>2. PresenceInv /\ [Next]_vars => PresenceInv'
  BY PresenceStep
<1> QED BY <1>1, <1>2, PTL DEF Spec

\* Every variable has the type the code gives it, only a contact in the list is
\* online, and a thread that waits on _dbQueue waits for a statement that is there.
THEOREM TypeCorrect == Spec => []TypeOK
<1>1. PresenceInv => TypeOK
  <2> SUFFICES ASSUME PresenceInv PROVE TypeOK
    OBVIOUS
  <2>1. Typed /\ Synced /\ RowFirst
    BY DEF PresenceInv, Always
  <2>2. ASSUME NEW t \in Everyone, thread[t] # Idle
        PROVE  /\ thread[t].kind \in DOMAIN Issued
               /\ thread[t].step \in DOMAIN Issued[thread[t].kind]
               /\ thread[t].waits =>
                    \E k \in DOMAIN dbQueue :
                       /\ dbQueue[k].by = t
                       /\ dbQueue[k].do = Issued[thread[t].kind][thread[t].step]
    <3>1. thread[t] \in Work /\ thread[t].step \in DOMAIN Issued[thread[t].kind]
      BY <2>1, <2>2, WorkType DEF Typed, Synced, Sound
    <3>2. thread[t].waits => Call(thread[t], t) \in ToSet(dbQueue)
      BY <2>1, <2>2 DEF Synced, Sound
    <3>3. Call(thread[t], t).by = t /\ Call(thread[t], t).do = Issued[thread[t].kind][thread[t].step]
      BY DEF Call, Do
    <3>4. thread[t].kind \in DOMAIN Issued
      BY <3>1 DEF Work
    <3> QED BY <3>1, <3>2, <3>3, <3>4 DEF ToSet
  <2>3. Shown => row
    BY <2>1 DEF RowFirst
  <2>4. history \in BOOLEAN \X BOOLEAN \X BOOLEAN /\ {streamID, session} \subseteq BOOLEAN
    BY <2>1 DEF Typed, history
  <2> QED BY <2>1, <2>2, <2>3, <2>4 DEF TypeOK, Typed
<1> QED BY <1>1, PresenceInvariant, PTL

\* In a quiet moment no resource is there that is gone, a contact with a resource is
\* online, and one without is online only if it is available without one: for any
\* number of resources, threads and events.
THEOREM OnlineStaysTrue == Spec => []OnlineIsTrue
<1>1. PresenceInv => OnlineIsTrue
  <2> SUFFICES ASSUME PresenceInv, UpToDate, ~crossed, ~left
               PROVE  /\ resources \subseteq available
                      /\ resources # {} => online
                      /\ online => resources # {} \/ Nil \in available
    BY DEF OnlineIsTrue
  <2>1. session /\ Told = {} /\ resources \subseteq Resources
    BY DEF UpToDate, Told, PresenceInv, Always, Linked, Typed
  <2>2. BeingAdded = {} /\ BeingRemoved = {}
    BY Views DEF UpToDate, PresenceInv, Always
  <2>a. Bringing = {} /\ Marking = {}
    BY <2>2 DEF Bringing, Marking, BeingAdded
  <2>3. Agree /\ NoneLeft
    BY DEF PresenceInv, Unless
  <2>4. resources \subseteq available
    BY <2>1, <2>2, <2>3 DEF NoneLeft, Gone, BeingRemoved
  <2>5. resources # {} => online
    BY <2>3, <2>a DEF Agree
  <2>6. online => resources # {} \/ Nil \in available
    BY <2>1, <2>2, <2>3, <2>a DEF NoneLeft, Justified
  <2> QED BY <2>4, <2>5, <2>6
<1> QED BY <1>1, PresenceInvariant, PTL

\* In a quiet moment no available resource of a contact in the list is missing,
\* unless the contacts were reset and the session goes on.
THEOREM MissingOnlyAfterReset == Spec => []MissingNeedsReset
<1>1. PresenceInv => MissingNeedsReset
  <2> SUFFICES ASSUME PresenceInv, UpToDate, ~crossed, ~emptied, row
               PROVE  available \ {Nil} \subseteq resources
    BY DEF MissingNeedsReset
  <2>1. session /\ Told = {} /\ available \subseteq Sources
    BY DEF UpToDate, Told, PresenceInv, Always, Linked, Typed
  <2>2. BeingAdded = {}
    BY Views DEF UpToDate, PresenceInv, Always
  <2>3. NoneMissing /\ Listed
    BY DEF PresenceInv, Unless, Listed
  <2> QED BY <2>1, <2>2, <2>3 DEF NoneMissing, Coming, Bringing, BeingAdded, Sources
<1> QED BY <1>1, PresenceInvariant, PTL
=============================================================================
