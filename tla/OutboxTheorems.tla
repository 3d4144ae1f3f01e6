---------------------------- MODULE OutboxTheorems ----------------------------
(***************************************************************************)
(* Safety of the outbox, for any rows, runs and kills and every order of   *)
(* the two processes.                                                      *)
(***************************************************************************)
EXTENDS Outbox, ArraysTheorems, TLAPS

-----------------------------------------------------------------------------
(* Rows and blocks *)

\* removeObject: leaves the other rows, and leaves each as often as it was.
LEMMA RowRemoved ==
    ASSUME NEW q \in Seq(Shares), NEW s \in Shares
    PROVE  /\ RemoveRow(q, s) \in Seq(Shares)
           /\ ToSet(RemoveRow(q, s)) = ToSet(q) \ {s}
           /\ \A t \in Shares : Once(q, t) => Once(RemoveRow(q, s), t)
<1> DEFINE K == {k \in DOMAIN q : q[k] # s}
<1>1. K \in SUBSET (1 .. Len(q)) /\ DOMAIN q = 1 .. Len(q)
  OBVIOUS
<1>2. Subsequence(q, K) \in Seq(Shares)
  BY <1>1, SubsequenceType
<1>3. /\ \A k \in DOMAIN Subsequence(q, K) : \E i \in K : Subsequence(q, K)[k] = q[i]
      /\ \A i \in K : \E k \in DOMAIN Subsequence(q, K) : Subsequence(q, K)[k] = q[i]
      /\ \A e : (\A i, j \in K : q[i] = e /\ q[j] = e => i = j) =>
            \A a, b \in DOMAIN Subsequence(q, K) :
               Subsequence(q, K)[a] = e /\ Subsequence(q, K)[b] = e => a = b
  BY <1>1, SubsequenceElements
<1>k. \A i : i \in K <=> i \in DOMAIN q /\ q[i] # s
  OBVIOUS
<1> HIDE DEF K
<1>4. ToSet(Subsequence(q, K)) = ToSet(q) \ {s}
  <2>1. ToSet(Subsequence(q, K)) \subseteq ToSet(q) \ {s}
    BY <1>3, <1>k DEF ToSet
  <2>2. ToSet(q) \ {s} \subseteq ToSet(Subsequence(q, K))
    BY <1>3, <1>k, Zenon DEF ToSet
  <2> QED BY <2>1, <2>2
<1>5. \A t \in Shares : Once(q, t) => Once(Subsequence(q, K), t)
  BY <1>3, <1>k, Zenon DEF Once
<1> QED BY <1>2, <1>4, <1>5 DEF RemoveRow, K

LEMMA BlockFields ==
    /\ Nil \notin Runs
    /\ \A b \in Blocks : /\ b.row \in Shares /\ b.run \in Runs \cup {Nil}
                         /\ b = Block(b.row, b.run)
                         /\ b.run # Nil => b \in [row : Shares, run : Runs]
    /\ \A s \in Shares, r \in Runs \cup {Nil} :
          Block(s, r) \in Blocks /\ Block(s, r).row = s /\ Block(s, r).run = r
<1>1. Nil \notin Runs
  BY NilAssumption, BoundAssumption DEF Runs
<1> QED BY <1>1 DEF Blocks, Block

\* The blocks a run queues
NewBlocks(r) == [k \in DOMAIN outbox |-> Block(outbox[k], r)]

LEMMA NewBlocksType ==
    ASSUME outbox \in Seq(Shares), NEW r \in Runs
    PROVE  /\ NewBlocks(r) \in Seq(Blocks)
           /\ DOMAIN NewBlocks(r) = DOMAIN outbox
           /\ \A k \in DOMAIN outbox : NewBlocks(r)[k] = Block(outbox[k], r)
<1>1. \A k \in 1 .. Len(outbox) : Block(outbox[k], r) \in Blocks
  BY BlockFields
<1>2. DOMAIN outbox = 1 .. Len(outbox) /\ Len(outbox) \in Nat
  OBVIOUS
<1> QED BY <1>1, <1>2 DEF NewBlocks

LEMMA Incremented ==
    ASSUME NEW f \in [Shares -> Nat], NEW s \in Shares
    PROVE  /\ [f EXCEPT ![s] = @ + 1] \in [Shares -> Nat]
           /\ \A t \in Shares : [f EXCEPT ![s] = @ + 1][t] = IF t = s THEN f[t] + 1 ELSE f[t]
<1>1. f[s] + 1 \in Nat
  OBVIOUS
<1> QED BY <1>1

-----------------------------------------------------------------------------
(* Types *)

LEMMA TypeStep == TypeOK /\ Next => TypeOK'
<1> SUFFICES ASSUME TypeOK, Next PROVE TypeOK'
  OBVIOUS
<1> USE DEF app, history
<1>1. ASSUME NEW s \in Shares, ShareRead(s) PROVE TypeOK'
  <2>1. Append(outbox, s) \in Seq(Shares) /\ ToSet(outbox) \subseteq Shares
    BY AppendedTo DEF TypeOK, ToSet
  <2> QED BY <1>1, <2>1 DEF ShareRead, TypeOK
<1>2. CASE ShareWrite
  BY <1>2 DEF ShareWrite, TypeOK
<1>3. CASE StartRun
  <2>1. runs' \in Runs /\ runs' \in 0 .. MaxRuns /\ netQueue' = netQueue \o NewBlocks(runs')
    BY <1>3, BoundAssumption DEF StartRun, TypeOK, Runs, NewBlocks
  <2>2. netQueue' \in Seq(Blocks)
    BY <2>1, NewBlocksType, Concatenated DEF TypeOK
  <2>3. outboxClean' \in [Runs -> Seq(Shares)]
    BY <1>3, <2>1 DEF StartRun, TypeOK
  <2>4. ToSet(outbox) \subseteq Shares /\ (shareAt # Nil => ToSet(shareAt) \subseteq Shares)
    BY DEF TypeOK, ToSet
  <2> QED BY <1>3, <2>1, <2>2, <2>3, <2>4 DEF StartRun, TypeOK
<1>4. CASE SendRow
  <2>1. Head(netQueue) \in [row : Shares, run : Runs] /\ Tail(netQueue) \in Seq(Blocks)
    BY <1>4, TailOf, BlockFields DEF SendRow, TypeOK
  <2>2. sent' \in [Shares -> Nat]
    <3>1. Head(netQueue).row \in Shares /\ sent \in [Shares -> Nat]
      BY <2>1 DEF TypeOK
    <3>2. [sent EXCEPT ![Head(netQueue).row] = @ + 1] \in [Shares -> Nat]
      BY <3>1, Incremented
    <3> QED BY <1>4, <3>1, <3>2 DEF SendRow
  <2> QED BY <1>4, <2>1, <2>2 DEF SendRow, TypeOK
<1>5. CASE RowSent
  <2>1. netAt \in [row : Shares, run : Runs] /\ netAt.row \in Shares /\ netAt.run \in Runs
    BY <1>5 DEF RowSent, TypeOK
  <2>2. netQueue' \in Seq(Blocks)
    BY <1>5, <2>1, BlockFields, AppendedTo DEF RowSent, TypeOK
  <2>3. RemoveRow(outboxClean[netAt.run], netAt.row) \in Seq(Shares)
    BY <2>1, RowRemoved DEF TypeOK
  <2>4. outboxClean' \in [Runs -> Seq(Shares)] /\ outbox' \in Seq(Shares)
    BY <1>5, <2>1, <2>3 DEF RowSent, TypeOK
  <2> QED BY <1>5, <2>2, <2>4 DEF RowSent, TypeOK
<1>6. CASE SendComment
  <2>1. Head(netQueue).row \in Shares /\ Tail(netQueue) \in Seq(Blocks)
    BY <1>6, TailOf, BlockFields DEF SendComment, TypeOK
  <2>2. comments' \in [Shares -> Nat]
    <3>1. comments \in [Shares -> Nat]
      BY DEF TypeOK
    <3>2. [comments EXCEPT ![Head(netQueue).row] = @ + 1] \in [Shares -> Nat]
      BY <2>1, <3>1, Incremented
    <3> QED BY <1>6, <3>1, <3>2 DEF SendComment
  <2> QED BY <1>6, <2>1, <2>2 DEF SendComment, TypeOK
<1>7. CASE Crash
  <2>1. <<>> \in Seq(Blocks) /\ <<>> \in Seq(Shares)
    BY NoElements
  <2>2. shareAt # Nil => ToSet(shareAt) \subseteq Shares
    BY DEF TypeOK, ToSet
  <2>3. netAt # Nil => netAt.row \in Shares
    BY DEF TypeOK
  <2> QED BY <1>7, <2>1, <2>2, <2>3, BoundAssumption DEF Crash, TypeOK
<1> QED BY <1>1, <1>2, <1>3, <1>4, <1>5, <1>6, <1>7 DEF Next

\* Every reachable state of the outbox is well typed.
THEOREM TypeCorrect == Spec => []TypeOK
<1>1. Init => TypeOK
  BY NoElements, BoundAssumption DEF Init, TypeOK
<1>2. TypeOK /\ [Next]_vars => TypeOK'
  <2>1. TypeOK /\ UNCHANGED vars => TypeOK'
    BY DEF TypeOK, vars, app, history
  <2> QED BY <2>1, TypeStep
<1> QED BY <1>1, <1>2, PTL DEF Spec

-----------------------------------------------------------------------------
(* A comment goes out only with its row *)

Waiting(s) == Copies(netQueue, Block(s, Nil))

\* Comments sent, waiting, and to be queued by the completion of a row
CommentsCounted ==
    \A s \in Shares :
       comments[s] + Waiting(s) + (IF netAt # Nil /\ netAt.row = s THEN 1 ELSE 0) <= sent[s]

LEMMA CommentsStep == TypeOK /\ CommentsCounted /\ Next => CommentsCounted'
<1> SUFFICES ASSUME TypeOK, CommentsCounted, Next, NEW s \in Shares
             PROVE  (comments[s] + Waiting(s)
                        + (IF netAt # Nil /\ netAt.row = s THEN 1 ELSE 0) <= sent[s])'
  BY DEF CommentsCounted
<1> USE DEF app, history
<1> DEFINE b == Block(s, Nil)
           here == IF netAt # Nil /\ netAt.row = s THEN 1 ELSE 0
<1>0. /\ comments[s] \in Nat /\ sent[s] \in Nat /\ here \in {0, 1}
      /\ Copies(netQueue, b) \in Nat
      /\ comments[s] + Copies(netQueue, b) + here <= sent[s]
  BY CopiesType DEF TypeOK, CommentsCounted, Waiting
<1>q. SUFFICES comments'[s] + Copies(netQueue', b) + here' <= sent'[s]
  BY DEF Waiting
<1> HIDE DEF b
<1>1. ASSUME NEW t \in Shares, ShareRead(t) PROVE comments'[s] + Copies(netQueue', b) + here' <= sent'[s]
  BY <1>0, <1>1 DEF ShareRead
<1>2. CASE ShareWrite
  BY <1>0, <1>2 DEF ShareWrite
<1>3. CASE StartRun
  <2>1. runs' \in Runs /\ netQueue' = netQueue \o NewBlocks(runs')
    BY <1>3, BoundAssumption DEF StartRun, TypeOK, Runs, NewBlocks
  <2>2. Places(NewBlocks(runs'), b) = {}
    <3>1. \A k \in DOMAIN outbox : Block(outbox[k], runs') # Block(s, Nil)
      BY <2>1, BlockFields DEF Block
    <3>2. \A k \in DOMAIN NewBlocks(runs') : NewBlocks(runs')[k] # b
      <4>1. outbox \in Seq(Shares)
        BY DEF TypeOK
      <4> QED BY <2>1, <3>1, <4>1, NewBlocksType DEF b
    <3> QED BY ONLY <3>2 DEF Places
  <2>3. Copies(netQueue', b) = Copies(netQueue, b)
    <3>1. netQueue \in Seq(Blocks) /\ NewBlocks(runs') \in Seq(Blocks)
      BY <2>1, NewBlocksType DEF TypeOK
    <3>2. Places(netQueue \o NewBlocks(runs'), b) = Places(netQueue, b)
      BY ONLY <2>2, <3>1, ConcatenatedPlaces
    <3> QED BY ONLY <2>1, <3>2 DEF Copies
  <2> QED BY <1>0, <1>3, <2>3 DEF StartRun
<1>4. CASE SendRow
  <2>1. Copies(netQueue', b) = IF Head(netQueue) = b THEN Copies(netQueue, b) - 1 ELSE Copies(netQueue, b)
    BY <1>4, TailCopies DEF SendRow, TypeOK
  <2>2. Head(netQueue) # b
    BY <1>4, BlockFields DEF SendRow, b
  <2>3. netAt = Nil /\ Head(netQueue).row \in Shares /\ comments' = comments
    BY <1>4, TailOf, BlockFields DEF SendRow, TypeOK
  <2>4. CASE sent' = [sent EXCEPT ![Head(netQueue).row] = @ + 1] /\ netAt' = Head(netQueue)
    <3>1. sent'[s] = sent[s] + (IF Head(netQueue).row = s THEN 1 ELSE 0)
      BY <1>0, <2>3, <2>4 DEF TypeOK
    <3>2. here' <= IF Head(netQueue).row = s THEN 1 ELSE 0
      BY <2>4
    <3>3. here = 0 /\ here' \in {0, 1}
      BY <2>3
    <3> HIDE DEF here
    <3> QED BY <1>0, <2>1, <2>2, <2>3, <3>1, <3>2, <3>3
  <2>5. CASE UNCHANGED <<sent, netAt>>
    BY <1>0, <2>1, <2>2, <2>3, <2>5
  <2> QED BY <1>4, <2>4, <2>5 DEF SendRow
<1>5. CASE RowSent
  <2>1. netAt # Nil /\ netAt.row \in Shares /\ netAt' = Nil /\ comments' = comments /\ sent' = sent
    BY <1>5 DEF RowSent, TypeOK
  <2>2. Block(netAt.row, Nil) \in Blocks /\ Block(netAt.row, Nil).row = netAt.row /\ b.row = s
    BY <2>1, BlockFields DEF b
  <2>3. Copies(netQueue', b) = Copies(netQueue, b)
           + (IF netAt.row \in Commented /\ Block(netAt.row, Nil) = b THEN 1 ELSE 0)
    <3>1. CASE netAt.row \in Commented
      <4>1. netQueue' = Append(netQueue, Block(netAt.row, Nil))
        BY <1>5, <3>1 DEF RowSent
      <4>2. Copies(netQueue', b) = IF Block(netAt.row, Nil) = b THEN Copies(netQueue, b) + 1
                                  ELSE Copies(netQueue, b)
        BY <2>2, <4>1, AppendedCopies DEF TypeOK
      <4> QED BY <1>0, <3>1, <4>2
    <3>2. CASE netAt.row \notin Commented
      BY <1>0, <1>5, <3>2 DEF RowSent
    <3> QED BY <3>1, <3>2
  <2>4. Block(netAt.row, Nil) = b => here = 1
    BY <2>1, <2>2
  <2>5. here' = 0
    BY <2>1
  <2> HIDE DEF here
  <2> QED BY <1>0, <2>1, <2>3, <2>4, <2>5
<1>6. CASE SendComment
  <2>1. Copies(netQueue', b) = IF Head(netQueue) = b THEN Copies(netQueue, b) - 1 ELSE Copies(netQueue, b)
    BY <1>6, TailCopies DEF SendComment, TypeOK
  <2>2. Head(netQueue) \in Blocks /\ Head(netQueue).run = Nil /\ here' = here /\ sent' = sent
    BY <1>6, TailOf DEF SendComment, TypeOK
  <2>3. Head(netQueue).row = s => Head(netQueue) = b
    BY <2>2, BlockFields DEF b
  <2>4. \/ comments'[s] = comments[s]
        \/ comments'[s] = IF s = Head(netQueue).row THEN comments[s] + 1 ELSE comments[s]
    BY <1>6, <2>2, BlockFields, Incremented DEF SendComment, TypeOK
  <2>5. comments'[s] \in {comments[s], IF Head(netQueue) = b THEN comments[s] + 1 ELSE comments[s]}
    BY <2>3, <2>4
  <2> HIDE DEF here
  <2> QED BY <1>0, <2>1, <2>2, <2>4, <2>5
<1>7. CASE Crash
  <2>1. Copies(netQueue', b) = 0
    BY <1>7, FS_EmptySet DEF Crash, Copies, Places
  <2>2. here' = 0 /\ comments' = comments /\ sent' = sent
    BY <1>7 DEF Crash
  <2> HIDE DEF here
  <2> QED BY <1>0, <2>1, <2>2
<1> QED BY <1>1, <1>2, <1>3, <1>4, <1>5, <1>6, <1>7 DEF Next

\* A comment goes out only with its row and never more often, whatever is killed.
THEOREM CommentsFollowRows == Spec => []CommentFollowsRow
<1>1. Init => CommentsCounted
  BY FS_EmptySet DEF Init, CommentsCounted, Waiting, Copies, Places
<1>2. TypeOK /\ CommentsCounted /\ [Next]_vars => CommentsCounted'
  <2>1. CommentsCounted /\ UNCHANGED vars => CommentsCounted'
    BY DEF CommentsCounted, Waiting, vars, app, history
  <2> QED BY <2>1, CommentsStep
<1>3. TypeOK /\ CommentsCounted => CommentFollowsRow
  <2> SUFFICES ASSUME TypeOK, CommentsCounted, NEW s \in Shares PROVE comments[s] <= sent[s]
    BY DEF CommentFollowsRow
  <2>1. comments[s] \in Nat /\ sent[s] \in Nat /\ Waiting(s) \in Nat
    BY CopiesType DEF TypeOK, Waiting
  <2>2. comments[s] + Waiting(s) + (IF netAt # Nil /\ netAt.row = s THEN 1 ELSE 0) <= sent[s]
    BY DEF CommentsCounted
  <2> QED BY <2>1, <2>2
<1> QED BY <1>1, <1>2, <1>3, TypeCorrect, PTL DEF Spec

-----------------------------------------------------------------------------
(* A row is sent once and leaves the outbox only for that *)

Waits(s) == s \in ToSet(outbox)
InShare(s) == shareAt # Nil /\ s \in ToSet(shareAt)
Handed(s) == netAt # Nil /\ netAt.row = s
Queued(s) == \E k \in DOMAIN netQueue : netQueue[k].row = s /\ netQueue[k].run # Nil

\* Runs that will write their copy of the outbox back
Active == {r \in Runs : \/ netAt # Nil /\ netAt.run = r
                        \/ \E k \in DOMAIN netQueue : netQueue[k].run = r}

\* Before it is shared a row is nowhere. While the extension has it, nothing is
\* under way. In the outbox it waits for one block of one run, the last, whose copy
\* has it as long as the outbox does. Outside it was sent.
Unshared(s) ==
    s \notin shared =>
       ~ Waits(s) /\ ~ InShare(s) /\ ~ Handed(s) /\ ~ Queued(s) /\ sent[s] = 0

Shared(s) ==
    /\ InShare(s) => ~ Underway /\ sent[s] = 0 /\ Once(shareAt, s)
    /\ shareAt # Nil /\ Waits(s) => InShare(s)

InOutbox(s) ==
    /\ Waits(s) => Once(outbox, s) /\ sent[s] = IF Handed(s) THEN 1 ELSE 0
    /\ s \in shared /\ ~ Waits(s) /\ ~ InShare(s) => sent[s] = 1

InCopies(s) ==
    \A r \in Active :
       /\ s \in ToSet(outboxClean[r]) <=> Waits(s)
       /\ Once(outboxClean[r], s)
       /\ Waits(s) => r = runs

InQueue(s) ==
    /\ Queued(s) => Waits(s) /\ ~ Handed(s)
    /\ Handed(s) => Waits(s)
    /\ Once(netQueue, Block(s, runs))

Orderly(s) == Unshared(s) /\ Shared(s) /\ InOutbox(s) /\ InCopies(s) /\ InQueue(s)

Ordered ==
    /\ \A r \in Active : r <= runs
    /\ \A s \in Shares : s \notin crossed => Orderly(s)

\* Something is under way exactly if a run is active.
LEMMA ActiveUnderway ==
    ASSUME TypeOK
    PROVE  /\ Underway <=> Active # {}
           /\ \A s \in Shares : Queued(s) =>
                 \E r \in Active, k \in DOMAIN netQueue : netQueue[k] = Block(s, r)
           /\ netAt # Nil => netAt.run \in Active
<1>1. \A k \in DOMAIN netQueue : /\ netQueue[k] = Block(netQueue[k].row, netQueue[k].run)
                                 /\ netQueue[k].run # Nil => netQueue[k].run \in Runs
  BY BlockFields DEF TypeOK
<1>2. netAt # Nil => netAt.run \in Runs
  BY DEF TypeOK
<1>3. Nil \notin Runs
  BY BlockFields
<1> QED BY <1>1, <1>2, <1>3 DEF Underway, Active, Queued

LEMMA ActiveUnderwayNext ==
    ASSUME TypeOK', NEW s \in Shares, Queued(s)'
    PROVE  \E r \in Active', k \in DOMAIN netQueue' : netQueue'[k] = Block(s, r)
<1>1. \A k \in DOMAIN netQueue' :
         /\ netQueue'[k] = Block(netQueue'[k].row, netQueue'[k].run)
         /\ netQueue'[k].run # Nil => netQueue'[k].run \in Runs
  BY BlockFields DEF TypeOK
<1> QED BY <1>1 DEF Active, Queued

LEMMA RunsStep == TypeOK /\ Ordered /\ Next => (\A r \in Active : r <= runs)'
<1> SUFFICES ASSUME TypeOK, \A r \in Active : r <= runs, Next, NEW r \in Active'
             PROVE  r <= runs'
  BY DEF Ordered
<1> USE DEF app, history
<1>0. r \in Runs /\ r \in Nat /\ runs \in Nat
  BY BoundAssumption DEF Active, Runs, TypeOK
<1>1. (r \in Active /\ runs' = runs) => r <= runs'
  OBVIOUS
<1>2. CASE StartRun
  <2>1. runs' \in Runs /\ netQueue' = netQueue \o NewBlocks(runs') /\ runs' = runs + 1
    BY <1>2, BoundAssumption DEF StartRun, TypeOK, Runs, NewBlocks
  <2>2. r \in Active \/ r = runs'
    <3>1. ToSet(netQueue') = ToSet(netQueue) \cup ToSet(NewBlocks(runs'))
      BY <2>1, NewBlocksType, Concatenated DEF TypeOK
    <3>2. \A b \in ToSet(NewBlocks(runs')) : b.run = runs'
      <4>1. \A k \in DOMAIN outbox : outbox[k] \in Shares
        BY DEF TypeOK
      <4> QED BY <2>1, <4>1, NewBlocksType, BlockFields DEF ToSet, TypeOK
    <3>3. netAt' = netAt
      BY <1>2 DEF StartRun
    <3> QED BY <3>1, <3>2, <3>3 DEF Active, ToSet
  <2> QED BY <1>0, <2>1, <2>2
<1>3. CASE SendRow
  <2>1. Head(netQueue) \in ToSet(netQueue) /\ ToSet(netQueue') \subseteq ToSet(netQueue)
    BY <1>3, TailOf DEF SendRow, TypeOK
  <2>2. r \in Active /\ runs' = runs
    BY <1>3, <2>1 DEF SendRow, Active, ToSet
  <2> QED BY <1>1, <2>2
<1>4. CASE RowSent
  <2>1. \A c \in ToSet(netQueue') : c \in ToSet(netQueue) \/ c.run = Nil
    BY <1>4, BlockFields, AppendedTo DEF RowSent, TypeOK
  <2>2. r \in Active /\ runs' = runs
    BY <1>0, <1>4, <2>1, BlockFields DEF RowSent, Active, ToSet
  <2> QED BY <1>1, <2>2
<1>5. CASE SendComment
  <2>1. ToSet(netQueue') \subseteq ToSet(netQueue)
    BY <1>5, TailOf DEF SendComment, TypeOK
  <2>2. r \in Active /\ runs' = runs
    BY <1>5, <2>1 DEF SendComment, Active, ToSet
  <2> QED BY <1>1, <2>2
<1>6. CASE Crash
  BY <1>6 DEF Crash, Active
<1>7. CASE ShareWrite
  BY <1>1, <1>7 DEF ShareWrite, Active
<1>8. ASSUME NEW s \in Shares, ShareRead(s) PROVE r <= runs'
  BY <1>1, <1>8 DEF ShareRead, Active
<1> QED BY <1>2, <1>3, <1>4, <1>5, <1>6, <1>7, <1>8 DEF Next

\* What is under way only gets less, except when a run starts.
LEMMA UnderwayStep ==
    ASSUME TypeOK, Next, ~ StartRun
    PROVE  /\ Active' \subseteq Active
           /\ \A s \in Shares : Queued(s)' => Queued(s)
<1> USE DEF app, history
<1>1. CASE netQueue' = netQueue /\ netAt' = netAt
  BY <1>1 DEF Active, Queued
<1>2. CASE SendRow
  <2>1. Head(netQueue) \in ToSet(netQueue) /\ ToSet(netQueue') \subseteq ToSet(netQueue)
    BY <1>2, TailOf DEF SendRow, TypeOK
  <2>2. Active' \subseteq Active
    BY <1>2, <2>1 DEF SendRow, Active, ToSet
  <2>3. \A s \in Shares : Queued(s)' => Queued(s)
    BY <2>1 DEF Queued, ToSet
  <2> QED BY <2>2, <2>3
<1>3. CASE RowSent
  <2>1. \A c \in ToSet(netQueue') : c \in ToSet(netQueue) \/ c.run = Nil
    BY <1>3, BlockFields, AppendedTo DEF RowSent, TypeOK
  <2>2. Active' \subseteq Active
    BY <1>3, <2>1, BlockFields DEF RowSent, Active, ToSet
  <2>3. \A s \in Shares : Queued(s)' => Queued(s)
    BY <2>1 DEF Queued, ToSet
  <2> QED BY <2>2, <2>3
<1>4. CASE SendComment
  <2>1. ToSet(netQueue') \subseteq ToSet(netQueue)
    BY <1>4, TailOf DEF SendComment, TypeOK
  <2>2. Active' \subseteq Active
    BY <1>4, <2>1 DEF SendComment, Active, ToSet
  <2>3. \A s \in Shares : Queued(s)' => Queued(s)
    BY <2>1 DEF Queued, ToSet
  <2> QED BY <2>2, <2>3
<1>5. CASE Crash
  BY <1>5 DEF Crash, Active, Queued
<1>6. CASE ShareWrite
  BY <1>1, <1>6 DEF ShareWrite
<1>7. ASSUME NEW s \in Shares, ShareRead(s)
      PROVE  netQueue' = netQueue /\ netAt' = netAt
  BY <1>7 DEF ShareRead
<1> QED BY <1>1, <1>2, <1>3, <1>4, <1>5, <1>6, <1>7 DEF Next

LEMMA ShareReadOrderly ==
    ASSUME TypeOK, NEW t \in Shares, ShareRead(t), NEW s \in Shares, s \notin crossed', Orderly(s)
    PROVE  Orderly(s)'
<1> USE DEF app, history
<1>1. /\ outbox' = outbox /\ UNCHANGED <<outboxClean, netQueue, netAt, runs, sent>>
      /\ shareAt = Nil /\ t \notin shared /\ shared' = shared \cup {t}
      /\ shareAt' = Append(outbox, t)
      /\ Underway => s # t /\ s \notin ToSet(outbox)
  BY DEF ShareRead
<1>2. ToSet(shareAt') = ToSet(outbox) \cup {t} /\ outbox \in Seq(Shares)
  BY <1>1, AppendedTo DEF TypeOK
<1>3. /\ Waits(s)' = Waits(s) /\ Handed(s)' = Handed(s) /\ Queued(s)' = Queued(s)
      /\ Active' = Active /\ Underway' = Underway
  BY <1>1 DEF Waits, Handed, Queued, Active, Underway
<1>4. ~ Underway => ~ Handed(s) /\ ~ Queued(s)
  BY DEF Underway, Handed, Queued
<1>5. InShare(s)' => ~ Underway /\ (s = t \/ Waits(s))
  BY <1>1, <1>2 DEF InShare, Waits
<1>6. s \notin shared => ~ Waits(s) /\ sent[s] = 0
  BY DEF Orderly, Unshared
<1>7. InShare(s)' => sent[s] = 0
  BY <1>1, <1>4, <1>5, <1>6 DEF Orderly, InOutbox
<1>8. InShare(s)' => Once(Append(outbox, t), s)
  <2>1. Once(outbox, s)
    BY DEF Orderly, InOutbox, Waits, Once, ToSet
  <2>2. t = s => s \notin ToSet(outbox)
    BY <1>1, <1>6 DEF Waits
  <2> QED BY <1>2, <2>1, <2>2, AppendedOnce
<1>9. Shared(s)'
  <2>1. Waits(s)' /\ (shareAt # Nil)' => InShare(s)'
    BY <1>1, <1>2 DEF InShare, Waits
  <2> QED BY <1>1, <1>3, <1>5, <1>7, <1>8, <2>1 DEF Shared
<1>10. Unshared(s)'
  <2>1. s \notin shared' => s # t /\ s \notin shared
    BY <1>1
  <2> QED BY <1>1, <1>3, <1>5, <2>1 DEF Orderly, Unshared
<1>11. InOutbox(s)'
  <2>1. s = t => InShare(s)'
    <3>1. Append(outbox, t) # Nil
      BY <1>2, AppendedTo, NilAssumption
    <3> QED BY <1>1, <1>2, <3>1 DEF InShare
  <2>2. ~ InShare(s)
    BY <1>1 DEF InShare
  <2> QED BY <1>1, <1>3, <2>1, <2>2 DEF Orderly, InOutbox, Waits
<1>12. InCopies(s)' /\ InQueue(s)'
  BY <1>1, <1>3 DEF Orderly, InCopies, InQueue
<1> QED BY <1>9, <1>10, <1>11, <1>12 DEF Orderly

LEMMA ShareWriteOrderly ==
    ASSUME TypeOK, ShareWrite, NEW s \in Shares, Orderly(s)
    PROVE  Orderly(s)'
<1> USE DEF app, history
<1>1. /\ outbox' = shareAt /\ shareAt # Nil /\ shareAt' = Nil
      /\ UNCHANGED <<outboxClean, netQueue, netAt, runs, sent, shared>>
  BY DEF ShareWrite
<1>2. /\ Waits(s)' = InShare(s) /\ ~ InShare(s)'
      /\ Handed(s)' = Handed(s) /\ Queued(s)' = Queued(s)
      /\ Active' = Active /\ Underway' = Underway
  BY <1>1 DEF Waits, InShare, Handed, Queued, Active, Underway
<1>3. ~ Underway => ~ Handed(s) /\ ~ Queued(s) /\ Active = {}
  BY ActiveUnderway DEF Underway, Handed, Queued
<1>4. CASE InShare(s)
  <2>1. ~ Underway /\ sent[s] = 0 /\ Once(shareAt, s) /\ s \in shared
    BY <1>4 DEF Orderly, Shared, Unshared
  <2> QED BY <1>1, <1>2, <1>3, <1>4, <2>1
          DEF Orderly, Unshared, Shared, InOutbox, InCopies, InQueue
<1>5. CASE ~ InShare(s)
  <2>1. ~ Waits(s)
    BY <1>1, <1>5 DEF Orderly, Shared
  <2> QED BY <1>1, <1>2, <1>5, <2>1
          DEF Orderly, Unshared, Shared, InOutbox, InCopies, InQueue
<1> QED BY <1>4, <1>5

LEMMA StartRunOrderly ==
    ASSUME TypeOK, StartRun, \A r \in Active : r <= runs,
           NEW s \in Shares, s \notin crossed', Orderly(s)
    PROVE  Orderly(s)'
<1> USE DEF app, history
<1>1. /\ runs' = runs + 1 /\ runs' \in Runs /\ runs \in Nat
      /\ outboxClean' = [outboxClean EXCEPT ![runs'] = outbox]
      /\ netQueue' = netQueue \o NewBlocks(runs')
      /\ UNCHANGED <<outbox, shareAt, netAt, shared, sent>>
  BY BoundAssumption DEF StartRun, TypeOK, Runs, NewBlocks
<1>2. /\ Waits(s)' = Waits(s) /\ InShare(s)' = InShare(s) /\ Handed(s)' = Handed(s)
      /\ ~ InShare(s)
      /\ Waits(s) => ~ Underway
  BY <1>1 DEF StartRun, Waits, InShare, Handed
<1>3. /\ netQueue' \in Seq(Blocks) /\ ToSet(netQueue') = ToSet(netQueue) \cup ToSet(NewBlocks(runs'))
      /\ netQueue \in Seq(Blocks) /\ NewBlocks(runs') \in Seq(Blocks)
  BY <1>1, NewBlocksType, Concatenated DEF TypeOK
<1>4. \A c : c \in ToSet(NewBlocks(runs')) =>
                 c.run = runs' /\ c.row \in ToSet(outbox)
  <2>1. \A k \in DOMAIN outbox : outbox[k] \in Shares
    BY DEF TypeOK
  <2>2. \A c : c \in ToSet(NewBlocks(runs')) => \E k \in DOMAIN outbox : c = Block(outbox[k], runs')
    <3>1. outbox \in Seq(Shares)
      BY DEF TypeOK
    <3> QED BY <1>1, <3>1, NewBlocksType DEF ToSet
  <2>3. \A k \in DOMAIN outbox :
           Block(outbox[k], runs').run = runs' /\ Block(outbox[k], runs').row = outbox[k]
    BY ONLY <1>1, <2>1, BlockFields
  <2> QED BY ONLY <2>2, <2>3 DEF ToSet
<1>q. \A k \in DOMAIN netQueue' :
         \/ \E j \in DOMAIN netQueue : netQueue'[k] = netQueue[j]
         \/ netQueue'[k].run = runs' /\ netQueue'[k].row \in ToSet(outbox)
  <2>1. \A k \in DOMAIN netQueue' : netQueue'[k] \in ToSet(netQueue')
    BY DEF ToSet
  <2>2. \A c \in ToSet(netQueue) : \E j \in DOMAIN netQueue : c = netQueue[j]
    BY DEF ToSet
  <2> QED BY <1>3, <1>4, <2>1, <2>2, Zenon
<1>5. \A r \in Active' : r \in Active \/ r = runs'
  <2> SUFFICES ASSUME NEW r \in Active' PROVE r \in Active \/ r = runs'
    OBVIOUS
  <2>1. CASE netAt # Nil /\ netAt.run = r
    BY <2>1 DEF Active
  <2>2. ASSUME NEW k \in DOMAIN netQueue', netQueue'[k].run = r
        PROVE  r \in Active \/ r = runs'
    BY <1>q, <2>2 DEF Active
  <2> QED BY <1>1, <2>1, <2>2 DEF Active
<1>6. Queued(s)' => Queued(s) \/ Waits(s)
  BY <1>q DEF Queued, Waits
<1>7. \A r \in Active : outboxClean'[r] = outboxClean[r]
  BY <1>1 DEF Active, Runs
<1>8. outboxClean'[runs'] = outbox
  BY <1>1 DEF TypeOK
<1>9. ~ Queued(s) => Block(s, runs') \notin ToSet(netQueue)
  BY <1>1, BlockFields DEF Queued, ToSet
<1>10. CASE Waits(s)
  <2>1. ~ Underway /\ Active = {} /\ ~ Handed(s) /\ ~ Queued(s) /\ s \in shared
    BY <1>2, <1>10, ActiveUnderway DEF Underway, Handed, Queued, Orderly, Unshared
  <2>2. Once(outbox, s) /\ sent[s] = 0
    BY <1>10, <2>1 DEF Orderly, InOutbox
  <2>3. Once(netQueue', Block(s, runs'))
    <3>1. Block(s, runs') \notin ToSet(netQueue)
      BY <1>9, <2>1
    <3>2. Once(NewBlocks(runs'), Block(s, runs'))
      <4>1. \A k \in DOMAIN outbox : /\ outbox[k] \in Shares
                                     /\ NewBlocks(runs')[k] = Block(outbox[k], runs')
        BY <1>1, NewBlocksType DEF TypeOK
      <4>2. \A k \in DOMAIN outbox : NewBlocks(runs')[k] = Block(s, runs') => outbox[k] = s
        BY <1>1, <4>1, BlockFields
      <4> QED BY <1>1, <2>2, <4>2, NewBlocksType DEF Once, TypeOK
    <3> QED BY <1>1, <1>3, <3>1, <3>2, ConcatenatedOnce
  <2>4. InCopies(s)'
    BY <1>1, <1>2, <1>5, <1>8, <1>10, <2>1, <2>2 DEF InCopies, Waits
  <2> QED BY <1>1, <1>2, <1>10, <2>1, <2>2, <2>3, <2>4
          DEF Orderly, Unshared, Shared, InOutbox, InQueue
<1>11. CASE ~ Waits(s)
  <2>1. ~ Queued(s) /\ ~ Queued(s)'
    BY <1>6, <1>11 DEF Orderly, InQueue
  <2>2. Once(netQueue', Block(s, runs'))
    <3>1. Block(s, runs').row = s /\ Block(s, runs').run = runs' /\ runs' # Nil
      BY <1>1, BlockFields
    <3>2. \A k \in DOMAIN netQueue' : netQueue'[k] # Block(s, runs')
      BY <2>1, <3>1 DEF Queued
    <3> QED BY ONLY <3>2 DEF Once
  <2>3. InCopies(s)'
    BY <1>2, <1>5, <1>7, <1>8, <1>11 DEF Orderly, InCopies, Waits, Once, ToSet
  <2> QED BY <1>1, <1>2, <1>11, <2>1, <2>2, <2>3
          DEF Orderly, Unshared, Shared, InOutbox, InQueue
<1> QED BY <1>10, <1>11

LEMMA SendRowOrderly ==
    ASSUME TypeOK, Next, SendRow, NEW s \in Shares, Orderly(s)
    PROVE  Orderly(s)'
<1> USE DEF app, history
<1> DEFINE h == Head(netQueue)
<1>1. /\ netAt = Nil /\ netQueue # <<>> /\ netQueue' = Tail(netQueue)
      /\ UNCHANGED <<outbox, outboxClean, runs, shareAt, shared>>
  BY DEF SendRow
<1>2. /\ h \in Blocks /\ h.row \in Shares /\ h.run \in Runs /\ h # Nil
      /\ h = Block(h.row, h.run) /\ h.run \in Active
      /\ 1 \in DOMAIN netQueue /\ netQueue[1] = h /\ netQueue \in Seq(Blocks)
  <2>1. 1 \in DOMAIN netQueue /\ netQueue[1] = h /\ netQueue \in Seq(Blocks)
    BY <1>1 DEF TypeOK
  <2>2. h \in Blocks /\ h.run # Nil
    BY <2>1 DEF SendRow
  <2>3. h.run \in Runs /\ h \in [row : Shares, run : Runs]
    BY <2>2, BlockFields
  <2>4. h # Nil
    BY <2>3, NilAssumption
  <2> QED BY <2>1, <2>2, <2>3, <2>4, BlockFields DEF Active
<1>3. /\ Waits(s)' = Waits(s) /\ InShare(s)' = InShare(s) /\ ~ Handed(s)
      /\ Underway /\ ~ InShare(s)
  <2>1. Underway
    BY <1>2 DEF SendRow, Underway
  <2> QED BY <1>1, <2>1 DEF Waits, InShare, Handed, Orderly, Shared
<1>4. (Queued(s)' => Queued(s)) /\ Active' \subseteq Active
  <2>1. ~ StartRun
    BY <1>1, BoundAssumption DEF StartRun, TypeOK
  <2> QED BY <2>1, UnderwayStep
<1>5. Once(netQueue', Block(s, runs))
  BY <1>1, <1>2, TailOnce DEF Orderly, InQueue
<1>6. InCopies(s)'
  BY <1>1, <1>3, <1>4 DEF Orderly, InCopies
<1>7. \/ sent' = [sent EXCEPT ![h.row] = @ + 1] /\ netAt' = h
      \/ sent' = sent /\ netAt' = Nil
  BY <1>1 DEF SendRow
<1>8. CASE h.row = s
  <2>1. Queued(s) /\ Waits(s) /\ s \in shared /\ sent[s] = 0
    BY <1>2, <1>3, <1>8, BlockFields DEF Queued, Orderly, InQueue, Unshared, InOutbox
  <2>2. h = Block(s, runs)
    BY <1>2, <1>8, <2>1 DEF Orderly, InCopies
  <2>3. Block(s, runs) \notin ToSet(netQueue')
    BY <1>1, <1>2, <2>2, TailOnce DEF Orderly, InQueue
  <2>4. ~ Queued(s)'
    <3> SUFFICES ASSUME Queued(s)' PROVE FALSE
      OBVIOUS
    <3>1. TypeOK'
      BY TypeStep
    <3>2. PICK r \in Active', k \in DOMAIN netQueue' : netQueue'[k] = Block(s, r)
      BY <3>1, ActiveUnderwayNext
    <3>3. r = runs
      BY <1>4, <2>1, <3>2 DEF Orderly, InCopies
    <3> QED BY <2>3, <3>2, <3>3 DEF ToSet
  <2>5. sent'[s] = (IF Handed(s)' THEN 1 ELSE 0)
    BY <1>2, <1>7, <1>8, <2>1 DEF Handed, TypeOK
  <2> QED BY <1>1, <1>3, <1>5, <1>6, <2>1, <2>4, <2>5
          DEF Orderly, Unshared, Shared, InOutbox, InQueue
<1>9. CASE h.row # s
  <2>1. sent'[s] = sent[s] /\ ~ Handed(s)'
    BY <1>2, <1>7, <1>9 DEF Handed, TypeOK
  <2> QED BY <1>1, <1>3, <1>4, <1>5, <1>6, <2>1
          DEF Orderly, Unshared, Shared, InOutbox, InQueue
<1> QED BY <1>8, <1>9

LEMMA RowSentOrderly ==
    ASSUME TypeOK, Next, RowSent, NEW s \in Shares, Orderly(s)
    PROVE  Orderly(s)'
<1> USE DEF app, history
<1> DEFINE t == netAt.row
           r0 == netAt.run
<1>1. /\ netAt # Nil /\ netAt' = Nil /\ t \in Shares /\ r0 \in Runs
      /\ outboxClean' = [outboxClean EXCEPT ![r0] = RemoveRow(outboxClean[r0], t)]
      /\ outbox' = RemoveRow(outboxClean[r0], t)
      /\ outboxClean[r0] \in Seq(Shares)
      /\ UNCHANGED <<runs, shareAt, shared, sent>>
      /\ runs \in Nat
  BY DEF RowSent, TypeOK
<1>2. /\ ToSet(outbox') = ToSet(outboxClean[r0]) \ {t}
      /\ Once(outboxClean[r0], s) => Once(outbox', s)
  BY <1>1, RowRemoved
<1>3. r0 \in Active /\ Underway
  BY <1>1, ActiveUnderway
<1>4. (Queued(s)' => Queued(s)) /\ Active' \subseteq Active
  <2>1. ~ StartRun
    BY <1>1, BoundAssumption DEF StartRun, TypeOK
  <2> QED BY <2>1, UnderwayStep
<1>5. /\ ~ Handed(s)' /\ InShare(s)' = InShare(s) /\ ~ InShare(s)
  BY <1>1, <1>3 DEF Handed, InShare, Orderly, Shared
<1>6. Once(netQueue', Block(s, runs))
  <2>1. CASE t \in Commented
    <3>1. netQueue' = Append(netQueue, Block(t, Nil)) /\ Block(t, Nil) \in Blocks
      BY <1>1, <2>1, BlockFields DEF RowSent
    <3>2. Block(t, Nil) # Block(s, runs)
      BY <1>1, NilAssumption DEF Block
    <3> QED BY <3>1, <3>2, AppendedOnce DEF Orderly, InQueue, TypeOK
  <2>2. CASE t \notin Commented
    BY <1>1, <2>2 DEF RowSent, Orderly, InQueue
  <2> QED BY <2>1, <2>2
<1>7. CASE t = s
  <2>1. Handed(s) /\ Waits(s) /\ s \in shared /\ sent[s] = 1 /\ ~ Queued(s)
    BY <1>1, <1>7 DEF Handed, Orderly, InQueue, InOutbox, Unshared
  <2>2. r0 = runs /\ \A r \in Active : r = runs
    BY <1>3, <2>1 DEF Orderly, InCopies
  <2>3. ~ Waits(s)'
    BY <1>2, <1>7 DEF Waits
  <2>4. InCopies(s)'
    <3>1. \A r \in Active' : outboxClean'[r] = outbox'
      BY <1>1, <1>4, <2>2 DEF TypeOK
    <3> QED BY <2>3, <3>1 DEF InCopies, Waits, Once, ToSet
  <2> QED BY <1>1, <1>4, <1>5, <1>6, <2>1, <2>3, <2>4
          DEF Orderly, Unshared, Shared, InOutbox, InQueue
<1>8. CASE t # s
  <2>1. ~ Handed(s) /\ Waits(s)' = Waits(s)
    BY <1>2, <1>3, <1>8 DEF Handed, Waits, Orderly, InCopies
  <2>2. Waits(s)' => Once(outbox', s)
    BY <1>2, <1>3 DEF Orderly, InCopies
  <2>3. InCopies(s)'
    <3> SUFFICES ASSUME NEW r \in Active'
                 PROVE  /\ s \in ToSet(outboxClean'[r]) <=> Waits(s)
                        /\ Once(outboxClean'[r], s)
                        /\ Waits(s) => r = runs
      BY <1>1, <2>1 DEF InCopies
    <3>1. r \in Active /\ r \in Runs
      BY <1>4 DEF Active
    <3>2. CASE r = r0
      <4>1. outboxClean'[r] = outbox'
        BY <1>1, <3>2 DEF TypeOK
      <4> QED BY <1>2, <1>8, <3>1, <3>2, <4>1 DEF Orderly, InCopies
    <3>3. CASE r # r0
      <4>1. outboxClean'[r] = outboxClean[r]
        BY <1>1, <3>1, <3>3 DEF TypeOK
      <4> QED BY <3>1, <4>1 DEF Orderly, InCopies
    <3> QED BY <3>2, <3>3
  <2> QED BY <1>1, <1>4, <1>5, <1>6, <2>1, <2>2, <2>3
          DEF Orderly, Unshared, Shared, InOutbox, InQueue
<1> QED BY <1>7, <1>8

LEMMA SendCommentOrderly ==
    ASSUME TypeOK, Next, SendComment, NEW s \in Shares, Orderly(s)
    PROVE  Orderly(s)'
<1> USE DEF app, history
<1>1. /\ netAt = Nil /\ netQueue # <<>> /\ netQueue' = Tail(netQueue)
      /\ UNCHANGED <<outbox, outboxClean, netAt, runs, shareAt, shared, sent>>
  BY DEF SendComment
<1>2. (Queued(s)' => Queued(s)) /\ Active' \subseteq Active
  <2>1. ~ StartRun
    BY <1>1, BoundAssumption DEF StartRun, TypeOK
  <2> QED BY <2>1, UnderwayStep
<1>3. /\ Waits(s)' = Waits(s) /\ InShare(s)' = InShare(s) /\ Handed(s)' = Handed(s)
      /\ Underway' => Underway
  <2>1. Underway' => Underway
    <3>1. ToSet(netQueue') \subseteq ToSet(netQueue)
      BY <1>1, TailOf DEF TypeOK
    <3> QED BY <1>1, <3>1 DEF Underway, ToSet
  <2> QED BY <1>1, <2>1 DEF Waits, InShare, Handed
<1>4. Once(netQueue', Block(s, runs))
  BY <1>1, TailOnce DEF Orderly, InQueue, TypeOK
<1> QED BY <1>1, <1>2, <1>3, <1>4
        DEF Orderly, Unshared, Shared, InOutbox, InCopies, InQueue

LEMMA CrashOrderly ==
    ASSUME TypeOK, Crash, NEW s \in Shares, s \notin crossed', Orderly(s)
    PROVE  Orderly(s)'
<1> USE DEF app, history
<1>1. /\ netQueue' = <<>> /\ netAt' = Nil
      /\ UNCHANGED <<outbox, runs, shareAt, shared, sent>>
      /\ netAt # Nil => s # netAt.row
  BY DEF Crash
<1>2. /\ Waits(s)' = Waits(s) /\ InShare(s)' = InShare(s)
      /\ ~ Handed(s) /\ ~ Handed(s)' /\ ~ Queued(s)' /\ ~ Underway' /\ Active' = {}
  BY <1>1 DEF Waits, InShare, Handed, Queued, Underway, Active
<1>3. Once(netQueue', Block(s, runs'))
  BY <1>1 DEF Once
<1> QED BY <1>1, <1>2, <1>3
        DEF Orderly, Unshared, Shared, InOutbox, InCopies, InQueue

LEMMA OrderedStep == TypeOK /\ Ordered /\ Next => Ordered'
<1> SUFFICES ASSUME TypeOK, Ordered, Next, NEW s \in Shares, s \notin crossed'
             PROVE  Orderly(s)'
  BY RunsStep DEF Ordered
<1>1. crossed \subseteq crossed'
  BY DEF Next, ShareRead, ShareWrite, StartRun, SendRow, RowSent, SendComment, Crash, app, history
<1>2. Orderly(s) /\ \A r \in Active : r <= runs
  BY <1>1 DEF Ordered
<1>3. ASSUME NEW t \in Shares, ShareRead(t) PROVE Orderly(s)'
  BY <1>2, <1>3, ShareReadOrderly
<1>4. CASE ShareWrite
  BY <1>2, <1>4, ShareWriteOrderly
<1>5. CASE StartRun
  BY <1>2, <1>5, StartRunOrderly
<1>6. CASE SendRow
  BY <1>2, <1>6, SendRowOrderly
<1>7. CASE RowSent
  BY <1>2, <1>7, RowSentOrderly
<1>8. CASE SendComment
  BY <1>2, <1>8, SendCommentOrderly
<1>9. CASE Crash
  BY <1>2, <1>9, CrashOrderly
<1> QED BY <1>3, <1>4, <1>5, <1>6, <1>7, <1>8, <1>9 DEF Next

\* A row that no two parties had at once is given to an account once, and is still
\* with somebody until then.
THEOREM RowsSentOnce == Spec => []OutboxOnce
<1>1. Init => Ordered
  BY DEF Init, Ordered, Orderly, Unshared, Shared, InOutbox, InCopies, InQueue,
         Active, Waits, InShare, Handed, Queued, Once, ToSet
<1>2. TypeOK /\ Ordered /\ [Next]_vars => Ordered'
  <2>1. Ordered /\ UNCHANGED vars => Ordered'
    BY DEF Ordered, Orderly, Unshared, Shared, InOutbox, InCopies, InQueue,
           Active, Waits, InShare, Handed, Queued, Underway, vars, app, history
  <2> QED BY <2>1, OrderedStep
<1>3. TypeOK /\ Ordered => OutboxOnce
  <2> SUFFICES ASSUME TypeOK, Ordered, NEW s \in shared \ crossed
               PROVE  /\ sent[s] <= 1
                      /\ ~ (s \in ToSet(outbox) \/ shareAt # Nil \/ netAt # Nil) => sent[s] = 1
    BY DEF OutboxOnce
  <2>1. s \in Shares /\ Orderly(s) /\ sent[s] \in Nat
    BY DEF TypeOK, Ordered
  <2>2. CASE Waits(s)
    BY <2>1, <2>2 DEF Orderly, InOutbox, Waits
  <2>3. CASE ~ Waits(s) /\ InShare(s)
    BY <2>1, <2>3 DEF Orderly, Shared, InShare
  <2>4. CASE ~ Waits(s) /\ ~ InShare(s)
    BY <2>1, <2>4 DEF Orderly, InOutbox
  <2> QED BY <2>2, <2>3, <2>4
<1> QED BY <1>1, <1>2, <1>3, TypeCorrect, PTL DEF Spec
=============================================================================
