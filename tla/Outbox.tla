------------------------------- MODULE Outbox -------------------------------
(***************************************************************************)
(* The outbox: what the share extension leaves in the defaults of the app  *)
(* group, and how the app sends it (ShareViewController.m of the           *)
(* extension, sendOutboxForAccount of MLXMPPManager.m).                    *)
(*                                                                         *)
(* The extension is a process of its own. In the app a run copies the      *)
(* outbox and queues a message for each row; the block on _netQueue hands  *)
(* the message to the account and then, as its completion, writes the copy *)
(* back without the row. What becomes of the message is in SendTimers.     *)
(***************************************************************************)
EXTENDS Integers, SequencesExt, Arrays

CONSTANTS
    Shares,      \* rows the extension adds
    Commented,   \* those with a comment, which is a message of its own
    MaxRuns,     \* bound of the model: runs of sendOutboxForAccount
    MaxCrashes,  \* bound of the model: kills of the app
    Nil

Runs == 1 .. MaxRuns

ASSUME ShareAssumption == Commented \subseteq Shares
ASSUME BoundAssumption == MaxRuns \in Nat /\ MaxCrashes \in Nat
ASSUME NilAssumption ==
    Nil \notin Nat \cup Seq(Shares) \cup [row : Shares, run : Runs]

VARIABLES
    outbox,       \* the rows in the defaults
    outboxClean,  \* the copy each run writes back
    shareAt,      \* what the extension is about to write
    netQueue,     \* blocks waiting on _netQueue
    netAt,        \* the block whose completion is to run
    shared,       \* rows the extension has begun to add
    runs, crashes,
    sent,         \* history: how often the account was given a row
    comments,     \* history: and its comment
    crossed       \* history: rows that two parties had at once

app == <<outboxClean, netQueue, netAt, runs>>
history == <<sent, comments, crossed>>
vars == <<outbox, shareAt, app, shared, crashes, history>>

\* A block sends a row for a run, or a comment for nobody.
Block(s, r) == [row |-> s, run |-> r]
Blocks == [row : Shares, run : Runs \cup {Nil}]

\* removeObject:
RemoveRow(rows, s) == Subsequence(rows, {k \in DOMAIN rows : rows[k] # s})

Underway == netAt # Nil \/ \E k \in DOMAIN netQueue : netQueue[k].run # Nil

-----------------------------------------------------------------------------
(* Before some definitions stands a variant with a mistake in it, named for *)
(* the mistake: no other definition uses it.  The properties are tried      *)
(* against the specification with the variant in the definition's place.    *)

Init ==
    /\ outbox = <<>> /\ outboxClean = [r \in Runs |-> <<>>] /\ shareAt = Nil
    /\ netQueue = <<>> /\ netAt = Nil
    /\ shared = {} /\ runs = 0 /\ crashes = 0
    /\ sent = [s \in Shares |-> 0] /\ comments = [s \in Shares |-> 0]
    /\ crossed = {}

\* The extension: a copy of the outbox with one row more
ShareRead(s) ==
    /\ shareAt = Nil /\ s \notin shared
    /\ shared' = shared \cup {s}
    /\ shareAt' = Append(outbox, s)
    /\ crossed' = IF Underway THEN crossed \cup {s} \cup ToSet(outbox) ELSE crossed
    /\ UNCHANGED <<outbox, app, crashes, sent, comments>>

ShareWrite ==
    /\ shareAt # Nil
    /\ outbox' = shareAt
    /\ shareAt' = Nil
    /\ UNCHANGED <<app, shared, crashes, history>>

\* sendOutboxForAccount: an account has connected, or the app was opened.
StartRun ==
    /\ runs < MaxRuns
    /\ runs' = runs + 1
    /\ outboxClean' = [outboxClean EXCEPT ![runs'] = outbox]
    /\ netQueue' = netQueue \o [k \in DOMAIN outbox |-> Block(outbox[k], runs')]
    /\ crossed' = crossed \cup (IF Underway THEN ToSet(outbox) ELSE {})
                          \cup (IF shareAt = Nil THEN {} ELSE ToSet(shareAt))
    /\ UNCHANGED <<outbox, shareAt, netAt, shared, crashes, sent, comments>>

SendRowOrComment ==
    /\ netAt = Nil /\ netQueue # <<>>
    /\ netQueue' = Tail(netQueue)
    /\ \/ /\ sent' = [sent EXCEPT ![Head(netQueue).row] = @ + 1]
          /\ netAt' = Head(netQueue)
       \/ UNCHANGED <<sent, netAt>>
    /\ UNCHANGED <<outbox, outboxClean, runs, shareAt, shared, crashes, comments, crossed>>

SendRowDone ==
    /\ netAt = Nil /\ netQueue # <<>> /\ Head(netQueue).run # Nil
    /\ netQueue' = Tail(netQueue)
    /\ netAt' = Head(netQueue)
    /\ \/ sent' = [sent EXCEPT ![Head(netQueue).row] = @ + 1]
       \/ UNCHANGED sent
    /\ UNCHANGED <<outbox, outboxClean, runs, shareAt, shared, crashes, comments, crossed>>

\* The block of sendMessage hands the message to the account, if it is there.
SendRow ==
    /\ netAt = Nil /\ netQueue # <<>> /\ Head(netQueue).run # Nil
    /\ netQueue' = Tail(netQueue)
    /\ \/ /\ sent' = [sent EXCEPT ![Head(netQueue).row] = @ + 1]
          /\ netAt' = Head(netQueue)
       \/ UNCHANGED <<sent, netAt>>
    /\ UNCHANGED <<outbox, outboxClean, runs, shareAt, shared, crashes, comments, crossed>>

RowSentKept ==
    /\ netAt # Nil
    /\ netQueue' = IF netAt.row \in Commented
                   THEN Append(netQueue, Block(netAt.row, Nil)) ELSE netQueue
    /\ outboxClean' = [outboxClean EXCEPT ![netAt.run] = RemoveRow(@, netAt.row)]
    /\ outbox' = outbox
    /\ netAt' = Nil
    /\ UNCHANGED <<runs, shareAt, shared, crashes, history>>

\* Its completion: the comment is queued, the row leaves the copy, and the copy
\* becomes the outbox.
RowSent ==
    /\ netAt # Nil
    /\ netQueue' = IF netAt.row \in Commented
                   THEN Append(netQueue, Block(netAt.row, Nil)) ELSE netQueue
    /\ outboxClean' = [outboxClean EXCEPT ![netAt.run] = RemoveRow(@, netAt.row)]
    /\ outbox' = outboxClean'[netAt.run]
    /\ netAt' = Nil
    /\ UNCHANGED <<runs, shareAt, shared, crashes, history>>

\* Nobody looks whether the comment goes out.
SendComment ==
    /\ netAt = Nil /\ netQueue # <<>> /\ Head(netQueue).run = Nil
    /\ netQueue' = Tail(netQueue)
    /\ \/ comments' = [comments EXCEPT ![Head(netQueue).row] = @ + 1]
       \/ UNCHANGED comments
    /\ UNCHANGED <<outbox, outboxClean, netAt, runs, shareAt, shared, crashes, sent, crossed>>

\* The app is killed. A row that was handed over and is still in the outbox, or a
\* comment that was not, makes what follows differ: it is crossed.
Crash ==
    /\ crashes < MaxCrashes
    /\ crashes' = crashes + 1
    /\ crossed' = crossed \cup (IF netAt = Nil THEN {} ELSE {netAt.row})
                          \cup (IF Underway /\ shareAt # Nil THEN ToSet(shareAt) ELSE {})
    /\ netQueue' = <<>> /\ netAt' = Nil
    /\ outboxClean' = [r \in Runs |-> <<>>]
    /\ UNCHANGED <<outbox, runs, shareAt, shared, sent, comments>>

Next ==
    \/ \E s \in Shares : ShareRead(s)
    \/ ShareWrite \/ StartRun \/ SendRow \/ RowSent \/ SendComment \/ Crash

Spec == Init /\ [][Next]_vars

-----------------------------------------------------------------------------
(* Properties *)

\* The variables hold what the code's types allow.
TypeOK ==
    /\ outbox \in Seq(Shares) /\ outboxClean \in [Runs -> Seq(Shares)]
    /\ shareAt # Nil => shareAt \in Seq(Shares)
    /\ netQueue \in Seq(Blocks)
    /\ netAt # Nil => netAt \in [row : Shares, run : Runs]
    /\ shared \subseteq Shares
    /\ runs \in 0 .. MaxRuns /\ crashes \in 0 .. MaxCrashes
    /\ sent \in [Shares -> Nat] /\ comments \in [Shares -> Nat]
    /\ crossed \subseteq Shares

\* A row is given to an account once, and leaves the outbox only for that: as long
\* as the extension did not add while a run was under way, no two runs had the
\* row, and no kill came between the message and the outbox.
OutboxOnce ==
    \A s \in shared \ crossed :
       LET waits == s \in ToSet(outbox) \/ shareAt # Nil \/ netAt # Nil IN
       /\ sent[s] <= 1
       /\ ~waits => sent[s] = 1

\* A comment goes out only with its row, and never more often.
CommentFollowsRow == \A s \in Shares : comments[s] <= sent[s]
=============================================================================
