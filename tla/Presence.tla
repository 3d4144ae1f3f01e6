------------------------------ MODULE Presence ------------------------------
(***************************************************************************)
(* Which resources of a contact are online: the presences the server sends *)
(* and the statements they become (processInput in xmpp.m, DataLayer.m).   *)
(*                                                                         *)
(* Threads of the code and where they are here:                            *)
(*   processQueue    concurrent: threads of Threads, each with one handler *)
(*   networkQueue    Cleanup, which resets the contacts                    *)
(*   _dbQueue        Statement: one at a time, in order; a handler waits   *)
(*                   for a synchronous statement, what follows an          *)
(*                   asynchronous one is queued behind those that came     *)
(*                   in between                                            *)
(* One contact stands for all: only a reset concerns more than one.  It is *)
(* not a group chat, and only the roster puts it into the list.  The count *)
(* of handled stanzas is right here (it is InboundMessages' subject): a    *)
(* resumed session goes on with the first element not read.                *)
(***************************************************************************)
EXTENDS Integers, Sequences, FiniteSets

CONSTANTS
    Resources,   \* of the contact
    Threads,     \* of processQueue
    Cleanup,     \* networkQueue, as the thread of cleanUpState
    MaxEvents,   \* bound of the model: presences of the contact, teardowns,
                 \* suspends and kills
    Nil

ASSUME CleanupAssumption == Cleanup \notin Threads
ASSUME ResourcesAssumption == IsFiniteSet(Resources)
ASSUME BoundAssumption == MaxEvents \in Nat

Everyone == Threads \cup {Cleanup}

VARIABLES
    row,        \* whether buddylist has the contact
    resources,  \* buddy_resources of the contact
    online,     \* its column online
    thread,     \* the handler of each thread, and what it executes next
    dbQueue,    \* statements waiting on _dbQueue
    link,       \* "down", "reset" (negotiating), "bound"
    streamID,   \* whether the client has a session to resume
    server,     \* stream management: "none", "count" (no resumption), "resume"
    session,    \* the server holds the session of the client
    wire,       \* elements sent and not read
    available,  \* where the contact is, so far as the user is told
    events,
    crossed,    \* history: work on a presence overlapped what it must not
    emptied,    \* history: the contacts were reset, and the session goes on
    left        \* history: a session was left that is neither reset nor resumed

table == <<row, resources, online>>
local == <<thread, dbQueue>>
net == <<link, streamID, server, session, wire>>
history == <<crossed, emptied, left>>
vars == <<table, local, net, available, events, history>>

\* A presence comes from a resource or, with Nil, from the address alone.
Sources == Resources \cup {Nil}

\* The roster element is an answer that has the contact, with subscription "both".
Element == [kind : {"roster"}] \cup [kind : {"on", "off"}, r : Sources]

\* The statements of each kind of work, in the order a thread issues them, and
\* those that an asynchronous one is followed by.
Issued ==
    [roster |-> <<"add">>,
     on     |-> <<"lookup", "isOnline">>,
     off    |-> <<"delete", "count", "setOffline">>,
     reset  |-> <<"wipe", "reset">>]
Awaited == {"delete", "count", "setOffline", "wipe", "reset"}
OfOnline == {"lookup", "isOnline", "insert", "setOnline"}

Idle == [kind |-> Nil]

\* setResourceOnline returns at once for a presence without a resource.
Works(kind, r) ==
    [kind |-> kind, r |-> r, step |-> IF kind = "on" /\ r = Nil THEN 2 ELSE 1, waits |-> FALSE]
Do(statement, r, by) == [do |-> statement, r |-> r, by |-> by]

\* nil is no kind of work, no resource and no thread.
ASSUME NilAssumption == Nil \notin DOMAIN Issued /\ Nil \notin Resources /\ Nil \notin Everyone

Shown == resources # {} \/ online
AtRest == dbQueue = <<>> /\ \A t \in Everyone : thread[t] = Idle

\* What is in progress sets the contact online, or it adds the contact.
Adding ==
    \/ \E t \in Everyone : thread[t].kind = "on"
    \/ \E k \in DOMAIN dbQueue : dbQueue[k].do \in OfOnline

Registering ==
    /\ ~row
    /\ \/ \E t \in Everyone : thread[t].kind = "roster"
       \/ \E k \in DOMAIN dbQueue : dbQueue[k].do = "add"

Removing ==
    \/ \E t \in Everyone : thread[t].kind \in {"off", "reset"}
    \/ \E k \in DOMAIN dbQueue : dbQueue[k].do \in Awaited

\* Whether new work of this kind overlaps what it must not: a presence that sets the
\* contact online overlaps one that removes, a reset, or the answer that adds it.
Crosses(kind) ==
    CASE kind = "on" -> Removing \/ Registering
      [] kind = "roster" -> Adding /\ ~row
      [] OTHER -> Adding

Starts(t, kind, r) ==
    /\ thread[t] = Idle
    /\ thread' = [thread EXCEPT ![t] = Works(kind, r)]
    /\ crossed' = (crossed \/ Crosses(kind))

-----------------------------------------------------------------------------
(* Before some definitions stands a variant with a mistake in it, named for *)
(* the mistake: no other definition uses it.  The properties are tried      *)
(* against the specification with the variant in the definition's place.    *)

Init ==
    /\ row = FALSE /\ resources = {} /\ online = FALSE
    /\ thread = [t \in Everyone |-> Idle] /\ dbQueue = <<>>
    /\ link = "down" /\ streamID = FALSE
    /\ server \in {"none", "count", "resume"}
    /\ session = FALSE /\ wire = <<>>
    /\ available \in SUBSET Sources
    /\ events = 0
    /\ crossed = FALSE /\ emptied = FALSE /\ left = FALSE

-----------------------------------------------------------------------------
(* Handlers *)

\* An element that was read gets a thread.
Take(t) ==
    /\ link = "bound" /\ wire # <<>> /\ t \in Threads
    /\ LET e == Head(wire) IN
       Starts(t, e.kind, IF e.kind = "roster" THEN Nil ELSE e.r)
    /\ wire' = Tail(wire)
    /\ UNCHANGED <<table, dbQueue, link, streamID, server, session, available,
                   events, emptied, left>>

\* The thread queues its next statement, and is done after its last one unless
\* that is to be waited for.
Issue(t) ==
    /\ thread[t] # Idle /\ ~thread[t].waits
    /\ LET w == thread[t]
           statement == Issued[w.kind][w.step]
       IN /\ dbQueue' = Append(dbQueue, Do(statement, w.r, IF statement \in Awaited THEN t ELSE Nil))
          /\ thread' = [thread EXCEPT ![t] =
               IF statement \in Awaited THEN [w EXCEPT !.waits = TRUE]
               ELSE IF w.step = Len(Issued[w.kind]) THEN Idle
               ELSE [w EXCEPT !.step = @ + 1]]
    /\ UNCHANGED <<table, net, available, events, history>>

-----------------------------------------------------------------------------
(* _dbQueue *)

Executes(statement) == dbQueue # <<>> /\ Head(dbQueue).do = statement

\* A synchronous statement returns to its thread, which issues its next one or is
\* done. (What others issue in between they could as well have issued before.)
Returns(goesOn) ==
    LET t == Head(dbQueue).by
        w == thread[t]
    IN IF goesOn
       THEN /\ thread' = [thread EXCEPT ![t].step = @ + 1]
            /\ dbQueue' = Append(Tail(dbQueue), Do(Issued[w.kind][w.step + 1], w.r, t))
       ELSE /\ thread' = [thread EXCEPT ![t] = Idle]
            /\ dbQueue' = Tail(dbQueue)

\* addContact
AddContact ==
    /\ Executes("add")
    /\ row' = TRUE
    /\ dbQueue' = Tail(dbQueue)
    /\ UNCHANGED <<resources, online, thread>>

LookUpAnyway ==
    /\ Executes("lookup")
    /\ dbQueue' = Append(Tail(dbQueue), [Head(dbQueue) EXCEPT !.do = "insert"])
    /\ UNCHANGED <<table, thread>>

\* setResourceOnline: the completion inserts the resource if there is a contact.
LookUp ==
    /\ Executes("lookup")
    /\ dbQueue' = IF row THEN Append(Tail(dbQueue), [Head(dbQueue) EXCEPT !.do = "insert"])
                  ELSE Tail(dbQueue)
    /\ UNCHANGED <<table, thread>>

InsertResource ==
    /\ Executes("insert")
    /\ resources' = resources \cup {Head(dbQueue).r}
    /\ dbQueue' = Tail(dbQueue)
    /\ UNCHANGED <<row, online, thread>>

\* isBuddyOnline: the completion of setOnlineBuddy updates a contact that is not.
IsOnline ==
    /\ Executes("isOnline")
    /\ dbQueue' = IF online THEN Tail(dbQueue)
                  ELSE Append(Tail(dbQueue), [Head(dbQueue) EXCEPT !.do = "setOnline"])
    /\ UNCHANGED <<table, thread>>

SetOnline ==
    /\ Executes("setOnline")
    /\ online' = row
    /\ dbQueue' = Tail(dbQueue)
    /\ UNCHANGED <<row, resources, thread>>

DeleteResources ==
    /\ Executes("delete")
    /\ resources' = {}
    /\ Returns(row)
    /\ UNCHANGED <<row, online>>

\* setOfflineBuddy: returns if there is no contact, and deletes nothing for a
\* presence without a resource.
DeleteResource ==
    /\ Executes("delete")
    /\ resources' = resources \ {Head(dbQueue).r}
    /\ Returns(row)
    /\ UNCHANGED <<row, online>>

\* setOfflineBuddy: goes on only if no resource is left.
CountResources ==
    /\ Executes("count")
    /\ Returns(resources = {})
    /\ UNCHANGED table

SetOffline ==
    /\ Executes("setOffline")
    /\ online' = FALSE
    /\ Returns(FALSE)
    /\ UNCHANGED <<row, resources>>

\* resetContactsForAccount: two statements
WipeResources ==
    /\ Executes("wipe")
    /\ resources' = {}
    /\ Returns(TRUE)
    /\ UNCHANGED <<row, online>>

ResetContacts ==
    /\ Executes("reset")
    /\ online' = FALSE
    /\ Returns(FALSE)
    /\ UNCHANGED <<row, resources>>

Statement ==
    /\ \/ AddContact \/ LookUp \/ InsertResource \/ IsOnline \/ SetOnline
       \/ DeleteResource \/ CountResources \/ SetOffline
       \/ WipeResources \/ ResetContacts
    /\ UNCHANGED <<net, available, events, history>>

-----------------------------------------------------------------------------
(* The connection *)

\* A new session begins with the answer to the roster query and with a presence
\* from everywhere the contact is, in some order.
Announcements ==
    {order \in [1 .. Cardinality(available) -> [kind : {"on"}, r : available]] :
        \A r \in available : \E k \in DOMAIN order : order[k].r = r}

\* <enabled/> and initSession. Only a session that can be resumed has a name. The
\* answer leaves a contact alone whose subscription is not "both", but just "to".
NewSession ==
    /\ link' = "bound"
    /\ \E both \in BOOLEAN, order \in Announcements :
          wire' = (IF both THEN <<[kind |-> "roster"]>> ELSE <<>>) \o order
    /\ session' = TRUE /\ streamID' = (server = "resume")
    /\ emptied' = FALSE
    /\ crossed' = (crossed /\ Shown) /\ left' = (left /\ Shown)

\* Features and the answer to resume, seconds after the last connection: what that
\* had left on processQueue has run. Without stream management and after a refused
\* resumption the contacts are reset before the client binds a resource.
ConnectNoReset(t) ==
    /\ link = "down" /\ AtRest /\ t \in Threads
    /\ IF streamID /\ session
       THEN /\ link' = "bound"
            /\ UNCHANGED <<thread, streamID, session, wire, crossed, emptied, left>>
       ELSE IF server = "none"
       THEN /\ link' = "reset" /\ streamID' = FALSE
            /\ Starts(t, "reset", Nil)
            /\ UNCHANGED <<session, wire, emptied, left>>
       ELSE NewSession /\ UNCHANGED thread
    /\ UNCHANGED <<table, dbQueue, server, available, events>>

Connect(t) ==
    /\ link = "down" /\ AtRest /\ t \in Threads
    /\ IF streamID /\ session
       THEN /\ link' = "bound"
            /\ UNCHANGED <<thread, streamID, session, wire, crossed, emptied, left>>
       ELSE IF streamID \/ server = "none"
       THEN /\ link' = "reset" /\ streamID' = FALSE
            /\ Starts(t, "reset", Nil)
            /\ UNCHANGED <<session, wire, emptied, left>>
       ELSE NewSession /\ UNCHANGED thread
    /\ UNCHANGED <<table, dbQueue, server, available, events>>

Bind ==
    /\ link = "reset" /\ AtRest
    /\ NewSession
    /\ UNCHANGED <<table, local, server, available, events>>

\* The stream is gone: the server keeps a session that can be resumed, and what
\* was not read in it.
StreamGone ==
    /\ link # "down" /\ events < MaxEvents
    /\ events' = events + 1
    /\ link' = "down"
    /\ session' = (session /\ streamID)
    /\ wire' = IF session' THEN wire ELSE <<>>
    /\ UNCHANGED <<table, dbQueue, streamID, server, available>>

\* reconnect: and disconnectWithCompletion: clean up.
Teardown ==
    /\ StreamGone
    /\ Starts(Cleanup, "reset", Nil)
    /\ emptied' = TRUE
    /\ UNCHANGED left

\* disconnectToResume does not.
Suspend ==
    /\ StreamGone
    /\ left' = (left \/ server = "count")
    /\ UNCHANGED <<thread, crossed, emptied>>

\* The process ends at any time.
Crash ==
    /\ events < MaxEvents
    /\ events' = events + 1
    /\ link' = "down"
    /\ session' = (session /\ streamID)
    /\ wire' = IF session' THEN wire ELSE <<>>
    /\ thread' = [t \in Everyone |-> Idle] /\ dbQueue' = <<>>
    /\ crossed' = (crossed \/ ~AtRest)
    /\ left' = (left \/ server = "count")
    /\ UNCHANGED <<table, streamID, server, available, emptied>>

\* The server drops a session nobody resumed.
Expire ==
    /\ link = "down" /\ session
    /\ session' = FALSE /\ wire' = <<>>
    /\ UNCHANGED <<table, local, link, streamID, server, available, events,
                   history>>

\* The contact becomes available somewhere, says so again, or goes.
Change(kind, r) ==
    /\ events < MaxEvents
    /\ events' = events + 1
    /\ kind = "off" => r \in available
    /\ available' = IF kind = "on" THEN available \cup {r} ELSE available \ {r}
    /\ wire' = IF session THEN Append(wire, [kind |-> kind, r |-> r]) ELSE wire
    /\ UNCHANGED <<table, local, link, streamID, server, session, history>>

-----------------------------------------------------------------------------
Next ==
    \/ \E t \in Threads : Take(t) \/ Connect(t)
    \/ \E t \in Everyone : Issue(t)
    \/ Statement \/ Bind
    \/ Teardown \/ Suspend \/ Crash \/ Expire
    \/ \E kind \in {"on", "off"}, r \in Sources : Change(kind, r)

Spec == Init /\ [][Next]_vars

-----------------------------------------------------------------------------
(* Properties *)

\* The variables hold what the code's types allow, what is online is in the list of
\* contacts, and a thread waits only for a statement of its own.
TypeOK ==
    /\ row \in BOOLEAN /\ resources \subseteq Resources /\ online \in BOOLEAN
    /\ Shown => row
    /\ \A t \in Everyone :
          thread[t] # Idle =>
             /\ thread[t].kind \in DOMAIN Issued
             /\ thread[t].step \in DOMAIN Issued[thread[t].kind]
             /\ thread[t].waits =>
                  \E k \in DOMAIN dbQueue :
                     /\ dbQueue[k].by = t
                     /\ dbQueue[k].do = Issued[thread[t].kind][thread[t].step]
    /\ link \in {"down", "reset", "bound"} /\ {streamID, session} \subseteq BOOLEAN
    /\ wire \in Seq(Element)
    /\ available \subseteq Sources
    /\ events \in 0 .. MaxEvents
    /\ history \in BOOLEAN \X BOOLEAN \X BOOLEAN

\* The client has handled what the server sent in this session.
UpToDate == link = "bound" /\ wire = <<>> /\ AtRest

\* What is shown is true, whatever is resumed, refused or suspended and however
\* presences of the same kind overlap: no resource is there that is gone, a contact
\* with a resource is online, and one without is online only if it is available
\* without a resource. The exceptions: a presence that sets online overlapped one
\* that removes, a reset or the roster; a kill hit one; or a server that does not
\* resume sessions was left without a reset.
OnlineIsTrue ==
    UpToDate /\ ~crossed /\ ~left =>
       /\ resources \subseteq available
       /\ resources # {} => online
       /\ online => resources # {} \/ Nil \in available

\* Nothing is missing of a contact in the list either, except in a session that goes
\* on after the cleanup of a teardown has reset the contacts: what the resumed server
\* sends then are the changes, and the client sends a presence that asks for nothing
\* more. (A contact that no roster had with subscription "both" is not in the list,
\* and its presences are dropped.)
MissingNeedsReset ==
    UpToDate /\ ~crossed /\ ~emptied /\ row => available \ {Nil} \subseteq resources
=============================================================================
