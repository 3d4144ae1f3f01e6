----------------------- MODULE StreamManagementClaims -----------------------
(***************************************************************************)
(* What comments in xmpp.m say of stream management and the code does not  *)
(* do.  Each is the one property of a run that finds it violated.          *)
(***************************************************************************)
EXTENDS StreamManagement

\* xmpp.m:2252, the handler of <resumed/>: "remove already delivered stanzas and
\* resend the (still) unacked ones". An acknowledgment would remove no message
\* the server has not handled. (Streams on which every stanza was numbered.)
OnlyDeliveredRemoved ==
    [][RemoveUnAcked /\ streamID # Nil /\ streamID = srv.sid /\ srv.extra = 0 =>
          Recorded(unAcked) \ Recorded(unAcked') \subseteq handled]_vars

\* xmpp.m:633, disconnectWithCompletion: "preserve unAckedStanzas even on
\* explicitLogout and resend them on next connect". What was recorded when the
\* logout cleans up would still be saved afterwards.
LogoutPreserves ==
    [][explicitLogout /\ Cleanup =>
          Recorded(unAcked) \subseteq Recorded(persisted'.unAcked)]_vars

\* xmpp.m:3057 and 3060, initSession without stream management: "send out messages
\* still in the queue, even if smacks is not supported this time", "clear queue
\* afterwards (we don't want to repeat this)". What the clearing forgets would have
\* been sent: it waits to be written, is on the wire, or was handled.
SentBeforeCleared ==
    [][Clear /\ link =>
          Recorded(unAcked) \subseteq InQueue(netQueue) \cup OnWire(c2s) \cup handled]_vars
=============================================================================
