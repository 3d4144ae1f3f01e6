-------------------------- MODULE ConnectionClaims --------------------------
(***************************************************************************)
(* What comments, logs and documentation say of the connection and the code*)
(* does not keep.                                                          *)
(***************************************************************************)
EXTENDS Connection

\* "Stream end encoutered.. reconnecting." (xmpp.m:3779): after the end of the
\* stream of an account that logged in, the account gets a new connection.
EndReconnects == Quiescent /\ cause = "end" => Connected
=============================================================================
