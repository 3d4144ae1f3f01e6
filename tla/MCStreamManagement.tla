------------------------- MODULE MCStreamManagement -------------------------
(* Small instances of StreamManagement for TLC. *)
EXTENDS StreamManagementClaims

CONSTANTS disco, presence

TwoControls == {disco, presence}
OneCleanable == {disco}
NoStanzas == <<>>
PresenceFollows == [st \in {disco} |-> <<presence>>]
NoControl == {}
NoFollow == <<>>
=============================================================================
