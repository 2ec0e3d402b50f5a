--------------------------- MODULE MCInvitations ---------------------------
(* Instances of Invitations, and with it of Teams, for TLC. *)
EXTENDS Invitations, TLC

\* Every invitation is written to the same newcomer: they compete for one address.
OneAddress == [i \in Ids |-> CHOOSE u \in Newcomers : TRUE]

Everything == {"add", "remove", "disband", "create", "rename", "suspend", "reactivate"}

MeetingAnAcceptance == {"disband", "create"}

Interchangeable == Permutations(Requests) \cup Permutations(Ids)
=============================================================================
