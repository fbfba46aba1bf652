------------------------ MODULE MCEngagementApproval ------------------------
(***************************************************************************)
(* TLC instances of EngagementApproval: who created which scan.            *)
(***************************************************************************)
EXTENDS EngagementApproval, TLC

CONSTANTS scanA, lead, admin

\* The scan was created by one of the two admins.
MadeByLead == scanA :> lead
AnyRequest == Permutations(Changes) \cup Permutations(Exports)
=============================================================================
