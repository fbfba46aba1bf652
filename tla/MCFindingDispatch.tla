-------------------------- MODULE MCFindingDispatch --------------------------
(***************************************************************************)
(* TLC instances of FindingDispatch.                                       *)
(***************************************************************************)
EXTENDS FindingDispatch, TLC

CONSTANT rce

RceIsCritical == rce :> "critical"
=============================================================================
