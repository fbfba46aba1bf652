-------------------------- MODULE MCScheduleDispatch --------------------------
(***************************************************************************)
(* TLC instances of ScheduleDispatch.                                      *)
(***************************************************************************)
EXTENDS ScheduleDispatch

CONSTANTS nightly, weekly
=============================================================================
