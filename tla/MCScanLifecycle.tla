--------------------------- MODULE MCScanLifecycle ---------------------------
(***************************************************************************)
(* TLC instance of ScanLifecycle: a pipeline (disc, then va), and a scan   *)
(* that is created or imported and never started.                          *)
(***************************************************************************)
EXTENDS ScanLifecycle, TLC

CONSTANTS disc, va, solo

AllScans == {disc, va, solo}
PipelineFollow == (disc :> va @@ va :> None @@ solo :> None)
OncePublished == (disc :> 1 @@ va :> 1 @@ solo :> 0)
=============================================================================
