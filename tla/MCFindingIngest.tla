--------------------------- MODULE MCFindingIngest ---------------------------
(***************************************************************************)
(* TLC instances of FindingIngest: the reports of the scans.               *)
(***************************************************************************)
EXTENDS FindingIngest, TLC

CONSTANTS xss, tls, nucleiScan, zapScan

\* Two scans of one asset whose reports overlap; one has a finding twice.
OverlappingReports == (nucleiScan :> <<xss, tls>>) @@ (zapScan :> <<tls, tls>>)
=============================================================================
