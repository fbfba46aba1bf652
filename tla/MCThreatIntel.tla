---------------------------- MODULE MCThreatIntel ----------------------------
(***************************************************************************)
(* TLC instances of ThreatIntel: two findings and what is known of them.   *)
(***************************************************************************)
EXTENDS ThreatIntel, TLC

CONSTANTS log4shell, xss, java, web, beat, admin

CveOf == (java :> log4shell) @@ (web :> xss)
OwnOf == (java :> "low") @@ (web :> "medium")
CvssOf == (java :> 0) @@ (web :> 6)
Pages == (log4shell :> [refs |-> {"github"}, v31 |-> -1, v30 |-> 4, v2 |-> 3]) @@ (xss :> None)
Scores == (log4shell :> 50) @@ (xss :> None)

\* Less than there is for beat.
Limits == (beat :> 1) @@ (admin :> 2)
=============================================================================
