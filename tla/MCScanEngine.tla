---------------------------- MODULE MCScanEngine ----------------------------
(***************************************************************************)
(* TLC instances of ScanEngine: the probes of the scan, in their order.    *)
(***************************************************************************)
EXTENDS ScanEngine

CONSTANTS web, db

\* Five ports of one host and two of another; targets come one after another.
TwoHosts == <<web, web, web, web, web, db, db>>

\* One host.
OneHost == <<web, web, web, web>>
=============================================================================
