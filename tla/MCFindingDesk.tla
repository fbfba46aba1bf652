--------------------------- MODULE MCFindingDesk ---------------------------
(***************************************************************************)
(* TLC instances of FindingDesk: a critical and a low finding.             *)
(***************************************************************************)
EXTENDS FindingDesk, TLC

CONSTANTS rce, hdr, vault, groq, console

SeverityOf == rce :> "critical" @@ hdr :> "low"
OwaspOf == rce :> "A03" @@ hdr :> "A05"
Plain == [iso |-> {}, pci |-> {}, gdpr |-> {}, csf |-> {}, sp |-> {}]
TagsOf == rce :> [Plain EXCEPT !.pci = {"3.4"}, !.sp = {"RA-5"}] @@ hdr :> [Plain EXCEPT !.iso = {"A.8.9"}]
TraitsOf ==
  rce :> [asset |-> vault, cde |-> TRUE, personal |-> TRUE, kev |-> TRUE, overdue |-> FALSE, hit |-> FALSE] @@
  hdr :> [asset |-> console, cde |-> FALSE, personal |-> FALSE, kev |-> FALSE, overdue |-> TRUE, hit |-> TRUE]
ApiOf == groq :> groq @@ console :> groq
Pairs == {<<rce, hdr>>, <<hdr, rce>>}

Strict == [provider |-> "auto", anthropic |-> TRUE, enabled |-> TRUE, fallback |-> FALSE]
Lenient == [Strict EXCEPT !.anthropic = FALSE, !.fallback = TRUE]
Deployments == {Strict, Lenient}

Questions == {{"vulnerabilities", "cde", "critical"}, {"vulnerabilities", "kev", "high"}}

Unmarked == [i \in PtesPhases \cup AsvsChapters |-> "none"]
Sweep == [type |-> "discovery", engine |-> "nmap", roe |-> TRUE, authenticated |-> FALSE,
          marks |-> [Unmarked EXCEPT !["threat_modeling"] = "done", !["V13"] = "pending"]]
Assess == [Sweep EXCEPT !.type = "pt", !.engine = "zap", !.authenticated = TRUE,
                        !.marks = [Unmarked EXCEPT !["post_exploitation"] = "done",
                                                   !["threat_modeling"] = "pending"]]
Unclear == [Assess EXCEPT !.marks = [Unmarked EXCEPT !["post_exploitation"] = "done", !["V13"] = "unclear"]]
Loaded == {<<Assess>>, <<Sweep, Assess>>, <<Assess, Sweep>>, <<Sweep, Unclear>>}
=============================================================================
