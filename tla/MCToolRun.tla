------------------------------ MODULE MCToolRun ------------------------------
(***************************************************************************)
(* TLC instances of ToolRun: per engine the configurations that tell its   *)
(* checks apart, and the environments of a worker.                         *)
(***************************************************************************)
EXTENDS ToolRun

Plain(e) == [engine |-> e, targets |-> {"domain"}, report |-> "none", mode |-> "unset",
             imported |-> FALSE, lab |-> FALSE, roe |-> TRUE, auth |-> "none", options |-> "allowed"]

Targets == {[Plain(e) EXCEPT !.targets = t] :
              e \in Engines, t \in {{}, {"junk"}, {"address"}, {"private"}, {"domain", "private"}}}
Options == {[Plain(e) EXCEPT !.options = o] : e \in Engines, o \in {"refused", "malformed"}}
Credentials == {[Plain(e) EXCEPT !.auth = a, !.roe = r, !.lab = ~r] :
              e \in {"nuclei", "openvas"}, a \in {"good", "bad"}, r \in BOOLEAN}
Modes == {[Plain(e) EXCEPT !.mode = m, !.lab = l, !.imported = i, !.report = r] :
              e \in {"openvas", "zap"}, m \in {"unset", "mock", "default", "gmp", "import", "other"},
              l \in BOOLEAN, i \in BOOLEAN, r \in {"none", "whole", "broken", "long"}}

AllConfigs == {Plain(e) : e \in Engines} \cup Targets \cup Options \cup Credentials \cup Modes

\* Every environment of a worker.
AllSites == [prod : BOOLEAN, blocks : BOOLEAN, gvm : BOOLEAN, fallback : BOOLEAN,
             openvas : {"mock", "gmp"}, zap : {"mock", "import"}]
=============================================================================
