----------------------------- MODULE ScanEngine -----------------------------
(***************************************************************************)
(* One scan of the NexuSec engine (NexusecScannerEngine.scan): the probe   *)
(* tasks asyncio.gather starts, the rate limiter and the semaphore they    *)
(* queue at, and the per-host circuit breaker they share.                  *)
(*                                                                         *)
(* A step is what a task does between two awaits.  Every task has passed   *)
(* its first allow() and waits at the limiter before the first answer      *)
(* comes: the engine, and its breaker, are new for each scan.  The host of *)
(* a probe is not excluded: the exclusion list is applied before.          *)
(***************************************************************************)
EXTENDS Naturals, Sequences, FiniteSets

CONSTANTS
  Hosts,
  Work,           \* Work[p]: the host of probe p; the ports are not told apart
  Threshold,      \* failure_threshold
  MaxConcurrent,  \* max_concurrent_probes
  Burst,          \* burst
  MaxRecoveries   \* bound: recovery timeouts that elapse, per host

ASSUME EngineAssumption ==
  /\ Work \in Seq(Hosts)
  /\ Threshold \in Nat \ {0} /\ MaxConcurrent \in Nat \ {0} /\ Burst \in Nat \ {0}
  /\ MaxRecoveries \in Nat

Probes == 1 .. Len(Work)

VARIABLES
  pc,         \* what each probe task awaits, or how it ended
  queue,      \* tasks at the lock of the limiter; the first one holds it
  tokens,     \* tokens in the bucket
  recent,     \* hosts probed less than per_host_min_interval ago
  gate,       \* tasks at the semaphore
  permits,    \* permits of the semaphore
  st,         \* breaker: _state
  failures,   \* breaker: _failures
  elapsed,    \* hosts whose recovery_timeout has elapsed since _opened_at
  recoveries  \* how often it has

engineVars == <<pc, queue, tokens, recent, gate, permits, st, failures, elapsed, recoveries>>
limiter == <<queue, tokens, recent>>
breaker == <<st, failures, elapsed, recoveries>>

States == {"closed", "open", "half_open"}
Ended == {"answered", "refused", "skipped"}

EngineTypeOK ==
  /\ pc \in [Probes -> {"limited", "admitted", "probing"} \cup Ended]
  /\ queue \in Seq(Probes) /\ gate \in Seq(Probes)
  /\ tokens \in 0 .. Burst
  /\ recent \in SUBSET Hosts
  /\ permits \in 0 .. MaxConcurrent
  /\ st \in [Hosts -> States]
  /\ failures \in [Hosts -> 0 .. Len(Work)]
  /\ elapsed \in SUBSET {h \in Hosts : st[h] = "open"}
  /\ recoveries \in [Hosts -> 0 .. MaxRecoveries]

EngineInit ==
  /\ pc = [p \in Probes |-> "limited"]
  /\ queue = [p \in Probes |-> p]
  /\ tokens = Burst
  /\ recent = {}
  /\ gate = <<>>
  /\ permits = MaxConcurrent
  /\ st = [h \in Hosts |-> "closed"]
  /\ failures = [h \in Hosts |-> 0]
  /\ elapsed = {}
  /\ recoveries = [h \in Hosts |-> 0]

\* A task can take its token, or a permit.
CanAcquire == queue # <<>> /\ tokens >= 1 /\ Work[Head(queue)] \notin recent
CanEnter == gate # <<>> /\ permits > 0

-----------------------------------------------------------------------------
(***************************************************************************)
(* RateLimiter                                                             *)
(***************************************************************************)

\* The holder of the lock takes a token; it keeps the lock while it sleeps,
\* so that the tasks behind it wait for its host too.
Acquire ==
  LET p == Head(queue) IN
  /\ CanAcquire
  /\ tokens' = tokens - 1
  /\ recent' = recent \cup {Work[p]}
  /\ queue' = Tail(queue)
  /\ gate' = Append(gate, p)
  /\ pc' = [pc EXCEPT ![p] = "admitted"]
  /\ UNCHANGED <<permits, breaker>>

Refill ==
  /\ queue # <<>> /\ tokens < Burst
  /\ tokens' = tokens + 1
  /\ UNCHANGED <<pc, queue, recent, gate, permits, breaker>>

IntervalPasses(h) ==
  /\ queue # <<>> /\ h \in recent
  /\ recent' = recent \ {h}
  /\ UNCHANGED <<pc, queue, tokens, gate, permits, breaker>>

-----------------------------------------------------------------------------
(***************************************************************************)
(* CircuitBreaker                                                          *)
(***************************************************************************)

\* state(): OPEN becomes HALF_OPEN when it is looked at after the timeout.
state(h) == IF h \in elapsed THEN "half_open" ELSE st[h]

\* Mutant of allow: the re-check after the queue is left out.
allowAlways(h) == TRUE

allow(h) == state(h) \in {"closed", "half_open"}

\* recovery_timeout elapses since the last trip: not while a task can run,
\* which takes no such time.
RecoveryElapses(h) ==
  /\ st[h] = "open" /\ h \notin elapsed /\ recoveries[h] < MaxRecoveries
  /\ ~CanAcquire /\ ~CanEnter
  /\ elapsed' = elapsed \cup {h}
  /\ recoveries' = [recoveries EXCEPT ![h] = @ + 1]
  /\ UNCHANGED <<pc, limiter, gate, permits, st, failures>>

record_success(h) ==
  /\ failures' = [failures EXCEPT ![h] = 0]
  /\ st' = [st EXCEPT ![h] = "closed"]
  /\ elapsed' = elapsed \ {h}

trips(h) == state(h) = "half_open" \/ failures[h] + 1 >= Threshold

\* A trip starts the recovery timeout again.
record_failure(h) ==
  /\ failures' = [failures EXCEPT ![h] = IF state(h) = "half_open" THEN @ ELSE @ + 1]
  /\ st' = [st EXCEPT ![h] = IF trips(h) THEN "open" ELSE @]
  /\ elapsed' = elapsed \ {h}

-----------------------------------------------------------------------------
(***************************************************************************)
(* _one: the semaphore and the probe                                       *)
(***************************************************************************)

Enter ==
  LET p == Head(gate) IN
  /\ CanEnter
  /\ gate' = Tail(gate)
  /\ allow(Work[p])
  /\ pc' = [pc EXCEPT ![p] = "probing"]
  /\ permits' = permits - 1
  /\ st' = [st EXCEPT ![Work[p]] = state(Work[p])]
  /\ elapsed' = elapsed \ {Work[p]}
  /\ UNCHANGED <<limiter, failures, recoveries>>

\* Mutant of Skip: the permit is not given back.
SkipHolding ==
  LET p == Head(gate) IN
  /\ CanEnter
  /\ gate' = Tail(gate)
  /\ ~allow(Work[p])
  /\ pc' = [pc EXCEPT ![p] = "skipped"]
  /\ permits' = permits - 1
  /\ UNCHANGED <<limiter, breaker>>

\* The circuit has opened while the task was queued.
Skip ==
  LET p == Head(gate) IN
  /\ CanEnter
  /\ gate' = Tail(gate)
  /\ ~allow(Work[p])
  /\ pc' = [pc EXCEPT ![p] = "skipped"]
  /\ UNCHANGED <<limiter, permits, breaker>>

\* tcp_probe returns: the port is open, or it timed out or refused.
Answer(p) ==
  /\ pc[p] = "probing"
  /\ permits' = permits + 1
  /\ \/ pc' = [pc EXCEPT ![p] = "answered"] /\ record_success(Work[p])
     \/ pc' = [pc EXCEPT ![p] = "refused"] /\ record_failure(Work[p])
  /\ UNCHANGED <<limiter, gate, recoveries>>

-----------------------------------------------------------------------------
EngineNext ==
  \/ Acquire \/ Refill \/ \E h \in Hosts : IntervalPasses(h) \/ RecoveryElapses(h)
  \/ Enter \/ Skip \/ \E p \in Probes : Answer(p)

EngineSpec == EngineInit /\ [][EngineNext]_engineVars

\* The event loop runs every task that can run, the limiter's sleeps end, and
\* a probe has a timeout.  The recovery of a host may never come.
EngineFairness ==
  /\ WF_engineVars(Acquire) /\ WF_engineVars(Refill) /\ \A h \in Hosts : WF_engineVars(IntervalPasses(h))
  /\ WF_engineVars(Enter) /\ WF_engineVars(Skip) /\ \A p \in Probes : WF_engineVars(Answer(p))

FairEngineSpec == EngineSpec /\ EngineFairness

-----------------------------------------------------------------------------
(***************************************************************************)
(* Properties                                                              *)
(***************************************************************************)

Of(h, results) == {p \in Probes : Work[p] = h /\ pc[p] \in results}

\* A host that never answers is sent no more probes than it takes to open
\* its circuit and were under way when it opened.
DeadHostIsSpared ==
  \A h \in Hosts :
    Of(h, {"answered"}) = {} /\ recoveries[h] = 0
      => Cardinality(Of(h, {"probing", "refused"})) < Threshold + MaxConcurrent

\* The scan ends: every task comes to an answer or is skipped, whatever the
\* hosts answer and however often the circuits open.
EveryProbeEnds == <>(\A p \in Probes : pc[p] \in Ended)
=============================================================================
