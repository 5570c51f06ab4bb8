----------------------------- MODULE MCEvaluators -----------------------------
(***************************************************************************)
(* All ways of losing evidence about a healthy, placeable device, one      *)
(* signal at a time: the state is the set of signals that have gone bad,   *)
(* from which both evaluators' inputs are built.  "known" and "inflight"   *)
(* are no defects, only inputs that must not matter; "fail1".."fail3" are  *)
(* the consecutive failures counted so far.                                *)
(***************************************************************************)
EXTENDS Evaluators, FiniteSets

CONSTANT MaxBad      \* bound on the signals that go bad together

ASSUME MaxBadAssumption == MaxBad \in Nat

VARIABLE bad

Failures == {"fail1", "fail2", "fail3"}
CoreSteps == {"alloc", "kernel", "sync", "roundtrip"}
Limits == {"temperature", "power"}
Harmless == {"known", "inflight", "last_validation"}
Gates == {"quarantined", "drained", "absent", "fatal", "driver", "cuda", "stale",
          "restarted", "dead", "generation", "driver_version", "architecture",
          "memory", "capability"}
Signals == Failures \cup CoreSteps \cup Limits \cup Harmless \cup Gates

HealthOf(b) ==
  evaluate_health([quarantined |-> "quarantined" \in b,
                   explicitly_drained |-> "drained" \in b,
                   inflight_work_remaining |-> "inflight" \in b,
                   device_present |-> "absent" \notin b,
                   was_known |-> "known" \in b,
                   fatal_error |-> "fatal" \in b,
                   driver_runtime_ok |-> "driver" \notin b,
                   cuda_init_ok |-> "cuda" \notin b,
                   consecutive_failures |-> Cardinality(b \cap Failures),
                   observation_stale |-> "stale" \in b,
                   memory_alloc_ok |-> "alloc" \notin b,
                   kernel_exec_ok |-> "kernel" \notin b,
                   sync_ok |-> "sync" \notin b,
                   mem_roundtrip_ok |-> "roundtrip" \notin b,
                   last_validation_ok |-> "last_validation" \notin b,
                   temperature_within_limits |-> "temperature" \notin b,
                   power_within_limits |-> "power" \notin b])

DecisionOf(b) ==
  evaluate_eligibility([health |-> HealthOf(b),
                        quarantine |-> "quarantined" \in b,
                        drain_active |-> "drained" \in b,
                        worker_restarted |-> "restarted" \in b,
                        worker_alive |-> "dead" \notin b,
                        generation_match |-> "generation" \notin b,
                        observation_fresh |-> "stale" \notin b,
                        device_present |-> "absent" \notin b,
                        cuda_available |-> b \cap {"driver", "cuda"} = {},
                        driver_match |-> "driver_version" \notin b,
                        architecture_match |-> "architecture" \notin b,
                        memory_ok |-> "memory" \notin b,
                        capability_match |-> "capability" \notin b])

Init == bad = {}

LoseEvidence(x) ==
  /\ x \notin bad
  /\ Cardinality(bad) < MaxBad
  /\ bad' = bad \cup {x}

Next == \E x \in Signals : LoseEvidence(x)

Spec == Init /\ [][Next]_bad

-----------------------------------------------------------------------------
(* Losing a signal "can only ever move the result DOWN from HEALTHY, never *)
(* UP" (health_evaluator.hpp): no loss of evidence makes a device HEALTHY, *)
(* nor placeable, that was not so before, whatever order the two decision  *)
(* lists test their conditions in.                                         *)
EvidenceLossNeverRaises ==
  [][ /\ HealthOf(bad') = "HEALTHY" => HealthOf(bad) = "HEALTHY"
      /\ DecisionOf(bad').state \in Usable => DecisionOf(bad).state \in Usable
      /\ DecisionOf(bad').state = "ELIGIBLE" => DecisionOf(bad).state = "ELIGIBLE" ]_bad

(* The signals that must take a device out of placement.                   *)
Disqualified(b) ==
  \/ b \cap (Gates \cup CoreSteps) # {}
  \/ Failures \subseteq b

(* The ordered decision lists compute the unordered meaning: a device is   *)
(* ELIGIBLE exactly when nothing disqualifies it and its limits hold, and  *)
(* DEGRADED_ELIGIBLE exactly when only temperature or power is off.        *)
DecisionMatchesReference ==
  /\ (DecisionOf(bad).state = "ELIGIBLE")
       <=> (~Disqualified(bad) /\ bad \cap Limits = {})
  /\ (DecisionOf(bad).state = "DEGRADED_ELIGIBLE")
       <=> (~Disqualified(bad) /\ bad \cap Limits # {})

(* The bad signals each reason may be given for.                           *)
Culprits(reason) ==
  CASE reason = "QUARANTINE"           -> {"quarantined"}
    [] reason = "DRAIN_POLICY"         -> {"drained"}
    [] reason = "WORKER_RESTART"       -> {"restarted", "dead"}
    [] reason = "GENERATION_MISMATCH"  -> {"generation"}
    [] reason = "STALE_OBSERVATION"    -> {"stale"} \cup CoreSteps
    [] reason = "DEVICE_DISAPPEARANCE" -> {"absent"}
    [] reason = "CUDA_UNAVAILABLE"     -> {"driver", "cuda"}
    [] reason = "DRIVER_MISMATCH"      -> {"driver_version"}
    [] reason = "ARCHITECTURE_MISMATCH" -> {"architecture"}
    [] reason = "INSUFFICIENT_MEMORY"  -> {"memory"}
    [] reason = "CAPABILITY_MISMATCH"  -> {"capability"}
    [] reason = "HEALTH_FAILURE"       -> {"fatal"} \cup Failures \cup CoreSteps \cup Limits
    [] OTHER                           -> {}

(* A decision is explained: anything short of ELIGIBLE names a reason, and *)
(* the reason names a signal that really is bad.                           *)
ReasonNamesCulprit ==
  LET d == DecisionOf(bad) IN
  IF d.reason = "NONE" THEN d.state = "ELIGIBLE"
                       ELSE Culprits(d.reason) \cap bad # {}
=============================================================================
