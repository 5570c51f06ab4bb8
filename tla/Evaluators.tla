------------------------------ MODULE Evaluators ------------------------------
(***************************************************************************)
(* The two deterministic decision lists every device state goes through:  *)
(* evaluate_health (health/health_evaluator.hpp) turns probe signals into  *)
(* a HealthState, evaluate_eligibility (eligibility/eligibility_           *)
(* evaluator.hpp) turns health, freshness and administrative fences into   *)
(* an EligibilityState and the reason for it.  Explanation texts are left  *)
(* out.  The code returns a vector of reasons; no path of it pushes more   *)
(* than one, so the result here is a state and one reason, "NONE" standing *)
(* for the empty vector.                                                   *)
(***************************************************************************)
EXTENDS Naturals

HealthState == {"UNKNOWN", "HEALTHY", "DEGRADED", "UNHEALTHY", "DRAINING",
                "DRAINED", "OFFLINE", "LOST", "RECOVERING", "QUARANTINED"}

EligibilityState == {"UNKNOWN", "ELIGIBLE", "DEGRADED_ELIGIBLE", "INELIGIBLE",
                     "DRAINING", "STALE", "QUARANTINED"}

EligibilityReason == {"NONE", "STALE_OBSERVATION", "ARCHITECTURE_MISMATCH",
                      "INSUFFICIENT_MEMORY", "DRIVER_MISMATCH", "CUDA_UNAVAILABLE",
                      "HEALTH_FAILURE", "DRAIN_POLICY", "GENERATION_MISMATCH",
                      "WORKER_RESTART", "DEVICE_DISAPPEARANCE", "QUARANTINE",
                      "CAPABILITY_MISMATCH"}

(* The states in which a scheduler may place new work on the device.       *)
Usable == {"ELIGIBLE", "DEGRADED_ELIGIBLE"}

-----------------------------------------------------------------------------
(* One failure too many tolerated. *)
Mut_failure_threshold == 4

(* HealthSignals::failure_threshold, never overridden by its caller.       *)
failure_threshold == 3

(* The operational core of a validation: alloc, kernel, sync, round trip.  *)
core_ok(s) == s.memory_alloc_ok /\ s.kernel_exec_ok /\ s.sync_ok /\ s.mem_roundtrip_ok

(* evaluate_health with the limits checked before the validated core. *)
Mut_health_limits_before_core(s) ==
  IF s.quarantined THEN "QUARANTINED"
  ELSE IF s.explicitly_drained THEN "DRAINED"
  ELSE IF ~s.device_present THEN "LOST"
  ELSE IF \/ s.fatal_error
          \/ ~s.driver_runtime_ok
          \/ ~s.cuda_init_ok
          \/ s.consecutive_failures >= failure_threshold
          \/ s.observation_stale
         THEN "UNHEALTHY"
  ELSE IF ~s.temperature_within_limits \/ ~s.power_within_limits THEN "DEGRADED"
  ELSE IF ~core_ok(s) THEN "RECOVERING"
  ELSE "HEALTHY"

evaluate_health(s) ==
  IF s.quarantined THEN "QUARANTINED"
  ELSE IF s.explicitly_drained
         THEN IF s.inflight_work_remaining THEN "DRAINING" ELSE "DRAINED"
  ELSE IF ~s.device_present
         THEN IF s.was_known THEN "LOST" ELSE "OFFLINE"
  ELSE IF \/ s.fatal_error
          \/ ~s.driver_runtime_ok
          \/ ~s.cuda_init_ok
          \/ s.consecutive_failures >= failure_threshold
         THEN "UNHEALTHY"
  ELSE IF s.observation_stale THEN "RECOVERING"
  ELSE IF ~core_ok(s)
         THEN IF s.last_validation_ok THEN "RECOVERING" ELSE "UNHEALTHY"
  ELSE IF ~s.temperature_within_limits \/ ~s.power_within_limits THEN "DEGRADED"
  ELSE "HEALTHY"

baseline_eligibility(h) ==
  CASE h = "HEALTHY"                           -> "ELIGIBLE"
    [] h = "DEGRADED"                          -> "DEGRADED_ELIGIBLE"
    [] h \in {"DRAINING", "DRAINED"}           -> "DRAINING"
    [] h = "QUARANTINED"                       -> "QUARANTINED"
    [] h \in {"OFFLINE", "LOST", "UNHEALTHY"}  -> "INELIGIBLE"
    [] h = "RECOVERING"                        -> "STALE"
    [] OTHER                                   -> "UNKNOWN"

-----------------------------------------------------------------------------
Decision(st, why) == [state |-> st, reason |-> why]

(* The last part of evaluate_eligibility: no gate fired, health decides.   *)
health_decision(h) ==
  LET base == baseline_eligibility(h) IN
  CASE base = "ELIGIBLE"          -> Decision("ELIGIBLE", "NONE")
    [] base = "DEGRADED_ELIGIBLE" -> Decision("DEGRADED_ELIGIBLE", "HEALTH_FAILURE")
    [] base = "STALE"             -> Decision("STALE", "STALE_OBSERVATION")
    [] base = "QUARANTINED"       -> Decision("QUARANTINED", "QUARANTINE")
    [] base = "DRAINING"          -> Decision("DRAINING", "DRAIN_POLICY")
    [] OTHER                      -> Decision("INELIGIBLE", "HEALTH_FAILURE")

(* evaluate_eligibility reporting a missing device as a stale observation. *)
Mut_eligibility_misreports_absence(in) ==
  IF in.quarantine THEN Decision("QUARANTINED", "QUARANTINE")
  ELSE IF in.drain_active THEN Decision("DRAINING", "DRAIN_POLICY")
  ELSE IF ~in.observation_fresh \/ ~in.device_present \/ ~in.generation_match
         THEN Decision("STALE", "STALE_OBSERVATION")
  ELSE IF ~in.cuda_available THEN Decision("INELIGIBLE", "CUDA_UNAVAILABLE")
  ELSE health_decision(in.health)

(* in.memory_ok stands for sufficient_memory /\ available >= required,     *)
(* in.generation_match for observed_generation = current_generation.       *)
evaluate_eligibility(in) ==
  IF in.quarantine THEN Decision("QUARANTINED", "QUARANTINE")
  ELSE IF in.drain_active THEN Decision("DRAINING", "DRAIN_POLICY")
  ELSE IF in.worker_restarted \/ ~in.worker_alive THEN Decision("STALE", "WORKER_RESTART")
  ELSE IF ~in.generation_match THEN Decision("STALE", "GENERATION_MISMATCH")
  ELSE IF ~in.observation_fresh THEN Decision("STALE", "STALE_OBSERVATION")
  ELSE IF ~in.device_present THEN Decision("INELIGIBLE", "DEVICE_DISAPPEARANCE")
  ELSE IF ~in.cuda_available THEN Decision("INELIGIBLE", "CUDA_UNAVAILABLE")
  ELSE IF ~in.driver_match THEN Decision("INELIGIBLE", "DRIVER_MISMATCH")
  ELSE IF ~in.architecture_match THEN Decision("INELIGIBLE", "ARCHITECTURE_MISMATCH")
  ELSE IF ~in.memory_ok THEN Decision("INELIGIBLE", "INSUFFICIENT_MEMORY")
  ELSE IF ~in.capability_match THEN Decision("INELIGIBLE", "CAPABILITY_MISMATCH")
  ELSE health_decision(in.health)

=============================================================================
