------------------------------- MODULE Pipeline -------------------------------
(***************************************************************************)
(* observation/pipeline.hpp: how one normalized observation and the prior  *)
(* authoritative state of its device give the new state.  A DeviceState    *)
(* keeps the fields that decide something later: identity texts, memory    *)
(* figures, capabilities and the timestamps nobody compares are left out.  *)
(* The coordinator always passes the default ObservationPolicy, which      *)
(* requires no architecture, memory or capability, so those gates hold.    *)
(***************************************************************************)
EXTENDS Evaluators, Integers

CONSTANT freshness_threshold      \* ObservationPolicy::freshness_threshold_ms

ASSUME ThresholdAssumption == freshness_threshold \in Nat

kInvalidTimestamp == 0

DrainState == {"ACTIVE", "DRAINING", "DRAINED"}

(* What a backend's probe reports about a device.                          *)
DeviceProbe == [present : BOOLEAN, driver_runtime_ok : BOOLEAN, cuda_init_ok : BOOLEAN,
                memory_alloc_ok : BOOLEAN, kernel_exec_ok : BOOLEAN, sync_ok : BOOLEAN,
                d2h_ok : BOOLEAN, verify_ok : BOOLEAN, core_validation_ok : BOOLEAN]

(* DeviceState{}: the prior state of a device never observed.  known says  *)
(* whether the store has an entry for the device at all.                   *)
NewDevice == [known |-> FALSE, present |-> FALSE, health |-> "UNKNOWN",
              elig |-> "UNKNOWN", reason |-> "NONE", drain |-> "ACTIVE",
              quarantined |-> FALSE, core_validation_ok |-> FALSE, fresh |-> FALSE,
              generation |-> 0, obs_gen |-> 0, health_gen |-> 0, boot |-> 0,
              last_observed_at |-> kInvalidTimestamp]

-----------------------------------------------------------------------------
health_signals_from_probe(p, was_known, stale) ==
  [quarantined |-> FALSE, explicitly_drained |-> FALSE, inflight_work_remaining |-> FALSE,
   device_present |-> p.present, was_known |-> was_known, fatal_error |-> FALSE,
   driver_runtime_ok |-> p.driver_runtime_ok, cuda_init_ok |-> p.cuda_init_ok,
   consecutive_failures |-> IF p.core_validation_ok THEN 0 ELSE 1,
   observation_stale |-> stale,
   memory_alloc_ok |-> p.memory_alloc_ok, kernel_exec_ok |-> p.kernel_exec_ok,
   sync_ok |-> p.sync_ok, mem_roundtrip_ok |-> p.d2h_ok /\ p.verify_ok,
   last_validation_ok |-> p.core_validation_ok,
   temperature_within_limits |-> TRUE, power_within_limits |-> TRUE]

(* Out-of-order timestamps accepted as fresh. *)
Mut_is_fresh_any_order(prior, o, at) ==
  /\ o.observed_at # kInvalidTimestamp
  /\ at - o.observed_at <= freshness_threshold

(* An observation is fresh when it has a timestamp, is young enough and is *)
(* not older than the last one accepted for the device.  A timestamp ahead *)
(* of the coordinator's clock passes.                                      *)
is_fresh(prior, o, at) ==
  /\ o.observed_at # kInvalidTimestamp
  /\ at - o.observed_at <= freshness_threshold
  /\ \/ o.observed_at >= prior.last_observed_at
     \/ prior.last_observed_at = kInvalidTimestamp

(* EligibilityInput for a device: worker_alive, worker_restarted and the   *)
(* generation match keep their defaults in both callers.                   *)
eligibility_input(health, fresh, drain, quarantined, present, cuda) ==
  [health |-> health, observation_fresh |-> fresh, drain_active |-> drain # "ACTIVE",
   quarantine |-> quarantined, device_present |-> present, cuda_available |-> cuda,
   worker_alive |-> TRUE, worker_restarted |-> FALSE, generation_match |-> TRUE,
   driver_match |-> TRUE, architecture_match |-> TRUE, memory_ok |-> TRUE,
   capability_match |-> TRUE]

(* A new observation starts from the administrative defaults. *)
Mut_apply_observation_forgets_admin(prior, o, at) ==
  LET p == o.probe
      fresh == is_fresh(prior, o, at)
      health == evaluate_health(health_signals_from_probe(p, prior.present, ~fresh))
      e == evaluate_eligibility(
             eligibility_input(health, fresh, "ACTIVE", FALSE, p.present,
                               p.driver_runtime_ok /\ p.cuda_init_ok))
  IN  [NewDevice EXCEPT !.known = TRUE, !.present = p.present, !.health = health,
         !.elig = e.state, !.reason = e.reason, !.fresh = fresh,
         !.core_validation_ok = p.core_validation_ok, !.generation = o.device_gen,
         !.obs_gen = o.obs_gen, !.health_gen = o.health_gen, !.boot = o.boot,
         !.last_observed_at = o.observed_at]

(* Drain and quarantine are kept: only administration changes them.        *)
apply_observation(prior, o, at) ==
  LET p == o.probe
      fresh == is_fresh(prior, o, at)
      health == evaluate_health(health_signals_from_probe(p, prior.present, ~fresh))
      e == evaluate_eligibility(
             eligibility_input(health, fresh, prior.drain, prior.quarantined, p.present,
                               p.driver_runtime_ok /\ p.cuda_init_ok))
  IN  [known |-> TRUE, present |-> p.present, health |-> health,
       elig |-> e.state, reason |-> e.reason, drain |-> prior.drain,
       quarantined |-> prior.quarantined, core_validation_ok |-> p.core_validation_ok,
       fresh |-> fresh, generation |-> o.device_gen, obs_gen |-> o.obs_gen,
       health_gen |-> o.health_gen, boot |-> o.boot,
       last_observed_at |-> o.observed_at]

(* FleetStateStore::recompute_device_eligibility, after an administrative  *)
(* change.  It derives cuda_available from the stored validation result,   *)
(* where apply_observation derives it from the probe's driver signals.     *)
recompute_device_eligibility(d) ==
  LET e == evaluate_eligibility(
             eligibility_input(d.health, d.fresh, d.drain, d.quarantined, d.present,
                               d.core_validation_ok /\ d.present))
  IN  [d EXCEPT !.elig = e.state, !.reason = e.reason]
=============================================================================
