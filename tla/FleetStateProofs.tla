--------------------------- MODULE FleetStateProofs ---------------------------
(***************************************************************************)
(* What holds of the fleet store for any number of workers, incarnations,  *)
(* devices, epochs and generations, and for any set of batches.            *)
(***************************************************************************)
EXTENDS FleetState, TLAPS

-----------------------------------------------------------------------------
(* The evaluators *)

(* evaluate_health always yields a HealthState.                            *)
LEMMA HealthTyped ==
  ASSUME NEW s
  PROVE  evaluate_health(s) \in HealthState
BY DEF evaluate_health, HealthState

(* baseline_eligibility always yields an EligibilityState.                 *)
LEMMA HealthDecisionTyped ==
  ASSUME NEW h
  PROVE  health_decision(h) \in [state : EligibilityState, reason : EligibilityReason]
BY DEF health_decision, Decision, EligibilityState, EligibilityReason

(* evaluate_eligibility always yields a state and a reason.                *)
LEMMA DecisionTyped ==
  ASSUME NEW in
  PROVE  evaluate_eligibility(in) \in [state : EligibilityState, reason : EligibilityReason]
BY HealthDecisionTyped DEF evaluate_eligibility, Decision, EligibilityState, EligibilityReason

(* What evaluate_eligibility demands before it offers a device: no fence,  *)
(* a fresh observation of a present device, and a health that allows it.   *)
LEMMA UsableDecision ==
  ASSUME NEW in, evaluate_eligibility(in).state \in Usable
  PROVE  /\ ~in.quarantine /\ ~in.drain_active
         /\ in.observation_fresh /\ in.device_present
         /\ in.health \in {"HEALTHY", "DEGRADED"}
<1>1. ASSUME health_decision(in.health).state \in Usable
      PROVE  in.health \in {"HEALTHY", "DEGRADED"}
  BY <1>1 DEF health_decision, baseline_eligibility, Decision, Usable
<1> QED
  BY <1>1 DEF evaluate_eligibility, Decision, Usable

-----------------------------------------------------------------------------
(* The pipeline and the store's helpers *)

(* apply_observation yields a DeviceState.                                 *)
LEMMA ApplyTyped ==
  ASSUME NEW prior \in DeviceState, NEW o \in DeviceObservation, NEW at \in Nat
  PROVE  apply_observation(prior, o, at) \in DeviceState
<1> DEFINE fresh == is_fresh(prior, o, at)
           health == evaluate_health(health_signals_from_probe(o.probe, prior.present, ~fresh))
           e == evaluate_eligibility(
                  eligibility_input(health, fresh, prior.drain, prior.quarantined,
                    o.probe.present, o.probe.driver_runtime_ok /\ o.probe.cuda_init_ok))
<1>1. fresh \in BOOLEAN
  BY DEF is_fresh
<1>2. health \in HealthState
  BY HealthTyped
<1>3. e.state \in EligibilityState /\ e.reason \in EligibilityReason
  BY DecisionTyped
<1>4. o.probe.present \in BOOLEAN /\ o.probe.core_validation_ok \in BOOLEAN
  BY DEF DeviceObservation, DeviceProbe
<1>5. apply_observation(prior, o, at) =
        [known |-> TRUE, present |-> o.probe.present, health |-> health,
         elig |-> e.state, reason |-> e.reason, drain |-> prior.drain,
         quarantined |-> prior.quarantined,
         core_validation_ok |-> o.probe.core_validation_ok,
         fresh |-> fresh, generation |-> o.device_gen, obs_gen |-> o.obs_gen,
         health_gen |-> o.health_gen, boot |-> o.boot,
         last_observed_at |-> o.observed_at]
  BY DEF apply_observation
<1> HIDE DEF fresh, health, e
<1> QED
  BY <1>1, <1>2, <1>3, <1>4, <1>5 DEF DeviceState, DeviceObservation

(* recompute_device_eligibility changes eligibility and its reason only.   *)
LEMMA RecomputeTyped ==
  ASSUME NEW d \in DeviceState
  PROVE  recompute_device_eligibility(d) \in DeviceState
<1> DEFINE e == evaluate_eligibility(
                  eligibility_input(d.health, d.fresh, d.drain, d.quarantined, d.present,
                                    d.core_validation_ok /\ d.present))
<1>1. e.state \in EligibilityState /\ e.reason \in EligibilityReason
  BY DecisionTyped
<1>2. recompute_device_eligibility(d) = [d EXCEPT !.elig = e.state, !.reason = e.reason]
  BY DEF recompute_device_eligibility
<1> HIDE DEF e
<1> QED
  BY <1>1, <1>2 DEF DeviceState

(* The observation ingest_snapshot applies to d is one of the batch, about *)
(* d, and it passed every check.                                           *)
LEMMA AppliedObservation ==
  ASSUME NEW w \in Workers, NEW obs \in Batch, NEW d \in AppliedDevices(w, obs)
  PROVE  /\ d \in Devices
         /\ ObservationOf(obs, d) \in DeviceObservation
         /\ ObservationOf(obs, d).dev = d
         /\ ~Rejected(w, ObservationOf(obs, d))
         /\ ~Skipped(ObservationOf(obs, d))
         /\ d \in DevicesOf[ObservationOf(obs, d).worker]
         /\ ObservationOf(obs, d).boot \in BootsOf[ObservationOf(obs, d).worker]
<1>1. PICK i \in Applied(w, obs) : obs[i].dev = d
  BY DEF AppliedDevices
<1>2. i \in DOMAIN obs /\ ~Rejected(w, obs[i]) /\ ~Skipped(obs[i])
  BY DEF Applied, Processed, Batch
<1>3. ObservationOf(obs, d) = obs[i]
  BY <1>1, <1>2 DEF ObservationOf, Batch
<1>4. obs[i] \in DeviceObservation
  BY <1>2 DEF Batch
<1> QED
  BY <1>1, <1>2, <1>3, <1>4 DEF Batch, DeviceObservation

(* A registration comes from a worker, in one of its own incarnations, and *)
(* lists devices of that worker's host.                                    *)
LEMMA RegistrationTyped ==
  ASSUME NEW reg \in Registrations
  PROVE  /\ reg.worker \in Workers
         /\ reg.boot \in BootsOf[reg.worker]
         /\ reg.boot \in Boots
         /\ reg.reg_gen \in Nat
         /\ reg.enumerated \in SUBSET DevicesOf[reg.worker]
         /\ reg.enumerated \in SUBSET Devices
         /\ ~PartialEnumeration => reg.enumerated = DevicesOf[reg.worker]
<1>1. PICK w \in Workers :
        reg \in [worker : {w}, boot : BootsOf[w], reg_gen : 1..MaxRegGen,
                epoch : 1..MaxEpoch, protocol : {0, 1}, enumerated : Enumerations(w)]
  BY DEF Registrations
<1>2. /\ reg.worker = w /\ reg.boot \in BootsOf[w] /\ reg.reg_gen \in 1..MaxRegGen
      /\ reg.enumerated \in Enumerations(w)
  BY <1>1
<1>3. reg.boot \in Boots
  BY <1>2 DEF Boots
<1>4. DevicesOf[w] \subseteq Devices
  BY ConstantsAssumption
<1>5. reg.enumerated \in SUBSET DevicesOf[w] /\ (~PartialEnumeration => reg.enumerated = DevicesOf[w])
  BY <1>2 DEF Enumerations
<1> QED
  BY <1>2, <1>3, <1>4, <1>5, ConstantsAssumption

-----------------------------------------------------------------------------
(* Type correctness *)

(* The store starts with well-typed, empty tables.                         *)
LEMMA TypeInit == Init => TypeOK
<1> SUFFICES ASSUME Init PROVE TypeOK
  OBVIOUS
<1>1. NoWorker \in WorkerRecord
  BY DEF NoWorker, WorkerRecord, kInvalidTimestamp
<1>2. NewDevice \in DeviceState
  BY DEF NewDevice, DeviceState, HealthState, EligibilityState, EligibilityReason,
         DrainState, kInvalidTimestamp
<1> QED
  BY <1>1, <1>2, ConstantsAssumption DEF Init, TypeOK

(* Vanished and every other single-field change keep a record a record.    *)
LEMMA VanishedTyped ==
  ASSUME NEW d \in DeviceState, NEW why \in EligibilityReason
  PROVE  Vanished(d, why) \in DeviceState
BY DEF Vanished, DeviceState, HealthState, EligibilityState

(* Every operation of the store keeps its tables well-typed.               *)
LEMMA TypeStep == TypeOK /\ [Next]_vars => TypeOK'
<1> SUFFICES ASSUME TypeOK, [Next]_vars PROVE TypeOK'
  OBVIOUS
<1>0. now \in Nat
  <2>1. MaxTime \in Nat /\ now \in 1..MaxTime
    BY ConstantsAssumption DEF TypeOK
  <2> QED
    BY <2>1
<1>1. ASSUME NEW ne \in 1..MaxEpoch, RollEpoch(ne) PROVE TypeOK'
  BY <1>1 DEF RollEpoch, TypeOK
<1>2. ASSUME NEW reg \in Registrations, ReaffirmWorker(reg) PROVE TypeOK'
  <2>1. workers[reg.worker] \in WorkerRecord
    BY RegistrationTyped DEF TypeOK
  <2>2. [workers[reg.worker] EXCEPT !.reg_gen = reg.reg_gen, !.last_heartbeat = now,
                                    !.alive = TRUE, !.lost = FALSE,
                                    !.ids = reg.enumerated] \in WorkerRecord
    BY <1>0, <2>1, RegistrationTyped DEF WorkerRecord
  <2> QED
    BY <1>2, <2>2, RegistrationTyped DEF ReaffirmWorker, TypeOK
<1>3. ASSUME NEW reg \in Registrations, AdmitWorker(reg) PROVE TypeOK'
  <2>1. [registered |-> TRUE, boot |-> reg.boot, reg_gen |-> reg.reg_gen,
         ids |-> reg.enumerated, last_heartbeat |-> now,
         alive |-> TRUE, fenced |-> FALSE, lost |-> FALSE] \in WorkerRecord
    BY <1>0, RegistrationTyped DEF WorkerRecord
  <2> QED
    BY <1>3, <2>1, RegistrationTyped DEF AdmitWorker, TypeOK
<1>4. ASSUME NEW w \in Workers, MarkWorkerLost(w) PROVE TypeOK'
  <2>1. [workers[w] EXCEPT !.lost = TRUE, !.alive = FALSE, !.fenced = TRUE] \in WorkerRecord
    BY DEF WorkerRecord, TypeOK
  <2>2. ASSUME NEW d \in Devices PROVE devices'[d] \in DeviceState
    <3>1. devices[d] \in DeviceState
      BY DEF TypeOK
    <3>2. [devices[d] EXCEPT !.fresh = FALSE] \in DeviceState
      BY <3>1 DEF DeviceState
    <3>3. Vanished(devices[d], "WORKER_RESTART") \in DeviceState
      BY <3>1, VanishedTyped DEF EligibilityReason
    <3> QED
      BY <1>4, <3>1, <3>2, <3>3 DEF MarkWorkerLost
  <2> QED
    BY <1>4, <2>1, <2>2 DEF MarkWorkerLost, TypeOK
<1>5. ASSUME NEW w \in Workers, NEW b \in BootsOf[w], NEW e \in 1..MaxEpoch,
             Heartbeat(w, b, e)
      PROVE  TypeOK'
  <2>1. [workers[w] EXCEPT !.last_heartbeat = now, !.alive = TRUE, !.lost = FALSE]
          \in WorkerRecord
    BY <1>0 DEF WorkerRecord, TypeOK
  <2> QED
    BY <1>5, <2>1 DEF Heartbeat, TypeOK
<1>6. ASSUME NEW w \in Workers, NEW obs \in Batches, IngestSnapshot(w, obs) PROVE TypeOK'
  <2>1. obs \in Batch
    BY BatchesAssumption
  <2>2. ASSUME NEW d \in Devices PROVE devices'[d] \in DeviceState
    <3>1. devices[d] \in DeviceState
      BY DEF TypeOK
    <3>2. Vanished(devices[d], "DEVICE_DISAPPEARANCE") \in DeviceState
      BY <3>1, VanishedTyped DEF EligibilityReason
    <3>3. d \in AppliedDevices(w, obs)
            => apply_observation(devices[d], ObservationOf(obs, d), now) \in DeviceState
      BY <1>0, <2>1, <3>1, AppliedObservation, ApplyTyped
    <3> QED
      BY <1>6, <3>1, <3>2, <3>3 DEF IngestSnapshot
  <2> DEFINE found == {d \in AppliedDevices(w, obs) : ~devices[d].known}
             wr == [workers[w] EXCEPT !.ids = @ \cup found]
  <2>3. found \in SUBSET Devices
    BY <2>1, AppliedObservation
  <2>4. wr \in WorkerRecord
    BY <2>3 DEF WorkerRecord, TypeOK
  <2>5. [wr EXCEPT !.last_heartbeat = now, !.alive = TRUE] \in WorkerRecord
    BY <1>0, <2>4 DEF WorkerRecord
  <2>6. workers' = [workers EXCEPT ![w] =
                      IF Complete(w, obs)
                        THEN [wr EXCEPT !.last_heartbeat = now, !.alive = TRUE]
                        ELSE wr]
    BY <1>6 DEF IngestSnapshot
  <2>7. workers' \in [Workers -> WorkerRecord]
    <3> HIDE DEF wr
    <3> QED
      BY <2>4, <2>5, <2>6 DEF TypeOK
  <2>8. devices' \in [Devices -> DeviceState]
    BY <1>6, <2>2 DEF IngestSnapshot
  <2> QED
    BY <1>6, <2>7, <2>8 DEF IngestSnapshot, TypeOK
<1>7. ASSUME NEW d \in Devices, NEW level \in DrainLevels, SetDrain(d, level) PROVE TypeOK'
  <2>1. [devices[d] EXCEPT !.drain = level] \in DeviceState
    BY ConstantsAssumption DEF TypeOK, DeviceState
  <2> QED
    BY <1>7, <2>1, RecomputeTyped DEF SetDrain, TypeOK
<1>8. ASSUME NEW d \in Devices, NEW g \in QuarantineGens, SetQuarantine(d, g) PROVE TypeOK'
  <2>1. [devices[d] EXCEPT !.quarantined = TRUE] \in DeviceState
    BY DEF TypeOK, DeviceState
  <2> QED
    BY <1>8, <2>1, RecomputeTyped DEF SetQuarantine, TypeOK
<1>9. ASSUME NEW d \in Devices, NEW e \in 1..MaxEpoch, ClearQuarantine(d, e) PROVE TypeOK'
  <2>1. [devices[d] EXCEPT !.quarantined = FALSE] \in DeviceState
    BY DEF TypeOK, DeviceState
  <2> QED
    BY <1>9, <2>1, RecomputeTyped DEF ClearQuarantine, TypeOK
<1>10. ASSUME Tick PROVE TypeOK'
  BY <1>0, <1>10, ConstantsAssumption DEF Tick, TypeOK
<1>11. ASSUME UNCHANGED vars PROVE TypeOK'
  BY <1>11 DEF vars, TypeOK
<1> QED
  BY <1>1, <1>2, <1>3, <1>4, <1>5, <1>6, <1>7, <1>8, <1>9, <1>10, <1>11 DEF Next

(* The store's tables are well-typed in every reachable state.             *)
THEOREM TypeCorrect == Spec => []TypeOK
BY TypeInit, TypeStep, PTL DEF Spec

-----------------------------------------------------------------------------
(* Eligibility is backed by evidence *)

(* An accepted observation yields a backed device.                         *)
LEMMA ApplyBacked ==
  ASSUME NEW prior, NEW o, NEW at
  PROVE  Backed(apply_observation(prior, o, at))
<1> DEFINE fresh == is_fresh(prior, o, at)
           health == evaluate_health(health_signals_from_probe(o.probe, prior.present, ~fresh))
           in == eligibility_input(health, fresh, prior.drain, prior.quarantined,
                   o.probe.present, o.probe.driver_runtime_ok /\ o.probe.cuda_init_ok)
           new == apply_observation(prior, o, at)
<1>1. /\ new.elig = evaluate_eligibility(in).state
      /\ new.known = TRUE /\ new.present = o.probe.present /\ new.fresh = fresh
      /\ new.health = health /\ new.drain = prior.drain /\ new.quarantined = prior.quarantined
  BY DEF apply_observation
<1>2. /\ in.quarantine = prior.quarantined /\ in.drain_active = (prior.drain # "ACTIVE")
      /\ in.observation_fresh = fresh /\ in.device_present = o.probe.present
      /\ in.health = health
  BY DEF eligibility_input
<1>3. Backed(new)
  <2> HIDE DEF new, in, health, fresh
  <2> QED
    BY <1>1, <1>2, UsableDecision DEF Backed
<1> QED
  BY <1>3

(* So does a recomputation after an administrative change.                 *)
LEMMA RecomputeBacked ==
  ASSUME NEW d \in DeviceState, d.known
  PROVE  Backed(recompute_device_eligibility(d))
<1> DEFINE in == eligibility_input(d.health, d.fresh, d.drain, d.quarantined, d.present,
                                   d.core_validation_ok /\ d.present)
           new == recompute_device_eligibility(d)
<1>1. /\ new.elig = evaluate_eligibility(in).state
      /\ new.known = d.known /\ new.present = d.present /\ new.fresh = d.fresh
      /\ new.health = d.health /\ new.drain = d.drain /\ new.quarantined = d.quarantined
  BY DEF recompute_device_eligibility, DeviceState
<1>2. /\ in.quarantine = d.quarantined /\ in.drain_active = (d.drain # "ACTIVE")
      /\ in.observation_fresh = d.fresh /\ in.device_present = d.present
      /\ in.health = d.health
  BY DEF eligibility_input
<1>3. Backed(new)
  <2> HIDE DEF new, in
  <2> QED
    BY <1>1, <1>2, UsableDecision DEF Backed
<1> QED
  BY <1>3

(* A vanished device is not usable.                                        *)
LEMMA VanishedBacked ==
  ASSUME NEW d \in DeviceState, NEW why
  PROVE  Backed(Vanished(d, why))
BY DEF Vanished, Backed, Usable, DeviceState

(* Every operation keeps eligibility and its evidence together.            *)
LEMMA BackedStep == TypeOK /\ UsableIsBacked /\ [Next]_vars => UsableIsBacked'
<1> SUFFICES ASSUME TypeOK, UsableIsBacked, [Next]_vars, NEW d \in Devices
             PROVE  Backed(devices'[d])
  BY DEF UsableIsBacked
<1>0. Backed(devices[d]) /\ devices[d] \in DeviceState
  BY DEF UsableIsBacked, TypeOK
<1>1. ASSUME devices' = devices PROVE Backed(devices'[d])
  BY <1>0, <1>1
<1>2. ASSUME NEW w \in Workers, MarkWorkerLost(w) PROVE Backed(devices'[d])
  <2>1. Backed(Vanished(devices[d], "WORKER_RESTART"))
    BY <1>0, VanishedBacked
  <2>2. ~devices[d].present => Backed([devices[d] EXCEPT !.fresh = FALSE])
    BY <1>0 DEF Backed, DeviceState
  <2> QED
    BY <1>0, <1>2, <2>1, <2>2 DEF MarkWorkerLost
<1>3. ASSUME NEW w \in Workers, NEW obs \in Batches, IngestSnapshot(w, obs)
      PROVE  Backed(devices'[d])
  BY <1>0, <1>3, ApplyBacked, VanishedBacked DEF IngestSnapshot
<1>4. ASSUME NEW c \in Devices, NEW new \in DeviceState, new.known,
             devices' = [devices EXCEPT ![c] = recompute_device_eligibility(new)]
      PROVE  Backed(devices'[d])
  BY <1>0, <1>4, RecomputeBacked DEF TypeOK
<1>5. ASSUME NEW c \in Devices, NEW level \in DrainLevels, SetDrain(c, level)
      PROVE  Backed(devices'[d])
  <2>1. [devices[c] EXCEPT !.drain = level] \in DeviceState /\ [devices[c] EXCEPT !.drain = level].known
    BY <1>5, ConstantsAssumption DEF SetDrain, TypeOK, DeviceState
  <2> QED
    BY <1>4, <1>5, <2>1 DEF SetDrain
<1>6. ASSUME NEW c \in Devices, NEW g \in QuarantineGens, SetQuarantine(c, g)
      PROVE  Backed(devices'[d])
  <2>1. [devices[c] EXCEPT !.quarantined = TRUE] \in DeviceState /\ [devices[c] EXCEPT !.quarantined = TRUE].known
    BY <1>6 DEF SetQuarantine, TypeOK, DeviceState
  <2> QED
    BY <1>4, <1>6, <2>1 DEF SetQuarantine
<1>7. ASSUME NEW c \in Devices, NEW e \in 1..MaxEpoch, ClearQuarantine(c, e)
      PROVE  Backed(devices'[d])
  <2>1. [devices[c] EXCEPT !.quarantined = FALSE] \in DeviceState /\ [devices[c] EXCEPT !.quarantined = FALSE].known
    BY <1>7 DEF ClearQuarantine, TypeOK, DeviceState
  <2> QED
    BY <1>4, <1>7, <2>1 DEF ClearQuarantine
<1> QED
  BY <1>1, <1>2, <1>3, <1>5, <1>6, <1>7
     DEF Next, RollEpoch, ReaffirmWorker, AdmitWorker, Heartbeat, Tick, vars

(* No reachable state offers a device for placement without current        *)
(* evidence: it is known, present, fresh, healthy and under no fence.      *)
THEOREM EligibilityIsBacked == Spec => []UsableIsBacked
<1>1. Init => UsableIsBacked
  BY DEF Init, UsableIsBacked, Backed, NewDevice, Usable
<1> QED
  BY <1>1, TypeCorrect, BackedStep, PTL DEF Spec

-----------------------------------------------------------------------------
(* Fencing *)

(* The three fields of an applied observation the fencing argument reads.  *)
LEMMA ApplyFields ==
  ASSUME NEW prior, NEW o, NEW at
  PROVE  /\ apply_observation(prior, o, at).boot = o.boot
         /\ apply_observation(prior, o, at).known = TRUE
BY DEF apply_observation

(* What recompute_device_eligibility leaves alone.                         *)
LEMMA RecomputeFields ==
  ASSUME NEW d \in DeviceState
  PROVE  /\ recompute_device_eligibility(d).boot = d.boot
         /\ recompute_device_eligibility(d).known = d.known
         /\ recompute_device_eligibility(d).fresh = d.fresh
BY DEF recompute_device_eligibility, DeviceState

(* What Vanished leaves alone.                                             *)
LEMMA VanishedFields ==
  ASSUME NEW d \in DeviceState, NEW why
  PROVE  /\ Vanished(d, why).boot = d.boot
         /\ Vanished(d, why).known = d.known
         /\ ~Vanished(d, why).fresh
BY DEF Vanished, DeviceState

(* Only an ingested observation changes where a device's state comes from, *)
(* and only it can make a device fresh.                                    *)
LEMMA DeviceStep ==
  ASSUME TypeOK, [Next]_vars, NEW d \in Devices,
         ~ \E w \in Workers, obs \in Batches :
             IngestSnapshot(w, obs) /\ d \in AppliedDevices(w, obs)
  PROVE  /\ devices'[d].boot = devices[d].boot
         /\ devices'[d].known = devices[d].known
         /\ devices'[d].fresh => devices[d].fresh
<1>0. devices[d] \in DeviceState
  BY DEF TypeOK
<1>1. ASSUME NEW w \in Workers, MarkWorkerLost(w)
      PROVE  /\ devices'[d].boot = devices[d].boot
             /\ devices'[d].known = devices[d].known
             /\ devices'[d].fresh => devices[d].fresh
  <2>1. LET x == [devices[d] EXCEPT !.fresh = FALSE] IN
          x.boot = devices[d].boot /\ x.known = devices[d].known /\ ~x.fresh
    BY <1>0 DEF DeviceState
  <2> QED
    BY <1>0, <1>1, <2>1, VanishedFields, SMTT(30) DEF MarkWorkerLost
<1>2. ASSUME NEW w \in Workers, NEW obs \in Batches, IngestSnapshot(w, obs)
      PROVE  /\ devices'[d].boot = devices[d].boot
             /\ devices'[d].known = devices[d].known
             /\ devices'[d].fresh => devices[d].fresh
  <2>1. d \notin AppliedDevices(w, obs)
    BY <1>2
  <2> QED
    BY <1>0, <1>2, <2>1, VanishedFields DEF IngestSnapshot
<1>3. ASSUME NEW c \in Devices, NEW new \in DeviceState,
             new.boot = devices[c].boot, new.known = devices[c].known,
             new.fresh = devices[c].fresh,
             devices' = [devices EXCEPT ![c] = recompute_device_eligibility(new)]
      PROVE  /\ devices'[d].boot = devices[d].boot
             /\ devices'[d].known = devices[d].known
             /\ devices'[d].fresh => devices[d].fresh
  BY <1>0, <1>3, RecomputeFields DEF TypeOK
<1>4. ASSUME NEW c \in Devices, NEW level \in DrainLevels, SetDrain(c, level)
      PROVE  /\ devices'[d].boot = devices[d].boot
             /\ devices'[d].known = devices[d].known
             /\ devices'[d].fresh => devices[d].fresh
  <2> DEFINE new == [devices[c] EXCEPT !.drain = level]
  <2>1. /\ new \in DeviceState /\ new.boot = devices[c].boot
        /\ new.known = devices[c].known /\ new.fresh = devices[c].fresh
    BY ConstantsAssumption DEF TypeOK, DeviceState
  <2>2. devices' = [devices EXCEPT ![c] = recompute_device_eligibility(new)]
    BY <1>4 DEF SetDrain
  <2> HIDE DEF new
  <2> QED
    BY <1>3, <2>1, <2>2
<1>5. ASSUME NEW c \in Devices, NEW q \in BOOLEAN,
             devices' = [devices EXCEPT ![c] =
                           recompute_device_eligibility([@ EXCEPT !.quarantined = q])]
      PROVE  /\ devices'[d].boot = devices[d].boot
             /\ devices'[d].known = devices[d].known
             /\ devices'[d].fresh => devices[d].fresh
  <2> DEFINE new == [devices[c] EXCEPT !.quarantined = q]
  <2>1. /\ new \in DeviceState /\ new.boot = devices[c].boot
        /\ new.known = devices[c].known /\ new.fresh = devices[c].fresh
    BY DEF TypeOK, DeviceState
  <2>2. devices' = [devices EXCEPT ![c] = recompute_device_eligibility(new)]
    BY <1>5
  <2> HIDE DEF new
  <2> QED
    BY <1>3, <2>1, <2>2
<1>6. ASSUME NEW c \in Devices, NEW g \in QuarantineGens, SetQuarantine(c, g)
      PROVE  /\ devices'[d].boot = devices[d].boot
             /\ devices'[d].known = devices[d].known
             /\ devices'[d].fresh => devices[d].fresh
  BY <1>5, <1>6 DEF SetQuarantine
<1>7. ASSUME NEW c \in Devices, NEW e \in 1..MaxEpoch, ClearQuarantine(c, e)
      PROVE  /\ devices'[d].boot = devices[d].boot
             /\ devices'[d].known = devices[d].known
             /\ devices'[d].fresh => devices[d].fresh
  BY <1>5, <1>7 DEF ClearQuarantine
<1> QED
  BY <1>1, <1>2, <1>4, <1>6, <1>7
     DEF Next, RollEpoch, ReaffirmWorker, AdmitWorker, Heartbeat, Tick, vars

(* An applied observation comes from the current, unfenced incarnation of  *)
(* the worker that published it, about a device of that worker's host.     *)
LEMMA IngestSource ==
  ASSUME TypeOK, NEW w \in Workers, NEW obs \in Batches, IngestSnapshot(w, obs),
         NEW d \in AppliedDevices(w, obs)
  PROVE  /\ Authoritative(w)
         /\ d \in Devices
         /\ devices'[d].boot = workers[w].boot
         /\ devices'[d].known
         /\ d \in DevicesOf[w]
         /\ devices'[d].boot \in BootsOf[w]
<1>1. obs \in Batch
  BY BatchesAssumption
<1> DEFINE o == ObservationOf(obs, d)
<1>2. /\ d \in Devices /\ o.boot = workers[w].boot /\ o.worker = w
      /\ d \in DevicesOf[w] /\ o.boot \in BootsOf[w]
  BY <1>1, AppliedObservation DEF Rejected
<1>3. devices'[d] = apply_observation(devices[d], o, now)
  BY <1>2 DEF IngestSnapshot
<1>4. Authoritative(w)
  BY DEF IngestSnapshot, CanIngest, Authoritative
<1> HIDE DEF o
<1>5. devices'[d].boot = o.boot /\ devices'[d].known = TRUE
  <2>1. /\ apply_observation(devices[d], o, now).boot = o.boot
        /\ apply_observation(devices[d], o, now).known = TRUE
    BY ApplyFields
  <2> QED
    BY <1>3, <2>1
<1> QED
  BY <1>2, <1>4, <1>5

(* Every operation keeps ownership in order.                               *)
LEMMA OwnershipStep ==
  ASSUME TypeOK, OwnershipInv, [Next]_vars
  PROVE  OwnershipInv'
<1>1. ASSUME NEW w \in Workers
      PROVE  /\ workers'[w].registered => workers'[w].boot \in BootsOf[w]
             /\ workers'[w].registered => workers'[w].alive \/ workers'[w].fenced
             /\ workers'[w].fenced => workers'[w].registered
  <2>0. /\ workers[w] \in WorkerRecord
        /\ workers[w].registered => workers[w].boot \in BootsOf[w]
        /\ workers[w].registered => workers[w].alive \/ workers[w].fenced
        /\ workers[w].fenced => workers[w].registered
    BY DEF TypeOK, OwnershipInv
  <2> DEFINE Kept == \/ workers'[w] = workers[w]
                     \/ /\ workers'[w].registered
                        /\ workers'[w].boot \in BootsOf[w]
                        /\ workers'[w].alive \/ workers'[w].fenced
  <2>1. ASSUME NEW reg \in Registrations, ReaffirmWorker(reg)
        PROVE  Kept
    <3>1. workers' = [workers EXCEPT ![reg.worker] =
                        [@ EXCEPT !.reg_gen = reg.reg_gen, !.last_heartbeat = now,
                                  !.alive = TRUE, !.lost = FALSE, !.ids = reg.enumerated]]
      BY <2>1 DEF ReaffirmWorker, CanReaffirm
    <3>2. workers[reg.worker].registered
      BY <2>1 DEF ReaffirmWorker, CanReaffirm
    <3> QED
      BY <2>0, <3>1, <3>2, RegistrationTyped DEF TypeOK, WorkerRecord
  <2>2. ASSUME NEW reg \in Registrations, AdmitWorker(reg) PROVE Kept
    <3>1. workers' = [workers EXCEPT ![reg.worker] =
                        [registered |-> TRUE, boot |-> reg.boot, reg_gen |-> reg.reg_gen,
                         ids |-> reg.enumerated, last_heartbeat |-> now,
                         alive |-> TRUE, fenced |-> FALSE, lost |-> FALSE]]
      BY <2>2 DEF AdmitWorker, CanAdmit
    <3> QED
      BY <3>1, RegistrationTyped DEF TypeOK
  <2>3. ASSUME NEW v \in Workers, MarkWorkerLost(v) PROVE Kept
    <3>1. workers' = [workers EXCEPT ![v] = [@ EXCEPT !.lost = TRUE, !.alive = FALSE,
                                                      !.fenced = TRUE]]
      BY <2>3 DEF MarkWorkerLost
    <3>2. workers[v].registered
      BY <2>3 DEF MarkWorkerLost
    <3> QED
      BY <2>0, <3>1, <3>2 DEF TypeOK, WorkerRecord
  <2>4. ASSUME NEW v \in Workers, NEW b \in BootsOf[v], NEW e \in 1..MaxEpoch, Heartbeat(v, b, e)
        PROVE  Kept
    BY <2>0, <2>4 DEF Heartbeat, CanHeartbeat, TypeOK, WorkerRecord
  <2>5. ASSUME NEW v \in Workers, NEW obs \in Batches, IngestSnapshot(v, obs)
        PROVE  Kept
    <3> DEFINE found == {d \in AppliedDevices(v, obs) : ~devices[d].known}
               wr == [workers[v] EXCEPT !.ids = @ \cup found]
               new == [wr EXCEPT !.last_heartbeat = now, !.alive = TRUE]
    <3>1. workers' = [workers EXCEPT ![v] = IF Complete(v, obs) THEN new ELSE wr]
      BY <2>5 DEF IngestSnapshot
    <3>2. workers[v].registered
      BY <2>5 DEF IngestSnapshot, CanIngest
    <3>3. workers[v] \in WorkerRecord
      BY DEF TypeOK
    <3>4. /\ wr.registered = workers[v].registered /\ wr.boot = workers[v].boot
          /\ wr.alive = workers[v].alive /\ wr.fenced = workers[v].fenced
      BY <3>3 DEF WorkerRecord
    <3>5. /\ new.registered = workers[v].registered /\ new.boot = workers[v].boot
          /\ new.alive
      BY <3>3 DEF WorkerRecord
    <3> HIDE DEF wr, new
    <3>6. v # w => workers'[w] = workers[w]
      BY <3>1 DEF TypeOK
    <3>7. v = w => workers'[w] \in {new, wr}
      BY <3>1 DEF TypeOK
    <3> QED
      BY <2>0, <3>2, <3>4, <3>5, <3>6, <3>7
  <2>6. ASSUME workers' = workers PROVE Kept
    BY <2>6
  <2> HIDE DEF Kept
  <2>7. Kept
    BY <2>1, <2>2, <2>3, <2>4, <2>5, <2>6
       DEF Next, RollEpoch, SetDrain, SetQuarantine, ClearQuarantine, Tick, vars
  <2> QED
    BY <2>0, <2>7 DEF Kept
<1>2. ASSUME NEW d \in Devices, NEW w \in Workers, devices'[d].boot \in BootsOf[w]
      PROVE  d \in DevicesOf[w]
  <2>1. CASE \E v \in Workers, obs \in Batches :
               IngestSnapshot(v, obs) /\ d \in AppliedDevices(v, obs)
    <3>1. PICK v \in Workers, obs \in Batches :
             IngestSnapshot(v, obs) /\ d \in AppliedDevices(v, obs)
      BY <2>1
    <3>2. d \in DevicesOf[v] /\ devices'[d].boot \in BootsOf[v]
      BY <3>1, IngestSource
    <3> QED
      BY <1>2, <3>2, BootIdsUnique
  <2>2. CASE ~ \E v \in Workers, obs \in Batches :
               IngestSnapshot(v, obs) /\ d \in AppliedDevices(v, obs)
    BY <1>2, <2>2, DeviceStep DEF OwnershipInv
  <2> QED
    BY <2>1, <2>2
<1>3. ASSUME NEW d \in Devices, devices'[d].fresh PROVE devices'[d].known
  BY <1>3, IngestSource, DeviceStep DEF OwnershipInv
<1> QED
  BY <1>1, <1>2, <1>3 DEF OwnershipInv

(* Only its loss ends a worker's authority; no other incarnation is        *)
(* admitted meanwhile.                                                     *)
LEMMA SourceStep ==
  ASSUME TypeOK, OwnershipInv, [Next]_vars, NEW w \in Workers, Authoritative(w)
  PROVE  \/ MarkWorkerLost(w)
         \/ Authoritative(w)' /\ workers'[w].boot = workers[w].boot
<1> DEFINE Kept == Authoritative(w)' /\ workers'[w].boot = workers[w].boot
<1>0. workers[w] \in WorkerRecord /\ workers[w].boot \in BootsOf[w] /\ workers[w].alive
  BY DEF TypeOK, OwnershipInv, Authoritative
<1>1. ASSUME workers'[w] = workers[w] PROVE Kept
  BY <1>1 DEF Authoritative
<1>2. ASSUME NEW reg \in Registrations, ReaffirmWorker(reg) PROVE Kept
  <2>1. workers' = [workers EXCEPT ![reg.worker] =
                      [@ EXCEPT !.reg_gen = reg.reg_gen, !.last_heartbeat = now,
                                !.alive = TRUE, !.lost = FALSE, !.ids = reg.enumerated]]
    BY <1>2 DEF ReaffirmWorker, CanReaffirm
  <2> QED
    BY <1>0, <2>1, RegistrationTyped DEF TypeOK, WorkerRecord, Authoritative
<1>3. ASSUME NEW reg \in Registrations, AdmitWorker(reg) PROVE Kept
  <2>1. reg.worker # w
    BY <1>0, <1>3 DEF AdmitWorker, CanAdmit, Active, Authoritative
  <2>2. workers'[w] = workers[w]
    BY <1>3, <2>1, RegistrationTyped DEF AdmitWorker, CanAdmit, TypeOK
  <2> QED
    BY <1>1, <2>2
<1>4. ASSUME NEW v \in Workers, MarkWorkerLost(v), v # w PROVE Kept
  <2>1. workers'[w] = workers[w]
    BY <1>4 DEF MarkWorkerLost, TypeOK
  <2> QED
    BY <1>1, <2>1
<1>5. ASSUME NEW v \in Workers, NEW b \in BootsOf[v], NEW e \in 1..MaxEpoch, Heartbeat(v, b, e)
      PROVE  Kept
  BY <1>0, <1>5 DEF Heartbeat, CanHeartbeat, TypeOK, WorkerRecord, Authoritative
<1>6. ASSUME NEW v \in Workers, NEW obs \in Batches, IngestSnapshot(v, obs) PROVE Kept
  <2> DEFINE found == {c \in AppliedDevices(v, obs) : ~devices[c].known}
             wr == [workers[v] EXCEPT !.ids = @ \cup found]
             new == [wr EXCEPT !.last_heartbeat = now, !.alive = TRUE]
  <2>1. workers' = [workers EXCEPT ![v] = IF Complete(v, obs) THEN new ELSE wr]
    BY <1>6 DEF IngestSnapshot
  <2>2. workers[v] \in WorkerRecord
    BY DEF TypeOK
  <2>3. /\ wr.boot = workers[v].boot /\ wr.registered = workers[v].registered
        /\ wr.lost = workers[v].lost /\ wr.fenced = workers[v].fenced
    BY <2>2 DEF WorkerRecord
  <2>4. /\ new.boot = workers[v].boot /\ new.registered = workers[v].registered
        /\ new.lost = workers[v].lost /\ new.fenced = workers[v].fenced
    BY <2>2 DEF WorkerRecord
  <2> HIDE DEF wr, new
  <2>5. v # w => workers'[w] = workers[w]
    BY <2>1 DEF TypeOK
  <2>6. v = w => workers'[w] \in {new, wr}
    BY <2>1 DEF TypeOK
  <2> QED
    BY <1>1, <2>3, <2>4, <2>5, <2>6 DEF Authoritative
<1>7. ASSUME workers' = workers PROVE Kept
  BY <1>1, <1>7
<1> HIDE DEF Kept
<1>8. MarkWorkerLost(w) \/ Kept
  BY <1>2, <1>3, <1>4, <1>5, <1>6, <1>7
     DEF Next, RollEpoch, SetDrain, SetQuarantine, ClearQuarantine, Tick, vars
<1> QED
  BY <1>8 DEF Kept

(* Every operation keeps fresh observations attached to a live source,     *)
(* unless it takes the device off its incarnation's list.                  *)
LEMMA LiveSourceStep ==
  ASSUME TypeOK, OwnershipInv, [Next]_vars,
         NEW d \in Devices, devices'[d].fresh, devices[d].fresh => HasSource(d)
  PROVE  HasSource(d)' \/ Overlooked(d)'
<1>0. ASSUME NEW w \in Workers, Authoritative(w)', workers'[w].boot = devices'[d].boot
      PROVE  HasSource(d)' \/ Overlooked(d)'
  BY <1>0 DEF HasSource, Overlooked, Authoritative
<1>1. CASE \E w \in Workers, obs \in Batches :
             IngestSnapshot(w, obs) /\ d \in AppliedDevices(w, obs)
  <2>1. PICK w \in Workers, obs \in Batches :
           IngestSnapshot(w, obs) /\ d \in AppliedDevices(w, obs)
    BY <1>1
  <2>2. Authoritative(w) /\ devices'[d].boot = workers[w].boot
    BY <2>1, IngestSource
  <2>3. workers'[w].fenced = workers[w].fenced
    <3> DEFINE found == {c \in AppliedDevices(w, obs) : ~devices[c].known}
               wr == [workers[w] EXCEPT !.ids = @ \cup found]
               new == [wr EXCEPT !.last_heartbeat = now, !.alive = TRUE]
    <3>1. workers' = [workers EXCEPT ![w] = IF Complete(w, obs) THEN new ELSE wr]
      BY <2>1 DEF IngestSnapshot
    <3>2. wr.fenced = workers[w].fenced /\ new.fenced = workers[w].fenced
      BY DEF TypeOK, WorkerRecord
    <3> HIDE DEF wr, new
    <3> QED
      BY <3>1, <3>2 DEF TypeOK
  <2>4. ~MarkWorkerLost(w)
    <3>1. ASSUME MarkWorkerLost(w) PROVE workers'[w].fenced
      BY <3>1 DEF MarkWorkerLost, TypeOK, WorkerRecord
    <3> QED
      BY <2>2, <2>3, <3>1 DEF Authoritative
  <2> QED
    BY <1>0, <2>2, <2>4, SourceStep
<1>2. CASE ~ \E w \in Workers, obs \in Batches :
             IngestSnapshot(w, obs) /\ d \in AppliedDevices(w, obs)
  <2>1. devices'[d].boot = devices[d].boot /\ devices[d].fresh
    BY <1>2, DeviceStep
  <2>2. devices[d].known
    BY <2>1 DEF OwnershipInv
  <2>3. PICK w \in Workers : Authoritative(w) /\ workers[w].boot = devices[d].boot
                             /\ d \in workers[w].ids
    BY <2>1 DEF HasSource
  <2>4. ~MarkWorkerLost(w)
    <3>1. SUFFICES ASSUME MarkWorkerLost(w) PROVE ~devices'[d].fresh
      OBVIOUS
    <3>2. devices[d] \in DeviceState /\ ~[devices[d] EXCEPT !.fresh = FALSE].fresh
      BY DEF TypeOK, DeviceState
    <3> QED
      BY <2>2, <2>3, <3>1, <3>2, VanishedFields DEF MarkWorkerLost
  <2> QED
    BY <1>0, <2>1, <2>3, <2>4, SourceStep
<1> QED
  BY <1>1, <1>2

(* Ownership is in order in every reachable state.                         *)
LEMMA OwnershipHolds == Spec => []OwnershipInv
<1>1. Init => OwnershipInv
  <2>1. ASSUME NEW w \in Workers PROVE 0 \notin BootsOf[w]
    BY ConstantsAssumption
  <2> QED
    BY <2>1 DEF Init, OwnershipInv, NoWorker, NewDevice
<1>2. TypeOK /\ OwnershipInv /\ [Next]_vars => OwnershipInv'
  BY OwnershipStep
<1> QED
  BY <1>1, <1>2, TypeCorrect, PTL DEF Spec

(* No observation outlives the authority of the incarnation that made it,  *)
(* unless that incarnation registered again without the device: any number *)
(* of workers, incarnations and shared devices, any lists, any order of    *)
(* messages, losses, re-registrations and takeovers.                       *)
THEOREM FreshnessKeepsSource == Spec => FreshKeepsSource
<1> DEFINE Keeps == \A d \in Devices :
             devices'[d].fresh /\ (devices[d].fresh => HasSource(d))
               => HasSource(d)' \/ Overlooked(d)'
<1>1. TypeOK /\ OwnershipInv /\ [Next]_vars => [Keeps]_vars
  BY LiveSourceStep
<1> HIDE DEF Keeps
<1>2. Spec => [][Keeps]_vars
  BY <1>1, TypeCorrect, OwnershipHolds, PTL DEF Spec
<1> QED
  BY <1>2 DEF FreshKeepsSource, Keeps

(* Every operation keeps a fence in place while its incarnation is the one *)
(* on record.                                                              *)
LEMMA FenceStep ==
  ASSUME TypeOK, OwnershipInv, [Next]_vars, NEW w \in Workers
  PROVE  workers[w].fenced /\ workers'[w].boot = workers[w].boot => workers'[w].fenced
<1> DEFINE Kept == /\ workers'[w].registered = workers[w].registered
                   /\ workers'[w].boot = workers[w].boot
                   /\ workers[w].fenced => workers'[w].fenced
                   /\ workers'[w].fenced => workers[w].registered
<1>0. /\ workers[w] \in WorkerRecord
      /\ workers[w].registered => workers[w].boot \in BootsOf[w]
      /\ workers[w].fenced => workers[w].registered
  BY DEF TypeOK, OwnershipInv
<1>1. ASSUME workers'[w] = workers[w] PROVE Kept
  BY <1>0, <1>1
<1>2. ASSUME NEW reg \in Registrations, ReaffirmWorker(reg) PROVE Kept
  <2>1. workers' = [workers EXCEPT ![reg.worker] =
                      [@ EXCEPT !.reg_gen = reg.reg_gen, !.last_heartbeat = now,
                                !.alive = TRUE, !.lost = FALSE, !.ids = reg.enumerated]]
    BY <1>2 DEF ReaffirmWorker, CanReaffirm
  <2> QED
    BY <1>0, <2>1, RegistrationTyped DEF TypeOK, WorkerRecord
<1>3. ASSUME NEW reg \in Registrations, AdmitWorker(reg)
      PROVE  \/ Kept
             \/ /\ workers'[w].registered /\ ~workers'[w].fenced
                /\ workers'[w].boot \in BootsOf[w]
                /\ workers[w].registered => workers'[w].boot # workers[w].boot
  <2>1. workers' = [workers EXCEPT ![reg.worker] =
                      [registered |-> TRUE, boot |-> reg.boot, reg_gen |-> reg.reg_gen,
                       ids |-> reg.enumerated, last_heartbeat |-> now,
                       alive |-> TRUE, fenced |-> FALSE, lost |-> FALSE]]
    BY <1>3 DEF AdmitWorker, CanAdmit
  <2>2. workers[reg.worker].registered => workers[reg.worker].boot # reg.boot
    BY <1>3 DEF AdmitWorker, CanAdmit
  <2>3. reg.worker # w => workers'[w] = workers[w]
    BY <2>1, RegistrationTyped DEF TypeOK
  <2>4. CASE reg.worker = w
    BY <2>1, <2>2, <2>4, RegistrationTyped DEF TypeOK
  <2> QED
    BY <1>1, <2>3, <2>4
<1>4. ASSUME NEW v \in Workers, MarkWorkerLost(v) PROVE Kept
  <2>1. workers' = [workers EXCEPT ![v] = [@ EXCEPT !.lost = TRUE, !.alive = FALSE,
                                                    !.fenced = TRUE]]
    BY <1>4 DEF MarkWorkerLost
  <2>2. workers[v].registered
    BY <1>4 DEF MarkWorkerLost
  <2> QED
    BY <1>0, <2>1, <2>2 DEF TypeOK, WorkerRecord
<1>5. ASSUME NEW v \in Workers, NEW b \in BootsOf[v], NEW e \in 1..MaxEpoch, Heartbeat(v, b, e)
      PROVE  Kept
  BY <1>0, <1>5 DEF Heartbeat, TypeOK, WorkerRecord
<1>6. ASSUME NEW v \in Workers, NEW obs \in Batches, IngestSnapshot(v, obs) PROVE Kept
  <2> DEFINE found == {c \in AppliedDevices(v, obs) : ~devices[c].known}
             wr == [workers[v] EXCEPT !.ids = @ \cup found]
             new == [wr EXCEPT !.last_heartbeat = now, !.alive = TRUE]
  <2>1. workers' = [workers EXCEPT ![v] = IF Complete(v, obs) THEN new ELSE wr]
    BY <1>6 DEF IngestSnapshot
  <2>2. workers[v] \in WorkerRecord
    BY DEF TypeOK
  <2>3. /\ wr.boot = workers[v].boot /\ wr.registered = workers[v].registered
        /\ wr.fenced = workers[v].fenced
    BY <2>2 DEF WorkerRecord
  <2>4. /\ new.boot = workers[v].boot /\ new.registered = workers[v].registered
        /\ new.fenced = workers[v].fenced
    BY <2>2 DEF WorkerRecord
  <2> HIDE DEF wr, new
  <2>5. v # w => workers'[w] = workers[w]
    BY <2>1 DEF TypeOK
  <2>6. v = w => workers'[w] \in {new, wr}
    BY <2>1 DEF TypeOK
  <2> QED
    BY <1>0, <1>1, <2>3, <2>4, <2>5, <2>6
<1>7. ASSUME workers' = workers PROVE Kept
  BY <1>1, <1>7
<1> HIDE DEF Kept
<1>8. Kept \/ (\E reg \in Registrations : AdmitWorker(reg))
  BY <1>2, <1>4, <1>5, <1>6, <1>7
     DEF Next, RollEpoch, SetDrain, SetQuarantine, ClearQuarantine, Tick, vars
<1> QED
  BY <1>0, <1>3, <1>8 DEF Kept

(* A fence holds while the fenced incarnation is the one on record: no     *)
(* message lifts it, and none of its devices turns fresh again.            *)
THEOREM FencesHold == Spec => FenceHolds
<1> DEFINE Holds == \A w \in Workers :
             workers[w].fenced /\ workers'[w].boot = workers[w].boot =>
               /\ workers'[w].fenced
               /\ \A d \in Devices : devices'[d].fresh /\ devices'[d].boot = workers[w].boot
                                      => devices[d].fresh
<1>1. TypeOK /\ OwnershipInv /\ [Next]_vars => [Holds]_vars
  <2> SUFFICES ASSUME TypeOK, OwnershipInv, [Next]_vars, NEW w \in Workers,
                      workers[w].fenced, workers'[w].boot = workers[w].boot
               PROVE  /\ workers'[w].fenced
                      /\ \A d \in Devices :
                           devices'[d].fresh /\ devices'[d].boot = workers[w].boot
                             => devices[d].fresh
    OBVIOUS
  <2>1. workers'[w].fenced
    BY FenceStep
  <2>2. ASSUME NEW d \in Devices, devices'[d].fresh, devices'[d].boot = workers[w].boot
        PROVE  devices[d].fresh
    <3>1. SUFFICES ASSUME NEW v \in Workers, NEW obs \in Batches, IngestSnapshot(v, obs),
                          d \in AppliedDevices(v, obs)
                   PROVE  FALSE
      BY <2>2, DeviceStep
    <3>2. /\ Authoritative(v) /\ devices'[d].boot \in BootsOf[v]
      BY <3>1, IngestSource
    <3>3. workers[w].boot \in BootsOf[w]
      BY DEF OwnershipInv
    <3> QED
      BY <2>2, <3>2, <3>3, BootIdsUnique DEF Authoritative
  <2> QED
    BY <2>1, <2>2
<1> HIDE DEF Holds
<1>2. Spec => [][Holds]_vars
  BY <1>1, TypeCorrect, OwnershipHolds, PTL DEF Spec
<1> QED
  BY <1>2 DEF FenceHolds, Holds

-----------------------------------------------------------------------------
(* How a step can change one device *)

(* An observation of d is accepted in this step.                           *)
Observed(d) ==
  \E w \in Workers, obs \in Batches :
    IngestSnapshot(w, obs) /\ d \in AppliedDevices(w, obs)

(* d is found gone or its worker is lost.                                  *)
TakenDown(d) ==
  \/ \E why : devices'[d] = Vanished(devices[d], why)
  \/ devices'[d] = [devices[d] EXCEPT !.fresh = FALSE]

(* An operator drains, undrains, quarantines or clears d.                  *)
Administered(d) ==
  \/ \E level \in DrainLevels : SetDrain(d, level)
  \/ \E g \in QuarantineGens : SetQuarantine(d, g)
  \/ \E e \in 1..MaxEpoch : ClearQuarantine(d, e)

(* There is no other way.                                                  *)
LEMMA DeviceCases ==
  ASSUME TypeOK, [Next]_vars, NEW d \in Devices
  PROVE  devices'[d] = devices[d] \/ Observed(d) \/ TakenDown(d) \/ Administered(d)
<1> DEFINE Known == devices'[d] = devices[d] \/ Observed(d) \/ TakenDown(d) \/ Administered(d)
<1>1. ASSUME devices' = devices PROVE Known
  BY <1>1
<1>2. ASSUME NEW w \in Workers, MarkWorkerLost(w) PROVE Known
  BY <1>2 DEF MarkWorkerLost, TakenDown
<1>3. ASSUME NEW w \in Workers, NEW obs \in Batches, IngestSnapshot(w, obs) PROVE Known
  <2>1. CASE d \in AppliedDevices(w, obs)
    BY <1>3, <2>1 DEF Observed
  <2>2. CASE d \notin AppliedDevices(w, obs)
    BY <1>3, <2>2 DEF IngestSnapshot, TakenDown
  <2> QED
    BY <2>1, <2>2
<1>4. ASSUME NEW c \in Devices, NEW new, devices' = [devices EXCEPT ![c] = new], c # d
      PROVE  Known
  BY <1>4 DEF TypeOK
<1>5. ASSUME NEW c \in Devices, NEW level \in DrainLevels, SetDrain(c, level) PROVE Known
  BY <1>4, <1>5 DEF SetDrain, Administered
<1>6. ASSUME NEW c \in Devices, NEW g \in QuarantineGens, SetQuarantine(c, g) PROVE Known
  BY <1>4, <1>6 DEF SetQuarantine, Administered
<1>7. ASSUME NEW c \in Devices, NEW e \in 1..MaxEpoch, ClearQuarantine(c, e) PROVE Known
  BY <1>4, <1>7 DEF ClearQuarantine, Administered
<1> HIDE DEF Known
<1>8. Known
  BY <1>1, <1>2, <1>3, <1>5, <1>6, <1>7
     DEF Next, RollEpoch, ReaffirmWorker, AdmitWorker, Heartbeat, Tick, vars
<1> QED
  BY <1>8 DEF Known

(* What an accepted observation makes of its device, and what ingestion    *)
(* has checked about it before.                                            *)
LEMMA ObservedFields ==
  ASSUME TypeOK, NEW d \in Devices, Observed(d)
  PROVE  \E o \in DeviceObservation :
           /\ devices'[d] = apply_observation(devices[d], o, now)
           /\ devices'[d].boot = o.boot
           /\ devices'[d].obs_gen = o.obs_gen
           /\ devices'[d].generation = o.device_gen
           /\ devices'[d].last_observed_at = o.observed_at
           /\ devices'[d].drain = devices[d].drain
           /\ devices'[d].quarantined = devices[d].quarantined
           /\ devices'[d].fresh = is_fresh(devices[d], o, now)
           /\ devices[d].known /\ devices[d].boot = o.boot =>
                /\ o.obs_gen > devices[d].obs_gen
                /\ o.device_gen >= devices[d].generation
<1>1. PICK w \in Workers, obs \in Batches :
        IngestSnapshot(w, obs) /\ d \in AppliedDevices(w, obs)
  BY DEF Observed
<1> DEFINE o == ObservationOf(obs, d)
<1>2. obs \in Batch
  BY BatchesAssumption
<1>3. /\ o \in DeviceObservation /\ o.dev = d
      /\ ~Rejected(w, o) /\ ~Skipped(o)
  BY <1>1, <1>2, AppliedObservation
<1>4. devices'[d] = apply_observation(devices[d], o, now)
  BY <1>1 DEF IngestSnapshot
<1> HIDE DEF o
<1>5. devices[d] \in DeviceState
  BY DEF TypeOK
<1>6. /\ o.obs_gen \in Nat /\ o.device_gen \in Nat
      /\ devices[d].obs_gen \in Nat /\ devices[d].generation \in Nat
  BY <1>3, <1>5 DEF DeviceObservation, DeviceState
<1>7. devices[d].known /\ devices[d].boot = o.boot =>
        o.obs_gen > devices[d].obs_gen /\ o.device_gen >= devices[d].generation
  BY <1>3, <1>6 DEF Rejected, Skipped, SameIncarnation
<1>8. LET new == apply_observation(devices[d], o, now) IN
        /\ new.boot = o.boot
        /\ new.obs_gen = o.obs_gen
        /\ new.generation = o.device_gen
        /\ new.last_observed_at = o.observed_at
        /\ new.drain = devices[d].drain
        /\ new.quarantined = devices[d].quarantined
        /\ new.fresh = is_fresh(devices[d], o, now)
  BY DEF apply_observation
<1> QED
  BY <1>3, <1>4, <1>7, <1>8

(* What losing a device leaves alone.                                      *)
LEMMA TakenDownFields ==
  ASSUME TypeOK, NEW d \in Devices, TakenDown(d)
  PROVE  /\ devices'[d].known = devices[d].known
         /\ devices'[d].boot = devices[d].boot
         /\ devices'[d].obs_gen = devices[d].obs_gen
         /\ devices'[d].generation = devices[d].generation
         /\ devices'[d].health_gen = devices[d].health_gen
         /\ devices'[d].last_observed_at = devices[d].last_observed_at
         /\ devices'[d].core_validation_ok = devices[d].core_validation_ok
         /\ devices'[d].drain = devices[d].drain
         /\ devices'[d].quarantined = devices[d].quarantined
         /\ devices'[d].fresh = FALSE
         /\ devices'[d].elig \in {devices[d].elig, "INELIGIBLE"}
BY DEF TakenDown, Vanished, TypeOK, DeviceState

(* What an operator's step on d leaves alone.                              *)
LEMMA AdministeredFields ==
  ASSUME TypeOK, NEW d \in Devices, Administered(d)
  PROVE  /\ devices[d].known
         /\ devices'[d].known = devices[d].known
         /\ devices'[d].boot = devices[d].boot
         /\ devices'[d].obs_gen = devices[d].obs_gen
         /\ devices'[d].generation = devices[d].generation
         /\ devices'[d].health_gen = devices[d].health_gen
         /\ devices'[d].last_observed_at = devices[d].last_observed_at
         /\ devices'[d].core_validation_ok = devices[d].core_validation_ok
         /\ devices'[d].fresh = devices[d].fresh
         /\ workers' = workers
         /\ devices' = [devices EXCEPT ![d] = devices'[d]]
         /\ devices[d].quarantined /\ ~devices'[d].quarantined
              => \E e \in 1..MaxEpoch : ClearQuarantine(d, e)
<1>1. PICK new \in {[devices[d] EXCEPT !.drain = level] : level \in DrainLevels}
                   \cup {[devices[d] EXCEPT !.quarantined = q] : q \in BOOLEAN} :
        /\ devices' = [devices EXCEPT ![d] = recompute_device_eligibility(new)]
        /\ new.quarantined \/ (\E e \in 1..MaxEpoch : ClearQuarantine(d, e))
             \/ ~devices[d].quarantined
  <2>1. ASSUME NEW level \in DrainLevels, SetDrain(d, level)
        PROVE  /\ devices' = [devices EXCEPT ![d] =
                     recompute_device_eligibility([devices[d] EXCEPT !.drain = level])]
               /\ [devices[d] EXCEPT !.drain = level].quarantined = devices[d].quarantined
    BY <2>1 DEF SetDrain, TypeOK, DeviceState
  <2>2. ASSUME NEW g \in QuarantineGens, SetQuarantine(d, g)
        PROVE  /\ devices' = [devices EXCEPT ![d] =
                     recompute_device_eligibility([devices[d] EXCEPT !.quarantined = TRUE])]
               /\ [devices[d] EXCEPT !.quarantined = TRUE].quarantined
    BY <2>2 DEF SetQuarantine, TypeOK, DeviceState
  <2>3. ASSUME NEW e \in 1..MaxEpoch, ClearQuarantine(d, e)
        PROVE  devices' = [devices EXCEPT ![d] =
                     recompute_device_eligibility([devices[d] EXCEPT !.quarantined = FALSE])]
    BY <2>3 DEF ClearQuarantine
  <2> QED
    BY <2>1, <2>2, <2>3, ZenonT(60) DEF Administered
<1>2. /\ new \in DeviceState
      /\ new.known = devices[d].known /\ new.boot = devices[d].boot
      /\ new.obs_gen = devices[d].obs_gen /\ new.generation = devices[d].generation
      /\ new.health_gen = devices[d].health_gen
      /\ new.last_observed_at = devices[d].last_observed_at
      /\ new.core_validation_ok = devices[d].core_validation_ok
      /\ new.fresh = devices[d].fresh
  BY <1>1, ConstantsAssumption DEF TypeOK, DeviceState
<1>3. devices'[d] = recompute_device_eligibility(new)
  BY <1>1 DEF TypeOK
<1>4. LET r == recompute_device_eligibility(new) IN
        /\ r.known = new.known /\ r.boot = new.boot
        /\ r.obs_gen = new.obs_gen /\ r.generation = new.generation
        /\ r.health_gen = new.health_gen
        /\ r.last_observed_at = new.last_observed_at
        /\ r.core_validation_ok = new.core_validation_ok
        /\ r.fresh = new.fresh /\ r.quarantined = new.quarantined
  BY <1>2 DEF recompute_device_eligibility, DeviceState
<1>5. devices[d].known /\ workers' = workers
  BY DEF Administered, SetDrain, SetQuarantine, ClearQuarantine
<1> QED
  BY <1>1, <1>2, <1>3, <1>4, <1>5

-----------------------------------------------------------------------------
(* What a step may never do *)

(* No step takes a device's generations back, or rewrites an observation   *)
(* under the generation it was accepted with, within one incarnation.      *)
THEOREM GenerationsOnlyAdvance == Spec => GenerationsAdvance
<1> DEFINE Advance == \A d \in Devices :
             devices[d].known /\ devices'[d].boot = devices[d].boot =>
               /\ devices'[d].obs_gen >= devices[d].obs_gen
               /\ devices'[d].generation >= devices[d].generation
               /\ devices'[d].obs_gen = devices[d].obs_gen =>
                    /\ devices'[d].last_observed_at = devices[d].last_observed_at
                    /\ devices'[d].core_validation_ok = devices[d].core_validation_ok
<1>1. TypeOK /\ [Next]_vars => [Advance]_vars
  <2> SUFFICES ASSUME TypeOK, [Next]_vars, NEW d \in Devices,
                      devices[d].known, devices'[d].boot = devices[d].boot
               PROVE  /\ devices'[d].obs_gen >= devices[d].obs_gen
                      /\ devices'[d].generation >= devices[d].generation
                      /\ devices'[d].obs_gen = devices[d].obs_gen =>
                           /\ devices'[d].last_observed_at = devices[d].last_observed_at
                           /\ devices'[d].core_validation_ok = devices[d].core_validation_ok
    OBVIOUS
  <2>1. devices[d].obs_gen \in Nat /\ devices[d].generation \in Nat
    BY DEF TypeOK, DeviceState
  <2>2. CASE Observed(d)
    <3>1. PICK o \in DeviceObservation :
            /\ devices'[d].boot = o.boot
            /\ devices'[d].obs_gen = o.obs_gen
            /\ devices'[d].generation = o.device_gen
            /\ devices[d].known /\ devices[d].boot = o.boot =>
                 o.obs_gen > devices[d].obs_gen /\ o.device_gen >= devices[d].generation
      BY <2>2, ObservedFields
    <3>2. o.obs_gen \in Nat /\ o.device_gen \in Nat
      BY DEF DeviceObservation
    <3> QED
      BY <2>1, <3>1, <3>2
  <2>3. CASE TakenDown(d) \/ Administered(d) \/ devices'[d] = devices[d]
    <3>1. /\ devices'[d].obs_gen = devices[d].obs_gen
          /\ devices'[d].generation = devices[d].generation
          /\ devices'[d].last_observed_at = devices[d].last_observed_at
          /\ devices'[d].core_validation_ok = devices[d].core_validation_ok
      BY <2>3, TakenDownFields, AdministeredFields
    <3> QED
      BY <2>1, <3>1
  <2> QED
    BY <2>2, <2>3, DeviceCases
<1> HIDE DEF Advance
<1>2. Spec => [][Advance]_vars
  BY <1>1, TypeCorrect, PTL DEF Spec
<1> QED
  BY <1>2 DEF GenerationsAdvance, Advance

(* No message of a worker moves a drain or a quarantine, however the two   *)
(* race: only an operator's step on that very device does.                 *)
THEOREM AdminFencesStand == Spec => AdminFencesHold
<1> DEFINE Holds == \A d \in Devices :
             /\ devices'[d].quarantined # devices[d].quarantined
                   \/ devices'[d].drain # devices[d].drain
                  => UNCHANGED workers /\ devices' = [devices EXCEPT ![d] = devices'[d]]
             /\ devices[d].quarantined /\ ~devices'[d].quarantined
                  => \E e \in 1..MaxEpoch : ClearQuarantine(d, e)
<1>1. TypeOK /\ [Next]_vars => [Holds]_vars
  <2> SUFFICES ASSUME TypeOK, [Next]_vars, NEW d \in Devices
               PROVE  /\ devices'[d].quarantined # devices[d].quarantined
                            \/ devices'[d].drain # devices[d].drain
                           => UNCHANGED workers /\ devices' = [devices EXCEPT ![d] = devices'[d]]
                      /\ devices[d].quarantined /\ ~devices'[d].quarantined
                           => \E e \in 1..MaxEpoch : ClearQuarantine(d, e)
    OBVIOUS
  <2>1. CASE Observed(d)
    BY <2>1, ObservedFields
  <2> QED
    BY <2>1, DeviceCases, TakenDownFields, AdministeredFields
<1> HIDE DEF Holds
<1>2. Spec => [][Holds]_vars
  BY <1>1, TypeCorrect, PTL DEF Spec
<1> QED
  BY <1>2 DEF AdminFencesHold, Holds

(* A worker's record lists devices of its own host only.                   *)
IdsInv == \A w \in Workers : workers[w].ids \subseteq DevicesOf[w]

(* Registrations and batches keep it so: an agent enumerates and reports   *)
(* its own host.                                                           *)
LEMMA IdsStep ==
  ASSUME TypeOK, IdsInv, [Next]_vars
  PROVE  IdsInv'
<1> SUFFICES ASSUME NEW w \in Workers PROVE workers'[w].ids \subseteq DevicesOf[w]
  BY DEF IdsInv
<1> DEFINE Own == workers'[w].ids \subseteq DevicesOf[w]
<1>0. workers[w] \in WorkerRecord /\ workers[w].ids \subseteq DevicesOf[w]
  BY DEF TypeOK, IdsInv
<1>1. ASSUME workers'[w].ids = workers[w].ids PROVE Own
  BY <1>0, <1>1
<1>2. ASSUME NEW reg \in Registrations, ReaffirmWorker(reg) PROVE Own
  BY <1>0, <1>2, RegistrationTyped DEF ReaffirmWorker, TypeOK, WorkerRecord
<1>3. ASSUME NEW reg \in Registrations, AdmitWorker(reg) PROVE Own
  BY <1>0, <1>3, RegistrationTyped DEF AdmitWorker, TypeOK
<1>4. ASSUME NEW v \in Workers, MarkWorkerLost(v) PROVE Own
  BY <1>0, <1>4 DEF MarkWorkerLost, TypeOK, WorkerRecord
<1>5. ASSUME NEW v \in Workers, NEW b \in BootsOf[v], NEW e \in 1..MaxEpoch, Heartbeat(v, b, e)
      PROVE  Own
  BY <1>0, <1>5 DEF Heartbeat, TypeOK, WorkerRecord
<1>6. ASSUME NEW v \in Workers, NEW obs \in Batches, IngestSnapshot(v, obs) PROVE Own
  <2> DEFINE found == {c \in AppliedDevices(v, obs) : ~devices[c].known}
             wr == [workers[v] EXCEPT !.ids = @ \cup found]
             new == [wr EXCEPT !.last_heartbeat = now, !.alive = TRUE]
  <2>1. workers' = [workers EXCEPT ![v] = IF Complete(v, obs) THEN new ELSE wr]
    BY <1>6 DEF IngestSnapshot
  <2>2. workers[v] \in WorkerRecord
    BY DEF TypeOK
  <2>3. found \subseteq DevicesOf[v]
    BY <1>6, IngestSource
  <2>4. wr.ids = workers[v].ids \cup found /\ new.ids = workers[v].ids \cup found
    BY <2>2 DEF WorkerRecord
  <2> HIDE DEF wr, new, found
  <2>5. v # w => workers'[w] = workers[w]
    BY <2>1 DEF TypeOK
  <2>6. v = w => workers'[w] \in {new, wr}
    BY <2>1 DEF TypeOK
  <2> QED
    BY <1>0, <2>3, <2>4, <2>5, <2>6
<1>7. ASSUME workers' = workers PROVE Own
  BY <1>1, <1>7
<1> HIDE DEF Own
<1>8. Own
  BY <1>2, <1>3, <1>4, <1>5, <1>6, <1>7
     DEF Next, RollEpoch, SetDrain, SetQuarantine, ClearQuarantine, Tick, vars
<1> QED
  BY <1>8 DEF Own

(* Whatever a worker loses, sends or registers, only devices of its own    *)
(* host change with its record.                                            *)
THEOREM HostsAreIsolated == Spec => OtherHostsUntouched
<1> DEFINE Untouched == \A w \in Workers, d \in Devices :
             workers'[w] # workers[w] /\ devices'[d] # devices[d] => d \in DevicesOf[w]
<1>1. Init => IdsInv
  BY DEF Init, IdsInv, NoWorker
<1>2. TypeOK /\ IdsInv /\ [Next]_vars => [Untouched]_vars
  <2> SUFFICES ASSUME TypeOK, IdsInv, [Next]_vars, NEW w \in Workers, NEW d \in Devices,
                      workers'[w] # workers[w], devices'[d] # devices[d]
               PROVE  d \in DevicesOf[w]
    OBVIOUS
  <2>1. ASSUME NEW v \in Workers, MarkWorkerLost(v) PROVE d \in DevicesOf[w]
    <3>1. v = w
      BY <2>1 DEF MarkWorkerLost, TypeOK
    <3> QED
      BY <2>1, <3>1 DEF MarkWorkerLost, IdsInv
  <2>2. ASSUME NEW v \in Workers, NEW obs \in Batches, IngestSnapshot(v, obs)
        PROVE  d \in DevicesOf[w]
    <3>1. v = w
      BY <2>2 DEF IngestSnapshot, TypeOK
    <3>2. CASE d \in AppliedDevices(v, obs)
      BY <2>2, <3>1, <3>2, IngestSource
    <3>3. CASE d \notin AppliedDevices(v, obs)
      BY <2>2, <3>1, <3>3 DEF IngestSnapshot, Disappeared, IdsInv
    <3> QED
      BY <3>2, <3>3
  <2> QED
    BY <2>1, <2>2 DEF Next, RollEpoch, ReaffirmWorker, AdmitWorker, Heartbeat, SetDrain,
       SetQuarantine, ClearQuarantine, Tick, vars
<1> HIDE DEF Untouched
<1>3. Spec => [][Untouched]_vars
  BY <1>1, <1>2, IdsStep, TypeCorrect, PTL DEF Spec
<1> QED
  BY <1>3 DEF OtherHostsUntouched, Untouched

(* A device enters placement by a young observation that was just accepted *)
(* in order, or by an operator's step on one already fresh.                *)
LEMMA UsableStep ==
  ASSUME TypeOK, UsableIsBacked, [Next]_vars, NEW d \in Devices,
         devices[d].elig \notin Usable, devices'[d].elig \in Usable
  PROVE  \/ devices[d].fresh /\ devices'[d].obs_gen = devices[d].obs_gen
         \/ /\ devices'[d].last_observed_at # kInvalidTimestamp
            /\ devices'[d].last_observed_at >= devices[d].last_observed_at
            /\ now - devices'[d].last_observed_at <= freshness_threshold
<1>1. devices'[d].fresh
  BY BackedStep DEF UsableIsBacked, Backed
<1>2. CASE Observed(d)
  <2>1. PICK o \in DeviceObservation :
          /\ devices'[d].last_observed_at = o.observed_at
          /\ devices'[d].fresh = is_fresh(devices[d], o, now)
    BY <1>2, ObservedFields
  <2>2. is_fresh(devices[d], o, now)
    BY <1>1, <2>1
  <2>3. o.observed_at \in Nat /\ devices[d].last_observed_at \in Nat
    BY DEF DeviceObservation, TypeOK, DeviceState
  <2> QED
    BY <2>1, <2>2, <2>3 DEF is_fresh, kInvalidTimestamp
<1>3. CASE TakenDown(d)
  BY <1>1, <1>3, TakenDownFields
<1>4. CASE Administered(d)
  BY <1>1, <1>4, AdministeredFields
<1> QED
  BY <1>2, <1>3, <1>4, DeviceCases

(* The store offers a device only on a young, ordered observation, whatever*)
(* timestamps agents stamp and whatever operators do in between.           *)
THEOREM UsableOnlyFresh == Spec => BecomesUsableOnlyFresh
<1> DEFINE Becomes == \A d \in Devices :
             devices[d].elig \notin Usable /\ devices'[d].elig \in Usable =>
               \/ devices[d].fresh /\ devices'[d].obs_gen = devices[d].obs_gen
               \/ /\ devices'[d].last_observed_at # kInvalidTimestamp
                  /\ devices'[d].last_observed_at >= devices[d].last_observed_at
                  /\ now - devices'[d].last_observed_at <= freshness_threshold
<1>1. TypeOK /\ UsableIsBacked /\ [Next]_vars => [Becomes]_vars
  BY UsableStep
<1> HIDE DEF Becomes
<1>2. Spec => [][Becomes]_vars
  BY <1>1, TypeCorrect, EligibilityIsBacked, PTL DEF Spec
<1> QED
  BY <1>2 DEF BecomesUsableOnlyFresh, Becomes

-----------------------------------------------------------------------------
(* Publications are not mixed *)

(* An agent's batch keeps a device's generations together.                 *)
LEMMA LockstepStep ==
  ASSUME TypeOK, LockstepInv, [Next]_vars, AgentShaped
  PROVE  LockstepInv'
<1> SUFFICES ASSUME NEW d \in Devices, devices'[d].known
             PROVE  devices'[d].generation = devices'[d].obs_gen /\ devices'[d].health_gen = 1
  BY DEF LockstepInv
<1>1. CASE Observed(d)
  <2>1. PICK w \in Workers, obs \in Batches :
          IngestSnapshot(w, obs) /\ d \in AppliedDevices(w, obs)
    BY <1>1 DEF Observed
  <2>2. PICK i \in DOMAIN obs : ObservationOf(obs, d) = obs[i]
    <3>1. PICK i \in DOMAIN obs : obs[i].dev = d
      BY <2>1 DEF AppliedDevices, Applied, Processed
    <3> QED
      BY <3>1 DEF ObservationOf
  <2>3. devices'[d] = apply_observation(devices[d], obs[i], now)
    BY <2>1, <2>2 DEF IngestSnapshot
  <2>4. LET new == apply_observation(devices[d], obs[i], now) IN
          /\ new.generation = obs[i].device_gen
          /\ new.obs_gen = obs[i].obs_gen
          /\ new.health_gen = obs[i].health_gen
    BY DEF apply_observation
  <2>5. obs[i].device_gen = obs[i].obs_gen /\ obs[i].health_gen = 1
    BY DEF AgentShaped
  <2> QED
    BY <2>3, <2>4, <2>5
<1>2. CASE TakenDown(d) \/ Administered(d) \/ devices'[d] = devices[d]
  <2>1. /\ devices'[d].generation = devices[d].generation
        /\ devices'[d].obs_gen = devices[d].obs_gen
        /\ devices'[d].health_gen = devices[d].health_gen
        /\ devices'[d].known = devices[d].known
    BY <1>2, TakenDownFields, AdministeredFields
  <2> QED
    BY <2>1 DEF LockstepInv
<1> QED
  BY <1>1, <1>2, DeviceCases

(* A batch with one acceptable observation has no unacceptable one.        *)
LEMMA WholeBatch ==
  ASSUME TypeOK, LockstepInv, AgentShaped, NEW w \in Workers, NEW obs \in Batches,
         NEW d \in AppliedDevices(w, obs)
  PROVE  Complete(w, obs)
<1>1. PICK i \in DOMAIN obs : ~Rejected(w, obs[i])
  <2>1. PICK i \in Processed(w, obs) : TRUE
    BY DEF AppliedDevices, Applied
  <2>2. i \in DOMAIN obs /\ obs \in Seq(DeviceObservation)
    BY <2>1, BatchesAssumption DEF Processed, Batch
  <2> QED
    BY <2>1, <2>2 DEF Processed
<1>2. ASSUME NEW j \in DOMAIN obs PROVE ~Rejected(w, obs[j])
  <2>1. /\ obs[j].worker = obs[i].worker /\ obs[j].boot = obs[i].boot
        /\ obs[j].epoch = obs[i].epoch
        /\ obs[j].device_gen = obs[j].obs_gen /\ obs[j].health_gen = 1
    BY DEF AgentShaped
  <2>2. obs[j] \in DeviceObservation
    BY BatchesAssumption DEF Batch
  <2>3. /\ obs[j].dev \in Devices /\ obs[j].obs_gen \in Nat
        /\ devices[obs[j].dev].obs_gen \in Nat
    BY <2>2 DEF DeviceObservation, TypeOK, DeviceState
  <2>4. devices[obs[j].dev].known => /\ devices[obs[j].dev].generation = devices[obs[j].dev].obs_gen
                                     /\ devices[obs[j].dev].health_gen = 1
    BY <2>3 DEF LockstepInv
  <2> QED
    BY <1>1, <2>1, <2>3, <2>4 DEF Rejected, Skipped, SameIncarnation
<1>3. DOMAIN obs = 1..Len(obs) /\ Len(obs) \in Nat
  BY BatchesAssumption DEF Batch
<1>4. ASSUME NEW k \in DOMAIN obs PROVE k \in Processed(w, obs)
  <2>1. \A j \in 1..k : j \in DOMAIN obs
    BY <1>3
  <2> QED
    BY <1>2, <2>1 DEF Processed
<1>5. Processed(w, obs) \subseteq DOMAIN obs
  BY DEF Processed
<1> QED
  BY <1>4, <1>5 DEF Complete

(* When an observation is accepted, every other device of the incarnation  *)
(* that stays fresh was accepted from the same batch, or was overlooked.   *)
LEMMA SameBatch ==
  ASSUME TypeOK, OwnershipInv, LockstepInv, AgentShaped,
         NEW c \in Devices, NEW d \in Devices, Observed(c),
         devices'[d].fresh, devices'[d].boot = devices'[c].boot, ~Overlooked(d)
  PROVE  devices'[c].obs_gen = devices'[d].obs_gen
<1>1. PICK w \in Workers, obs \in Batches :
        IngestSnapshot(w, obs) /\ c \in AppliedDevices(w, obs)
  BY DEF Observed
<1>2. ASSUME NEW x \in AppliedDevices(w, obs)
      PROVE  \E i \in DOMAIN obs : devices'[x].obs_gen = obs[i].obs_gen
  <2>1. x \in Devices
    BY <1>1, IngestSource
  <2>2. PICK i \in DOMAIN obs : ObservationOf(obs, x) = obs[i]
    <3>1. PICK i \in DOMAIN obs : obs[i].dev = x
      BY DEF AppliedDevices, Applied, Processed
    <3> QED
      BY <3>1 DEF ObservationOf
  <2>3. devices'[x] = apply_observation(devices[x], obs[i], now)
    BY <1>1, <2>1, <2>2 DEF IngestSnapshot
  <2>4. apply_observation(devices[x], obs[i], now).obs_gen = obs[i].obs_gen
    BY DEF apply_observation
  <2> QED
    BY <2>3, <2>4
<1>3. CASE d \in AppliedDevices(w, obs)
  <2>1. PICK i \in DOMAIN obs : devices'[c].obs_gen = obs[i].obs_gen
    BY <1>1, <1>2
  <2>2. PICK j \in DOMAIN obs : devices'[d].obs_gen = obs[j].obs_gen
    BY <1>2, <1>3
  <2> QED
    BY <2>1, <2>2 DEF AgentShaped
<1>4. CASE d \notin AppliedDevices(w, obs)
  <2>1. Complete(w, obs)
    BY <1>1, WholeBatch
  <2>2. d \notin Disappeared(w, obs) /\ devices'[d] = devices[d]
    <3>1. ~Vanished(devices[d], "DEVICE_DISAPPEARANCE").fresh
      BY VanishedFields DEF TypeOK
    <3> QED
      BY <1>1, <1>4, <2>1, <3>1 DEF IngestSnapshot
  <2>3. workers[w].registered /\ workers[w].boot = devices[d].boot
    BY <1>1, <2>2, IngestSource DEF Authoritative
  <2>4. d \in workers[w].ids /\ devices[d].known
    BY <2>2, <2>3 DEF Overlooked, OwnershipInv
  <2> QED
    BY <1>4, <2>2, <2>4 DEF Disappeared
<1> QED
  BY <1>3, <1>4

(* No operation mixes two publications of an incarnation.                  *)
LEMMA UnmixedStep ==
  ASSUME TypeOK, OwnershipInv, LockstepInv, [Next]_vars, AgentShaped,
         NEW c \in Devices, NEW d \in Devices, Mixed(c, d)'
  PROVE  Mixed(c, d) \/ Overlooked(c) \/ Overlooked(d)
<1>0. /\ devices'[c].fresh /\ devices'[d].fresh /\ devices'[c].boot = devices'[d].boot
      /\ devices'[c].obs_gen # devices'[d].obs_gen
  BY DEF Mixed
<1>1. CASE Observed(c)
  BY <1>0, <1>1, SameBatch
<1>2. CASE Observed(d)
  BY <1>0, <1>2, SameBatch
<1>3. CASE ~Observed(c) /\ ~Observed(d)
  <2>1. ASSUME NEW x \in Devices, ~Observed(x), devices'[x].fresh
        PROVE  /\ devices[x].fresh /\ devices'[x].boot = devices[x].boot
               /\ devices'[x].obs_gen = devices[x].obs_gen
    BY <2>1, DeviceCases, TakenDownFields, AdministeredFields
  <2> QED
    BY <1>0, <1>3, <2>1 DEF Mixed
<1> QED
  BY <1>1, <1>2, <1>3

(* With batches shaped as agents publish them no step shows a reader two   *)
(* publications of one incarnation mixed: partial batches, replays,        *)
(* reorderings, takeovers and epoch rolls included, and whatever the       *)
(* registrations list, but for a device its incarnation has overlooked.    *)
THEOREM PublicationsAreAtomic ==
  ASSUME AgentShaped
  PROVE  Spec => PublicationIsAtomic
<1> DEFINE Unmixed == \A c, d \in Devices :
             Mixed(c, d)' => Mixed(c, d) \/ Overlooked(c) \/ Overlooked(d)
<1>1. Init => LockstepInv
  BY DEF Init, LockstepInv, NewDevice
<1>2. TypeOK /\ LockstepInv /\ [Next]_vars => LockstepInv'
  BY LockstepStep
<1>3. TypeOK /\ OwnershipInv /\ LockstepInv /\ [Next]_vars => [Unmixed]_vars
  BY UnmixedStep
<1> HIDE DEF Unmixed
<1>4. Spec => [][Unmixed]_vars
  BY <1>1, <1>2, <1>3, TypeCorrect, OwnershipHolds, PTL DEF Spec
<1> QED
  BY <1>4 DEF PublicationIsAtomic, Unmixed
=============================================================================
