------------------------------ MODULE FleetState ------------------------------
(***************************************************************************)
(* FleetStateStore (fleet/fleet_state.hpp): the coordinator's canonical    *)
(* state of workers and devices.  One mutex guards all of it, so every     *)
(* public operation is one atomic action.  A call that returns an error    *)
(* and changes nothing is a stuttering step; an error that leaves part of  *)
(* its work behind (ingest_snapshot half-way through a batch) is modelled. *)
(*                                                                         *)
(* The callers' inputs are what worker agents and operators can send:      *)
(* registrations, heartbeats and observation batches of any incarnation a  *)
(* worker ever had, of any epoch and generation, in any order.  That       *)
(* covers delayed, reordered and repeated messages and two live processes  *)
(* that share a worker id.                                                 *)
(*                                                                         *)
(* Left out: the change log (module ChangeLog adds it), the accounting and *)
(* the counter of accepted observations, which no decision reads; node     *)
(* records, written once and never read.                                   *)
(***************************************************************************)
EXTENDS Pipeline, FiniteSets, Sequences

CONSTANTS
  Workers,             \* worker ids
  BootsOf,             \* the incarnations (WorkerBootId) each worker id ever has
  Devices,             \* canonical device identities
  DevicesOf,           \* the devices attached to each worker's host
  PartialEnumeration,  \* may a registration list fewer devices than the host has?
  Batches,             \* the observation batches that may arrive
  DrainLevels,         \* drain levels operators ask for
  QuarantineGens,      \* device generations an operator may quote
  MaxEpoch,            \* bound on coordinator epochs
  MaxRegGen,           \* bound on registration generations
  MaxTime              \* bound on the clock

Boots == UNION {BootsOf[w] : w \in Workers}

DeviceObservation ==
  [dev : Devices, worker : Workers, boot : Boots, epoch : Nat, obs_gen : Nat,
   device_gen : Nat, health_gen : Nat, observed_at : Nat, probe : DeviceProbe]

(* An agent reports a device at most once per batch, and only devices of   *)
(* its own host.                                                           *)
Batch ==
  {obs \in Seq(DeviceObservation) :
     /\ \A i, j \in DOMAIN obs : obs[i].dev = obs[j].dev => i = j
     /\ \A i \in DOMAIN obs : /\ obs[i].dev \in DevicesOf[obs[i].worker]
                              /\ obs[i].boot \in BootsOf[obs[i].worker]}

(* WorkerAgent::publish_snapshot gives every observation of a batch the    *)
(* same header, and advances the device generation together with the       *)
(* observation generation; the health generation stays 1.  The store does  *)
(* not rely on it except where a property says so.                         *)
AgentShaped ==
  \A obs \in Batches : \A i, j \in DOMAIN obs :
    /\ obs[i].worker = obs[j].worker
    /\ obs[i].boot = obs[j].boot
    /\ obs[i].epoch = obs[j].epoch
    /\ obs[i].obs_gen = obs[j].obs_gen
    /\ obs[i].device_gen = obs[i].obs_gen
    /\ obs[i].health_gen = 1

ASSUME ConstantsAssumption ==
  /\ BootsOf \in [Workers -> SUBSET (Nat \ {0})]
  /\ DevicesOf \in [Workers -> SUBSET Devices]
  /\ PartialEnumeration \in BOOLEAN
  /\ DrainLevels \subseteq DrainState
  /\ QuarantineGens \subseteq Nat
  /\ MaxEpoch \in Nat \ {0}
  /\ MaxRegGen \in Nat
  /\ MaxTime \in Nat \ {0}

(* A boot id is "unique per launch" (agent.cpp): no two workers share one. *)
ASSUME BootIdsUnique ==
  \A v, w \in Workers : v # w => BootsOf[v] \cap BootsOf[w] = {}

ASSUME BatchesAssumption == \A obs \in Batches : obs \in Batch

VARIABLES
  epoch,      \* CoordinatorEpoch epoch_
  fleet_gen,  \* FleetGeneration fleet_gen_
  workers,    \* workers_: a record per worker id, registered or not
  devices,    \* devices_: a DeviceState per identity, known or not
  now         \* the coordinator's clock

vars == <<epoch, fleet_gen, workers, devices, now>>

WorkerRecord ==
  [registered : BOOLEAN, boot : Boots \cup {0}, reg_gen : Nat, ids : SUBSET Devices,
   last_heartbeat : Nat, alive : BOOLEAN, fenced : BOOLEAN, lost : BOOLEAN]

NoWorker == [registered |-> FALSE, boot |-> 0, reg_gen |-> 0, ids |-> {},
             last_heartbeat |-> kInvalidTimestamp,
             alive |-> TRUE, fenced |-> FALSE, lost |-> FALSE]

DeviceState ==
  [known : BOOLEAN, present : BOOLEAN, health : HealthState, elig : EligibilityState,
   reason : EligibilityReason, drain : DrainState, quarantined : BOOLEAN,
   core_validation_ok : BOOLEAN, fresh : BOOLEAN, generation : Nat, obs_gen : Nat,
   health_gen : Nat, boot : Boots \cup {0}, last_observed_at : Nat]

TypeOK ==
  /\ epoch \in 1..MaxEpoch
  /\ fleet_gen \in Nat
  /\ workers \in [Workers -> WorkerRecord]
  /\ devices \in [Devices -> DeviceState]
  /\ now \in 1..MaxTime

Init ==
  /\ epoch = 1
  /\ fleet_gen = 1
  /\ workers = [w \in Workers |-> NoWorker]
  /\ devices = [d \in Devices |-> NewDevice]
  /\ now = 1

-----------------------------------------------------------------------------
(* The epoch lands one past the requested one. *)
Mut_RollEpoch_overshoots(ne) ==
  /\ ne > epoch
  /\ epoch' = ne + 1
  /\ fleet_gen' = fleet_gen + 1
  /\ UNCHANGED <<workers, devices, now>>

(* roll_epoch: only strictly forward.  Workers and devices are untouched.  *)
RollEpoch(ne) ==
  /\ ne > epoch
  /\ epoch' = ne
  /\ fleet_gen' = fleet_gen + 1
  /\ UNCHANGED <<workers, devices, now>>

-----------------------------------------------------------------------------
(* What a registration may list as enumerated devices: everything attached *)
(* or, if the backend fails or has already lost devices, only part of it.  *)
Enumerations(w) ==
  IF PartialEnumeration THEN SUBSET DevicesOf[w] ELSE {DevicesOf[w]}

Registrations ==
  UNION {[worker : {w}, boot : BootsOf[w], reg_gen : 1..MaxRegGen, epoch : 1..MaxEpoch,
          protocol : {0, 1}, enumerated : Enumerations(w)] : w \in Workers}

(* The prior incarnation stands in the way unless it is fenced or lost.    *)
Active(wr) == ~wr.fenced /\ ~wr.lost /\ wr.alive

AdmissibleRegistration(reg) == reg.epoch = epoch /\ reg.protocol # 0

(* register_worker, same incarnation: a strictly newer registration        *)
(* generation re-affirms it.  fenced is not cleared.                       *)
CanReaffirm(reg) ==
  /\ AdmissibleRegistration(reg)
  /\ workers[reg.worker].registered
  /\ workers[reg.worker].boot = reg.boot
  /\ reg.reg_gen > workers[reg.worker].reg_gen

ReaffirmWorker(reg) ==
  /\ CanReaffirm(reg)
  /\ workers' = [workers EXCEPT ![reg.worker] =
                   [@ EXCEPT !.reg_gen = reg.reg_gen, !.last_heartbeat = now,
                             !.alive = TRUE, !.lost = FALSE, !.ids = reg.enumerated]]
  /\ UNCHANGED <<epoch, fleet_gen, devices, now>>

(* register_worker, a worker id not seen before or a different boot: a new *)
(* record, which replaces (and thereby forgets) a superseded incarnation.  *)
CanAdmit(reg) ==
  LET wr == workers[reg.worker] IN
  /\ AdmissibleRegistration(reg)
  /\ wr.registered => wr.boot # reg.boot /\ ~Active(wr)

AdmitWorker(reg) ==
  /\ CanAdmit(reg)
  /\ workers' = [workers EXCEPT ![reg.worker] =
                   [registered |-> TRUE, boot |-> reg.boot, reg_gen |-> reg.reg_gen,
                    ids |-> reg.enumerated, last_heartbeat |-> now,
                    alive |-> TRUE, fenced |-> FALSE, lost |-> FALSE]]
  /\ UNCHANGED <<epoch, fleet_gen, devices, now>>

RegisterWorker(reg) == ReaffirmWorker(reg) \/ AdmitWorker(reg)

-----------------------------------------------------------------------------
(* The device is marked gone and its eligibility forgotten. *)
Mut_Vanished_keeps_eligibility(d, why) ==
  [d EXCEPT !.present = FALSE, !.fresh = FALSE, !.health = "LOST"]

(* The device is gone: no observation of it counts any more.               *)
Vanished(d, why) ==
  [d EXCEPT !.present = FALSE, !.fresh = FALSE, !.health = "LOST",
            !.elig = "INELIGIBLE", !.reason = why]

(* The worker is fenced, its devices' observations stay. *)
Mut_MarkWorkerLost_keeps_devices(w) ==
  /\ workers[w].registered
  /\ workers' = [workers EXCEPT ![w] = [@ EXCEPT !.lost = TRUE, !.alive = FALSE,
                                                 !.fenced = TRUE]]
  /\ UNCHANGED <<epoch, fleet_gen, devices, now>>

(* The loss of one worker takes every known device down. *)
Mut_MarkWorkerLost_all_devices(w) ==
  /\ workers[w].registered
  /\ workers' = [workers EXCEPT ![w] = [@ EXCEPT !.lost = TRUE, !.alive = FALSE,
                                                 !.fenced = TRUE]]
  /\ devices' = [d \in Devices |-> IF devices[d].known
                                     THEN Vanished(devices[d], "WORKER_RESTART")
                                     ELSE devices[d]]
  /\ UNCHANGED <<epoch, fleet_gen, now>>

(* mark_worker_lost fences the worker and takes its devices down with it.  *)
MarkWorkerLost(w) ==
  /\ workers[w].registered
  /\ workers' = [workers EXCEPT ![w] = [@ EXCEPT !.lost = TRUE, !.alive = FALSE,
                                                 !.fenced = TRUE]]
  /\ devices' = [d \in Devices |->
                   IF d \in workers[w].ids /\ devices[d].known
                     THEN IF devices[d].present
                            THEN Vanished(devices[d], "WORKER_RESTART")
                            ELSE [devices[d] EXCEPT !.fresh = FALSE]
                     ELSE devices[d]]
  /\ UNCHANGED <<epoch, fleet_gen, now>>

(* A heartbeat lifts the fence too. *)
Mut_Heartbeat_unfences(w, boot, e) ==
  /\ e = epoch
  /\ workers[w].registered
  /\ workers[w].boot = boot
  /\ workers' = [workers EXCEPT ![w] = [@ EXCEPT !.last_heartbeat = now, !.alive = TRUE,
                                                 !.lost = FALSE, !.fenced = FALSE]]
  /\ UNCHANGED <<epoch, fleet_gen, devices, now>>

(* heartbeat: current epoch and boot.  It revives alive and lost, not      *)
(* fenced.                                                                 *)
CanHeartbeat(w, boot, e) ==
  /\ e = epoch
  /\ workers[w].registered
  /\ workers[w].boot = boot

Heartbeat(w, boot, e) ==
  /\ CanHeartbeat(w, boot, e)
  /\ workers' = [workers EXCEPT ![w] = [@ EXCEPT !.last_heartbeat = now, !.alive = TRUE,
                                                 !.lost = FALSE]]
  /\ UNCHANGED <<epoch, fleet_gen, devices, now>>

-----------------------------------------------------------------------------
(* ingest_snapshot walks the batch in order.  The verdict on one           *)
(* observation depends on its worker and on its own device only, and a     *)
(* batch names a device once, so the walk is: the longest prefix without a *)
(* rejected observation is processed, what it does not skip is applied.    *)
SameIncarnation(o) == devices[o.dev].known /\ o.boot = devices[o.dev].boot

(* Only overtaken observations are passed over, a repeated one is applied. *)
Mut_Skipped_off_by_one(o) == SameIncarnation(o) /\ o.obs_gen < devices[o.dev].obs_gen

(* A repeated or overtaken observation: passed over without an error.      *)
Skipped(o) == SameIncarnation(o) /\ o.obs_gen <= devices[o.dev].obs_gen

(* The errors that stop the walk where it stands.                          *)
Rejected(w, o) ==
  \/ o.epoch # epoch
  \/ o.boot # workers[w].boot
  \/ o.worker # w
  \/ /\ SameIncarnation(o)
     /\ ~Skipped(o)
     /\ \/ o.device_gen < devices[o.dev].generation
        \/ o.health_gen < devices[o.dev].health_gen

Processed(w, obs) == {i \in DOMAIN obs : \A j \in 1..i : ~Rejected(w, obs[j])}

Complete(w, obs) == Processed(w, obs) = DOMAIN obs

Applied(w, obs) == {i \in Processed(w, obs) : ~Skipped(obs[i])}

AppliedDevices(w, obs) == {obs[i].dev : i \in Applied(w, obs)}

(* Devices a batch no longer mentions are left as they were. *)
Mut_Disappeared_unnoticed(w, obs) == {}

(* The devices the code's seen_keys check takes for disappeared: owned,    *)
(* known and not applied.  A skipped observation does not count as seen.   *)
Disappeared(w, obs) ==
  {d \in workers[w].ids : devices[d].known /\ d \notin AppliedDevices(w, obs)}

ObservationOf(obs, d) == obs[CHOOSE i \in DOMAIN obs : obs[i].dev = d]

CanIngest(w) == workers[w].registered /\ ~workers[w].lost /\ ~workers[w].fenced

IngestSnapshot(w, obs) ==
  /\ CanIngest(w)
  /\ devices' = [d \in Devices |->
                   IF d \in AppliedDevices(w, obs)
                     THEN apply_observation(devices[d], ObservationOf(obs, d), now)
                   ELSE IF Complete(w, obs) /\ d \in Disappeared(w, obs)
                     THEN Vanished(devices[d], "DEVICE_DISAPPEARANCE")
                   ELSE devices[d]]
  /\ LET found == {d \in AppliedDevices(w, obs) : ~devices[d].known}
         wr == [workers[w] EXCEPT !.ids = @ \cup found]
     IN  workers' = [workers EXCEPT ![w] =
                       IF Complete(w, obs)
                         THEN [wr EXCEPT !.last_heartbeat = now, !.alive = TRUE]
                         ELSE wr]
  /\ UNCHANGED <<epoch, fleet_gen, now>>

-----------------------------------------------------------------------------
(* set_drain: setting the level a device already has changes nothing.      *)
SetDrain(d, level) ==
  /\ devices[d].known
  /\ devices[d].drain # level
  /\ devices' = [devices EXCEPT ![d] = recompute_device_eligibility([@ EXCEPT !.drain = level])]
  /\ UNCHANGED <<epoch, fleet_gen, workers, now>>

(* set_quarantine refuses a quarantine quoting an older device generation. *)
SetQuarantine(d, gen) ==
  /\ devices[d].known
  /\ gen >= devices[d].generation
  /\ devices' = [devices EXCEPT ![d] =
                   recompute_device_eligibility([@ EXCEPT !.quarantined = TRUE])]
  /\ UNCHANGED <<epoch, fleet_gen, workers, now>>

ClearQuarantine(d, e) ==
  /\ e = epoch
  /\ devices[d].known
  /\ devices[d].quarantined
  /\ devices' = [devices EXCEPT ![d] =
                   recompute_device_eligibility([@ EXCEPT !.quarantined = FALSE])]
  /\ UNCHANGED <<epoch, fleet_gen, workers, now>>

(* snapshot: a consistent copy of the whole state, taken under the lock.   *)
snapshot == [epoch |-> epoch, fleet_gen |-> fleet_gen, workers |-> workers,
             devices |-> devices]

(* Devices come back exactly as they were saved. *)
Mut_Recovered_as_saved(d) == d

(* Only the freshness flag is reset, the saved eligibility stands. *)
Mut_Recovered_keeps_eligibility(d) == [d EXCEPT !.fresh = FALSE]

(* Nothing recovered from disk is fresh.  A fence keeps its reason, an     *)
(* unfenced device becomes STALE.                                          *)
Recovered(d) ==
  IF ~d.known THEN d
  ELSE IF d.quarantined THEN [d EXCEPT !.fresh = FALSE, !.elig = "QUARANTINED"]
  ELSE IF d.drain # "ACTIVE" THEN [d EXCEPT !.fresh = FALSE, !.elig = "DRAINING"]
  ELSE [d EXCEPT !.fresh = FALSE, !.elig = "STALE", !.reason = "STALE_OBSERVATION"]

(* restore: the snapshot's workers come back as they were, with the        *)
(* authority they had.                                                     *)
Restore(s) ==
  /\ epoch' = s.epoch
  /\ fleet_gen' = s.fleet_gen
  /\ workers' = s.workers
  /\ devices' = [d \in Devices |-> Recovered(s.devices[d])]
  /\ UNCHANGED now

(* Time passes.                                                            *)
Tick ==
  /\ now < MaxTime
  /\ now' = now + 1
  /\ UNCHANGED <<epoch, fleet_gen, workers, devices>>

-----------------------------------------------------------------------------
Next ==
  \/ \E ne \in 1..MaxEpoch : RollEpoch(ne)
  \/ \E reg \in Registrations : ReaffirmWorker(reg)
  \/ \E reg \in Registrations : AdmitWorker(reg)
  \/ \E w \in Workers : MarkWorkerLost(w)
  \/ \E w \in Workers : \E b \in BootsOf[w], e \in 1..MaxEpoch : Heartbeat(w, b, e)
  \/ \E w \in Workers, obs \in Batches : IngestSnapshot(w, obs)
  \/ \E d \in Devices, level \in DrainLevels : SetDrain(d, level)
  \/ \E d \in Devices, g \in QuarantineGens : SetQuarantine(d, g)
  \/ \E d \in Devices, e \in 1..MaxEpoch : ClearQuarantine(d, e)
  \/ Tick

Spec == Init /\ [][Next]_vars

-----------------------------------------------------------------------------
(* Properties *)

(* The evidence that goes with a usable device.                            *)
Backed(d) ==
  d.elig \in Usable =>
    /\ d.known /\ d.present /\ d.fresh
    /\ d.health \in {"HEALTHY", "DEGRADED"}
    /\ d.drain = "ACTIVE" /\ ~d.quarantined

(* A device is offered for placement only on evidence the coordinator      *)
(* still holds: it is known, present, freshly observed, healthy, and no    *)
(* operator has drained or quarantined it.  Every operation rewrites some  *)
(* of these fields and must rewrite eligibility consistently with them.    *)
UsableIsBacked == \A d \in Devices : Backed(devices[d])

(* w's current incarnation may publish.                                    *)
Authoritative(w) ==
  workers[w].registered /\ ~workers[w].fenced /\ ~workers[w].lost

(* The incarnation that made d's observation is registered, unfenced and   *)
(* answerable for d: what ends its authority takes d down.                 *)
HasSource(d) ==
  \E w \in Workers : /\ Authoritative(w)
                     /\ workers[w].boot = devices[d].boot
                     /\ d \in workers[w].ids

(* That incarnation is on record with a list of devices that d is not on:  *)
(* it registered again while its backend enumerated fewer devices.         *)
Overlooked(d) ==
  \E w \in Workers : /\ workers[w].registered
                     /\ workers[w].boot = devices[d].boot
                     /\ d \notin workers[w].ids

(* A fresh device keeps a live source: no step takes the authority of the  *)
(* incarnation that reported it away and leaves it fresh, and none makes a *)
(* device fresh without such an incarnation ("any message from a prior     *)
(* process incarnation is fenced", README).  The one way out is a          *)
(* registration whose list leaves the device out: from then on nothing     *)
(* that happens to the incarnation reaches the device.                     *)
FreshKeepsSource ==
  [][\A d \in Devices :
       devices'[d].fresh /\ (devices[d].fresh => HasSource(d))
         => HasSource(d)' \/ Overlooked(d)']_vars

(* What FreshKeepsSource and FenceHolds rest on: a record names one of its *)
(* worker's own incarnations, only a registered worker can be fenced, and  *)
(* a registered worker no longer alive is; a device's source boot belongs  *)
(* to a worker that has the device, and only a known device is fresh.      *)
OwnershipInv ==
  /\ \A w \in Workers :
       /\ workers[w].registered => workers[w].boot \in BootsOf[w]
       /\ workers[w].registered => workers[w].alive \/ workers[w].fenced
       /\ workers[w].fenced => workers[w].registered
  /\ \A d \in Devices, w \in Workers :
       devices[d].boot \in BootsOf[w] => d \in DevicesOf[w]
  /\ \A d \in Devices : devices[d].fresh => devices[d].known

(* Two fresh devices of one incarnation show different publications.       *)
Mixed(c, d) ==
  /\ devices[c].fresh /\ devices[d].fresh
  /\ devices[c].boot = devices[d].boot
  /\ devices[c].obs_gen # devices[d].obs_gen

(* "Publication is atomic from the perspective of readers" (README): no    *)
(* step leaves a reader with fresh devices of one incarnation from two of  *)
(* its batches, whatever is replayed, delayed or left out of a batch,      *)
(* unless the incarnation's list had lost one of the devices before.       *)
PublicationIsAtomic ==
  [][\A c, d \in Devices :
       Mixed(c, d)' => Mixed(c, d) \/ Overlooked(c) \/ Overlooked(d)]_vars

(* What PublicationIsAtomic rests on when agents publish as AgentShaped    *)
(* says: a device's generations move together, so that no batch of the     *)
(* current incarnation is stopped half-way.                                *)
LockstepInv ==
  \A d \in Devices : devices[d].known =>
    devices[d].generation = devices[d].obs_gen /\ devices[d].health_gen = 1

(* A fence holds as long as the fenced incarnation is the one on record:   *)
(* neither a heartbeat nor a re-registration nor anything else it sends    *)
(* lifts the fence, and no step makes one of its devices fresh.  It holds  *)
(* no longer than that: admitting another incarnation replaces the record  *)
(* and with it the memory of the fence, so that an older process that      *)
(* registers again after its successor was fenced is admitted unfenced     *)
(* (register_worker knows the newest incarnation only), although "An old   *)
(* connection can never regain authority after a newer process incarnation *)
(* is active" (README).                                                    *)
FenceHolds ==
  [][\A w \in Workers :
       workers[w].fenced /\ workers'[w].boot = workers[w].boot =>
         /\ workers'[w].fenced
         /\ \A d \in Devices : devices'[d].fresh /\ devices'[d].boot = workers[w].boot
                                => devices[d].fresh]_vars

(* Within one incarnation a device's observation and device generations    *)
(* only grow, and an accepted observation is never rewritten by another of *)
(* the same generation, whatever order batches arrive in.                  *)
GenerationsAdvance ==
  [][\A d \in Devices :
       devices[d].known /\ devices'[d].boot = devices[d].boot =>
         /\ devices'[d].obs_gen >= devices[d].obs_gen
         /\ devices'[d].generation >= devices[d].generation
         /\ devices'[d].obs_gen = devices[d].obs_gen =>
              /\ devices'[d].last_observed_at = devices[d].last_observed_at
              /\ devices'[d].core_validation_ok = devices[d].core_validation_ok]_vars

(* "Administrative axes are preserved across observations (only admin      *)
(* changes them)" (pipeline.hpp): no worker traffic lifts or moves a drain *)
(* or a quarantine, and lifting a quarantine changes no other device.      *)
AdminFencesHold ==
  [][\A d \in Devices :
       /\ devices'[d].quarantined # devices[d].quarantined \/ devices'[d].drain # devices[d].drain
            => UNCHANGED workers /\ devices' = [devices EXCEPT ![d] = devices'[d]]
       /\ devices[d].quarantined /\ ~devices'[d].quarantined
            => \E e \in 1..MaxEpoch : ClearQuarantine(d, e)]_vars

(* A device enters placement only on an observation that was young and in  *)
(* order when accepted: either this step accepts it, or an earlier one did *)
(* and an operator's step now lifts the last fence over it.  Timestamps    *)
(* are the agents' own: late, early, out of order or missing.              *)
BecomesUsableOnlyFresh ==
  [][\A d \in Devices :
       devices[d].elig \notin Usable /\ devices'[d].elig \in Usable =>
         \/ devices[d].fresh /\ devices'[d].obs_gen = devices[d].obs_gen
         \/ /\ devices'[d].last_observed_at # kInvalidTimestamp
            /\ devices'[d].last_observed_at >= devices[d].last_observed_at
            /\ now - devices'[d].last_observed_at <= freshness_threshold]_vars

(* A worker's loss, messages and re-registrations touch the devices of its *)
(* own host only ("verifies the other worker is unaffected", README).      *)
OtherHostsUntouched ==
  [][\A w \in Workers, d \in Devices :
       workers'[w] # workers[w] /\ devices'[d] # devices[d] => d \in DevicesOf[w]]_vars
=============================================================================
