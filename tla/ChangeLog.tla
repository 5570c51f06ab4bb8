------------------------------ MODULE ChangeLog ------------------------------
(***************************************************************************)
(* The fleet store with its change log (change_log_, observation/          *)
(* change.hpp), which operators read with the "changes" command.  Every    *)
(* operation is the one of FleetState together with the records it         *)
(* appends; the log keeps the newest kMaxChangeLog of them.                *)
(*                                                                         *)
(* A record is its kind, the DeviceId it is filed under and the value it   *)
(* says the device went to.  The id is the CUDA ordinal of the observing   *)
(* incarnation plus one, so every host has a device 1.  dev is history: it *)
(* is the device the record was made for, which the code does not write    *)
(* down and no operation reads.                                            *)
(***************************************************************************)
EXTENDS FleetState, SequencesExt

CONSTANTS
  kMaxChangeLog,
  DeviceIdOf,      \* the id each incarnation gives to each device it reports
  OtherChanges     \* what an observation may change that the store does not interpret

UninterpretedKinds == {"IDENTITY_CHANGED", "DRIVER_RUNTIME_CHANGED", "MEMORY_CAPACITY_CHANGED",
                       "CAPABILITY_CHANGED"}

(* The incarnations whose host has the device.                             *)
Reporters(d) == UNION {BootsOf[w] : w \in {v \in Workers : d \in DevicesOf[v]}}

ASSUME ChangeLogAssumption ==
  /\ kMaxChangeLog \in Nat \ {0}
  /\ \A d \in Devices : \A b \in Reporters(d) : DeviceIdOf[b][d] \in Nat \ {0}
  /\ OtherChanges \subseteq SUBSET UninterpretedKinds

VARIABLE change_log

logVars == <<vars, change_log>>

ChangeRecord(kind, id, d, to) == <<[kind |-> kind, device_id |-> id, dev |-> d, to |-> to]>>

(* The DeviceId in d's state: the one its last observation gave it.        *)
device_id(d) == DeviceIdOf[devices[d].boot][d]

When(condition, records) == IF condition THEN records ELSE <<>>

\* diff_device_state, axis by axis: the kind of change, whether there is one,
\* and what the record says.  Identity, driver, memory and capabilities may
\* change with any observation, and a new device's identity always does.
Axis(kind, changed, to) == [kind |-> kind, changed |-> changed, to |-> to]

Axes(prior, cand, other) ==
  <<Axis("DEVICE_APPEARED", ~prior.present /\ cand.present, "present"),
    Axis("DEVICE_DISAPPEARED", prior.present /\ ~cand.present, "absent"),
    Axis("IDENTITY_CHANGED", ~prior.known \/ "IDENTITY_CHANGED" \in other, "new"),
    Axis("DRIVER_RUNTIME_CHANGED", "DRIVER_RUNTIME_CHANGED" \in other, "new"),
    Axis("MEMORY_CAPACITY_CHANGED", "MEMORY_CAPACITY_CHANGED" \in other, "new"),
    Axis("HEALTH_CHANGED", prior.health # cand.health, cand.health),
    Axis("CAPABILITY_CHANGED", "CAPABILITY_CHANGED" \in other, "new"),
    Axis("ELIGIBILITY_CHANGED", prior.elig # cand.elig, cand.elig),
    Axis("WORKER_RESTARTED", prior.boot # cand.boot, cand.boot),
    Axis("OBSERVATION_STALE", prior.fresh /\ ~cand.fresh, "stale"),
    Axis("DRAIN_INITIATED", prior.drain = "ACTIVE" /\ cand.drain # "ACTIVE", cand.drain),
    Axis("DRAIN_COMPLETED", prior.drain = "DRAINING" /\ cand.drain = "DRAINED", cand.drain),
    Axis("QUARANTINE_APPLIED", ~prior.quarantined /\ cand.quarantined, "true"),
    Axis("QUARANTINE_CLEARED", prior.quarantined /\ ~cand.quarantined, "false")>>

diff_device_state(d, prior, cand, other) ==
  LET axes == Axes(prior, cand, other)
      id == DeviceIdOf[cand.boot][d]
  IN  FlattenSeq([i \in 1..Len(axes) |->
                    When(axes[i].changed, ChangeRecord(axes[i].kind, id, d, axes[i].to))])

\* push_back record by record, the oldest dropped when there are too many.
Pushed(log, records) ==
  LET all == log \o records
      over == Max({0, Len(all) - kMaxChangeLog})
  IN  SubSeq(all, over + 1, Len(all))

Log(records) == change_log' = Pushed(change_log, records)

-----------------------------------------------------------------------------
\* ingest_snapshot: the diffs of the applied observations in the order of the
\* batch, then the devices taken for disappeared, each time they are missing.
IngestRecords(w, obs, other) ==
  LET diff(i) ==
        diff_device_state(obs[i].dev, devices[obs[i].dev],
                          apply_observation(devices[obs[i].dev], obs[i], now), other[i])
      missing == IF Complete(w, obs) THEN SetToSeq(Disappeared(w, obs)) ELSE <<>>
  IN  FlattenSeq([i \in DOMAIN obs |-> When(i \in Applied(w, obs), diff(i))])
        \o [i \in DOMAIN missing |->
              [kind |-> "DEVICE_DISAPPEARED", device_id |-> device_id(missing[i]),
               dev |-> missing[i], to |-> "absent"]]

LogIngest(w, obs, other) ==
  /\ IngestSnapshot(w, obs)
  /\ Log(IngestRecords(w, obs, other))

\* The record says where the device came from.
Mut_LogSetDrain(d, level) ==
  /\ SetDrain(d, level)
  /\ Log(ChangeRecord(IF level = "ACTIVE" THEN "DRAIN_COMPLETED" ELSE "DRAIN_INITIATED",
                      device_id(d), d, devices[d].drain))

\* set_drain: an undrain is logged as DRAIN_COMPLETED.
LogSetDrain(d, level) ==
  /\ SetDrain(d, level)
  /\ Log(ChangeRecord(IF level = "ACTIVE" THEN "DRAIN_COMPLETED" ELSE "DRAIN_INITIATED",
                      device_id(d), d, level))

\* set_quarantine: a device already quarantined is not logged again.
LogSetQuarantine(d, gen) ==
  /\ SetQuarantine(d, gen)
  /\ Log(When(~devices[d].quarantined,
              ChangeRecord("QUARANTINE_APPLIED", device_id(d), d, "true")))

LogClearQuarantine(d, e) ==
  /\ ClearQuarantine(d, e)
  /\ Log(ChangeRecord("QUARANTINE_CLEARED", device_id(d), d, "false"))

\* Rolls, registrations, losses and heartbeats leave no record.
Unlogged ==
  /\ \/ \E ne \in 1..MaxEpoch : RollEpoch(ne)
     \/ \E reg \in Registrations : RegisterWorker(reg)
     \/ \E w \in Workers : MarkWorkerLost(w)
     \/ \E w \in Workers : \E b \in BootsOf[w], e \in 1..MaxEpoch : Heartbeat(w, b, e)
     \/ Tick
  /\ UNCHANGED change_log

LogInit == Init /\ change_log = <<>>

LogNext ==
  \/ \E w \in Workers, obs \in Batches : \E other \in [DOMAIN obs -> OtherChanges] :
       LogIngest(w, obs, other)
  \/ \E d \in Devices, level \in DrainLevels : LogSetDrain(d, level)
  \/ \E d \in Devices, g \in QuarantineGens : LogSetQuarantine(d, g)
  \/ \E d \in Devices, e \in 1..MaxEpoch : LogClearQuarantine(d, e)
  \/ Unlogged

LogSpec == LogInit /\ [][LogNext]_logVars

-----------------------------------------------------------------------------
(* Properties *)

DrainKinds == {"DRAIN_INITIATED", "DRAIN_COMPLETED"}
QuarantineKinds == {"QUARANTINE_APPLIED", "QUARANTINE_CLEARED"}
PresenceKinds == {"DEVICE_APPEARED", "DEVICE_DISAPPEARED"}
HealthKinds == {"HEALTH_CHANGED"}

\* No later record of these kinds is filed under the id of record i.
Newest(i, kinds) ==
  /\ change_log[i].kind \in kinds
  /\ \A j \in (i + 1)..Len(change_log) :
       ~(change_log[j].device_id = change_log[i].device_id /\ change_log[j].kind \in kinds)

\* Whoever reports a device under the id n does so always.
StableId(n) ==
  \A d \in Devices : \A b, c \in Reporters(d) : DeviceIdOf[b][d] = n => DeviceIdOf[c][d] = n

Flag(b) == IF b THEN "true" ELSE "false"

\* The newest records of an id are true.  An operator who looks up a DeviceId
\* may get another host's device, but what the newest record of the id says is
\* how the device it was made for is now, however many records the limit has
\* cost: its drain level and quarantine always, its presence and health while
\* it is present (the loss of a worker, which takes devices away without a
\* record, is the one silent change).  An id that moves from one device to
\* another between two incarnations promises nothing.
LogAgrees ==
  \A i \in DOMAIN change_log :
    LET r == change_log[i]
        d == devices[r.dev]
    IN  StableId(r.device_id) =>
          /\ Newest(i, DrainKinds) => r.to = d.drain
          /\ Newest(i, QuarantineKinds) => r.to = Flag(d.quarantined)
          /\ Newest(i, PresenceKinds) /\ d.present => r.to = "present"
          /\ Newest(i, HealthKinds) /\ d.present => r.to = d.health
=============================================================================
