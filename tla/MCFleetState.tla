----------------------------- MODULE MCFleetState -----------------------------
(***************************************************************************)
(* Small instances of the fleet store.  Batches have the shape             *)
(* WorkerAgent::publish_snapshot gives them: one header for all devices,   *)
(* device generation in step with observation generation, health           *)
(* generation always 1, never empty.                                       *)
(***************************************************************************)
EXTENDS FleetState, SequencesExt

CONSTANTS MaxObsGen,       \* bound on an incarnation's observation generation
          ObservedTimes,   \* timestamps agents may stamp
          FailingDevices,  \* the devices whose kernel may fail
          d1, d2, w1, w2

Probe(ok) ==
  [present |-> TRUE, driver_runtime_ok |-> TRUE, cuda_init_ok |-> TRUE,
   memory_alloc_ok |-> TRUE, kernel_exec_ok |-> ok, sync_ok |-> ok, d2h_ok |-> ok,
   verify_ok |-> ok, core_validation_ok |-> ok]

(* All validation steps pass; the kernel fails.                            *)
Probes == [good |-> Probe(TRUE), bad |-> Probe(FALSE)]

Header == [worker : Workers, boot : Boots, epoch : 1..MaxEpoch, gen : 1..MaxObsGen,
           at : ObservedTimes]

AgentBatch(h, probed, order) ==
  [i \in DOMAIN order |->
     [dev |-> order[i], worker |-> h.worker, boot |-> h.boot, epoch |-> h.epoch,
      obs_gen |-> h.gen, device_gen |-> h.gen, health_gen |-> 1,
      observed_at |-> h.at, probe |-> Probes[probed[order[i]]]]]

ProbeKinds(d) == IF d \in FailingDevices THEN {"good", "bad"} ELSE {"good"}

Probed(S) == {f \in [S -> {"good", "bad"}] : \A d \in S : f[d] \in ProbeKinds(d)}

BatchesOf(h) ==
  UNION {{AgentBatch(h, probed, order) : probed \in Probed(S), order \in SetToSeqs(S)} :
         S \in SUBSET DevicesOf[h.worker] \ {{}}}

AgentBatches == UNION {BatchesOf(h) : h \in {g \in Header : g.boot \in BootsOf[g.worker]}}

ASSUME BatchesAreAgentShaped == AgentShaped

(* One worker id with two incarnations and two devices on its host.        *)
OneHost == {w1}
OneHostBoots == w1 :> {1, 2}
OneHostDevices == w1 :> {d1, d2}

(* Devices whose kernels never fail are interchangeable.                   *)
DeviceSymmetry == Permutations(Devices)
=============================================================================
