------------------------------- MODULE MCCluster ------------------------------
(***************************************************************************)
(* One worker id with one or two agent processes and a device.  Batches is *)
(* every batch such an agent can publish.                                  *)
(***************************************************************************)
EXTENDS Cluster

CONSTANTS w1, d1, c1, c2, c3

(* Connections are interchangeable.                                        *)
ConnSymmetry == Permutations(Conns)

GoodProbe == [present |-> TRUE, driver_runtime_ok |-> TRUE, cuda_init_ok |-> TRUE,
              memory_alloc_ok |-> TRUE, kernel_exec_ok |-> TRUE, sync_ok |-> TRUE,
              d2h_ok |-> TRUE, verify_ok |-> TRUE, core_validation_ok |-> TRUE]

GoodProbes == {GoodProbe}

OneProcess == w1 :> {1}
TwoProcesses == w1 :> {1, 2}
OneDevice == w1 :> {d1}

PublishableBatches ==
  UNION {{BatchOf(b, e, g, t, probed) :
            e \in 1..MaxEpoch, g \in 1..MaxObsGen, t \in 1..MaxTime, probed \in Probings(b)} :
         b \in Boots}
=============================================================================
