------------------------------ MODULE MCRecovery ------------------------------
(***************************************************************************)
(* Two worker ids that report the same device, so that each may take it    *)
(* over from the other, saved and recovered at any moment.                 *)
(***************************************************************************)
EXTENDS Recovery, TLC

CONSTANTS w1, w2, d1,
          MaxObsGen,       \* bound on an incarnation's observation generation
          ObservedTimes    \* timestamps agents may stamp

GoodProbe == [present |-> TRUE, driver_runtime_ok |-> TRUE, cuda_init_ok |-> TRUE,
              memory_alloc_ok |-> TRUE, kernel_exec_ok |-> TRUE, sync_ok |-> TRUE,
              d2h_ok |-> TRUE, verify_ok |-> TRUE, core_validation_ok |-> TRUE]

TwoWorkerBoots == w1 :> {1} @@ w2 :> {2}
SharedDevice == w1 :> {d1} @@ w2 :> {d1}

GoodBatches ==
  UNION {{<<[dev |-> d1, worker |-> w, boot |-> b, epoch |-> e, obs_gen |-> g,
             device_gen |-> g, health_gen |-> 1, observed_at |-> t, probe |-> GoodProbe]>> :
            b \in BootsOf[w], e \in 1..MaxEpoch, g \in 1..MaxObsGen, t \in ObservedTimes} :
         w \in Workers}
=============================================================================
