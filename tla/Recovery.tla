------------------------------- MODULE Recovery -------------------------------
(***************************************************************************)
(* The fleet store across coordinator restarts (coordinator.cpp).  The     *)
(* state is written only when an operator sends SAVE; a crash or a stop    *)
(* loses whatever came after.  start() recovers the saved snapshot, or     *)
(* begins from an empty store at the initial epoch when there is no file.  *)
(* The file is atomic here; module StoreFile models how it is written.     *)
(*                                                                         *)
(* observed is a history variable, which no operation reads: the devices   *)
(* observed since the last start.                                          *)
(***************************************************************************)
EXTENDS FleetState

CONSTANTS NoFile, MaxRestarts    \* MaxRestarts bounds the coordinator's restarts

ASSUME RestartsAssumption == MaxRestarts \in Nat

VARIABLES saved,     \* the snapshot on disk
          restarts,
          observed   \* devices with an observation applied since the last start

recoveryVars == <<vars, saved, restarts, observed>>

RecoveryInit ==
  /\ Init
  /\ saved = NoFile
  /\ restarts = 0
  /\ observed = {}

(* Any operation of the store, with the history it makes.                  *)
Operate ==
  /\ Next
  /\ observed' = observed \cup
       {d \in Devices : \E w \in Workers, obs \in Batches :
                          d \in AppliedDevices(w, obs) /\ IngestSnapshot(w, obs)}
  /\ UNCHANGED <<saved, restarts>>

(* save_state.                                                             *)
SaveState ==
  /\ saved' = snapshot
  /\ UNCHANGED <<vars, restarts, observed>>

(* A new coordinator process: load_state, or the constructor's state if    *)
(* there is no file to recover.                                            *)
Restart ==
  /\ restarts < MaxRestarts
  /\ restarts' = restarts + 1
  /\ \/ saved = NoFile /\ epoch' = 1 /\ fleet_gen' = 1
        /\ workers' = [w \in Workers |-> NoWorker]
        /\ devices' = [d \in Devices |-> NewDevice]
        /\ UNCHANGED now
     \/ saved # NoFile /\ Restore(saved)
  /\ observed' = {}
  /\ UNCHANGED saved

RecoveryNext == Operate \/ SaveState \/ Restart

RecoverySpec == RecoveryInit /\ [][RecoveryNext]_recoveryVars

-----------------------------------------------------------------------------
(* "After restart, recovered dynamic observations are not fresh: they      *)
(* become STALE until re-observed" (README): a device is fresh, and        *)
(* usable, only if this coordinator process accepted an observation of it. *)
(* An operator's undrain or clear of a recovered device must not revive it.*)
FreshIsReobserved ==
  \A d \in Devices :
    devices[d].fresh \/ devices[d].elig \in Usable => d \in observed
=============================================================================
