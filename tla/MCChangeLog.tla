----------------------------- MODULE MCChangeLog -----------------------------
(***************************************************************************)
(* The logged store with two hosts of one GPU each, both of them ordinal 0 *)
(* and so device 1 of the log.                                             *)
(***************************************************************************)
EXTENDS MCFleetState, ChangeLog

TwoHosts == {w1, w2}
TwoHostBoots == w1 :> {1} @@ w2 :> {3}
TwoHostDevices == w1 :> {d1} @@ w2 :> {d2}
FirstOrdinals == [b \in Boots |-> [d \in Devices |-> 1]]

(* Nothing else changes, or the driver does and the identity with it.      *)
DriverChanges == {{}, {"IDENTITY_CHANGED", "DRIVER_RUNTIME_CHANGED"}}
=============================================================================
