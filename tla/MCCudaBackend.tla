---------------------------- MODULE MCCudaBackend ----------------------------
(***************************************************************************)
(* Two GPUs of the same model, so that only the PCI address tells them     *)
(* apart.  The memory other processes hold may move by less and by more    *)
(* than the tolerance.                                                     *)
(***************************************************************************)
EXTENDS CudaBackend

TwinGpus == <<[pci |-> 1, model |-> "A"], [pci |-> 2, model |-> "A"]>>
=============================================================================
