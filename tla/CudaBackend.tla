----------------------------- MODULE CudaBackend -----------------------------
(***************************************************************************)
(* How an agent looks at its host: WorkerAgent::publish_snapshot walks the *)
(* devices its backend enumerates (cuda/cuda_backend.cpp, device/          *)
(* synthetic_backend.cpp), probes each one and collects the observations.  *)
(* A CUDA probe runs run_cuda_validation (cuda/cuda_validation.cpp), here  *)
(* one action per CUDA call: every call may fail, and what the GPU really  *)
(* computed is kept beside what the code reports.                          *)
(*                                                                         *)
(* Left out: texts, telemetry, capability lists and the metadata of the    *)
(* observations, which Cluster models.                                     *)
(***************************************************************************)
EXTENDS Pipeline, Sequences, FiniteSets, Functions

CONSTANTS
  Gpus,                \* the host's GPUs in CUDA order: [pci, model]
  Backends,            \* what the operator may ask for with --backend
  ForeignUse,          \* memory other processes may hold, in buffers
  kMaxJustifiedDelta,  \* in buffers (4 of 4 MiB in the code)
  DriverVersions,      \* what cudaDriverGetVersion may give over time
  MaxRounds            \* bound on publications

ASSUME BackendAssumption ==
  /\ Gpus \in Seq([pci : Nat, model : STRING])
  /\ \A i, j \in DOMAIN Gpus : Gpus[i].pci = Gpus[j].pci => i = j
  /\ ForeignUse \subseteq Nat
  /\ kMaxJustifiedDelta \in Nat
  /\ MaxRounds \in Nat

Ordinals == {i - 1 : i \in DOMAIN Gpus}
Gpu(ord) == Gpus[ord + 1]

VARIABLES
  backend,   \* backend_: "cuda" or "synthetic"
  pc,        \* "idle", "loop" between probes, or the next CUDA call
  todo,      \* enumerated devices not yet probed
  probe,     \* the DeviceProbe being filled in
  baseline,  \* memory in use when the validation started (baseline_used)
  batch,     \* observations collected in this publication
  held,      \* buffers the running validation has and must give back
  leaked,    \* per GPU: buffers whose cudaFree was refused
  output,    \* what d_out of the running validation holds
  results,   \* history: <<GPU, what it computed>> read back in this publication
  reported,  \* history: <<device_id, key>> of every observation published
  rounds

vars == <<backend, pc, todo, probe, baseline, batch, held, leaked, output, results, reported,
          rounds>>

NoProbe == [present |-> FALSE, driver_runtime_ok |-> FALSE, cuda_init_ok |-> FALSE,
            memory_alloc_ok |-> FALSE, kernel_exec_ok |-> FALSE, sync_ok |-> FALSE,
            d2h_ok |-> FALSE, verify_ok |-> FALSE, core_validation_ok |-> FALSE]

-----------------------------------------------------------------------------
(* Identities *)

(* The key the store files a device under.  model stands for architecture, *)
(* compute capability and memory size.  NUMA node, runtime version and MIG *)
(* partition are not part of it, the driver version is.                    *)
canonical_device_identity(i) ==
  [vendor_name |-> i.vendor_name, uuid |-> i.uuid, pci |-> i.pci, model |-> i.model,
   driver_version |-> i.driver_version]

CudaIdentity(ord, dv) ==
  [vendor_name |-> "NVIDIA", uuid |-> "", pci |-> Gpu(ord).pci, model |-> Gpu(ord).model,
   driver_version |-> dv]

SyntheticIdentity(i) ==
  [vendor_name |-> "synthetic", uuid |-> i, pci |-> 0, model |-> "synthetic",
   driver_version |-> "synthetic"]

-----------------------------------------------------------------------------
(* WorkerAgent's constructor: an agent asked for CUDA that finds none runs *)
(* on with the synthetic backend.                                          *)
ChosenBackend(wanted, cuda_available) ==
  IF wanted = "cuda" /\ cuda_available THEN "cuda" ELSE "synthetic"

Init ==
  /\ \E wanted \in Backends, available \in BOOLEAN :
       backend = ChosenBackend(wanted, available /\ Gpus # <<>>)
  /\ pc = "idle"
  /\ todo = <<>>
  /\ probe = NoProbe
  /\ baseline = 0
  /\ batch = <<>>
  /\ held = {}
  /\ leaked = [o \in Ordinals |-> 0]
  /\ output = "none"
  /\ results = {}
  /\ reported = {}
  /\ rounds = 0

(* The ways to list S in CUDA order: exactly one.                          *)
InOrder(S) ==
  {s \in [1..Cardinality(S) -> S] : \A i, j \in DOMAIN s : i < j => s[i] < s[j]}

(* Devices numbered by their place in the list. *)
Mut_Enumerated(ords, dv) ==
  [k \in DOMAIN ords |-> [ordinal |-> k - 1, identity |-> CudaIdentity(ords[k], dv[ords[k]])]]

(* CudaDeviceBackend::enumerate: a device whose properties cannot be read  *)
(* is passed over, the others keep their CUDA ordinal.                     *)
Enumerated(ords, dv) ==
  [k \in DOMAIN ords |-> [ordinal |-> ords[k], identity |-> CudaIdentity(ords[k], dv[ords[k]])]]

(* publish_snapshot starts.  If cudaGetDeviceCount fails it returns at     *)
(* once, which is a stuttering step.  cudaDriverGetVersion is asked anew   *)
(* for each device and its result is ignored: when it fails dv is 0.       *)
Enumerate ==
  /\ backend = "cuda"
  /\ pc = "idle"
  /\ rounds < MaxRounds
  /\ \E readable \in SUBSET Ordinals, dv \in [Ordinals -> DriverVersions \cup {0}] :
       \E ords \in InOrder(readable) : todo' = Enumerated(ords, dv)
  /\ rounds' = rounds + 1
  /\ pc' = "loop"
  /\ batch' = <<>>
  /\ results' = {}
  /\ UNCHANGED <<backend, probe, baseline, held, leaked, output, reported>>

(* normalize_observation, with the device id publish_snapshot gives it.    *)
normalize_observation(d, p) ==
  [device_id |-> d.ordinal + 1, identity |-> d.identity, probe |-> p]

(* The synthetic backend enumerates one device and vouches for it.         *)
PublishSynthetic ==
  /\ backend = "synthetic"
  /\ pc = "idle"
  /\ rounds < MaxRounds
  /\ rounds' = rounds + 1
  /\ LET d == [ordinal |-> 0, identity |-> SyntheticIdentity(0)]
         o == normalize_observation(d, [f \in DOMAIN NoProbe |-> TRUE])
     IN  /\ batch' = <<o>>
         /\ reported' = reported \cup {<<o.device_id, canonical_device_identity(o.identity)>>}
  /\ UNCHANGED <<backend, pc, todo, probe, baseline, held, leaked, output, results>>

(* The batch is complete; an empty one is not sent.                        *)
Publish ==
  /\ pc = "loop"
  /\ todo = <<>>
  /\ pc' = "idle"
  /\ reported' = reported \cup
       {<<o.device_id, canonical_device_identity(o.identity)>> : o \in Range(batch)}
  /\ UNCHANGED <<backend, todo, probe, baseline, batch, held, leaked, output, results, rounds>>

-----------------------------------------------------------------------------
(* CudaDeviceBackend::probe *)

device == Head(todo)

(* The probe returns an error: the loop goes on without this device.       *)
Drop ==
  /\ pc' = "loop"
  /\ todo' = Tail(todo)
  /\ probe' = NoProbe
  /\ UNCHANGED <<baseline, batch, held, leaked, output, results>>

(* cudaSetDevice, then cudaFree(nullptr) to create the context, the        *)
(* versions, cudaMemGetInfo.                                               *)
StartProbe ==
  /\ pc = "loop"
  /\ todo # <<>>
  /\ \/ Drop
     \/ \E versions_ok \in BOOLEAN :
          /\ probe' = [NoProbe EXCEPT !.present = TRUE, !.cuda_init_ok = TRUE,
                                      !.driver_runtime_ok = versions_ok]
          /\ pc' = "set_device"
          /\ UNCHANGED <<todo, baseline, batch, held, leaked, output, results>>
  /\ UNCHANGED <<backend, reported, rounds>>

(* The validation is over and its result is part of the probe.             *)
Return(p) ==
  /\ pc' = "loop"
  /\ todo' = Tail(todo)
  /\ batch' = Append(batch, normalize_observation(device, p))
  /\ probe' = NoProbe
  /\ output' = "none"

-----------------------------------------------------------------------------
(* run_cuda_validation *)

InUse(ord, others) == Cardinality(held) + leaked[ord] + others

(* cudaFree of some of the buffers; the ones it refuses are lost.          *)
Free(buffers) ==
  /\ held' = held \ buffers
  /\ \E refused \in SUBSET (buffers \cap held) :
       leaked' = [leaked EXCEPT ![device.ordinal] = @ + Cardinality(refused)]

(* An exit that forgets d_out. *)
Mut_Fail(step) ==
  /\ pc = step
  /\ Free({"d_in"})
  /\ Return(probe)
  /\ UNCHANGED <<backend, baseline, results, reported, rounds>>

(* A call fails: what has been allocated is freed, ok stays false.         *)
Fail(step) ==
  /\ pc = step
  /\ Free(IF step \in {"h2d", "launch", "sync", "d2h"} THEN {"d_in", "d_out"}
          ELSE IF step = "malloc_out" THEN {"d_in"} ELSE {})
  /\ Return(probe)
  /\ UNCHANGED <<backend, baseline, results, reported, rounds>>

(* A call succeeds and the next one follows.                               *)
Pass(step, next, p) ==
  /\ pc = step
  /\ pc' = next
  /\ probe' = p
  /\ UNCHANGED <<backend, todo, batch, leaked, reported, rounds>>

SetDevice ==
  /\ Pass("set_device", "mem_before", probe)
  /\ UNCHANGED <<baseline, held, output, results>>

MemBefore ==
  /\ Pass("mem_before", "malloc_in", probe)
  /\ \E others \in ForeignUse : baseline' = InUse(device.ordinal, others)
  /\ UNCHANGED <<held, output, results>>

(* alloc_ok is set when the first of the two buffers is there.             *)
MallocIn ==
  /\ Pass("malloc_in", "malloc_out", [probe EXCEPT !.memory_alloc_ok = TRUE])
  /\ held' = held \cup {"d_in"}
  /\ UNCHANGED <<baseline, output, results>>

MallocOut ==
  /\ Pass("malloc_out", "h2d", probe)
  /\ held' = held \cup {"d_out"}
  /\ UNCHANGED <<baseline, output, results>>

CopyIn ==
  /\ Pass("h2d", "launch", probe)
  /\ UNCHANGED <<baseline, held, output, results>>

(* The launch is accepted; the kernel runs on its own.                     *)
Launch ==
  /\ Pass("launch", "sync", [probe EXCEPT !.kernel_exec_ok = TRUE])
  /\ output' = "computing"
  /\ UNCHANGED <<baseline, held, results>>

(* The kernel has ended.  Its result is right (within the tolerance),     *)
(* holds a wrong number, or is right but for elements that are not numbers.*)
Synchronize ==
  /\ Pass("sync", "d2h", [probe EXCEPT !.sync_ok = TRUE])
  /\ \E result \in {"right", "wrong", "nan"} : output' = result
  /\ UNCHANGED <<baseline, held, results>>

ReadBack == results' = results \cup {<<Gpu(device.ordinal).pci, output>>}

(* A mismatch ends the comparison and is forgotten. *)
Mut_CopyOutAndVerify ==
  /\ Pass("d2h", "free", [probe EXCEPT !.d2h_ok = TRUE, !.verify_ok = TRUE])
  /\ ReadBack
  /\ UNCHANGED <<baseline, held, output>>

(* Copied back and compared with the CPU reference: fabs(out - ref) >      *)
(* 1e-5f, which no NaN satisfies.  A mismatch is recorded and the sequence *)
(* goes on.                                                                *)
CopyOutAndVerify ==
  /\ Pass("d2h", "free", [probe EXCEPT !.d2h_ok = TRUE, !.verify_ok = (output # "wrong")])
  /\ ReadBack
  /\ UNCHANGED <<baseline, held, output>>

(* Neither the first free's error nor the second one's changes ok.         *)
FreeBuffers ==
  /\ pc = "free"
  /\ pc' = "mem_after"
  /\ Free({"d_in", "d_out"})
  /\ UNCHANGED <<backend, todo, probe, baseline, batch, output, results, reported, rounds>>

Abs(n) == IF n < 0 THEN -n ELSE n

(* ok: every step passed and memory is back near its baseline.             *)
MemAfter ==
  /\ pc = "mem_after"
  /\ \E others \in ForeignUse :
       LET restored == Abs(InUse(device.ordinal, others) - baseline) <= kMaxJustifiedDelta
       IN  Return([probe EXCEPT !.core_validation_ok =
                     /\ probe.memory_alloc_ok /\ probe.kernel_exec_ok /\ probe.sync_ok
                     /\ probe.d2h_ok /\ probe.verify_ok /\ restored])
  /\ UNCHANGED <<backend, baseline, held, leaked, results, reported, rounds>>

Failing == {"set_device", "mem_before", "malloc_in", "malloc_out", "h2d", "launch", "sync",
            "d2h", "mem_after"}

-----------------------------------------------------------------------------
Next ==
  \/ Enumerate
  \/ PublishSynthetic
  \/ Publish
  \/ StartProbe
  \/ \E step \in Failing : Fail(step)
  \/ SetDevice
  \/ MemBefore
  \/ MallocIn
  \/ MallocOut
  \/ CopyIn
  \/ Launch
  \/ Synchronize
  \/ CopyOutAndVerify
  \/ FreeBuffers
  \/ MemAfter

Spec == Init /\ [][Next]_vars

-----------------------------------------------------------------------------
(* Properties *)

(* Whatever call fails, a validation gives back every buffer it allocated: *)
(* between two probes it holds none, so memory is lost only where CUDA     *)
(* itself refuses a free ("Bounded allocation", cuda_validation.hpp).      *)
BuffersReturned == pc \in {"idle", "loop"} => held = {}

(* An observation the agent has made and the coordinator will judge        *)
(* HEALTHY.                                                                *)
JudgedHealthy ==
  {o \in Range(batch) :
     /\ backend = "cuda"
     /\ evaluate_health(health_signals_from_probe(o.probe, TRUE, FALSE)) = "HEALTHY"}

(* An observation that the coordinator will judge healthy was earned by    *)
(* the very GPU whose address it carries: in this publication that GPU ran *)
(* the kernel to its end, its result was read back and no number in it was *)
(* wrong, also when other GPUs of the host cannot be enumerated or probed. *)
(* That is less than "verifies against a CPU reference"                    *)
(* (cuda_validation.hpp): elements that are not numbers pass the           *)
(* comparison, and a GPU that computed only such elements is healthy.      *)
HealthyIsEarned ==
  \A o \in JudgedHealthy : \E r \in {"right", "nan"} : <<o.identity.pci, r>> \in results

(* Over all publications of a process, a key stands for one device id and  *)
(* one GPU, and a device id for one GPU: devices never swap identities     *)
(* when one of them drops out of the enumeration and comes back.  (One GPU *)
(* may have several keys: the driver version is part of the key.)          *)
KeysTellDevicesApart ==
  \A r, s \in reported : /\ r[2] = s[2] => r[1] = s[1]
                         /\ r[1] = s[1] => /\ r[2].pci = s[2].pci
                                           /\ r[2].uuid = s[2].uuid
=============================================================================
