-------------------------- MODULE CudaBackendProofs --------------------------
(***************************************************************************)
(* What an agent's look at its host guarantees for any number of GPUs, any *)
(* failing calls and any number of publications.                           *)
(***************************************************************************)
EXTENDS CudaBackend, FiniteSetTheorems, TLAPS

-----------------------------------------------------------------------------
(* Buffers *)

(* Where a validation stands says which buffers it holds.                  *)
HeldInv ==
  /\ pc \in {"idle", "loop", "set_device", "mem_before", "malloc_in", "mem_after"} => held = {}
  /\ pc = "malloc_out" => held \subseteq {"d_in"}
  /\ held \subseteq {"d_in", "d_out"}

(* Every exit of a validation frees what was allocated before it.          *)
LEMMA HeldStep == HeldInv /\ [Next]_vars => HeldInv'
<1> SUFFICES ASSUME HeldInv, [Next]_vars PROVE HeldInv'
  OBVIOUS
<1> USE DEF HeldInv
<1>1. ASSUME Enumerate PROVE HeldInv'
  BY <1>1 DEF Enumerate
<1>2. ASSUME PublishSynthetic PROVE HeldInv'
  BY <1>2 DEF PublishSynthetic
<1>3. ASSUME Publish PROVE HeldInv'
  BY <1>3 DEF Publish
<1>4. ASSUME StartProbe PROVE HeldInv'
  BY <1>4 DEF StartProbe, Drop
<1>5. ASSUME NEW step \in Failing, Fail(step) PROVE HeldInv'
  BY <1>5 DEF Fail, Failing, Free, Return
<1>6. ASSUME SetDevice \/ MemBefore \/ MallocIn \/ MallocOut PROVE HeldInv'
  BY <1>6 DEF SetDevice, MemBefore, MallocIn, MallocOut, Pass
<1>7. ASSUME CopyIn \/ Launch \/ Synchronize \/ CopyOutAndVerify PROVE HeldInv'
  BY <1>7 DEF CopyIn, Launch, Synchronize, CopyOutAndVerify, Pass
<1>8. ASSUME FreeBuffers PROVE HeldInv'
  BY <1>8 DEF FreeBuffers, Free
<1>9. ASSUME MemAfter PROVE HeldInv'
  BY <1>9 DEF MemAfter, Return
<1>10. ASSUME UNCHANGED vars PROVE HeldInv'
  BY <1>10 DEF vars
<1> QED
  BY <1>1, <1>2, <1>3, <1>4, <1>5, <1>6, <1>7, <1>8, <1>9, <1>10 DEF Next

(* Whichever calls fail, no validation leaves a buffer behind.             *)
THEOREM NoBufferIsForgotten == Spec => []BuffersReturned
<1>1. Init => HeldInv
  BY DEF Init, HeldInv
<1>2. HeldInv => BuffersReturned
  BY DEF HeldInv, BuffersReturned
<1> QED
  BY <1>1, <1>2, HeldStep, PTL DEF Spec

-----------------------------------------------------------------------------
(* Identities and evidence *)

(* A device as CudaDeviceBackend::enumerate describes it: the identity is  *)
(* the one of the GPU at that ordinal.                                     *)
Listed ==
  {[ordinal |-> ord, identity |-> CudaIdentity(ord, v)] :
     ord \in Ordinals, v \in DriverVersions \cup {0}}

CudaObservation == {normalize_observation(d, p) : d \in Listed, p \in DeviceProbe}

(* The device id and the key an observation of GPU ord is reported under.  *)
CudaReport ==
  {<<ord + 1, canonical_device_identity(CudaIdentity(ord, v))>> :
     ord \in Ordinals, v \in DriverVersions \cup {0}}

SyntheticReport == {<<1, canonical_device_identity(SyntheticIdentity(0))>>}

(* GPU pci has read back a result without a wrong number.                  *)
Passed(pci, done) == <<pci, "right">> \in done \/ <<pci, "nan">> \in done

(* The inductive invariant of a publication: the devices still to probe    *)
(* and the observations made are of the enumerated GPUs, and a verified    *)
(* result belongs to a GPU that produced it.                               *)
PublicationInv ==
  /\ backend \in {"cuda", "synthetic"}
  /\ backend = "synthetic" => pc = "idle"
  /\ todo \in Seq(Listed)
  /\ pc \notin {"idle", "loop"} => todo # <<>>
  /\ probe \in DeviceProbe
  /\ pc = "d2h" => output \in {"right", "wrong", "nan"}
  /\ probe.verify_ok => pc \notin {"idle", "loop"} /\ Passed(device.identity.pci, results)
  /\ backend = "cuda" =>
       /\ batch \in Seq(CudaObservation)
       /\ \A k \in DOMAIN batch : batch[k].probe.verify_ok => Passed(batch[k].identity.pci, results)
  /\ reported \subseteq IF backend = "cuda" THEN CudaReport ELSE SyntheticReport

(* CUDA numbers its devices from 0.                                        *)
LEMMA OrdinalsAreFinite ==
  /\ \A ord \in Ordinals : ord \in Nat /\ ord + 1 \in DOMAIN Gpus
  /\ IsFiniteSet(Ordinals)
<1>1. DOMAIN Gpus = 1..Len(Gpus) /\ Len(Gpus) \in Nat
  BY BackendAssumption
<1>2. ASSUME NEW ord \in Ordinals
      PROVE  ord \in Nat /\ ord + 1 \in DOMAIN Gpus /\ ord <= Len(Gpus)
  BY <1>1 DEF Ordinals
<1>3. Ordinals \in SUBSET Nat
  BY <1>2
<1> QED
  BY <1>1, <1>2, <1>3, FS_BoundedSetOfNaturals

(* What enumeration lists is a sequence of GPUs under their own ordinals.  *)
LEMMA EnumeratedTyped ==
  ASSUME NEW readable \in SUBSET Ordinals, NEW ords \in InOrder(readable),
         NEW dv \in [Ordinals -> DriverVersions \cup {0}]
  PROVE  Enumerated(ords, dv) \in Seq(Listed)
<1>1. Cardinality(readable) \in Nat
  BY OrdinalsAreFinite, FS_Subset, FS_CardinalityType
<1>2. ords \in [1..Cardinality(readable) -> readable]
  BY DEF InOrder
<1>3. ASSUME NEW k \in DOMAIN ords
      PROVE  [ordinal |-> ords[k], identity |-> CudaIdentity(ords[k], dv[ords[k]])] \in Listed
  <2>1. ords[k] \in Ordinals /\ dv[ords[k]] \in DriverVersions \cup {0}
    BY <1>2
  <2> QED
    BY <2>1 DEF Listed
<1>4. Enumerated(ords, dv) \in [1..Cardinality(readable) -> Listed]
  BY <1>2, <1>3 DEF Enumerated
<1> QED
  BY <1>1, <1>4

(* What an observation of a listed device says.                            *)
LEMMA ListedFields ==
  ASSUME NEW d \in Listed
  PROVE  /\ d.ordinal \in Ordinals
         /\ d.identity.pci = Gpu(d.ordinal).pci
         /\ <<d.ordinal + 1, canonical_device_identity(d.identity)>> \in CudaReport
<1>1. PICK ord \in Ordinals, v \in DriverVersions \cup {0} :
        d = [ordinal |-> ord, identity |-> CudaIdentity(ord, v)]
  BY DEF Listed
<1>2. d.ordinal = ord /\ d.identity = CudaIdentity(ord, v)
  BY <1>1
<1>3. CudaIdentity(ord, v).pci = Gpu(ord).pci
  BY DEF CudaIdentity
<1>4. <<ord + 1, canonical_device_identity(CudaIdentity(ord, v))>> \in CudaReport
  BY DEF CudaReport
<1> QED
  BY <1>2, <1>3, <1>4

(* A probe that ends adds an observation of the device it was about.       *)
LEMMA ReturnStep ==
  ASSUME PublicationInv, pc \notin {"idle", "loop"}, NEW p \in DeviceProbe,
         p.verify_ok = probe.verify_ok, Return(p),
         UNCHANGED <<backend, results, reported>>
  PROVE  PublicationInv'
<1>1. backend = "cuda" /\ todo \in Seq(Listed) /\ todo # <<>>
  BY DEF PublicationInv
<1>2. device \in Listed /\ Tail(todo) \in Seq(Listed)
  BY <1>1 DEF device
<1> DEFINE o == normalize_observation(device, p)
<1>3. o \in CudaObservation
  BY <1>2 DEF CudaObservation
<1>4. o.identity = device.identity /\ o.probe = p
  BY DEF normalize_observation
<1>5. /\ batch \in Seq(CudaObservation) /\ batch' = Append(batch, o)
      /\ \A k \in DOMAIN batch : batch[k].probe.verify_ok => Passed(batch[k].identity.pci, results)
  BY <1>1 DEF PublicationInv, Return
<1>6. NoProbe \in DeviceProbe /\ ~NoProbe.verify_ok
  BY DEF NoProbe, DeviceProbe
<1>7. p.verify_ok => Passed(device.identity.pci, results)
  BY DEF PublicationInv
<1> HIDE DEF o
<1>8. /\ batch' \in Seq(CudaObservation)
      /\ \A k \in DOMAIN batch' : (k \in DOMAIN batch /\ batch'[k] = batch[k]) \/ batch'[k] = o
  BY <1>3, <1>5
<1>9. \A k \in DOMAIN batch' : batch'[k].probe.verify_ok => Passed(batch'[k].identity.pci, results)
  BY <1>4, <1>5, <1>7, <1>8
<1>10. probe' = NoProbe /\ todo' = Tail(todo) /\ pc' = "loop"
  BY DEF Return
<1> QED
  BY <1>1, <1>2, <1>6, <1>8, <1>9, <1>10 DEF PublicationInv

(* A call that passes moves on with the same device; only the comparison   *)
(* with the reference sets verify_ok.                                      *)
LEMMA PassStep ==
  ASSUME PublicationInv, NEW step, NEW next, NEW p \in DeviceProbe, Pass(step, next, p),
         step \notin {"idle", "loop"}, next \notin {"idle", "loop"},
         next = "d2h" => output' \in {"right", "wrong", "nan"},
         results \subseteq results', p.verify_ok => Passed(device.identity.pci, results')
  PROVE  PublicationInv'
<1>1. /\ pc = step /\ pc' = next /\ probe' = p
      /\ UNCHANGED <<backend, todo, batch, leaked, reported, rounds>>
  BY DEF Pass
<1>2. device' = device
  BY <1>1 DEF device
<1>3. backend = "cuda" => \A k \in DOMAIN batch' :
        batch'[k].probe.verify_ok => Passed(batch'[k].identity.pci, results')
  BY <1>1 DEF PublicationInv, Passed
<1> QED
  BY <1>1, <1>2, <1>3 DEF PublicationInv

(* Every step of a publication preserves the invariant.                    *)
LEMMA PublicationStep == PublicationInv /\ [Next]_vars => PublicationInv'
<1> SUFFICES ASSUME PublicationInv, [Next]_vars PROVE PublicationInv'
  OBVIOUS
<1>0. /\ NoProbe \in DeviceProbe /\ ~NoProbe.verify_ok
      /\ probe \in DeviceProbe
      /\ probe.verify_ok => Passed(device.identity.pci, results)
  BY DEF NoProbe, DeviceProbe, PublicationInv
<1>1. ASSUME Enumerate PROVE PublicationInv'
  <2>1. todo' \in Seq(Listed)
    BY <1>1, EnumeratedTyped DEF Enumerate
  <2>2. /\ backend' = backend /\ pc' = "loop" /\ batch' = <<>> /\ probe' = probe
        /\ reported' = reported /\ backend = "cuda" /\ pc = "idle"
    BY <1>1 DEF Enumerate
  <2>3. <<>> \in Seq(CudaObservation) /\ DOMAIN <<>> = {}
    OBVIOUS
  <2> QED
    BY <2>1, <2>2, <2>3 DEF PublicationInv
<1>2. ASSUME PublishSynthetic PROVE PublicationInv'
  <2>1. /\ backend = "synthetic" /\ UNCHANGED <<backend, pc, todo, probe, results>>
    BY <1>2 DEF PublishSynthetic
  <2>2. reported' = reported \cup SyntheticReport
    BY <1>2 DEF PublishSynthetic, normalize_observation, SyntheticReport
  <2>3. device' = device
    BY <2>1 DEF device
  <2> QED
    BY <2>1, <2>2, <2>3 DEF PublicationInv
<1>3. ASSUME Publish PROVE PublicationInv'
  <2>1. /\ backend = "cuda" /\ batch \in Seq(CudaObservation)
    BY <1>3 DEF Publish, PublicationInv
  <2>2. ASSUME NEW o \in Range(batch)
        PROVE  <<o.device_id, canonical_device_identity(o.identity)>> \in CudaReport
    <3>1. o \in CudaObservation
      BY <2>1 DEF Range
    <3>2. PICK d \in Listed, p \in DeviceProbe : o = normalize_observation(d, p)
      BY <3>1 DEF CudaObservation
    <3>3. o.device_id = d.ordinal + 1 /\ o.identity = d.identity
      BY <3>2 DEF normalize_observation
    <3> QED
      BY <3>3, ListedFields
  <2>3. reported' \subseteq CudaReport
    BY <1>3, <2>1, <2>2 DEF Publish, PublicationInv
  <2>4. UNCHANGED <<backend, todo, probe, batch, results>> /\ pc' = "idle" /\ pc = "loop"
    BY <1>3 DEF Publish
  <2> QED
    BY <2>1, <2>3, <2>4 DEF PublicationInv
<1>4. ASSUME StartProbe PROVE PublicationInv'
  <2>1. /\ pc = "loop" /\ todo # <<>> /\ UNCHANGED <<backend, batch, results, reported>>
    BY <1>4 DEF StartProbe, Drop
  <2>2. backend = "cuda" /\ todo \in Seq(Listed) /\ Tail(todo) \in Seq(Listed)
    BY <2>1 DEF PublicationInv
  <2>3. probe' \in DeviceProbe /\ ~probe'.verify_ok
    <3>1. ASSUME NEW ok \in BOOLEAN
          PROVE  LET p == [NoProbe EXCEPT !.present = TRUE, !.cuda_init_ok = TRUE,
                                          !.driver_runtime_ok = ok]
                 IN  p \in DeviceProbe /\ ~p.verify_ok
      BY DEF NoProbe, DeviceProbe
    <3> QED
      BY <1>0, <1>4, <3>1 DEF StartProbe, Drop
  <2>4. (pc' = "loop" /\ todo' = Tail(todo)) \/ (pc' = "set_device" /\ todo' = todo)
    BY <1>4 DEF StartProbe, Drop
  <2> QED
    BY <2>1, <2>2, <2>3, <2>4 DEF PublicationInv
<1>5. ASSUME NEW step \in Failing, Fail(step) PROVE PublicationInv'
  <2>1. /\ pc = step /\ Return(probe) /\ UNCHANGED <<backend, results, reported>>
    BY <1>5 DEF Fail
  <2> QED
    BY <1>0, <2>1, ReturnStep DEF Failing
<1>6. ASSUME SetDevice \/ MemBefore \/ MallocOut \/ CopyIn PROVE PublicationInv'
  <2>1. PICK step, next : /\ Pass(step, next, probe) /\ results' = results /\ next # "d2h"
                          /\ step \notin {"idle", "loop"} /\ next \notin {"idle", "loop"}
    BY <1>6 DEF SetDevice, MemBefore, MallocOut, CopyIn
  <2> QED
    BY <1>0, <2>1, PassStep
<1>7. ASSUME MallocIn \/ Launch \/ Synchronize PROVE PublicationInv'
  <2>1. PICK p \in {[probe EXCEPT !.memory_alloc_ok = TRUE], [probe EXCEPT !.kernel_exec_ok = TRUE],
                     [probe EXCEPT !.sync_ok = TRUE]} :
          \E step, next : /\ Pass(step, next, p) /\ results' = results
                          /\ next = "d2h" => output' \in {"right", "wrong", "nan"}
                          /\ step \notin {"idle", "loop"} /\ next \notin {"idle", "loop"}
    BY <1>7 DEF MallocIn, Launch, Synchronize
  <2>2. p \in DeviceProbe /\ p.verify_ok = probe.verify_ok
    BY <1>0, <2>1 DEF DeviceProbe
  <2> QED
    BY <1>0, <2>1, <2>2, PassStep
<1>8. ASSUME CopyOutAndVerify PROVE PublicationInv'
  <2> DEFINE p == [probe EXCEPT !.d2h_ok = TRUE, !.verify_ok = (output # "wrong")]
  <2>1. /\ Pass("d2h", "free", p) /\ pc = "d2h"
        /\ results' = results \cup {<<Gpu(device.ordinal).pci, output>>}
    BY <1>8 DEF CopyOutAndVerify, Pass, ReadBack
  <2>2. p \in DeviceProbe /\ p.verify_ok = (output # "wrong")
    BY <1>0 DEF DeviceProbe
  <2>3. device \in Listed /\ output \in {"right", "wrong", "nan"}
    BY <2>1 DEF PublicationInv, device
  <2>4. device.identity.pci = Gpu(device.ordinal).pci
    BY <2>3, ListedFields
  <2> HIDE DEF p
  <2>5. p.verify_ok => Passed(device.identity.pci, results')
    BY <2>1, <2>2, <2>3, <2>4 DEF Passed
  <2> QED
    BY <2>1, <2>2, <2>5, PassStep
<1>9. ASSUME FreeBuffers PROVE PublicationInv'
  <2>1. /\ pc = "free" /\ pc' = "mem_after"
        /\ UNCHANGED <<backend, todo, probe, batch, results, reported>>
    BY <1>9 DEF FreeBuffers
  <2>2. device' = device
    BY <2>1 DEF device
  <2> QED
    BY <2>1, <2>2 DEF PublicationInv
<1>10. ASSUME MemAfter PROVE PublicationInv'
  <2>1. PICK ok \in BOOLEAN : Return([probe EXCEPT !.core_validation_ok = ok])
    BY <1>0, <1>10 DEF MemAfter, DeviceProbe
  <2>2. LET p == [probe EXCEPT !.core_validation_ok = ok] IN
          p \in DeviceProbe /\ p.verify_ok = probe.verify_ok
    BY <1>0 DEF DeviceProbe
  <2>3. pc = "mem_after" /\ UNCHANGED <<backend, results, reported>>
    BY <1>10 DEF MemAfter
  <2> QED
    BY <2>1, <2>2, <2>3, ReturnStep
<1>11. ASSUME UNCHANGED vars PROVE PublicationInv'
  <2>1. device' = device
    BY <1>11 DEF vars, device
  <2> QED
    BY <1>11, <2>1 DEF vars, PublicationInv
<1> QED
  BY <1>1, <1>2, <1>3, <1>4, <1>5, <1>6, <1>7, <1>8, <1>9, <1>10, <1>11 DEF Next

(* It holds when the agent starts.                                         *)
LEMMA PublicationInit == Init => PublicationInv
<1> SUFFICES ASSUME Init PROVE PublicationInv
  OBVIOUS
<1>1. NoProbe \in DeviceProbe /\ ~NoProbe.verify_ok
  BY DEF NoProbe, DeviceProbe
<1>2. backend \in {"cuda", "synthetic"}
  BY DEF Init, ChosenBackend
<1>3. <<>> \in Seq(Listed) /\ <<>> \in Seq(CudaObservation) /\ DOMAIN <<>> = {}
  OBVIOUS
<1> QED
  BY <1>1, <1>2, <1>3 DEF Init, PublicationInv

(* So it holds throughout.                                                 *)
LEMMA PublicationInvariant == Spec => []PublicationInv
BY PublicationInit, PublicationStep, PTL DEF Spec

-----------------------------------------------------------------------------
(* evaluate_health calls a device HEALTHY only on a verified result.       *)
LEMMA HealthyIsVerified ==
  ASSUME NEW p, evaluate_health(health_signals_from_probe(p, TRUE, FALSE)) = "HEALTHY"
  PROVE  p.verify_ok
BY DEF evaluate_health, health_signals_from_probe, core_ok

(* No GPU is reported healthy on the strength of another one's work, of an *)
(* earlier publication or of a wrong number, whatever GPUs drop out of the *)
(* enumeration.  (A result that is not a number passes the comparison of   *)
(* cuda_validation.cpp:114 and is covered.)                                *)
THEOREM HealthIsEarned == Spec => []HealthyIsEarned
<1>1. PublicationInv => HealthyIsEarned
  BY HealthyIsVerified DEF PublicationInv, HealthyIsEarned, JudgedHealthy, Passed, Range
<1> QED
  BY <1>1, PublicationInvariant, PTL

(* Over any number of publications a key stands for one device id and one  *)
(* GPU, and a device id for one GPU.                                       *)
THEOREM KeysAreStable == Spec => []KeysTellDevicesApart
<1>1. PublicationInv => KeysTellDevicesApart
  <2> SUFFICES ASSUME PublicationInv, NEW r \in reported, NEW s \in reported
               PROVE  /\ r[2] = s[2] => r[1] = s[1]
                      /\ r[1] = s[1] => r[2].pci = s[2].pci /\ r[2].uuid = s[2].uuid
    BY DEF KeysTellDevicesApart
  <2>1. ASSUME NEW x \in CudaReport
        PROVE  \E ord \in Ordinals :
                 x[1] = ord + 1 /\ x[2].pci = Gpus[ord + 1].pci /\ x[2].uuid = ""
    <3>1. PICK ord \in Ordinals, v \in DriverVersions \cup {0} :
            x = <<ord + 1, canonical_device_identity(CudaIdentity(ord, v))>>
      BY DEF CudaReport
    <3>2. LET key == canonical_device_identity(CudaIdentity(ord, v)) IN
            key.pci = Gpus[ord + 1].pci /\ key.uuid = ""
      BY DEF canonical_device_identity, CudaIdentity, Gpu
    <3> QED
      BY <3>1, <3>2
  <2>2. CASE backend = "cuda"
    <3>1. PICK i \in Ordinals :
            r[1] = i + 1 /\ r[2].pci = Gpus[i + 1].pci /\ r[2].uuid = ""
      BY <2>1, <2>2 DEF PublicationInv
    <3>2. PICK j \in Ordinals :
            s[1] = j + 1 /\ s[2].pci = Gpus[j + 1].pci /\ s[2].uuid = ""
      BY <2>1, <2>2 DEF PublicationInv
    <3> QED
      BY <3>1, <3>2, OrdinalsAreFinite, BackendAssumption
  <2>3. CASE backend # "cuda"
    BY <2>3 DEF PublicationInv, SyntheticReport
  <2> QED
    BY <2>2, <2>3
<1> QED
  BY <1>1, PublicationInvariant, PTL
=============================================================================
