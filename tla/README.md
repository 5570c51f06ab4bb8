# TLA+ models of GPU Fleet Agent

GPU Fleet Agent keeps track of GPUs across hosts. A **worker agent** on each host
enumerates and validates its devices and publishes what it found; a
**coordinator** collects this over TCP, keeps the canonical state of the fleet
and decides which devices may be offered for placement. This directory holds
models of that system, model-checking configurations and proofs.

The modules are translated from the C++ code (`src/include/gpufleetagent/...` is
abbreviated `.../` below). `PROJECT.json` maps every definition to the lines it
models.

## 1. Inventory

| Part | State | Operations | What makes it correct |
|---|---|---|---|
| Health and eligibility evaluators (`.../health`, `.../eligibility`) | none, two ordered decision lists | `evaluate_health`, `evaluate_eligibility` | the order of the checks realises the intended priorities; the reason reported applies; less evidence never raises a verdict |
| Observation pipeline (`.../observation/pipeline.hpp`) | none | `apply_observation`, `health_signals_from_probe` | freshness, health and eligibility come from the same observation; operator settings survive it |
| Fleet state store (`.../fleet/fleet_state.hpp`) | epoch, fleet generation, worker records, device states, change log; one mutex | `roll_epoch`, `register_worker`, `mark_worker_lost`, `heartbeat`, `ingest_snapshot`, `set_drain`, `set_quarantine`, `clear_quarantine`, `snapshot`, `restore` | usable devices are backed by evidence; fresh evidence does not outlive its incarnation's authority; a fence holds while its incarnation is on record; publications do not mix; generations only advance |
| Coordinator (`src/coordinator/coordinator.cpp`) | a thread per connection, `liveness_loop`, the listener | `handle_connection`, `dispatch`, `liveness_loop`, `start`, `save_state`, `load_state`, `stop` | lost workers are noticed; a connection's end hits the right incarnation; restart brings nothing stale back as current |
| Worker agent (`src/agent/agent.cpp`) | boot id, last known epoch, three generations, one connection | `reconnect_loop`, `connect_and_register`, `publish_snapshot`, `send_heartbeat` | registers, publishes, recovers from broken links; generations stay ahead of the coordinator's |
| Persistence (`.../persistence/store.hpp`) | `path`, `path.tmp` | `save_snapshot`, `load_snapshot` | the next start finds a complete snapshot or none; what is reported as saved is in place |
| Framing, message, observation, registration and snapshot codecs | frame decoder's buffer | `feed`, `encode_*`, `decode_*` | same frames for every segmentation, none after damage; decode inverts encode; damage is refused |
| Device identity, capabilities | none | canonical text, comparison | a key stands for one device |
| CUDA validation and backend, synthetic backend | device allocations | `enumerate`, `probe`, validation steps | every exit frees what it allocated; only a GPU that did the work is reported healthy |
| Command line tool | none | one request per call | the request says what the operator asked |

How they interact: an agent sends HELLO, REGISTER, DEVICE_SNAPSHOT and HEARTBEAT
on one TCP connection. A connection thread of the coordinator decodes each message
and calls the fleet store; when the connection ends it marks the worker lost.
`liveness_loop` marks workers lost whose heartbeats stopped. Operators' requests
arrive on connections of their own. All these threads share the fleet store and,
during SAVE, the store file.

What is hard here: several processes with the same worker id (restart, duplicate
start); connection threads that are late, so the end of an old connection is seen
after the start of a new one; batches that are repeated, overtaken or rejected
half-way; verdicts computed once and read later (freshness, overdue heartbeats,
the agent's epoch); sends that stop half-way on a connection that stays in use;
CUDA calls that fail one by one; restart from an old snapshot; concurrent SAVEs; a
crash in the middle of one. `PROJECT.json` lists each of these hazards with its line.

## 2. Modules

```
Evaluators <- Pipeline <- FleetState <- Cluster         StoreFile     FrameChannel
                 |           |   |  \___ Recovery                          ^ implements
            CudaBackend      |   \______ ChangeLog      Codec <- WireFormats     Framing
                             |                                     \___ Exchange
            Cluster implements FleetState's Spec
```

Each has an `MC...` module with the instances TLC checks, except `Pipeline` (checked
through the modules above it) and `FrameChannel` (the abstract specification Framing
is compared with); the one of the codecs is `MCCodec`. The theorems about a module are in
the module `...Proofs` (section 4), those about Recovery and ChangeLog in `HistoryProofs`,
those about Exchange in `CodecProofs`.

**Evaluators** has both decision lists, check for check. Numeric comparisons
(memory, generations, temperature) are single signals. Explanations are left out.
**MCEvaluators** drives them: from a healthy device signals go bad one at a time,
in any order, and the lists are compared with references stated without order.

**Pipeline** is `apply_observation` under the default `ObservationPolicy`, the
only one the coordinator passes, and `recompute_device_eligibility`, which the
operators' actions use. The two compute the eligibility input differently; both
are kept as they are.

**FleetState** has one action per public operation, atomic because of the mutex.
Maps are total functions with a `registered` or `known` flag for absent keys. A
call refused without effect is a stuttering step. `IngestSnapshot` is the whole
walk over a batch: the prefix before the first rejected observation is processed,
what is not skipped is applied, and the disappearance pass runs only if nothing
was rejected. Its inputs are any batches of any incarnation, so delayed, repeated
and reordered delivery is included. `ReaffirmWorker` and `AdmitWorker` are the two
ways through `register_worker`; the `Can...` operators are their guards, which
Cluster uses to know the answer sent back.

**ChangeLog** adds `change_log_` to FleetState: each operation together with the
records it appends, `diff_device_state` axis by axis, and the limit. A record is its
kind, the DeviceId it is filed under and the value it says the device went to. The id is
what the observing incarnation calls the device, its ordinal plus one, so it repeats from
host to host (`DeviceIdOf`); which device a record was made for is kept beside it (`dev`)
as history. What an observation may change that the store does not interpret (identity,
driver, memory, capabilities) is a choice (`OtherChanges`) that only adds records.

**Recovery** adds the saved snapshot and restarts to FleetState. `observed`, the devices
observed since the last restart, is a history variable.

**StoreFile** has the steps of `save_snapshot` (copy, open, write, rename, remove,
rename) for several saver threads, failures of each step, crashes between any two,
and what the next start makes of the file. The history variable `overlapped` says
whether two saves were ever on the disk at once. The file system is external: rename and
remove behave as on the Windows toolchain the project targets.

**Cluster** composes agents, connections, connection threads and `liveness_loop`
with FleetState. An agent's `pc` is its place in `reconnect_loop`. A connection
holds what is under way to the coordinator, the answer the agent waits for, and
the thread's `worker_bound`. `liveness_loop` is two steps: it decides on a copy
(`CheckHeartbeats`) and marks later (`MarkSuspect`). A publication is of any nonempty
set of the host's devices, each with a probe of its own (`Probings`): enumeration may
leave devices out, and a device whose probe fails is skipped. TCP is external: in order
until the link goes down; after a close the coordinator still reads what was sent,
after a reset it does not. A send that stops half-way (`TornSnapshot`,
`TornHeartbeat`) leaves a message behind which nothing can be read;
`DropConnection` is the `return` in `handle_connection` that skips marking the worker
lost.

**Framing** is the byte level below Cluster: `encode_frame`, `send_all` that may stop
anywhere, a stream TCP cuts anywhere, `FrameDecoder::feed` with its checks in order,
and the loop of `handle_connection` around it with its four exits: the close of the link
(`RecvEnd`), its reset or the coordinator's stop (`RecvFails`), a stream `feed` refuses and
a frame `decode_message` refuses (both in `Feed`). Field widths are those of the code, a
byte has `Base` values, the checksum is taken to tell all byte sequences apart.
**FrameChannel** is what it promises: frames sent whole on a sound stream are
delivered in order, each once, and the receiver leaves when it has delivered them all,
at the first one it cannot decode, or when the link is cut. The refinement maps
`accepted` to the frames sent whole before any damage, `delivered` to the frames
dispatched, `state` to how the thread left.

**Codec** has `ByteWriter` and `ByteReader` and runs lists of fields against them, at
the three depths the formats have: flat records, records with lists of flat ones, and
whole messages with lists of those or of length-prefixed encodings of them;
**WireFormats** has one such list per encoder and per decoder, transcribed
separately, so that a difference in order, width or limit is a difference in the
model. A byte of a buffer knows which number it belongs to; a read out of step yields
junk. Texts are cut at the writer's limit (`ByteWriter::string`); byte spans, such as a
message's payload, are not (`ByteWriter::bytes`). The limits on texts and lists are scaled
down, keeping their order.
**Exchange** has a value on its way from an encoder to its decoder: the encoding may
arrive cut or with more behind it. Its `Values` are what the C++ types can hold
(`Proper`): texts and lists of any length, also beyond every bound. **MCCodec** varies one
field of a typical value at a time, cuts encodings at every byte and appends to them.

**CudaBackend** follows one agent process looking at its host: the choice of the
backend, enumeration, and for each device the probe with `run_cuda_validation`, one
action per CUDA call. Every call may fail; the kernel may compute wrong numbers, or
elements that are not numbers, which the comparison with the reference lets through;
other processes use memory too; a free may be refused. `held`, `results` and
`reported` keep what really happened beside what the code reports. Judging a probe
uses `evaluate_health` of Evaluators, the coordinator's own verdict.

Definitions called `Mut_...` are wrong variants of the definition that follows
them. No specification uses them; each one, put in the place of the right one, is
caught by a property (`mutants` in `PROJECT.json`).

## 3. Runs

Passing runs:

| Run | Instance | Shows |
|---|---|---|
| `evaluators` | up to 4 bad signals of a healthy device | `DecisionMatchesReference`, `ReasonNamesCulprit`, `EvidenceLossNeverRaises` |
| `one_host` | 1 worker id, 2 incarnations, 2 devices, registrations listing any of them, batches over any of them, 2 observation and registration generations, 2 epochs, 2 clock values, operators | `TypeOK`, `UsableIsBacked`, `FenceHolds`, `FreshKeepsSource`, `PublicationIsAtomic` |
| `two_hosts` | 2 hosts with one GPU each under the same device id, one with a kernel that may fail, 2 observation generations, drains and quarantines, a log of 2 records | `LogAgrees`, `UsableIsBacked`, `GenerationsAdvance`, `OtherHostsUntouched`, `AdminFencesHold` |
| `recovery` | 2 worker ids that report the same device, one restart, any number of saves, drains, timestamps late, early, out of order | `FreshIsReobserved`, `UsableIsBacked`, `BecomesUsableOnlyFresh`, `FreshKeepsSource` |
| `store_file` | 2 threads that save at any moment, 3 versions, 2 crashes | `TypeOK`, `DamageNeedsOverlap`, `SavedIsStored` |
| `cluster` | 2 processes of one worker id, 3 connections, kills and resets | `FreshIsWatched`, `AgentAhead` |
| `cluster_clock` | 1 process, 2 epochs, overdue heartbeats, resets, handshake timeouts, torn sends, failing backend, partial enumerations, operators | `ClusterTypeOK`, `ImplementsStore` (the cluster implements FleetState's `Spec`), `WatchIsKept` |
| `cluster_live` | 1 process, kills, torn heartbeats, a clock up to 3 and a timeout of 1, fairness | `DeadGoesDown`, `LaunchedIsObserved` |
| `framing` | 3 frames, empty, at the limit, over it or undecodable, torn at six places, links closed or reset, every segmentation, fairness | `ImplementsChannel`, `SoundStreamNeverRefused`, `SentIsDispatched` |
| `codec` | 7 formats, every field varied, texts and lists up to and over every limit, every cut | `DecodeInvertsEncode`, `OnlyTextsAreCut`, `DamagedIsRefused` |
| `cuda` | 2 GPUs of one model, 2 publications, failures at every call | `BuffersReturned`, `HealthyIsEarned`, `KeysTellDevicesApart` |

What they say, in words:

- A device is offered for placement only while it is known, present, freshly
  observed, healthy and neither drained nor quarantined (`UsableIsBacked`), it gets
  there only on an observation that was young and in order (`BecomesUsableOnlyFresh`),
  and worker traffic never moves an operator's fence (`AdminFencesHold`).
- No step takes the authority of an incarnation away and leaves its devices fresh, and
  none makes a device fresh without one (`FreshKeepsSource`), nor leaves fresh devices of
  one incarnation from two of its publications (`PublicationIsAtomic`), whatever is
  listed, skipped, replayed or taken over. Both name their one exception: devices the
  incarnation's own registration left out (`Overlooked`).
- Behind every fresh device there is a served connection whose end will be seen. With full
  enumerations and whole sends this is an invariant (`FreshIsWatched`); in general no step
  but the `return` on an undecodable frame ends the last watch over a device with a live
  source (`WatchIsKept`). Once its process is dead a device does not stay fresh, even
  after such a return (`DeadGoesDown`).
- While a fenced incarnation is on record, nothing lifts its fence or revives its devices
  (`FenceHolds`). The record remembers one incarnation: a fence is forgotten when another
  one is admitted (see below). Generations only advance (`GenerationsAdvance`,
  `AgentAhead`), one host's troubles stay its own (`OtherHostsUntouched`).
- A restart revives nothing that was not observed again (`FreshIsReobserved`).
- Only saves that overlap can leave a store file that cannot be loaded, whatever fails or
  crashes (`DamageNeedsOverlap`), and a save that did not overlap is reported only with its
  own snapshot in place (`SavedIsStored`).
- The newest record the change log has of a device id is true of the device it was made
  for, though hosts share ids and whatever the limit has cost (`LogAgrees`).
- However TCP cuts the stream, frames arrive as sent or not at all
  (`ImplementsChannel`), a sound stream is never refused as one (`SoundStreamNeverRefused`),
  and no complete frame waits for bytes that need not come (`SentIsDispatched`). A reset
  loses what was not read yet, an undecodable frame everything behind it.
- Decoders invert encoders up to and including their limits, refuse every cut or
  extended encoding; over-long texts are cut, which readers accept, but nothing else is
  lost and no two stored devices are merged (`OnlyTextsAreCut`).
- No exit of the CUDA validation forgets a buffer, a GPU is judged healthy only if it
  ran the kernel itself in this publication and no number it returned was wrong, and GPUs
  do not swap keys or device ids when one of them cannot be read for a while.

One run refutes a statement of the repository (the quotation is under `findings` in
`PROJECT.json`):

| Run | Statement | What the code does |
|---|---|---|
| `cluster_reconnect` | reconnects are handled | the end of the old connection fences the incarnation; its re-registration is acknowledged but stays fenced, for ever |

**Other divergences met while modelling.** The models have them; the properties above are
stated so that they hold beside them, naming the exception where there is one.

Fleet store and cluster:

- A skipped (repeated or overtaken) observation does not count as seen
  (`fleet_state.hpp:266`), so the pass at the end of its batch takes the device for
  disappeared and marks it LOST, though `README.md:135-137` says that stale replay,
  delayed and duplicate messages are handled.
- A connection is bound to the worker id of any REGISTER, refused ones too
  (`coordinator.cpp:112`), and its end marks that id lost whichever incarnation holds it:
  a refused duplicate fences the healthy process. `coordinator.cpp:124-125` says "If a
  worker was registered on this connection and is still authoritative, mark it lost".
- If the answer to REGISTER is lost, the agent retries with the registration generation
  the coordinator already has and is refused as stale, every time.
- `read_one_message` (`agent.cpp:161`) drops what arrived behind the first message.
- `Accounting::is_valid` (`fleet_state.hpp:73`) demands live >= stale workers, two disjoint
  counts: one lost worker makes it false, though `tests/test_property.cpp:113` says
  "fleet store accounting never goes invalid".
- Freshness is decided on arrival (`pipeline.hpp:154`) and by nothing later, though the
  README says "Old observations never silently remain current". An agent whose backend
  fails sends heartbeats and no observations; its devices stay in placement.
- `policy.require_core_validation` is never read. A probe whose steps pass but whose
  validation fails as a whole (memory not back at its baseline) is ELIGIBLE, until an
  operator's drain and undrain recompute it from `core_validation_ok`.
- A re-registration replaces the worker's device list by what it enumerated
  (`fleet_state.hpp:447`; `agent.cpp:134-139` sends whatever was enumerated, nothing if that
  failed). A device no longer listed stays fresh and placeable when the worker is lost,
  though `README.md:128-129` says the coordinator "kills a worker as a real OS process, marks
  its observations lost". `FreshKeepsSource` and `PublicationIsAtomic` show that this is the
  only way.
- State reaches the disk only on SAVE: after a restart, quarantines set since are gone
  and incarnations fenced since are authoritative again.
- Two SAVEs on two connections write the same `path.tmp` without a lock
  (`store.hpp:53`); the mixed file can be renamed into place and `start` then refuses to
  run, though `store.hpp:38` says "Save p snapshot to p path atomically".
  `DamageNeedsOverlap` shows that this is the only way.
- With the Windows `rename`, every save but the first removes the store file before
  the second rename (`store.hpp:66`): a crash in between leaves no snapshot under `path`,
  though `store.hpp:11` says "Writes are atomic (temp file + rename)".
- Only the newest incarnation of a worker id is on record (`fleet_state.hpp:148`). Once it is
  fenced or lost, an older process of the id that still runs, fenced before or not,
  registers again and is admitted unfenced, though `README.md:137-138` says "An old
  connection can never regain authority after a newer process incarnation is active".
- A frame or message that cannot be decoded ends the connection thread by `return`
  (`coordinator.cpp:107`, `120`): sound frames behind it are not dispatched, and the worker
  is not marked lost before its heartbeats are overdue.
- An agent learns the epoch only from the answer to HELLO; one that is connected when
  the epoch rolls goes on with the old epoch and is refused until its link breaks.

Change log:

- An undrain is logged as DRAIN_COMPLETED; the loss of a worker, which takes its devices
  away, leaves no record.
- A device that stays missing is logged as disappeared with every batch of its worker
  (`fleet_state.hpp:302`) and pushes everything else out of the log.
- Records name a DeviceId, which is unique only within a host: the newest record of an id
  may be about another host's device. If the ordinals of a host move between two
  incarnations, an id's older records may be about another device of the same host.

Wire and store formats:

- `ByteWriter::string` says of a text over its limit "let the reader treat the truncation
  as corrupt input" (`core/codec.hpp:75-76`); the length written is that of the cut text, so
  readers accept it.
- A message's reason is written up to 65535 bytes and read up to 4096: a longer one makes
  the message undecodable. `encode_frame` does not check the 16 MiB limit either.
- Registrations and snapshots cut device keys at 256 bytes, ingestion uses the whole key:
  a longer key would no longer match its own record.
- A header torn in its length field swallows the frames that follow until the checksum
  fails: the connection looks healthy meanwhile.

Backends:

- The result is refused if `fabs(h_out[i] - ref) > 1e-5f` (`cuda_validation.cpp:114`), which
  is false for NaN: a GPU that returns NaN everywhere is verified and judged healthy,
  though `cuda_validation.hpp:7` says it "verifies against a CPU reference".
- `alloc_ok` is true when only the first buffer could be allocated. The error of the first
  `cudaFree` is overwritten by the second, and up to four leaked buffers fit in the
  tolerance of each probe, with a new baseline each time.
- The driver version is part of the key, so an upgrade, or one failed query, gives a GPU
  a new key and leaves its quarantine with the old one; the NUMA node is not part of it,
  though the comment at `device_identity.hpp:102-106` names it.
- The capabilities "a real CUDA kernel executed" and "round-trip verified" are pushed
  as VALIDATED whatever the validation found (`cuda_backend.cpp:187`; "never fabricated",
  line 156).
- An agent started with `--backend cuda` on a host without CUDA reports a healthy
  synthetic device (`agent.cpp:37`), and all such hosts report the same key.
- The command line's `save` writes a local file instead of sending SAVE
  (`gpufleet.cpp:271`), and its `quarantine` quotes device generation 1, which is stale
  from a device's second batch on (`gpufleet.cpp:201`).

**Bounds.** Two incarnations give a current one and a predecessor, the most the
store distinguishes. Two devices are the least for a batch that is partly applied
or partly missing and for a list that leaves one out; two generations for repeated and
overtaken batches. Three connections let an old one, its successor and a rival's be open
together. With a clock that reaches 2, a threshold of 0 and timestamps 1 and 2, an
observation can be current, too old, ahead of the coordinator, or older than the last one.
The takeover of a device by another worker is in `recovery`, with full lists; takeovers
with short lists are left to the theorems. A log of two records overflows with a single
new device. Two savers are what an overlap takes. The cluster runs have one device, so that
publications of part of a host are covered there by the theorems only. In `framing` the
magic and the tear points are chosen so that a torn header reads as a length that is
too large, one that swallows the next frame and one that fits. In `codec` the scaled
limits are all different, so that no two can be confused, and the values are a typical
one of each format with one field varied, up to each limit and over it. In `cuda` the GPUs
differ in nothing but their address, and foreign memory moves by less and by more than
the tolerance. Every bound
is a named constant (`Max...`), enforced in a guard or in the set of inputs; at
`MaxObsGen` an agent goes on with heartbeats, so that progress is not cut off, and
`DeadGoesDown` exempts heartbeats too late to become overdue before `MaxTime`.
Connections are interchangeable, which is the symmetry `cluster` uses, and so are the two
devices of `one_host`, whose batches come in either order; runs with liveness use none. Deadlock is not checked: at the bounds the models stop, and
a coordinator nobody talks to may rest.

**Fairness.** `FairClusterSpec`: weak fairness for each agent's loop, each
connection thread and `liveness_loop`, and time passes. These are threads that run
until they are stopped, wait with timeouts and hold no lock while they wait, so the
operating system will run them. No fairness for operators, launches, kills, resets or
torn sends: nothing in the code brings those about. A killed agent takes no more steps
because `AgentStep` is disabled, not because it is unfair to it. `FairSpec` of Framing:
weak fairness for the connection thread, none for the sender.

## 4. Proofs

The theorems hold for any workers, incarnations, devices, batches, connections, GPUs,
frames and bounds. The `ASSUME`s of the modules type the constants, say that boot ids are
unique across worker ids, (Framing) that magic, version, types and the payload limit
fit their fields, and (Codec, Exchange) that the bounds of texts keep the order they have
in the code, that values are what the C++ types can hold, and that what follows an
encoding is not empty. A theorem that needs more says so in its own ASSUME:

- `AgentShaped`, for `PublicationsAreAtomic` and `ClusterPublishesWhole`: a batch is of one
  process and has one observation generation for all its devices, as `publish_snapshot`
  builds it. The store does not check this.
- `IsFiniteSet(Devices)`, for `LogTellsTheTruth`: the records of a disappearance pass are one
  per missing device.

No theorem assumes full enumerations, saves one at a time, whole sends or sound links.

**FleetStateProofs** (the store: its invariants, and what a step may never do)

- `TypeCorrect`: `Spec => []TypeOK`. One lemma per operator gives its type.
- `EligibilityIsBacked`: `Spec => []UsableIsBacked`. The invariant is inductive
  with `TypeOK`. `UsableDecision` reads off the decision list what a usable verdict
  implies; `ApplyBacked`, `RecomputeBacked` and `VanishedBacked` lift it to the
  three ways a device state is rewritten.
- `FreshnessKeepsSource`: `Spec => FreshKeepsSource`, for registrations of any length.
  That the step which ends an incarnation's authority takes down all it reported, and that
  an observation is accepted through its own worker's record only, needs that a record
  names one of its worker's incarnations, that a record no longer alive is fenced, and that
  a device's source boot belongs to a worker that has the device. These are `OwnershipInv`.
  Lemma `SourceStep` treats a device that becomes fresh, `LiveSourceStep` one that stays so.
- `FencesHold`: `Spec => FenceHolds`, from `TypeOK` and `OwnershipInv`: a fenced boot cannot be
  reported through another worker's record.
- `GenerationsOnlyAdvance`, `AdminFencesStand`, `UsableOnlyFresh`: `GenerationsAdvance`,
  `AdminFencesHold`, `BecomesUsableOnlyFresh`. They rest on `TypeOK` and on lemmas about
  what an applied, skipped or missing observation does to a device.
- `HostsAreIsolated`: `OtherHostsUntouched`, from `IdsInv` (a record lists devices of its
  own host only).
- `PublicationsAreAtomic`: `PublicationIsAtomic`, with `AgentShaped`. The strengthening is
  `LockstepInv`: the generations of a device move together, so that no batch of the
  current incarnation is stopped half-way. `SameBatch`: after a batch, what it
  observed and whatever else of the incarnation is fresh show the same generation,
  because the disappearance pass takes down what the batch left out.

**HistoryProofs** (saves and restarts, any number of them; the change log)

- `NothingRecoveredIsFresh`, `RecoveredUsableOnlyFresh`: `[]FreshIsReobserved` and
  `BecomesUsableOnlyFresh` for `RecoverySpec`. `RecoveryInv` says of the snapshot on disk
  what holds of the running store, since a restart turns one into the other.
- `RecoveryKeepsEvidence`: `[]UsableIsBacked` and `FreshKeepsSource` for `RecoverySpec`;
  `OwnedAcrossRestarts` is `OwnershipInv` of the store and of the snapshot.
- `LogTellsTheTruth`: `[]LogAgrees`, for batches of any length, any limit and any sharing of
  ids between hosts. The inductive invariant `LogInv` says of every device what
  the last record of each kind made for it is (`Told`); `KnownIsReported`, that the boot of a
  known device is one that has it, ties ids to devices, and `NewestIsLast` turns "newest of
  its id" into "last of its device" where ids are stable. Health is the subtle part: taking
  a device down changes it without a record, so that the log is wrong about an absent
  device and has to be right again when the device returns (the return is a change from
  LOST, and is recorded). The records of a step are concatenations; `CarriesFlatten` shows
  by induction that if each part carries what is said of a device from one state of it to
  the next, so does the whole, and `LastOfSuffix` that dropping the oldest records spoils
  nothing.

**StoreFileProofs** (the steps of a save)

- `StoreFileTypeCorrect`: `Spec => []TypeOK`, with any number of savers.
- `OnlyOverlapDamages`, `ReportedSaveIsStored`: `[]DamageNeedsOverlap` and `[]SavedIsStored`, for
  any number of savers. The inductive invariant `WholeInv` says that as long as nothing
  overlapped at most one save is on the disk, and that `path.tmp` holds that saver's own copy
  from the moment it is closed.

**EvaluatorsProofs** (the decision lists)

- `DecisionsMatchReference`, `ReasonsNameCulprits`, `EvidenceLossOnlyLowers`: the three
  properties of `evaluators`, for every set of bad signals instead of up to four. The
  first and second hold of the operators themselves (`PlaceableMeaning` says what a usable
  verdict means); the third compares a set with one more element.

**CudaBackendProofs** (one process looking at its GPUs)

- `NoBufferIsForgotten`: `[]BuffersReturned`. `HeldInv` says which buffers are held at
  which call.
- `HealthIsEarned`, `KeysAreStable`: `[]HealthyIsEarned` and `[]KeysTellDevicesApart`, from
  `PublicationInv`: what is still to be probed and what has been observed are of
  enumerated GPUs, and a result that passed the comparison was read back from that GPU.

**ClusterProofs** (agents, connections, threads)

- `ClusterTypeCorrect`: `[]ClusterTypeOK`. The inductive invariant `ClusterInv` says what
  is under way: messages on a connection were sent by the process that opened it, with
  generations that process had reached (`SentBy`, `ConnOK`); where an agent stands says
  whether it has a connection and an epoch (`AgentOK`); both ends of a working link agree
  on where the handshake is (`LinkOK`).
- `ClusterImplementsStore`: `ClusterSpec => ImplementsStore`. Every step of the cluster is
  a step of FleetState with inputs FleetState admits, or leaves the store alone. So all
  theorems about `Spec` hold of the store inside the cluster.
- `ClusterPublishesWhole`: through the refinement, with `AgentShaped`, publications of the
  running system do not mix and fresh devices keep their source, whole batches or partial.
  (The corollary `ClusterKeepsPromises` collects what else the store's theorems give.)
- `AgentsStayAhead`: `[]AgentAhead`, from `ClusterInv`.
- `FreshDevicesAreWatched`: `ClusterSpec => WatchIsKept`, with any enumerations and torn
  sends, from `ClusterInv` and, through the refinement, `OwnershipInv`. `BoundStep` says what
  a step does to the connections an incarnation is bound to, `WatchedStep` what follows for
  a device.

**FramingProofs** (the byte stream)

- `SoundSendersAreServed`, `FramingImplementsChannel`: `[]SoundStreamNeverRefused` and
  `Spec => ImplementsChannel`. `FramingInv` describes what is buffered and on the wire: the
  encodings of the frames still to come, one after the other, then nothing, or, once a
  torn or oversized frame was sent, a stream that is `Damaged`. Two arguments carry it.
  `FeedSound`: on a buffer that starts with part of a sound frame, `feed` waits exactly
  until the frame is whole and returns it unchanged (the numbers read are the numbers
  written, `ReadU16`, `ReadU32`). `FeedDamaged`: a checksum that could make `feed` accept a
  damaged stream would have to stand where the header says the frame ends, and cover all
  bytes before it; in a stream that begins with a torn frame every checksum stands too
  late (`DamageLasts`), and an oversized frame's stands beyond the limit.
  Unless the link is cut the thread leaves with nothing undelivered before the first
  undecodable frame, because no whole frame waits in the buffer while it waits for bytes
  (`NoFrameWaits`).

**CodecProofs** (every encoder with its decoder)

- `DecodersInvertEncoders`, `OnlyTextsLoseAnything`, `DecodersRefuseDamage`:
  `[]DecodeInvertsEncode`, `[]OnlyTextsAreCut` and `[]DamagedIsRefused`, for all values the
  C++ types can hold, all bounds in the code's order, every cut and every extension. The
  argument goes bottom up. A read is *framed* by the bytes a write produced (`Framed`) when,
  wherever a buffer holds them, it fails or ends exactly where they end, and
  when it fails if the buffer ends before they do. Numbers and texts are framed
  (`NumberReads`, `TextReads`); reads one after another are (`WalkReads`, by induction over
  their number); hence flat records, lists of them, nested records, blobs and whole
  messages. Each level also says what is read: the value itself, if it fits, and
  otherwise at most a value with cut texts. Last, each of the seven writer lists is
  compared with its reader list field by field (`...Match`: same order, kinds and widths,
  and no text is cut by the writer that the reader would have taken whole). Damage is
  refused because a framed read fails on a cut encoding and ends before what was
  appended, which `Decode` refuses.

**Induction.** The prover cannot instantiate the library's induction principle. Where a
proof needs one, over the parts of a flattened sequence, a chain of reads or a finite
set, the lemma `Induction` gives it in the form the prover can use: a set of naturals
that has 0 and is closed under successor has them all, because a least number outside
(`LeastNatural`, from well-foundedness) would have a predecessor inside.

**Only model-checked:** the liveness properties `DeadGoesDown`, `LaunchedIsObserved` and
`SentIsDispatched` (the prover has no rules for fairness and ENABLED), and `FreshIsWatched`,
which holds for full enumerations and whole sends only; `WatchIsKept` is what is proved
in general. `FramingInv` quantifies over streams, `LogInv` is stated through `Told` and is
checked by `two_hosts` in the form of `LogAgrees`; TLC does not evaluate these two themselves.

## 5. Not modelled

- Accounting, node records and the accepted-observation counter: nothing decides by
  them.
- Socket set-up, the CUDA calls themselves, argument parsing and printing: input and
  output. Capability lists: no coordinator decision reads them under the default policy.
- Damage inside a frame or the store file that keeps its length: the checksum is taken
  as perfect.
- How a boot id is made (`agent.cpp:29`): time, process id and counter mixed with
  exclusive or. That boot ids differ is an assumption (`BootIdsUnique`).
- `CLEAR_QUARANTINE` as two steps (`coordinator.cpp:258`): a roll between them makes it fail
  spuriously, no more.
- Half-open links (a peer that vanishes without a reset): what notices them is the
  heartbeat timeout, which is modelled and shown to suffice after a dropped connection.
- `Coordinator::stop` racing its threads; the coordinator's restart while agents are
  connected.
- Wrap-around of 64-bit generations and clocks.

## 6. Plan

Done: Evaluators, Pipeline, FleetState, ChangeLog, Recovery, StoreFile, Cluster, Framing
with FrameChannel, Codec with WireFormats and Exchange, CudaBackend; a theorem for every
refinement and, but for `FreshIsWatched`, every safety property the runs check. Left:

1. *Cluster*: the coordinator's restart and `stop` with agents connected.
2. *Cluster* with ChangeLog: the log as connection threads of several hosts write it; it
   follows from `LogTellsTheTruth` once the cluster is stated over the store with its log.
