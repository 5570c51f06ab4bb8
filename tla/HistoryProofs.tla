---------------------------- MODULE HistoryProofs ----------------------------
(***************************************************************************)
(* What outlives a step of the fleet store.  First, what the store keeps   *)
(* across any number of crashes and recoveries, whenever snapshots were    *)
(* saved.  Then the change log: what it last says of a device is how the   *)
(* device is.  The records of a batch are concatenations of any length;    *)
(* what they end in is shown by induction, in the form of a least          *)
(* counterexample.                                                         *)
(***************************************************************************)
EXTENDS Recovery, ChangeLog, FleetStateProofs, SequenceTheorems, FiniteSetTheorems,
        WellFoundedInduction

-----------------------------------------------------------------------------
(* What a snapshot on disk satisfies.  OwnedIn is OwnershipInv read off a  *)
(* snapshot's tables.                                                      *)
OwnedIn(ws, ds) ==
  /\ \A w \in Workers :
       /\ ws[w].registered => ws[w].boot \in BootsOf[w]
       /\ ws[w].registered => ws[w].alive \/ ws[w].fenced
       /\ ws[w].fenced => ws[w].registered
  /\ \A d \in Devices, w \in Workers : ds[d].boot \in BootsOf[w] => d \in DevicesOf[w]
  /\ \A d \in Devices : ds[d].fresh => ds[d].known

SoundSnapshot(s) ==
  /\ s.epoch \in 1..MaxEpoch
  /\ s.fleet_gen \in Nat
  /\ s.workers \in [Workers -> WorkerRecord]
  /\ s.devices \in [Devices -> DeviceState]
  /\ \A d \in Devices : Backed(s.devices[d])
  /\ \A d \in Devices : s.devices[d].fresh => s.devices[d].known

(* The inductive invariant: the running store and the snapshot it may come *)
(* back as are both sound, and what is fresh was observed by this process. *)
RecoveryInv ==
  /\ TypeOK
  /\ UsableIsBacked
  /\ \A d \in Devices : devices[d].fresh => devices[d].known /\ d \in observed
  /\ saved # NoFile => SoundSnapshot(saved)

-----------------------------------------------------------------------------
(* restore brings devices back well typed, neither fresh nor usable, and   *)
(* from the source they had.                                               *)
LEMMA RecoveredFields ==
  ASSUME NEW d \in DeviceState, Backed(d), d.fresh => d.known
  PROVE  /\ Recovered(d) \in DeviceState
         /\ ~Recovered(d).fresh
         /\ Recovered(d).elig \notin Usable
         /\ Recovered(d).boot = d.boot
         /\ Recovered(d).known = d.known
<1>1. CASE ~d.known
  <2>1. ~d.fresh /\ d.elig \notin Usable /\ Recovered(d) = d
    BY <1>1 DEF Backed, Recovered
  <2> QED
    BY <2>1
<1>2. CASE d.known
  BY <1>2 DEF Recovered, DeviceState, EligibilityState, EligibilityReason, Usable
<1> QED
  BY <1>1, <1>2

(* A start of the coordinator, from a file or without one, yields a well-  *)
(* typed store in which nothing is fresh and nothing is usable.            *)
LEMMA RestartStep ==
  ASSUME RecoveryInv, Restart
  PROVE  /\ TypeOK'
         /\ \A d \in Devices : ~devices'[d].fresh /\ devices'[d].elig \notin Usable
<1>1. CASE /\ epoch' = 1 /\ fleet_gen' = 1
           /\ workers' = [w \in Workers |-> NoWorker]
           /\ devices' = [d \in Devices |-> NewDevice]
           /\ UNCHANGED now
  <2>1. NoWorker \in WorkerRecord
    BY DEF NoWorker, WorkerRecord, kInvalidTimestamp
  <2>2. NewDevice \in DeviceState /\ ~NewDevice.fresh /\ NewDevice.elig \notin Usable
    BY DEF NewDevice, DeviceState, HealthState, EligibilityState, EligibilityReason,
           DrainState, kInvalidTimestamp, Usable
  <2> QED
    BY <1>1, <2>1, <2>2, ConstantsAssumption DEF RecoveryInv, TypeOK
<1>2. CASE saved # NoFile /\ Restore(saved)
  <2>1. SoundSnapshot(saved)
    BY <1>2 DEF RecoveryInv
  <2>2. ASSUME NEW d \in Devices
        PROVE  /\ Recovered(saved.devices[d]) \in DeviceState
               /\ ~Recovered(saved.devices[d]).fresh
               /\ Recovered(saved.devices[d]).elig \notin Usable
    BY <2>1, RecoveredFields DEF SoundSnapshot
  <2>3. devices' = [d \in Devices |-> Recovered(saved.devices[d])]
    BY <1>2 DEF Restore
  <2>4. epoch' \in 1..MaxEpoch /\ fleet_gen' \in Nat /\ workers' \in [Workers -> WorkerRecord]
        /\ now' \in 1..MaxTime
    BY <1>2, <2>1 DEF Restore, SoundSnapshot, RecoveryInv, TypeOK
  <2> QED
    BY <2>2, <2>3, <2>4 DEF TypeOK
<1> QED
  BY <1>1, <1>2 DEF Restart

(* Every other step is a step of the store.                                *)
LEMMA StoreOrRestart ==
  ASSUME [RecoveryNext]_recoveryVars
  PROVE  Restart \/ [Next]_vars
BY DEF RecoveryNext, Operate, SaveState, recoveryVars

(* The invariant holds in a new installation.                              *)
LEMMA RecoveryInvInit == RecoveryInit => RecoveryInv
<1> SUFFICES ASSUME RecoveryInit PROVE RecoveryInv
  OBVIOUS
<1>1. TypeOK
  BY TypeInit DEF RecoveryInit
<1> QED
  BY <1>1 DEF RecoveryInit, RecoveryInv, Init, UsableIsBacked, Backed, NewDevice, Usable

(* Operations, saves, crashes and recoveries preserve it.                  *)
LEMMA RecoveryInvStep == RecoveryInv /\ [RecoveryNext]_recoveryVars => RecoveryInv'
<1> SUFFICES ASSUME RecoveryInv, [RecoveryNext]_recoveryVars PROVE RecoveryInv'
  OBVIOUS
<1>1. CASE Restart
  <2>1. saved' = saved /\ observed' = {}
    BY <1>1 DEF Restart
  <2>2. UsableIsBacked' /\ \A d \in Devices : ~devices'[d].fresh
    BY <1>1, RestartStep DEF UsableIsBacked, Backed
  <2>3. (saved # NoFile => SoundSnapshot(saved))'
    BY <2>1 DEF RecoveryInv, SoundSnapshot
  <2> QED
    BY <1>1, <2>2, <2>3, RestartStep DEF RecoveryInv
<1>2. CASE [Next]_vars /\ ~Restart
  <2>1. TypeOK' /\ UsableIsBacked'
    BY <1>2, TypeStep, BackedStep DEF RecoveryInv
  <2>2. ASSUME NEW d \in Devices, devices'[d].fresh PROVE devices'[d].known /\ d \in observed'
    <3>1. observed \subseteq observed'
      BY <1>2 DEF RecoveryNext, Operate, SaveState, recoveryVars
    <3>2. CASE \E w \in Workers, obs \in Batches :
                 IngestSnapshot(w, obs) /\ d \in AppliedDevices(w, obs)
      <4>1. PICK w \in Workers, obs \in Batches :
              IngestSnapshot(w, obs) /\ d \in AppliedDevices(w, obs)
        BY <3>2
      <4>2. devices'[d].known
        BY <4>1, IngestSource DEF RecoveryInv
      <4>3. CASE Operate
        BY <4>1, <4>2, <4>3 DEF Operate
      <4>4. CASE UNCHANGED vars
        BY <2>2, <3>1, <4>2, <4>4 DEF RecoveryInv, vars
      <4> QED
        BY <1>2, <4>3, <4>4 DEF RecoveryNext, SaveState, recoveryVars
    <3>3. CASE ~ \E w \in Workers, obs \in Batches :
                 IngestSnapshot(w, obs) /\ d \in AppliedDevices(w, obs)
      BY <1>2, <2>2, <3>1, <3>3, DeviceStep DEF RecoveryInv
    <3> QED
      BY <3>2, <3>3
  <2>3. CASE SaveState
    <3>1. saved' = snapshot
      BY <2>3 DEF SaveState
    <3>2. SoundSnapshot(snapshot)
      BY DEF RecoveryInv, TypeOK, UsableIsBacked, SoundSnapshot, snapshot
    <3>3. (saved # NoFile => SoundSnapshot(saved))'
      BY <3>1, <3>2 DEF SoundSnapshot
    <3> QED
      BY <2>1, <2>2, <3>3 DEF RecoveryInv
  <2>4. CASE saved' = saved
    <3>1. (saved # NoFile => SoundSnapshot(saved))'
      BY <2>4 DEF RecoveryInv, SoundSnapshot
    <3> QED
      BY <2>1, <2>2, <3>1 DEF RecoveryInv
  <2> QED
    BY <1>2, <2>3, <2>4 DEF RecoveryNext, Operate, recoveryVars
<1> QED
  BY <1>1, <1>2, StoreOrRestart

(* So both the store and its file are sound in every reachable state.      *)
LEMMA RecoveryInvariant == RecoverySpec => []RecoveryInv
BY RecoveryInvInit, RecoveryInvStep, PTL DEF RecoverySpec

-----------------------------------------------------------------------------
(* However saves and restarts fall between operations, a device is fresh   *)
(* or usable only if the running process accepted an observation of it: no *)
(* recovered observation is revived by an operator or by a worker.         *)
THEOREM NothingRecoveredIsFresh == RecoverySpec => []FreshIsReobserved
<1>1. RecoveryInv => FreshIsReobserved
  BY DEF RecoveryInv, FreshIsReobserved, UsableIsBacked, Backed
<1> QED
  BY <1>1, RecoveryInvariant, PTL

(* Across restarts, too, a device enters placement only on a young, ordered*)
(* observation.                                                            *)
THEOREM RecoveredUsableOnlyFresh == RecoverySpec => BecomesUsableOnlyFresh
<1> DEFINE Becomes == \A d \in Devices :
             devices[d].elig \notin Usable /\ devices'[d].elig \in Usable =>
               \/ devices[d].fresh /\ devices'[d].obs_gen = devices[d].obs_gen
               \/ /\ devices'[d].last_observed_at # kInvalidTimestamp
                  /\ devices'[d].last_observed_at >= devices[d].last_observed_at
                  /\ now - devices'[d].last_observed_at <= freshness_threshold
<1>1. RecoveryInv /\ [RecoveryNext]_recoveryVars => [Becomes]_vars
  <2> SUFFICES ASSUME RecoveryInv, [RecoveryNext]_recoveryVars PROVE Becomes
    OBVIOUS
  <2>1. CASE Restart
    BY <2>1, RestartStep
  <2>2. CASE [Next]_vars
    BY <2>2, UsableStep DEF RecoveryInv
  <2> QED
    BY <2>1, <2>2, StoreOrRestart
<1> HIDE DEF Becomes
<1>2. RecoverySpec => [][Becomes]_vars
  BY <1>1, RecoveryInvariant, PTL DEF RecoverySpec
<1> QED
  BY <1>2 DEF BecomesUsableOnlyFresh, Becomes

-----------------------------------------------------------------------------
(* Sources across restarts *)

(* The snapshot on disk respects ownership as the running store does.      *)
OwnedAcrossRestarts ==
  /\ OwnershipInv
  /\ saved # NoFile => OwnedIn(saved.workers, saved.devices)

(* Workers come back with the authority they had when they were saved.     *)
LEMMA OwnedRestart ==
  ASSUME RecoveryInv, OwnedAcrossRestarts, Restart
  PROVE  OwnershipInv'
<1>1. CASE /\ workers' = [w \in Workers |-> NoWorker]
           /\ devices' = [d \in Devices |-> NewDevice]
  <2>1. ASSUME NEW w \in Workers PROVE 0 \notin BootsOf[w]
    BY ConstantsAssumption
  <2> QED
    BY <1>1, <2>1 DEF OwnershipInv, NoWorker, NewDevice
<1>2. CASE saved # NoFile /\ Restore(saved)
  <2>1. SoundSnapshot(saved) /\ OwnedIn(saved.workers, saved.devices)
    BY <1>2 DEF RecoveryInv, OwnedAcrossRestarts
  <2>2. workers' = saved.workers
    BY <1>2 DEF Restore
  <2>3. ASSUME NEW d \in Devices
        PROVE  devices'[d].boot = saved.devices[d].boot /\ ~devices'[d].fresh
    BY <1>2, <2>1, RecoveredFields DEF Restore, SoundSnapshot
  <2> QED
    BY <2>1, <2>2, <2>3 DEF OwnershipInv, OwnedIn
<1> QED
  BY <1>1, <1>2 DEF Restart

(* The store owns its devices properly in every state, restarts included.  *)
LEMMA OwnedInvariant == RecoverySpec => [](RecoveryInv /\ OwnedAcrossRestarts)
<1>1. RecoveryInit => OwnedAcrossRestarts
  <2>1. ASSUME NEW w \in Workers PROVE 0 \notin BootsOf[w]
    BY ConstantsAssumption
  <2> QED
    BY <2>1 DEF RecoveryInit, Init, OwnershipInv, OwnedAcrossRestarts, NoWorker, NewDevice
<1>2. RecoveryInv /\ OwnedAcrossRestarts /\ [RecoveryNext]_recoveryVars => OwnedAcrossRestarts'
  <2> SUFFICES ASSUME RecoveryInv, OwnedAcrossRestarts, [RecoveryNext]_recoveryVars
               PROVE  OwnedAcrossRestarts'
    OBVIOUS
  <2>1. OwnershipInv'
    <3>1. CASE Restart
      BY <3>1, OwnedRestart
    <3>2. CASE [Next]_vars
      BY <3>2, OwnershipStep DEF RecoveryInv, OwnedAcrossRestarts
    <3> QED
      BY <3>1, <3>2, StoreOrRestart
  <2>2. CASE saved' = saved
    BY <2>1, <2>2 DEF OwnedAcrossRestarts, OwnedIn
  <2>3. CASE SaveState
    <3>1. saved' = snapshot
      BY <2>3 DEF SaveState
    <3>2. OwnedIn(snapshot.workers, snapshot.devices)
      BY DEF OwnedAcrossRestarts, OwnershipInv, OwnedIn, snapshot
    <3> QED
      BY <2>1, <3>1, <3>2 DEF OwnedAcrossRestarts, OwnedIn
  <2> QED
    BY <2>1, <2>2, <2>3 DEF RecoveryNext, Operate, Restart, recoveryVars
<1> QED
  BY <1>1, <1>2, RecoveryInvariant, PTL DEF RecoverySpec

(* What the store guarantees of its own operations, a recovered store      *)
(* guarantees too, whatever devices its agents enumerate: every usable     *)
(* device is backed by evidence, and no step, not even a restart, leaves a *)
(* fresh device without the live incarnation that reported it unless that  *)
(* incarnation's own list dropped it.                                      *)
THEOREM RecoveryKeepsEvidence == RecoverySpec => []UsableIsBacked /\ FreshKeepsSource
<1> DEFINE Keeps == \A d \in Devices :
             devices'[d].fresh /\ (devices[d].fresh => HasSource(d))
               => HasSource(d)' \/ Overlooked(d)'
<1>1. RecoveryInv /\ OwnedAcrossRestarts /\ [RecoveryNext]_recoveryVars => [Keeps]_vars
  <2> SUFFICES ASSUME RecoveryInv, OwnedAcrossRestarts, [RecoveryNext]_recoveryVars
               PROVE  Keeps
    OBVIOUS
  <2>1. CASE Restart
    BY <2>1, RestartStep
  <2>2. CASE [Next]_vars
    BY <2>2, LiveSourceStep DEF RecoveryInv, OwnedAcrossRestarts
  <2> QED
    BY <2>1, <2>2, StoreOrRestart
<1> HIDE DEF Keeps
<1>2. RecoverySpec => [][Keeps]_vars
  BY <1>1, OwnedInvariant, PTL DEF RecoverySpec
<1>3. RecoverySpec => FreshKeepsSource
  BY <1>2 DEF FreshKeepsSource, Keeps
<1>4. RecoveryInv => UsableIsBacked
  BY DEF RecoveryInv
<1> QED
  BY <1>3, <1>4, RecoveryInvariant, PTL

-----------------------------------------------------------------------------
(* Induction, and the prefixes of a flattened sequence *)

(* A set of naturals that is not empty has a least element.                *)
LEMMA LeastNatural ==
  ASSUME NEW T \in SUBSET Nat, T # {}
  PROVE  \E x \in T : \A y \in T : x <= y
<1> DEFINE R == {ss \in Nat \X Nat : ss[1] < ss[2]}
<1>1. IsWellFoundedOn(R, Nat)
  BY NatLessThanWellFounded DEF OpToRel
<1>2. PICK x \in T : \A y \in T : ~ (<<y, x>> \in R)
  BY <1>1, WFMin
<1>3. ASSUME NEW y \in T PROVE x <= y
  <2>1. x \in Nat /\ y \in Nat /\ ~(y < x)
    BY <1>2
  <2> QED
    BY <2>1
<1> QED
  BY <1>3

(* Induction over a set of naturals.                                       *)
LEMMA Induction ==
  ASSUME NEW S, 0 \in S, \A n \in Nat : n \in S => n + 1 \in S
  PROVE  \A n \in Nat : n \in S
<1> SUFFICES ASSUME \E n \in Nat : n \notin S PROVE FALSE
  OBVIOUS
<1>1. PICK x \in Nat \ S : \A y \in Nat \ S : x <= y
  BY LeastNatural
<1>2. x - 1 \in Nat /\ x - 1 \in S
  BY <1>1
<1> QED
  BY <1>1, <1>2

-----------------------------------------------------------------------------
(* Flattening: the recursion of FlattenSeq, for the prefixes of ss.        *)
Flattens(f, ss, n) ==
  f = [i \in 1..n |-> IF i = 1 THEN ss[i] ELSE f[i - 1] \o ss[i]]

LEMMA FlattenExists ==
  ASSUME NEW ss, NEW n \in Nat
  PROVE  \E f : Flattens(f, ss, n)
<1> DEFINE S == {m \in Nat : \E f : Flattens(f, ss, m)}
<1>1. 0 \in S
  <2> DEFINE f == [i \in 1..0 |-> <<>>]
  <2>1. Flattens(f, ss, 0)
    BY DEF Flattens
  <2> QED
    BY <2>1
<1>2. ASSUME NEW m \in Nat, m \in S PROVE m + 1 \in S
  <2>1. PICK f : Flattens(f, ss, m)
    BY <1>2
  <2> DEFINE last == IF m + 1 = 1 THEN ss[m + 1] ELSE f[m] \o ss[m + 1]
             g == [i \in 1..(m + 1) |-> IF i <= m THEN f[i] ELSE last]
  <2>2. \A i \in 1..m : f[i] = IF i = 1 THEN ss[i] ELSE f[i - 1] \o ss[i]
    BY <2>1 DEF Flattens
  <2> HIDE DEF last
  <2>3. \A i \in 1..m : g[i] = f[i]
    OBVIOUS
  <2>4. ASSUME NEW i \in 1..(m + 1)
        PROVE  g[i] = IF i = 1 THEN ss[i] ELSE g[i - 1] \o ss[i]
    <3>1. CASE i <= m
      <4>1. i \in 1..m /\ (i # 1 => i - 1 \in 1..m)
        BY <3>1
      <4> QED
        BY <2>2, <2>3, <4>1
    <3>2. CASE ~(i <= m)
      <4>1. i = m + 1 /\ (i # 1 => m \in 1..m /\ i - 1 = m)
        BY <3>2
      <4>2. g[i] = last
        BY <3>2
      <4> QED
        BY <2>3, <4>1, <4>2 DEF last
    <3> QED
      BY <3>1, <3>2
  <2>5. g = [i \in 1..(m + 1) |-> IF i = 1 THEN ss[i] ELSE g[i - 1] \o ss[i]]
    <3> DEFINE h == [i \in 1..(m + 1) |-> IF i = 1 THEN ss[i] ELSE g[i - 1] \o ss[i]]
    <3>1. \A i \in 1..(m + 1) : g[i] = h[i]
      BY <2>4
    <3>2. DOMAIN g = 1..(m + 1) /\ DOMAIN h = 1..(m + 1)
      OBVIOUS
    <3>3. g = [i \in 1..(m + 1) |-> g[i]] /\ h = [i \in 1..(m + 1) |-> h[i]]
      OBVIOUS
    <3> HIDE DEF g, h
    <3>4. g = h
      BY <3>1, <3>3
    <3> QED
      BY <3>4 DEF h
  <2>6. Flattens(g, ss, m + 1)
    BY <2>5 DEF Flattens
  <2> QED
    BY <2>6
<1> HIDE DEF S
<1>3. n \in S
  BY <1>1, <1>2, Induction
<1> QED
  BY <1>3 DEF S

(* FlattenSeq is the last of the prefixes.                                 *)
LEMMA FlattenIs ==
  ASSUME NEW ss, Len(ss) \in Nat \ {0}
  PROVE  \E f : Flattens(f, ss, Len(ss)) /\ FlattenSeq(ss) = f[Len(ss)]
<1> DEFINE f == CHOOSE g : g = [i \in 1..Len(ss) |-> IF i = 1 THEN ss[i] ELSE g[i - 1] \o ss[i]]
<1>1. Flattens(f, ss, Len(ss))
  <2>1. \E g : g = [i \in 1..Len(ss) |-> IF i = 1 THEN ss[i] ELSE g[i - 1] \o ss[i]]
    BY FlattenExists DEF Flattens
  <2> QED
    BY <2>1, ZenonT(60) DEF Flattens
<1>2. FlattenSeq(ss) = f[Len(ss)]
  BY DEF FlattenSeq
<1> QED
  BY <1>1, <1>2, ZenonT(60)

-----------------------------------------------------------------------------
(* What a sequence of records says last about one device and some kinds.   *)

About(r, d, kinds) == r.dev = d /\ r.kind \in kinds

Silent(s, d, kinds) == \A i \in 1..Len(s) : ~About(s[i], d, kinds)

LastSays(s, d, kinds, v) ==
  \A i \in 1..Len(s) :
    About(s[i], d, kinds) /\ (\A j \in (i + 1)..Len(s) : ~About(s[j], d, kinds)) => s[i].to = v

(* The records carry the device from u to v: they end in v, or there are   *)
(* none and u is v already.                                                *)
Carries(s, d, kinds, u, v) ==
  LastSays(s, d, kinds, v) /\ (Silent(s, d, kinds) => u = v)

(* Records appended to a log that says u leave one that says v.            *)
LEMMA LastOfConcat ==
  ASSUME NEW S, NEW s \in Seq(S), NEW t \in Seq(S), NEW d, NEW kinds, NEW u, NEW v,
         LastSays(s, d, kinds, u), Carries(t, d, kinds, u, v)
  PROVE  LastSays(s \o t, d, kinds, v)
<1> DEFINE c == s \o t
           A(r) == About(r, d, kinds)
<1>1. /\ Len(s) \in Nat /\ Len(t) \in Nat /\ Len(c) = Len(s) + Len(t)
      /\ \A i \in 1..Len(s) : c[i] = s[i]
      /\ \A i \in 1..Len(t) : c[Len(s) + i] = t[i]
  <2>1. /\ Len(s) \in Nat /\ Len(t) \in Nat /\ Len(c) = Len(s) + Len(t)
        /\ \A i \in 1..(Len(s) + Len(t)) : c[i] = IF i <= Len(s) THEN s[i] ELSE t[i - Len(s)]
    BY ConcatProperties, LenProperties
  <2> QED
    BY <2>1
<1> HIDE DEF c
<1> SUFFICES ASSUME NEW i \in 1..Len(c), A(c[i]), \A j \in (i + 1)..Len(c) : ~A(c[j])
             PROVE  c[i].to = v
  BY DEF LastSays, c
<1>2. CASE i <= Len(s)
  <2>1. i \in 1..Len(s) /\ c[i] = s[i]
    BY <1>1, <1>2
  <2>2. ASSUME NEW j \in (i + 1)..Len(s) PROVE ~A(s[j])
    BY <1>1, <2>1
  <2>3. s[i].to = u
    BY <2>1, <2>2 DEF LastSays
  <2>4. ASSUME NEW j \in 1..Len(t) PROVE ~A(t[j])
    <3>1. Len(s) + j \in (i + 1)..Len(c) /\ c[Len(s) + j] = t[j]
      BY <1>1, <2>1
    <3> QED
      BY <3>1
  <2> QED
    BY <2>1, <2>3, <2>4 DEF Carries, Silent
<1>3. CASE ~(i <= Len(s))
  <2> DEFINE k == i - Len(s)
  <2>1. k \in 1..Len(t) /\ c[i] = t[k]
    <3>1. k \in 1..Len(t) /\ Len(s) + k = i
      BY <1>1, <1>3
    <3> QED
      BY <1>1, <3>1
  <2>2. ASSUME NEW j \in (k + 1)..Len(t) PROVE ~A(t[j])
    <3>1. Len(s) + j \in (i + 1)..Len(c) /\ j \in 1..Len(t)
      BY <1>1, <2>1
    <3> QED
      BY <1>1, <3>1
  <2> QED
    BY <2>1, <2>2 DEF Carries, LastSays
<1> QED
  BY <1>2, <1>3

LEMMA CarriesConcat ==
  ASSUME NEW S, NEW s \in Seq(S), NEW t \in Seq(S), NEW d, NEW kinds, NEW u, NEW v, NEW w,
         Carries(s, d, kinds, u, v), Carries(t, d, kinds, v, w)
  PROVE  Carries(s \o t, d, kinds, u, w)
<1>1. LastSays(s \o t, d, kinds, w)
  BY LastOfConcat DEF Carries
<1>2. ASSUME Silent(s \o t, d, kinds) PROVE u = w
  <2>1. /\ Len(s) \in Nat /\ Len(t) \in Nat /\ Len(s \o t) = Len(s) + Len(t)
        /\ \A i \in 1..(Len(s) + Len(t)) :
             (s \o t)[i] = IF i <= Len(s) THEN s[i] ELSE t[i - Len(s)]
    BY ConcatProperties, LenProperties
  <2>2. ASSUME NEW i \in 1..Len(s) PROVE ~About(s[i], d, kinds)
    BY <1>2, <2>1 DEF Silent
  <2>3. ASSUME NEW i \in 1..Len(t) PROVE ~About(t[i], d, kinds)
    <3>1. Len(s) + i \in 1..(Len(s) + Len(t)) /\ ~(Len(s) + i <= Len(s)) /\ (Len(s) + i) - Len(s) = i
      BY <2>1
    <3>2. (s \o t)[Len(s) + i] = t[i]
      BY <2>1, <3>1
    <3> QED
      BY <1>2, <2>1, <3>1, <3>2 DEF Silent
  <2> QED
    BY <2>2, <2>3 DEF Silent, Carries
<1> QED
  BY <1>1, <1>2 DEF Carries

(* Dropping the oldest records takes nothing away from what is said last.  *)
LEMMA LastOfSuffix ==
  ASSUME NEW S, NEW s \in Seq(S), NEW k \in 0..Len(s), NEW d, NEW kinds, NEW v,
         LastSays(s, d, kinds, v)
  PROVE  LastSays(SubSeq(s, k + 1, Len(s)), d, kinds, v)
<1> DEFINE n == Len(s)
           t == SubSeq(s, k + 1, n)
<1>1. n \in Nat /\ k \in Nat /\ k <= n /\ \A i \in (k + 1)..n : s[i] \in S
  BY LenProperties, ElementOfSeq
<1>2. Len(t) = n - k /\ \A i \in 1..(n - k) : t[i] = s[k + i]
  <2>1. /\ Len(t) = IF k + 1 <= n THEN n - (k + 1) + 1 ELSE 0
        /\ \A i \in 1..(n - (k + 1) + 1) : t[i] = s[(k + 1) + i - 1]
    BY <1>1, SubSeqProperties
  <2> HIDE DEF t
  <2>2. Len(t) = n - k
    BY <1>1, <2>1
  <2>3. ASSUME NEW i \in 1..(n - k) PROVE t[i] = s[k + i]
    <3>1. i \in 1..(n - (k + 1) + 1) /\ (k + 1) + i - 1 = k + i
      BY <1>1
    <3>2. t[i] = s[(k + 1) + i - 1]
      BY <2>1, <3>1
    <3> QED
      BY <3>1, <3>2
  <2> QED
    BY <2>2, <2>3
<1> HIDE DEF t
<1> SUFFICES ASSUME NEW i \in 1..Len(t), About(t[i], d, kinds),
                    \A j \in (i + 1)..Len(t) : ~About(t[j], d, kinds)
             PROVE  t[i].to = v
  BY DEF LastSays, t
<1>3. k + i \in 1..n /\ t[i] = s[k + i]
  BY <1>1, <1>2
<1>4. ASSUME NEW j \in (k + i + 1)..n PROVE ~About(s[j], d, kinds)
  <2>1. j - k \in (i + 1)..Len(t) /\ j - k \in 1..(n - k) /\ k + (j - k) = j
    BY <1>1, <1>2
  <2> QED
    BY <1>2, <2>1
<1> QED
  BY <1>3, <1>4 DEF LastSays

(* Sequences that hand a value on, flattened, carry the first to the last. *)
LEMMA CarriesFlatten ==
  ASSUME NEW S, NEW ss \in Seq(Seq(S)), NEW d, NEW kinds, NEW val,
         \A i \in 1..Len(ss) : Carries(ss[i], d, kinds, val[i - 1], val[i])
  PROVE  FlattenSeq(ss) \in Seq(S) /\ Carries(FlattenSeq(ss), d, kinds, val[0], val[Len(ss)])
<1> DEFINE n == Len(ss)
<1>1. n \in Nat /\ \A i \in 1..n : ss[i] \in Seq(S)
  BY LenProperties, ElementOfSeq
<1>2. CASE n = 0
  <2>1. ss = <<>> /\ FlattenSeq(ss) = ss
    BY <1>2, EmptySeq DEF FlattenSeq
  <2>2. Len(ss) = 0 /\ 1..Len(ss) = {}
    BY <1>2
  <2> QED
    BY <1>2, <2>1, <2>2, EmptySeq DEF Carries, LastSays, Silent
<1>3. CASE n # 0
  <2>1. PICK f : Flattens(f, ss, n) /\ FlattenSeq(ss) = f[n]
    BY <1>1, <1>3, FlattenIs
  <2>2. \A i \in 1..n : f[i] = IF i = 1 THEN ss[i] ELSE f[i - 1] \o ss[i]
    BY <2>1 DEF Flattens
  <2> DEFINE Good(i) == f[i] \in Seq(S) /\ Carries(f[i], d, kinds, val[0], val[i])
             G == {m \in Nat : m \in 1..n => Good(m)}
  <2>3. 0 \in G
    OBVIOUS
  <2>4. ASSUME NEW m \in Nat, m \in G PROVE m + 1 \in G
    <3> SUFFICES ASSUME m + 1 \in 1..n PROVE Good(m + 1)
      OBVIOUS
    <3>1. ss[m + 1] \in Seq(S) /\ Carries(ss[m + 1], d, kinds, val[m], val[m + 1])
      <4>1. (m + 1) - 1 = m
        OBVIOUS
      <4> QED
        BY <1>1, <4>1
    <3>2. CASE m = 0
      <4>1. f[m + 1] = ss[m + 1]
        BY <2>2, <3>2
      <4> QED
        BY <3>1, <3>2, <4>1
    <3>3. CASE m # 0
      <4>1. m \in 1..n /\ m + 1 # 1 /\ (m + 1) - 1 = m
        BY <1>1, <3>3
      <4>2. f[m + 1] = f[m] \o ss[m + 1]
        BY <2>2, <4>1
      <4>3. f[m] \in Seq(S) /\ Carries(f[m], d, kinds, val[0], val[m])
        BY <2>4, <4>1
      <4>4. f[m] \o ss[m + 1] \in Seq(S)
        BY <3>1, <4>3, ConcatProperties
      <4> QED
        BY <3>1, <4>2, <4>3, <4>4, CarriesConcat
    <3> QED
      BY <3>2, <3>3
  <2> HIDE DEF G
  <2>5. n \in G
    BY <1>1, <2>3, <2>4, Induction
  <2> QED
    BY <1>1, <1>3, <2>1, <2>5 DEF G
<1> QED
  BY <1>2, <1>3

-----------------------------------------------------------------------------
(* The records there are.                                                  *)

LogKind == {"DEVICE_APPEARED", "DEVICE_DISAPPEARED", "IDENTITY_CHANGED",
            "DRIVER_RUNTIME_CHANGED", "MEMORY_CAPACITY_CHANGED", "HEALTH_CHANGED",
            "CAPABILITY_CHANGED", "ELIGIBILITY_CHANGED", "WORKER_RESTARTED",
            "OBSERVATION_STALE", "DRAIN_INITIATED", "DRAIN_COMPLETED",
            "QUARANTINE_APPLIED", "QUARANTINE_CLEARED"}

LogValue == {"present", "absent", "new", "stale", "true", "false"} \cup HealthState
              \cup EligibilityState \cup DrainState \cup Boots \cup {0}

(* The ids a device may be filed under.                                    *)
IdsOf(d) == {DeviceIdOf[b][d] : b \in Reporters(d)}

LogRecord == {r \in [kind : LogKind, device_id : Nat, dev : Devices, to : LogValue] :
                r.device_id \in IdsOf(r.dev)}

(* One axis of the diff: it carries u to v if its record says v, or if it  *)
(* has no record about the device and u is v.                              *)
LEMMA AxisCarries ==
  ASSUME NEW c \in BOOLEAN, NEW kind \in LogKind, NEW e \in Devices, NEW id \in IdsOf(e),
         NEW to \in LogValue,
         NEW d, NEW kinds, NEW u, NEW v,
         c /\ e = d /\ kind \in kinds => to = v,
         ~(c /\ e = d /\ kind \in kinds) => u = v
  PROVE  /\ When(c, ChangeRecord(kind, id, e, to)) \in Seq(LogRecord)
         /\ Carries(When(c, ChangeRecord(kind, id, e, to)), d, kinds, u, v)
<1> DEFINE r == [kind |-> kind, device_id |-> id, dev |-> e, to |-> to]
<1>1. r \in LogRecord
  BY ChangeLogAssumption DEF LogRecord, IdsOf
<1>2. CASE c
  <2>1. When(c, ChangeRecord(kind, id, e, to)) = <<r>>
    BY <1>2 DEF When, ChangeRecord
  <2>2. <<r>> \in Seq(LogRecord) /\ Len(<<r>>) = 1 /\ <<r>>[1] = r
    BY <1>1
  <2>3. About(r, d, kinds) <=> e = d /\ kind \in kinds
    BY DEF About
  <2>4. About(r, d, kinds) => r.to = v
    BY <1>2, <2>3
  <2>5. ~About(r, d, kinds) => u = v
    BY <1>2, <2>3
  <2> HIDE DEF r
  <2>6. Carries(<<r>>, d, kinds, u, v)
    BY <2>2, <2>4, <2>5 DEF Carries, LastSays, Silent
  <2> QED
    BY <2>1, <2>2, <2>6
<1>3. CASE ~c
  <2>1. When(c, ChangeRecord(kind, id, e, to)) = <<>>
    BY <1>3 DEF When
  <2>2. <<>> \in Seq(LogRecord) /\ Len(<<>>) = 0
    OBVIOUS
  <2>3. u = v
    BY <1>3
  <2>4. Carries(<<>>, d, kinds, u, v)
    BY <2>2, <2>3 DEF Carries, LastSays, Silent
  <2> QED
    BY <2>1, <2>2, <2>4
<1> QED
  BY <1>2, <1>3

(* The axes as a table.                                                    *)
LEMMA AxesLength ==
  ASSUME NEW prior, NEW cand, NEW other
  PROVE  Len(Axes(prior, cand, other)) = 14
BY DEF Axes

LEMMA AxesTyped ==
  ASSUME NEW prior \in DeviceState, NEW cand \in DeviceState, NEW other
  PROVE  /\ Len(Axes(prior, cand, other)) = 14
         /\ \A i \in 1..14 : /\ Axes(prior, cand, other)[i].kind \in LogKind
                             /\ Axes(prior, cand, other)[i].changed \in BOOLEAN
                             /\ Axes(prior, cand, other)[i].to \in LogValue
<1> DEFINE axes == Axes(prior, cand, other)
           T == [kind : LogKind, changed : BOOLEAN, to : LogValue]
<1>1. /\ cand.health \in LogValue /\ cand.elig \in LogValue /\ cand.drain \in LogValue
      /\ cand.boot \in LogValue
      /\ {"present", "absent", "new", "stale", "true", "false"} \subseteq LogValue
  BY DEF LogValue, DeviceState
<1>2. axes[1] \in T
  <2>1. "DEVICE_APPEARED" \in LogKind /\ (~prior.present /\ cand.present) \in BOOLEAN
    BY DEF LogKind
  <2>2. axes[1] = Axis("DEVICE_APPEARED", ~prior.present /\ cand.present, "present")
    BY DEF Axes
  <2> QED
    BY <1>1, <2>1, <2>2 DEF Axis
<1>3. axes[2] \in T
  <2>1. "DEVICE_DISAPPEARED" \in LogKind /\ (prior.present /\ ~cand.present) \in BOOLEAN
    BY DEF LogKind
  <2>2. axes[2] = Axis("DEVICE_DISAPPEARED", prior.present /\ ~cand.present, "absent")
    BY DEF Axes
  <2> QED
    BY <1>1, <2>1, <2>2 DEF Axis
<1>4. axes[3] \in T
  <2>1. "IDENTITY_CHANGED" \in LogKind /\ (~prior.known \/ "IDENTITY_CHANGED" \in other) \in BOOLEAN
    BY DEF LogKind
  <2>2. axes[3] = Axis("IDENTITY_CHANGED", ~prior.known \/ "IDENTITY_CHANGED" \in other, "new")
    BY DEF Axes
  <2> QED
    BY <1>1, <2>1, <2>2 DEF Axis
<1>5. axes[4] \in T
  <2>1. "DRIVER_RUNTIME_CHANGED" \in LogKind /\ ("DRIVER_RUNTIME_CHANGED" \in other) \in BOOLEAN
    BY DEF LogKind
  <2>2. axes[4] = Axis("DRIVER_RUNTIME_CHANGED", "DRIVER_RUNTIME_CHANGED" \in other, "new")
    BY DEF Axes
  <2> QED
    BY <1>1, <2>1, <2>2 DEF Axis
<1>6. axes[5] \in T
  <2>1. "MEMORY_CAPACITY_CHANGED" \in LogKind /\ ("MEMORY_CAPACITY_CHANGED" \in other) \in BOOLEAN
    BY DEF LogKind
  <2>2. axes[5] = Axis("MEMORY_CAPACITY_CHANGED", "MEMORY_CAPACITY_CHANGED" \in other, "new")
    BY DEF Axes
  <2> QED
    BY <1>1, <2>1, <2>2 DEF Axis
<1>7. axes[6] \in T
  <2>1. "HEALTH_CHANGED" \in LogKind /\ (prior.health # cand.health) \in BOOLEAN
    BY DEF LogKind
  <2>2. axes[6] = Axis("HEALTH_CHANGED", prior.health # cand.health, cand.health)
    BY DEF Axes
  <2> QED
    BY <1>1, <2>1, <2>2 DEF Axis
<1>8. axes[7] \in T
  <2>1. "CAPABILITY_CHANGED" \in LogKind /\ ("CAPABILITY_CHANGED" \in other) \in BOOLEAN
    BY DEF LogKind
  <2>2. axes[7] = Axis("CAPABILITY_CHANGED", "CAPABILITY_CHANGED" \in other, "new")
    BY DEF Axes
  <2> QED
    BY <1>1, <2>1, <2>2 DEF Axis
<1>9. axes[8] \in T
  <2>1. "ELIGIBILITY_CHANGED" \in LogKind /\ (prior.elig # cand.elig) \in BOOLEAN
    BY DEF LogKind
  <2>2. axes[8] = Axis("ELIGIBILITY_CHANGED", prior.elig # cand.elig, cand.elig)
    BY DEF Axes
  <2> QED
    BY <1>1, <2>1, <2>2 DEF Axis
<1>10. axes[9] \in T
  <2>1. "WORKER_RESTARTED" \in LogKind /\ (prior.boot # cand.boot) \in BOOLEAN
    BY DEF LogKind
  <2>2. axes[9] = Axis("WORKER_RESTARTED", prior.boot # cand.boot, cand.boot)
    BY DEF Axes
  <2> QED
    BY <1>1, <2>1, <2>2 DEF Axis
<1>11. axes[10] \in T
  <2>1. "OBSERVATION_STALE" \in LogKind /\ (prior.fresh /\ ~cand.fresh) \in BOOLEAN
    BY DEF LogKind
  <2>2. axes[10] = Axis("OBSERVATION_STALE", prior.fresh /\ ~cand.fresh, "stale")
    BY DEF Axes
  <2> QED
    BY <1>1, <2>1, <2>2 DEF Axis
<1>12. axes[11] \in T
  <2>1. "DRAIN_INITIATED" \in LogKind /\ (prior.drain = "ACTIVE" /\ cand.drain # "ACTIVE") \in BOOLEAN
    BY DEF LogKind
  <2>2. axes[11] = Axis("DRAIN_INITIATED", prior.drain = "ACTIVE" /\ cand.drain # "ACTIVE", cand.drain)
    BY DEF Axes
  <2> QED
    BY <1>1, <2>1, <2>2 DEF Axis
<1>13. axes[12] \in T
  <2>1. "DRAIN_COMPLETED" \in LogKind /\ (prior.drain = "DRAINING" /\ cand.drain = "DRAINED") \in BOOLEAN
    BY DEF LogKind
  <2>2. axes[12] = Axis("DRAIN_COMPLETED", prior.drain = "DRAINING" /\ cand.drain = "DRAINED", cand.drain)
    BY DEF Axes
  <2> QED
    BY <1>1, <2>1, <2>2 DEF Axis
<1>14. axes[13] \in T
  <2>1. "QUARANTINE_APPLIED" \in LogKind /\ (~prior.quarantined /\ cand.quarantined) \in BOOLEAN
    BY DEF LogKind
  <2>2. axes[13] = Axis("QUARANTINE_APPLIED", ~prior.quarantined /\ cand.quarantined, "true")
    BY DEF Axes
  <2> QED
    BY <1>1, <2>1, <2>2 DEF Axis
<1>15. axes[14] \in T
  <2>1. "QUARANTINE_CLEARED" \in LogKind /\ (prior.quarantined /\ ~cand.quarantined) \in BOOLEAN
    BY DEF LogKind
  <2>2. axes[14] = Axis("QUARANTINE_CLEARED", prior.quarantined /\ ~cand.quarantined, "false")
    BY DEF Axes
  <2> QED
    BY <1>1, <2>1, <2>2 DEF Axis
<1> HIDE DEF axes, T
<1>16. ASSUME NEW i \in 1..14 PROVE axes[i] \in T
  <2>1. i \in {1, 2, 3, 4, 5, 6, 7, 8, 9, 10, 11, 12, 13, 14}
    OBVIOUS
  <2> QED
    BY <2>1, <1>2, <1>3, <1>4, <1>5, <1>6, <1>7, <1>8, <1>9, <1>10, <1>11, <1>12, <1>13,
       <1>14, <1>15
<1> QED
  BY <1>16, AxesLength DEF axes, T

(* The whole diff, from what each axis does.                               *)
LEMMA DiffCarries ==
  ASSUME NEW e \in Devices, NEW prior \in DeviceState, NEW cand \in DeviceState, NEW other,
         cand.boot \in Reporters(e),
         NEW d, NEW kinds, NEW val,
         \A i \in 1..14 :
           LET a == Axes(prior, cand, other)[i] IN
           /\ a.changed /\ e = d /\ a.kind \in kinds => a.to = val[i]
           /\ ~(a.changed /\ e = d /\ a.kind \in kinds) => val[i - 1] = val[i]
  PROVE  /\ diff_device_state(e, prior, cand, other) \in Seq(LogRecord)
         /\ Carries(diff_device_state(e, prior, cand, other), d, kinds, val[0], val[14])
<1> DEFINE axes == Axes(prior, cand, other)
           id == DeviceIdOf[cand.boot][e]
           ss == [i \in 1..14 |-> 
                     When(axes[i].changed, ChangeRecord(axes[i].kind, id, e, axes[i].to))]
<1>1. Len(axes) = 14 /\ \A i \in 1..14 : /\ axes[i].kind \in LogKind
                                         /\ axes[i].changed \in BOOLEAN
                                         /\ axes[i].to \in LogValue
  BY AxesTyped
<1>2. diff_device_state(e, prior, cand, other) = FlattenSeq(ss)
  BY <1>1 DEF diff_device_state
<1>3. ASSUME NEW i \in 1..14
      PROVE  ss[i] \in Seq(LogRecord) /\ Carries(ss[i], d, kinds, val[i - 1], val[i])
  <2> DEFINE a == axes[i]
  <2>1. a.kind \in LogKind /\ a.changed \in BOOLEAN /\ a.to \in LogValue
    BY <1>1
  <2>2. /\ a.changed /\ e = d /\ a.kind \in kinds => a.to = val[i]
        /\ ~(a.changed /\ e = d /\ a.kind \in kinds) => val[i - 1] = val[i]
    OBVIOUS
  <2>3. ss[i] = When(a.changed, ChangeRecord(a.kind, id, e, a.to))
    OBVIOUS
  <2>4. id \in IdsOf(e)
    BY DEF IdsOf
  <2> HIDE DEF a, ss, id
  <2> QED
    BY <2>1, <2>2, <2>3, <2>4, AxisCarries
<1>4. ss \in Seq(Seq(LogRecord)) /\ Len(ss) = 14
  BY <1>3
<1> HIDE DEF ss
<1> QED
  BY <1>2, <1>3, <1>4, CarriesFlatten

LEMMA AxesKinds ==
  ASSUME NEW prior, NEW cand, NEW other
  PROVE  /\ Axes(prior, cand, other)[1].kind = "DEVICE_APPEARED"
         /\ Axes(prior, cand, other)[2].kind = "DEVICE_DISAPPEARED"
         /\ Axes(prior, cand, other)[3].kind = "IDENTITY_CHANGED"
         /\ Axes(prior, cand, other)[4].kind = "DRIVER_RUNTIME_CHANGED"
         /\ Axes(prior, cand, other)[5].kind = "MEMORY_CAPACITY_CHANGED"
         /\ Axes(prior, cand, other)[6].kind = "HEALTH_CHANGED"
         /\ Axes(prior, cand, other)[7].kind = "CAPABILITY_CHANGED"
         /\ Axes(prior, cand, other)[8].kind = "ELIGIBILITY_CHANGED"
         /\ Axes(prior, cand, other)[9].kind = "WORKER_RESTARTED"
         /\ Axes(prior, cand, other)[10].kind = "OBSERVATION_STALE"
         /\ Axes(prior, cand, other)[11].kind = "DRAIN_INITIATED"
         /\ Axes(prior, cand, other)[12].kind = "DRAIN_COMPLETED"
         /\ Axes(prior, cand, other)[13].kind = "QUARANTINE_APPLIED"
         /\ Axes(prior, cand, other)[14].kind = "QUARANTINE_CLEARED"
BY DEF Axes, Axis

(* A diff in which no axis but k has anything to say about the device.     *)
LEMMA DiffSays ==
  ASSUME NEW e \in Devices, NEW prior \in DeviceState, NEW cand \in DeviceState, NEW other,
         cand.boot \in Reporters(e),
         NEW d, NEW kinds, NEW k \in 1..14, NEW u, NEW v,
         LET Says(i) == Axes(prior, cand, other)[i].changed /\ e = d
                          /\ Axes(prior, cand, other)[i].kind \in kinds
         IN  /\ \A i \in 1..14 : Says(i) => i = k
             /\ Says(k) => Axes(prior, cand, other)[k].to = v
             /\ ~Says(k) => u = v
  PROVE  /\ diff_device_state(e, prior, cand, other) \in Seq(LogRecord)
         /\ Carries(diff_device_state(e, prior, cand, other), d, kinds, u, v)
<1> DEFINE axes == Axes(prior, cand, other)
           Says(i) == axes[i].changed /\ e = d /\ axes[i].kind \in kinds
           val == [i \in 0..14 |-> IF i < k THEN u ELSE v]
<1>1. /\ \A i \in 1..14 : Says(i) => i = k
      /\ Says(k) => axes[k].to = v
      /\ ~Says(k) => u = v
  OBVIOUS
<1> HIDE DEF axes
<1>2. val[0] = u /\ val[14] = v /\ \A i \in 1..14 : val[i] = (IF i < k THEN u ELSE v)
                                                 /\ val[i - 1] = (IF i - 1 < k THEN u ELSE v)
  OBVIOUS
<1> HIDE DEF val
<1>3. ASSUME NEW i \in 1..14
      PROVE  (Says(i) => axes[i].to = val[i]) /\ (~Says(i) => val[i - 1] = val[i])
  <2>1. CASE i = k
    <3>1. val[i] = v /\ val[i - 1] = u
      BY <1>2, <2>1
    <3> QED
      BY <1>1, <2>1, <3>1
  <2>2. CASE i # k
    <3>1. ~Says(i)
      BY <1>1, <2>2
    <3>2. val[i] = val[i - 1]
      <4>1. (i < k /\ i - 1 < k) \/ (~(i < k) /\ ~(i - 1 < k))
        BY <2>2
      <4> QED
        BY <1>2, <4>1
    <3> QED
      BY <3>1, <3>2
  <2> QED
    BY <2>1, <2>2
<1>4. \A i \in 1..14 :
        LET a == Axes(prior, cand, other)[i] IN
        /\ a.changed /\ e = d /\ a.kind \in kinds => a.to = val[i]
        /\ ~(a.changed /\ e = d /\ a.kind \in kinds) => val[i - 1] = val[i]
  BY <1>3 DEF axes
<1>5. /\ diff_device_state(e, prior, cand, other) \in Seq(LogRecord)
      /\ Carries(diff_device_state(e, prior, cand, other), d, kinds, val[0], val[14])
  BY <1>4, DiffCarries
<1> QED
  BY <1>2, <1>5

(* Which axes write the kinds the log is asked for.                        *)
LEMMA AxesOf ==
  ASSUME NEW prior, NEW cand, NEW other, NEW i \in 1..14
  PROVE  LET kind == Axes(prior, cand, other)[i].kind IN
         /\ kind \in DrainKinds <=> i \in {11, 12}
         /\ kind \in QuarantineKinds <=> i \in {13, 14}
         /\ kind \in PresenceKinds <=> i \in {1, 2}
         /\ kind \in HealthKinds <=> i = 6
<1> DEFINE axes == Axes(prior, cand, other)
<1>1. /\ axes[1].kind = "DEVICE_APPEARED" /\ axes[2].kind = "DEVICE_DISAPPEARED"
      /\ axes[6].kind = "HEALTH_CHANGED"
      /\ axes[11].kind = "DRAIN_INITIATED" /\ axes[12].kind = "DRAIN_COMPLETED"
      /\ axes[13].kind = "QUARANTINE_APPLIED" /\ axes[14].kind = "QUARANTINE_CLEARED"
  BY AxesKinds
<1>2. i \in {3, 4, 5, 7, 8, 9, 10} =>
        axes[i].kind \in {"IDENTITY_CHANGED", "DRIVER_RUNTIME_CHANGED", "MEMORY_CAPACITY_CHANGED",
                          "CAPABILITY_CHANGED", "ELIGIBILITY_CHANGED", "WORKER_RESTARTED",
                          "OBSERVATION_STALE"}
  BY AxesKinds
<1> HIDE DEF axes
<1>3. i \in {1, 2, 6, 11, 12, 13, 14} \/ i \in {3, 4, 5, 7, 8, 9, 10}
  OBVIOUS
<1> QED
  BY <1>1, <1>2, <1>3 DEF axes, DrainKinds, QuarantineKinds, PresenceKinds, HealthKinds

(* The axes that matter, each by itself.                                   *)
LEMMA AxesChanged ==
  ASSUME NEW prior \in DeviceState, NEW cand \in DeviceState, NEW other
  PROVE  LET axes == Axes(prior, cand, other) IN
         /\ axes[1].changed <=> ~prior.present /\ cand.present
         /\ axes[1].to = "present"
         /\ axes[2].changed <=> prior.present /\ ~cand.present
         /\ axes[6].changed <=> prior.health # cand.health
         /\ axes[6].to = cand.health
         /\ prior.drain = cand.drain => ~axes[11].changed /\ ~axes[12].changed
         /\ prior.quarantined = cand.quarantined => ~axes[13].changed /\ ~axes[14].changed
BY DEF Axes, Axis, DeviceState

LEMMA DiffTyped ==
  ASSUME NEW e \in Devices, NEW prior \in DeviceState, NEW cand \in DeviceState, NEW other,
         cand.boot \in Reporters(e)
  PROVE  diff_device_state(e, prior, cand, other) \in Seq(LogRecord)
<1> DEFINE none == {}
<1>1. 1 \in 1..14 /\ \A i \in 1..14 : Axes(prior, cand, other)[i].kind \notin none
  OBVIOUS
<1> HIDE DEF none
<1> QED
  BY <1>1, DiffSays

(* A diff says nothing of other devices.                                   *)
LEMMA DiffOfOther ==
  ASSUME NEW e \in Devices, NEW prior \in DeviceState, NEW cand \in DeviceState, NEW other,
         cand.boot \in Reporters(e),
         NEW d, NEW kinds, NEW v, e # d
  PROVE  /\ diff_device_state(e, prior, cand, other) \in Seq(LogRecord)
         /\ Carries(diff_device_state(e, prior, cand, other), d, kinds, v, v)
<1>1. 1 \in 1..14
  OBVIOUS
<1> QED
  BY <1>1, DiffSays

(* What the diff of an observation says of its own device.                 *)
LEMMA DiffOfOwn ==
  ASSUME NEW d \in Devices, NEW prior \in DeviceState, NEW cand \in DeviceState, NEW other, NEW u,
         cand.boot \in Reporters(d),
         cand.drain = prior.drain, cand.quarantined = prior.quarantined
  PROVE  LET diff == diff_device_state(d, prior, cand, other) IN
         /\ Carries(diff, d, DrainKinds, u, u)
         /\ Carries(diff, d, QuarantineKinds, u, u)
         /\ cand.present /\ (prior.present => u = "present")
              => Carries(diff, d, PresenceKinds, u, "present")
         /\ (prior.health = cand.health => u = cand.health)
              => Carries(diff, d, HealthKinds, u, cand.health)
<1> DEFINE axes == Axes(prior, cand, other)
           diff == diff_device_state(d, prior, cand, other)
<1>1. /\ axes[1].changed <=> ~prior.present /\ cand.present
      /\ axes[1].to = "present"
      /\ axes[2].changed <=> prior.present /\ ~cand.present
      /\ axes[6].changed <=> prior.health # cand.health
      /\ axes[6].to = cand.health
      /\ ~axes[11].changed /\ ~axes[12].changed /\ ~axes[13].changed /\ ~axes[14].changed
  BY AxesChanged
<1>2. ASSUME NEW i \in 1..14
      PROVE  /\ axes[i].kind \in DrainKinds <=> i \in {11, 12}
             /\ axes[i].kind \in QuarantineKinds <=> i \in {13, 14}
             /\ axes[i].kind \in PresenceKinds <=> i \in {1, 2}
             /\ axes[i].kind \in HealthKinds <=> i = 6
  BY AxesOf
<1>3. ASSUME NEW kinds, NEW k \in 1..14, NEW v,
             \A i \in 1..14 : axes[i].changed /\ axes[i].kind \in kinds => i = k,
             axes[k].changed /\ axes[k].kind \in kinds => axes[k].to = v,
             ~(axes[k].changed /\ axes[k].kind \in kinds) => u = v
      PROVE  Carries(diff, d, kinds, u, v)
  BY <1>3, DiffSays
<1> HIDE DEF axes, diff
<1>4. 1 \in 1..14 /\ 6 \in 1..14
  OBVIOUS
<1>5. Carries(diff, d, DrainKinds, u, u)
  <2>1. \A i \in 1..14 : ~(axes[i].changed /\ axes[i].kind \in DrainKinds)
    BY <1>1, <1>2
  <2> QED
    BY <1>3, <1>4, <2>1
<1>6. Carries(diff, d, QuarantineKinds, u, u)
  <2>1. \A i \in 1..14 : ~(axes[i].changed /\ axes[i].kind \in QuarantineKinds)
    BY <1>1, <1>2
  <2> QED
    BY <1>3, <1>4, <2>1
<1>7. ASSUME cand.present, prior.present => u = "present"
      PROVE  Carries(diff, d, PresenceKinds, u, "present")
  <2>1. \A i \in 1..14 : axes[i].changed /\ axes[i].kind \in PresenceKinds => i = 1
    BY <1>1, <1>2, <1>7
  <2>2. ~(axes[1].changed /\ axes[1].kind \in PresenceKinds) => u = "present"
    BY <1>1, <1>2, <1>4, <1>7
  <2> QED
    BY <1>1, <1>3, <1>4, <2>1, <2>2
<1>8. ASSUME prior.health = cand.health => u = cand.health
      PROVE  Carries(diff, d, HealthKinds, u, cand.health)
  <2>1. \A i \in 1..14 : axes[i].changed /\ axes[i].kind \in HealthKinds => i = 6
    BY <1>2
  <2>2. ~(axes[6].changed /\ axes[6].kind \in HealthKinds) => u = cand.health
    BY <1>1, <1>2, <1>4, <1>8
  <2> QED
    BY <1>1, <1>3, <1>4, <2>1, <2>2
<1> QED
  BY <1>5, <1>6, <1>7, <1>8 DEF diff

-----------------------------------------------------------------------------
(* Disappeared is enumerated by a sequence of its own elements.            *)
LEMMA SetToSeqOf ==
  ASSUME NEW S, IsFiniteSet(S)
  PROVE  SetToSeq(S) \in Seq(S)
<1> DEFINE n == Cardinality(S)
<1>1. n \in Nat /\ ExistsBijection(1..n, S)
  BY FS_CardinalityType
<1>2. PICK f \in [1..n -> S] : \A a, b \in 1..n : f[a] = f[b] => a = b
  BY <1>1 DEF ExistsBijection, Bijection, Injection, IsInjective
<1>3. IsInjective(f)
  BY <1>2 DEF IsInjective
<1>4. SetToSeq(S) \in [1..n -> S]
  BY <1>2, <1>3 DEF SetToSeq
<1> QED
  BY <1>1, <1>4

(* A known device has a source that reports it.                            *)
KnownIsReported ==
  \A d \in Devices : devices[d].known => devices[d].boot \in Reporters(d)

(* The records of a batch: those of its applied observations, each about a *)
(* device of its own, then those of the devices that disappeared.          *)
LEMMA IngestCarries ==
  ASSUME TypeOK, KnownIsReported, IsFiniteSet(Devices), NEW w \in Workers, NEW obs \in Batches,
         NEW other,
         NEW d, NEW kinds, NEW u, NEW v,
         \A i \in Applied(w, obs) : obs[i].dev = d =>
           Carries(diff_device_state(d, devices[d], apply_observation(devices[d], obs[i], now), other[i]),
                   d, kinds, u, v),
         d \notin AppliedDevices(w, obs) => u = v,
         Complete(w, obs) /\ d \in Disappeared(w, obs) => "DEVICE_DISAPPEARED" \notin kinds
  PROVE  IngestRecords(w, obs, other) \in Seq(LogRecord) /\ Carries(IngestRecords(w, obs, other), d, kinds, u, v)
<1> DEFINE n == Len(obs)
           diff(i) == diff_device_state(obs[i].dev, devices[obs[i].dev],
                        apply_observation(devices[obs[i].dev], obs[i], now), other[i])
           ss == [i \in DOMAIN obs |-> When(i \in Applied(w, obs), diff(i))]
           gone == Disappeared(w, obs)
           missing == IF Complete(w, obs) THEN SetToSeq(gone) ELSE <<>>
           rest == [i \in DOMAIN missing |->
                      [kind |-> "DEVICE_DISAPPEARED", device_id |-> device_id(missing[i]),
                       dev |-> missing[i], to |-> "absent"]]
<1>1. /\ obs \in Seq(DeviceObservation) /\ n \in Nat /\ DOMAIN obs = 1..n
      /\ \A i \in 1..n : obs[i] \in DeviceObservation /\ obs[i].dev \in Devices
      /\ \A i, j \in 1..n : obs[i].dev = obs[j].dev => i = j
      /\ \A i \in 1..n : obs[i].boot \in Reporters(obs[i].dev)
      /\ Applied(w, obs) \subseteq 1..n
  <2>1. obs \in Seq(DeviceObservation) /\ DOMAIN obs = 1..n /\ n \in Nat
    BY BatchesAssumption, LenProperties DEF Batch
  <2>2. \A i, j \in 1..n : obs[i].dev = obs[j].dev => i = j
    BY <2>1, BatchesAssumption DEF Batch
  <2>3. \A i \in 1..n : obs[i] \in DeviceObservation /\ obs[i].dev \in Devices
    <3>1. \A i \in 1..n : obs[i] \in DeviceObservation
      BY <2>1, ElementOfSeq
    <3> QED
      BY <3>1 DEF DeviceObservation
  <2>4. \A i \in 1..n : obs[i].boot \in Reporters(obs[i].dev)
    <3>1. \A i \in 1..n : /\ obs[i].worker \in Workers
                          /\ obs[i].dev \in DevicesOf[obs[i].worker]
                          /\ obs[i].boot \in BootsOf[obs[i].worker]
      BY <2>1, <2>3, BatchesAssumption DEF Batch, DeviceObservation
    <3> QED
      BY <3>1 DEF Reporters
  <2> QED
    BY <2>1, <2>2, <2>3, <2>4 DEF Applied, Processed
<1>2. now \in Nat /\ \A e \in Devices : devices[e] \in DeviceState
  BY ConstantsAssumption DEF TypeOK
<1>3. IngestRecords(w, obs, other) = FlattenSeq(ss) \o rest
  BY DEF IngestRecords
<1>4. FlattenSeq(ss) \in Seq(LogRecord) /\ Carries(FlattenSeq(ss), d, kinds, u, v)
  <2>1. ASSUME NEW i \in 1..n
        PROVE  /\ ss[i] \in Seq(LogRecord)
               /\ obs[i].dev # d \/ i \notin Applied(w, obs)
                    => \A x : Carries(ss[i], d, kinds, x, x)
               /\ obs[i].dev = d /\ i \in Applied(w, obs) => Carries(ss[i], d, kinds, u, v)
    <3> DEFINE e == obs[i].dev
               cand == apply_observation(devices[e], obs[i], now)
    <3>1. e \in Devices /\ devices[e] \in DeviceState /\ cand \in DeviceState
      BY <1>1, <1>2, ApplyTyped
    <3>0. cand.boot \in Reporters(e)
      BY <1>1 DEF apply_observation
    <3>2. CASE i \notin Applied(w, obs)
      <4>1. ss[i] = <<>>
        BY <1>1, <3>2 DEF When
      <4>2. <<>> \in Seq(LogRecord) /\ \A x : Carries(<<>>, d, kinds, x, x)
        BY DEF Carries, LastSays, Silent
      <4> QED
        BY <3>2, <4>1, <4>2
    <3>3. CASE i \in Applied(w, obs)
      <4>1. ss[i] = diff_device_state(e, devices[e], cand, other[i])
        BY <1>1, <3>3 DEF When
      <4> HIDE DEF ss, cand
      <4>2. ss[i] \in Seq(LogRecord)
        BY <3>0, <3>1, <4>1, DiffTyped
      <4>3. e # d => \A x : Carries(ss[i], d, kinds, x, x)
        BY <3>0, <3>1, <4>1, DiffOfOther
      <4>4. e = d => Carries(ss[i], d, kinds, u, v)
        BY <3>3, <4>1 DEF cand
      <4> QED
        BY <3>3, <4>2, <4>3, <4>4
    <3> QED
      BY <3>2, <3>3
  <2>2. ss \in Seq(Seq(LogRecord)) /\ Len(ss) = n
    <3>1. ss \in [1..n -> Seq(LogRecord)]
      BY <1>1, <2>1
    <3> QED
      BY <1>1, <3>1
  <2> HIDE DEF ss
  <2>3. CASE d \in AppliedDevices(w, obs)
    <3>1. PICK k \in Applied(w, obs) : obs[k].dev = d
      BY <2>3 DEF AppliedDevices
    <3>2. k \in 1..n
      BY <1>1, <3>1
    <3> DEFINE val == [i \in 0..n |-> IF i < k THEN u ELSE v]
    <3>3. ASSUME NEW i \in 1..n
          PROVE  Carries(ss[i], d, kinds, val[i - 1], val[i])
      <4>1. CASE i = k
        <5>1. val[i - 1] = u /\ val[i] = v
          BY <1>1, <3>2, <4>1
        <5> QED
          BY <2>1, <3>1, <4>1, <5>1
      <4>2. CASE i # k
        <5>1. val[i - 1] = val[i]
          BY <1>1, <3>2, <4>2
        <5>2. obs[i].dev # d
          BY <1>1, <3>1, <3>2, <4>2
        <5> HIDE DEF val
        <5> QED
          BY <2>1, <5>1, <5>2
      <4> QED
        BY <4>1, <4>2
    <3>4. val[0] = u /\ val[n] = v
      BY <1>1, <3>2
    <3> HIDE DEF val
    <3> QED
      BY <2>2, <3>3, <3>4, CarriesFlatten
  <2>4. CASE d \notin AppliedDevices(w, obs)
    <3> DEFINE val == [i \in 0..n |-> v]
    <3>1. ASSUME NEW i \in 1..n
          PROVE  Carries(ss[i], d, kinds, val[i - 1], val[i])
      <4>1. obs[i].dev # d \/ i \notin Applied(w, obs)
        BY <2>4 DEF AppliedDevices
      <4>2. val[i - 1] = v /\ val[i] = v
        BY <1>1
      <4> HIDE DEF val
      <4> QED
        BY <2>1, <4>1, <4>2
    <3>2. val[0] = v /\ val[n] = v /\ u = v
      BY <1>1, <2>4
    <3> HIDE DEF val
    <3> QED
      BY <2>2, <3>1, <3>2, CarriesFlatten
  <2> QED
    BY <2>3, <2>4
<1>5. rest \in Seq(LogRecord) /\ Carries(rest, d, kinds, v, v)
  <2>1. gone \in SUBSET Devices /\ IsFiniteSet(gone)
    <3>1. gone \in SUBSET Devices
      BY DEF Disappeared, TypeOK, WorkerRecord
    <3> QED
      BY <3>1, FS_Subset
  <2>2. missing \in Seq(gone)
    BY <2>1, SetToSeqOf
  <2> HIDE DEF missing, gone
  <2>3. Len(missing) \in Nat /\ DOMAIN missing = 1..Len(missing)
        /\ \A i \in 1..Len(missing) : missing[i] \in gone
    BY <2>2, LenProperties, ElementOfSeq
  <2>4. rest \in [1..Len(missing) -> LogRecord]
    <3>1. ASSUME NEW i \in 1..Len(missing)
          PROVE  rest[i] \in LogRecord
      <4> DEFINE g == missing[i]
      <4>1. g \in Devices /\ devices[g].known
        BY <2>1, <2>3 DEF gone, Disappeared
      <4>2. device_id(g) \in IdsOf(g) /\ device_id(g) \in Nat
        BY <4>1, ChangeLogAssumption DEF KnownIsReported, device_id, IdsOf
      <4>3. rest[i] = [kind |-> "DEVICE_DISAPPEARED", device_id |-> device_id(g), dev |-> g,
                       to |-> "absent"]
        BY <2>3
      <4> HIDE DEF g, rest
      <4> QED
        BY <4>1, <4>2, <4>3 DEF LogRecord, LogKind, LogValue
    <3> QED
      BY <2>3, <3>1
  <2>5. rest \in Seq(LogRecord) /\ Len(rest) = Len(missing)
    BY <2>3, <2>4
  <2>6. ASSUME NEW i \in 1..Len(rest) PROVE ~About(rest[i], d, kinds)
    <3>1. rest[i].dev \in gone /\ rest[i].kind = "DEVICE_DISAPPEARED"
      BY <2>3, <2>5
    <3>2. Complete(w, obs)
      <4>1. missing # <<>>
        BY <2>3, <2>5
      <4> QED
        BY <4>1 DEF missing
    <3> QED
      BY <3>1, <3>2 DEF About, gone
  <2> HIDE DEF rest
  <2> QED
    BY <2>5, <2>6 DEF Carries, LastSays, Silent
<1> HIDE DEF ss, rest
<1>6. FlattenSeq(ss) \o rest \in Seq(LogRecord)
  BY <1>4, <1>5, ConcatProperties
<1> QED
  BY <1>3, <1>4, <1>5, <1>6, CarriesConcat

-----------------------------------------------------------------------------
(* The log and the devices, step by step.                                  *)

(* Appending keeps the log typed and what the new records carry.           *)
LEMMA PushedSays ==
  ASSUME change_log \in Seq(LogRecord), NEW recs \in Seq(LogRecord), Log(recs),
         NEW d, NEW kinds, NEW u, NEW v,
         LastSays(change_log, d, kinds, u), Carries(recs, d, kinds, u, v)
  PROVE  change_log' \in Seq(LogRecord) /\ LastSays(change_log', d, kinds, v)
<1> DEFINE all == change_log \o recs
           n == Len(all)
           over == Max({0, n - kMaxChangeLog})
<1>1. all \in Seq(LogRecord) /\ n \in Nat
  BY ConcatProperties, LenProperties
<1>2. LastSays(all, d, kinds, v)
  BY LastOfConcat
<1>3. over \in 0..n
  <2>1. kMaxChangeLog \in Nat
    BY ChangeLogAssumption
  <2>2. \E x \in {0, n - kMaxChangeLog} : \A y \in {0, n - kMaxChangeLog} : x >= y
    BY <1>1, <2>1
  <2>3. over \in {0, n - kMaxChangeLog} /\ over >= 0
    BY <1>1, <2>1, <2>2 DEF Max
  <2> QED
    BY <1>1, <2>1, <2>3
<1>4. change_log' = SubSeq(all, over + 1, n)
  BY DEF Log, Pushed
<1> HIDE DEF all, over
<1> QED
  BY <1>1, <1>2, <1>3, <1>4, LastOfSuffix

(* Whatever a sequence says last, it says one thing.                       *)
LEMMA SaysOne ==
  ASSUME NEW S, NEW s \in Seq(S), NEW d, NEW kinds
  PROVE  \E u : LastSays(s, d, kinds, u)
<1> DEFINE A(i) == About(s[i], d, kinds)
           Final(i) == A(i) /\ \A j \in (i + 1)..Len(s) : ~A(j)
<1>0. Len(s) \in Nat
  BY LenProperties
<1>1. CASE \E i \in 1..Len(s) : Final(i)
  <2>1. PICK i \in 1..Len(s) : Final(i)
    BY <1>1
  <2>2. ASSUME NEW k \in 1..Len(s), Final(k) PROVE k = i
    <3>1. k < i => i \in (k + 1)..Len(s)
      BY <1>0
    <3>2. i < k => k \in (i + 1)..Len(s)
      BY <1>0
    <3> QED
      BY <1>0, <2>1, <2>2, <3>1, <3>2
  <2>3. LastSays(s, d, kinds, s[i].to)
    BY <2>2 DEF LastSays
  <2> QED
    BY <2>3
<1>2. CASE ~ \E i \in 1..Len(s) : Final(i)
  <2>1. LastSays(s, d, kinds, 0)
    BY <1>2 DEF LastSays
  <2> QED
    BY <2>1
<1> QED
  BY <1>1, <1>2

(* What the log says of a device, as an invariant of every record.         *)
Told(log, d, dev) ==
  /\ LastSays(log, d, DrainKinds, dev.drain)
  /\ LastSays(log, d, QuarantineKinds, Flag(dev.quarantined))
  /\ dev.present => LastSays(log, d, PresenceKinds, "present")
  /\ LastSays(log, d, HealthKinds, dev.health) \/ (dev.health = "LOST" /\ ~dev.present)

LogInv ==
  /\ change_log \in Seq(LogRecord)
  /\ KnownIsReported
  /\ \A d \in Devices : Told(change_log, d, devices[d])

(* apply_observation keeps the administrative axes, and says LOST only of  *)
(* a device that is not there.                                             *)
LEMMA ApplyAxes ==
  ASSUME NEW prior, NEW o, NEW at
  PROVE  LET cand == apply_observation(prior, o, at) IN
         /\ cand.drain = prior.drain /\ cand.quarantined = prior.quarantined
         /\ cand.health = "LOST" => ~cand.present
<1> DEFINE fresh == is_fresh(prior, o, at)
           sig == health_signals_from_probe(o.probe, prior.present, ~fresh)
           cand == apply_observation(prior, o, at)
<1>1. /\ cand.drain = prior.drain /\ cand.quarantined = prior.quarantined
      /\ cand.health = evaluate_health(sig) /\ cand.present = o.probe.present
  BY DEF apply_observation
<1>2. sig.device_present = o.probe.present
  BY DEF health_signals_from_probe
<1>3. evaluate_health(sig) = "LOST" => ~sig.device_present
  BY DEF evaluate_health
<1> QED
  BY <1>1, <1>2, <1>3

(* A batch keeps the log in step with a device it applies.                 *)
LEMMA LogIngestApplied ==
  ASSUME TypeOK, LogInv, IsFiniteSet(Devices), NEW w \in Workers, NEW obs \in Batches,
         NEW other, LogIngest(w, obs, other), NEW d \in Devices, d \in AppliedDevices(w, obs)
  PROVE  change_log' \in Seq(LogRecord) /\ Told(change_log', d, devices'[d])
<1> DEFINE prior == devices[d]
           o == ObservationOf(obs, d)
           cand == apply_observation(prior, o, now)
           recs == IngestRecords(w, obs, other)
           diff(k) == diff_device_state(d, prior, cand, other[k])
<1>1. /\ now \in Nat /\ prior \in DeviceState /\ o \in DeviceObservation /\ o.dev = d
      /\ cand \in DeviceState /\ cand.boot \in Reporters(d)
  <2>1. now \in Nat /\ prior \in DeviceState
    BY ConstantsAssumption DEF TypeOK
  <2>2. o \in DeviceObservation /\ o.dev = d
    BY BatchesAssumption, AppliedObservation
  <2>3. cand.boot \in Reporters(d)
    <3>1. /\ cand.boot = o.boot /\ o.worker \in Workers
          /\ d \in DevicesOf[o.worker] /\ o.boot \in BootsOf[o.worker]
      BY <2>2, BatchesAssumption, AppliedObservation DEF apply_observation, DeviceObservation
    <3> QED
      BY <3>1 DEF Reporters
  <2> QED
    BY <2>1, <2>2, <2>3, ApplyTyped
<1>2. devices'[d] = cand /\ Log(recs)
  BY DEF LogIngest, IngestSnapshot
<1>3. cand.drain = prior.drain /\ cand.quarantined = prior.quarantined
      /\ (cand.health = "LOST" => ~cand.present)
  BY ApplyAxes
<1>4. change_log \in Seq(LogRecord) /\ Told(change_log, d, prior)
  BY DEF LogInv
<1>5. \A i \in Applied(w, obs) : obs[i].dev = d => obs[i] = o
  <2>1. obs \in Batch /\ Applied(w, obs) \subseteq DOMAIN obs
    BY BatchesAssumption DEF Applied, Processed
  <2>2. \A i, j \in DOMAIN obs : obs[i].dev = obs[j].dev => i = j
    BY <2>1 DEF Batch
  <2> QED
    BY <2>1, <2>2 DEF ObservationOf
<1>6. d \notin Disappeared(w, obs)
  BY DEF Disappeared
<1>7. ASSUME NEW kinds, NEW u, NEW v, LastSays(change_log, d, kinds, u),
             \A k : Carries(diff(k), d, kinds, u, v)
      PROVE  change_log' \in Seq(LogRecord) /\ LastSays(change_log', d, kinds, v)
  <2>1. \A i \in Applied(w, obs) : obs[i].dev = d =>
          Carries(diff_device_state(d, devices[d], apply_observation(devices[d], obs[i], now), other[i]),
                  d, kinds, u, v)
    BY <1>5, <1>7
  <2>2. recs \in Seq(LogRecord) /\ Carries(recs, d, kinds, u, v)
    BY <1>6, <2>1, IngestCarries DEF LogInv
  <2> HIDE DEF recs
  <2> QED
    BY <1>2, <1>4, <1>7, <2>2, PushedSays
<1>8. ASSUME NEW u
      PROVE  /\ \A k : Carries(diff(k), d, DrainKinds, u, u)
             /\ \A k : Carries(diff(k), d, QuarantineKinds, u, u)
             /\ cand.present /\ (prior.present => u = "present")
                  => \A k : Carries(diff(k), d, PresenceKinds, u, "present")
             /\ (prior.health = cand.health => u = cand.health)
                  => \A k : Carries(diff(k), d, HealthKinds, u, cand.health)
  BY <1>1, <1>3, DiffOfOwn
<1> HIDE DEF cand, recs, diff, o
<1>9. change_log' \in Seq(LogRecord) /\ LastSays(change_log', d, DrainKinds, cand.drain)
  BY <1>3, <1>4, <1>7, <1>8 DEF Told
<1>10. LastSays(change_log', d, QuarantineKinds, Flag(cand.quarantined))
  BY <1>3, <1>4, <1>7, <1>8 DEF Told
<1>11. ASSUME cand.present PROVE LastSays(change_log', d, PresenceKinds, "present")
  <2>1. PICK u : LastSays(change_log, d, PresenceKinds, u) /\ (prior.present => u = "present")
    <3>1. CASE prior.present
      BY <1>4, <3>1 DEF Told
    <3>2. CASE ~prior.present
      BY <1>4, <3>2, SaysOne
    <3> QED
      BY <3>1, <3>2
  <2> QED
    BY <1>7, <1>8, <1>11, <2>1
<1>12. LastSays(change_log', d, HealthKinds, cand.health) \/ (cand.health = "LOST" /\ ~cand.present)
  <2>1. CASE LastSays(change_log, d, HealthKinds, prior.health)
    BY <1>7, <1>8, <2>1
  <2>2. CASE prior.health = "LOST" /\ cand.health = "LOST"
    BY <1>3, <2>2
  <2>3. CASE prior.health # cand.health
    <3>1. PICK u : LastSays(change_log, d, HealthKinds, u)
      BY <1>4, SaysOne
    <3> QED
      BY <1>7, <1>8, <2>3, <3>1
  <2> QED
    BY <1>4, <2>1, <2>2, <2>3 DEF Told
<1> QED
  BY <1>2, <1>9, <1>10, <1>11, <1>12 DEF Told

(* A batch keeps the log in step with a device it does not apply.          *)
LEMMA LogIngestOther ==
  ASSUME TypeOK, LogInv, IsFiniteSet(Devices), NEW w \in Workers, NEW obs \in Batches,
         NEW other, LogIngest(w, obs, other), NEW d \in Devices, d \notin AppliedDevices(w, obs)
  PROVE  change_log' \in Seq(LogRecord) /\ Told(change_log', d, devices'[d])
<1> DEFINE prior == devices[d]
           gone == Complete(w, obs) /\ d \in Disappeared(w, obs)
           recs == IngestRecords(w, obs, other)
<1>1. /\ prior \in DeviceState /\ change_log \in Seq(LogRecord) /\ Told(change_log, d, prior)
      /\ Log(recs)
  BY DEF TypeOK, LogInv, LogIngest
<1>2. devices'[d] = IF gone THEN Vanished(prior, "DEVICE_DISAPPEARANCE") ELSE prior
  BY DEF LogIngest, IngestSnapshot
<1>3. /\ devices'[d].drain = prior.drain /\ devices'[d].quarantined = prior.quarantined
      /\ gone => devices'[d].health = "LOST" /\ ~devices'[d].present
      /\ ~gone => devices'[d] = prior
  BY <1>1, <1>2 DEF Vanished, DeviceState
<1>4. ASSUME NEW kinds, NEW u, LastSays(change_log, d, kinds, u),
             gone => "DEVICE_DISAPPEARED" \notin kinds
      PROVE  change_log' \in Seq(LogRecord) /\ LastSays(change_log', d, kinds, u)
  <2>1. \A i \in Applied(w, obs) : obs[i].dev # d
    BY DEF AppliedDevices
  <2>2. recs \in Seq(LogRecord) /\ Carries(recs, d, kinds, u, u)
    BY <1>4, <2>1, IngestCarries DEF LogInv
  <2> HIDE DEF recs
  <2> QED
    BY <1>1, <1>4, <2>2, PushedSays
<1>5. /\ "DEVICE_DISAPPEARED" \notin DrainKinds /\ "DEVICE_DISAPPEARED" \notin QuarantineKinds
      /\ "DEVICE_DISAPPEARED" \notin HealthKinds
  BY DEF DrainKinds, QuarantineKinds, HealthKinds
<1> HIDE DEF gone, recs
<1> QED
  BY <1>1, <1>3, <1>4, <1>5 DEF Told

(* One record, seen from its own device and kinds, and from any other.     *)
LEMMA RecordCarries ==
  ASSUME NEW c \in BOOLEAN, NEW kind \in LogKind, NEW e \in Devices, NEW id \in IdsOf(e),
         NEW to \in LogValue,
         change_log \in Seq(LogRecord), Log(When(c, ChangeRecord(kind, id, e, to))),
         NEW d, NEW kinds, NEW u, LastSays(change_log, d, kinds, u)
  PROVE  /\ change_log' \in Seq(LogRecord)
         /\ e # d \/ kind \notin kinds \/ ~c => LastSays(change_log', d, kinds, u)
         /\ e = d /\ kind \in kinds /\ (~c => u = to) => LastSays(change_log', d, kinds, to)
<1> DEFINE recs == When(c, ChangeRecord(kind, id, e, to))
           v == IF e = d /\ kind \in kinds /\ c THEN to ELSE u
<1>1. recs \in Seq(LogRecord) /\ Carries(recs, d, kinds, u, v)
  BY AxisCarries
<1>2. Log(recs)
  OBVIOUS
<1> HIDE DEF recs
<1>3. change_log' \in Seq(LogRecord) /\ LastSays(change_log', d, kinds, v)
  BY <1>1, <1>2, PushedSays
<1> QED
  BY <1>3

(* An administrative operation: one device changes one axis, and one       *)
(* record of that axis says so.                                            *)
LEMMA AdminRecorded ==
  ASSUME LogInv, NEW e \in Devices, NEW c \in BOOLEAN, NEW to \in LogValue,
         NEW kind \in DrainKinds \cup QuarantineKinds,
         devices[e].known, Log(When(c, ChangeRecord(kind, device_id(e), e, to))),
         devices'[e].boot = devices[e].boot,
         \A d \in Devices \ {e} : devices'[d] = devices[d],
         devices'[e].present = devices[e].present, devices'[e].health = devices[e].health,
         kind \in DrainKinds => /\ c /\ devices'[e].drain = to
                                /\ devices'[e].quarantined = devices[e].quarantined,
         kind \in QuarantineKinds => /\ devices'[e].drain = devices[e].drain
                                     /\ Flag(devices'[e].quarantined) = to
                                     /\ ~c => Flag(devices[e].quarantined) = to
  PROVE  LogInv'
<1>1. /\ kind \in LogKind
      /\ kind \notin PresenceKinds /\ kind \notin HealthKinds
      /\ kind \in DrainKinds <=> kind \notin QuarantineKinds
  BY DEF LogKind, DrainKinds, QuarantineKinds, PresenceKinds, HealthKinds
<1>2. /\ change_log \in Seq(LogRecord) /\ \A d \in Devices : Told(change_log, d, devices[d])
      /\ KnownIsReported
  BY DEF LogInv
<1>0. device_id(e) \in IdsOf(e)
  BY <1>2 DEF KnownIsReported, device_id, IdsOf
<1>3. ASSUME NEW d \in Devices, NEW kinds, NEW u, LastSays(change_log, d, kinds, u)
      PROVE  /\ change_log' \in Seq(LogRecord)
             /\ e # d \/ kind \notin kinds \/ ~c => LastSays(change_log', d, kinds, u)
             /\ e = d /\ kind \in kinds /\ (~c => u = to) => LastSays(change_log', d, kinds, to)
  BY <1>0, <1>1, <1>2, <1>3, RecordCarries
<1>4. change_log' \in Seq(LogRecord)
  <2>1. LastSays(change_log, e, DrainKinds, devices[e].drain)
    BY <1>2 DEF Told
  <2> QED
    BY <1>3, <2>1
<1>5. ASSUME NEW d \in Devices, d # e PROVE Told(change_log', d, devices'[d])
  <2>1. devices'[d] = devices[d] /\ Told(change_log, d, devices[d])
    BY <1>2, <1>5
  <2> QED
    BY <1>3, <1>5, <2>1 DEF Told
<1>6. Told(change_log', e, devices'[e])
  <2>1. Told(change_log, e, devices[e])
    BY <1>2
  <2>2. LastSays(change_log', e, DrainKinds, devices'[e].drain)
    BY <1>1, <1>3, <2>1 DEF Told
  <2>3. LastSays(change_log', e, QuarantineKinds, Flag(devices'[e].quarantined))
    <3>1. LastSays(change_log, e, QuarantineKinds, Flag(devices[e].quarantined))
      BY <2>1 DEF Told
    <3>2. CASE kind \in QuarantineKinds
      BY <1>3, <3>1, <3>2
    <3>3. CASE kind \notin QuarantineKinds
      BY <1>1, <1>3, <3>1, <3>3
    <3> QED
      BY <3>2, <3>3
  <2>4. devices'[e].present => LastSays(change_log', e, PresenceKinds, "present")
    BY <1>1, <1>3, <2>1 DEF Told
  <2>5. \/ LastSays(change_log', e, HealthKinds, devices'[e].health)
        \/ devices'[e].health = "LOST" /\ ~devices'[e].present
    BY <1>1, <1>3, <2>1 DEF Told
  <2> QED
    BY <2>2, <2>3, <2>4, <2>5 DEF Told
<1>7. KnownIsReported'
  <2>1. ASSUME NEW d \in Devices, devices'[d].known PROVE devices'[d].boot \in Reporters(d)
    BY <1>2, <2>1 DEF KnownIsReported
  <2> QED
    BY <2>1 DEF KnownIsReported, Reporters
<1> QED
  BY <1>4, <1>5, <1>6, <1>7 DEF LogInv

LEMMA RecomputeAxes ==
  ASSUME NEW d \in DeviceState
  PROVE  LET r == recompute_device_eligibility(d) IN
         /\ r.present = d.present /\ r.health = d.health
         /\ r.drain = d.drain /\ r.quarantined = d.quarantined /\ r.boot = d.boot
BY DEF recompute_device_eligibility, DeviceState

(* Operations without a record leave what is said of a device true: they   *)
(* leave the device alone or take it down.                                 *)
LEMMA UnloggedKept ==
  ASSUME TypeOK, LogInv, Unlogged
  PROVE  LogInv'
<1>1. /\ change_log' = change_log /\ change_log \in Seq(LogRecord)
      /\ \A d \in Devices : Told(change_log, d, devices[d]) /\ devices[d] \in DeviceState
      /\ KnownIsReported
  BY DEF Unlogged, LogInv, TypeOK
<1>2. ASSUME NEW d \in Devices
      PROVE  /\ devices'[d].drain = devices[d].drain
             /\ devices'[d].quarantined = devices[d].quarantined
             /\ devices'[d].known = devices[d].known /\ devices'[d].boot = devices[d].boot
             /\ \/ devices'[d].present = devices[d].present /\ devices'[d].health = devices[d].health
                \/ ~devices'[d].present /\ devices'[d].health = "LOST"
  <2>1. ASSUME NEW w \in Workers, MarkWorkerLost(w)
        PROVE  \/ devices'[d] = devices[d]
               \/ devices'[d] = Vanished(devices[d], "WORKER_RESTART")
               \/ devices'[d] = [devices[d] EXCEPT !.fresh = FALSE]
    BY <2>1 DEF MarkWorkerLost
  <2>2. CASE devices' = devices
    BY <2>2
  <2>3. CASE \E w \in Workers : MarkWorkerLost(w)
    <3> DEFINE prior == devices[d]
               gone == Vanished(prior, "WORKER_RESTART")
               stale == [prior EXCEPT !.fresh = FALSE]
    <3>1. prior \in DeviceState
      BY <1>1
    <3>2. /\ gone.drain = prior.drain /\ gone.quarantined = prior.quarantined
          /\ gone.known = prior.known /\ gone.boot = prior.boot
          /\ ~gone.present /\ gone.health = "LOST"
      BY <3>1 DEF Vanished, DeviceState
    <3>3. /\ stale.drain = prior.drain /\ stale.quarantined = prior.quarantined
          /\ stale.known = prior.known /\ stale.boot = prior.boot
          /\ stale.present = prior.present /\ stale.health = prior.health
      BY <3>1 DEF DeviceState
    <3>4. devices'[d] \in {prior, gone, stale}
      BY <2>1, <2>3
    <3> HIDE DEF gone, stale, prior
    <3> QED
      BY <3>2, <3>3, <3>4 DEF prior
  <2>4. ASSUME NEW reg, RegisterWorker(reg) PROVE devices' = devices
    BY <2>4 DEF RegisterWorker, ReaffirmWorker, AdmitWorker
  <2>5. ASSUME NEW w \in Workers, NEW b, NEW e, Heartbeat(w, b, e) PROVE devices' = devices
    BY <2>5 DEF Heartbeat
  <2>6. ASSUME \/ Tick \/ \E ne \in 1..MaxEpoch : RollEpoch(ne) PROVE devices' = devices
    BY <2>6 DEF Tick, RollEpoch
  <2> QED
    BY <2>2, <2>3, <2>4, <2>5, <2>6, ZenonT(60) DEF Unlogged
<1>3. ASSUME NEW d \in Devices PROVE Told(change_log', d, devices'[d])
  BY <1>1, <1>2 DEF Told
<1>4. KnownIsReported'
  BY <1>1, <1>2 DEF KnownIsReported, Reporters
<1> QED
  BY <1>1, <1>3, <1>4 DEF LogInv

(* Every operation keeps the log in step with the devices.                 *)
LEMMA LogStep ==
  ASSUME TypeOK, LogInv, IsFiniteSet(Devices), [LogNext]_logVars
  PROVE  LogInv'
<1>0. \A d \in Devices : devices[d] \in DeviceState
  BY DEF TypeOK
<1>1. ASSUME NEW w \in Workers, NEW obs \in Batches, NEW other, LogIngest(w, obs, other)
      PROVE  LogInv'
  <2>1. ASSUME NEW d \in Devices
        PROVE  change_log' \in Seq(LogRecord) /\ Told(change_log', d, devices'[d])
    BY <1>1, LogIngestApplied, LogIngestOther
  <2>2. change_log' \in Seq(LogRecord)
    <3> DEFINE none == {}
    <3>1. \A recs : Carries(recs, 0, none, 0, 0) /\ LastSays(recs, 0, none, 0)
      BY DEF Carries, LastSays, About
    <3>2. "DEVICE_DISAPPEARED" \notin none
      OBVIOUS
    <3> HIDE DEF none
    <3>3. IngestRecords(w, obs, other) \in Seq(LogRecord)
      BY <3>1, <3>2, IngestCarries DEF LogInv
    <3>4. change_log \in Seq(LogRecord) /\ Log(IngestRecords(w, obs, other))
      BY <1>1 DEF LogInv, LogIngest
    <3> QED
      BY <3>1, <3>3, <3>4, PushedSays
  <2>3. KnownIsReported'
    <3>1. ASSUME NEW d \in Devices, devices'[d].known PROVE devices'[d].boot \in Reporters(d)
      <4>1. CASE d \in AppliedDevices(w, obs)
        <5>1. d \in DevicesOf[w] /\ devices'[d].boot \in BootsOf[w]
          BY <1>1, <4>1, IngestSource DEF LogIngest
        <5> QED
          BY <5>1 DEF Reporters
      <4>2. CASE d \notin AppliedDevices(w, obs)
        <5>1. devices'[d].known = devices[d].known /\ devices'[d].boot = devices[d].boot
          BY <1>0, <1>1, <4>2 DEF LogIngest, IngestSnapshot, Vanished, DeviceState
        <5> QED
          BY <3>1, <5>1 DEF LogInv, KnownIsReported
      <4> QED
        BY <4>1, <4>2
    <3> QED
      BY <3>1 DEF KnownIsReported, Reporters
  <2> QED
    BY <2>1, <2>2, <2>3 DEF LogInv
<1>2. ASSUME NEW e \in Devices, NEW level \in DrainLevels, LogSetDrain(e, level) PROVE LogInv'
  <2> DEFINE kind == IF level = "ACTIVE" THEN "DRAIN_COMPLETED" ELSE "DRAIN_INITIATED"
             new == [devices[e] EXCEPT !.drain = level]
  <2>1. /\ new \in DeviceState /\ new.drain = level /\ new.present = devices[e].present
        /\ new.boot = devices[e].boot
        /\ new.health = devices[e].health /\ new.quarantined = devices[e].quarantined
    BY <1>0, ConstantsAssumption DEF DeviceState
  <2>2. devices' = [devices EXCEPT ![e] = recompute_device_eligibility(new)]
    BY <1>2 DEF LogSetDrain, SetDrain
  <2> HIDE DEF new
  <2>3. /\ \A d \in Devices \ {e} : devices'[d] = devices[d]
        /\ devices'[e] = recompute_device_eligibility(new)
    BY <2>2 DEF TypeOK
  <2>4. /\ devices'[e].drain = level /\ devices'[e].present = devices[e].present
        /\ devices'[e].health = devices[e].health
        /\ devices'[e].quarantined = devices[e].quarantined
        /\ devices'[e].boot = devices[e].boot
    BY <2>1, <2>3, RecomputeAxes
  <2>5. kind \in DrainKinds /\ kind \notin QuarantineKinds /\ level \in LogValue
    BY ConstantsAssumption DEF DrainKinds, QuarantineKinds, LogValue
  <2>6. devices[e].known /\ Log(When(TRUE, ChangeRecord(kind, device_id(e), e, level)))
    BY <1>2 DEF LogSetDrain, SetDrain, When
  <2> HIDE DEF kind
  <2> QED
    BY <2>3, <2>4, <2>5, <2>6, AdminRecorded
<1>3. ASSUME NEW e \in Devices, NEW c \in BOOLEAN, NEW flag \in BOOLEAN, NEW kind \in QuarantineKinds,
             devices' = [devices EXCEPT ![e] =
               recompute_device_eligibility([@ EXCEPT !.quarantined = flag])],
             devices[e].known, Log(When(c, ChangeRecord(kind, device_id(e), e, Flag(flag)))),
             ~c => devices[e].quarantined = flag
      PROVE  LogInv'
  <2> DEFINE new == [devices[e] EXCEPT !.quarantined = flag]
  <2>1. /\ new \in DeviceState /\ new.quarantined = flag /\ new.present = devices[e].present
        /\ new.boot = devices[e].boot
        /\ new.health = devices[e].health /\ new.drain = devices[e].drain
    BY <1>0 DEF DeviceState
  <2>2. devices' = [devices EXCEPT ![e] = recompute_device_eligibility(new)]
    BY <1>3
  <2> HIDE DEF new
  <2>3. /\ \A d \in Devices \ {e} : devices'[d] = devices[d]
        /\ devices'[e] = recompute_device_eligibility(new)
    BY <2>2 DEF TypeOK
  <2>4. /\ devices'[e].quarantined = flag /\ devices'[e].present = devices[e].present
        /\ devices'[e].health = devices[e].health /\ devices'[e].drain = devices[e].drain
        /\ devices'[e].boot = devices[e].boot
    BY <2>1, <2>3, RecomputeAxes
  <2>5. kind \notin DrainKinds /\ Flag(flag) \in LogValue
    BY DEF DrainKinds, QuarantineKinds, Flag, LogValue
  <2> QED
    BY <1>3, <2>3, <2>4, <2>5, AdminRecorded
<1>4. ASSUME NEW e \in Devices, NEW g \in QuarantineGens, LogSetQuarantine(e, g) PROVE LogInv'
  <2>1. (~devices[e].quarantined) \in BOOLEAN /\ devices[e].quarantined \in BOOLEAN
    BY <1>0 DEF DeviceState
  <2>2. /\ devices[e].known
        /\ Log(When(~devices[e].quarantined,
                    ChangeRecord("QUARANTINE_APPLIED", device_id(e), e, Flag(TRUE))))
    BY <1>4 DEF LogSetQuarantine, SetQuarantine, Flag
  <2>3. "QUARANTINE_APPLIED" \in QuarantineKinds
    BY DEF QuarantineKinds
  <2>4. devices' = [devices EXCEPT ![e] =
          recompute_device_eligibility([@ EXCEPT !.quarantined = TRUE])]
    BY <1>4 DEF LogSetQuarantine, SetQuarantine
  <2> QED
    BY <1>3, <2>1, <2>2, <2>3, <2>4
<1>5. ASSUME NEW e \in Devices, NEW ep \in 1..MaxEpoch, LogClearQuarantine(e, ep) PROVE LogInv'
  <2>1. /\ devices[e].known
        /\ Log(When(TRUE, ChangeRecord("QUARANTINE_CLEARED", device_id(e), e, Flag(FALSE))))
    BY <1>5 DEF LogClearQuarantine, ClearQuarantine, Flag, When
  <2>2. "QUARANTINE_CLEARED" \in QuarantineKinds
    BY DEF QuarantineKinds
  <2>3. devices' = [devices EXCEPT ![e] =
          recompute_device_eligibility([@ EXCEPT !.quarantined = FALSE])]
    BY <1>5 DEF LogClearQuarantine, ClearQuarantine
  <2> QED
    BY <1>3, <2>1, <2>2, <2>3
<1>6. ASSUME UNCHANGED logVars PROVE LogInv'
  BY <1>6 DEF LogInv, Told, KnownIsReported, Reporters, logVars, vars
<1> QED
  BY <1>1, <1>2, <1>4, <1>5, <1>6, UnloggedKept DEF LogNext

(* Every step of the logged store is a step of the store.                  *)
LEMMA LogNextIsNext == LogNext => Next
BY DEF LogNext, Next, LogIngest, LogSetDrain, LogSetQuarantine, LogClearQuarantine, Unlogged,
       RegisterWorker

(* The newest record of a stable id is the last one about its device.      *)
LEMMA NewestIsLast ==
  ASSUME LogInv, NEW i \in DOMAIN change_log, StableId(change_log[i].device_id),
         NEW kinds, Newest(i, kinds), NEW v, LastSays(change_log, change_log[i].dev, kinds, v)
  PROVE  change_log[i].to = v
<1> DEFINE n == Len(change_log)
           d == change_log[i].dev
           id == change_log[i].device_id
<1>1. /\ n \in Nat /\ DOMAIN change_log = 1..n
      /\ \A j \in 1..n : change_log[j] \in LogRecord
  BY LenProperties, ElementOfSeq DEF LogInv
<1>2. PICK b \in Reporters(d) : id = DeviceIdOf[b][d]
  BY <1>1 DEF LogRecord, IdsOf
<1>3. d \in Devices
  BY <1>1 DEF LogRecord
<1>4. ASSUME NEW j \in (i + 1)..n PROVE ~About(change_log[j], d, kinds)
  <2>1. j \in 1..n
    BY <1>1
  <2>2. ASSUME change_log[j].dev = d PROVE change_log[j].device_id = id
    <3>1. PICK c \in Reporters(d) : change_log[j].device_id = DeviceIdOf[c][d]
      BY <1>1, <2>1, <2>2 DEF LogRecord, IdsOf
    <3> QED
      BY <1>2, <1>3, <3>1 DEF StableId
  <2>3. ~(change_log[j].device_id = id /\ change_log[j].kind \in kinds)
    BY <1>1 DEF Newest
  <2> QED
    BY <2>2, <2>3 DEF About
<1>5. About(change_log[i], d, kinds)
  BY DEF About, Newest
<1> QED
  BY <1>1, <1>4, <1>5 DEF LastSays

LEMMA LogInvSays == LogInv => LogAgrees
<1> SUFFICES ASSUME LogInv, NEW i \in DOMAIN change_log, StableId(change_log[i].device_id)
             PROVE  LET r == change_log[i]
                        d == devices[r.dev]
                    IN  /\ Newest(i, DrainKinds) => r.to = d.drain
                        /\ Newest(i, QuarantineKinds) => r.to = Flag(d.quarantined)
                        /\ Newest(i, PresenceKinds) /\ d.present => r.to = "present"
                        /\ Newest(i, HealthKinds) /\ d.present => r.to = d.health
  BY DEF LogAgrees
<1>1. change_log[i].dev \in Devices
  BY LenProperties, ElementOfSeq DEF LogInv, LogRecord
<1>2. Told(change_log, change_log[i].dev, devices[change_log[i].dev])
  BY <1>1 DEF LogInv
<1> QED
  BY <1>2, NewestIsLast DEF Told

(* LogInv is inductive together with the types of the store.               *)
LEMMA LogInvariant ==
  ASSUME IsFiniteSet(Devices)
  PROVE  LogSpec => []LogInv
<1>1. LogInit => TypeOK /\ LogInv
  <2> SUFFICES ASSUME LogInit PROVE TypeOK /\ LogInv
    OBVIOUS
  <2>1. TypeOK
    BY TypeInit DEF LogInit
  <2>2. change_log = <<>> /\ Len(<<>>) = 0 /\ <<>> \in Seq(LogRecord)
    BY DEF LogInit
  <2>3. \A d \in Devices : ~devices[d].present /\ ~devices[d].known
    BY DEF LogInit, Init, NewDevice
  <2> QED
    BY <2>1, <2>2, <2>3 DEF LogInv, KnownIsReported, Told, LastSays
<1>2. TypeOK /\ LogInv /\ [LogNext]_logVars => (TypeOK /\ LogInv)'
  <2> SUFFICES ASSUME TypeOK, LogInv, [LogNext]_logVars PROVE TypeOK' /\ LogInv'
    OBVIOUS
  <2>1. [Next]_vars
    BY LogNextIsNext DEF logVars, vars
  <2>2. TypeOK'
    BY <2>1, TypeStep
  <2>3. LogInv'
    BY LogStep
  <2> QED
    BY <2>2, <2>3
<1> QED
  BY <1>1, <1>2, PTL DEF LogSpec

(* The newest records of a stable device id say how the device they were   *)
(* made for is: its drain level and quarantine always, its presence and    *)
(* health while it is present; whatever batches arrive, however many       *)
(* devices share the id and however many records the limit has dropped.  A *)
(* store has finitely many devices.                                        *)
THEOREM LogTellsTheTruth ==
  ASSUME IsFiniteSet(Devices)
  PROVE  LogSpec => []LogAgrees
BY LogInvariant, LogInvSays, PTL
===============================================================================
