--------------------------- MODULE EvaluatorsProofs ---------------------------
(***************************************************************************)
(* The decision lists for every combination of bad signals, where the run  *)
(* takes up to MaxBad of them together.                                    *)
(***************************************************************************)
EXTENDS MCEvaluators, FiniteSetTheorems, TLAPS

(* The failure counter reaches its threshold exactly when all three        *)
(* failures have been counted.                                             *)
LEMMA FailuresCounted ==
  ASSUME NEW b
  PROVE  Cardinality(b \cap Failures) >= failure_threshold <=> Failures \subseteq b
<1>1. IsFiniteSet({"fail1"}) /\ Cardinality({"fail1"}) = 1
  BY FS_Singleton
<1>2. IsFiniteSet({"fail1", "fail2"}) /\ Cardinality({"fail1", "fail2"}) = 2
  <2>1. {"fail1", "fail2"} = {"fail1"} \cup {"fail2"} /\ "fail2" \notin {"fail1"}
    OBVIOUS
  <2>2. /\ IsFiniteSet({"fail1"} \cup {"fail2"})
        /\ Cardinality({"fail1"} \cup {"fail2"}) = Cardinality({"fail1"}) + 1
    BY <1>1, <2>1, FS_AddElement
  <2> QED
    BY <1>1, <2>1, <2>2
<1>3. IsFiniteSet(Failures) /\ Cardinality(Failures) = 3
  <2>1. Failures = {"fail1", "fail2"} \cup {"fail3"} /\ "fail3" \notin {"fail1", "fail2"}
    BY DEF Failures
  <2>2. /\ IsFiniteSet({"fail1", "fail2"} \cup {"fail3"})
        /\ Cardinality({"fail1", "fail2"} \cup {"fail3"}) = Cardinality({"fail1", "fail2"}) + 1
    BY <1>2, <2>1, FS_AddElement
  <2> QED
    BY <1>2, <2>1, <2>2
<1> DEFINE counted == b \cap Failures
<1>4. counted \in SUBSET Failures
  OBVIOUS
<1>5. /\ IsFiniteSet(counted)
      /\ Cardinality(counted) <= Cardinality(Failures)
      /\ Cardinality(Failures) = Cardinality(counted) => Failures = counted
  BY <1>3, <1>4, FS_Subset
<1>6. Cardinality(counted) \in Nat
  BY <1>5, FS_CardinalityType
<1>7. Failures = counted <=> Failures \subseteq b
  OBVIOUS
<1> HIDE DEF counted
<1>8. Cardinality(counted) >= 3 <=> Failures = counted
  BY <1>3, <1>5, <1>6
<1> QED
  BY <1>7, <1>8 DEF counted, failure_threshold

(* evaluate_health without its order: what makes a device HEALTHY, and     *)
(* what makes it DEGRADED.                                                 *)
LEMMA HealthMeaning ==
  ASSUME NEW b
  PROVE  LET sound == /\ b \cap {"quarantined", "drained", "absent", "fatal", "driver",
                                 "cuda", "stale"} = {}
                      /\ b \cap CoreSteps = {}
                      /\ ~(Failures \subseteq b)
         IN  /\ HealthOf(b) = "HEALTHY" <=> sound /\ b \cap Limits = {}
             /\ HealthOf(b) = "DEGRADED" <=> sound /\ b \cap Limits # {}
BY FailuresCounted DEF HealthOf, evaluate_health, core_ok, CoreSteps, Limits

(* When no gate is shut, health decides.                                   *)
LEMMA OpenGates ==
  ASSUME NEW b, b \cap (Gates \ {"fatal"}) = {}
  PROVE  DecisionOf(b) = health_decision(HealthOf(b))
<1>1. /\ "quarantined" \notin b /\ "drained" \notin b /\ "absent" \notin b
      /\ b \cap {"driver", "cuda"} = {} /\ "stale" \notin b
      /\ "restarted" \notin b /\ "dead" \notin b /\ "generation" \notin b
      /\ "driver_version" \notin b /\ "architecture" \notin b
      /\ "memory" \notin b /\ "capability" \notin b
  BY DEF Gates
<1> QED
  BY <1>1 DEF DecisionOf, evaluate_eligibility

(* evaluate_eligibility asks health only when no gate is shut.             *)
LEMMA DecisionMeaning ==
  ASSUME NEW b
  PROVE  LET open == b \cap (Gates \ {"fatal"}) = {}
         IN  /\ DecisionOf(b).state = "ELIGIBLE" <=> open /\ HealthOf(b) = "HEALTHY"
             /\ DecisionOf(b).state = "DEGRADED_ELIGIBLE" <=> open /\ HealthOf(b) = "DEGRADED"
<1>1. LET d == health_decision(HealthOf(b)) IN
        /\ d.state = "ELIGIBLE" <=> HealthOf(b) = "HEALTHY"
        /\ d.state = "DEGRADED_ELIGIBLE" <=> HealthOf(b) = "DEGRADED"
  BY DEF health_decision, baseline_eligibility, Decision
<1> DEFINE open == b \cap (Gates \ {"fatal"}) = {}
<1>2. open => DecisionOf(b) = health_decision(HealthOf(b))
  BY OpenGates
<1>3. ~open => DecisionOf(b).state \in {"QUARANTINED", "DRAINING", "STALE", "INELIGIBLE"}
  BY DEF DecisionOf, evaluate_eligibility, Decision, Gates
<1> HIDE DEF open
<1>4. /\ DecisionOf(b).state = "ELIGIBLE" <=> open /\ HealthOf(b) = "HEALTHY"
      /\ DecisionOf(b).state = "DEGRADED_ELIGIBLE" <=> open /\ HealthOf(b) = "DEGRADED"
  BY <1>1, <1>2, <1>3
<1> QED
  BY <1>4 DEF open


(* A device is placeable exactly on the unordered conditions.              *)
LEMMA PlaceableMeaning ==
  ASSUME NEW b
  PROVE  /\ DecisionOf(b).state = "ELIGIBLE" <=> ~Disqualified(b) /\ b \cap Limits = {}
         /\ DecisionOf(b).state = "DEGRADED_ELIGIBLE" <=> ~Disqualified(b) /\ b \cap Limits # {}
<1> DEFINE sound == /\ b \cap {"quarantined", "drained", "absent", "fatal", "driver",
                                "cuda", "stale"} = {}
                    /\ b \cap CoreSteps = {}
                    /\ ~(Failures \subseteq b)
           open == b \cap (Gates \ {"fatal"}) = {}
<1>1. open /\ sound <=> ~Disqualified(b)
  BY DEF Disqualified, Gates
<1>2. /\ HealthOf(b) = "HEALTHY" <=> sound /\ b \cap Limits = {}
      /\ HealthOf(b) = "DEGRADED" <=> sound /\ b \cap Limits # {}
  BY HealthMeaning
<1>3. /\ DecisionOf(b).state = "ELIGIBLE" <=> open /\ HealthOf(b) = "HEALTHY"
      /\ DecisionOf(b).state = "DEGRADED_ELIGIBLE" <=> open /\ HealthOf(b) = "DEGRADED"
  BY DecisionMeaning
<1> HIDE DEF sound, open
<1> QED
  BY <1>1, <1>2, <1>3

(* However many signals are bad together, the ordered decision lists agree *)
(* with the unordered reference.                                           *)
THEOREM DecisionsMatchReference == Spec => []DecisionMatchesReference
<1>1. DecisionMatchesReference
  BY PlaceableMeaning DEF DecisionMatchesReference
<1> QED
  BY <1>1, PTL

(* Where health decides, its reason is a bad signal health looked at.      *)
LEMMA HealthReason ==
  ASSUME NEW b
  PROVE  LET d == health_decision(HealthOf(b)) IN
         b \cap {"quarantined", "drained", "absent", "driver", "cuda", "stale"} = {} =>
           IF d.reason = "NONE" THEN d.state = "ELIGIBLE"
                                ELSE Culprits(d.reason) \cap b # {}
<1> DEFINE d == health_decision(HealthOf(b))
<1> SUFFICES ASSUME b \cap {"quarantined", "drained", "absent", "driver", "cuda", "stale"} = {}
             PROVE  IF d.reason = "NONE" THEN d.state = "ELIGIBLE"
                                         ELSE Culprits(d.reason) \cap b # {}
  OBVIOUS
<1>1. \/ HealthOf(b) = "HEALTHY"
      \/ HealthOf(b) = "DEGRADED" /\ b \cap Limits # {}
      \/ HealthOf(b) = "UNHEALTHY" /\ b \cap ({"fatal"} \cup Failures \cup CoreSteps) # {}
      \/ HealthOf(b) = "RECOVERING" /\ b \cap CoreSteps # {}
  <2>1. Failures \subseteq b => b \cap Failures # {}
    BY DEF Failures
  <2> QED
    BY <2>1, FailuresCounted DEF HealthOf, evaluate_health, core_ok, CoreSteps, Limits
<1>2. CASE HealthOf(b) = "HEALTHY"
  BY <1>2 DEF health_decision, baseline_eligibility, Decision
<1>3. CASE HealthOf(b) = "DEGRADED" /\ b \cap Limits # {}
  <2>1. d.reason = "HEALTH_FAILURE"
    BY <1>3 DEF health_decision, baseline_eligibility, Decision
  <2>2. Limits \subseteq Culprits("HEALTH_FAILURE")
    BY DEF Culprits
  <2> HIDE DEF d
  <2> QED
    BY <1>3, <2>1, <2>2
<1>4. CASE HealthOf(b) = "UNHEALTHY" /\ b \cap ({"fatal"} \cup Failures \cup CoreSteps) # {}
  <2>1. d.reason = "HEALTH_FAILURE"
    BY <1>4 DEF health_decision, baseline_eligibility, Decision
  <2>2. {"fatal"} \cup Failures \cup CoreSteps \subseteq Culprits("HEALTH_FAILURE")
    BY DEF Culprits
  <2> HIDE DEF d
  <2> QED
    BY <1>4, <2>1, <2>2
<1>5. CASE HealthOf(b) = "RECOVERING" /\ b \cap CoreSteps # {}
  <2>1. d.reason = "STALE_OBSERVATION"
    BY <1>5 DEF health_decision, baseline_eligibility, Decision
  <2>2. CoreSteps \subseteq Culprits("STALE_OBSERVATION")
    BY DEF Culprits
  <2> HIDE DEF d
  <2> QED
    BY <1>5, <2>1, <2>2
<1> QED
  BY <1>1, <1>2, <1>3, <1>4, <1>5

(* A shut gate is named by the reason, and the first one wins.             *)
LEMMA GateReason ==
  ASSUME NEW b, b \cap (Gates \ {"fatal"}) # {}
  PROVE  LET d == DecisionOf(b) IN
         d.reason # "NONE" /\ Culprits(d.reason) \cap b # {}
<1>1. \/ "quarantined" \in b \/ "drained" \in b \/ "absent" \in b
      \/ b \cap {"driver", "cuda"} # {} \/ "stale" \in b
      \/ "restarted" \in b \/ "dead" \in b \/ "generation" \in b
      \/ "driver_version" \in b \/ "architecture" \in b
      \/ "memory" \in b \/ "capability" \in b
  BY DEF Gates
<1> DEFINE authority == /\ "quarantined" \notin b /\ "drained" \notin b
                        /\ "restarted" \notin b /\ "dead" \notin b
                        /\ "generation" \notin b /\ "stale" \notin b
<1>2. ASSUME ~authority
      PROVE  \/ DecisionOf(b).reason = "QUARANTINE" /\ "quarantined" \in b
             \/ DecisionOf(b).reason = "DRAIN_POLICY" /\ "drained" \in b
             \/ DecisionOf(b).reason = "WORKER_RESTART" /\ ("restarted" \in b \/ "dead" \in b)
             \/ DecisionOf(b).reason = "GENERATION_MISMATCH" /\ "generation" \in b
             \/ DecisionOf(b).reason = "STALE_OBSERVATION" /\ "stale" \in b
  BY <1>2 DEF DecisionOf, evaluate_eligibility, Decision
<1>3. ASSUME authority
      PROVE  \/ DecisionOf(b).reason = "DEVICE_DISAPPEARANCE" /\ "absent" \in b
             \/ DecisionOf(b).reason = "CUDA_UNAVAILABLE" /\ b \cap {"driver", "cuda"} # {}
             \/ DecisionOf(b).reason = "DRIVER_MISMATCH" /\ "driver_version" \in b
             \/ DecisionOf(b).reason = "ARCHITECTURE_MISMATCH" /\ "architecture" \in b
             \/ DecisionOf(b).reason = "INSUFFICIENT_MEMORY" /\ "memory" \in b
             \/ DecisionOf(b).reason = "CAPABILITY_MISMATCH" /\ "capability" \in b
  BY <1>1, <1>3, ZenonT(60) DEF DecisionOf, evaluate_eligibility, Decision
<1> HIDE DEF authority
<1>4. DecisionOf(b).reason # "NONE" /\ Culprits(DecisionOf(b).reason) \cap b # {}
  BY <1>2, <1>3 DEF Culprits
<1> QED
  BY <1>4

(* No decision short of ELIGIBLE goes unexplained, and no explanation      *)
(* blames a signal that is good, for any set of bad signals.               *)
THEOREM ReasonsNameCulprits == Spec => []ReasonNamesCulprit
<1>1. ASSUME bad \cap (Gates \ {"fatal"}) = {} PROVE ReasonNamesCulprit
  <2>1. bad \cap {"quarantined", "drained", "absent", "driver", "cuda", "stale"} = {}
    BY <1>1 DEF Gates
  <2> QED
    BY <1>1, <2>1, OpenGates, HealthReason DEF ReasonNamesCulprit
<1>2. ASSUME bad \cap (Gates \ {"fatal"}) # {} PROVE ReasonNamesCulprit
  BY <1>2, GateReason DEF ReasonNamesCulprit
<1>3. ReasonNamesCulprit
  BY <1>1, <1>2
<1> QED
  BY <1>3, PTL

(* Losing evidence about a device never makes it HEALTHY, placeable or     *)
(* fully eligible, in whatever order and company the signals go bad.       *)
THEOREM EvidenceLossOnlyLowers == Spec => EvidenceLossNeverRaises
<1> DEFINE Lowers ==
      /\ HealthOf(bad') = "HEALTHY" => HealthOf(bad) = "HEALTHY"
      /\ DecisionOf(bad').state \in Usable => DecisionOf(bad).state \in Usable
      /\ DecisionOf(bad').state = "ELIGIBLE" => DecisionOf(bad).state = "ELIGIBLE"
<1>1. [Next]_bad => [Lowers]_bad
  <2> SUFFICES ASSUME bad \subseteq bad' PROVE Lowers
    BY DEF Next, LoseEvidence
  <2>1. HealthOf(bad') = "HEALTHY" => HealthOf(bad) = "HEALTHY"
    BY HealthMeaning
  <2>2. /\ Disqualified(bad) => Disqualified(bad')
        /\ bad' \cap Limits = {} => bad \cap Limits = {}
    BY DEF Disqualified
  <2> QED
    BY <2>1, <2>2, PlaceableMeaning DEF Usable
<1> HIDE DEF Lowers
<1>2. Spec => [][Lowers]_bad
  BY <1>1, PTL DEF Spec
<1> QED
  BY <1>2 DEF EvidenceLossNeverRaises, Lowers
=============================================================================
