--------------------------- MODULE DecisionEngine ---------------------------
(***************************************************************************)
(* pkg/decision: what may be done to a pod, how much is gained by it, and  *)
(* the action that follows.  Factors are in thousandths, scores and        *)
(* thresholds in millionths.                                               *)
(***************************************************************************)
EXTENDS IdleDetection

CONSTANTS
  FullReclaimScoreThreshold, SoftReclaimScoreThreshold,
  WeightCPU, WeightMemory, WeightBenefit, WeightPriority, WeightState, WeightReplica,
  MaxPriorityForReclaim, MinReplicasRequired,
  BenefitMaxCPU, BenefitMaxMem

ASSUME DecisionAssumption ==
  /\ {FullReclaimScoreThreshold, SoftReclaimScoreThreshold} \subseteq Int
  /\ {WeightCPU, WeightMemory, WeightBenefit, WeightPriority, WeightState,
      WeightReplica} \subseteq Int
  /\ {MaxPriorityForReclaim, MinReplicasRequired, BenefitMaxCPU, BenefitMaxMem} \subseteq Int

(* What the API server says of a pod, beside its metrics.  Available is -1 *)
(* for a pod whose owner keeps no replicas, disruptions -1 where no        *)
(* PodDisruptionBudget applies.                                            *)
Traits == [protected : BOOLEAN, critical : BOOLEAN, priority : Int, disruptions : Int,
           available : Int, optIn : BOOLEAN, phase : {"Running", "Other"},
           owner : {"", "Deployment", "ReplicaSet", "StatefulSet"},
           checkpointable : {"true", "false", "absent"}]

(* The checks of evaluateCapabilities that block every action.             *)
Protected(t) == t.protected
PriorityBlocks(t) == t.critical \/ t.priority >= MaxPriorityForReclaim
DisruptionBlocks(t) == t.disruptions = 0
ReplicasBlock(t) ==
  t.available # -1 /\ ~t.optIn /\ t.available - 1 < MinReplicasRequired
PhaseBlocks(t) == t.phase # "Running"

SoftReclaimAllowed(t) ==
  ~(Protected(t) \/ PriorityBlocks(t) \/ DisruptionBlocks(t) \/ ReplicasBlock(t)
      \/ PhaseBlocks(t))

(* Two more that block a checkpoint.                                       *)
FullReclaimAllowed(t) ==
  /\ SoftReclaimAllowed(t)
  /\ t.checkpointable # "false"
  /\ t.owner = "StatefulSet" => t.checkpointable = "true"

----------------------------------------------------------------------------
Clamp(v, lo, hi) == IF v < lo THEN lo ELSE IF v > hi THEN hi ELSE v

ScoreUtilization(util) ==
  IF util = Unavailable THEN 500 ELSE Clamp(1000 - util, 0, 1000)

BenefitFactor(amount, max) == IF max > 0 THEN Clamp((amount * 1000) \div max, 0, 1000) ELSE 0

ScoreBenefit(cpu, mem) ==
  (BenefitFactor(cpu, BenefitMaxCPU) + BenefitFactor(mem, BenefitMaxMem)) \div 2

ScoreReplica(available) ==
  IF available <= 1 THEN 0
  ELSE IF available = 2 THEN 500 ELSE IF available = 3 THEN 800 ELSE 1000

ScorePriority(priority) ==
  IF MaxPriorityForReclaim <= 0 THEN 1000
  ELSE Clamp(1000 - (priority * 1000) \div MaxPriorityForReclaim, 0, 1000)

ScoreState(t) ==
  IF t.phase # "Running" THEN 200
  ELSE IF t.owner \in {"Deployment", "ReplicaSet"} THEN 1000
  ELSE IF t.owner = "StatefulSet" THEN 400 ELSE 600

(* Idle time, disruptions and checkpoint have factors, but no weight here. *)
ComputeScore(profile, t) ==
  WeightCPU * ScoreUtilization(profile.cpu) + WeightMemory * ScoreUtilization(profile.mem)
    + WeightBenefit * ScoreBenefit(profile.freeCPU, profile.freeMem)
    + WeightPriority * ScorePriority(t.priority) + WeightState * ScoreState(t)
    + WeightReplica * ScoreReplica(t.available)

(* TrainedWeights.Validate and Sum, of the six weights that are used.  A   *)
(* ReclaimPolicy's weights are taken as given.                             *)
ValidWeights ==
  {WeightCPU, WeightMemory, WeightBenefit, WeightPriority, WeightState, WeightReplica}
    \subseteq Nat
WeightSum ==
  WeightCPU + WeightMemory + WeightBenefit + WeightPriority + WeightState + WeightReplica

(* Mutation of SelectAction: the score alone selects a full reclaim.       *)
SelectActionByScore(score, full, soft) ==
  IF score >= FullReclaimScoreThreshold THEN "FULL"
  ELSE IF score >= SoftReclaimScoreThreshold /\ soft THEN "SOFT" ELSE "KEEP"

SelectAction(score, full, soft) ==
  IF score >= FullReclaimScoreThreshold
    THEN IF full THEN "FULL" ELSE IF soft THEN "SOFT" ELSE "KEEP"
    ELSE IF score >= SoftReclaimScoreThreshold
           THEN IF soft THEN "SOFT" ELSE IF full THEN "FULL" ELSE "KEEP"
           ELSE "KEEP"

Decision == [action : {"KEEP", "SOFT", "FULL"}, score : Int]

(* Engine.Evaluate: no score is computed for a pod nothing may be done to. *)
Evaluate(profile, t) ==
  LET full == FullReclaimAllowed(t)
      soft == SoftReclaimAllowed(t)
      score == ComputeScore(profile, t)
  IN  IF ~full /\ ~soft
        THEN [action |-> "KEEP", score |-> 0]
        ELSE [action |-> SelectAction(score, full, soft), score |-> score]
=============================================================================
