---------------------------- MODULE IdleDetection ----------------------------
(***************************************************************************)
(* pkg/analyzer and pkg/detector: a pod's metrics and its window become a  *)
(* profile, and the profile a class.  Amounts are whole numbers; ratios    *)
(* are in thousandths, rounded down.                                       *)
(***************************************************************************)
EXTENDS RollingWindow

CONSTANTS
  CPUIdleThreshold, MemoryIdleThreshold,     \* the detector's: thousandths of the request
  QPSIdleThreshold, NetIdleThreshold,
  IdleCPUMillicores, IdleNetBytesPerSec, IdleQPSThreshold,   \* the analyzer's, per sample
  MinIdleDuration, MinSampleCount

Unavailable == -1

Average(samples, signal) ==
  LET total[i \in 0 .. Len(samples)] ==
        IF i = 0 THEN 0 ELSE total[i - 1] + samples[i][signal]
  IN  IF samples = <<>> THEN 0 ELSE total[Len(samples)] \div Len(samples)

IsConsistentlyBelowThresholds(samples) ==
  /\ samples # <<>>
  /\ \A i \in DOMAIN samples :
       /\ samples[i].cpu <= IdleCPUMillicores
       /\ samples[i].net <= IdleNetBytesPerSec
       /\ samples[i].qps <= IdleQPSThreshold

(* A pod without a request has no utilization.                             *)
Utilization(actual, requested) ==
  IF requested <= 0 THEN Unavailable ELSE (actual * 1000) \div requested

Reclaimable(requested, used) == IF requested > used THEN requested - used ELSE 0

(* pod holds the usage of the last scrape, the requests and the time the   *)
(* pod has been idle; the samples may be younger than it, and latest, what *)
(* a second look at the window finds, younger still.                       *)
Analyze(pod, samples, latest) ==
  [cpu        |-> Utilization(pod.usage.cpu, pod.requests.cpu),
   mem        |-> Utilization(pod.usage.mem, pod.requests.mem),
   net        |-> Average(samples, "net"),
   qps        |-> Average(samples, "qps"),
   count      |-> Len(samples),
   consistent |-> IsConsistentlyBelowThresholds(latest),
   idleFor    |-> pod.idleFor,
   freeCPU    |-> Reclaimable(pod.requests.cpu, Average(samples, "cpu")),
   freeMem    |-> Reclaimable(pod.requests.mem, Average(samples, "mem"))]

Active(profile) ==
  \/ profile.cpu # Unavailable /\ profile.cpu >= CPUIdleThreshold
  \/ profile.mem # Unavailable /\ profile.mem >= MemoryIdleThreshold
  \/ profile.qps > QPSIdleThreshold
  \/ profile.net >= NetIdleThreshold

Classify(profile) ==
  IF Active(profile) THEN "ACTIVE"
  ELSE IF /\ profile.idleFor >= MinIdleDuration
          /\ profile.count >= MinSampleCount
          /\ profile.consistent
         THEN "IDLE" ELSE "LOW_USAGE"
=============================================================================
