------------------------------ MODULE MCBusyPods ------------------------------
(* The loop with a count of what its pods really do.                       *)
EXTENDS MCReclaim

VARIABLE busyFor       \* latest scrapes at which a pod was really busy

BusyInit == Init /\ busyFor = [x \in Pod |-> 0]

CountBusy ==
  busyFor' = [x \in Pod |-> IF ~running[x] \/ Inactive(load[x]) THEN 0
                            ELSE Older(busyFor[x], MinIdleDuration)]

BusyNext ==
  \/ (\E queries \in Answers : BeginScrape(queries)) /\ CountBusy
  \/ /\ StepBetweenScrapes
     /\ busyFor' = [x \in Pod |-> IF running'[x] THEN busyFor[x] ELSE 0]

BusySpec == BusyInit /\ [][BusyNext]_<<vars, busyFor>>

(* "A workload is considered inactive if and only if all three dynamic     *)
(* signals stay below thresholds": a pod that was busy at every scrape of  *)
(* the idle duration is not reclaimed.  It is, when the CPU query fails.   *)
BusyPodIsLeftAlone ==
  \A x \in Pod :
    running[x] /\ (Decided(x, "SOFT") \/ Decided(x, "FULL")) => busyFor[x] < MinIdleDuration
=============================================================================
