---------------------------- MODULE RollingWindow ----------------------------
(***************************************************************************)
(* window.go of pkg/metrics: the ring buffer that keeps the latest samples *)
(* of a pod.                                                               *)
(***************************************************************************)
EXTENDS Integers, Sequences

CONSTANT Capacity

ASSUME WindowAssumption == Capacity \in Nat \ {0}

Sample == [cpu : Nat, mem : Nat, net : Nat, qps : Nat]
Zero == [cpu |-> 0, mem |-> 0, net |-> 0, qps |-> 0]

Slot == 0 .. Capacity - 1

MetricWindow == [samples : [Slot -> Sample], head : Slot, count : 0 .. Capacity]

NewMetricWindow == [samples |-> [i \in Slot |-> Zero], head |-> 0, count |-> 0]

AddSample(w, s) ==
  [samples |-> [w.samples EXCEPT ![w.head] = s],
   head    |-> (w.head + 1) % Capacity,
   count   |-> IF w.count < Capacity THEN w.count + 1 ELSE w.count]

(* Mutation of GetSamples: from the start of the buffer, full or not.      *)
GetSamplesFromStart(w) == [i \in 1 .. w.count |-> w.samples[i - 1]]

(* Oldest first.                                                           *)
GetSamples(w) ==
  IF w.count < Capacity
    THEN [i \in 1 .. w.count |-> w.samples[i - 1]]
    ELSE [i \in 1 .. Capacity |-> w.samples[(w.head + i - 1) % Capacity]]

(* What the buffer promises: a sample is added at the end and the oldest   *)
(* one makes room for it.                                                  *)
Push(q, s) == IF Len(q) < Capacity THEN Append(q, s) ELSE Append(Tail(q), s)
=============================================================================
