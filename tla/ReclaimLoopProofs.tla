-------------------------- MODULE ReclaimLoopProofs --------------------------
(***************************************************************************)
(* Theorems about ReclaimLoop, for any pods, loads, thresholds, weights,   *)
(* times and capacity of the window.                                       *)
(***************************************************************************)
EXTENDS ReclaimLoop, FiniteSetTheorems, NaturalsInduction, SequenceTheorems, WellFoundedInduction,
        TLAPS

----------------------------------------------------------------------------
(* The ring buffer.                                                        *)

(* Where a full or a partly filled buffer has its i-th oldest sample.      *)
Position(w, i) ==
  IF w.count < Capacity THEN i - 1
  ELSE IF w.head + i - 1 < Capacity THEN w.head + i - 1 ELSE w.head + i - 1 - Capacity

(* The window w holds the samples q, which are in S.                       *)
HoldsIn(w, q, S) ==
  /\ w \in [samples : [Slot -> S], head : Slot, count : 0 .. Capacity]
  /\ q \in Seq(S) /\ Len(q) = w.count
  /\ w.count < Capacity => w.head = w.count
  /\ \A i \in 1 .. w.count : q[i] = w.samples[Position(w, i)]

Holds(w, q) == \E S : HoldsIn(w, q, S)

LEMMA ModBelowTwice ==
  ASSUME NEW x \in Nat, x < 2 * Capacity
  PROVE  x % Capacity = IF x < Capacity THEN x ELSE x - Capacity
BY WindowAssumption

LEMMA SamplesAreThere ==
  ASSUME NEW w, NEW q, Holds(w, q)
  PROVE  GetSamples(w) = q
<1>1. PICK S : HoldsIn(w, q, S)
  BY DEF Holds
<1>2. q \in [1 .. w.count -> S] /\ w.count \in 0 .. Capacity /\ w.head \in 0 .. Capacity - 1
  BY <1>1, LenProperties DEF HoldsIn, Slot
<1>3. CASE w.count < Capacity
  <2>1. \A i \in 1 .. w.count : q[i] = w.samples[i - 1]
    BY <1>1, <1>3 DEF HoldsIn, Position
  <2>2. QED
    BY <1>2, <1>3, <2>1 DEF GetSamples
<1>4. CASE ~(w.count < Capacity)
  <2>1. w.count = Capacity
    BY <1>2, <1>4, WindowAssumption
  <2>2. \A i \in 1 .. Capacity : q[i] = w.samples[(w.head + i - 1) % Capacity]
    <3> SUFFICES ASSUME NEW i \in 1 .. Capacity
                 PROVE  q[i] = w.samples[(w.head + i - 1) % Capacity]
      OBVIOUS
    <3>1. w.head + i - 1 \in Nat /\ w.head + i - 1 < 2 * Capacity
      BY <1>2, WindowAssumption
    <3>2. PICK x \in Nat : x = w.head + i - 1 /\ x < 2 * Capacity
      BY <3>1
    <3>3. x % Capacity = Position(w, i)
      <4>1. Position(w, i) = IF x < Capacity THEN x ELSE x - Capacity
        BY <1>2, <1>4, <3>2, WindowAssumption DEF Position
      <4>2. QED
        BY <3>2, <4>1, ModBelowTwice
    <3>4. QED
      BY <1>1, <2>1, <3>2, <3>3 DEF HoldsIn
  <2>3. QED
    BY <1>2, <1>4, <2>1, <2>2 DEF GetSamples
<1>5. QED
  BY <1>3, <1>4

LEMMA NewWindowHoldsNothing == Holds(NewMetricWindow, <<>>)
<1>1. HoldsIn(NewMetricWindow, <<>>, {Zero})
  BY EmptySeq, WindowAssumption DEF HoldsIn, NewMetricWindow, Slot
<1>2. QED
  BY <1>1 DEF Holds

LEMMA HeldIsAList ==
  ASSUME NEW w, NEW q, Holds(w, q)
  PROVE  Len(q) \in Nat
<1>1. PICK S : HoldsIn(w, q, S)
  BY DEF Holds
<1>2. QED
  BY <1>1, LenProperties DEF HoldsIn

LEMMA SampleIsAdded ==
  ASSUME NEW w, NEW q, NEW s, Holds(w, q)
  PROVE  /\ Holds(AddSample(w, s), Push(q, s))
         /\ Len(q) \in Nat /\ Len(Push(q, s)) \in Nat /\ Len(q) <= Len(Push(q, s))
<1>1. PICK R : HoldsIn(w, q, R)
  BY DEF Holds
<1> DEFINE S == R \cup {s}
           v == AddSample(w, s)
           p == Push(q, s)
<1>2. /\ w \in [samples : [Slot -> S], head : Slot, count : 0 .. Capacity]
      /\ q \in Seq(S) /\ Len(q) = w.count /\ s \in S
      /\ w.count < Capacity => w.head = w.count
      /\ \A i \in 1 .. w.count : q[i] = w.samples[Position(w, i)]
  <2>1. q \in [1 .. Len(q) -> S] /\ Len(q) \in Nat
    BY <1>1, LenProperties DEF HoldsIn
  <2>2. q \in Seq(S)
    BY <2>1, IsASeq
  <2>3. QED
    BY <1>1, <2>2 DEF HoldsIn
<1> HIDE DEF S
<1>3. Capacity \in Nat \ {0}
  BY WindowAssumption
<1>4. w.head \in 0 .. Capacity - 1 /\ w.count \in 0 .. Capacity
  BY <1>2 DEF Slot
<1>5. (w.head + 1) % Capacity = IF w.head + 1 < Capacity THEN w.head + 1 ELSE 0
  <2>1. w.head + 1 \in Nat /\ w.head + 1 < 2 * Capacity
    BY <1>3, <1>4
  <2>2. QED
    BY <1>3, <1>4, ModBelowTwice
<1>6. /\ v \in [samples : [Slot -> S], head : Slot, count : 0 .. Capacity]
      /\ v.head = (IF w.head + 1 < Capacity THEN w.head + 1 ELSE 0)
      /\ v.count = (IF w.count < Capacity THEN w.count + 1 ELSE w.count)
      /\ v.samples[w.head] = s
      /\ \A i \in Slot \ {w.head} : v.samples[i] = w.samples[i]
  BY <1>2, <1>3, <1>4, <1>5 DEF AddSample, Slot
<1> HIDE DEF v
<1>7. CASE w.count < Capacity
  <2>1. p = Append(q, s)
    BY <1>2, <1>7 DEF Push
  <2>2. /\ p \in Seq(S) /\ Len(p) = w.count + 1
        /\ \A i \in 1 .. w.count : p[i] = q[i]
        /\ p[w.count + 1] = s
    BY <1>2, <2>1, AppendProperties
  <2> HIDE DEF p
  <2>3. v.count = w.count + 1 /\ (v.count < Capacity => v.head = v.count)
    BY <1>2, <1>3, <1>4, <1>6, <1>7
  <2>4. ASSUME NEW i \in 1 .. v.count
        PROVE  Position(v, i) = i - 1
    BY <1>2, <1>3, <1>4, <1>6, <1>7, <2>3, <2>4 DEF Position
  <2>5. ASSUME NEW i \in 1 .. v.count
        PROVE  p[i] = v.samples[i - 1]
    <3>1. CASE i = w.count + 1
      BY <1>2, <1>4, <1>6, <1>7, <2>2, <3>1
    <3>2. CASE i # w.count + 1
      <4>1. i \in 1 .. w.count /\ i - 1 \in Slot \ {w.head}
        BY <1>2, <1>3, <1>4, <1>7, <2>3, <3>2 DEF Slot
      <4>2. q[i] = w.samples[i - 1]
        BY <1>2, <1>7, <4>1 DEF Position
      <4>3. QED
        BY <1>6, <2>2, <4>1, <4>2
    <3>3. QED
      BY <3>1, <3>2
  <2>6. HoldsIn(v, p, S)
    BY <1>6, <2>2, <2>3, <2>4, <2>5 DEF HoldsIn
  <2>7. QED
    BY <1>2, <1>4, <2>2, <2>6 DEF Holds, v, p
<1>8. CASE ~(w.count < Capacity)
  <2>1. w.count = Capacity /\ v.count = Capacity
    BY <1>3, <1>4, <1>6, <1>8
  <2>2. q # <<>> /\ p = Append(Tail(q), s)
    BY <1>2, <1>3, <2>1, EmptySeq DEF Push
  <2>3. /\ Tail(q) \in Seq(S) /\ Len(Tail(q)) = Capacity - 1
        /\ \A i \in 1 .. Capacity - 1 : Tail(q)[i] = q[i + 1]
    BY <1>2, <1>3, <2>1, <2>2, HeadTailProperties
  <2>4. /\ p \in Seq(S) /\ Len(p) = Capacity
        /\ \A i \in 1 .. Capacity - 1 : p[i] = q[i + 1]
        /\ p[Capacity] = s
    BY <1>2, <1>3, <2>2, <2>3, AppendProperties
  <2> HIDE DEF p
  <2>5. ASSUME NEW i \in 1 .. Capacity
        PROVE  p[i] = v.samples[Position(v, i)]
    <3>1. CASE i = Capacity
      <4>1. Position(v, i) = w.head
        BY <1>3, <1>4, <1>6, <2>1, <3>1 DEF Position
      <4>2. QED
        BY <1>6, <2>4, <3>1, <4>1
    <3>2. CASE i # Capacity
      <4>1. i + 1 \in 1 .. w.count /\ i \in 1 .. Capacity - 1
        BY <1>3, <2>1, <3>2
      <4>2. Position(v, i) = Position(w, i + 1) /\ Position(w, i + 1) \in Slot \ {w.head}
        <5>1. CASE w.head + 1 < Capacity
          <6>1. v.head = w.head + 1
            BY <1>6, <5>1
          <6>2. QED
            BY <1>3, <1>4, <2>1, <4>1, <5>1, <6>1 DEF Position, Slot
        <5>2. CASE ~(w.head + 1 < Capacity)
          <6>1. v.head = 0 /\ w.head = Capacity - 1
            BY <1>3, <1>4, <1>6, <5>2
          <6>2. QED
            BY <1>3, <2>1, <4>1, <6>1 DEF Position, Slot
        <5>3. QED
          BY <5>1, <5>2
      <4>3. QED
        BY <1>2, <1>6, <2>4, <4>1, <4>2
    <3>3. QED
      BY <3>1, <3>2
  <2>6. HoldsIn(v, p, S)
    BY <1>6, <2>1, <2>4, <2>5 DEF HoldsIn
  <2>7. QED
    BY <1>2, <1>3, <2>1, <2>4, <2>6 DEF Holds, v, p
<1>9. QED
  BY <1>7, <1>8

----------------------------------------------------------------------------
(* The loop.                                                               *)

(* Until the cooldown is over the map knows of the last reclaim; what is   *)
(* looked at or decided is not in its cooldown; what is decided has been   *)
(* earned.                                                                 *)
MapsOK ==
  /\ DOMAIN window = Pod /\ DOMAIN recent = Pod /\ DOMAIN traits = Pod
  /\ running \in [Pod -> BOOLEAN] /\ deleted \in [Pod -> BOOLEAN]
  /\ podEntry \in [Pod -> Age] /\ svcEntry \in [Pod -> Age]
  /\ sinceReclaim \in [Pod -> 0 .. Cooldown]
WindowsHold == \A p \in Pod : Holds(window[p], recent[p])
ReclaimsAreKnown ==
  \A p \in Pod : sinceReclaim[p] < Cooldown => podEntry[p] = sinceReclaim[p]
Earned(p, decision) ==
  /\ decision.action = "FULL" => /\ decision.score >= FullReclaimScoreThreshold
                                 /\ FullReclaimAllowed(loop.view[p].traits)
  /\ decision.action = "SOFT" => /\ \/ decision.score >= SoftReclaimScoreThreshold
                                    \/ decision.score >= FullReclaimScoreThreshold
                                 /\ SoftReclaimAllowed(loop.view[p].traits)
LookHolds == loop.looked # <<>> => sinceReclaim[loop.looked[1]] = Cooldown
DecisionHolds ==
  loop.decided # <<>> => /\ sinceReclaim[loop.decided[1]] = Cooldown
                         /\ Earned(loop.decided[1], loop.decided[2])
LoopOK ==
  /\ DOMAIN loop = {"todo", "view", "looked", "held", "decided"}
  /\ loop.todo \subseteq Pod
  /\ loop.looked # <<>> => loop.looked[1] \in loop.todo
  /\ loop.decided # <<>> => loop.decided[1] \in Pod

(* No deletion is outstanding for the name of a pod that is there, unless  *)
(* the name is used again; so its window, once read, stays in the cache    *)
(* and only grows.                                                         *)
NamesAreFresh == \A p \in Pod : running[p] /\ ~ReusesName(p) => ~deleted[p]
WindowStays ==
  loop.looked # <<>> =>
    LET p == loop.looked[1]
    IN  /\ running[p] /\ ~ReusesName(p) => loop.held
        /\ loop.held => Len(loop.looked[2]) \in 0 .. Len(recent[p])

LoopInv ==
  /\ MapsOK /\ LoopOK /\ WindowsHold /\ ReclaimsAreKnown
  /\ LookHolds /\ DecisionHolds /\ NamesAreFresh /\ WindowStays

LEMMA LoopInvInit ==
  ASSUME Init
  PROVE  LoopInv
<1>1. MapsOK /\ LoopOK
  BY ReclaimAssumption DEF Init, MapsOK, LoopOK, Waiting, Age
<1>2. WindowsHold
  BY NewWindowHoldsNothing DEF Init, WindowsHold
<1>3. ReclaimsAreKnown /\ LookHolds /\ DecisionHolds
  BY ReclaimAssumption DEF Init, ReclaimsAreKnown, LookHolds, DecisionHolds, Waiting
<1>4. NamesAreFresh /\ WindowStays
  BY DEF Init, NamesAreFresh, WindowStays, Waiting
<1>5. QED
  BY <1>1, <1>2, <1>3, <1>4 DEF LoopInv

LEMMA AgesStay ==
  ASSUME NEW age \in Age
  PROVE  /\ Older(age, Cooldown) \in Age
         /\ age \in 0 .. Cooldown => /\ Older(age, Cooldown) \in 0 .. Cooldown
                                     /\ Older(age, Cooldown) < Cooldown => age < Cooldown
         /\ age = Cooldown => Older(age, Cooldown) = Cooldown
BY ReclaimAssumption DEF Older, Age

LEMMA DepartureIsFine ==
  ASSUME LoopInv, NEW p \in Pod, UNCHANGED traits,
         running' = [running EXCEPT ![p] = FALSE],
         deleted' = [deleted EXCEPT ![p] = @ \/ running[p]]
  PROVE  /\ running' \in [Pod -> BOOLEAN] /\ deleted' \in [Pod -> BOOLEAN]
         /\ NamesAreFresh'
         /\ \A q \in Pod : running'[q] => running[q]
<1>1. MapsOK /\ NamesAreFresh
  BY DEF LoopInv
<1>2. running' \in [Pod -> BOOLEAN] /\ \A q \in Pod : running'[q] => running[q] /\ q # p
  BY <1>1 DEF MapsOK
<1>3. (deleted[p] \/ running[p]) \in BOOLEAN
  BY <1>1 DEF MapsOK
<1>4. deleted' \in [Pod -> BOOLEAN] /\ \A q \in Pod : q # p => deleted'[q] = deleted[q]
  BY <1>1, <1>3 DEF MapsOK
<1>5. NamesAreFresh'
  BY <1>1, <1>2, <1>4 DEF NamesAreFresh, ReusesName
<1>6. QED
  BY <1>2, <1>4, <1>5

LEMMA BeginScrapeKeepsInv ==
  ASSUME LoopInv, NEW queries, BeginScrape(queries)
  PROVE  LoopInv'
<1>1. /\ MapsOK /\ LoopOK /\ WindowsHold /\ ReclaimsAreKnown
      /\ LookHolds /\ DecisionHolds /\ NamesAreFresh /\ WindowStays
  BY DEF LoopInv
<1>2. /\ podEntry' = [p \in Pod |-> Older(podEntry[p], Cooldown)]
      /\ svcEntry' = [p \in Pod |-> Older(svcEntry[p], Cooldown)]
      /\ sinceReclaim' = [p \in Pod |-> Older(sinceReclaim[p], Cooldown)]
      /\ UNCHANGED <<running, traits, deleted, window, recent, loop>>
  BY DEF BeginScrape, apiVars, cacheVars
<1>3. \A p \in Pod : sinceReclaim[p] \in Age
  BY <1>1, ReclaimAssumption DEF MapsOK, Age
<1>4. MapsOK'
  BY <1>1, <1>2, <1>3, AgesStay DEF MapsOK
<1>5. ReclaimsAreKnown'
  <2> SUFFICES ASSUME NEW p \in Pod, sinceReclaim'[p] < Cooldown
               PROVE  podEntry'[p] = sinceReclaim'[p]
    BY DEF ReclaimsAreKnown
  <2>1. sinceReclaim[p] < Cooldown
    BY <1>1, <1>2, <1>3, AgesStay DEF MapsOK
  <2>2. podEntry[p] = sinceReclaim[p]
    BY <1>1, <2>1 DEF ReclaimsAreKnown
  <2>3. QED
    BY <1>2, <2>2
<1>6. \A p \in Pod : sinceReclaim[p] = Cooldown => sinceReclaim'[p] = Cooldown
  BY <1>2, <1>3, AgesStay
<1>7. LookHolds'
  BY <1>1, <1>2, <1>6 DEF LoopOK, LookHolds
<1>8. DecisionHolds'
  BY <1>1, <1>2, <1>6 DEF LoopOK, DecisionHolds, Earned
<1>9. LoopOK' /\ WindowsHold' /\ NamesAreFresh' /\ WindowStays'
  BY <1>1, <1>2 DEF LoopOK, WindowsHold, NamesAreFresh, WindowStays, ReusesName
<1>10. QED
  BY <1>4, <1>5, <1>7, <1>8, <1>9 DEF LoopInv

LEMMA RecordSampleKeepsInv ==
  ASSUME LoopInv, NEW p \in Pod, RecordSample(p)
  PROVE  LoopInv'
<1>1. /\ MapsOK /\ LoopOK /\ WindowsHold /\ ReclaimsAreKnown
      /\ LookHolds /\ DecisionHolds /\ NamesAreFresh /\ WindowStays
  BY DEF LoopInv
<1>2. PICK sample :
        /\ window' = [window EXCEPT ![p] = AddSample(@, sample)]
        /\ recent' = [recent EXCEPT ![p] = Push(@, sample)]
  BY DEF RecordSample
<1>3. UNCHANGED <<running, traits, deleted, podEntry, svcEntry, sinceReclaim, loop>>
  BY DEF RecordSample, apiVars, ageVars
<1>4. MapsOK' /\ LoopOK'
  BY <1>1, <1>2, <1>3 DEF MapsOK, LoopOK
<1>5. \A q \in Pod : /\ Holds(window'[q], recent'[q])
                     /\ Len(recent[q]) \in Nat /\ Len(recent'[q]) \in Nat
                     /\ Len(recent[q]) <= Len(recent'[q])
  <2> SUFFICES ASSUME NEW q \in Pod
               PROVE  /\ Holds(window'[q], recent'[q])
                      /\ Len(recent[q]) \in Nat /\ Len(recent'[q]) \in Nat
                      /\ Len(recent[q]) <= Len(recent'[q])
    OBVIOUS
  <2>1. Holds(window[q], recent[q])
    BY <1>1 DEF WindowsHold
  <2>2. CASE q = p
    <3>1. window'[q] = AddSample(window[q], sample) /\ recent'[q] = Push(recent[q], sample)
      BY <1>1, <1>2, <2>2 DEF MapsOK
    <3>2. QED
      BY <2>1, <3>1, SampleIsAdded
  <2>3. CASE q # p
    <3>1. window'[q] = window[q] /\ recent'[q] = recent[q]
      BY <1>1, <1>2, <2>3 DEF MapsOK
    <3>2. Len(recent[q]) \in Nat
      BY <2>1, HeldIsAList
    <3>3. QED
      BY <2>1, <3>1, <3>2
  <2>4. QED
    BY <2>2, <2>3
<1>6. WindowsHold'
  BY <1>5 DEF WindowsHold
<1>7. WindowStays'
  <2> SUFFICES ASSUME loop.looked # <<>>
               PROVE  LET q == loop.looked[1]
                      IN  /\ running[q] /\ ~ReusesName(q) => loop.held
                          /\ loop.held => Len(loop.looked[2]) \in 0 .. Len(recent'[q])
    BY <1>3 DEF WindowStays, ReusesName
  <2> DEFINE q == loop.looked[1]
  <2>1. q \in Pod
    BY <1>1 DEF LoopOK
  <2>2. /\ running[q] /\ ~ReusesName(q) => loop.held
        /\ loop.held => Len(loop.looked[2]) \in 0 .. Len(recent[q])
    BY <1>1 DEF WindowStays
  <2> HIDE DEF q
  <2>3. 0 .. Len(recent[q]) \subseteq 0 .. Len(recent'[q])
    BY <1>5, <2>1
  <2>4. QED
    BY <2>2, <2>3 DEF q
<1>8. ReclaimsAreKnown' /\ LookHolds' /\ DecisionHolds' /\ NamesAreFresh'
  BY <1>1, <1>3 DEF ReclaimsAreKnown, LookHolds, DecisionHolds, Earned, NamesAreFresh,
     ReusesName
<1>9. QED
  BY <1>4, <1>6, <1>7, <1>8 DEF LoopInv

(* Where the entry of the pod that is looked at is dropped, its window is  *)
(* no longer held.                                                         *)
LEMMA HearDeleteKeepsInv ==
  ASSUME LoopInv, NEW p \in Pod, HearDelete(p)
  PROVE  LoopInv'
<1>1. /\ MapsOK /\ LoopOK /\ WindowsHold /\ ReclaimsAreKnown
      /\ LookHolds /\ DecisionHolds /\ NamesAreFresh /\ WindowStays
  BY DEF LoopInv
<1>2. /\ deleted[p] /\ deleted' = [deleted EXCEPT ![p] = FALSE]
      /\ UNCHANGED <<running, traits, podEntry, svcEntry, sinceReclaim>>
  BY DEF HearDelete, apiVars, ageVars
<1>3. \/ UNCHANGED <<window, recent, loop>>
      \/ /\ window' = [window EXCEPT ![p] = NewMetricWindow]
         /\ recent' = [recent EXCEPT ![p] = <<>>]
         /\ loop' = [loop EXCEPT !.held = @ /\ loop.looked[1] # p]
  BY DEF HearDelete, cacheVars
<1>4. MapsOK'
  BY <1>1, <1>2, <1>3 DEF MapsOK
<1>5. /\ LoopOK'
      /\ loop'.looked = loop.looked /\ loop'.decided = loop.decided /\ loop'.view = loop.view
  BY <1>1, <1>3 DEF LoopOK
<1>6. WindowsHold'
  BY <1>1, <1>3, NewWindowHoldsNothing DEF MapsOK, WindowsHold
<1>7. NamesAreFresh'
  BY <1>1, <1>2 DEF MapsOK, NamesAreFresh, ReusesName
<1>8. WindowStays'
  <2>1. CASE UNCHANGED <<window, recent, loop>>
    BY <1>1, <1>2, <2>1 DEF WindowStays, ReusesName
  <2>2. CASE /\ recent' = [recent EXCEPT ![p] = <<>>]
             /\ loop' = [loop EXCEPT !.held = @ /\ loop.looked[1] # p]
    <3> SUFFICES ASSUME loop.looked # <<>>
                 PROVE  LET q == loop.looked[1]
                        IN  /\ running[q] /\ ~ReusesName(q) => loop'.held
                            /\ loop'.held => Len(loop.looked[2]) \in 0 .. Len(recent'[q])
      BY <1>2, <1>5 DEF WindowStays, ReusesName
    <3> DEFINE q == loop.looked[1]
    <3>1. q \in Pod
      BY <1>1 DEF LoopOK
    <3>2. /\ running[q] /\ ~ReusesName(q) => loop.held
          /\ loop.held => Len(loop.looked[2]) \in 0 .. Len(recent[q])
      BY <1>1 DEF WindowStays
    <3>3. loop'.held = (loop.held /\ q # p)
      BY <1>1, <2>2 DEF LoopOK
    <3> HIDE DEF q
    <3>4. running[q] /\ ~ReusesName(q) => q # p
      BY <1>1, <1>2, <3>1 DEF NamesAreFresh
    <3>5. q # p => recent'[q] = recent[q]
      BY <1>1, <2>2, <3>1 DEF MapsOK
    <3>6. QED
      BY <3>2, <3>3, <3>4, <3>5 DEF q
  <2>3. QED
    BY <1>3, <2>1, <2>2
<1>9. ReclaimsAreKnown' /\ LookHolds' /\ DecisionHolds'
  BY <1>1, <1>2, <1>5 DEF ReclaimsAreKnown, LookHolds, DecisionHolds, Earned
<1>10. QED
  BY <1>4, <1>5, <1>6, <1>7, <1>8, <1>9 DEF LoopInv

(* The entries of the cache and the loads are not part of the invariant.   *)
LEMMA PodKeepsInv ==
  ASSUME LoopInv, NEW p \in Pod,
         \/ StoreEntry(p) \/ Sync(p) \/ ChangeLoad(p) \/ ChangeTraits(p)
         \/ Leave(p) \/ Wake(p) \/ RecordCooldown(p)
  PROVE  LoopInv'
<1>1. /\ MapsOK /\ LoopOK /\ WindowsHold /\ ReclaimsAreKnown
      /\ LookHolds /\ DecisionHolds /\ NamesAreFresh /\ WindowStays
  BY DEF LoopInv
<1>2. UNCHANGED <<window, recent, loop>>
  BY DEF StoreEntry, Sync, ChangeLoad, ChangeTraits, Leave, Wake, RecordCooldown, cacheVars
<1>3. LoopOK' /\ WindowsHold'
  BY <1>1, <1>2 DEF LoopOK, WindowsHold
<1>4. CASE StoreEntry(p) \/ ChangeLoad(p)
  <2>1. UNCHANGED <<running, traits, deleted, podEntry, svcEntry, sinceReclaim>>
    BY <1>4 DEF StoreEntry, ChangeLoad, apiVars, ageVars
  <2>2. QED
    BY <1>1, <1>2, <1>3, <2>1 DEF LoopInv, MapsOK, ReclaimsAreKnown, LookHolds, DecisionHolds,
       Earned, NamesAreFresh, WindowStays, ReusesName
<1>5. CASE Sync(p)
  <2>1. /\ deleted' = [deleted EXCEPT ![p] = FALSE]
        /\ UNCHANGED <<running, traits, podEntry, svcEntry, sinceReclaim>>
    BY <1>5 DEF Sync, apiVars, ageVars
  <2>2. MapsOK' /\ NamesAreFresh'
    BY <1>1, <1>2, <2>1 DEF MapsOK, NamesAreFresh, ReusesName
  <2>3. QED
    BY <1>1, <1>2, <1>3, <2>1, <2>2 DEF LoopInv, ReclaimsAreKnown, LookHolds, DecisionHolds,
       Earned, WindowStays, ReusesName
<1>6. CASE ChangeTraits(p)
  <2>1. /\ \E t : t.owner = traits[p].owner /\ traits' = [traits EXCEPT ![p] = t]
        /\ UNCHANGED <<running, deleted, podEntry, svcEntry, sinceReclaim>>
    BY <1>6 DEF ChangeTraits
  <2>2. MapsOK' /\ \A q \in Pod : ReusesName(q)' = ReusesName(q)
    BY <1>1, <1>2, <2>1 DEF MapsOK, ReusesName
  <2>3. \A q \in Pod : running[q] /\ ~ReusesName(q)' => ~deleted[q]
    BY <1>1, <2>2 DEF NamesAreFresh
  <2>4. NamesAreFresh'
    BY <2>1, <2>3 DEF NamesAreFresh
  <2>5. WindowStays'
    BY <1>1, <1>2, <2>1, <2>2 DEF LoopOK, WindowStays
  <2>6. QED
    BY <1>1, <1>2, <1>3, <2>1, <2>2, <2>4, <2>5 DEF LoopInv, ReclaimsAreKnown, LookHolds,
       DecisionHolds, Earned
<1>7. CASE Leave(p)
  <2>1. /\ running' = [running EXCEPT ![p] = FALSE]
        /\ deleted' = [deleted EXCEPT ![p] = @ \/ running[p]]
        /\ UNCHANGED <<traits, podEntry, svcEntry, sinceReclaim>>
    BY <1>7 DEF Leave, Depart
  <2>2. /\ running' \in [Pod -> BOOLEAN] /\ deleted' \in [Pod -> BOOLEAN]
        /\ NamesAreFresh'
        /\ \A q \in Pod : running'[q] => running[q]
    BY <2>1, DepartureIsFine
  <2>3. MapsOK'
    BY <1>1, <1>2, <2>1, <2>2 DEF MapsOK
  <2>4. WindowStays'
    BY <1>1, <1>2, <2>1, <2>2 DEF LoopOK, WindowStays, ReusesName
  <2>5. QED
    BY <1>1, <1>2, <1>3, <2>1, <2>2, <2>3, <2>4 DEF LoopInv, ReclaimsAreKnown, LookHolds,
       DecisionHolds, Earned
<1>8. CASE RecordCooldown(p)
  <2>1. -WarmUp \in Age
    BY ReclaimAssumption DEF Age
  <2>2. /\ svcEntry' = [svcEntry EXCEPT ![p] = -WarmUp]
        /\ UNCHANGED <<running, traits, deleted, podEntry, sinceReclaim>>
    BY <1>8 DEF RecordCooldown
  <2>3. QED
    BY <1>1, <1>2, <1>3, <2>1, <2>2 DEF LoopInv, MapsOK, ReclaimsAreKnown, LookHolds,
       DecisionHolds, Earned, NamesAreFresh, WindowStays, ReusesName
<1>9. CASE Wake(p)
  <2>1. /\ running' = [running EXCEPT ![p] = TRUE]
        /\ ReusesName(p) \/ (~deleted[p] /\ p \notin loop.todo)
        /\ UNCHANGED <<deleted, traits, svcEntry>>
        /\ \/ UNCHANGED <<podEntry, sinceReclaim>>
           \/ /\ podEntry' = [podEntry EXCEPT ![p] = NoEntry]
              /\ sinceReclaim' = [sinceReclaim EXCEPT ![p] = Cooldown]
    BY <1>9 DEF Wake, Forgotten
  <2>2. NoEntry \in Age /\ Cooldown \in 0 .. Cooldown
    BY ReclaimAssumption DEF Age
  <2>3. running' \in [Pod -> BOOLEAN]
    BY <1>1, <2>1 DEF MapsOK
  <2>4. podEntry' \in [Pod -> Age] /\ sinceReclaim' \in [Pod -> 0 .. Cooldown]
    BY <1>1, <2>1, <2>2 DEF MapsOK
  <2>5. MapsOK'
    BY <1>1, <1>2, <2>1, <2>3, <2>4 DEF MapsOK
  <2>6. ReclaimsAreKnown'
    BY <1>1, <2>1, ReclaimAssumption DEF MapsOK, ReclaimsAreKnown
  <2>7. LookHolds' /\ DecisionHolds'
    BY <1>1, <1>2, <2>1 DEF MapsOK, LoopOK, LookHolds, DecisionHolds, Earned
  <2>8. \A q \in Pod : q # p => running'[q] = running[q]
    BY <1>1, <2>1 DEF MapsOK
  <2>9. \A q \in Pod : ReusesName(q)' = ReusesName(q)
    BY <2>1 DEF ReusesName
  <2>10. NamesAreFresh'
    BY <1>1, <2>1, <2>8, <2>9 DEF NamesAreFresh
  <2>11. WindowStays'
    BY <1>1, <1>2, <2>1, <2>8, <2>9 DEF LoopOK, WindowStays
  <2>12. QED
    BY <1>3, <2>5, <2>6, <2>7, <2>10, <2>11 DEF LoopInv
<1>10. QED
  BY <1>4, <1>5, <1>6, <1>7, <1>8, <1>9

LEMMA BeginCycleKeepsInv ==
  ASSUME LoopInv, BeginCycle
  PROVE  LoopInv'
<1>1. PICK S, view : S \subseteq Pod /\ loop' = [Waiting EXCEPT !.todo = S, !.view = view]
  BY DEF BeginCycle
<1>2. LoopOK' /\ loop'.looked = <<>> /\ loop'.decided = <<>>
  BY <1>1 DEF LoopOK, Waiting
<1>3. UNCHANGED <<window, recent, running, traits, deleted, podEntry, svcEntry, sinceReclaim>>
  BY DEF BeginCycle, apiVars, cacheVars, ageVars
<1>4. QED
  BY <1>2, <1>3 DEF LoopInv, MapsOK, WindowsHold, ReclaimsAreKnown, LookHolds, DecisionHolds,
     NamesAreFresh, WindowStays, ReusesName

LEMMA ProceedIsOK ==
  ASSUME LoopInv, NEW p
  PROVE  LET next == Proceed(p)
         IN  /\ DOMAIN next = {"todo", "view", "looked", "held", "decided"}
             /\ next.todo \subseteq Pod /\ next.looked = <<>> /\ next.decided = <<>>
BY DEF LoopInv, LoopOK, Proceed, Waiting

LEMMA SelectionIsEarned ==
  ASSUME NEW score, NEW full \in BOOLEAN, NEW soft \in BOOLEAN, full => soft
  PROVE  /\ SelectAction(score, full, soft) = "FULL" =>
              score >= FullReclaimScoreThreshold /\ full
         /\ SelectAction(score, full, soft) = "SOFT" =>
              /\ score >= SoftReclaimScoreThreshold \/ score >= FullReclaimScoreThreshold
              /\ soft
<1>1. CASE score >= FullReclaimScoreThreshold
  BY <1>1 DEF SelectAction
<1>2. CASE ~(score >= FullReclaimScoreThreshold)
  <2>1. SelectAction(score, full, soft) =
          IF score >= SoftReclaimScoreThreshold /\ soft THEN "SOFT" ELSE "KEEP"
    BY <1>2 DEF SelectAction
  <2>2. QED
    BY <2>1
<1>3. QED
  BY <1>1, <1>2

LEMMA DecisionIsEarned ==
  ASSUME NEW profile, NEW p,
         Evaluate(profile, loop.view[p].traits).action # "KEEP"
  PROVE  Earned(p, Evaluate(profile, loop.view[p].traits))
<1> DEFINE t == loop.view[p].traits
           full == FullReclaimAllowed(t)
           soft == SoftReclaimAllowed(t)
           score == ComputeScore(profile, t)
<1>1. full => soft
  BY DEF FullReclaimAllowed
<1>2. full \in BOOLEAN /\ soft \in BOOLEAN
  BY DEF FullReclaimAllowed, SoftReclaimAllowed
<1>3. Evaluate(profile, t) = [action |-> SelectAction(score, full, soft), score |-> score]
  BY DEF Evaluate
<1> HIDE DEF full, soft, score
<1> DEFINE action == SelectAction(score, full, soft)
<1>4. /\ action = "FULL" => score >= FullReclaimScoreThreshold /\ full
      /\ action = "SOFT" =>
           /\ score >= SoftReclaimScoreThreshold \/ score >= FullReclaimScoreThreshold
           /\ soft
  BY <1>1, <1>2, SelectionIsEarned
<1> HIDE DEF action
<1>5. Evaluate(profile, t).action = action /\ Evaluate(profile, t).score = score
  BY <1>3 DEF action
<1>6. QED
  BY <1>4, <1>5 DEF Earned, full, soft

LEMMA NotInCooldown ==
  ASSUME LoopInv, NEW p \in Pod, ~InCooldown(p)
  PROVE  sinceReclaim[p] = Cooldown
<1>1. sinceReclaim[p] \in 0 .. Cooldown
  BY DEF LoopInv, MapsOK
<1>2. ASSUME sinceReclaim[p] < Cooldown PROVE InCooldown(p)
  BY <1>1, <1>2, ReclaimAssumption
     DEF LoopInv, ReclaimsAreKnown, InCooldown, RecentlyReclaimed, LastReclaimed
<1>3. QED
  BY <1>1, <1>2, ReclaimAssumption

LEMMA LookAtKeepsInv ==
  ASSUME LoopInv, NEW p \in Pod, LookAt(p)
  PROVE  LoopInv'
<1>1. /\ MapsOK /\ LoopOK /\ WindowsHold /\ ReclaimsAreKnown
      /\ LookHolds /\ DecisionHolds /\ NamesAreFresh /\ WindowStays
  BY DEF LoopInv
<1>2. /\ p \in loop.todo /\ loop.decided = <<>>
      /\ UNCHANGED <<running, traits, deleted, window, recent, sinceReclaim>>
  BY DEF LookAt, apiVars, cacheVars
<1>3. \/ UNCHANGED <<podEntry, svcEntry>>
      \/ /\ ~InCooldown(p)
         /\ podEntry' = [podEntry EXCEPT ![p] = NoEntry]
         /\ svcEntry' = [svcEntry EXCEPT ![p] = NoEntry]
  BY DEF LookAt
<1>4. MapsOK' /\ WindowsHold' /\ NamesAreFresh'
  BY <1>1, <1>2, <1>3 DEF MapsOK, WindowsHold, NamesAreFresh, ReusesName, Age
<1>5. ReclaimsAreKnown'
  BY <1>1, <1>2, <1>3, NotInCooldown, ReclaimAssumption DEF MapsOK, ReclaimsAreKnown
<1>6. LoopOK' /\ LookHolds' /\ DecisionHolds' /\ WindowStays'
  <2>1. CASE loop' = Proceed(p)
    BY <2>1, ProceedIsOK DEF LoopOK, LookHolds, DecisionHolds, WindowStays
  <2>2. CASE /\ ~InCooldown(p)
             /\ loop' = [loop EXCEPT !.looked = <<p, GetSamples(window[p])>>, !.held = TRUE]
    <3>1. PICK samples : samples = GetSamples(window[p])
      OBVIOUS
    <3>2. /\ loop'.looked = <<p, samples>> /\ loop'.looked[1] = p /\ loop'.looked[2] = samples
          /\ loop'.held = TRUE /\ loop'.decided = <<>> /\ loop'.todo = loop.todo
          /\ DOMAIN loop' = DOMAIN loop
      BY <1>1, <1>2, <2>2, <3>1 DEF LoopOK
    <3>3. Len(samples) \in 0 .. Len(recent[p])
      BY <1>1, <3>1, SamplesAreThere, HeldIsAList DEF WindowsHold
    <3>4. sinceReclaim[p] = Cooldown
      BY <2>2, NotInCooldown
    <3>5. LoopOK'
      BY <1>1, <1>2, <3>2 DEF LoopOK
    <3>6. LookHolds' /\ DecisionHolds'
      BY <1>2, <3>2, <3>4 DEF LookHolds, DecisionHolds
    <3>7. WindowStays'
      BY <1>2, <3>2, <3>3 DEF WindowStays
    <3>8. QED
      BY <3>5, <3>6, <3>7
  <2>3. QED
    BY <2>1, <2>2 DEF LookAt
<1>7. QED
  BY <1>4, <1>5, <1>6 DEF LoopInv

LEMMA EvaluatePodKeepsInv ==
  ASSUME LoopInv, NEW p \in Pod, EvaluatePod(p)
  PROVE  LoopInv'
<1>1. /\ MapsOK /\ LoopOK /\ WindowsHold /\ ReclaimsAreKnown
      /\ LookHolds /\ DecisionHolds /\ NamesAreFresh /\ WindowStays
  BY DEF LoopInv
<1>2. /\ loop.looked # <<>> /\ loop.looked[1] = p
      /\ UNCHANGED <<running, traits, deleted, window, recent, podEntry, svcEntry,
                     sinceReclaim>>
  BY DEF EvaluatePod, apiVars, cacheVars, ageVars
<1>3. MapsOK' /\ WindowsHold' /\ ReclaimsAreKnown' /\ NamesAreFresh'
  BY <1>1, <1>2 DEF MapsOK, WindowsHold, ReclaimsAreKnown, NamesAreFresh, ReusesName
<1>4. PICK profile, decision :
        /\ decision = Evaluate(profile, loop.view[p].traits)
        /\ loop' = IF Classify(profile) = "IDLE" /\ decision.action # "KEEP"
                     THEN [loop EXCEPT !.looked = <<>>, !.held = FALSE,
                                       !.decided = <<p, decision>>]
                     ELSE Proceed(p)
  BY DEF EvaluatePod
<1>5. LoopOK' /\ LookHolds' /\ DecisionHolds' /\ WindowStays'
  <2>1. CASE ~(Classify(profile) = "IDLE" /\ decision.action # "KEEP")
    <3>1. loop' = Proceed(p)
      BY <1>4, <2>1
    <3>2. QED
      BY <3>1, ProceedIsOK DEF LoopOK, LookHolds, DecisionHolds, WindowStays
  <2>2. CASE Classify(profile) = "IDLE" /\ decision.action # "KEEP"
    <3>1. loop' = [loop EXCEPT !.looked = <<>>, !.held = FALSE, !.decided = <<p, decision>>]
      BY <1>4, <2>2
    <3>2. /\ loop'.decided = <<p, decision>>
          /\ loop'.decided[1] = p /\ loop'.decided[2] = decision
          /\ loop'.looked = <<>> /\ loop'.view = loop.view /\ loop'.todo = loop.todo
          /\ DOMAIN loop' = DOMAIN loop
      BY <1>1, <3>1 DEF LoopOK
    <3>3. sinceReclaim[p] = Cooldown /\ Earned(p, decision)
      BY <1>1, <1>2, <1>4, <2>2, DecisionIsEarned DEF LookHolds
    <3>4. Earned(p, decision)'
      BY <3>2, <3>3 DEF Earned
    <3>5. LoopOK'
      BY <1>1, <3>2 DEF LoopOK
    <3>6. LookHolds' /\ DecisionHolds' /\ WindowStays'
      BY <1>2, <3>2, <3>3, <3>4 DEF LookHolds, DecisionHolds, WindowStays
    <3>7. QED
      BY <3>5, <3>6
  <2>3. QED
    BY <2>1, <2>2
<1>6. QED
  BY <1>3, <1>5 DEF LoopInv

LEMMA ExecuteKeepsInv ==
  ASSUME LoopInv, NEW p \in Pod, Execute(p) \/ ExecuteFails(p)
  PROVE  LoopInv'
<1>1. /\ MapsOK /\ LoopOK /\ WindowsHold /\ ReclaimsAreKnown
      /\ LookHolds /\ DecisionHolds /\ NamesAreFresh /\ WindowStays
  BY DEF LoopInv
<1>2. loop' = Proceed(p) /\ UNCHANGED <<svcEntry, traits, window, recent>>
  BY DEF Execute, ExecuteSoftReclaim, ExecuteFullReclaim, ExecuteFails, Succeed, apiVars,
     cacheVars, ageVars
<1>3. LoopOK' /\ LookHolds' /\ DecisionHolds' /\ WindowStays'
  BY <1>2, ProceedIsOK DEF LoopOK, LookHolds, DecisionHolds, WindowStays
<1>4. \/ UNCHANGED <<podEntry, sinceReclaim>>
      \/ /\ podEntry' = [podEntry EXCEPT ![p] = 0]
         /\ sinceReclaim' = [sinceReclaim EXCEPT ![p] = 0]
  BY DEF Execute, ExecuteSoftReclaim, ExecuteFullReclaim, ExecuteFails, Succeed, ageVars
<1>5. \/ UNCHANGED <<running, deleted>>
      \/ /\ running' = [running EXCEPT ![p] = FALSE]
         /\ deleted' = [deleted EXCEPT ![p] = @ \/ running[p]]
  BY DEF Execute, ExecuteSoftReclaim, ExecuteFullReclaim, ExecuteFails, Depart, apiVars
<1>6. /\ running' \in [Pod -> BOOLEAN] /\ deleted' \in [Pod -> BOOLEAN]
      /\ NamesAreFresh'
  <2>1. CASE UNCHANGED <<running, deleted>>
    BY <1>1, <1>2, <2>1 DEF MapsOK, NamesAreFresh, ReusesName
  <2>2. CASE /\ running' = [running EXCEPT ![p] = FALSE]
             /\ deleted' = [deleted EXCEPT ![p] = @ \/ running[p]]
    BY <1>1, <1>2, <2>2, DepartureIsFine
  <2>3. QED
    BY <1>5, <2>1, <2>2
<1>7. 0 \in Age /\ 0 \in 0 .. Cooldown
  BY ReclaimAssumption DEF Age
<1>8. MapsOK'
  <2>1. podEntry' \in [Pod -> Age] /\ svcEntry' \in [Pod -> Age]
    BY <1>1, <1>2, <1>4, <1>7 DEF MapsOK
  <2>2. sinceReclaim' \in [Pod -> 0 .. Cooldown]
    BY <1>1, <1>4, <1>7 DEF MapsOK
  <2>3. QED
    BY <1>1, <1>2, <1>6, <2>1, <2>2 DEF MapsOK
<1>9. WindowsHold'
  BY <1>1, <1>2 DEF WindowsHold
<1>10. ReclaimsAreKnown'
  BY <1>1, <1>4 DEF MapsOK, ReclaimsAreKnown
<1>11. QED
  BY <1>3, <1>6, <1>8, <1>9, <1>10 DEF LoopInv

LEMMA StutterKeepsInv ==
  ASSUME LoopInv, UNCHANGED vars
  PROVE  LoopInv'
BY DEF vars, apiVars, cacheVars, ageVars, LoopInv, MapsOK, LoopOK, WindowsHold,
   ReclaimsAreKnown, LookHolds, DecisionHolds, Earned, NamesAreFresh, WindowStays, ReusesName

LEMMA NextKeepsInv ==
  ASSUME LoopInv, [Next]_vars
  PROVE  LoopInv'
<1>1. ASSUME NEW queries, BeginScrape(queries) PROVE LoopInv'
  BY <1>1, BeginScrapeKeepsInv
<1>2. CASE BeginCycle
  BY <1>2, BeginCycleKeepsInv
<1>3. ASSUME NEW p \in Pod, LookAt(p) \/ EvaluatePod(p) \/ Execute(p) \/ ExecuteFails(p)
      PROVE  LoopInv'
  BY <1>3, LookAtKeepsInv, EvaluatePodKeepsInv, ExecuteKeepsInv
<1>4. ASSUME NEW p \in Pod, RecordSample(p) \/ HearDelete(p)
      PROVE  LoopInv'
  BY <1>4, RecordSampleKeepsInv, HearDeleteKeepsInv
<1>5. ASSUME NEW p \in Pod,
             \/ StoreEntry(p) \/ Sync(p) \/ ChangeLoad(p) \/ ChangeTraits(p)
             \/ Leave(p) \/ Wake(p) \/ RecordCooldown(p)
      PROVE  LoopInv'
  BY <1>5, PodKeepsInv
<1>6. CASE UNCHANGED vars
  BY <1>6, StutterKeepsInv
<1>7. QED
  BY <1>1, <1>2, <1>3, <1>4, <1>5, <1>6 DEF Next, StepBetweenScrapes, LoopStep

(* Windows, cooldowns, names and decisions stay in accord.                 *)
THEOREM LoopInvariance == Spec => []LoopInv
BY LoopInvInit, NextKeepsInv, PTL DEF Spec

(* For any capacity the ring buffer of window.go gives the latest samples  *)
(* recorded for a name, oldest first.                                      *)
THEOREM WindowsAreRecent == Spec => []WindowIsRecent
<1>1. LoopInv => WindowIsRecent
  BY SamplesAreThere DEF LoopInv, WindowsHold, WindowIsRecent
<1>2. QED
  BY <1>1, LoopInvariance, PTL

(* A decision under way was earned, whatever the weights and the traits of *)
(* the snapshot: above a threshold, a full one above its own, of a pod     *)
(* that nothing protected then.                                            *)
THEOREM ReclaimsAreEarned ==
  Spec => [](\A p \in Pod, action \in {"SOFT", "FULL"} :
               Decided(p, action) => Earned(p, loop.decided[2]))
<1>1. LoopInv => \A p \in Pod, action \in {"SOFT", "FULL"} :
                   Decided(p, action) => Earned(p, loop.decided[2])
  BY DEF LoopInv, DecisionHolds, Decided
<1>2. QED
  BY <1>1, LoopInvariance, PTL

(* Between two reclaims of a name there is the cooldown, with any number   *)
(* of pods and whatever the activator writes into the map.                 *)
THEOREM ReclaimsAreSeparate == Spec => CooldownSeparatesReclaims
<1> DEFINE Apart == \A p \in Pod :
             loop.decided # <<>> /\ loop.decided[1] = p /\ podEntry'[p] = 0
               => sinceReclaim[p] >= Cooldown
<1>1. LoopInv => Apart
  BY ReclaimAssumption DEF LoopInv, DecisionHolds
<1>2. LoopInv => [Apart]_vars
  BY <1>1
<1>3. QED
  BY <1>2, LoopInvariance, PTL DEF CooldownSeparatesReclaims

(* A pod that is there under a name of its own is chosen only on enough    *)
(* samples, none of those the window has at the second look above the idle *)
(* thresholds: however old the snapshot is, whatever is recorded or heard  *)
(* of between the two looks, and although entries and windows outlive the  *)
(* pods they are of.                                                       *)
THEOREM ReclaimsFollowIdleness == Spec => ReclaimAfterSteadyIdleness
<1> DEFINE Steady == \A p \in Pod :
             (/\ loop.decided = <<>> /\ loop'.decided # <<>> /\ loop'.decided[1] = p
              /\ running[p] /\ ~ReusesName(p))
                => Calm(recent[p])
<1>1. ASSUME LoopInv, [Next]_vars PROVE [Steady]_vars
  <2> SUFFICES ASSUME NEW p \in Pod, loop.decided = <<>>, loop'.decided # <<>>,
                      loop'.decided[1] = p, running[p], ~ReusesName(p)
               PROVE  Calm(recent[p])
    OBVIOUS
  <2>1. PICK q \in Pod : EvaluatePod(q)
    <3>1. ASSUME NEW q \in Pod, Execute(q) \/ ExecuteFails(q) PROVE FALSE
      BY <3>1 DEF Execute, ExecuteSoftReclaim, ExecuteFullReclaim, ExecuteFails, Decided
    <3>2. ~BeginCycle
      BY DEF BeginCycle, Waiting
    <3>3. loop' # loop
      OBVIOUS
    <3>4. \A q \in Pod :
            /\ ~RecordSample(q) /\ ~StoreEntry(q) /\ ~Sync(q) /\ ~ChangeLoad(q)
            /\ ~ChangeTraits(q) /\ ~Leave(q) /\ ~Wake(q) /\ ~RecordCooldown(q)
      BY <3>3 DEF RecordSample, StoreEntry, Sync, ChangeLoad, ChangeTraits, Leave, Wake,
         RecordCooldown
    <3>5. \A queries : ~BeginScrape(queries)
      BY <3>3 DEF BeginScrape
    <3>6. \A q \in Pod : ~HearDelete(q)
      BY <1>1, <3>3 DEF HearDelete, LoopInv, LoopOK
    <3>7. \A q \in Pod : ~LookAt(q)
      BY <1>1, ProceedIsOK DEF LookAt, LoopInv, LoopOK
    <3>8. QED
      BY <1>1, <3>1, <3>2, <3>3, <3>4, <3>5, <3>6, <3>7
         DEF Next, StepBetweenScrapes, LoopStep, vars
  <2>2. /\ loop.looked # <<>> /\ loop.looked[1] = q
        /\ \E profile \in {Analyze(loop.view[q], loop.looked[2], Reread(q))} :
             Classify(profile) = "IDLE"
        /\ \E decision : loop' = [loop EXCEPT !.looked = <<>>, !.held = FALSE,
                                              !.decided = <<q, decision>>]
    BY <1>1, <2>1, ProceedIsOK DEF EvaluatePod
  <2>3. q = p
    BY <1>1, <2>2 DEF LoopInv, LoopOK
  <2>4. loop.held /\ Len(loop.looked[2]) \in 0 .. Len(recent[p])
    BY <1>1, <2>2, <2>3 DEF LoopInv, WindowStays
  <2>5. Reread(p) = recent[p]
    BY <1>1, <2>4, SamplesAreThere DEF LoopInv, WindowsHold, Reread
  <2>6. /\ Len(loop.looked[2]) >= MinSampleCount
        /\ IsConsistentlyBelowThresholds(recent[p])
    BY <2>2, <2>3, <2>5 DEF Classify, Analyze
  <2>7. Len(recent[p]) >= MinSampleCount
    <3>1. Len(recent[p]) \in Nat
      BY <1>1, HeldIsAList DEF LoopInv, WindowsHold
    <3>2. QED
      BY <2>4, <2>6, <3>1, ReclaimAssumption
  <2>8. QED
    BY <2>6, <2>7 DEF IsConsistentlyBelowThresholds, Calm
<1>2. QED
  BY <1>1, LoopInvariance, PTL DEF Spec, ReclaimAfterSteadyIdleness
----------------------------------------------------------------------------
(* Numbers.  Averages, factors and scores are whole numbers, whatever the  *)
(* samples, the weights and the traits are.                                *)

(* The smallest element: the lemmas below take the first index at which a  *)
(* total is not as claimed.                                                *)
LEMMA LeastNumber ==
  ASSUME NEW T, T \subseteq Nat, T # {}
  PROVE  \E n \in T : \A m \in T : n <= m
<1>1. PICK n \in T : \A m \in T : ~ (<<m, n>> \in OpToRel(<, Nat))
  BY NatLessThanWellFounded, WFMin
<1>2. \A m \in T : ~ (m < n)
  BY <1>1 DEF OpToRel
<1>3. QED
  BY <1>2

(* The function that Average defines: g[i] is the sum of the first i.      *)
IsTotal(g, samples, signal, n) ==
  g = [i \in 0 .. n |-> IF i = 0 THEN 0 ELSE g[i - 1] + samples[i][signal]]

LEMMA TotalExists ==
  ASSUME NEW samples, NEW signal, NEW n \in Nat
  PROVE  \E g : IsTotal(g, samples, signal, n)
<1> DEFINE Bad == {m \in Nat : ~ \E g : IsTotal(g, samples, signal, m)}
<1> SUFFICES ASSUME Bad # {} PROVE FALSE
  OBVIOUS
<1>1. PICK m \in Bad : \A k \in Bad : m <= k
  <2>1. Bad \subseteq Nat
    OBVIOUS
  <2> HIDE DEF Bad
  <2>2. QED
    BY <2>1, LeastNumber
<1>2. CASE m = 0
  <2>1. IsTotal([i \in 0 .. 0 |-> 0], samples, signal, 0)
    BY DEF IsTotal
  <2>2. QED
    BY <1>1, <1>2, <2>1
<1>3. CASE m # 0
  <2>1. PICK g : IsTotal(g, samples, signal, m - 1)
    BY <1>1, <1>3
  <2> DEFINE h == [i \in 0 .. m |-> IF i = m THEN g[m - 1] + samples[m][signal] ELSE g[i]]
             k == [i \in 0 .. m |-> IF i = 0 THEN 0 ELSE h[i - 1] + samples[i][signal]]
  <2>2. ASSUME NEW i \in 0 .. m PROVE h[i] = k[i]
    <3>1. CASE i = m
      BY <1>3, <3>1
    <3>2. CASE i # m
      BY <2>1, <3>2 DEF IsTotal
    <3>3. QED
      BY <3>1, <3>2
  <2>3. h = k
    BY <2>2
  <2>4. IsTotal(h, samples, signal, m)
    BY <2>3 DEF IsTotal
  <2>5. QED
    BY <1>1, <2>4
<1>4. QED
  BY <1>2, <1>3

LEMMA TotalIsNat ==
  ASSUME NEW n \in Nat, NEW samples, NEW signal, NEW g, IsTotal(g, samples, signal, n),
         \A i \in 1 .. n : samples[i][signal] \in Nat
  PROVE  \A i \in 0 .. n : g[i] \in Nat
<1> DEFINE Bad == {i \in 0 .. n : g[i] \notin Nat}
<1> SUFFICES ASSUME Bad # {} PROVE FALSE
  OBVIOUS
<1>1. PICK m \in Bad : \A k \in Bad : m <= k
  <2>1. Bad \subseteq Nat
    OBVIOUS
  <2> HIDE DEF Bad
  <2>2. QED
    BY <2>1, LeastNumber
<1>2. m # 0
  BY <1>1 DEF IsTotal
<1>3. m - 1 \in 0 .. n /\ g[m - 1] \in Nat
  BY <1>1, <1>2
<1>4. g[m] = g[m - 1] + samples[m][signal]
  BY <1>1, <1>2 DEF IsTotal
<1>5. QED
  BY <1>1, <1>2, <1>3, <1>4

LEMMA QuotientIsNat ==
  ASSUME NEW a \in Nat, NEW b \in Nat, b > 0
  PROVE  a \div b \in Nat
  OBVIOUS

LEMMA AverageIsNat ==
  ASSUME NEW samples \in Seq(Sample), NEW signal \in {"cpu", "mem", "net", "qps"}
  PROVE  Average(samples, signal) \in Nat
<1> DEFINE n == Len(samples)
           total == CHOOSE g : IsTotal(g, samples, signal, n)
<1>1. n \in Nat /\ \A i \in 1 .. n : samples[i] \in Sample
  BY LenProperties
<1>2. \A i \in 1 .. n : samples[i][signal] \in Nat
  BY <1>1 DEF Sample
<1>3. IsTotal(total, samples, signal, n)
  <2> HIDE DEF n
  <2>1. QED
    BY <1>1, TotalExists
<1>4. total[n] \in Nat
  <2> HIDE DEF n, total
  <2>1. QED
    BY <1>1, <1>2, <1>3, TotalIsNat
<1>5. Average(samples, signal) = IF samples = <<>> THEN 0 ELSE total[n] \div n
  BY DEF Average, IsTotal
<1>6. samples # <<>> => n > 0
  BY <1>1, EmptySeq
<1>7. QED
  <2> HIDE DEF n, total
  <2>1. CASE samples = <<>>
    BY <2>1, <1>5
  <2>2. CASE samples # <<>>
    <3>1. total[n] \div n \in Nat
      BY <2>2, <1>1, <1>4, <1>6, QuotientIsNat
    <3>2. QED
      BY <3>1, <2>2, <1>5
  <2>3. QED
    BY <2>1, <2>2

(* Profiles as Analyze makes them of typed metrics, as far as they count.  *)
Amounts(profile) ==
  /\ profile.cpu \in Int /\ profile.mem \in Int
  /\ profile.freeCPU \in Int /\ profile.freeMem \in Int

LEMMA AnalyzeGivesAmounts ==
  ASSUME NEW pod, pod.usage \in Sample, pod.requests \in Requests,
         NEW samples \in Seq(Sample), NEW latest
  PROVE  Amounts(Analyze(pod, samples, latest))
<1>1. \A a, r \in Nat : Utilization(a, r) \in Int /\ Reclaimable(a, r) \in Int
  BY DEF Utilization, Unavailable, Reclaimable
<1>2. Average(samples, "cpu") \in Nat /\ Average(samples, "mem") \in Nat
  BY AverageIsNat
<1>3. /\ pod.usage.cpu \in Nat /\ pod.usage.mem \in Nat
      /\ pod.requests.cpu \in Nat /\ pod.requests.mem \in Nat
  BY DEF Sample, Requests
<1>4. QED
  BY <1>1, <1>2, <1>3 DEF Analyze, Amounts

LEMMA ClampIsBounded ==
  ASSUME NEW v \in Int, NEW lo \in Int, NEW hi \in Int, lo <= hi
  PROVE  Clamp(v, lo, hi) \in Int /\ lo <= Clamp(v, lo, hi) /\ Clamp(v, lo, hi) <= hi
BY DEF Clamp

(* Every factor is a fraction, in thousandths.                             *)
Fraction(x) == x \in Int /\ 0 <= x /\ x <= 1000

LEMMA FactorsAreFractions ==
  /\ \A util \in Int : Fraction(ScoreUtilization(util))
  /\ \A cpu, mem \in Int : Fraction(ScoreBenefit(cpu, mem))
  /\ \A priority \in Int : Fraction(ScorePriority(priority))
  /\ \A available : Fraction(ScoreReplica(available))
  /\ \A t : Fraction(ScoreState(t))
<1>1. \A util \in Int : Fraction(ScoreUtilization(util))
  BY DEF ScoreUtilization, Clamp, Fraction
<1>2. ASSUME NEW amount \in Int, NEW max \in Int
      PROVE  Fraction(BenefitFactor(amount, max))
  <2>1. CASE max > 0
    <3>1. (amount * 1000) \div max \in Int
      BY <2>1
    <3>2. QED
      BY <2>1, <3>1, ClampIsBounded DEF BenefitFactor, Fraction
  <2>2. CASE ~(max > 0)
    BY <2>2 DEF BenefitFactor, Fraction
  <2>3. QED
    BY <2>1, <2>2
<1>3. ASSUME NEW cpu \in Int, NEW mem \in Int PROVE Fraction(ScoreBenefit(cpu, mem))
  <2>1. /\ Fraction(BenefitFactor(cpu, BenefitMaxCPU))
        /\ Fraction(BenefitFactor(mem, BenefitMaxMem))
    BY <1>2, DecisionAssumption
  <2>2. \A x, y : Fraction(x) /\ Fraction(y) => Fraction((x + y) \div 2)
    BY DEF Fraction
  <2>3. QED
    BY <2>1, <2>2 DEF ScoreBenefit
<1>4. ASSUME NEW priority \in Int PROVE Fraction(ScorePriority(priority))
  <2>1. CASE MaxPriorityForReclaim <= 0
    BY <2>1 DEF ScorePriority, Fraction
  <2>2. CASE ~(MaxPriorityForReclaim <= 0)
    <3>1. MaxPriorityForReclaim \in Int /\ MaxPriorityForReclaim > 0
      BY <2>2, DecisionAssumption
    <3>2. PICK q \in Int : q = (priority * 1000) \div MaxPriorityForReclaim
      BY <3>1
    <3>3. ScorePriority(priority) = Clamp(1000 - q, 0, 1000)
      BY <2>2, <3>2 DEF ScorePriority
    <3>4. 1000 - q \in Int
      OBVIOUS
    <3>5. QED
      BY <3>3, <3>4, ClampIsBounded DEF Fraction
  <2>3. QED
    BY <2>1, <2>2
<1>5. \A available : Fraction(ScoreReplica(available))
  BY DEF ScoreReplica, Fraction
<1>6. \A t : Fraction(ScoreState(t))
  BY DEF ScoreState, Fraction
<1>7. QED
  BY <1>1, <1>3, <1>4, <1>5, <1>6

LEMMA WeightedFractions ==
  ASSUME NEW x, Fraction(x)
  PROVE  /\ \A w \in Int : w * x \in Int
         /\ \A w \in Nat : 0 <= w * x /\ w * x <= w * 1000
<1>1. x \in Int /\ 0 <= x /\ 0 <= 1000 - x
  BY DEF Fraction
<1>2. \A w \in Int : w * x \in Int
  BY <1>1
<1>3. \A w, y \in Nat : w * y >= 0
  OBVIOUS
<1>4. \A w \in Nat : w * x >= 0 /\ w * (1000 - x) >= 0
  BY <1>1, <1>3
<1>5. \A w \in Nat : w * (1000 - x) = w * 1000 - w * x
  BY <1>1
<1>6. \A w \in Nat : w * 1000 \in Int /\ w * x <= w * 1000
  BY <1>2, <1>4, <1>5
<1>7. QED
  BY <1>2, <1>4, <1>6

(* ComputeScore, scoring.go 185: "the result is guaranteed to be in [0, 1] *)
(* for well-formed policies", whose weights sum to 1.  Whatever the        *)
(* profile, the pod and the maxima, a score is at most what the weights    *)
(* sum to; Validate lets that differ a little from 1.                      *)
THEOREM ScoresAreFractions ==
  ASSUME NEW profile, Amounts(profile), NEW t \in Traits
  PROVE  /\ ComputeScore(profile, t) \in Int
         /\ ValidWeights =>
              0 <= ComputeScore(profile, t) /\ ComputeScore(profile, t) <= WeightSum * 1000
<1> DEFINE a == ScoreUtilization(profile.cpu)
           b == ScoreUtilization(profile.mem)
           c == ScoreBenefit(profile.freeCPU, profile.freeMem)
           d == ScorePriority(t.priority)
           e == ScoreState(t)
           f == ScoreReplica(t.available)
<1>1. /\ Fraction(a) /\ Fraction(b) /\ Fraction(c)
      /\ Fraction(d) /\ Fraction(e) /\ Fraction(f)
  BY FactorsAreFractions DEF Amounts, Traits
<1>2. ComputeScore(profile, t) = WeightCPU * a + WeightMemory * b + WeightBenefit * c
                                   + WeightPriority * d + WeightState * e + WeightReplica * f
  BY DEF ComputeScore
<1> HIDE DEF a, b, c, d, e, f
<1>3. /\ WeightCPU * a \in Int /\ WeightMemory * b \in Int /\ WeightBenefit * c \in Int
      /\ WeightPriority * d \in Int /\ WeightState * e \in Int /\ WeightReplica * f \in Int
  BY <1>1, WeightedFractions, DecisionAssumption
<1>4. ASSUME ValidWeights
      PROVE  0 <= ComputeScore(profile, t) /\ ComputeScore(profile, t) <= WeightSum * 1000
  <2> DEFINE bound == WeightCPU * 1000 + WeightMemory * 1000 + WeightBenefit * 1000
                        + WeightPriority * 1000 + WeightState * 1000 + WeightReplica * 1000
  <2>1. /\ WeightCPU \in Nat /\ WeightMemory \in Nat /\ WeightBenefit \in Nat
        /\ WeightPriority \in Nat /\ WeightState \in Nat /\ WeightReplica \in Nat
    BY <1>4 DEF ValidWeights
  <2>2. /\ 0 <= WeightCPU * a /\ WeightCPU * a <= WeightCPU * 1000
        /\ 0 <= WeightMemory * b /\ WeightMemory * b <= WeightMemory * 1000
        /\ 0 <= WeightBenefit * c /\ WeightBenefit * c <= WeightBenefit * 1000
        /\ 0 <= WeightPriority * d /\ WeightPriority * d <= WeightPriority * 1000
        /\ 0 <= WeightState * e /\ WeightState * e <= WeightState * 1000
        /\ 0 <= WeightReplica * f /\ WeightReplica * f <= WeightReplica * 1000
    BY <1>1, <2>1, WeightedFractions
  <2>3. bound = WeightSum * 1000
    BY <2>1 DEF WeightSum
  <2>4. 0 <= ComputeScore(profile, t) /\ ComputeScore(profile, t) <= bound
    <3>1. \A w \in Nat : w * 1000 \in Int
      OBVIOUS
    <3>2. QED
      BY <1>2, <1>3, <2>1, <2>2, <3>1
  <2>5. QED
    BY <2>3, <2>4
<1>5. QED
  BY <1>2, <1>3, <1>4

LEMMA EvaluateDecides ==
  ASSUME NEW profile, Amounts(profile), NEW t \in Traits
  PROVE  Evaluate(profile, t) \in Decision
<1>1. ComputeScore(profile, t) \in Int
  BY ScoresAreFractions
<1>2. \A score, full, soft : SelectAction(score, full, soft) \in {"KEEP", "SOFT", "FULL"}
  BY DEF SelectAction
<1>3. QED
  BY <1>1, <1>2 DEF Evaluate, Decision

----------------------------------------------------------------------------
(* Type correctness.                                                       *)

LEMMA NewPodIsTyped ==
  /\ NewMetricWindow \in MetricWindow
  /\ <<>> \in Seq(Sample)
  /\ \A p \in Pod :
       requests[p] \in Requests /\ traits[p] \in Traits => NewEntry(p) \in Entry
<1>1. Zero \in Sample
  BY DEF Zero, Sample
<1>2. 0 \in 0 .. MinIdleDuration
  BY ReclaimAssumption
<1>3. ASSUME NEW p \in Pod, requests[p] \in Requests, traits[p] \in Traits
      PROVE  NewEntry(p) \in Entry
  BY <1>1, <1>2, <1>3 DEF NewEntry, Entry
<1>4. NewMetricWindow \in MetricWindow
  BY <1>1, WindowAssumption DEF NewMetricWindow, MetricWindow, Slot
<1>5. QED
  BY <1>3, <1>4, EmptySeq

(* A list of samples stays one when the latest is put at its end.          *)
LEMMA PushKeepsSeq ==
  ASSUME NEW q \in Seq(Sample), NEW s \in Sample
  PROVE  Push(q, s) \in Seq(Sample)
<1>1. CASE Len(q) < Capacity
  BY <1>1, AppendProperties DEF Push
<1>2. CASE ~(Len(q) < Capacity)
  <2>1. q # <<>>
    BY <1>2, EmptySeq, WindowAssumption
  <2>2. Tail(q) \in Seq(Sample)
    BY <2>1, HeadTailProperties
  <2>3. QED
    BY <1>2, <2>2, AppendProperties DEF Push
<1>3. QED
  BY <1>1, <1>2

LEMMA AddKeepsWindow ==
  ASSUME NEW w \in MetricWindow, NEW s \in Sample
  PROVE  AddSample(w, s) \in MetricWindow
<1>1. w.head \in 0 .. Capacity - 1 /\ w.count \in 0 .. Capacity /\ Capacity \in Nat \ {0}
  BY WindowAssumption DEF MetricWindow, Slot
<1>2. (w.head + 1) % Capacity \in 0 .. Capacity - 1
  BY <1>1, ModBelowTwice
<1>3. [w.samples EXCEPT ![w.head] = s] \in [Slot -> Sample]
  BY DEF MetricWindow
<1>4. (IF w.count < Capacity THEN w.count + 1 ELSE w.count) \in 0 .. Capacity
  BY <1>1
<1>5. QED
  BY <1>2, <1>3, <1>4 DEF AddSample, MetricWindow, Slot

LEMMA MeasuredIsSample ==
  ASSUME NEW p \in Pod, metrics[p] \in Entry, load[p] \in Load, NEW queries
  PROVE  Measured(p, queries) \in Sample
<1>1. load[p] \in Sample
  BY ReclaimAssumption
<1>2. metrics[p].usage \in Sample /\ metrics[p].requests \in Requests
  BY DEF Entry
<1>3. QED
  BY <1>1, <1>2 DEF Measured, Sample, Requests

LEMMA TrackKeepsEntry ==
  ASSUME NEW entry \in Entry, NEW sample \in Sample, NEW queries
  PROVE  TrackIdle(entry, sample, queries) \in Entry
<1>1. entry.idleFor \in 0 .. MinIdleDuration /\ entry.scraped \in BOOLEAN
  BY DEF Entry
<1>2. Older(entry.idleFor, MinIdleDuration) \in 0 .. MinIdleDuration
  BY <1>1, ReclaimAssumption DEF Older
<1>3. 0 \in 0 .. MinIdleDuration
  BY ReclaimAssumption
<1>4. QED
  BY <1>1, <1>2, <1>3 DEF TrackIdle, Entry

(* What of the state the loop alone changes is typed.                      *)
LoopTyped ==
  /\ loop.todo \subseteq DOMAIN loop.view
  /\ loop.looked # <<>> => loop.looked \in loop.todo \X Seq(Sample)
  /\ loop.decided # <<>> => loop.decided \in loop.todo \X Decision
  /\ \A p \in DOMAIN loop.view : loop.view[p] \in Entry

(* And what the API server, the informer and the collector change.         *)
PodsTyped ==
  /\ running \in [Pod -> BOOLEAN]
  /\ load \in [Pod -> Load]
  /\ traits \in [Pod -> Traits]
  /\ requests \in [Pod -> Requests]
  /\ waking \subseteq {p \in Pod : running[p]}
  /\ deleted \in [Pod -> BOOLEAN]
CacheTyped ==
  /\ metrics \in [Pod -> Entry \cup {NoEntry}]
  /\ window \in [Pod -> MetricWindow]
  /\ recent \in [Pod -> Seq(Sample)]
ScrapeTyped == scrape \in [Pod -> [entry : Entry, sampled : BOOLEAN] \cup {NoEntry}]
AgesTyped ==
  /\ podEntry \in [Pod -> Age]
  /\ svcEntry \in [Pod -> Age]
  /\ sinceReclaim \in [Pod -> 0 .. Cooldown]
  /\ events \in 0 .. MaxEvents

LEMMA TypeParts ==
  /\ TypeOK <=> LoopTyped /\ PodsTyped /\ CacheTyped /\ ScrapeTyped /\ AgesTyped
  /\ TypeOK' <=> (LoopTyped /\ PodsTyped /\ CacheTyped /\ ScrapeTyped /\ AgesTyped)'
BY DEF TypeOK, LoopTyped, PodsTyped, CacheTyped, ScrapeTyped, AgesTyped

LEMMA TypeInit ==
  ASSUME Init
  PROVE  TypeOK
<1>1. PodsTyped
  BY ReclaimAssumption DEF Init, PodsTyped
<1>2. CacheTyped
  <2>1. \A p \in Pod : NewEntry(p) \in Entry
    BY <1>1, NewPodIsTyped DEF PodsTyped
  <2>2. QED
    BY <2>1, NewPodIsTyped DEF Init, CacheTyped
<1>3. ScrapeTyped /\ AgesTyped
  BY ReclaimAssumption DEF Init, ScrapeTyped, AgesTyped, Age
<1>4. LoopTyped
  BY EmptySeq DEF Init, Waiting, LoopTyped
<1>5. QED
  BY <1>1, <1>2, <1>3, <1>4, TypeParts

LEMMA CountedIsTyped ==
  ASSUME events \in 0 .. MaxEvents, Counted
  PROVE  events' \in 0 .. MaxEvents
BY ReclaimAssumption DEF Counted

LEMMA BeginScrapeKeepsTypes ==
  ASSUME TypeOK, NEW queries, BeginScrape(queries)
  PROVE  TypeOK'
<1>1. LoopTyped /\ PodsTyped /\ CacheTyped /\ ScrapeTyped /\ AgesTyped
  BY TypeParts
<1>2. LoopTyped' /\ PodsTyped' /\ CacheTyped'
  BY <1>1 DEF BeginScrape, apiVars, cacheVars, LoopTyped, PodsTyped, CacheTyped
<1>3. AgesTyped'
  <2>1. /\ podEntry' = [p \in Pod |-> Older(podEntry[p], Cooldown)]
        /\ svcEntry' = [p \in Pod |-> Older(svcEntry[p], Cooldown)]
        /\ sinceReclaim' = [p \in Pod |-> Older(sinceReclaim[p], Cooldown)]
        /\ UNCHANGED events \/ Counted
    BY DEF BeginScrape
  <2>2. \A p \in Pod : sinceReclaim[p] \in Age
    BY <1>1, ReclaimAssumption DEF AgesTyped, Age
  <2>3. events' \in 0 .. MaxEvents
    BY <1>1, <2>1, CountedIsTyped DEF AgesTyped
  <2>4. QED
    BY <1>1, <2>1, <2>2, <2>3, AgesStay DEF AgesTyped
<1>4. ScrapeTyped'
  <2>1. PICK lingering :
          scrape' = [p \in Pod |->
            IF metrics[p] = NoEntry THEN NoEntry
            ELSE [entry   |-> TrackIdle(metrics[p],
                                Measured(p, IF running[p] THEN queries ELSE lingering),
                                IF running[p] THEN queries ELSE lingering),
                  sampled |-> FALSE]]
    BY DEF BeginScrape
  <2>2. ASSUME NEW p \in Pod, metrics[p] # NoEntry, NEW known
        PROVE  TrackIdle(metrics[p], Measured(p, known), known) \in Entry
    <3>1. metrics[p] \in Entry /\ load[p] \in Load
      BY <1>1, <2>2 DEF CacheTyped, PodsTyped
    <3>2. Measured(p, known) \in Sample
      BY <3>1, MeasuredIsSample
    <3>3. QED
      BY <3>1, <3>2, TrackKeepsEntry
  <2>3. QED
    BY <2>1, <2>2 DEF ScrapeTyped
<1>5. QED
  BY <1>2, <1>3, <1>4, TypeParts

LEMMA CollectorKeepsTypes ==
  ASSUME TypeOK, NEW p \in Pod, RecordSample(p) \/ StoreEntry(p)
  PROVE  TypeOK'
<1>1. LoopTyped /\ PodsTyped /\ CacheTyped /\ ScrapeTyped /\ AgesTyped
  BY TypeParts
<1>2. LoopTyped' /\ PodsTyped' /\ AgesTyped'
  BY <1>1 DEF RecordSample, StoreEntry, apiVars, ageVars, LoopTyped, PodsTyped, AgesTyped
<1>3. scrape[p] \in [entry : Entry, sampled : BOOLEAN]
  BY <1>1 DEF RecordSample, StoreEntry, ScrapeTyped
<1>4. CASE RecordSample(p)
  <2>1. scrape[p].entry.usage \in Sample
    BY <1>3 DEF Entry
  <2>2. /\ window' = [window EXCEPT ![p] = AddSample(@, scrape[p].entry.usage)]
        /\ recent' = [recent EXCEPT ![p] = Push(@, scrape[p].entry.usage)]
        /\ scrape' = [scrape EXCEPT ![p].sampled = TRUE]
        /\ metrics' = metrics
    BY <1>4 DEF RecordSample
  <2>3. CacheTyped'
    BY <1>1, <2>1, <2>2, AddKeepsWindow, PushKeepsSeq DEF CacheTyped
  <2>4. ScrapeTyped'
    BY <1>1, <1>3, <2>2 DEF ScrapeTyped
  <2>5. QED
    BY <1>2, <2>3, <2>4, TypeParts
<1>5. CASE StoreEntry(p)
  <2>1. CacheTyped'
    BY <1>1, <1>3, <1>5 DEF StoreEntry, CacheTyped
  <2>2. ScrapeTyped'
    BY <1>1, <1>5 DEF StoreEntry, ScrapeTyped
  <2>3. QED
    BY <1>2, <2>1, <2>2, TypeParts
<1>6. QED
  BY <1>4, <1>5

LEMMA InformerKeepsTypes ==
  ASSUME TypeOK, LoopInv, NEW p \in Pod, Sync(p) \/ HearDelete(p)
  PROVE  TypeOK'
<1>1. LoopTyped /\ PodsTyped /\ CacheTyped /\ ScrapeTyped /\ AgesTyped /\ LoopOK
  BY TypeParts DEF LoopInv
<1>2. PodsTyped' /\ ScrapeTyped' /\ AgesTyped'
  BY <1>1 DEF Sync, HearDelete, apiVars, ageVars, PodsTyped, ScrapeTyped, AgesTyped
<1>3. CASE Sync(p)
  <2>1. requests[p] \in Requests /\ traits[p] \in Traits
    BY <1>1 DEF PodsTyped
  <2>2. (IF metrics[p] = NoEntry THEN NewEntry(p)
         ELSE [metrics[p] EXCEPT !.requests = requests[p], !.traits = traits[p]]) \in Entry
    <3>1. CASE metrics[p] = NoEntry
      BY <2>1, <3>1, NewPodIsTyped
    <3>2. CASE metrics[p] # NoEntry
      <4>1. metrics[p] \in Entry
        BY <1>1, <3>2 DEF CacheTyped
      <4>2. [metrics[p] EXCEPT !.requests = requests[p], !.traits = traits[p]] \in Entry
        BY <2>1, <4>1 DEF Entry
      <4>3. QED
        BY <3>2, <4>2
    <3>3. QED
      BY <3>1, <3>2
  <2>3. CacheTyped' /\ LoopTyped'
    BY <1>1, <1>3, <2>2 DEF Sync, CacheTyped, LoopTyped
  <2>4. QED
    BY <1>2, <2>3, TypeParts
<1>4. CASE HearDelete(p)
  <2>1. CacheTyped'
    <3>1. CASE UNCHANGED cacheVars
      BY <1>1, <3>1 DEF cacheVars, CacheTyped
    <3>2. CASE /\ metrics' = [metrics EXCEPT ![p] = NoEntry]
               /\ window' = [window EXCEPT ![p] = NewMetricWindow]
               /\ recent' = [recent EXCEPT ![p] = <<>>]
      BY <1>1, <3>2, NewPodIsTyped DEF CacheTyped
    <3>3. QED
      BY <1>4, <3>1, <3>2 DEF HearDelete
  <2>2. /\ loop'.todo = loop.todo /\ loop'.view = loop.view
        /\ loop'.looked = loop.looked /\ loop'.decided = loop.decided
    BY <1>1, <1>4 DEF HearDelete, LoopOK
  <2>3. LoopTyped'
    BY <1>1, <2>2 DEF LoopTyped
  <2>4. QED
    BY <1>2, <2>1, <2>3, TypeParts
<1>5. QED
  BY <1>3, <1>4

LEMMA DepartKeepsTypes ==
  ASSUME PodsTyped, NEW p \in Pod, Depart(p), UNCHANGED <<load, traits, requests>>
  PROVE  PodsTyped'
<1>1. (deleted[p] \/ running[p]) \in BOOLEAN
  BY DEF PodsTyped
<1>2. QED
  BY <1>1 DEF PodsTyped, Depart

LEMMA PodKeepsTypes ==
  ASSUME TypeOK, NEW p \in Pod,
         ChangeLoad(p) \/ ChangeTraits(p) \/ Leave(p) \/ Wake(p) \/ RecordCooldown(p)
  PROVE  TypeOK'
<1>1. LoopTyped /\ PodsTyped /\ CacheTyped /\ ScrapeTyped /\ AgesTyped
  BY TypeParts
<1>2. LoopTyped' /\ CacheTyped' /\ ScrapeTyped'
  BY <1>1 DEF ChangeLoad, ChangeTraits, Leave, Wake, RecordCooldown, cacheVars, LoopTyped,
     CacheTyped, ScrapeTyped
<1>3. events' \in 0 .. MaxEvents
  BY <1>1, CountedIsTyped DEF AgesTyped, ChangeLoad, ChangeTraits, Leave, Wake, RecordCooldown,
     ageVars
<1>4. CASE ChangeLoad(p)
  BY <1>1, <1>2, <1>4, TypeParts DEF ChangeLoad, ageVars, PodsTyped, AgesTyped
<1>5. CASE ChangeTraits(p)
  BY <1>1, <1>2, <1>3, <1>5, TypeParts, ReclaimAssumption
     DEF ChangeTraits, PodsTyped, AgesTyped
<1>6. CASE Leave(p)
  <2>1. PodsTyped'
    BY <1>1, <1>6, DepartKeepsTypes DEF Leave
  <2>2. AgesTyped'
    BY <1>1, <1>3, <1>6 DEF Leave, AgesTyped
  <2>3. QED
    BY <1>2, <2>1, <2>2, TypeParts
<1>7. CASE Wake(p)
  <2>1. PodsTyped'
    BY <1>1, <1>7, ReclaimAssumption DEF Wake, PodsTyped
  <2>2. AgesTyped'
    BY <1>1, <1>3, <1>7, ReclaimAssumption DEF Wake, AgesTyped, Age
  <2>3. QED
    BY <1>2, <2>1, <2>2, TypeParts
<1>8. CASE RecordCooldown(p)
  <2>1. PodsTyped'
    BY <1>1, <1>8 DEF RecordCooldown, PodsTyped
  <2>2. -WarmUp \in Age
    BY ReclaimAssumption DEF Age
  <2>3. AgesTyped'
    BY <1>1, <1>3, <1>8, <2>2 DEF RecordCooldown, AgesTyped
  <2>4. QED
    BY <1>2, <2>1, <2>3, TypeParts
<1>9. QED
  BY <1>4, <1>5, <1>6, <1>7, <1>8

LEMMA BeginCycleKeepsTypes ==
  ASSUME TypeOK, BeginCycle
  PROVE  TypeOK'
<1>1. LoopTyped /\ PodsTyped /\ CacheTyped /\ ScrapeTyped /\ AgesTyped
  BY TypeParts
<1>2. PodsTyped' /\ CacheTyped' /\ ScrapeTyped' /\ AgesTyped'
  BY <1>1 DEF BeginCycle, apiVars, cacheVars, ageVars, PodsTyped, CacheTyped, ScrapeTyped,
     AgesTyped
<1>3. LoopTyped'
  <2> DEFINE all == {p \in Pod : metrics[p] # NoEntry}
             view == [p \in all |-> metrics[p]]
  <2>1. \A p \in all : view[p] \in Entry
    BY <1>1 DEF CacheTyped
  <2>2. loop' = [todo |-> all, view |-> view, looked |-> <<>>, held |-> FALSE,
                 decided |-> <<>>]
    BY DEF BeginCycle, Waiting
  <2>3. DOMAIN view = all
    OBVIOUS
  <2> HIDE DEF all, view
  <2>4. QED
    BY <2>1, <2>2, <2>3 DEF LoopTyped
<1>4. QED
  BY <1>2, <1>3, TypeParts

LEMMA ProceedIsTyped ==
  ASSUME TypeOK, LoopInv, NEW p, loop' = Proceed(p)
  PROVE  LoopTyped'
<1>1. LoopTyped /\ LoopOK
  BY TypeParts DEF LoopInv
<1>2. CASE loop.todo = {p}
  BY <1>2 DEF Proceed, Waiting, LoopTyped
<1>3. CASE loop.todo # {p}
  BY <1>1, <1>3 DEF Proceed, LoopTyped, LoopOK
<1>4. QED
  BY <1>2, <1>3

LEMMA ListOfSamples ==
  ASSUME TypeOK, LoopInv, NEW p \in Pod
  PROVE  GetSamples(window[p]) \in Seq(Sample)
BY TypeParts, SamplesAreThere DEF LoopInv, WindowsHold, CacheTyped

LEMMA LookAtKeepsTypes ==
  ASSUME TypeOK, LoopInv, NEW p \in Pod, LookAt(p)
  PROVE  TypeOK'
<1>1. LoopTyped /\ PodsTyped /\ CacheTyped /\ ScrapeTyped /\ AgesTyped /\ LoopOK
  BY TypeParts DEF LoopInv
<1>2. PodsTyped' /\ CacheTyped' /\ ScrapeTyped'
  BY <1>1 DEF LookAt, apiVars, cacheVars, PodsTyped, CacheTyped, ScrapeTyped
<1>3. AgesTyped'
  BY <1>1 DEF LookAt, AgesTyped, Age
<1>4. LoopTyped'
  <2>1. PICK samples : samples = GetSamples(window[p])
    OBVIOUS
  <2>2. \/ loop' = Proceed(p)
        \/ loop' = [loop EXCEPT !.looked = <<p, samples>>, !.held = TRUE]
    BY <2>1 DEF LookAt
  <2>3. CASE loop' = Proceed(p)
    BY <2>3, ProceedIsTyped
  <2>4. CASE loop' = [loop EXCEPT !.looked = <<p, samples>>, !.held = TRUE]
    <3>1. p \in loop.todo /\ samples \in Seq(Sample)
      BY <2>1, ListOfSamples DEF LookAt
    <3>2. /\ loop'.looked = <<p, samples>> /\ loop'.todo = loop.todo
          /\ loop'.decided = loop.decided /\ loop'.view = loop.view
      BY <1>1, <2>4 DEF LoopOK
    <3>3. QED
      BY <1>1, <3>1, <3>2 DEF LoopTyped
  <2>5. QED
    BY <2>2, <2>3, <2>4
<1>5. QED
  BY <1>2, <1>3, <1>4, TypeParts

LEMMA EvaluatePodKeepsTypes ==
  ASSUME TypeOK, LoopInv, NEW p \in Pod, EvaluatePod(p)
  PROVE  TypeOK'
<1>1. LoopTyped /\ PodsTyped /\ CacheTyped /\ ScrapeTyped /\ AgesTyped /\ LoopOK
  BY TypeParts DEF LoopInv
<1>2. PodsTyped' /\ CacheTyped' /\ ScrapeTyped' /\ AgesTyped'
  BY <1>1 DEF EvaluatePod, apiVars, cacheVars, ageVars, PodsTyped, CacheTyped, ScrapeTyped,
     AgesTyped
<1>3. p \in loop.todo /\ loop.looked[2] \in Seq(Sample) /\ loop.view[p] \in Entry
  BY <1>1 DEF EvaluatePod, LoopTyped
<1> DEFINE profile == Analyze(loop.view[p], loop.looked[2], Reread(p))
<1>4. Evaluate(profile, loop.view[p].traits) \in Decision
  <2>1. /\ loop.view[p].usage \in Sample /\ loop.view[p].requests \in Requests
        /\ loop.view[p].traits \in Traits
    BY <1>3 DEF Entry
  <2>2. Amounts(profile)
    BY <1>3, <2>1, AnalyzeGivesAmounts
  <2> HIDE DEF profile
  <2>3. QED
    BY <2>1, <2>2, EvaluateDecides
<1>5. LoopTyped'
  <2>1. PICK decision \in Decision :
          \/ loop' = Proceed(p)
          \/ loop' = [loop EXCEPT !.looked = <<>>, !.held = FALSE, !.decided = <<p, decision>>]
    BY <1>4 DEF EvaluatePod
  <2>2. CASE loop' = Proceed(p)
    BY <2>2, ProceedIsTyped
  <2>3. CASE loop' = [loop EXCEPT !.looked = <<>>, !.held = FALSE,
                                  !.decided = <<p, decision>>]
    <3>1. /\ loop'.looked = <<>> /\ loop'.todo = loop.todo /\ loop'.view = loop.view
          /\ loop'.decided = <<p, decision>>
      BY <1>1, <2>3 DEF LoopOK
    <3>2. QED
      BY <1>1, <1>3, <3>1 DEF LoopTyped
  <2>4. QED
    BY <2>1, <2>2, <2>3
<1>6. QED
  BY <1>2, <1>5, TypeParts

LEMMA RightSizeIsTyped ==
  ASSUME NEW usage \in Sample
  PROVE  RightSize(usage) \in Requests
<1>1. usage.cpu \in Nat /\ usage.mem \in Nat
  BY DEF Sample
<1>2. \A x \in Nat : CeilDiv(x * 12, 10) \in Nat /\ (x * 12) \div 10 \in Nat
  BY DEF CeilDiv
<1>3. \A x \in Nat : AtLeast(10, x) \in Nat /\ AtLeast(16, x) \in Nat
  BY DEF AtLeast
<1>4. QED
  BY <1>1, <1>2, <1>3 DEF RightSize, Requests

LEMMA ExecuteKeepsTypes ==
  ASSUME TypeOK, LoopInv, NEW p \in Pod, Execute(p) \/ ExecuteFails(p)
  PROVE  TypeOK'
<1>1. LoopTyped /\ PodsTyped /\ CacheTyped /\ ScrapeTyped /\ AgesTyped /\ LoopOK
  BY TypeParts DEF LoopInv
<1>2. LoopTyped'
  BY ProceedIsTyped
     DEF Execute, ExecuteSoftReclaim, ExecuteFullReclaim, ExecuteFails, Succeed
<1>3. 0 \in Age /\ 0 \in 0 .. Cooldown
  BY ReclaimAssumption DEF Age
<1>4. AgesTyped'
  BY <1>1, <1>3
     DEF Execute, ExecuteSoftReclaim, ExecuteFullReclaim, ExecuteFails, Succeed, ageVars,
         AgesTyped
<1>5. CacheTyped' /\ ScrapeTyped'
  BY <1>1 DEF Execute, ExecuteSoftReclaim, ExecuteFullReclaim, ExecuteFails, cacheVars,
     CacheTyped, ScrapeTyped
<1>6. PodsTyped'
  <2>1. CASE ExecuteSoftReclaim(p)
    <3>1. loop.view[p].usage \in Sample
      BY <1>1, <2>1 DEF ExecuteSoftReclaim, Decided, LoopTyped, Entry
    <3>2. RightSize(loop.view[p].usage) \in Requests
      BY <3>1, RightSizeIsTyped
    <3>3. requests' = [requests EXCEPT ![p] = RightSize(loop.view[p].usage)]
      BY <2>1 DEF ExecuteSoftReclaim
    <3>4. requests' \in [Pod -> Requests]
      BY <1>1, <3>2, <3>3 DEF PodsTyped
    <3>5. QED
      BY <1>1, <2>1, <3>4 DEF ExecuteSoftReclaim, PodsTyped
  <2>2. CASE ExecuteFullReclaim(p)
    <3>1. CASE UNCHANGED <<running, deleted, waking>>
      BY <1>1, <2>2, <3>1 DEF ExecuteFullReclaim, PodsTyped
    <3>2. CASE Depart(p)
      BY <1>1, <2>2, <3>2, DepartKeepsTypes DEF ExecuteFullReclaim
    <3>3. QED
      BY <2>2, <3>1, <3>2 DEF ExecuteFullReclaim
  <2>3. CASE ExecuteFails(p)
    BY <1>1, <2>3 DEF ExecuteFails, apiVars, PodsTyped
  <2>4. QED
    BY <2>1, <2>2, <2>3 DEF Execute
<1>7. QED
  BY <1>2, <1>4, <1>5, <1>6, TypeParts

LEMMA NextKeepsTypes ==
  ASSUME TypeOK, LoopInv, [Next]_vars
  PROVE  TypeOK'
<1>1. ASSUME UNCHANGED vars PROVE TypeOK'
  BY <1>1 DEF vars, apiVars, cacheVars, ageVars, TypeOK
<1>2. ASSUME NEW queries, BeginScrape(queries) PROVE TypeOK'
  BY <1>2, BeginScrapeKeepsTypes
<1>3. CASE BeginCycle
  BY <1>3, BeginCycleKeepsTypes
<1>4. ASSUME NEW p \in Pod, LookAt(p) \/ EvaluatePod(p) \/ Execute(p) \/ ExecuteFails(p)
      PROVE  TypeOK'
  BY <1>4, LookAtKeepsTypes, EvaluatePodKeepsTypes, ExecuteKeepsTypes
<1>5. ASSUME NEW p \in Pod, RecordSample(p) \/ StoreEntry(p) \/ Sync(p) \/ HearDelete(p)
      PROVE  TypeOK'
  BY <1>5, CollectorKeepsTypes, InformerKeepsTypes
<1>6. ASSUME NEW p \in Pod,
             ChangeLoad(p) \/ ChangeTraits(p) \/ Leave(p) \/ Wake(p) \/ RecordCooldown(p)
      PROVE  TypeOK'
  BY <1>6, PodKeepsTypes
<1>7. QED
  BY <1>1, <1>2, <1>3, <1>4, <1>5, <1>6 DEF Next, StepBetweenScrapes, LoopStep

(* The state keeps its type, right-sized requests and scores included.     *)
THEOREM LoopIsTyped == Spec => []TypeOK
BY TypeInit, NextKeepsTypes, LoopInvariance, PTL DEF Spec

(* What is decided is earned, the fall-back from soft to full and back     *)
(* included, if the policy orders its thresholds.  The code takes them as  *)
(* they come; a full reclaim needs no order to be earned.                  *)
THEOREM ReclaimsAreEarnedInOrder ==
  ASSUME SoftReclaimScoreThreshold <= FullReclaimScoreThreshold
  PROVE  Spec => []ReclaimIsEarned
<1>1. TypeOK /\ LoopInv => ReclaimIsEarned
  <2> SUFFICES ASSUME TypeOK, LoopInv, NEW p \in Pod, loop.decided # <<>>,
                      loop.decided[1] = p
               PROVE  /\ loop.decided[2].action = "FULL" =>
                           /\ loop.decided[2].score >= FullReclaimScoreThreshold
                           /\ FullReclaimAllowed(loop.view[p].traits)
                      /\ loop.decided[2].action = "SOFT" =>
                           /\ loop.decided[2].score >= SoftReclaimScoreThreshold
                           /\ SoftReclaimAllowed(loop.view[p].traits)
    BY DEF ReclaimIsEarned, Decided
  <2>1. Earned(p, loop.decided[2])
    BY DEF LoopInv, DecisionHolds
  <2>2. loop.decided[2] \in Decision
    BY TypeParts DEF LoopTyped
  <2>3. PICK score \in Int : score = loop.decided[2].score
    BY <2>2 DEF Decision
  <2>4. score >= FullReclaimScoreThreshold => score >= SoftReclaimScoreThreshold
    BY DecisionAssumption
  <2>5. QED
    BY <2>1, <2>3, <2>4 DEF Earned
<1>2. QED
  BY <1>1, LoopIsTyped, LoopInvariance, PTL
=============================================================================
