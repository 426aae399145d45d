----------------------- MODULE AdaptiveSchedulerProofs -----------------------
(***************************************************************************)
(* The invariants of AdaptiveScheduler, for any pods, owners, nodes, queue *)
(* and bounds, and what its sums of requests are worth.                    *)
(***************************************************************************)
EXTENDS AdaptiveScheduler, FiniteSetTheorems, SequenceTheorems, WellFoundedInduction, TLAPS

(* A set of subsets of a finite set has one with no smaller one in it: the *)
(* lemmas below take the smallest set for which a sum is not as claimed.   *)
LEMMA MinimalSubset ==
  ASSUME NEW S, IsFiniteSet(S), NEW T, T \subseteq SUBSET S, T # {}
  PROVE  \E s \in T : \A u \in SUBSET s : u # s => u \notin T
<1>1. IsWellFoundedOn(StrictSubsetOrdering(S), SUBSET S)
  BY FS_StrictSubsetOrderingWellFounded, FS_FiniteSubsetsOfFinite
<1>2. PICK s \in T : \A u \in T : ~ (<<u, s>> \in StrictSubsetOrdering(S))
  BY <1>1, WFMin
<1>3. QED
  BY <1>2 DEF StrictSubsetOrdering

(* What MapThenFoldSet takes first, and the function it defines: g[s] is   *)
(* the sum of f over s for each part s of S.                               *)
First(s) == CHOOSE x \in s : TRUE
IsSum(g, f, S) ==
  g = [s \in SUBSET S |-> IF s = {} THEN 0 ELSE f[First(s)] + g[s \ {First(s)}]]

(* Both are the same on the parts of T.                                    *)
Agree(g, h, T) == \A s \in SUBSET T : g[s] = h[s]

(* First is an element.                                                    *)
LEMMA FirstIn == \A s : s # {} => First(s) \in s
BY DEF First

(* The sum of the community modules is that of g.                          *)
LEMMA SumIsSum ==
  ASSUME NEW f, NEW S
  PROVE  SumFunctionOnSet(f, S) = (CHOOSE g : IsSum(g, f, S))[S]
BY DEF SumFunctionOnSet, FoldFunctionOnSet, MapThenFoldSet, IsSum, First

(* There is no second function like it on the same sets.                   *)
LEMMA SumUnique ==
  ASSUME NEW f, NEW S, IsFiniteSet(S), NEW T \in SUBSET S, NEW g, NEW h,
         IsSum(g, f, S), IsSum(h, f, T)
  PROVE  Agree(g, h, T)
<1> DEFINE Bad == {s \in SUBSET T : g[s] # h[s]}
<1> SUFFICES ASSUME Bad # {} PROVE FALSE
  BY DEF Agree
<1>1. PICK s \in Bad : \A u \in SUBSET s : u # s => u \notin Bad
  <2>1. IsFiniteSet(T) /\ Bad \subseteq SUBSET T
    BY FS_Subset
  <2> HIDE DEF Bad
  <2>2. QED
    BY <2>1, MinimalSubset
<1>2. CASE s = {}
  BY <1>1, <1>2 DEF IsSum
<1>3. CASE s # {}
  <2>1. First(s) \in s
    BY <1>3, FirstIn
  <2>2. g[s \ {First(s)}] = h[s \ {First(s)}]
    BY <1>1, <2>1
  <2>3. g[s] = f[First(s)] + g[s \ {First(s)}]
    BY <1>3 DEF IsSum
  <2>4. h[s] = f[First(s)] + h[s \ {First(s)}]
    BY <1>3 DEF IsSum
  <2>5. QED
    BY <1>1, <2>2, <2>3, <2>4
<1>4. QED
  BY <1>2, <1>3

(* There is one on every finite set: it takes its values from those on the *)
(* smaller sets.                                                           *)
LEMMA SumExists ==
  ASSUME NEW f, NEW S, IsFiniteSet(S)
  PROVE  \E g : IsSum(g, f, S)
<1> DEFINE Bad == {T \in SUBSET S : ~ \E g : IsSum(g, f, T)}
<1> SUFFICES ASSUME Bad # {} PROVE FALSE
  OBVIOUS
<1>1. PICK T \in Bad : \A u \in SUBSET T : u # T => u \notin Bad
  <2>1. Bad \subseteq SUBSET S
    OBVIOUS
  <2> HIDE DEF Bad
  <2>2. QED
    BY <2>1, MinimalSubset
<1> DEFINE G == [u \in SUBSET T |-> CHOOSE g : IsSum(g, f, u)]
           rest(s) == s \ {First(s)}
           h == [s \in SUBSET T |-> IF s = {} THEN 0
                                     ELSE f[First(s)] + G[rest(s)][rest(s)]]
<1>2. \A u \in SUBSET T : u # T => IsSum(G[u], f, u)
  BY <1>1
<1>3. \A s \in SUBSET T : s # {} => rest(s) \in SUBSET T /\ rest(s) # T /\ First(s) \in s
  BY FirstIn
<1>4. ASSUME NEW s \in SUBSET T, s # {} PROVE h[rest(s)] = G[rest(s)][rest(s)]
  <2> DEFINE u == rest(s)
  <2>1. IsSum(G[u], f, u) /\ u \in SUBSET T
    BY <1>2, <1>3, <1>4
  <2>2. CASE u = {}
    <3>1. G[u][u] = 0
      BY <2>1, <2>2 DEF IsSum
    <3>2. h[u] = 0
      BY <2>1, <2>2
    <3>3. QED
      BY <3>1, <3>2
  <2>3. CASE u # {}
    <3> DEFINE v == rest(u)
    <3>1. v \in SUBSET u /\ IsSum(G[v], f, v) /\ IsFiniteSet(u)
      BY <1>2, <1>3, <2>1, <2>3, FS_Subset
    <3>2. G[u][v] = G[v][v]
      <4> HIDE DEF G, u, v
      <4>1. Agree(G[u], G[v], v)
        BY <2>1, <3>1, SumUnique
      <4>2. QED
        BY <4>1 DEF Agree
    <3>3. G[u][u] = f[First(u)] + G[u][v]
      BY <2>1, <2>3 DEF IsSum
    <3>4. h[u] = f[First(u)] + G[v][v]
      BY <2>1, <2>3
    <3>5. QED
      BY <3>2, <3>3, <3>4
  <2>4. QED
    BY <2>2, <2>3
<1>5. IsSum(h, f, T)
  <2> DEFINE k == [s \in SUBSET T |-> IF s = {} THEN 0 ELSE f[First(s)] + h[rest(s)]]
  <2>1. \A s \in SUBSET T : h[s] = k[s]
    <3> SUFFICES ASSUME NEW s \in SUBSET T PROVE h[s] = k[s]
      OBVIOUS
    <3>1. CASE s = {}
      BY <3>1
    <3>2. CASE s # {}
      <4>1. h[rest(s)] = G[rest(s)][rest(s)]
        BY <1>4, <3>2
      <4>2. h[s] = f[First(s)] + G[rest(s)][rest(s)]
        BY <3>2
      <4>3. k[s] = f[First(s)] + h[rest(s)]
        BY <3>2
      <4>4. QED
        BY <4>1, <4>2, <4>3
    <3>3. QED
      BY <3>1, <3>2
  <2>2. h = [s \in SUBSET T |-> h[s]] /\ k = [s \in SUBSET T |-> k[s]]
    OBVIOUS
  <2> HIDE DEF h
  <2>3. h = k
    <3> HIDE DEF k
    <3> QED
      BY <2>1, <2>2
  <2>4. QED
    BY <2>3 DEF IsSum
<1>6. QED
  BY <1>1, <1>5

(* The recursive equation of the sum, and what follows from it when f is a *)
(* natural number on S.                                                    *)
NatsOn(f, S) == \A x \in S : f[x] \in Nat

LEMMA SumUnfolds ==
  ASSUME NEW f, NEW S, IsFiniteSet(S)
  PROVE  SumFunctionOnSet(f, S) =
           IF S = {} THEN 0 ELSE f[First(S)] + SumFunctionOnSet(f, S \ {First(S)})
<1> DEFINE T == S \ {First(S)}
           g == CHOOSE g : IsSum(g, f, S)
           h == CHOOSE h : IsSum(h, f, T)
<1>1. IsFiniteSet(T) /\ T \in SUBSET S
  BY FS_Subset
<1>2. IsSum(g, f, S) /\ IsSum(h, f, T)
  BY <1>1, SumExists
<1>3. SumFunctionOnSet(f, S) = g[S] /\ SumFunctionOnSet(f, T) = h[T]
  BY SumIsSum
<1> HIDE DEF T, g, h
<1>4. g[T] = h[T]
  <2>1. Agree(g, h, T)
    BY <1>1, <1>2, SumUnique
  <2>2. QED
    BY <2>1 DEF Agree
<1>5. g[S] = IF S = {} THEN 0 ELSE f[First(S)] + g[T]
  BY <1>2 DEF IsSum, T
<1>6. QED
  BY <1>3, <1>4, <1>5 DEF T

(* A sum of natural numbers is one.                                        *)
LEMMA SumIsNat ==
  ASSUME NEW f, NEW S, IsFiniteSet(S), NatsOn(f, S)
  PROVE  SumFunctionOnSet(f, S) \in Nat
<1> DEFINE Bad == {T \in SUBSET S : SumFunctionOnSet(f, T) \notin Nat}
<1> SUFFICES ASSUME Bad # {} PROVE FALSE
  OBVIOUS
<1>1. PICK T \in Bad : \A u \in SUBSET T : u # T => u \notin Bad
  <2>1. Bad \subseteq SUBSET S
    OBVIOUS
  <2> HIDE DEF Bad
  <2>2. QED
    BY <2>1, MinimalSubset
<1>2. SumFunctionOnSet(f, T) =
        IF T = {} THEN 0 ELSE f[First(T)] + SumFunctionOnSet(f, T \ {First(T)})
  BY SumUnfolds, FS_Subset
<1>3. CASE T # {}
  <2>1. First(T) \in T /\ f[First(T)] \in Nat
    BY <1>3, FirstIn DEF NatsOn
  <2>2. SumFunctionOnSet(f, T \ {First(T)}) \in Nat
    BY <1>1, <2>1
  <2>3. QED
    BY <1>1, <1>2, <1>3, <2>1, <2>2
<1>4. QED
  BY <1>1, <1>2, <1>3

(* Any element can be taken out first.                                     *)
LEMMA SumRemoves ==
  ASSUME NEW f, NEW S, IsFiniteSet(S), NatsOn(f, S)
  PROVE  \A x \in S : SumFunctionOnSet(f, S) = f[x] + SumFunctionOnSet(f, S \ {x})
<1> DEFINE Sum(T) == SumFunctionOnSet(f, T)
           Bad == {T \in SUBSET S : \E x \in T : Sum(T) # f[x] + Sum(T \ {x})}
<1> SUFFICES ASSUME Bad # {} PROVE FALSE
  OBVIOUS
<1>1. PICK T \in Bad : \A u \in SUBSET T : u # T => u \notin Bad
  <2>1. Bad \subseteq SUBSET S
    OBVIOUS
  <2> HIDE DEF Bad
  <2>2. QED
    BY <2>1, MinimalSubset
<1>2. PICK x \in T : Sum(T) # f[x] + Sum(T \ {x})
  BY <1>1
<1> DEFINE p == First(T)
<1>3. p \in T /\ f[p] \in Nat /\ f[x] \in Nat
  BY <1>2, FirstIn DEF NatsOn
<1>4. \A u \in SUBSET T : IsFiniteSet(u) /\ Sum(u) \in Nat
  <2>1. ASSUME NEW u \in SUBSET T PROVE IsFiniteSet(u) /\ NatsOn(f, u)
    BY FS_Subset DEF NatsOn
  <2>2. QED
    BY <2>1, SumIsNat
<1>5. \A u \in SUBSET T : u # T => \A y \in u : Sum(u) = f[y] + Sum(u \ {y})
  BY <1>1
<1>6. Sum(T) = f[p] + Sum(T \ {p})
  BY <1>3, <1>4, SumUnfolds
<1> HIDE DEF Sum, p
<1>7. x # p
  BY <1>2, <1>6
<1>8. Sum(T \ {p}) = f[x] + Sum((T \ {p}) \ {x})
  <2>1. T \ {p} # T /\ x \in T \ {p}
    BY <1>3, <1>7
  <2>2. QED
    BY <1>5, <2>1
<1>9. Sum(T \ {x}) = f[p] + Sum((T \ {x}) \ {p})
  <2>1. T \ {x} # T /\ p \in T \ {x}
    BY <1>3, <1>7
  <2>2. QED
    BY <1>5, <2>1
<1>10. (T \ {p}) \ {x} = (T \ {x}) \ {p}
  OBVIOUS
<1>11. Sum((T \ {x}) \ {p}) \in Nat
  BY <1>4
<1>12. Sum(T) = f[x] + Sum(T \ {x})
  BY <1>3, <1>6, <1>8, <1>9, <1>10, <1>11
<1>13. QED
  BY <1>2, <1>12

(* A part of the set has no greater sum.                                   *)
LEMMA SumGrows ==
  ASSUME NEW f, NEW S, IsFiniteSet(S), NatsOn(f, S)
  PROVE  \A T \in SUBSET S : SumFunctionOnSet(f, T) <= SumFunctionOnSet(f, S)
<1> DEFINE Sum(T) == SumFunctionOnSet(f, T)
           Bad == {U \in SUBSET S : \E T \in SUBSET U : ~ (Sum(T) <= Sum(U))}
<1> SUFFICES ASSUME Bad # {} PROVE FALSE
  OBVIOUS
<1>1. PICK U \in Bad : \A u \in SUBSET U : u # U => u \notin Bad
  <2>1. Bad \subseteq SUBSET S
    OBVIOUS
  <2> HIDE DEF Bad
  <2>2. QED
    BY <2>1, MinimalSubset
<1>2. PICK T \in SUBSET U : ~ (Sum(T) <= Sum(U))
  BY <1>1
<1>3. \A u \in SUBSET U : IsFiniteSet(u) /\ NatsOn(f, u) /\ Sum(u) \in Nat
  <2>1. ASSUME NEW u \in SUBSET U PROVE IsFiniteSet(u) /\ NatsOn(f, u)
    BY FS_Subset DEF NatsOn
  <2>2. QED
    BY <2>1, SumIsNat
<1>4. T # U
  BY <1>2, <1>3
<1>5. PICK x \in U : x \notin T
  BY <1>4
<1>6. Sum(U) = f[x] + Sum(U \ {x})
  BY <1>3, SumRemoves
<1>7. Sum(T) <= Sum(U \ {x})
  <2>1. U \ {x} # U /\ T \in SUBSET (U \ {x})
    BY <1>5
  <2>2. QED
    BY <1>1, <2>1
<1>8. f[x] \in Nat
  BY DEF NatsOn
<1> HIDE DEF Sum
<1>9. Sum(T) <= Sum(U)
  BY <1>3, <1>6, <1>7, <1>8
<1>10. QED
  BY <1>2, <1>9

(* The sum only depends on what the function is on the set.                *)
LEMMA SumOfSame ==
  ASSUME NEW f, NEW g, NEW S, IsFiniteSet(S), \A x \in S : f[x] = g[x]
  PROVE  SumFunctionOnSet(f, S) = SumFunctionOnSet(g, S)
<1> DEFINE Bad == {T \in SUBSET S : SumFunctionOnSet(f, T) # SumFunctionOnSet(g, T)}
<1> SUFFICES ASSUME Bad # {} PROVE FALSE
  OBVIOUS
<1>1. PICK T \in Bad : \A u \in SUBSET T : u # T => u \notin Bad
  <2>1. Bad \subseteq SUBSET S
    OBVIOUS
  <2> HIDE DEF Bad
  <2>2. QED
    BY <2>1, MinimalSubset
<1> DEFINE rest == T \ {First(T)}
<1>2. IsFiniteSet(T)
  BY FS_Subset
<1>3. /\ SumFunctionOnSet(f, T) = IF T = {} THEN 0 ELSE f[First(T)] + SumFunctionOnSet(f, rest)
      /\ SumFunctionOnSet(g, T) = IF T = {} THEN 0 ELSE g[First(T)] + SumFunctionOnSet(g, rest)
  BY <1>2, SumUnfolds
<1>4. T # {} => First(T) \in T
  BY FirstIn
<1>5. T # {} => SumFunctionOnSet(f, rest) = SumFunctionOnSet(g, rest)
  BY <1>1, <1>4
<1>6. QED
  BY <1>1, <1>3, <1>4, <1>5

----------------------------------------------------------------------------
(* A finite set of numbers has a maximum.                                  *)
LEMMA FiniteMax ==
  ASSUME NEW S, IsFiniteSet(S), S \subseteq Nat, S # {}
  PROVE  Max(S) \in S /\ \A x \in S : x <= Max(S)
<1> DEFINE HasMax(T) == \E x \in T : \A y \in T : x >= y
           Bad == {T \in SUBSET S : T # {} /\ ~HasMax(T)}
<1>1. Bad = {}
  <2> SUFFICES ASSUME Bad # {} PROVE FALSE
    OBVIOUS
  <2>1. PICK T \in Bad : \A u \in SUBSET T : u # T => u \notin Bad
    <3>1. Bad \subseteq SUBSET S
      OBVIOUS
    <3> HIDE DEF Bad
    <3>2. QED
      BY <3>1, MinimalSubset
  <2>2. PICK x \in T : x \in Nat
    BY <2>1
  <2>3. PICK y \in T : ~(x >= y)
    BY <2>1
  <2>4. T \ {x} # {} /\ T \ {x} # T /\ T \ {x} \in SUBSET T
    BY <2>2, <2>3
  <2>5. HasMax(T \ {x})
    BY <2>1, <2>4
  <2>6. HasMax(T)
    BY <2>2, <2>3, <2>5
  <2>7. QED
    BY <2>1, <2>6
<1>2. HasMax(S)
  BY <1>1
<1>3. Max(S) \in S /\ \A y \in S : Max(S) >= y
  BY <1>2 DEF Max
<1>4. QED
  BY <1>3

(* The containers of a pod ask for a natural number of each resource, and  *)
(* so does the pod.                                                        *)
LEMMA ContainersAskNat ==
  ASSUME NEW c \in Seq(Amount)
  PROVE  ContainerRequests(c) \in Amount
<1>1. ASSUME NEW r \in Resource PROVE ContainerRequests(c)[r] \in Nat
  <2> DEFINE asked == [k \in DOMAIN c |-> c[k][r]]
  <2>1. asked \in [1 .. Len(c) -> Nat] /\ Len(c) \in Nat
    BY DEF Amount
  <2>2. IsFiniteSet(DOMAIN asked) /\ NatsOn(asked, DOMAIN asked)
    <3>1. IsFiniteSet(DOMAIN asked)
      BY <2>1, FS_Interval
    <3>2. NatsOn(asked, DOMAIN asked)
      BY <2>1 DEF NatsOn
    <3>3. QED
      BY <3>1, <3>2
  <2>3. ContainerRequests(c)[r] = SumFunction(asked)
    BY DEF ContainerRequests
  <2> HIDE DEF asked
  <2>4. QED
    BY <2>2, <2>3, SumIsNat DEF SumFunction
<1>2. QED
  BY <1>1 DEF ContainerRequests, Amount

LEMMA RequestsAreNat ==
  ASSUME NEW x \in Name
  PROVE  Requests[x] \in Amount /\ Counted[x] \in Amount
<1> DEFINE c == Containers[x]
           i == InitContainers[x]
<1>1. c \in Seq(Amount) /\ i \in Seq(Amount)
  BY SchedulerAssumption
<1> HIDE DEF c, i
<1>2. ASSUME NEW r \in Resource PROVE PodRequests(c, i)[r] \in Nat
  <2> DEFINE init == [k \in DOMAIN i |-> i[k][r]]
             inits == {i[k][r] : k \in DOMAIN i}
             sum == ContainerRequests(c)[r]
  <2>1. init \in [1 .. Len(i) -> Nat]
    BY <1>1 DEF Amount
  <2>2. sum \in Nat
    BY <1>1, ContainersAskNat DEF Amount
  <2>3. IsFiniteSet(inits) /\ inits \subseteq Nat
    <3>1. inits \subseteq Nat
      BY <1>1 DEF Amount
    <3>2. init \in Surjection(1 .. Len(i), inits)
      BY <1>1, <2>1 DEF Surjection
    <3>3. IsFiniteSet(1 .. Len(i))
      BY <1>1, FS_Interval
    <3> HIDE DEF inits, init
    <3>4. IsFiniteSet(inits)
      BY <3>2, <3>3, FS_Surjection
    <3>5. QED
      BY <3>1, <3>4
  <2> HIDE DEF inits, sum
  <2>4. IsFiniteSet({sum} \cup inits)
    <3>1. {sum} \cup inits = inits \cup {sum}
      OBVIOUS
    <3>2. QED
      BY <2>3, <3>1, FS_AddElement
  <2>5. Max({sum} \cup inits) \in Nat
    BY <2>2, <2>3, <2>4, FiniteMax
  <2>6. QED
    BY <2>5 DEF PodRequests, sum, inits
<1>3. PodRequests(c, i) = [r \in Resource |-> PodRequests(c, i)[r]]
  BY DEF PodRequests
<1>4. PodRequests(c, i) \in Amount
  BY <1>2, <1>3 DEF Amount
<1>5. QED
  BY <1>1, <1>4, ContainersAskNat DEF Requests, Counted, c, i

(* The more pods, the more they ask for.                                   *)
LEMMA TotalGrows ==
  ASSUME NEW S \in SUBSET Name, NEW T \in SUBSET S, NEW r \in Resource
  PROVE  /\ Total[T][r] \in Nat /\ Total[S][r] \in Nat
         /\ Total[T][r] <= Total[S][r]
<1> DEFINE asked(U) == [x \in U |-> Counted[x][r]]
<1>1. IsFiniteSet(S) /\ IsFiniteSet(T)
  BY SchedulerAssumption, FS_Subset
<1>2. NatsOn(asked(S), S) /\ NatsOn(asked(T), T) /\ NatsOn(asked(S), T)
  BY RequestsAreNat DEF NatsOn, Amount
<1>3. \A x \in T : asked(T)[x] = asked(S)[x]
  OBVIOUS
<1>4. DOMAIN asked(S) = S /\ DOMAIN asked(T) = T
  OBVIOUS
<1>5. Total[S][r] = SumFunction(asked(S)) /\ Total[T][r] = SumFunction(asked(T))
  BY DEF Total
<1> HIDE DEF asked
<1>6. /\ Total[S][r] = SumFunctionOnSet(asked(S), S)
      /\ Total[T][r] = SumFunctionOnSet(asked(T), T)
  BY <1>4, <1>5 DEF SumFunction
<1>7. SumFunctionOnSet(asked(T), T) = SumFunctionOnSet(asked(S), T)
  BY <1>1, <1>3, SumOfSame
<1>8. SumFunctionOnSet(asked(S), T) <= SumFunctionOnSet(asked(S), S)
  BY <1>1, <1>2, SumGrows
<1>9. QED
  BY <1>1, <1>2, <1>6, <1>7, <1>8, SumIsNat

----------------------------------------------------------------------------
(* What SchedulePod returns for a pod is an error or a node that passed    *)
(* the filter with the pods counted on it.                                 *)
LEMMA OutcomeHasRoom ==
  ASSUME TypeOK, NEW x \in Name, NEW n \in Outcomes(x), n # NoNode
  PROVE  /\ n \in Node
         /\ \A r \in Resource : Total[SeenOn(n)][r] + Requests[x][r] <= Allocatable[n][r]
<1> DEFINE counted == [m \in Node |-> SeenOn(m)]
<1>1. counted \in [Node -> SUBSET Name]
  BY DEF SeenOn
<1> DEFINE metrics(t) == [m \in Node |-> NodeMetrics(m, t[m], counted[m])]
<1> HIDE DEF counted
<1>2. PICK t \in [Node -> Telemetry], reclaimed \in SUBSET Node :
        n \in Best(x, metrics(t), reclaimed)
  <2>1. n \in SchedulePod[x][counted]
    BY DEF Outcomes, counted
  <2>2. PICK t \in [Node -> Telemetry], reclaimed \in SUBSET Node :
          IF Best(x, metrics(t), reclaimed) = {}
            THEN n = NoNode ELSE n \in Best(x, metrics(t), reclaimed)
    BY <1>1, <2>1 DEF SchedulePod
  <2>3. QED
    BY <2>2
<1>3. n \in Node /\ Filter(Requests[x], Selector[x], metrics(t)[n])
  BY <1>2 DEF Best
<1>4. /\ metrics(t)[n].requested = Total[SeenOn(n)]
      /\ metrics(t)[n].allocatable = Allocatable[n]
  BY <1>3 DEF NodeMetrics, counted
<1>5. QED
  BY <1>3, <1>4 DEF Filter

----------------------------------------------------------------------------
(* The calls of the API server keep its types.                             *)
ClusterTypeOK ==
  /\ phase \in [Name -> Phase]
  /\ scheduler \in [Name -> Scheduler]
  /\ place \in [Name -> Node \cup {NoNode}]

LEMMA CallsKeepCluster ==
  ASSUME ClusterTypeOK, NEW x \in Name
  PROVE  /\ \A s \in Scheduler : AddPod(x, s) => ClusterTypeOK'
         /\ RemovePod(x) => ClusterTypeOK'
         /\ \A n \in Node : BindPod(x, n) => ClusterTypeOK'
         /\ UNCHANGED clusterVars => ClusterTypeOK'
BY DEF ClusterTypeOK, AddPod, RemovePod, BindPod, clusterVars, Phase, Scheduler

(* The steps of HandoverPod keep the invariant.                            *)
LEMMA HandoverKeepsIInv ==
  ASSUME IInv, HandoverPod, UNCHANGED schedulerVars
  PROVE  IInv'
<1> USE HandoverAssumption DEF IInv, TypeOK, HandoverTypeOK
<1> DEFINE c == Owner[worker.pod]
<1>1. /\ podQueue' = podQueue /\ timers' = timers /\ retryTracker' = retryTracker
      /\ view' = view
  BY DEF schedulerVars
<1>2. ClusterTypeOK
  BY DEF ClusterTypeOK
<1>3. faults' \in 0 .. MaxFaults
  <2>1. faults' = faults \/ Fault
    BY DEF HandoverPod, FindParent, PatchDeployment, PatchReplicaSet, DeleteReplica,
       DeletePod, Recreate
  <2>2. QED
    BY <2>1 DEF Fault
<1>4. arrivals' = arrivals /\ wanted' = wanted
  BY DEF userVars, HandoverPod, FindParent, PatchDeployment, PatchReplicaSet, DeleteReplica,
     DeletePod, Recreate
<1>5. worker.pod \in Name
  BY DEF HandoverPod, FindParent, PatchDeployment, PatchReplicaSet, DeleteReplica,
     DeletePod, Recreate, At, WorkerHasPod
<1>6. ClusterTypeOK'
  BY <1>2, <1>5, CallsKeepCluster DEF HandoverPod, FindParent, PatchDeployment,
     PatchReplicaSet, DeleteReplica, DeletePod, Recreate, Scheduler
<1>7. template' \in [Controller -> Scheduler] /\ mixed' \subseteq Controller
  <2>1. CASE PatchDeployment
    <3>1. c \in Controller
      BY <1>5, <2>1 DEF PatchDeployment, At, WorkerHasPod, Controller
    <3>2. QED
      BY <2>1, <3>1 DEF PatchDeployment, ownerVars, Scheduler
  <2>2. CASE PatchReplicaSet
    <3>1. c \in Controller
      BY <1>5, <2>2 DEF PatchReplicaSet, At, WorkerHasPod, Controller
    <3>2. QED
      BY <2>2, <3>1 DEF PatchReplicaSet, ownerVars, Scheduler
  <2>3. CASE FindParent \/ DeleteReplica \/ DeletePod \/ Recreate
    BY <2>3 DEF FindParent, DeleteReplica, DeletePod, Recreate, ownerVars
  <2>4. QED
    BY <2>1, <2>2, <2>3 DEF HandoverPod
<1>8. \/ worker' = Idle
      \/ /\ worker' = [worker EXCEPT !.at = worker'.at]
         /\ worker'.at \in {"patch Deployment", "patch ReplicaSet", "delete replica", "create"}
         /\ worker'.at # "create" =>
              worker.at \in {"parent", "patch Deployment", "patch ReplicaSet"}
  BY DEF HandoverPod, FindParent, PatchDeployment, PatchReplicaSet, DeleteReplica,
     DeletePod, Recreate, GoTo, Worker, At
<1>9. worker' \in Worker /\ WorkerHasPod' /\ TargetHasRoom'
  <2>1. CASE worker' = Idle
    BY <2>1 DEF Idle, Worker, WorkerHasPod, TargetHasRoom, At
  <2>2. CASE worker' # Idle
    <3>1. /\ worker'.at \in HandoverStep /\ worker' \in Worker
          /\ worker'.pod = worker.pod /\ worker'.at # "bind"
      BY <1>8, <2>2 DEF Worker, HandoverStep
    <3>2. QED
      BY <1>5, <1>8, <2>2, <3>1 DEF WorkerHasPod, TargetHasRoom, At
  <2>3. QED
    BY <2>1, <2>2
<1>10. QED
  BY <1>1, <1>3, <1>4, <1>6, <1>7, <1>9 DEF ClusterTypeOK, WantedAreStandalone

(* A step that leaves worker and queue alone keeps what they hold.         *)
LEMMA WorkerKept ==
  ASSUME IInv, UNCHANGED worker
  PROVE  worker' \in Worker /\ WorkerHasPod' /\ TargetHasRoom'
BY DEF IInv, TypeOK, HandoverTypeOK, WorkerHasPod, TargetHasRoom, At

(* The steps of users and controllers keep it.                             *)
LEMMA EnvironmentKeepsIInv ==
  ASSUME IInv, Environment, UNCHANGED schedulerVars
  PROVE  IInv'
<1> USE HandoverAssumption DEF IInv, TypeOK, HandoverTypeOK
<1>1. /\ podQueue' = podQueue /\ timers' = timers /\ retryTracker' = retryTracker
      /\ view' = view
  BY DEF schedulerVars
<1>2. worker' \in Worker /\ WorkerHasPod' /\ TargetHasRoom'
  BY WorkerKept DEF Environment, Arrive, DefaultBind, Leave, RolloutEnds
<1>3. ClusterTypeOK
  BY DEF ClusterTypeOK
<1>4. ClusterTypeOK'
  <2>1. ASSUME NEW x \in Name, Arrive(x) \/ DefaultBind(x) \/ Leave(x)
        PROVE  ClusterTypeOK'
    <3>1. \/ AddPod(x, "adaptive") \/ RemovePod(x)
          \/ \E n \in Node : BindPod(x, n)
      BY <2>1 DEF Arrive, DefaultBind, Leave
    <3>2. QED
      BY <1>3, <3>1, CallsKeepCluster DEF Scheduler
  <2>2. ASSUME NEW k \in Controller, RolloutEnds(k) PROVE ClusterTypeOK'
    BY <1>3, <2>2 DEF RolloutEnds, ClusterTypeOK, clusterVars
  <2>3. QED
    BY <2>1, <2>2 DEF Environment
<1>5. template' \in [Controller -> Scheduler] /\ mixed' \subseteq Controller
  BY DEF Environment, Arrive, DefaultBind, Leave, RolloutEnds, ownerVars
<1>6. arrivals' \in 0 .. MaxArrivals /\ faults' \in 0 .. MaxFaults
  BY DEF Environment, Arrive, DefaultBind, Leave, RolloutEnds, userVars
<1>7. wanted' \subseteq Name /\ WantedAreStandalone'
  BY DEF Environment, Arrive, DefaultBind, Leave, RolloutEnds, userVars, WantedAreStandalone
<1>8. QED
  BY <1>1, <1>2, <1>4, <1>5, <1>6, <1>7 DEF ClusterTypeOK

(* The queue and the timers: what a step adds to them or takes from them.  *)
QueueTypeOK ==
  /\ podQueue \in Seq(Name) /\ Len(podQueue) <= QueueCapacity
  /\ timers \in Seq(Name) /\ Len(timers) <= MaxTimers

LEMMA EnqueueKeepsQueue ==
  ASSUME QueueTypeOK, NEW x \in Name, Enqueue(x)
  PROVE  podQueue' \in Seq(Name) /\ Len(podQueue') <= QueueCapacity
<1>1. QueueCapacity \in Nat
  BY SchedulerAssumption
<1>2. QED
  BY <1>1 DEF QueueTypeOK, Enqueue

LEMMA TakeKeepsQueue ==
  ASSUME QueueTypeOK, TakeCopy
  PROVE  /\ Head(podQueue) \in Name
         /\ podQueue' \in Seq(Name) /\ Len(podQueue') <= QueueCapacity
<1>1. QueueCapacity \in Nat
  BY SchedulerAssumption
<1>2. podQueue # <<>>
  BY DEF TakeCopy
<1>3. /\ Head(podQueue) \in Name /\ Tail(podQueue) \in Seq(Name)
      /\ Len(Tail(podQueue)) = Len(podQueue) - 1 /\ Len(podQueue) \in Nat
  BY <1>2, HeadTailProperties DEF QueueTypeOK
<1>4. QED
  BY <1>1, <1>3 DEF QueueTypeOK, TakeCopy

LEMMA RemoveAtKeepsSeq ==
  ASSUME NEW S, NEW s \in Seq(S), NEW i \in DOMAIN s
  PROVE  RemoveAt(s, i) \in Seq(S) /\ Len(RemoveAt(s, i)) = Len(s) - 1
<1> DEFINE before == SubSeq(s, 1, i - 1)
           after == SubSeq(s, i + 1, Len(s))
<1>1. Len(s) \in Nat /\ i \in 1 .. Len(s)
  OBVIOUS
<1>2. before \in Seq(S) /\ Len(before) = i - 1
  BY <1>1, SubSeqProperties
<1>3. after \in Seq(S) /\ Len(after) = Len(s) - i
  BY <1>1, SubSeqProperties
<1> HIDE DEF before, after
<1>4. before \o after \in Seq(S) /\ Len(before \o after) = Len(before) + Len(after)
  BY <1>2, <1>3, ConcatProperties
<1>5. RemoveAt(s, i) = before \o after
  BY DEF RemoveAt, before, after
<1>6. QED
  BY <1>1, <1>2, <1>3, <1>4, <1>5

(* The attempts that are counted stay below the limit.                     *)
LEMMA CountKeepsRetries ==
  ASSUME retryTracker \in [Name -> 0 .. HandoverMaxRetries], NEW x, NEW k \in Nat,
         k <= HandoverMaxRetries
  PROVE  [retryTracker EXCEPT ![x] = k] \in [Name -> 0 .. HandoverMaxRetries]
<1>1. k \in 0 .. HandoverMaxRetries
  BY SchedulerAssumption
<1>2. QED
  BY <1>1

(* The steps of the scheduler keep the invariant.                          *)
LEMMA ScheduleKeepsIInv ==
  ASSUME IInv, ScheduleOne
  PROVE  IInv'
<1> USE HandoverAssumption, SchedulerAssumption DEF IInv, TypeOK, HandoverTypeOK
<1> DEFINE x == Head(podQueue)
<1>1. QueueTypeOK
  BY DEF QueueTypeOK
<1>2. CASE SelectNode
  <2>1. x \in Name /\ podQueue' \in Seq(Name) /\ Len(podQueue') <= QueueCapacity
    BY <1>1, <1>2, TakeKeepsQueue DEF SelectNode
  <2>2. PICK n \in Outcomes(x) \ {NoNode} :
          worker' = [at |-> "bind", pod |-> x, target |-> n, counted |-> SeenOn(n)]
    BY <1>2 DEF SelectNode
  <2>3. /\ n \in Node
        /\ \A r \in Resource : Total[SeenOn(n)][r] + Requests[x][r] <= Allocatable[n][r]
    BY <2>1, OutcomeHasRoom
  <2> HIDE DEF x
  <2>4. worker' \in Worker /\ WorkerHasPod' /\ TargetHasRoom'
    BY <2>1, <2>2, <2>3 DEF Worker, WorkerHasPod, TargetHasRoom, At, SeenOn
  <2>5. retryTracker' \in [Name -> 0 .. HandoverMaxRetries]
    <3>1. retryTracker' = [retryTracker EXCEPT ![x] = 0]
      BY <1>2 DEF SelectNode, x
    <3>2. 0 \in Nat /\ 0 <= HandoverMaxRetries
      OBVIOUS
    <3> HIDE DEF x
    <3>3. [retryTracker EXCEPT ![x] = 0] \in [Name -> 0 .. HandoverMaxRetries]
      BY <3>2, CountKeepsRetries
    <3>4. QED
      BY <3>1, <3>3
  <2>6. QED
    BY <1>2, <2>1, <2>4, <2>5 DEF SelectNode, clusterVars, ownerVars, userVars, WantedAreStandalone
<1>3. CASE RetryLater
  <2>1. x \in Name /\ podQueue' \in Seq(Name) /\ Len(podQueue') <= QueueCapacity
    BY <1>1, <1>3, TakeKeepsQueue DEF RetryLater
  <2>2. timers' \in Seq(Name) /\ Len(timers') <= MaxTimers
    BY <1>3, <2>1 DEF RetryLater
  <2>3. retryTracker' \in [Name -> 0 .. HandoverMaxRetries]
    <3>1. retryTracker' = [retryTracker EXCEPT ![x] = @ + 1]
      BY <1>3 DEF RetryLater
    <3>2. retryTracker[x] + 1 < HandoverMaxRetries
      BY <1>3 DEF RetryLater
    <3> HIDE DEF x
    <3> QED
      BY <2>1, <3>1, <3>2, CountKeepsRetries
  <2>4. worker' = worker
    BY <1>3 DEF RetryLater, handoverVars
  <2>5. worker' \in Worker /\ WorkerHasPod' /\ TargetHasRoom'
    BY <2>4, WorkerKept
  <2>6. QED
    BY <1>3, <2>1, <2>2, <2>3, <2>5 DEF RetryLater, handoverVars, clusterVars, ownerVars, userVars, WantedAreStandalone
<1>4. CASE GiveUp
  <2>1. x \in Name /\ podQueue' \in Seq(Name) /\ Len(podQueue') <= QueueCapacity
    BY <1>1, <1>4, TakeKeepsQueue DEF GiveUp
  <2>2. retryTracker' \in [Name -> 0 .. HandoverMaxRetries]
    <3>1. retryTracker' = [retryTracker EXCEPT ![x] = 0]
      BY <1>4 DEF GiveUp
    <3>2. 0 \in Nat /\ 0 <= HandoverMaxRetries
      OBVIOUS
    <3> HIDE DEF x
    <3>3. [retryTracker EXCEPT ![x] = 0] \in [Name -> 0 .. HandoverMaxRetries]
      BY <3>2, CountKeepsRetries
    <3>4. QED
      BY <3>1, <3>3
  <2>3. \/ worker' = [at |-> FirstStep(x), pod |-> x, target |-> NoNode, counted |-> {}]
        \/ worker' = Idle
    BY <1>4 DEF GiveUp, Idle
  <2> HIDE DEF x
  <2>4. worker' \in Worker /\ WorkerHasPod' /\ TargetHasRoom'
    <3>1. CASE worker' = Idle
      BY <3>1 DEF Worker, WorkerHasPod, TargetHasRoom, At, Idle
    <3>2. CASE worker' # Idle
      <4>1. worker' = [at |-> FirstStep(x), pod |-> x, target |-> NoNode, counted |-> {}]
        BY <2>3, <3>2
      <4>2. FirstStep(x) \in HandoverStep /\ (FirstStep(x) = "parent" => Owner[x] # NoOwner)
            /\ FirstStep(x) \in {"delete", "parent"}
        BY DEF FirstStep, HandoverStep
      <4>3. worker' \in Worker
        BY <2>1, <4>1, <4>2 DEF Worker
      <4>4. WorkerHasPod' /\ TargetHasRoom'
        BY <2>1, <4>1, <4>2 DEF WorkerHasPod, TargetHasRoom, At
      <4>5. QED
        BY <4>3, <4>4
    <3>3. QED
      BY <3>1, <3>2
  <2>5. QED
    BY <1>4, <2>1, <2>2, <2>4 DEF GiveUp, clusterVars, ownerVars, userVars, WantedAreStandalone
<1>5. CASE Bind
  <2>1. worker.pod \in Name /\ worker.target \in Node
    BY <1>5 DEF Bind, At, WorkerHasPod, TargetHasRoom
  <2>2. ClusterTypeOK
    BY DEF ClusterTypeOK
  <2>3. ClusterTypeOK'
    <3>1. BindPod(worker.pod, worker.target) \/ UNCHANGED clusterVars
      BY <1>5 DEF Bind
    <3>2. QED
      BY <2>1, <2>2, <3>1, CallsKeepCluster
  <2>4. worker' \in Worker /\ WorkerHasPod' /\ TargetHasRoom'
    BY <1>5 DEF Bind, Idle, Worker, WorkerHasPod, TargetHasRoom, At
  <2>5. faults' \in 0 .. MaxFaults
    BY <1>5 DEF Bind, Fault
  <2>6. QED
    BY <1>5, <2>3, <2>4, <2>5 DEF Bind, ClusterTypeOK, ownerVars, userVars, schedulerVars,
       WantedAreStandalone
<1>6. QED
  BY <1>2, <1>3, <1>4, <1>5 DEF ScheduleOne

(* Timers, events, restarts and new replicas keep it.                      *)
LEMMA EventsKeepIInv ==
  ASSUME IInv,
         \/ BackoffEnds \/ Restart
         \/ \E x \in Name : PodEvent(x) \/ SyncPod(x) \/ NewReplica(x)
  PROVE  IInv'
<1> USE HandoverAssumption, SchedulerAssumption DEF IInv, TypeOK, HandoverTypeOK
<1>1. QueueTypeOK
  BY DEF QueueTypeOK
<1>2. CASE BackoffEnds
  <2>1. PICK i \in DOMAIN timers : Enqueue(timers[i]) /\ timers' = RemoveAt(timers, i)
    BY <1>2 DEF BackoffEnds
  <2>2. podQueue' \in Seq(Name) /\ Len(podQueue') <= QueueCapacity
    BY <1>1, <2>1, EnqueueKeepsQueue
  <2>3. timers' \in Seq(Name) /\ Len(timers') = Len(timers) - 1
    BY <2>1, RemoveAtKeepsSeq
  <2>4. Len(timers') <= MaxTimers
    BY <2>3
  <2>5. worker' \in Worker /\ WorkerHasPod' /\ TargetHasRoom'
    BY <1>2, WorkerKept DEF BackoffEnds, handoverVars
  <2>6. QED
    BY <1>2, <2>2, <2>3, <2>4, <2>5 DEF BackoffEnds, handoverVars, clusterVars, ownerVars,
       userVars, WantedAreStandalone
<1>3. CASE Restart
  <2>1. worker' \in Worker /\ WorkerHasPod' /\ TargetHasRoom'
    BY <1>3 DEF Restart, Idle, Worker, WorkerHasPod, TargetHasRoom, At
  <2>2. podQueue' \in Seq(Name) /\ timers' \in Seq(Name) /\ Len(podQueue') = 0 /\ Len(timers') = 0
    BY <1>3 DEF Restart
  <2>3. retryTracker' \in [Name -> 0 .. HandoverMaxRetries]
    BY <1>3 DEF Restart
  <2>4. faults' \in 0 .. MaxFaults
    BY <1>3 DEF Restart, Fault
  <2>5. QED
    BY <1>3, <2>1, <2>2, <2>3, <2>4 DEF Restart, clusterVars, ownerVars, userVars,
       WantedAreStandalone
<1>4. ASSUME NEW x \in Name, PodEvent(x) PROVE IInv'
  <2>1. podQueue' \in Seq(Name) /\ Len(podQueue') <= QueueCapacity
    BY <1>1, <1>4, EnqueueKeepsQueue DEF PodEvent
  <2>2. worker' \in Worker /\ WorkerHasPod' /\ TargetHasRoom'
    BY <1>4, WorkerKept DEF PodEvent, handoverVars
  <2>3. QED
    BY <1>4, <2>1, <2>2 DEF PodEvent, handoverVars, clusterVars, ownerVars, userVars,
       WantedAreStandalone
<1>5. ASSUME NEW x \in Name, SyncPod(x) PROVE IInv'
  <2>1. worker' \in Worker /\ WorkerHasPod' /\ TargetHasRoom'
    BY <1>5, WorkerKept DEF SyncPod, handoverVars
  <2>2. view' \in [Name -> Node \cup {NoNode}]
    BY <1>5 DEF SyncPod
  <2>3. QED
    BY <1>5, <2>1, <2>2 DEF SyncPod, handoverVars, clusterVars, ownerVars, userVars,
       WantedAreStandalone
<1>6. ASSUME NEW x \in Name, NewReplica(x) PROVE IInv'
  <2>1. worker' \in Worker /\ WorkerHasPod' /\ TargetHasRoom'
    BY <1>6, WorkerKept DEF NewReplica, AddReplica
  <2>2. Owner[x] \in Controller
    BY <1>6 DEF NewReplica, AddReplica, Controller
  <2>3. \E s \in Scheduler : AddPod(x, s)
    BY <1>6, <2>2 DEF NewReplica, AddReplica
  <2>4. ClusterTypeOK'
    <3>1. ClusterTypeOK
      BY DEF ClusterTypeOK
    <3>2. QED
      BY <2>3, <3>1, CallsKeepCluster
  <2>5. /\ view' \in [Name -> Node \cup {NoNode}]
        /\ retryTracker' \in [Name -> 0 .. HandoverMaxRetries]
    BY <1>6 DEF NewReplica
  <2>6. QED
    BY <1>6, <2>1, <2>4, <2>5 DEF NewReplica, AddReplica, ClusterTypeOK, ownerVars, userVars,
       WantedAreStandalone
<1>7. QED
  BY <1>2, <1>3, <1>4, <1>5, <1>6

LEMMA InitIInv == Init => IInv
<1> SUFFICES ASSUME Init PROVE IInv
  OBVIOUS
<1> USE HandoverAssumption, SchedulerAssumption DEF Init, HandoverInit
<1>1. HandoverTypeOK
  BY DEF HandoverTypeOK, Phase, Scheduler, Worker, Idle
<1>2. TypeOK
  BY <1>1 DEF TypeOK
<1>3. WorkerHasPod /\ TargetHasRoom
  BY DEF WorkerHasPod, TargetHasRoom, At, Idle
<1>4. WantedAreStandalone
  BY DEF WantedAreStandalone
<1>5. QED
  BY <1>2, <1>3, <1>4 DEF IInv

LEMMA StutterKeepsIInv == IInv /\ UNCHANGED vars => IInv'
BY DEF vars, handoverVars, clusterVars, ownerVars, userVars, schedulerVars, IInv, TypeOK,
   HandoverTypeOK, WorkerHasPod, TargetHasRoom, WantedAreStandalone, At

LEMMA IInvIsKept == IInv /\ [Next]_vars => IInv'
BY ScheduleKeepsIInv, EventsKeepIInv, HandoverKeepsIInv, EnvironmentKeepsIInv,
   StutterKeepsIInv DEF Next

(* The inductive invariant of the scheduler.                               *)
THEOREM Invariance == Spec => []IInv
BY InitIInv, IInvIsKept, PTL DEF Spec

(* Type correctness: the queue and the timers keep their bounds.           *)
THEOREM TypeCorrect == Spec => []TypeOK
<1>1. IInv => TypeOK
  BY DEF IInv
<1>2. QED
  BY <1>1, Invariance, PTL

(* A step that ends what the worker does with a pod it selected a node for *)
(* is the Bind call, or a restart, which moves no pod.                     *)
LEMMA OnlyBindEndsBind ==
  ASSUME IInv, Next, At("bind"), worker' = Idle
  PROVE  Bind \/ place' = place
<1>1. worker' # worker
  BY DEF At, Idle
<1>2. ~(BackoffEnds \/ Environment)
  BY <1>1 DEF BackoffEnds, Environment, Arrive, DefaultBind, Leave, RolloutEnds, handoverVars
<1>3. ~(SelectNode \/ RetryLater \/ GiveUp)
  BY DEF SelectNode, RetryLater, GiveUp, TakeCopy, At
<1>4. ~HandoverPod
  BY DEF HandoverPod, FindParent, PatchDeployment, PatchReplicaSet, DeleteReplica,
     DeletePod, Recreate, At
<1>5. \A x \in Name : ~(PodEvent(x) \/ SyncPod(x) \/ NewReplica(x))
  BY <1>1 DEF PodEvent, SyncPod, NewReplica, AddReplica, handoverVars
<1>6. Restart => place' = place
  BY DEF Restart, clusterVars
<1>7. QED
  BY <1>2, <1>3, <1>4, <1>5, <1>6 DEF Next, ScheduleOne

(* Where the snapshot showed every pod of the node, no Bind makes the      *)
(* requests of its pods exceed what it can allocate.                       *)
THEOREM FreshViewsFit == Spec => FreshViewFits
<1> DEFINE Fits ==
      \A n \in Node :
        At("bind") /\ worker' = Idle /\ place'[worker.pod] = n /\ place[worker.pod] # n
          /\ BoundTo(n) \subseteq worker.counted
        => \A r \in Resource : Total[BoundTo(n)][r] + Requests[worker.pod][r]
                                 <= Allocatable[n][r]
<1>1. IInv /\ [Next]_vars => [Fits]_vars
  <2> SUFFICES ASSUME IInv, Next, NEW n \in Node, At("bind"), worker' = Idle,
                      place'[worker.pod] = n, place[worker.pod] # n,
                      BoundTo(n) \subseteq worker.counted, NEW r \in Resource
               PROVE  Total[BoundTo(n)][r] + Requests[worker.pod][r] <= Allocatable[n][r]
    OBVIOUS
  <2>1. Bind
    BY OnlyBindEndsBind
  <2>2. worker.pod \in Name /\ worker.counted \in SUBSET Name
    BY DEF IInv, TypeOK, HandoverTypeOK, Worker, WorkerHasPod, At
  <2>3. n = worker.target
    BY <2>1, <2>2 DEF Bind, BindPod, clusterVars, IInv, TypeOK, HandoverTypeOK
  <2>4. Total[worker.counted][r] + Requests[worker.pod][r] <= Allocatable[n][r]
    BY <2>3 DEF IInv, TargetHasRoom
  <2>5. /\ Total[BoundTo(n)][r] \in Nat /\ Total[worker.counted][r] \in Nat
        /\ Total[BoundTo(n)][r] <= Total[worker.counted][r]
    BY <2>2, TotalGrows
  <2>6. Requests[worker.pod][r] \in Nat /\ Allocatable[n][r] \in Nat
    BY <2>2, RequestsAreNat, SchedulerAssumption DEF Amount
  <2>7. QED
    BY <2>4, <2>5, <2>6
<1>2. QED
  BY <1>1, Invariance, PTL DEF Spec, FreshViewFits

(* No step of a handover touches what the users want.                      *)
LEMMA HandoverCounts ==
  ASSUME HandoverPod, faults \in Nat
  PROVE  wanted' = wanted /\ faults' >= faults
<1>1. wanted' = wanted
  BY DEF HandoverPod, FindParent, PatchDeployment, PatchReplicaSet, DeleteReplica,
     DeletePod, Recreate, userVars
<1>2. faults' = faults \/ faults' = faults + 1
  BY DEF HandoverPod, FindParent, PatchDeployment, PatchReplicaSet, DeleteReplica,
     DeletePod, Recreate, Fault
<1>3. QED
  BY <1>1, <1>2

(* A step loses a standalone pod only when a call fails or the process     *)
(* stops, and then no other than the one that the worker is to create.     *)
LEMMA OneLossPerFailure ==
  ASSUME IInv, Next
  PROVE  \/ Lost' \subseteq Lost /\ faults' >= faults
         \/ faults' = faults + 1 /\ Lost' \subseteq Lost \cup {worker.pod}
<1> USE HandoverAssumption DEF IInv, TypeOK, HandoverTypeOK
<1>1. faults \in Nat
  OBVIOUS
<1>2. CASE ScheduleOne
  <2>1. ~At("create") /\ wanted' = wanted
    BY <1>2 DEF ScheduleOne, SelectNode, RetryLater, GiveUp, Bind, TakeCopy, At,
       handoverVars, userVars
  <2>2. \A x \in wanted : Exists(x) => Exists(x)'
    BY <1>2 DEF ScheduleOne, SelectNode, RetryLater, GiveUp, Bind, BindPod, Exists,
       handoverVars, clusterVars
  <2>3. faults' >= faults
    BY <1>1, <1>2 DEF ScheduleOne, SelectNode, RetryLater, GiveUp, Bind, Fault, handoverVars
  <2>4. QED
    BY <2>1, <2>2, <2>3 DEF Lost
<1>3. CASE HandoverPod
  <2> USE DEF Fault
  <2>1. wanted' = wanted /\ faults' >= faults
    BY <1>1, <1>3, HandoverCounts
  <2>2. CASE FindParent \/ PatchDeployment \/ PatchReplicaSet
    <3>1. phase' = phase /\ ~At("create")
      BY <2>2 DEF FindParent, PatchDeployment, PatchReplicaSet, At, clusterVars
    <3>2. QED
      BY <2>1, <3>1 DEF Lost, Exists
  <2>3. CASE DeleteReplica
    <3>1. worker.pod \notin wanted /\ ~At("create")
      BY <2>3 DEF DeleteReplica, At, WorkerHasPod, WantedAreStandalone
    <3>2. \A x \in wanted : Exists(x) => Exists(x)'
      BY <2>3, <3>1 DEF DeleteReplica, RemovePod, Exists, clusterVars
    <3>3. QED
      BY <2>1, <3>1, <3>2 DEF Lost
  <2>4. CASE DeletePod
    <3>1. worker'.at = "create" /\ worker'.pod = worker.pod /\ ~At("create")
      BY <2>4 DEF DeletePod, GoTo, At, Worker
    <3>2. \A x \in wanted \ {worker.pod} : Exists(x) => Exists(x)'
      BY <2>4 DEF DeletePod, RemovePod, Exists, clusterVars
    <3>3. QED
      BY <2>1, <3>1, <3>2 DEF Lost, At
  <2>5. CASE Recreate
    <3>1. \A x \in wanted : Exists(x) => Exists(x)'
      BY <2>5 DEF Recreate, AddPod, Exists, clusterVars
    <3>2. worker.pod \in Name
      BY <2>5 DEF Recreate, At, WorkerHasPod
    <3>3. Exists(worker.pod) \/ faults' = faults + 1 \/ phase'[worker.pod] = "pending"
      BY <2>5, <3>2 DEF Recreate, AddPod
    <3>4. phase'[worker.pod] # "absent" \/ faults' = faults + 1
      BY <2>5, <3>2, <3>3 DEF Recreate, AddPod, Exists, clusterVars
    <3>5. \A x \in Lost' : x \in Lost \/ x = worker.pod
      BY <2>1, <3>1 DEF Lost
    <3>6. phase'[worker.pod] # "absent" => worker.pod \notin Lost'
      BY DEF Lost, Exists
    <3>7. QED
      BY <2>1, <3>4, <3>5, <3>6
  <2>6. QED
    BY <1>3, <2>2, <2>3, <2>4, <2>5 DEF HandoverPod
<1>4. CASE Environment
  <2>1. faults' = faults /\ worker' = worker
    BY <1>4 DEF Environment, Arrive, DefaultBind, Leave, RolloutEnds
  <2>2. ASSUME NEW x \in Lost' PROVE x \in wanted /\ ~Exists(x)
    <3>1. x \in wanted' /\ ~Exists(x)'
      BY DEF Lost
    <3>2. ASSUME NEW y \in Name, Arrive(y) PROVE x \in wanted /\ ~Exists(x)
      BY <3>1, <3>2 DEF Arrive, AddPod, Exists
    <3>3. ASSUME NEW y \in Name, DefaultBind(y) PROVE x \in wanted /\ ~Exists(x)
      BY <3>1, <3>3 DEF DefaultBind, BindPod, Exists, userVars
    <3>4. ASSUME NEW y \in Name, Leave(y) PROVE x \in wanted /\ ~Exists(x)
      BY <3>1, <3>4 DEF Leave, RemovePod, Exists
    <3>5. ASSUME NEW c \in Controller, RolloutEnds(c) PROVE x \in wanted /\ ~Exists(x)
      BY <3>1, <3>5 DEF RolloutEnds, Exists, clusterVars, userVars
    <3>6. QED
      BY <1>4, <3>2, <3>3, <3>4, <3>5 DEF Environment
  <2>3. QED
    BY <1>1, <2>1, <2>2 DEF Lost, At
<1>5. CASE Restart
  BY <1>1, <1>5 DEF Restart, Fault, Lost, Exists, At, clusterVars, userVars
<1>6. CASE BackoffEnds \/ \E x \in Name : PodEvent(x) \/ SyncPod(x)
  BY <1>1, <1>6 DEF BackoffEnds, PodEvent, SyncPod, Lost, Exists, At, handoverVars,
     clusterVars, userVars
<1>7. ASSUME NEW x \in Name, NewReplica(x)
      PROVE  Lost' \subseteq Lost /\ faults' >= faults
  BY <1>1, <1>7 DEF NewReplica, AddReplica, AddPod, Lost, Exists, At, userVars
<1>8. QED
  BY <1>2, <1>3, <1>4, <1>5, <1>6, <1>7 DEF Next

(* However many standalone pods are handed over, through whatever copies   *)
(* and retries: each one that is lost costs a failed call or a restart.    *)
THEOREM LossesNeedFailures == Spec => []LossNeedsAFailure
<1>1. Init => LossNeedsAFailure
  <2> SUFFICES ASSUME Init PROVE LossNeedsAFailure
    OBVIOUS
  <2>1. Lost = {} /\ faults = 0
    BY DEF Init, HandoverInit, Lost
  <2>2. QED
    BY <2>1, FS_EmptySet DEF LossNeedsAFailure
<1>2. IInv /\ LossNeedsAFailure /\ [Next]_vars => LossNeedsAFailure'
  <2> SUFFICES ASSUME IInv, LossNeedsAFailure, [Next]_vars PROVE LossNeedsAFailure'
    OBVIOUS
  <2>1. faults \in Nat /\ IsFiniteSet(Lost)
    BY HandoverAssumption, SchedulerAssumption, FS_Subset
       DEF IInv, TypeOK, HandoverTypeOK, Lost
  <2>2. Cardinality(Lost) \in Nat /\ Cardinality(Lost) <= faults
    BY <2>1, FS_CardinalityType DEF LossNeedsAFailure
  <2>3. CASE Next
    <3>1. CASE Lost' \subseteq Lost /\ faults' >= faults
      <4>1. Cardinality(Lost') \in Nat /\ Cardinality(Lost') <= Cardinality(Lost)
        BY <2>1, <3>1, FS_Subset, FS_CardinalityType
      <4>2. faults' \in Int
        BY <2>3, IInvIsKept, HandoverAssumption DEF IInv, TypeOK, HandoverTypeOK
      <4>3. QED
        BY <2>1, <2>2, <3>1, <4>1, <4>2 DEF LossNeedsAFailure
    <3>2. CASE faults' = faults + 1 /\ Lost' \subseteq Lost \cup {worker.pod}
      <4> DEFINE more == Lost \cup {worker.pod}
      <4>1. IsFiniteSet(more) /\ Cardinality(more) <= Cardinality(Lost) + 1
        BY <2>1, <2>2, FS_AddElement
      <4>2. Cardinality(Lost') <= Cardinality(more) /\ Cardinality(Lost') \in Nat
            /\ Cardinality(more) \in Nat
        BY <3>2, <4>1, FS_Subset, FS_CardinalityType
      <4> HIDE DEF more
      <4>3. QED
        BY <2>1, <2>2, <3>2, <4>1, <4>2 DEF LossNeedsAFailure
    <3>3. QED
      BY <2>3, <3>1, <3>2, OneLossPerFailure
  <2>4. CASE UNCHANGED vars
    <3>1. Lost' = Lost /\ faults' = faults
      BY <2>4 DEF vars, handoverVars, clusterVars, userVars, Lost, Exists, At
    <3>2. QED
      BY <3>1 DEF LossNeedsAFailure
  <2>5. QED
    BY <2>3, <2>4
<1>3. QED
  BY <1>1, <1>2, Invariance, PTL DEF Spec
=============================================================================
