---------------------- MODULE SimulatorLifecycleProofs ----------------------
(***************************************************************************)
(* Theorems about SimulatorLifecycle, for any workloads, requests, faults  *)
(* and dependencies.                                                       *)
(***************************************************************************)
EXTENDS SimulatorLifecycle, SequenceTheorems, TLAPS

ReclaimAt ==
  {"save", "checkpointing", "checkpointed", "delete", "delete gracefully", "get owner",
   "scale to zero", "reclaimed", "reclaimed gracefully", "decide", "fail"}
RestoreAt ==
  {"restoring", "find owner", "scale up", "delete old copy", "create copy",
   "restore fails", "restored"}

RequestRecord ==
  [at : RequestAt, key : Key \cup {NoKey}, todo : Seq(Restorable),
   snapshot : BOOLEAN, fresh : BOOLEAN, known : BOOLEAN]

PollRecord == [at : PollAt, seen : SUBSET Pod, todo : SUBSET Key]

(* What a request has in hand at each of its steps.                        *)
RequestOK(q) ==
  /\ q \in RequestRecord
  /\ q.at = "next" => q.todo # <<>>
  /\ q.at \in RestoreAt => q.key \in Restorable
  /\ q.at \in ReclaimAt => q.key \in Key
  /\ q.known => q.at \in ReclaimAt \ {"save"}

(* A request that will write the state of k once more, and not a decision. *)
Writes(q, k) == q.key = k /\ q.at \notin {"idle", "next", "decide"}

Shown(k) == Get(k).state

StepsOK == \A r \in Request : RequestOK(request[r])
SnapshotsHold ==
  \A r \in Request : request[r].known =>
    states[request[r].key] \in Entry /\ states[request[r].key].snapshot
WritersRemain ==
  \A k \in Key : Shown(k) \in Transitional =>
    late[k] > 0 \/ \E r \in Request : Writes(request[r], k)

LifecycleInv == TypeOK /\ StepsOK /\ SnapshotsHold /\ WritersRemain

----------------------------------------------------------------------------
(* The store.                                                              *)

SnapshotsStay ==
  \A k \in Key : states[k] \in Entry /\ states[k].snapshot =>
    states'[k] \in Entry /\ states'[k].snapshot

LEMMA GetIsEntry ==
  ASSUME StoreTypeOK, NEW k \in Key
  PROVE  Get(k) \in Entry /\ (states[k] \in Entry => Get(k) = states[k])
BY StoreAssumption DEF Get, StoreTypeOK, Entry, State

LEMMA EntryIsShown ==
  ASSUME StoreTypeOK', NEW k \in Key, states'[k] \in Entry
  PROVE  Shown(k)' = states'[k].state
BY StoreAssumption DEF Shown, Get, StoreTypeOK

LEMMA SameIsShown ==
  ASSUME NEW k \in Key, states'[k] = states[k]
  PROVE  Shown(k)' = Shown(k)
BY DEF Shown, Get

(* SetState writes the state of k and keeps its snapshot.                  *)
LEMMA SetStateIsSound ==
  ASSUME StoreTypeOK, NEW k \in Key, NEW s \in State, SetState(k, s)
  PROVE  /\ StoreTypeOK' /\ SnapshotsStay
         /\ Shown(k)' = s
         /\ \A j \in Key \ {k} : Shown(j)' = Shown(j)
<1> DEFINE e == [Get(k) EXCEPT !.state = s]
<1>1. Get(k) \in Entry /\ (states[k] \in Entry => Get(k) = states[k])
  BY GetIsEntry
<1>2. e \in Entry /\ e.state = s /\ e.snapshot = Get(k).snapshot
  BY <1>1 DEF Entry
<1>3. states' = [states EXCEPT ![k] = e]
  BY DEF SetState
<1> HIDE DEF e
<1>4. StoreTypeOK' /\ states'[k] = e /\ \A j \in Key \ {k} : states'[j] = states[j]
  BY <1>2, <1>3 DEF StoreTypeOK
<1>5. SnapshotsStay
  BY <1>1, <1>2, <1>4 DEF SnapshotsStay
<1>6. QED
  BY <1>2, <1>4, <1>5, EntryIsShown, SameIsShown

(* A decision only moves what runs or is a candidate.                      *)
LEMMA RecordDecisionIsSound ==
  ASSUME StoreTypeOK, NEW k, NEW keep \in BOOLEAN, RecordDecision(k, keep)
  PROVE  /\ StoreTypeOK' /\ SnapshotsStay
         /\ \A j \in Key : \/ Shown(j)' = Shown(j)
                           \/ /\ Shown(j) \in {"RUNNING", "CANDIDATE"}
                              /\ Shown(j)' \in {"RUNNING", "CANDIDATE"}
<1>1. CASE k \notin Key
  <2>1. states' = states
    BY <1>1 DEF RecordDecision, StoreTypeOK
  <2>2. QED
    BY <2>1, SameIsShown DEF StoreTypeOK, SnapshotsStay
<1>2. CASE k \in Key
  <2> DEFINE e == [Get(k) EXCEPT !.state =
                     IF @ \notin {"RUNNING", "CANDIDATE"} THEN @
                     ELSE IF keep THEN "RUNNING" ELSE "CANDIDATE"]
  <2>1. Get(k) \in Entry /\ (states[k] \in Entry => Get(k) = states[k])
    BY <1>2, GetIsEntry
  <2>2. /\ e \in Entry /\ e.snapshot = Get(k).snapshot
        /\ \/ e.state = Get(k).state
           \/ /\ Get(k).state \in {"RUNNING", "CANDIDATE"}
              /\ e.state \in {"RUNNING", "CANDIDATE"}
    BY <2>1 DEF Entry, State
  <2>3. states' = [states EXCEPT ![k] = e]
    BY DEF RecordDecision
  <2> HIDE DEF e
  <2>4. StoreTypeOK' /\ states'[k] = e /\ \A j \in Key \ {k} : states'[j] = states[j]
    BY <1>2, <2>2, <2>3 DEF StoreTypeOK
  <2>5. SnapshotsStay
    BY <2>1, <2>2, <2>4 DEF SnapshotsStay
  <2>6. Shown(k)' = e.state /\ Shown(k) = Get(k).state
    BY <1>2, <2>2, <2>4, EntryIsShown DEF Shown
  <2>7. QED
    BY <2>2, <2>4, <2>5, <2>6, SameIsShown
<1>3. QED
  BY <1>1, <1>2

LEMMA SaveSnapshotIsSound ==
  ASSUME StoreTypeOK, NEW k \in Key, SaveSnapshot(k)
  PROVE  /\ StoreTypeOK' /\ SnapshotsStay
         /\ states[k] # NoEntry => states'[k] \in Entry /\ states'[k].snapshot
         /\ \A j \in Key : Shown(j)' = Shown(j)
<1>1. CASE states[k] = NoEntry
  <2>1. states' = states
    BY <1>1 DEF SaveSnapshot
  <2>2. QED
    BY <1>1, <2>1, SameIsShown DEF StoreTypeOK, SnapshotsStay
<1>2. CASE states[k] # NoEntry
  <2> DEFINE e == [states[k] EXCEPT !.snapshot = TRUE]
  <2>1. states[k] \in Entry
    BY <1>2 DEF StoreTypeOK
  <2>2. e \in Entry /\ e.snapshot /\ e.state = states[k].state
    BY <2>1 DEF Entry
  <2>3. states' = [states EXCEPT ![k] = e]
    BY <1>2 DEF SaveSnapshot
  <2> HIDE DEF e
  <2>4. StoreTypeOK' /\ states'[k] = e /\ \A j \in Key \ {k} : states'[j] = states[j]
    BY <2>2, <2>3 DEF StoreTypeOK
  <2>5. Shown(k)' = Shown(k)
    BY <2>1, <2>2, <2>4, EntryIsShown, GetIsEntry DEF Shown
  <2>6. QED
    BY <2>2, <2>4, <2>5, SameIsShown DEF SnapshotsStay
<1>3. QED
  BY <1>1, <1>2

----------------------------------------------------------------------------
(* The requests.                                                           *)

ClusterTypeOK ==
  /\ phase \in [Pod -> {"absent", "pending", "running", "terminating"}]
  /\ placeholders \subseteq {x \in Pod : phase[x] # "absent"}
  /\ replicas \in [Deployment -> {0, 1}]

LEMMA TypeParts ==
  TypeOK <=> /\ StoreTypeOK /\ ClusterTypeOK
             /\ request \in [Request -> RequestRecord] /\ late \in [Key -> Nat]
             /\ poll \in PollRecord
             /\ requests \in 0 .. MaxRequests /\ faults \in 0 .. MaxFaults
BY DEF TypeOK, ClusterTypeOK, RequestRecord, PollRecord

(* What request r has in hand becomes x.                                   *)
LEMMA RequestChanges ==
  ASSUME LifecycleInv, NEW r \in Request, NEW x, RequestOK(x),
         request' = [request EXCEPT ![r] = x]
  PROVE  /\ request' \in [Request -> RequestRecord] /\ StepsOK'
         /\ request'[r] = x
         /\ \A q \in Request \ {r} : request'[q] = request[q]
<1>1. request \in [Request -> RequestRecord]
  BY TypeParts DEF LifecycleInv
<1>2. x \in RequestRecord
  BY DEF RequestOK
<1>3. /\ request' \in [Request -> RequestRecord]
      /\ request'[r] = x
      /\ \A q \in Request \ {r} : request'[q] = request[q]
  BY <1>1, <1>2
<1>4. \A q \in Request : RequestOK(request'[q])
  BY <1>3 DEF LifecycleInv, StepsOK
<1>5. QED
  BY <1>3, <1>4 DEF StepsOK

(* What must be shown of a step in which only r may move.                  *)
LEMMA InvAfter ==
  ASSUME LifecycleInv, NEW r \in Request, TypeOK', StepsOK', SnapshotsStay,
         \A q \in Request \ {r} :
           /\ request'[q].at = request[q].at /\ request'[q].key = request[q].key
           /\ request'[q].known = request[q].known,
         request'[r].known =>
           \/ request[r].known /\ request'[r].key = request[r].key
           \/ states'[request'[r].key] \in Entry /\ states'[request'[r].key].snapshot,
         \A k \in Key : Shown(k)' \in Transitional =>
           \/ late'[k] > 0
           \/ Writes(request'[r], k)
           \/ /\ Shown(k) \in Transitional /\ late'[k] = late[k]
              /\ ~Writes(request[r], k)
  PROVE  LifecycleInv'
<1>1. SnapshotsHold'
  <2> SUFFICES ASSUME NEW q \in Request, request'[q].known
               PROVE  /\ states'[request'[q].key] \in Entry
                      /\ states'[request'[q].key].snapshot
    BY DEF SnapshotsHold
  <2>1. CASE request[q].known /\ request'[q].key = request[q].key
    <3>1. request[q].key \in Key
      BY <2>1 DEF LifecycleInv, StepsOK, RequestOK
    <3>2. states[request[q].key] \in Entry /\ states[request[q].key].snapshot
      BY <2>1 DEF LifecycleInv, SnapshotsHold
    <3>3. QED
      BY <2>1, <3>1, <3>2 DEF SnapshotsStay
  <2>2. QED
    BY <2>1
<1>2. WritersRemain'
  <2> SUFFICES ASSUME NEW k \in Key, Shown(k)' \in Transitional, ~(late'[k] > 0),
                      ~Writes(request'[r], k)
               PROVE  \E q \in Request : Writes(request'[q], k)
    BY DEF WritersRemain
  <2>1. Shown(k) \in Transitional /\ ~(late[k] > 0) /\ ~Writes(request[r], k)
    OBVIOUS
  <2>2. PICK q \in Request : Writes(request[q], k)
    BY <2>1 DEF LifecycleInv, WritersRemain
  <2>3. Writes(request'[q], k)
    BY <2>1, <2>2 DEF Writes
  <2>4. QED
    BY <2>3
<1>3. QED
  BY <1>1, <1>2 DEF LifecycleInv

(* A request writes a state: it goes on, or what it writes stays, or it    *)
(* leaves a write for later.                                               *)
LEMMA WriteKeepsInv ==
  ASSUME LifecycleInv, NEW r \in Request, NEW j \in Key, request[r].key = j,
         NEW s \in State, SetState(j, s),
         NEW x, RequestOK(x), request' = [request EXCEPT ![r] = x],
         x.known => request[r].known /\ x.key = j,
         late' \in [Key -> Nat],
         \A k \in Key \ {j} : late'[k] = late[k],
         s \in Transitional => Writes(x, j) \/ late'[j] > 0,
         UNCHANGED <<clusterVars, poll, requests, faults>>
  PROVE  LifecycleInv'
<1>1. StoreTypeOK /\ j \in Key /\ SetState(j, s)
  BY TypeParts DEF LifecycleInv
<1>2. Writes(x, j) \/ late'[j] > 0 \/ s \notin Transitional
  OBVIOUS
<1>3. \A k \in Key \ {j} : late'[k] = late[k] /\ ~Writes(request[r], k)
  BY DEF Writes
<1>4. x.known => request[r].known /\ x.key = j
  OBVIOUS
<1>5. /\ request' \in [Request -> RequestRecord] /\ StepsOK'
      /\ request'[r] = x
      /\ \A q \in Request \ {r} : request'[q] = request[q]
  BY RequestChanges
<1>6. /\ StoreTypeOK' /\ SnapshotsStay
      /\ Shown(j)' = s
      /\ \A k \in Key \ {j} : Shown(k)' = Shown(k)
  BY <1>1, SetStateIsSound
<1>7. TypeOK'
  BY <1>5, <1>6 DEF LifecycleInv, clusterVars, TypeOK, RequestRecord
<1>8. \A k \in Key : Shown(k)' \in Transitional =>
        \/ late'[k] > 0
        \/ Writes(request'[r], k)
        \/ /\ Shown(k) \in Transitional /\ late'[k] = late[k]
           /\ ~Writes(request[r], k)
  <2> SUFFICES ASSUME NEW k \in Key, Shown(k)' \in Transitional
               PROVE  \/ late'[k] > 0
                      \/ Writes(request'[r], k)
                      \/ /\ Shown(k) \in Transitional /\ late'[k] = late[k]
                         /\ ~Writes(request[r], k)
    OBVIOUS
  <2>1. CASE k = j
    BY <1>2, <1>5, <1>6, <2>1
  <2>2. CASE k # j
    BY <1>3, <1>6, <2>2
  <2>3. QED
    BY <2>1, <2>2
<1>9. request'[r].known => request[r].known /\ request'[r].key = request[r].key
  BY <1>4, <1>5
<1>10. QED
  BY <1>5, <1>6, <1>7, <1>8, <1>9, InvAfter

(* A request moves without touching the store.                             *)
LEMMA QuietKeepsInv ==
  ASSUME LifecycleInv, NEW r \in Request,
         NEW x, RequestOK(x), request' = [request EXCEPT ![r] = x],
         x.known => request[r].known /\ x.key = request[r].key,
         \A k \in Key : Writes(request[r], k) => Writes(x, k),
         ClusterTypeOK', requests' \in 0 .. MaxRequests, faults' \in 0 .. MaxFaults,
         UNCHANGED <<states, late, poll>>
  PROVE  LifecycleInv'
<1>1. /\ request' \in [Request -> RequestRecord] /\ StepsOK'
      /\ request'[r] = x
      /\ \A q \in Request \ {r} : request'[q] = request[q]
  BY RequestChanges
<1>2. TypeOK'
  BY <1>1 DEF LifecycleInv, ClusterTypeOK, StoreTypeOK, TypeOK, RequestRecord
<1>3. SnapshotsStay /\ \A k \in Key : Shown(k)' = Shown(k)
  BY SameIsShown DEF SnapshotsStay
<1>4. QED
  BY <1>1, <1>2, <1>3, InvAfter

(* One request has changed a Deployment, the copies of the others are old. *)
LEMMA ScaleKeepsInv ==
  ASSUME LifecycleInv, NEW r \in Request, NEW d, NEW n \in {0, 1}, NEW step \in RequestAt,
         Scale(r, d, n, step), RequestOK([request[r] EXCEPT !.at = step]),
         request[r].at \notin {"idle", "next", "decide"},
         step \notin {"idle", "next", "decide"},
         UNCHANGED <<states, late, poll, requests, faults>>
  PROVE  LifecycleInv'
<1> DEFINE x == [request[r] EXCEPT !.at = step]
<1>1. request \in [Request -> RequestRecord]
  BY TypeParts DEF LifecycleInv
<1>2. /\ x \in RequestRecord /\ x.at = step /\ x.key = request[r].key
      /\ x.known = request[r].known
  BY <1>1 DEF RequestRecord
<1>3. \A q \in Request :
        LET y == [request[q] EXCEPT !.fresh = FALSE]
        IN  /\ y \in RequestRecord /\ y.at = request[q].at /\ y.key = request[q].key
            /\ y.todo = request[q].todo /\ y.known = request[q].known
  BY <1>1 DEF RequestRecord
<1>4. \A q \in Request : RequestOK([request[q] EXCEPT !.fresh = FALSE])
  BY <1>3 DEF LifecycleInv, StepsOK, RequestOK
<1>5. /\ request' = [q \in Request |-> IF q = r THEN x ELSE [request[q] EXCEPT !.fresh = FALSE]]
      /\ replicas' = [replicas EXCEPT ![d] = n] /\ UNCHANGED <<phase, placeholders>>
  BY DEF Scale
<1>6. RequestOK(x)
  OBVIOUS
<1> HIDE DEF x
<1>7. /\ request' \in [Request -> RequestRecord] /\ StepsOK'
      /\ request'[r] = x
      /\ \A q \in Request \ {r} :
           /\ request'[q].at = request[q].at /\ request'[q].key = request[q].key
           /\ request'[q].known = request[q].known
  BY <1>2, <1>3, <1>4, <1>5, <1>6 DEF StepsOK
<1>8. TypeOK'
  BY <1>5, <1>7 DEF LifecycleInv, StoreTypeOK, TypeOK, RequestRecord
<1>9. SnapshotsStay /\ \A k \in Key : Shown(k)' = Shown(k)
  BY SameIsShown DEF SnapshotsStay
<1>10. \A k \in Key : Writes(request[r], k) => Writes(request'[r], k)
  BY <1>2, <1>7 DEF Writes
<1>11. QED
  BY <1>2, <1>7, <1>8, <1>9, <1>10, InvAfter

LEMMA IdleIsOK == RequestOK(Idle) /\ ~Idle.known
BY EmptySeq DEF Idle, RequestOK, RequestRecord, RequestAt, ReclaimAt, RestoreAt

(* A step within a reclamation, or within a restore.                       *)
LEMMA StepIsOK ==
  ASSUME LifecycleInv, NEW r \in Request, NEW s \in RequestAt,
         \/ request[r].at \in RestoreAt /\ s \in RestoreAt
         \/ request[r].at \in ReclaimAt /\ s \in ReclaimAt \ {"save"}
  PROVE  LET x == [request[r] EXCEPT !.at = s]
         IN  /\ RequestOK(x) /\ Step(r, s) = [request EXCEPT ![r] = x]
             /\ x.at = s /\ x.key = request[r].key /\ x.known = request[r].known
<1>1. request[r] \in RequestRecord /\ RequestOK(request[r])
  BY TypeParts DEF LifecycleInv, StepsOK
<1>2. QED
  BY <1>1 DEF RequestOK, RequestRecord, Step, ReclaimAt, RestoreAt

(* The state is all a step writes.                                         *)
LEMMA WriteStep ==
  ASSUME LifecycleInv, NEW r \in Request, NEW step \in ReclaimAt \cup RestoreAt,
         NEW s \in State, NEW x, Write(r, step, s, [request EXCEPT ![r] = x]), RequestOK(x),
         x.known => request[r].known /\ x.key = request[r].key,
         s \in Transitional => Writes(x, request[r].key)
  PROVE  LifecycleInv'
<1>1. PICK j \in Key : request[r].key = j
  BY LifecycleAssumption DEF LifecycleInv, StepsOK, RequestOK, Write, At
<1>2. late \in [Key -> Nat]
  BY TypeParts DEF LifecycleInv
<1>3. QED
  BY <1>1, <1>2, WriteKeepsInv DEF Write, Untouched

(* Nothing but the step of a request changes, and perhaps the cluster.     *)
LEMMA QuietStep ==
  ASSUME LifecycleInv, NEW r \in Request, NEW s \in RequestAt, GoTo(r, s),
         \/ request[r].at \in RestoreAt /\ s \in RestoreAt
         \/ request[r].at \in ReclaimAt /\ s \in ReclaimAt \ {"save", "decide"},
         ClusterTypeOK', UNCHANGED states, Untouched, Fault \/ UNCHANGED faults
  PROVE  LifecycleInv'
<1> DEFINE x == [request[r] EXCEPT !.at = s]
<1>1. /\ RequestOK(x) /\ request' = [request EXCEPT ![r] = x]
      /\ x.at = s /\ x.key = request[r].key /\ x.known = request[r].known
  BY StepIsOK DEF GoTo
<1> HIDE DEF x
<1>2. \A k \in Key : Writes(request[r], k) => Writes(x, k)
  BY <1>1 DEF Writes, ReclaimAt, RestoreAt
<1>3. requests' \in 0 .. MaxRequests /\ faults' \in 0 .. MaxFaults
  BY TypeParts, LifecycleAssumption DEF LifecycleInv, Untouched, Fault
<1>4. QED
  BY <1>1, <1>2, <1>3, QuietKeepsInv DEF Untouched

LEMMA ClusterStays ==
  ASSUME LifecycleInv, UNCHANGED clusterVars
  PROVE  ClusterTypeOK'
BY TypeParts DEF LifecycleInv, ClusterTypeOK, clusterVars

----------------------------------------------------------------------------
(* The steps of a reclamation.                                             *)

LEMMA SaveKeepsInv ==
  ASSUME LifecycleInv, NEW r \in Request, Save(r)
  PROVE  LifecycleInv'
<1> DEFINE x == [request[r] EXCEPT !.at = "checkpointing",
                                   !.known = states[request[r].key] # NoEntry]
<1>1. request[r] \in RequestRecord /\ RequestOK(request[r]) /\ request[r].at = "save"
  BY TypeParts DEF LifecycleInv, StepsOK, Save, At
<1>2. PICK j \in Key : request[r].key = j
  BY <1>1 DEF RequestOK, ReclaimAt
<1>3. /\ RequestOK(x) /\ x.at = "checkpointing" /\ x.key = j
      /\ x.known <=> states[j] # NoEntry
  BY <1>1, <1>2 DEF RequestOK, RequestRecord, RequestAt, ReclaimAt, RestoreAt
<1>4. request' = [request EXCEPT ![r] = x]
  BY <1>1 DEF Save, RequestRecord
<1>5. /\ StoreTypeOK' /\ SnapshotsStay
      /\ states[j] # NoEntry => states'[j] \in Entry /\ states'[j].snapshot
      /\ \A k \in Key : Shown(k)' = Shown(k)
  BY <1>2, SaveSnapshotIsSound, TypeParts DEF LifecycleInv, Save
<1>6. UNCHANGED <<clusterVars, late, poll, requests, faults>>
  BY DEF Save, Untouched
<1> HIDE DEF x
<1>7. /\ request' \in [Request -> RequestRecord] /\ StepsOK'
      /\ request'[r] = x
      /\ \A q \in Request \ {r} : request'[q] = request[q]
  BY <1>3, <1>4, RequestChanges
<1>8. TypeOK'
  BY <1>5, <1>6, <1>7 DEF LifecycleInv, clusterVars, TypeOK, RequestRecord
<1>9. \A k \in Key : Writes(request[r], k) => Writes(request'[r], k)
  BY <1>1, <1>2, <1>3, <1>7 DEF Writes
<1>10. QED
  BY <1>3, <1>5, <1>6, <1>7, <1>8, <1>9, InvAfter

LEMMA CheckpointingKeepsInv ==
  ASSUME LifecycleInv, NEW r \in Request, Checkpointing(r)
  PROVE  LifecycleInv'
<1>1. PICK s \in {"checkpointed", "delete gracefully", "get owner"} :
        Write(r, "checkpointing", "CHECKPOINTING", Step(r, s))
  BY DEF Checkpointing
<1>2. request[r].at = "checkpointing"
  BY <1>1 DEF Write, At
<1> DEFINE x == [request[r] EXCEPT !.at = s]
<1>3. s \in RequestAt /\ request[r].at \in ReclaimAt /\ s \in ReclaimAt \ {"save"}
  BY <1>2 DEF RequestAt, ReclaimAt
<1>4. /\ RequestOK(x) /\ Step(r, s) = [request EXCEPT ![r] = x]
      /\ x.at = s /\ x.key = request[r].key /\ x.known = request[r].known
  BY <1>3, StepIsOK
<1> HIDE DEF x
<1>5. Writes(x, request[r].key)
  BY <1>4 DEF Writes
<1>6. "checkpointing" \in ReclaimAt \cup RestoreAt /\ "CHECKPOINTING" \in State
  BY DEF ReclaimAt, State
<1>7. Write(r, "checkpointing", "CHECKPOINTING", [request EXCEPT ![r] = x])
  BY <1>1, <1>4
<1>8. QED
  BY <1>4, <1>5, <1>6, <1>7, WriteStep

LEMMA ArchivedKeepsInv ==
  ASSUME LifecycleInv, NEW r \in Request, Archived(r)
  PROVE  LifecycleInv'
<1>1. request[r].at = "checkpointed"
  BY DEF Archived, Write, At
<1> DEFINE x == [request[r] EXCEPT !.at = "delete"]
<1>2. /\ RequestOK(x) /\ Step(r, "delete") = [request EXCEPT ![r] = x]
      /\ x.at = "delete" /\ x.key = request[r].key /\ x.known = request[r].known
  <2>1. /\ request[r].at \in ReclaimAt /\ "delete" \in RequestAt
        /\ "delete" \in ReclaimAt \ {"save"}
    BY <1>1 DEF RequestAt, ReclaimAt
  <2>2. QED
    BY <2>1, StepIsOK
<1> HIDE DEF x
<1>3. Writes(x, request[r].key)
  BY <1>2 DEF Writes
<1>4. "checkpointed" \in ReclaimAt \cup RestoreAt /\ "CHECKPOINTED" \in State
  BY DEF ReclaimAt, State
<1>5. QED
  BY <1>2, <1>3, <1>4, WriteStep DEF Archived

LEMMA ReclaimedKeepsInv ==
  ASSUME LifecycleInv, NEW r \in Request, Reclaimed(r)
  PROVE  LifecycleInv'
<1>1. CASE Write(r, "reclaimed", "RECLAIMED", Done(r))
  BY <1>1, IdleIsOK, WriteStep DEF Done, ReclaimAt, State, Transitional
<1>2. CASE Write(r, "reclaimed gracefully", "RECLAIMED", Step(r, "decide"))
  <2>1. request[r].at = "reclaimed gracefully"
    BY <1>2 DEF Write, At
  <2> DEFINE x == [request[r] EXCEPT !.at = "decide"]
  <2>2. /\ RequestOK(x) /\ Step(r, "decide") = [request EXCEPT ![r] = x]
        /\ x.key = request[r].key /\ x.known = request[r].known
    <3>1. /\ request[r].at \in ReclaimAt /\ "decide" \in RequestAt
          /\ "decide" \in ReclaimAt \ {"save"}
      BY <2>1 DEF RequestAt, ReclaimAt
    <3>2. QED
      BY <3>1, StepIsOK
  <2> HIDE DEF x
  <2>3. /\ "reclaimed gracefully" \in ReclaimAt \cup RestoreAt
        /\ "RECLAIMED" \in State \ Transitional
    BY DEF ReclaimAt, State, Transitional
  <2>4. QED
    BY <1>2, <2>2, <2>3, WriteStep
<1>3. QED
  BY <1>1, <1>2 DEF Reclaimed

LEMMA FailedKeepsInv ==
  ASSUME LifecycleInv, NEW r \in Request, Failed(r)
  PROVE  LifecycleInv'
BY IdleIsOK, WriteStep DEF Failed, Done, ReclaimAt, State, Transitional

LEMMA DecideReclaimedKeepsInv ==
  ASSUME LifecycleInv, NEW r \in Request, DecideReclaimed(r)
  PROVE  LifecycleInv'
<1>1. /\ StoreTypeOK' /\ SnapshotsStay
      /\ \A j \in Key : \/ Shown(j)' = Shown(j)
                        \/ Shown(j)' \in {"RUNNING", "CANDIDATE"}
  <2>1. PICK j : request[r].key = j
    OBVIOUS
  <2>2. QED
    BY <2>1, RecordDecisionIsSound, TypeParts DEF LifecycleInv, DecideReclaimed
<1>2. /\ request' \in [Request -> RequestRecord] /\ StepsOK'
      /\ request'[r] = Idle
      /\ \A q \in Request \ {r} : request'[q] = request[q]
  BY IdleIsOK, RequestChanges DEF DecideReclaimed, Done
<1>3. UNCHANGED <<clusterVars, late, poll, requests, faults>>
  BY DEF DecideReclaimed, Untouched
<1>4. TypeOK'
  BY <1>1, <1>2, <1>3 DEF LifecycleInv, clusterVars, TypeOK, RequestRecord
<1>5. \A k \in Key : Shown(k)' \in Transitional =>
        Shown(k) \in Transitional /\ late'[k] = late[k] /\ ~Writes(request[r], k)
  BY <1>1, <1>3 DEF Transitional, DecideReclaimed, At, Writes
<1>6. QED
  BY <1>1, <1>2, <1>4, <1>5, IdleIsOK, InvAfter

(* The steps that leave the store alone.                                   *)
LEMMA QuietReclamationKeepsInv ==
  ASSUME LifecycleInv, NEW r \in Request, Delete(r) \/ GetOwner(r) \/ ScaleToZero(r)
  PROVE  LifecycleInv'
<1>1. TypeOK /\ ClusterTypeOK
  BY TypeParts DEF LifecycleInv
<1>2. CASE Delete(r)
  <2>1. ClusterTypeOK'
    BY <1>1, <1>2, ClusterStays DEF Delete, Remove, ClusterTypeOK
  <2>2. PICK s \in {"reclaimed", "reclaimed gracefully"} : GoTo(r, s)
    BY <1>2 DEF Delete
  <2>3. request[r].at \in ReclaimAt /\ s \in RequestAt /\ s \in ReclaimAt \ {"save", "decide"}
    BY <1>2 DEF Delete, ReclaimAt, RequestAt
  <2>4. UNCHANGED states /\ Untouched /\ (Fault \/ UNCHANGED faults)
    BY <1>2 DEF Delete
  <2>5. QED
    BY <2>1, <2>2, <2>3, <2>4, QuietStep
<1>3. CASE GetOwner(r)
  <2>1. ClusterTypeOK' /\ request[r].at = "get owner"
        /\ UNCHANGED states /\ Untouched /\ (Fault \/ UNCHANGED faults)
    BY <1>3, ClusterStays DEF GetOwner, At
  <2>2. CASE \E s \in {"delete gracefully", "reclaimed gracefully"} : GoTo(r, s)
    <3>1. PICK s \in {"delete gracefully", "reclaimed gracefully"} : GoTo(r, s)
      BY <2>2
    <3>2. request[r].at \in ReclaimAt /\ s \in RequestAt /\ s \in ReclaimAt \ {"save", "decide"}
      BY <2>1 DEF ReclaimAt, RequestAt
    <3>3. QED
      BY <2>1, <3>1, <3>2, QuietStep
  <2>3. CASE /\ request' = [request EXCEPT ![r].at = "scale to zero", ![r].fresh = TRUE]
             /\ UNCHANGED faults
    <3> DEFINE x == [request[r] EXCEPT !.at = "scale to zero", !.fresh = TRUE]
    <3>1. request[r] \in RequestRecord /\ RequestOK(request[r])
      BY TypeParts DEF LifecycleInv, StepsOK
    <3>2. /\ RequestOK(x) /\ x.key = request[r].key /\ x.known = request[r].known
          /\ x.at = "scale to zero" /\ request' = [request EXCEPT ![r] = x]
      BY <2>1, <2>3, <3>1 DEF RequestOK, RequestRecord, RequestAt, ReclaimAt, RestoreAt
    <3> HIDE DEF x
    <3>3. \A k \in Key : Writes(request[r], k) => Writes(x, k)
      BY <3>2 DEF Writes
    <3>4. requests' \in 0 .. MaxRequests /\ faults' \in 0 .. MaxFaults
      BY <1>1, <2>1, <2>3 DEF TypeOK, Untouched
    <3>5. QED
      BY <2>1, <3>2, <3>3, <3>4, QuietKeepsInv DEF Untouched
  <2>4. QED
    BY <1>3, <2>2, <2>3 DEF GetOwner
<1>4. CASE ScaleToZero(r)
  <2>1. request[r].at = "scale to zero"
        /\ UNCHANGED states /\ Untouched /\ (Fault \/ UNCHANGED faults)
    BY <1>4 DEF ScaleToZero, At
  <2>2. /\ request[r].at \in ReclaimAt /\ "reclaimed gracefully" \in RequestAt
        /\ "reclaimed gracefully" \in ReclaimAt \ {"save", "decide"}
    BY <2>1 DEF ReclaimAt, RequestAt
  <2>3. CASE GoTo(r, "reclaimed gracefully") /\ UNCHANGED clusterVars
    BY <2>1, <2>2, <2>3, ClusterStays, QuietStep
  <2>4. CASE Scale(r, Owner[request[r].key], 0, "reclaimed gracefully") /\ UNCHANGED faults
    BY <2>1, <2>2, <2>4, StepIsOK, ScaleKeepsInv DEF Untouched
  <2>5. QED
    BY <1>4, <2>3, <2>4 DEF ScaleToZero
<1>5. QED
  BY <1>2, <1>3, <1>4

LEMMA ReclamationKeepsInv ==
  ASSUME LifecycleInv, NEW r \in Request, ExecuteReclamation(r)
  PROVE  LifecycleInv'
BY SaveKeepsInv, CheckpointingKeepsInv, ArchivedKeepsInv, ReclaimedKeepsInv,
   DecideReclaimedKeepsInv, FailedKeepsInv, QuietReclamationKeepsInv
   DEF ExecuteReclamation

----------------------------------------------------------------------------
(* A request arrives.                                                      *)

LEMMA ArrivalKeepsInv ==
  ASSUME LifecycleInv, NEW r \in Request, NEW q, Arrive(r, q), RequestOK(q), ~q.known,
         Fault \/ UNCHANGED faults
  PROVE  LifecycleInv'
<1>1. /\ request' = [request EXCEPT ![r] = q] /\ request[r].at = "idle"
      /\ UNCHANGED <<states, late, poll>>
  BY DEF Arrive, At
<1>2. ClusterTypeOK'
  BY ClusterStays DEF Arrive
<1>3. requests' \in 0 .. MaxRequests /\ faults' \in 0 .. MaxFaults
  BY TypeParts, LifecycleAssumption DEF LifecycleInv, Arrive, Fault
<1>4. \A k \in Key : ~Writes(request[r], k)
  BY <1>1 DEF Writes
<1>5. QED
  BY <1>1, <1>2, <1>3, <1>4, QuietKeepsInv

LEMMA CheckpointArrivalKeepsInv ==
  ASSUME LifecycleInv, NEW r \in Request, NEW k \in Checkpointed, HandleCheckpoint(r, k)
  PROVE  LifecycleInv'
<1>1. PICK s \in {"save", "fail"} :
        /\ Arrive(r, [Idle EXCEPT !.at = s, !.key = k])
        /\ Fault \/ UNCHANGED faults
  BY DEF HandleCheckpoint
<1> DEFINE q == [Idle EXCEPT !.at = s, !.key = k]
<1>2. RequestOK(q) /\ ~q.known
  BY EmptySeq, LifecycleAssumption
     DEF Idle, RequestOK, RequestRecord, RequestAt, ReclaimAt, RestoreAt
<1> HIDE DEF q
<1>3. QED
  BY <1>1, <1>2, ArrivalKeepsInv DEF q

LEMMA RestoreArrivalKeepsInv ==
  ASSUME LifecycleInv, NEW r \in Request, NEW k \in Restorable,
         NEW resolveDependencies \in BOOLEAN, HandleRestore(r, k, resolveDependencies)
  PROVE  LifecycleInv'
<1> DEFINE first == IF resolveDependencies /\ k \in Pod /\ Get(k).snapshot
                      THEN DependsOn[k] ELSE <<>>
           q == [Idle EXCEPT !.at = "next", !.todo = Append(first, k)]
<1>1. first \in Seq(Restorable)
  BY EmptySeq, LifecycleAssumption
<1> HIDE DEF first
<1>2. Append(first, k) \in Seq(Restorable) /\ Append(first, k) # <<>>
  BY <1>1, AppendProperties
<1>3. RequestOK(q) /\ ~q.known
  BY <1>2 DEF Idle, RequestOK, RequestRecord, RequestAt, ReclaimAt, RestoreAt
<1> HIDE DEF q
<1>4. Arrive(r, q) /\ UNCHANGED faults
  BY DEF HandleRestore, q, first
<1>5. QED
  BY <1>3, <1>4, ArrivalKeepsInv

----------------------------------------------------------------------------
(* The steps of a restore.                                                 *)

LEMMA MoreIsLeft ==
  ASSUME NEW S, NEW q \in Seq(S), Len(q) > 1
  PROVE  Tail(q) # <<>>
<1>1. q # <<>> /\ Len(q) \in Nat
  BY EmptySeq, LenProperties
<1>2. Len(Tail(q)) = Len(q) - 1
  BY <1>1, HeadTailProperties
<1>3. Len(Tail(q)) # 0
  BY <1>1, <1>2
<1>4. QED
  BY <1>3, EmptySeq

LEMMA NextRestoreKeepsInv ==
  ASSUME LifecycleInv, NEW r \in Request, NextRestore(r)
  PROVE  LifecycleInv'
<1> DEFINE todo == request[r].todo
           k == Head(todo)
<1>1. PICK s \in {"next", "restoring"} :
        /\ request' = [request EXCEPT ![r].todo = Tail(todo), ![r].key = k,
                                      ![r].snapshot = Get(k).snapshot, ![r].at = s]
        /\ s = "next" => Len(todo) > 1
  BY DEF NextRestore
<1>2. request[r] \in RequestRecord /\ RequestOK(request[r]) /\ request[r].at = "next"
  BY TypeParts DEF LifecycleInv, StepsOK, NextRestore, At
<1>3. todo \in Seq(Restorable) /\ todo # <<>> /\ ~request[r].known
  BY <1>2 DEF RequestOK, RequestRecord, ReclaimAt
<1>4. /\ k \in Restorable /\ k \in Key
      /\ Tail(todo) \in Seq(Restorable) /\ Len(Tail(todo)) = Len(todo) - 1
  BY <1>3, HeadTailProperties, LifecycleAssumption
<1> HIDE DEF k, todo
<1>5. s = "next" => Tail(todo) # <<>>
  BY <1>1, <1>3, MoreIsLeft
<1>6. Get(k).snapshot \in BOOLEAN
  BY <1>4, GetIsEntry, TypeParts DEF LifecycleInv, Entry
<1> DEFINE x == [request[r] EXCEPT !.todo = Tail(todo), !.key = k,
                                   !.snapshot = Get(k).snapshot, !.at = s]
<1>7. RequestOK(x) /\ ~x.known
  BY <1>2, <1>3, <1>4, <1>5, <1>6 DEF RequestOK, RequestRecord, RequestAt, ReclaimAt, RestoreAt
<1>8. request' = [request EXCEPT ![r] = x]
  BY <1>1, <1>2 DEF RequestRecord
<1> HIDE DEF x
<1>9. \A j \in Key : ~Writes(request[r], j)
  BY <1>2 DEF Writes
<1>10. /\ ClusterTypeOK' /\ UNCHANGED <<states, late, poll>>
       /\ requests' \in 0 .. MaxRequests /\ faults' \in 0 .. MaxFaults
  BY ClusterStays, TypeParts DEF LifecycleInv, NextRestore, Untouched
<1>11. QED
  BY <1>7, <1>8, <1>9, <1>10, QuietKeepsInv

LEMMA RestoringKeepsInv ==
  ASSUME LifecycleInv, NEW r \in Request, Restoring(r)
  PROVE  LifecycleInv'
<1>1. request[r].at = "restoring"
  BY DEF Restoring, Write, At
<1> DEFINE x == [request[r] EXCEPT !.at = "find owner"]
<1>2. /\ RequestOK(x) /\ Step(r, "find owner") = [request EXCEPT ![r] = x]
      /\ x.at = "find owner" /\ x.key = request[r].key /\ x.known = request[r].known
  <2>1. /\ request[r].at \in RestoreAt /\ "find owner" \in RequestAt
        /\ "find owner" \in RestoreAt
    BY <1>1 DEF RequestAt, RestoreAt
  <2>2. QED
    BY <2>1, StepIsOK
<1> HIDE DEF x
<1>3. Writes(x, request[r].key)
  BY <1>2 DEF Writes
<1>4. "restoring" \in ReclaimAt \cup RestoreAt /\ "RESTORING" \in State
  BY DEF RestoreAt, State
<1>5. QED
  BY <1>2, <1>3, <1>4, WriteStep DEF Restoring

(* A step within a restore that also notes b or c of what it read.         *)
LEMMA NotedStep ==
  ASSUME LifecycleInv, NEW r \in Request, NEW s \in RequestAt, NEW b \in BOOLEAN,
         NEW c \in BOOLEAN,
         request[r].at \in RestoreAt, s \in RestoreAt,
         request' = [request EXCEPT ![r] = [@ EXCEPT !.at = s, !.snapshot = b, !.fresh = c]],
         ClusterTypeOK', UNCHANGED states, Untouched, Fault \/ UNCHANGED faults
  PROVE  LifecycleInv'
<1> DEFINE x == [request[r] EXCEPT !.at = s, !.snapshot = b, !.fresh = c]
<1>1. request[r] \in RequestRecord /\ RequestOK(request[r])
  BY TypeParts DEF LifecycleInv, StepsOK
<1>2. /\ RequestOK(x) /\ x.at = s /\ x.key = request[r].key /\ x.known = request[r].known
  BY <1>1 DEF RequestOK, RequestRecord, RestoreAt, ReclaimAt
<1>3. request' = [request EXCEPT ![r] = x]
  BY <1>1
<1> HIDE DEF x
<1>4. \A k \in Key : Writes(request[r], k) => Writes(x, k)
  BY <1>2 DEF Writes, RestoreAt
<1>5. requests' \in 0 .. MaxRequests /\ faults' \in 0 .. MaxFaults
  BY TypeParts, LifecycleAssumption DEF LifecycleInv, Untouched, Fault
<1>6. QED
  BY <1>2, <1>3, <1>4, <1>5, QuietKeepsInv DEF Untouched

LEMMA FindOwnerKeepsInv ==
  ASSUME LifecycleInv, NEW r \in Request, FindOwner(r)
  PROVE  LifecycleInv'
<1>1. /\ ClusterTypeOK' /\ request[r].at = "find owner"
      /\ UNCHANGED states /\ Untouched
  BY ClusterStays DEF FindOwner, At
<1>2. request[r].at \in RestoreAt /\ {"scale up", "delete old copy"} \subseteq RestoreAt \cap RequestAt
  BY <1>1 DEF RestoreAt, RequestAt
<1>3. CASE Fault /\ GoTo(r, "delete old copy")
  BY <1>1, <1>2, <1>3, QuietStep DEF RestoreAt
<1>4. CASE /\ \E s \in {"scale up", "delete old copy"} :
                request' = [request EXCEPT ![r].at = s, ![r].fresh = TRUE]
           /\ UNCHANGED faults
  <2>1. PICK s \in {"scale up", "delete old copy"} :
          request' = [request EXCEPT ![r].at = s, ![r].fresh = TRUE]
    BY <1>4
  <2>2. request[r] \in RequestRecord /\ request[r].snapshot \in BOOLEAN
    BY TypeParts DEF LifecycleInv, RequestRecord
  <2>3. request' = [request EXCEPT ![r] =
                      [@ EXCEPT !.at = s, !.snapshot = request[r].snapshot, !.fresh = TRUE]]
    BY <2>1, <2>2 DEF RequestRecord
  <2>4. PICK b \in BOOLEAN : b = request[r].snapshot
    BY <2>2
  <2>5. s \in RestoreAt /\ s \in RequestAt
    BY <1>2
  <2>6. QED
    BY <1>1, <1>2, <1>4, <2>3, <2>4, <2>5, NotedStep
<1>5. QED
  BY <1>3, <1>4 DEF FindOwner

LEMMA ScaleUpKeepsInv ==
  ASSUME LifecycleInv, NEW r \in Request, ScaleUp(r)
  PROVE  LifecycleInv'
<1>1. /\ request[r].at = "scale up" /\ UNCHANGED states /\ Untouched
      /\ Fault \/ UNCHANGED faults
  BY DEF ScaleUp, At
<1>2. /\ request[r].at \in RestoreAt
      /\ {"restored", "delete old copy"} \subseteq RestoreAt \cap RequestAt
  BY <1>1 DEF RestoreAt, RequestAt
<1>3. CASE GoTo(r, "delete old copy") /\ UNCHANGED clusterVars
  BY <1>1, <1>2, <1>3, ClusterStays, QuietStep
<1>4. CASE Scale(r, OwnerName(r), 1, "restored") /\ UNCHANGED faults
  BY <1>1, <1>2, <1>4, StepIsOK, ScaleKeepsInv DEF Untouched
<1>5. QED
  BY <1>3, <1>4 DEF ScaleUp

LEMMA DeleteOldCopyKeepsInv ==
  ASSUME LifecycleInv, NEW r \in Request, DeleteOldCopy(r)
  PROVE  LifecycleInv'
<1> DEFINE k == request[r].key
           ownSpec == request[r].snapshot \/ (k \in Pod /\ phase[k] # "absent")
<1>1. /\ request[r].at = "delete old copy" /\ UNCHANGED states /\ Untouched
      /\ Fault \/ UNCHANGED faults
      /\ request' = [request EXCEPT ![r].at = "create copy", ![r].snapshot = ownSpec]
  BY DEF DeleteOldCopy, At
<1>2. request[r] \in RequestRecord /\ request[r].fresh \in BOOLEAN
  BY TypeParts DEF LifecycleInv, RequestRecord
<1>3. ClusterTypeOK'
  BY TypeParts DEF LifecycleInv, DeleteOldCopy, ClusterTypeOK, clusterVars
<1>4. PICK b \in BOOLEAN : b = ownSpec
  OBVIOUS
<1>5. PICK c \in BOOLEAN : c = request[r].fresh
  BY <1>2
<1> HIDE DEF ownSpec
<1>6. request' = [request EXCEPT ![r] =
                    [@ EXCEPT !.at = "create copy", !.snapshot = b, !.fresh = c]]
  BY <1>1, <1>2, <1>4, <1>5 DEF RequestRecord
<1>7. request[r].at \in RestoreAt /\ "create copy" \in RestoreAt /\ "create copy" \in RequestAt
  BY <1>1 DEF RestoreAt, RequestAt
<1>8. QED
  BY <1>1, <1>3, <1>6, <1>7, NotedStep

LEMMA CreateCopyKeepsInv ==
  ASSUME LifecycleInv, NEW r \in Request, CreateCopy(r)
  PROVE  LifecycleInv'
<1>1. /\ request[r].at = "create copy" /\ UNCHANGED states /\ Untouched
      /\ Fault \/ UNCHANGED faults
  BY DEF CreateCopy, At
<1>2. request[r].key \in Restorable /\ RestoredName[request[r].key] \in Pod
  BY <1>1, LifecycleAssumption DEF LifecycleInv, StepsOK, RequestOK, RestoreAt
<1>3. ClusterTypeOK'
  BY <1>2, TypeParts DEF LifecycleInv, CreateCopy, ClusterTypeOK, clusterVars
<1>4. PICK s \in {"restored", "restore fails"} : GoTo(r, s)
  BY DEF CreateCopy
<1>5. request[r].at \in RestoreAt /\ s \in RestoreAt /\ s \in RequestAt
  BY <1>1 DEF RestoreAt, RequestAt
<1>6. QED
  BY <1>1, <1>3, <1>4, <1>5, QuietStep

LEMMA ReturnIsOK ==
  ASSUME LifecycleInv, NEW r \in Request
  PROVE  \E x : RequestOK(x) /\ ~x.known /\ Return(r) = [request EXCEPT ![r] = x]
<1> DEFINE x == [Idle EXCEPT !.at = "next", !.todo = request[r].todo]
<1>1. request[r].todo \in Seq(Restorable)
  BY TypeParts DEF LifecycleInv, RequestRecord
<1>2. CASE request[r].todo = <<>>
  BY <1>2, IdleIsOK DEF Return, Done
<1>3. CASE request[r].todo # <<>>
  <2>1. RequestOK(x) /\ ~x.known
    BY <1>1, <1>3 DEF Idle, RequestOK, RequestRecord, RequestAt, ReclaimAt, RestoreAt
  <2>2. QED
    BY <1>3, <2>1 DEF Return
<1>4. QED
  BY <1>2, <1>3

LEMMA RestoreFailsKeepsInv ==
  ASSUME LifecycleInv, NEW r \in Request, RestoreFails(r)
  PROVE  LifecycleInv'
<1>1. PICK x : RequestOK(x) /\ ~x.known /\ Return(r) = [request EXCEPT ![r] = x]
  BY ReturnIsOK
<1>2. /\ "restore fails" \in ReclaimAt \cup RestoreAt
      /\ "RECLAMATION_FAILED" \in State \ Transitional
  BY DEF RestoreAt, State, Transitional
<1>3. QED
  BY <1>1, <1>2, WriteStep DEF RestoreFails

LEMMA RestoredKeepsInv ==
  ASSUME LifecycleInv, NEW r \in Request, Restored(r)
  PROVE  LifecycleInv'
<1>1. PICK x : RequestOK(x) /\ ~x.known /\ Return(r) = [request EXCEPT ![r] = x]
  BY ReturnIsOK
<1>2. PICK j \in Key : request[r].key = j
  BY LifecycleAssumption DEF LifecycleInv, StepsOK, RequestOK, Restored, At, RestoreAt
<1>3. late \in [Key -> Nat]
  BY TypeParts DEF LifecycleInv
<1>4. /\ late' \in [Key -> Nat] /\ late'[j] > 0
      /\ \A k \in Key \ {j} : late'[k] = late[k]
  BY <1>2, <1>3 DEF Restored
<1>5. /\ SetState(j, "RESTORED") /\ request' = [request EXCEPT ![r] = x]
      /\ UNCHANGED <<clusterVars, poll, requests, faults>>
  BY <1>1, <1>2 DEF Restored
<1>6. QED
  BY <1>1, <1>2, <1>4, <1>5, WriteKeepsInv DEF State

LEMMA RestoreKeepsInv ==
  ASSUME LifecycleInv, NEW r \in Request, ExecuteRestore(r)
  PROVE  LifecycleInv'
BY NextRestoreKeepsInv, RestoringKeepsInv, FindOwnerKeepsInv, ScaleUpKeepsInv,
   DeleteOldCopyKeepsInv, CreateCopyKeepsInv, RestoreFailsKeepsInv, RestoredKeepsInv
   DEF ExecuteRestore

----------------------------------------------------------------------------
(* What is not a request.                                                  *)

LEMMA OtherKeepsInv ==
  ASSUME LifecycleInv, StoreTypeOK', SnapshotsStay, ClusterTypeOK',
         poll' \in PollRecord,
         late' \in [Key -> Nat], UNCHANGED <<request, requests, faults>>,
         \A k \in Key : Shown(k)' \in Transitional =>
           Shown(k) \in Transitional /\ late'[k] = late[k]
  PROVE  LifecycleInv'
<1>1. TypeOK'
  BY DEF LifecycleInv, TypeOK, ClusterTypeOK, PollRecord
<1>2. StepsOK'
  BY DEF LifecycleInv, StepsOK
<1>3. SnapshotsHold'
  <2> SUFFICES ASSUME NEW q \in Request, request[q].known
               PROVE  states'[request[q].key] \in Entry /\ states'[request[q].key].snapshot
    BY DEF SnapshotsHold
  <2>1. request[q].key \in Key
    BY DEF LifecycleInv, StepsOK, RequestOK
  <2>2. states[request[q].key] \in Entry /\ states[request[q].key].snapshot
    BY DEF LifecycleInv, SnapshotsHold
  <2>3. QED
    BY <2>1, <2>2 DEF SnapshotsStay
<1>4. WritersRemain'
  BY DEF LifecycleInv, WritersRemain, Writes
<1>5. QED
  BY <1>1, <1>2, <1>3, <1>4 DEF LifecycleInv

LEMMA LateRunningKeepsInv ==
  ASSUME LifecycleInv, NEW k \in Key, LateRunning(k)
  PROVE  LifecycleInv'
<1>1. StoreTypeOK /\ late \in [Key -> Nat] /\ "RUNNING" \in State \ Transitional
      /\ poll \in PollRecord
  BY TypeParts DEF LifecycleInv, State, Transitional
<1>2. /\ StoreTypeOK' /\ SnapshotsStay /\ Shown(k)' = "RUNNING"
      /\ \A j \in Key \ {k} : Shown(j)' = Shown(j)
  BY <1>1, SetStateIsSound DEF LateRunning
<1>3. late' \in [Key -> Nat] /\ \A j \in Key \ {k} : late'[j] = late[j]
  BY <1>1 DEF LateRunning
<1>4. ClusterTypeOK' /\ UNCHANGED <<poll, request, requests, faults>>
  BY ClusterStays DEF LateRunning
<1>5. \A j \in Key : Shown(j)' \in Transitional =>
        Shown(j) \in Transitional /\ late'[j] = late[j]
  BY <1>1, <1>2, <1>3
<1>6. QED
  BY <1>1, <1>2, <1>3, <1>4, <1>5, OtherKeepsInv

(* A poll only writes a decision, or that a workload is reclaimed.         *)
LEMMA PollKeepsInv ==
  ASSUME LifecycleInv, HandleWorkloads
  PROVE  LifecycleInv'
<1>1. /\ StoreTypeOK /\ late \in [Key -> Nat]
      /\ poll \in PollRecord
  BY TypeParts DEF LifecycleInv
<1>2. UNCHANGED <<clusterVars, request, late, requests, faults>>
  BY DEF HandleWorkloads, PollGoes, ListPods, DecidePod, ListDeployments, ListRecords,
         FindReclaimed, SetReclaimed, RecordReclaimed, EndPoll
<1>3. poll' \in PollRecord
  <2>1. CASE ListPods \/ EndPoll
    <3>1. \/ poll' = NoPoll
          \/ \E S \in SUBSET Pod, T \in SUBSET Key : poll' = [at |-> "pods", seen |-> S, todo |-> T]
      <4>1. CASE ListPods
        BY <4>1 DEF ListPods, PollGoes
      <4>2. CASE EndPoll
        BY <4>2 DEF EndPoll, PollGoes
      <4>3. QED
        BY <2>1, <4>1, <4>2
    <3>2. CASE poll' = NoPoll
      BY <3>2 DEF PollRecord, NoPoll, PollAt
    <3>3. CASE \E S \in SUBSET Pod, T \in SUBSET Key :
                 poll' = [at |-> "pods", seen |-> S, todo |-> T]
      BY <3>3 DEF PollRecord, PollAt
    <3>4. QED
      BY <3>1, <3>2, <3>3
  <2>2. CASE DecidePod \/ FindReclaimed \/ SetReclaimed \/ RecordReclaimed
    <3>1. \/ poll' = [poll EXCEPT !.todo = @ \ {FirstOf(poll.todo)}]
          \/ \E a \in PollAt : poll' = [poll EXCEPT !.at = a]
          \/ \E a \in PollAt : poll' = [poll EXCEPT !.at = a, !.todo = @ \ {FirstOf(@)}]
      BY <2>2 DEF DecidePod, FindReclaimed, SetReclaimed, RecordReclaimed, PollGoes, PollAt
    <3>2. QED
      BY <1>1, <3>1 DEF PollRecord
  <2>3. CASE ListDeployments \/ ListRecords
    <3>1. \/ poll' = NoPoll
          \/ \E a \in PollAt, T \in SUBSET Key : poll' = [poll EXCEPT !.at = a, !.todo = T]
      <4>1. CASE ListDeployments
        BY <4>1 DEF ListDeployments, PollGoes, PollAt
      <4>2. CASE ListRecords
        BY <4>2, LifecycleAssumption DEF ListRecords, PollGoes, PollAt
      <4>3. QED
        BY <2>3, <4>1, <4>2
    <3>2. NoPoll \in PollRecord
      BY DEF PollRecord, NoPoll, PollAt
    <3>3. QED
      BY <1>1, <3>1, <3>2 DEF PollRecord
  <2>4. QED
    BY <2>1, <2>2, <2>3 DEF HandleWorkloads
<1>4. /\ StoreTypeOK' /\ SnapshotsStay
      /\ \A k \in Key : Shown(k)' \in Transitional => Shown(k) \in Transitional
  <2>1. CASE UNCHANGED states
    BY <1>1, <2>1, SameIsShown DEF StoreTypeOK, SnapshotsStay
  <2>2. CASE \E x : \E keep \in BOOLEAN : RecordDecision(x, keep)
    BY <1>1, <2>2, RecordDecisionIsSound DEF Transitional
  <2>3. CASE SetReclaimed
    <3>1. PICK x : x = FirstOf(poll.todo)
      OBVIOUS
    <3>2. SetState(x, "RECLAIMED") /\ "RECLAIMED" \in State \ Transitional
      BY <2>3, <3>1 DEF SetReclaimed, State, Transitional
    <3>3. CASE x \in Key
      BY <1>1, <3>2, <3>3, SetStateIsSound
    <3>4. CASE x \notin Key
      <4>1. states' = states
        BY <1>1, <3>2, <3>4 DEF SetState, StoreTypeOK
      <4>2. QED
        BY <2>1, <4>1
    <3>5. QED
      BY <3>3, <3>4
  <2>4. QED
    <3>1. CASE ListPods \/ ListDeployments \/ ListRecords \/ FindReclaimed \/ EndPoll
      BY <2>1, <3>1 DEF ListPods, ListDeployments, ListRecords, FindReclaimed, EndPoll
    <3>2. CASE DecidePod
      <4>1. PICK x : x = FirstOf(poll.todo)
        OBVIOUS
      <4>2. \E keep \in {TRUE} \cup {x \notin Candidates} : RecordDecision(x, keep)
        BY <3>2, <4>1 DEF DecidePod
      <4>3. \E keep \in BOOLEAN : RecordDecision(x, keep)
        BY <4>2
      <4>4. QED
        BY <2>2, <4>3
    <3>3. CASE RecordReclaimed
      <4>1. PICK x : x = FirstOf(poll.todo)
        OBVIOUS
      <4>2. RecordDecision(x, FALSE)
        BY <3>3, <4>1 DEF RecordReclaimed
      <4>3. QED
        BY <2>2, <4>2
    <3>4. QED
      BY <2>3, <3>1, <3>2, <3>3 DEF HandleWorkloads
<1>5. QED
  BY <1>1, <1>2, <1>3, <1>4, ClusterStays, OtherKeepsInv

LEMMA PodKeepsInv ==
  ASSUME LifecycleInv, NEW x \in Pod, StartPod(x) \/ EndPod(x) \/ NewReplica(x)
  PROVE  LifecycleInv'
<1>1. /\ StoreTypeOK /\ ClusterTypeOK /\ late \in [Key -> Nat]
      /\ poll \in PollRecord
  BY TypeParts DEF LifecycleInv
<1>2. ClusterTypeOK'
  BY <1>1 DEF ClusterTypeOK, StartPod, EndPod, NewReplica, Remove
<1>3. UNCHANGED <<states, request, late, poll, requests, faults>>
  BY DEF StartPod, EndPod, NewReplica
<1>4. StoreTypeOK' /\ SnapshotsStay /\ \A k \in Key : Shown(k)' = Shown(k)
  BY <1>1, <1>3, SameIsShown DEF StoreTypeOK, SnapshotsStay
<1>5. QED
  BY <1>1, <1>2, <1>3, <1>4, OtherKeepsInv

LEMMA StutterKeepsInv ==
  ASSUME LifecycleInv, UNCHANGED vars
  PROVE  LifecycleInv'
<1>1. /\ StoreTypeOK /\ late \in [Key -> Nat]
      /\ poll \in PollRecord
  BY TypeParts DEF LifecycleInv
<1>2. StoreTypeOK' /\ SnapshotsStay /\ \A k \in Key : Shown(k)' = Shown(k)
  BY <1>1, SameIsShown DEF vars, StoreTypeOK, SnapshotsStay
<1>3. QED
  BY <1>1, <1>2, ClusterStays, OtherKeepsInv DEF vars

LEMMA InitHolds ==
  ASSUME Init
  PROVE  LifecycleInv
<1>1. StoreTypeOK /\ \A k \in Key : Shown(k) = "RUNNING"
  BY DEF Init, StoreInit, StoreTypeOK, Shown, Get
<1>2. request \in [Request -> RequestRecord] /\ StepsOK /\ SnapshotsHold
  BY IdleIsOK DEF Init, StepsOK, RequestOK, SnapshotsHold
<1>3. ClusterTypeOK
  BY DEF Init, ClusterTypeOK
<1>4. TypeOK
  BY <1>1, <1>2, <1>3, LifecycleAssumption DEF Init, TypeOK, ClusterTypeOK, RequestRecord,
     NoPoll, PollAt
<1>5. WritersRemain
  BY <1>1 DEF WritersRemain, Transitional
<1>6. QED
  BY <1>2, <1>4, <1>5 DEF LifecycleInv

LEMMA NextKeepsInv ==
  ASSUME LifecycleInv, [Next]_vars
  PROVE  LifecycleInv'
BY ReclamationKeepsInv, RestoreKeepsInv, CheckpointArrivalKeepsInv, RestoreArrivalKeepsInv,
   PollKeepsInv, LateRunningKeepsInv, PodKeepsInv, StutterKeepsInv DEF Next, RequestStep

(* Requests, polls and late writes keep the store, the cluster and what    *)
(* each of them has in hand well formed, and what they rely on with it.    *)
THEOREM LifecycleInvariance == Spec => []LifecycleInv
BY InitHolds, NextKeepsInv, PTL DEF Spec

(* Type correctness of the simulator's lifecycle.                          *)
THEOREM LifecycleTypeCorrect == Spec => []TypeOK
<1>1. LifecycleInv => TypeOK
  BY DEF LifecycleInv
<1>2. QED
  BY <1>1, LifecycleInvariance, PTL

(* The containers SaveSnapshot saved are there for the restore, whatever   *)
(* other requests and polls write in between.                              *)
THEOREM SnapshotsSurvive == Spec => []SnapshotsAreKept
<1>1. LifecycleInv => SnapshotsAreKept
  BY DEF LifecycleInv, SnapshotsHold, SnapshotsAreKept
<1>2. QED
  BY <1>1, LifecycleInvariance, PTL

(* No workload is left in a state it only passes through: whatever fails   *)
(* and however requests overlap, somebody will still write its state.      *)
THEOREM TransitionsEnd == Spec => []TransitionalStatesEnd
<1>1. LifecycleInv => TransitionalStatesEnd
  BY DEF LifecycleInv, WritersRemain, Writes, Shown, TransitionalStatesEnd
<1>2. QED
  BY <1>1, LifecycleInvariance, PTL

----------------------------------------------------------------------------
(* Who may write the state of a workload that is reclaimed.                *)

OwnStep(r, k) == request[r].key = k /\ request'[r] # request[r]

LEMMA SetIsOwn ==
  ASSUME LifecycleInv, NEW r \in Request, request[r].at \in ReclaimAt \cup RestoreAt,
         NEW s \in State, SetState(request[r].key, s),
         NEW x, x.at # request[r].at, request' = [request EXCEPT ![r] = x],
         NEW k \in Key, Shown(k)' # Shown(k)
  PROVE  OwnStep(r, k)
<1>1. PICK j \in Key : request[r].key = j
  BY LifecycleAssumption DEF LifecycleInv, StepsOK, RequestOK
<1>2. \A i \in Key \ {j} : Shown(i)' = Shown(i)
  BY <1>1, SetStateIsSound, TypeParts DEF LifecycleInv
<1>3. request'[r] = x
  BY TypeParts DEF LifecycleInv
<1>4. QED
  BY <1>1, <1>2, <1>3 DEF OwnStep

LEMMA WriteIsOwn ==
  ASSUME LifecycleInv, NEW r \in Request, NEW step \in ReclaimAt \cup RestoreAt,
         NEW s \in State, NEW x, x.at # step,
         Write(r, step, s, [request EXCEPT ![r] = x]),
         NEW k \in Key, Shown(k)' # Shown(k)
  PROVE  OwnStep(r, k)
BY SetIsOwn DEF Write, At

LEMMA StepIs ==
  ASSUME LifecycleInv, NEW r \in Request, NEW s
  PROVE  \E x : x.at = s /\ Step(r, s) = [request EXCEPT ![r] = x]
<1>1. request[r] \in RequestRecord
  BY TypeParts DEF LifecycleInv
<1>2. QED
  BY <1>1 DEF Step, RequestRecord

LEMMA ReclamationIsOwn ==
  ASSUME LifecycleInv, NEW r \in Request, ExecuteReclamation(r),
         NEW k \in Key, Shown(k) = "RECLAIMED", Shown(k)' # Shown(k)
  PROVE  OwnStep(r, k)
<1>1. /\ "checkpointing" \in ReclaimAt \cup RestoreAt
      /\ "checkpointed" \in ReclaimAt \cup RestoreAt
      /\ "reclaimed" \in ReclaimAt \cup RestoreAt
      /\ "reclaimed gracefully" \in ReclaimAt \cup RestoreAt
      /\ "fail" \in ReclaimAt \cup RestoreAt
  BY DEF ReclaimAt
<1>2. /\ "CHECKPOINTING" \in State /\ "CHECKPOINTED" \in State
      /\ "RECLAIMED" \in State /\ "RECLAMATION_FAILED" \in State
  BY DEF State
<1>3. PICK idle : idle.at = "idle" /\ Done(r) = [request EXCEPT ![r] = idle]
  BY DEF Done, Idle
<1>4. CASE Checkpointing(r)
  <2>1. PICK s \in {"checkpointed", "delete gracefully", "get owner"} :
          Write(r, "checkpointing", "CHECKPOINTING", Step(r, s))
    BY <1>4 DEF Checkpointing
  <2>2. PICK x : x.at = s /\ Step(r, s) = [request EXCEPT ![r] = x]
    BY StepIs
  <2>3. /\ Write(r, "checkpointing", "CHECKPOINTING", [request EXCEPT ![r] = x])
        /\ x.at # "checkpointing"
    BY <2>1, <2>2
  <2>4. QED
    BY <1>1, <1>2, <2>3, WriteIsOwn
<1>5. CASE Archived(r)
  <2>1. PICK x : x.at = "delete" /\ Step(r, "delete") = [request EXCEPT ![r] = x]
    BY StepIs
  <2>2. /\ Write(r, "checkpointed", "CHECKPOINTED", [request EXCEPT ![r] = x])
        /\ x.at # "checkpointed"
    BY <1>5, <2>1 DEF Archived
  <2>3. QED
    BY <1>1, <1>2, <2>2, WriteIsOwn
<1>6. CASE Reclaimed(r)
  <2>1. CASE Write(r, "reclaimed", "RECLAIMED", Done(r))
    <3>1. Write(r, "reclaimed", "RECLAIMED", [request EXCEPT ![r] = idle])
      BY <1>3, <2>1
    <3>2. QED
      BY <1>1, <1>2, <1>3, <3>1, WriteIsOwn
  <2>2. CASE Write(r, "reclaimed gracefully", "RECLAIMED", Step(r, "decide"))
    <3>1. PICK x : x.at = "decide" /\ Step(r, "decide") = [request EXCEPT ![r] = x]
      BY StepIs
    <3>2. /\ Write(r, "reclaimed gracefully", "RECLAIMED", [request EXCEPT ![r] = x])
          /\ x.at # "reclaimed gracefully"
      BY <2>2, <3>1
    <3>3. QED
      BY <1>1, <1>2, <3>2, WriteIsOwn
  <2>3. QED
    BY <1>6, <2>1, <2>2 DEF Reclaimed
<1>7. CASE Failed(r)
  <2>1. Write(r, "fail", "RECLAMATION_FAILED", [request EXCEPT ![r] = idle])
    BY <1>3, <1>7 DEF Failed
  <2>2. QED
    BY <1>1, <1>2, <1>3, <2>1, WriteIsOwn
<1>8. CASE DecideReclaimed(r)
  <2>1. PICK j : j = request[r].key
    OBVIOUS
  <2>2. RecordDecision(j, FALSE) /\ StoreTypeOK
    BY <1>8, <2>1, TypeParts DEF LifecycleInv, DecideReclaimed
  <2>3. QED
    BY <2>2, RecordDecisionIsSound
<1>9. CASE Save(r)
  <2>1. request[r].key \in Key
    BY <1>9 DEF LifecycleInv, StepsOK, RequestOK, Save, At, ReclaimAt
  <2>2. PICK j \in Key : j = request[r].key
    BY <2>1
  <2>3. SaveSnapshot(j) /\ StoreTypeOK
    BY <1>9, <2>2, TypeParts DEF LifecycleInv, Save
  <2>4. QED
    BY <2>3, SaveSnapshotIsSound
<1>10. CASE Delete(r) \/ GetOwner(r) \/ ScaleToZero(r)
  BY <1>10, SameIsShown DEF Delete, GetOwner, ScaleToZero
<1>11. QED
  BY <1>4, <1>5, <1>6, <1>7, <1>8, <1>9, <1>10 DEF ExecuteReclamation

LEMMA RestoreIsOwn ==
  ASSUME LifecycleInv, NEW r \in Request, ExecuteRestore(r),
         NEW k \in Key, Shown(k)' # Shown(k)
  PROVE  OwnStep(r, k)
<1>1. /\ "restoring" \in ReclaimAt \cup RestoreAt /\ "restored" \in ReclaimAt \cup RestoreAt
      /\ "restore fails" \in ReclaimAt \cup RestoreAt
  BY DEF RestoreAt
<1>2. "RESTORING" \in State /\ "RECLAMATION_FAILED" \in State /\ "RESTORED" \in State
  BY DEF State
<1>3. PICK x : x.at \in {"idle", "next"} /\ Return(r) = [request EXCEPT ![r] = x]
  <2> DEFINE next == [Idle EXCEPT !.at = "next", !.todo = request[r].todo]
  <2>1. Idle.at = "idle" /\ next.at = "next"
    BY DEF Idle
  <2>2. Return(r) = [request EXCEPT ![r] = Idle] \/ Return(r) = [request EXCEPT ![r] = next]
    BY DEF Return, Done
  <2> HIDE DEF next
  <2>3. QED
    BY <2>1, <2>2
<1>4. CASE Restoring(r)
  <2>1. PICK y : y.at = "find owner" /\ Step(r, "find owner") = [request EXCEPT ![r] = y]
    BY StepIs
  <2>2. QED
    BY <1>1, <1>2, <1>4, <2>1, WriteIsOwn DEF Restoring
<1>5. CASE RestoreFails(r)
  BY <1>1, <1>2, <1>3, <1>5, WriteIsOwn DEF RestoreFails
<1>6. CASE Restored(r)
  <2>1. /\ request[r].at = "restored" /\ SetState(request[r].key, "RESTORED")
        /\ request' = [request EXCEPT ![r] = x]
    BY <1>3, <1>6 DEF Restored, At
  <2>2. QED
    BY <1>1, <1>2, <1>3, <2>1, SetIsOwn
<1>7. CASE NextRestore(r) \/ FindOwner(r) \/ ScaleUp(r) \/ DeleteOldCopy(r) \/ CreateCopy(r)
  BY <1>7, SameIsShown DEF NextRestore, FindOwner, ScaleUp, DeleteOldCopy, CreateCopy
<1>8. QED
  BY <1>4, <1>5, <1>6, <1>7 DEF ExecuteRestore

LEMMA PollSparesReclaimed ==
  ASSUME LifecycleInv, HandleWorkloads, NEW k \in Key, Shown(k) = "RECLAIMED"
  PROVE  Shown(k)' = "RECLAIMED"
<1>1. StoreTypeOK
  BY TypeParts DEF LifecycleInv
<1>2. PICK x : x = FirstOf(poll.todo)
  OBVIOUS
<1>3. CASE UNCHANGED states
  BY <1>3, SameIsShown
<1>4. CASE \E keep \in BOOLEAN : RecordDecision(x, keep)
  BY <1>1, <1>4, RecordDecisionIsSound
<1>5. CASE SetState(x, "RECLAIMED")
  <2>1. CASE x \in Key
    BY <1>1, <1>5, <2>1, SetStateIsSound DEF State
  <2>2. CASE x \notin Key
    <3>1. states' = states
      BY <1>1, <1>5, <2>2 DEF SetState, StoreTypeOK
    <3>2. QED
      BY <3>1, SameIsShown
  <2>3. QED
    BY <2>1, <2>2
<1>6. CASE DecidePod
  <2>1. \E keep \in {TRUE} \cup {x \notin Candidates} : RecordDecision(x, keep)
    BY <1>2, <1>6 DEF DecidePod
  <2>2. QED
    BY <1>4, <2>1
<1>7. CASE SetReclaimed \/ RecordReclaimed
  BY <1>2, <1>4, <1>5, <1>7 DEF SetReclaimed, RecordReclaimed
<1>8. CASE ListPods \/ ListDeployments \/ ListRecords \/ FindReclaimed \/ EndPoll
  BY <1>3, <1>8 DEF ListPods, ListDeployments, ListRecords, FindReclaimed, EndPoll
<1>9. QED
  BY <1>6, <1>7, <1>8 DEF HandleWorkloads

LEMMA OthersSpareReclaimed ==
  ASSUME LifecycleInv, NEW k \in Key, Shown(k) = "RECLAIMED", Shown(k)' # "RECLAIMED",
         NEW j \in Key, LateRunning(j)
  PROVE  late'[k] < late[k]
<1>1. StoreTypeOK /\ late \in [Key -> Nat] /\ "RUNNING" \in State
  BY TypeParts DEF LifecycleInv, State
<1>2. j = k
  BY <1>1, SetStateIsSound DEF LateRunning
<1>3. QED
  BY <1>1, <1>2 DEF LateRunning

(* A reclaimed workload stays reclaimed until a request that names it      *)
(* moves, or a restore of it that is over writes what it left for later.   *)
THEOREM ReclaimedStaysReclaimed == Spec => ReclaimedUntilRestored
<1> DEFINE Kept == \A k \in Key :
             Get(k).state = "RECLAIMED" /\ Get(k)'.state # "RECLAIMED" =>
               \/ late'[k] < late[k]
               \/ \E r \in Request : request[r].key = k /\ request'[r] # request[r]
<1>1. ASSUME LifecycleInv, [Next]_vars PROVE [Kept]_vars
  <2> SUFFICES ASSUME NEW k \in Key, Shown(k) = "RECLAIMED", Shown(k)' # "RECLAIMED",
                      ~(late'[k] < late[k])
               PROVE  \E r \in Request : OwnStep(r, k)
    BY DEF Shown, OwnStep
  <2>1. ASSUME NEW r \in Request, RequestStep(r) PROVE OwnStep(r, k)
    BY <1>1, <2>1, ReclamationIsOwn, RestoreIsOwn DEF RequestStep
  <2>2. ~HandleWorkloads /\ \A j \in Key : ~LateRunning(j)
    BY <1>1, PollSparesReclaimed, OthersSpareReclaimed
  <2>3. states' # states
    BY SameIsShown
  <2>4. QED
    BY <1>1, <2>1, <2>2, <2>3
       DEF Next, vars, HandleCheckpoint, HandleRestore, Arrive, StartPod, EndPod, NewReplica
<1>2. QED
  BY <1>1, LifecycleInvariance, PTL DEF Spec, ReclaimedUntilRestored
=============================================================================
