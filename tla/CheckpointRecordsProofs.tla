---------------------- MODULE CheckpointRecordsProofs ----------------------
(***************************************************************************)
(* What the reads and writes of CheckpointRecords preserve.  StoreInv is   *)
(* kept by each of them, and StoreStep(c) is all that the other threads    *)
(* can see of a step of client c.                                          *)
(***************************************************************************)
EXTENDS CheckpointRecords, TLAPS

StoreInv == RecordsTypeOK /\ FreshCopiesAgree /\ CopiesAreStored

StoreStep(c) ==
  /\ \A d \in Client \ {c} : copy'[d] = copy[d]
  /\ \A d \in fresh' \ {c} : d \in fresh
  /\ \A r \in RecordName :
       record'[r] # record[r] =>
         /\ record'[r].phase # "Absent"
         /\ record'[r].phase = "Unset" => record[r].phase = "Absent"
         /\ \A d \in fresh' \ {c} : copy[d].name # r

(* A name made from a workload and a second.                               *)
LEMMA MadeName ==
  ASSUME NEW w \in Workload, NEW s \in 0 .. MaxTime
  PROVE  /\ <<w, s>> \in RecordName
         /\ <<w, s>> \in PodName
         /\ Source(<<w, s>>) = w
         /\ Second(<<w, s>>) = s
BY DEF RecordName, PodName, Source, Second

(* The parts of a name.                                                    *)
LEMMA NameParts ==
  ASSUME NEW r \in RecordName
  PROVE  Source(r) \in Workload /\ Second(r) \in 0 .. MaxTime /\ r \in PodName
BY DEF RecordName, PodName, Source, Second

(* Get leaves the store alone and makes the reader's copy fresh.           *)
LEMMA ReadStore ==
  ASSUME StoreInv, NEW c \in Client, NEW r \in RecordName, Get(c, r)
  PROVE  /\ StoreInv'
         /\ StoreStep(c)
         /\ copy'[c].name = r
BY SentinelAssumption
   DEF StoreInv, StoreStep, Get, RecordsTypeOK, FreshCopiesAgree, CopiesAreStored

(* A client that returns without a write forgets its copy.                 *)
LEMMA DropStore ==
  ASSUME StoreInv, NEW c \in Client, DropUnwritten(c)
  PROVE  /\ StoreInv'
         /\ StoreStep(c)
BY DEF StoreInv, StoreStep, DropUnwritten, NoCopy, RecordsTypeOK,
       FreshCopiesAgree, CopiesAreStored, StoredPhase

(* Nothing happens to the store.                                           *)
LEMMA SameStore ==
  ASSUME StoreInv, NEW c \in Client, UNCHANGED storeVars
  PROVE  /\ StoreInv'
         /\ StoreStep(c)
BY DEF StoreInv, StoreStep, storeVars, RecordsTypeOK, FreshCopiesAgree,
       CopiesAreStored

(* The first call of Create, its answer received or lost.                  *)
LEMMA CreateStore ==
  ASSUME StoreInv, NEW c \in Client, NEW r \in RecordName,
         CreateObject(r),
         Hold(c, r, "Unset") \/ UNCHANGED <<copy, fresh>>
  PROVE  /\ StoreInv'
         /\ StoreStep(c)
         /\ record'[r].phase = "Unset"
<1>1. \A d \in Client : copy[d].name # r
  BY SentinelAssumption DEF StoreInv, CreateObject, CopiesAreStored, RecordsTypeOK
<1>2. record' \in [RecordName -> [phase : StoredPhase, pod : PodName \cup {NoPod},
                              by : Client]]
  BY DEF StoreInv, CreateObject, RecordsTypeOK, StoredPhase, Phase, Client
<1>3. CASE Hold(c, r, "Unset")
  BY <1>1, <1>2, <1>3, SentinelAssumption
     DEF StoreInv, StoreStep, CreateObject, Hold, OthersStillFresh,
         RecordsTypeOK, FreshCopiesAgree, CopiesAreStored, StoredPhase, Phase
<1>4. CASE UNCHANGED <<copy, fresh>>
  BY <1>1, <1>2, <1>4
     DEF StoreInv, StoreStep, CreateObject, RecordsTypeOK, FreshCopiesAgree,
         CopiesAreStored
<1>. QED
  BY <1>3, <1>4

(* A status update: it finds what the writer's copy says, and afterwards   *)
(* no other client holds the version of that record.                       *)
LEMMA WriteStore ==
  ASSUME StoreInv, NEW c \in Client,
         NEW ph \in Phase \ {"Unset"}, NEW pod \in PodName \cup {NoPod},
         UpdateStatus(c, ph, pod),
         \/ DropWritten(c)
         \/ Hold(c, copy[c].name, ph)
         \/ fresh' = OthersStillFresh(c) /\ UNCHANGED copy
  PROVE  /\ StoreInv'
         /\ StoreStep(c)
         /\ copy[c].name \in RecordName
         /\ record[copy[c].name].phase = copy[c].phase
         /\ record' = [record EXCEPT ![copy[c].name] = [phase |-> ph, pod |-> pod, by |-> c]]
         /\ \A d \in fresh' \ {c} : copy[d].name # copy[c].name
<1>1. /\ c \in fresh
      /\ copy[c].name \in RecordName
      /\ record[copy[c].name].phase = copy[c].phase
      /\ record' = [record EXCEPT ![copy[c].name] = [phase |-> ph, pod |-> pod, by |-> c]]
  BY DEF StoreInv, UpdateStatus, CanUpdate, Stored, RecordsTypeOK, FreshCopiesAgree
<1>2. record' \in [RecordName -> [phase : StoredPhase, pod : PodName \cup {NoPod},
                              by : Client]]
  BY <1>1 DEF StoreInv, RecordsTypeOK, StoredPhase
<1>3. /\ fresh' \in SUBSET Client
      /\ \A d \in fresh' \ {c} : d \in fresh /\ copy[d].name # copy[c].name
      /\ c \in fresh' => copy' = [copy EXCEPT ![c] = [name |-> copy[c].name, phase |-> ph]]
  BY DEF StoreInv, DropWritten, Hold, OthersStillFresh, RecordsTypeOK
<1>4. /\ copy' \in [Client -> [name : RecordName \cup {NoRecord}, phase : StoredPhase]]
      /\ \A d \in Client \ {c} : copy'[d] = copy[d]
      /\ copy'[c].name \in {copy[c].name, NoRecord}
  BY <1>1 DEF StoreInv, DropWritten, Hold, NoCopy, RecordsTypeOK, StoredPhase
<1>5. FreshCopiesAgree'
  BY <1>1, <1>2, <1>3, <1>4, SentinelAssumption
     DEF StoreInv, RecordsTypeOK, FreshCopiesAgree
<1>6. CopiesAreStored'
  BY <1>1, <1>4 DEF StoreInv, RecordsTypeOK, CopiesAreStored, Phase
<1>7. StoreStep(c)
  BY <1>1, <1>3, <1>4 DEF StoreStep, StoreInv, RecordsTypeOK, Phase
<1>. QED
  BY <1>1, <1>2, <1>3, <1>4, <1>5, <1>6, <1>7 DEF StoreInv, RecordsTypeOK
=============================================================================
