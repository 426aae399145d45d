----------------------------- MODULE StateStore -----------------------------
(***************************************************************************)
(* state_store.go of the simulator: what its dashboard believes of each    *)
(* workload.  Every method takes the store's lock.  Scores, reasons, paths *)
(* and times are left out; of the snapshot it matters that there is one.   *)
(***************************************************************************)
CONSTANTS Key, NoEntry

State == {"RUNNING", "CANDIDATE", "CHECKPOINTING", "CHECKPOINTED", "RECLAIMED",
          "RESTORING", "RESTORED", "RECLAMATION_FAILED"}
Entry == [state : State, snapshot : BOOLEAN]

ASSUME StoreAssumption == NoEntry \notin Entry

VARIABLE states

StoreTypeOK == states \in [Key -> Entry \cup {NoEntry}]
StoreInit == states = [k \in Key |-> NoEntry]

Get(k) ==
  IF states[k] = NoEntry THEN [state |-> "RUNNING", snapshot |-> FALSE] ELSE states[k]

(* Mutation of SetState: the entry is made anew.                           *)
SetStateAnew(k, s) ==
  states' = [states EXCEPT ![k] = [state |-> s, snapshot |-> FALSE]]

SetState(k, s) == states' = [states EXCEPT ![k] = [Get(k) EXCEPT !.state = s]]

(* Mutation of RecordDecision: whatever is to be reclaimed is a candidate. *)
RecordDecisionAlways(k, keep) ==
  states' = [states EXCEPT ![k] =
    [Get(k) EXCEPT !.state = IF keep THEN "RUNNING" ELSE "CANDIDATE"]]

(* Only a workload that runs becomes a candidate, or stops being one.      *)
RecordDecision(k, keep) ==
  states' = [states EXCEPT ![k] =
    [Get(k) EXCEPT !.state = IF @ \notin {"RUNNING", "CANDIDATE"} THEN @
                             ELSE IF keep THEN "RUNNING" ELSE "CANDIDATE"]]

(* No entry, no snapshot.                                                  *)
SaveSnapshot(k) ==
  states' = IF states[k] = NoEntry THEN states
            ELSE [states EXCEPT ![k].snapshot = TRUE]
=============================================================================
