---------------------------- MODULE RecordPhase ----------------------------
(***************************************************************************)
(* What CheckpointPhase promises about every record, whoever writes it: a  *)
(* record is restored only through Restoring, a Failed record is never     *)
(* taken up again, and a Restored one only goes back to Ready.             *)
(***************************************************************************)
CONSTANT Record
VARIABLE phase

Init == phase = [r \in Record |-> "Absent"]

Move(r, from, to) == phase[r] \in from /\ phase' = [phase EXCEPT ![r] = to]

Create(r)    == Move(r, {"Absent"}, "Unset")
MarkReady(r) == Move(r, {"Unset"}, "Ready")
Claim(r)     == Move(r, {"Unset", "Ready", "Restoring"}, "Restoring")
Complete(r)  == Move(r, {"Restoring"}, "Restored")
Fail(r)      == Move(r, {"Restoring"}, "Failed")
RollBack(r)  == Move(r, {"Restoring", "Restored"}, "Ready")

Next == \E r \in Record :
          \/ Create(r)
          \/ MarkReady(r)
          \/ Claim(r)
          \/ Complete(r)
          \/ Fail(r)
          \/ RollBack(r)

Spec == Init /\ [][Next]_phase
=============================================================================
