------------------------- MODULE MCDisputeWorkflow -------------------------
(* Small instances of DisputeWorkflow for TLC.                             *)
EXTENDS DisputeWorkflow

CONSTANTS w1, w2, d1, d2, t1, t2, large, small, fraud, duplicate

(* A large dispute is worth fighting over whatever its claim, a small one  *)
(* only as a duplicate charge.                                             *)
MCWorth == [p \in {large, small} |->
              IF p = large THEN {fraud, duplicate} ELSE {duplicate}]

MCEvent(d, t, p, l) == [id |-> d, txn |-> t, profile |-> p, listed |-> l]

(* Two bodies for d1, one of which is to be fought and one to be settled,  *)
(* and one for d2 that the classifier has to place.                        *)
MCEvents == {MCEvent(d1, t1, large, fraud), MCEvent(d1, t1, small, fraud),
             MCEvent(d2, t2, small, Unlisted)}

=============================================================================
