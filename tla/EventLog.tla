------------------------------ MODULE EventLog ------------------------------
(***************************************************************************)
(* What POST /webhooks/payment-event promises of the event store, without  *)
(* handlers, retries and faults: every event_id is recorded at most once   *)
(* and never changed, is acknowledged at most once and only when recorded, *)
(* and its evidence, if any, repeats what was recorded.                    *)
(***************************************************************************)
EXTENDS Naturals

CONSTANTS Events, Contents, Nothing

VARIABLES log, trail, acknowledged

logVars == <<log, trail, acknowledged>>

LogInit ==
  /\ log = [e \in Events |-> Nothing]
  /\ trail = [e \in Events |-> Nothing]
  /\ acknowledged = [e \in Events |-> 0]

Record(e, c) ==
  /\ log[e] = Nothing
  /\ log' = [log EXCEPT ![e] = c]
  /\ UNCHANGED <<trail, acknowledged>>

(* The acknowledgement does not promise the evidence.                      *)
Acknowledge(e) ==
  /\ log[e] # Nothing
  /\ trail[e] = Nothing
  /\ acknowledged[e] = 0
  /\ trail' \in {trail, [trail EXCEPT ![e] = log[e]]}
  /\ acknowledged' = [acknowledged EXCEPT ![e] = 1]
  /\ UNCHANGED log

LogNext == \E e \in Events : Acknowledge(e) \/ \E c \in Contents : Record(e, c)

LogSpec == LogInit /\ [][LogNext]_logVars

=============================================================================
