----------------------------- MODULE MCJourney ------------------------------
(* Small instances of Journey for TLC.                                     *)
EXTENDS Journey

CONSTANTS normal, velocity, entity, audit_fail

(* One scenario of each kind: the backend agrees, disagrees (and does not  *)
(* record), evaluates the default sample, simulates an outage.             *)
MCCatalogue == [s \in Scenarios |-> IF s = normal THEN "ALLOW" ELSE "BLOCK"]
MCBackend == [s \in Scenarios |-> IF s = velocity THEN "MANUAL_HOLD"
                                  ELSE IF s = normal THEN "ALLOW" ELSE "BLOCK"]

=============================================================================
