--------------------------- MODULE DecisionLedger ---------------------------
(***************************************************************************)
(* What the Idempotency-Key header of POST /v1/risk/evaluate promises,     *)
(* without scoring, calibration, timelines and audit: a slot, that is a    *)
(* key of a merchant, is decided once while the process lives.  A letter   *)
(* is an answer to a keyed request; to send one again adds no letter, so   *)
(* a retry is no step of the ledger.                                       *)
(***************************************************************************)

CONSTANTS Slots, Payloads, Replies, Refusal, Nothing

VARIABLES ledger, letters

ledgerVars == <<ledger, letters>>

Letter(slot, payload, reply) ==
  [slot |-> slot, payload |-> payload, reply |-> reply]
Send(letter) == letters' = letters \cup {letter}

LedgerInit ==
  /\ ledger = [slot \in Slots |-> Nothing]
  /\ letters = {}

Decide(slot) ==
  /\ ledger[slot] = Nothing
  /\ ledger'[slot] \in [payload : Payloads, reply : Replies]
  /\ ledger' = [ledger EXCEPT ![slot] = ledger'[slot]]
  /\ Send(Letter(slot, ledger'[slot].payload, ledger'[slot].reply))

(* Only a payload that is not the one decided on is refused.               *)
Refuse(slot, payload) ==
  /\ slot \in Slots /\ payload \in Payloads
  /\ ledger[slot] # Nothing
  /\ payload # ledger[slot].payload
  /\ Send(Letter(slot, payload, Refusal))
  /\ UNCHANGED ledger

(* The process ends: the letters are out, the ledger is gone.              *)
Forget ==
  /\ ledger' = [slot \in Slots |-> Nothing]
  /\ UNCHANGED letters

(* A refusal is about the slot and the payload of a letter that is out     *)
(* afterwards.                                                             *)
LedgerNext ==
  \/ \E slot \in Slots : Decide(slot)
  \/ \E letter \in letters' : Refuse(letter.slot, letter.payload)
  \/ Forget

LedgerSpec == LedgerInit /\ [][LedgerNext]_ledgerVars

=============================================================================
