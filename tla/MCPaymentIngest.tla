-------------------------- MODULE MCPaymentIngest --------------------------
(* Small instances of PaymentIngest for TLC.                               *)
EXTENDS PaymentIngest, TLC

CONSTANTS w1, w2, w3, e1, e2, t1, t2, m1, m2, d1

Post(e, t, m, d, ok) ==
  [event |-> e, txn |-> t, merchant |-> m, device |-> d, wellFormed |-> ok]

(* e1 is posted by two merchants for two transactions, with and without a  *)
(* device, and once with a timestamp that PostgreSQL refuses; e2 shares    *)
(* transaction t1, carries no device, and its requests meet no fault.      *)
MCEnvelopes == {Post(e1, t1, m1, d1, TRUE), Post(e1, t2, m2, NoValue, TRUE),
                Post(e1, t1, m2, d1, FALSE), Post(e2, t1, m2, NoValue, TRUE)}
MCFaults == (e1 :> {"failed", "ack_lost"}) @@ (e2 :> {})

Symmetry == Permutations(Workers)

=============================================================================
