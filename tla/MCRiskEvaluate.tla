--------------------------- MODULE MCRiskEvaluate ---------------------------
(* Small instances of RiskEvaluate for TLC.                                *)
EXTENDS RiskEvaluate

CONSTANTS w0, w1, w2, default, v1, m1, m2, k1, t1, t2, p1, p2, p3

MCWeights == {w0, w1, w2}
MCConfig(v, w, low, high) ==
  [version |-> v, weights |-> w, low |-> low, high |-> high, quality |-> 70]

MCDefault == MCConfig(default, w0, 30, 70)
Trained == MCConfig(v1, w1, 40, 60)
(* One configuration per version.                                          *)
MCConfigs == {MCDefault, Trained}

(* p1 is an ordinary purchase; p2 is risky and lacks identifiers; p3 is    *)
(* risky with all of them, until the graph fails.                          *)
Per(a, b, c) == [p \in {p1, p2, p3} |-> IF p = p1 THEN a
                                        ELSE IF p = p2 THEN b ELSE c]
MCLogistic == [w \in MCWeights |-> IF w = w0 THEN Per(48, 62, 60)
                                   ELSE IF w = w1 THEN Per(20, 90, 75)
                                   ELSE Per(50, 65, 30)]
MCLinear == Per(5, 75, 40)
MCQuality == Per(80, 55, 80)

Post(m, t, p, stamped) ==
  [merchant |-> m, txn |-> t, profile |-> p, stamped |-> stamped]

(* Two bodies for one transaction of m1, one of them without a timestamp;  *)
(* m2 uses the same transaction id.                                        *)
MCBodies == {Post(m1, t1, p1, TRUE), Post(m1, t1, p3, FALSE),
             Post(m2, t1, p2, TRUE), Post(m1, t2, p3, TRUE)}
MCSessions == {[merchant |-> m1, txn |-> t1, profile |-> p1],
               [merchant |-> m2, txn |-> t2, profile |-> p2]}
OneSession == {[merchant |-> m1, txn |-> t1, profile |-> p1]}

=============================================================================
