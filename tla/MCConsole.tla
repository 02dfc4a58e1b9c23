----------------------------- MODULE MCConsole ------------------------------
(* A small instance of Console for TLC.                                    *)
EXTENDS Console

(* Two rows that differ in every column; two sign-ins that differ in both. *)
MCColumn == [f \in {"decision", "risk_level", "event_type", "type"} |->
               [r \in Rows |-> IF r = 1 THEN "a" ELSE "b"]]
MCPicks == {[role |-> "VIEWER", tenant |-> "m_acme"],
            [role |-> "OWNER", tenant |-> "m_sandbox"]}
MCSearches == {Rows, {1}}

=============================================================================
