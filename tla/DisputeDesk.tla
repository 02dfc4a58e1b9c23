---------------------------- MODULE DisputeDesk ----------------------------
(***************************************************************************)
(* What POST /webhooks/dispute promises, without the workflow: a request   *)
(* gets one of the verdicts that its contents admit, the docket shows      *)
(* verdicts that were given only, and an answer that says "persisted"      *)
(* follows the entry.  A request may also be lost or refused.              *)
(***************************************************************************)
CONSTANTS
  Clerks,    \* who can work on a request
  Requests,  \* the requests
  Matters,   \* what a request is about: one entry each in the docket
  MatterOf,  \* [Requests -> Matters]
  Admitted,  \* [Requests -> verdicts]
  Nothing

VARIABLES desk, docket, letters

deskVars == <<desk, docket, letters>>

DeskInit ==
  /\ desk = [c \in Clerks |-> Nothing]
  /\ docket = [m \in Matters |-> Nothing]
  /\ letters = {}

Open(c, r) ==
  /\ desk[c] = Nothing
  /\ desk' = [desk EXCEPT ![c] =
                [request |-> r, verdict |-> Nothing, filed |-> FALSE]]
  /\ UNCHANGED <<docket, letters>>

(* The verdict is final; "filed" is what the clerk knows of the entry,     *)
(* which may also have been made when it is FALSE.                         *)
Decide(c, v, filed, entered) ==
  /\ desk[c] # Nothing /\ desk[c].verdict = Nothing
  /\ v \in Admitted[desk[c].request]
  /\ filed => entered
  /\ desk' = [desk EXCEPT ![c] =
                [request |-> desk[c].request, verdict |-> v, filed |-> filed]]
  /\ docket' =
       IF entered
       THEN [docket EXCEPT ![MatterOf[desk[c].request]] =
               [request |-> desk[c].request, verdict |-> v]]
       ELSE docket
  /\ UNCHANGED letters

Answer(c) ==
  /\ desk[c] # Nothing /\ desk[c].verdict # Nothing
  /\ letters' = letters \cup {desk[c]}
  /\ desk' = [desk EXCEPT ![c] = Nothing]
  /\ UNCHANGED docket

(* A request is refused before a verdict; a power cut ends all work.       *)
Refuse(c) ==
  /\ desk[c] # Nothing /\ desk[c].verdict = Nothing
  /\ desk' = [desk EXCEPT ![c] = Nothing]
  /\ UNCHANGED <<docket, letters>>

PowerCut ==
  /\ desk' = [c \in Clerks |-> Nothing]
  /\ UNCHANGED <<docket, letters>>

DeskNext ==
  \/ \E c \in Clerks :
       \/ \E r \in Requests : Open(c, r)
       \/ \E v \in UNION {Admitted[r] : r \in Requests},
             filed, entered \in BOOLEAN : Decide(c, v, filed, entered)
       \/ Answer(c)
       \/ Refuse(c)
  \/ PowerCut

DeskSpec == DeskInit /\ [][DeskNext]_deskVars

=============================================================================
