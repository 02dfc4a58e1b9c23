---------------------------- MODULE DecisionPages ---------------------------
(***************************************************************************)
(* The pages about one transaction: the investigation dossier              *)
(* (app/investigations/[id]/page.tsx), which asks the backend for the      *)
(* decision when it is opened, and the replay (app/replay/[id]/page.tsx),  *)
(* which asks for a replay at a click.  Both start with a decision of      *)
(* their own and keep it if the call fails.                                *)
(*                                                                         *)
(* Of an answer it matters which fields it has: reading a field of an      *)
(* object that is not there throws a TypeError.                            *)
(***************************************************************************)
EXTENDS Browser, AuditStore

(* get_transaction_risk_investigation                                      *)
InvestigationAnswer ==
  {"transaction_id", "merchant_id", "decision", "risk_score",
   "evidence_quality", "feature_contributions", "signals",
   "calibration_version", "threshold_version", "fx_rate_version",
   "decision_hash", "created_at"}

(* replay_transaction_evaluation                                           *)
ReplayAnswer ==
  {"transaction_id", "original_score", "replayed_score", "score_delta",
   "original_action", "replayed_action", "deterministic_match",
   "calibration_version"}

(* The fields of data that every rendering of the dossier looks into: the  *)
(* banner, whatever the tab, and the panel beside the tabs.                *)
BannerReads == {"audit", "evidence_quality"}
TabReads == {"signals"}
PanelReads == {"audit", "evidence_quality", "latency_ms", "versions"}
DossierReads == BannerReads \cup TabReads \cup PanelReads

(* The fields of a replay that the page copies from.                       *)
ReplayReads == {"original_decision", "replay_decision"}

Sources == {"default", "answer"}

(* "rendered" is FALSE after an exception while rendering: there is no     *)
(* error boundary, so nothing of the page is left.                         *)
DossierState(Ids) ==
  [id : Ids, loading : BOOLEAN, data : Sources, rendered : BOOLEAN]
FreshDossier(id) ==
  [id |-> id, loading |-> TRUE, data |-> "default", rendered |-> TRUE]

(* "answered" remembers that the backend has replayed the decision.        *)
ReplayState(Ids) ==
  [id : Ids, replaying : BOOLEAN, data : Sources, answered : BOOLEAN]
FreshReplay(id) ==
  [id |-> id, replaying |-> FALSE, data |-> "default", answered |-> FALSE]

On_dossier == On("investigations")
On_replay == On("replay")

(* setData in load.                                                        *)
LoadAnswers ==
  /\ On_dossier /\ local.loading /\ Known(local.id)
  /\ Set([local EXCEPT !.loading = FALSE, !.data = "answer",
            !.rendered = DossierReads \subseteq InvestigationAnswer])
  /\ UNCHANGED snapshots

(* The catch clause: a 404, an outage, a timeout.                          *)
LoadFails == /\ On_dossier /\ local.loading
             /\ Set([local EXCEPT !.loading = FALSE])
             /\ UNCHANGED snapshots

ExecuteReplay == /\ On_replay /\ ~local.replaying
                 /\ Set([local EXCEPT !.replaying = TRUE])
                 /\ UNCHANGED snapshots

(* The condition of the if statement, and the reads that may throw.        *)
Readable == "score_delta" \in ReplayAnswer /\ ReplayReads \subseteq ReplayAnswer

(* try and finally.                                                        *)
ReplayAnswers ==
  /\ On_replay /\ local.replaying /\ Known(local.id)
  /\ Set([local EXCEPT !.replaying = FALSE, !.answered = TRUE,
                       !.data = IF Readable THEN "answer" ELSE @])
  /\ UNCHANGED snapshots

(* Variant: setReplaying(false) after setReplayState, not in a finally.     *)
ReplayFailsLocked == /\ On_replay /\ local.replaying
                     /\ UNCHANGED <<page, local, snapshots>>

(* catch and finally.                                                      *)
ReplayFails == /\ On_replay /\ local.replaying
               /\ Set([local EXCEPT !.replaying = FALSE])
               /\ UNCHANGED snapshots

PageAnswers == LoadAnswers \/ LoadFails \/ ReplayAnswers \/ ReplayFails

DecisionNext == PageAnswers \/ ExecuteReplay

-----------------------------------------------------------------------------
(* A dossier whose transaction the backend knows is on the screen          *)
(* (investigations page.tsx:109-112; lib/api.ts:158-163 promises a         *)
(* RiskEvaluationResponse).                                                *)
AnsweredDossierRenders == On_dossier => local.rendered

(* The page shows the replay that the backend has made, before it says     *)
(* "Mathematical Reproducibility Verified" (replay page.tsx:57-88, 142).   *)
AnsweredReplayIsShown == On_replay /\ local.answered => local.data = "answer"

(* What becomes of the two statements above.  The dossier is on the screen *)
(* for as long as it shows the decision that it brings along, and goes     *)
(* blank with the answer, for no answer has all fields that the page reads *)
(* (investigations page.tsx:14-100, 106-122).                              *)
OnlyOwnDossierRenders == On_dossier => (local.rendered <=> local.data = "default")

(* The replay page keeps the replay that it brings along, whatever the     *)
(* backend has answered (replay page.tsx:16-52, 57-88).                    *)
OwnReplayStays == On_replay => local.data = "default"

(* The replay button comes back, whatever becomes of the call              *)
(* (replay page.tsx:54-91).                                                *)
EveryReplayEnds == On_replay /\ local.replaying ~> ~(On_replay /\ local.replaying)

=============================================================================
