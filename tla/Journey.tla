------------------------------ MODULE Journey -------------------------------
(***************************************************************************)
(* From a scenario to its dossier and its replay: ScenarioDemo and         *)
(* DecisionPages in one tab, over one backend.  The links of the sandbox   *)
(* carry the transaction_id of the result, which the backend knows only if *)
(* it made the result and has not restarted since.                         *)
(***************************************************************************)
EXTENDS ScenarioDemo, DecisionPages

journey == <<page, local, runs, inFlight, started, snapshots>>

Ids == Txns

JourneyInit == /\ page = "landing" /\ local = FreshDemo
               /\ DemoInit

(* Blank is a page that has thrown.  The tab can always be reloaded.       *)
Blank == On_dossier /\ ~local.rendered

(* The side bar, the links of the landing page, or a reload.               *)
Visit(p) == /\ p \in DemoPages
            /\ Open(p, FreshDemo)
            /\ LeaveDemo /\ UNCHANGED snapshots

(* The two buttons below a result of the sandbox.                          *)
FollowResult ==
  /\ On("sandbox") /\ local.result # Nothing
  /\ \/ Open("investigations", FreshDossier(local.result.transaction_id))
     \/ Open("replay", FreshReplay(local.result.transaction_id))
  /\ LeaveDemo /\ UNCHANGED snapshots

(* "Replay Decision" of the dossier, and the way back.                     *)
OpenReplay == /\ On_dossier /\ ~Blank
              /\ Open("replay", FreshReplay(local.id))
              /\ UNCHANGED <<demo, snapshots>>
BackToDossier == /\ On_replay
                 /\ Open("investigations", FreshDossier(local.id))
                 /\ UNCHANGED <<demo, snapshots>>

JourneyNext == \/ DemoNext
               \/ DecisionNext /\ UNCHANGED demo
               \/ \E p \in DemoPages : Visit(p)
               \/ FollowResult
               \/ OpenReplay
               \/ BackToDossier

(* Timers fire and every call of the client settles (ApiClient); a promise *)
(* that is settled is continued.  Nothing is assumed of the user or of the *)
(* backend.                                                                *)
JourneyFairness == WF_journey(RunStep) /\ WF_journey(PageAnswers /\ UNCHANGED demo)

JourneySafety == JourneyInit /\ [][JourneyNext]_journey
JourneySpec == JourneySafety /\ JourneyFairness

-----------------------------------------------------------------------------
(* Types, page by page.                                                    *)
JourneyTypeOK ==
  /\ page \in DemoPages \cup {"investigations", "replay"}
  /\ DemoTypeOK
  /\ On_dossier => local \in DossierState(Ids)
  /\ On_replay => local \in ReplayState(Ids)

(* No page stays busy: neither the button that runs a scenario nor the one *)
(* that replays a decision is locked for ever, whatever becomes of the     *)
(* call (api.ts:37, LandingPage.tsx:315-341, replay page.tsx:54-91).       *)
EveryWaitEnds == EveryRunEnds /\ EveryReplayEnds

(* What a loop has yet to do: its timers, the two steps of its call, and   *)
(* the end.                                                                *)
CallSteps(r) == IF r.call = "waiting" THEN 2 ELSE IF r.call = "served" THEN 1 ELSE 0
LoopStepsLeft(r) == (Stages - r.i) + CallSteps(r) + 1

(* The part of EveryRunEnds that does not depend on time: until a loop is  *)
(* gone, and the page unlocked, it stays the same run, no step of anybody  *)
(* sends it back and each of its own brings it nearer to its end: fifteen  *)
(* steps at most, whatever the user and the backend do meanwhile           *)
(* (page.tsx:95-159, LandingPage.tsx:315-341).                             *)
LoopsComeNearer ==
  [][\A r \in runs :
       \/ runs' = {} /\ ~(On_demo' /\ local'.running)
       \/ \E n \in runs' :
            /\ runs' = {n} /\ page' = page /\ local'.running
            /\ n.id = r.id /\ n.scenario = r.scenario
            /\ LoopStepsLeft(n) \in 1..LoopStepsLeft(r)
            /\ RunStep => LoopStepsLeft(n) < LoopStepsLeft(r)]_journey

=============================================================================
