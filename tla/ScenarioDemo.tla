---------------------------- MODULE ScenarioDemo ----------------------------
(***************************************************************************)
(* The two places where a scenario can be evaluated: the sandbox           *)
(* (app/sandbox/page.tsx) and the live demo of the landing page            *)
(* (components/landing/LandingPage.tsx).  Both start a call of the backend *)
(* and, without waiting for it, walk through twelve stages with a timer    *)
(* each; then they wait for the call and show its result, or data of their *)
(* own.  A run is that loop: a closure that knows the scenario selected at *)
(* the click.  The backend may serve a call when the page has gone, and    *)
(* forgets its records when it restarts.                                   *)
(***************************************************************************)
EXTENDS Browser, AuditStore, Naturals

CONSTANTS
  Scenarios,       \* the scenarios of the sandbox
  DemoScenarios,   \* those of the landing page
  RingScenarios,   \* those the backend evaluates on sample device_reuse_ring_0
  Catalogue,       \* [Scenarios -> the decision that the page expects]
  Backend,         \* [Scenarios -> the decision of the backend]
  AuditFail,       \* scenario audit_fail
  Initial,         \* the scenario selected first, "velocity"
  Nothing,         \* no result
  MaxRuns          \* bound of the model: how many runs are started

VARIABLES runs,       \* the loops of the page that is mounted
          inFlight,   \* calls that the backend has not served
          started     \* how many runs were started

demo == <<runs, inFlight, started>>

DemoPages == {"sandbox", "landing"}
Offered(p) == IF p = "sandbox" THEN Scenarios ELSE DemoScenarios

(* PIPELINE_STAGES                                                         *)
Stages == 12
LastStage == Stages - 1

Decisions == {"ALLOW", "CHALLENGE", "BLOCK", "MANUAL_HOLD"}

(* The audit snapshot of a MANUAL_HOLD fails its validation.               *)
Recorded(s) == Backend[s] # "MANUAL_HOLD"

(* transaction_id: the origin is part of it.                               *)
Txn(origin, s) == [origin |-> origin, scenario |-> s]
Txns == [origin : {"backend", "sandbox", "landing"}, scenario : Scenarios]

(* What is kept of a RiskEvaluationResponse.                               *)
Response == [transaction_id : Txns, decision : Decisions, recorded : BOOLEAN]

RealResult(s) == [transaction_id |-> Txn("backend", s), decision |-> Backend[s],
                  recorded |-> Recorded(s)]

(* The object that the sandbox makes, and SCENARIO_DATA of the landing page *)
SandboxFallback(s) == [transaction_id |-> Txn("sandbox", s),
                       decision |-> Catalogue[s], recorded |-> s # AuditFail]
ScenarioData(s) == [transaction_id |-> Txn("landing", s),
                    decision |-> Catalogue[s], recorded |-> TRUE]

ASSUME DemoAssumption ==
  /\ MaxRuns \in Nat
  /\ DemoScenarios \subseteq Scenarios
  /\ Initial \in DemoScenarios
  /\ Catalogue \in [Scenarios -> Decisions]
  /\ Backend \in [Scenarios -> Decisions]
  /\ Nothing \notin Response

(* The state of either page.                                               *)
DemoState == [selected : Scenarios, running : BOOLEAN, completed : BOOLEAN,
              currentStep : 0..LastStage, result : Response \cup {Nothing}]
FreshDemo == [selected |-> Initial, running |-> FALSE, completed |-> FALSE,
              currentStep |-> 0, result |-> Nothing]

(* A loop: i counts the stages whose timer has elapsed.                    *)
Run == [id : 1..MaxRuns, scenario : Scenarios, i : 0..Stages,
        call : {"waiting", "served", "value", "null"}]

DemoInit == /\ runs = {} /\ inFlight = {} /\ started = 0
            /\ StoreInit

On_demo == page \in DemoPages

(* Variant: the last result stays when another scenario is selected.       *)
SelectScenarioOnly(s) ==
  /\ On_demo /\ s \in Offered(page) /\ ~local.running
  /\ Set([local EXCEPT !.selected = s])
  /\ UNCHANGED <<demo, snapshots>>

(* A click on a scenario.  The landing page takes the last result away,    *)
(* but leaves the stages as they are.                                      *)
SelectScenario(s) ==
  /\ On_demo
  /\ s \in Offered(page)
  /\ ~local.running
  /\ Set(IF page = "sandbox" THEN [local EXCEPT !.selected = s]
         ELSE [local EXCEPT !.selected = s, !.result = Nothing,
                            !.completed = FALSE])
  /\ UNCHANGED <<demo, snapshots>>

(* executeSandboxTransaction and the loop.                                 *)
StartRun ==
  /\ started < MaxRuns
  /\ started' = started + 1
  /\ runs' = runs \cup {[id |-> started', scenario |-> local.selected, i |-> 0,
                         call |-> "waiting"]}
  /\ inFlight' = inFlight \cup {[id |-> started', scenario |-> local.selected]}
  /\ UNCHANGED snapshots

(* Variants: the button is not disabled; the last result is not cleared.   *)
ExecuteUnlocked ==
  /\ On_demo /\ StartRun
  /\ Set([local EXCEPT !.running = TRUE, !.completed = FALSE,
                       !.currentStep = 0, !.result = Nothing])
ExecuteKeeps ==
  /\ On_demo /\ ~local.running /\ StartRun
  /\ Set([local EXCEPT !.running = TRUE, !.currentStep = 0])

(* The first half of runScenario and handleRunDemo; the button is disabled *)
(* while a run lasts.                                                      *)
Execute ==
  /\ On_demo
  /\ ~local.running
  /\ StartRun
  /\ Set([local EXCEPT !.running = TRUE, !.completed = FALSE,
                       !.currentStep = 0, !.result = Nothing])

Become(r, next) == runs' = (runs \ {r}) \cup {next}

(* The timer of a stage.                                                   *)
StageElapses(r) ==
  /\ r.i < Stages
  /\ Become(r, [r EXCEPT !.i = r.i + 1])
  /\ Set([local EXCEPT !.currentStep = IF r.i < LastStage THEN r.i + 1
                                       ELSE @])
  /\ UNCHANGED <<inFlight, started, snapshots>>

(* POST /v1/sandbox/transactions on the side of the backend.               *)
Serve(q) ==
  /\ inFlight' = inFlight \ {q}
  /\ IF Recorded(q.scenario) THEN Save(Txn("backend", q.scenario))
     ELSE UNCHANGED snapshots
  /\ runs' = {IF r.id = q.id /\ r.call = "waiting"
              THEN [r EXCEPT !.call = "served"] ELSE r : r \in runs}
  /\ UNCHANGED <<page, local, started>>

(* The snapshots are in memory.                                            *)
BackendRestarts ==
  /\ inFlight \cup snapshots # {}
  /\ inFlight' = {} /\ Forget
  /\ UNCHANGED <<page, local, runs, started>>

(* The promise is settled; an error becomes null.                          *)
CallEnds(r) ==
  /\ \/ r.call = "served" /\ Become(r, [r EXCEPT !.call = "value"])
     \/ r.call \in {"waiting", "served"} /\ Become(r, [r EXCEPT !.call = "null"])
  /\ UNCHANGED <<page, local, inFlight, started, snapshots>>

(* The landing page takes no answer about the default sample.              *)
Accepted(r) == /\ r.call = "value"
               /\ page = "landing" => r.scenario \notin RingScenarios

ShownFor(r) == IF Accepted(r) THEN RealResult(r.scenario)
               ELSE IF page = "sandbox" THEN SandboxFallback(r.scenario)
               ELSE ScenarioData(r.scenario)

(* The rest of the handler, after its loop and its await.                  *)
Finish(r) ==
  /\ r.i = Stages /\ r.call \in {"value", "null"}
  /\ runs' = runs \ {r}
  /\ Set([local EXCEPT !.result = ShownFor(r), !.completed = TRUE,
                       !.running = FALSE])
  /\ UNCHANGED <<inFlight, started, snapshots>>

(* What the track shows of a stage.                                        *)
IsDone(i) == local.completed \/ i < local.currentStep
IsCurrent(i) == local.running /\ i = local.currentStep

RunStep == On_demo /\ \E r \in runs : StageElapses(r) \/ CallEnds(r) \/ Finish(r)

DemoNext == \/ \E s \in Scenarios : SelectScenario(s)
            \/ Execute
            \/ RunStep
            \/ \E q \in inFlight : Serve(q)
            \/ BackendRestarts

(* The page is left: its loops go on and change nothing any more.          *)
LeaveDemo == runs' = {} /\ UNCHANGED <<inFlight, started>>

-----------------------------------------------------------------------------
(* Types of the state of a demo page and of its runs.                      *)
DemoTypeOK ==
  /\ On_demo => local \in DemoState
  /\ runs \subseteq Run
  /\ inFlight \subseteq [id : 1..MaxRuns, scenario : Scenarios]
  /\ started \in 0..MaxRuns
  /\ snapshots \subseteq Txns

(* There is one loop while the button says that a run lasts, and none      *)
(* otherwise: two would move the track back and forth, and the first to    *)
(* end would unlock the page under the second (page.tsx:184-185,           *)
(* LandingPage.tsx:532-533).                                               *)
OneLoop ==
  /\ On_demo => (local.running <=> runs # {})
  /\ ~On_demo => runs = {}
  /\ \A r1, r2 \in runs : r1 = r2

(* A result is on the screen only after all stages of its run and until    *)
(* the next one starts (page.tsx:95-159, LandingPage.tsx:315-341).         *)
ResultComesLast ==
  On_demo => /\ local.completed <=> local.result # Nothing
             /\ local.completed => ~local.running /\ local.currentStep = LastStage

(* The landing page shows no other scenario's result below the selected    *)
(* scenario, whatever was selected while the backend was answering         *)
(* (LandingPage.tsx:489-495, 331-337).                                     *)
ResultIsSelected ==
  page = "landing" /\ local.result # Nothing
    => local.result.transaction_id.scenario = local.selected

(* During a run the track goes forward, one stage at a time.               *)
TrackMovesForward ==
  [][On_demo /\ local.running /\ page' = page /\ local'.running
       => /\ \A i \in 0..LastStage : IsDone(i) => IsDone(i)'
          /\ local'.currentStep <= local.currentStep + 1]_<<page, local>>

(* The button comes back, also if the backend never answers: the stages    *)
(* have timers and the client gives up (api.ts:37).                        *)
EveryRunEnds == On_demo /\ local.running ~> ~(On_demo /\ local.running)

=============================================================================
