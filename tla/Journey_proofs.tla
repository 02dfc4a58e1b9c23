--------------------------- MODULE Journey_proofs ---------------------------
(***************************************************************************)
(* Theorems about Journey, for every set of scenarios, every decision the  *)
(* backend may make and any number of runs.                                *)
(***************************************************************************)
EXTENDS Journey, TLAPS

(* What the page shows while a loop is under way is that of its loop.  The *)
(* stage shown and the scenario selected are not read by the loop, so no   *)
(* property says this; but Finish needs it.                                *)
LoopIsShown ==
  On_demo => \A r \in runs :
    /\ local.running /\ ~local.completed /\ local.result = Nothing
    /\ local.selected = r.scenario
    /\ local.currentStep = IF r.i = Stages THEN LastStage ELSE r.i

JourneyInv == /\ JourneyTypeOK /\ OneLoop /\ ResultComesLast /\ ResultIsSelected
              /\ LoopIsShown

USE DEF On_demo, On_dossier, On_replay, On, DemoPages, Set, Stages, LastStage

LEMMA ResultTypes ==
  ASSUME NEW s \in Scenarios
  PROVE  /\ RealResult(s) \in Response /\ RealResult(s).transaction_id.scenario = s
         /\ SandboxFallback(s) \in Response
         /\ SandboxFallback(s).transaction_id.scenario = s
         /\ ScenarioData(s) \in Response
         /\ ScenarioData(s).transaction_id.scenario = s
  BY DemoAssumption DEF RealResult, SandboxFallback, ScenarioData, Response, Txn,
     Txns, Recorded

LEMMA FreshDemoOK == FreshDemo \in DemoState
  BY DemoAssumption DEF FreshDemo, DemoState

LEMMA JourneyInitOK == JourneyInit => JourneyInv
  BY FreshDemoOK, DemoAssumption DEF JourneyInit, DemoInit, StoreInit, JourneyInv,
     JourneyTypeOK, DemoTypeOK, OneLoop, ResultComesLast, ResultIsSelected,
     LoopIsShown, FreshDemo

LEMMA SelectOK ==
  ASSUME JourneyInv, NEW s \in Scenarios, SelectScenario(s)
  PROVE  JourneyInv'
<1>1. /\ page' = page /\ local' \in DemoState /\ ~local'.running
      /\ UNCHANGED <<runs, inFlight, started, snapshots>>
      /\ runs = {} /\ On_demo
  BY DEF SelectScenario, JourneyInv, JourneyTypeOK, DemoTypeOK, DemoState, OneLoop, demo
<1>2. JourneyTypeOK'
  BY <1>1 DEF JourneyInv, JourneyTypeOK, DemoTypeOK
<1>3. ResultComesLast' /\ ResultIsSelected'
  BY <1>1 DEF SelectScenario, JourneyInv, JourneyTypeOK, DemoTypeOK, DemoState,
     ResultComesLast, ResultIsSelected
<1> QED  BY <1>1, <1>2, <1>3 DEF JourneyInv, OneLoop, LoopIsShown

LEMMA ExecuteOK ==
  ASSUME JourneyInv, Execute
  PROVE  JourneyInv'
<1> DEFINE new == [id |-> started + 1, scenario |-> local.selected, i |-> 0,
                   call |-> "waiting"]
<1>1. /\ page' = page /\ On_demo /\ local \in DemoState
      /\ runs = {} /\ runs' = {new}
      /\ started \in 0..MaxRuns /\ started < MaxRuns /\ started' = started + 1
      /\ inFlight' = inFlight \cup {[id |-> started', scenario |-> local.selected]}
      /\ UNCHANGED snapshots
      /\ local' = [local EXCEPT !.running = TRUE, !.completed = FALSE,
                       !.currentStep = 0, !.result = Nothing]
  BY DEF Execute, StartRun, JourneyInv, JourneyTypeOK, DemoTypeOK, OneLoop
<1>2. /\ local' \in DemoState /\ local'.running /\ ~local'.completed
      /\ local'.result = Nothing /\ local'.selected = local.selected
      /\ local'.currentStep = 0 /\ local.selected \in Scenarios
  <2>1. /\ local \in DemoState
        /\ local' = [local EXCEPT !.running = TRUE, !.completed = FALSE,
                                  !.currentStep = 0, !.result = Nothing]
    BY <1>1
  <2>2. /\ local'.running /\ ~local'.completed /\ local'.result = Nothing
        /\ local'.selected = local.selected /\ local'.currentStep = 0
        /\ local.selected \in Scenarios
    BY <2>1 DEF DemoState
  <2>3. local' = [selected |-> local.selected, running |-> TRUE,
                  completed |-> FALSE, currentStep |-> 0, result |-> Nothing]
    BY <2>1 DEF DemoState
  <2>4. local' \in DemoState
    BY <2>2, <2>3 DEF DemoState
  <2> QED  BY <2>2, <2>4
<1>3. started' \in 1..MaxRuns /\ new \in Run
  BY <1>1, <1>2, DemoAssumption DEF Run
<1>4. JourneyTypeOK'
  BY <1>1, <1>2, <1>3, DemoAssumption DEF JourneyInv, JourneyTypeOK, DemoTypeOK
<1> QED  BY <1>1, <1>2, <1>4 DEF JourneyInv, OneLoop, ResultComesLast,
            ResultIsSelected, LoopIsShown

LEMMA StageOK ==
  ASSUME JourneyInv, On_demo, NEW r \in runs, StageElapses(r)
  PROVE  JourneyInv'
<1> DEFINE next == [r EXCEPT !.i = r.i + 1]
<1>1. /\ page' = page /\ local \in DemoState /\ r \in Run /\ runs = {r}
      /\ runs' = {next} /\ UNCHANGED <<inFlight, started, snapshots>>
      /\ r.i < Stages
      /\ local' = [local EXCEPT !.currentStep = IF r.i < LastStage THEN r.i + 1
                                                ELSE local.currentStep]
      /\ local.running /\ ~local.completed /\ local.result = Nothing
      /\ local.selected = r.scenario /\ local.currentStep = r.i
  BY DEF StageElapses, Become, JourneyInv, JourneyTypeOK, DemoTypeOK, OneLoop,
     LoopIsShown, Run
<1>2. next \in Run /\ next.scenario = r.scenario /\ next.i = r.i + 1
  BY <1>1 DEF Run
<1>3. /\ local' \in DemoState /\ local'.running /\ ~local'.completed
      /\ local'.result = Nothing /\ local'.selected = r.scenario
      /\ local'.currentStep = IF next.i = Stages THEN LastStage ELSE next.i
  BY <1>1, <1>2 DEF DemoState, Run
<1>4. JourneyTypeOK'
  BY <1>1, <1>2, <1>3 DEF JourneyInv, JourneyTypeOK, DemoTypeOK
<1> QED  BY <1>1, <1>2, <1>3, <1>4 DEF JourneyInv, OneLoop, ResultComesLast,
            ResultIsSelected, LoopIsShown

LEMMA CallEndsOK ==
  ASSUME JourneyInv, On_demo, NEW r \in runs, CallEnds(r)
  PROVE  JourneyInv'
<1>1. PICK c \in {"value", "null"} : runs' = (runs \ {r}) \cup {[r EXCEPT !.call = c]}
  BY DEF CallEnds, Become
<1> DEFINE next == [r EXCEPT !.call = c]
<1>2. /\ r \in Run /\ runs = {r} /\ runs' = {next} /\ next \in Run
      /\ next.i = r.i /\ next.scenario = r.scenario
      /\ UNCHANGED <<page, local, inFlight, started, snapshots>>
  BY <1>1 DEF CallEnds, JourneyInv, JourneyTypeOK, DemoTypeOK, OneLoop, Run
<1>3. JourneyTypeOK'
  BY <1>2 DEF JourneyInv, JourneyTypeOK, DemoTypeOK
<1> QED  BY <1>2, <1>3 DEF JourneyInv, OneLoop, ResultComesLast, ResultIsSelected,
            LoopIsShown

LEMMA FinishOK ==
  ASSUME JourneyInv, On_demo, NEW r \in runs, Finish(r)
  PROVE  JourneyInv'
<1>1. /\ page' = page /\ local \in DemoState /\ r \in Run /\ runs = {r}
      /\ runs' = {} /\ UNCHANGED <<inFlight, started, snapshots>>
      /\ local' = [local EXCEPT !.result = ShownFor(r), !.completed = TRUE,
                                !.running = FALSE]
      /\ local.selected = r.scenario /\ local.currentStep = LastStage
  BY DEF Finish, JourneyInv, JourneyTypeOK, DemoTypeOK, OneLoop, LoopIsShown
<1>2. ShownFor(r) \in Response /\ ShownFor(r).transaction_id.scenario = r.scenario
  BY <1>1, ResultTypes DEF ShownFor, Run
<1>3. /\ local' \in DemoState /\ ~local'.running /\ local'.completed
      /\ local'.result = ShownFor(r) /\ local'.selected = r.scenario
      /\ local'.currentStep = LastStage
  BY <1>1, <1>2 DEF DemoState
<1>4. JourneyTypeOK'
  BY <1>1, <1>3 DEF JourneyInv, JourneyTypeOK, DemoTypeOK
<1> QED  BY <1>1, <1>2, <1>3, <1>4, DemoAssumption DEF JourneyInv, OneLoop,
            ResultComesLast, ResultIsSelected, LoopIsShown

LEMMA BackendOK ==
  ASSUME JourneyInv, (\E q \in inFlight : Serve(q)) \/ BackendRestarts
  PROVE  JourneyInv'
<1>1. CASE BackendRestarts
  BY <1>1 DEF BackendRestarts, Forget, JourneyInv, JourneyTypeOK, DemoTypeOK, OneLoop,
     ResultComesLast, ResultIsSelected, LoopIsShown
<1>2. ASSUME NEW q \in inFlight, Serve(q)  PROVE JourneyInv'
  <2> DEFINE f(r) == IF r.id = q.id /\ r.call = "waiting"
                     THEN [r EXCEPT !.call = "served"] ELSE r
  <2>1. /\ runs \subseteq Run /\ runs' = {f(r) : r \in runs}
        /\ UNCHANGED <<page, local, started>> /\ inFlight' \subseteq inFlight
        /\ q.scenario \in Scenarios /\ snapshots \subseteq Txns
    BY <1>2 DEF Serve, JourneyInv, JourneyTypeOK, DemoTypeOK
  <2>2. \A r \in runs : f(r) \in Run /\ f(r).i = r.i /\ f(r).scenario = r.scenario
    BY <2>1 DEF Run
  <2>3. snapshots' \subseteq Txns
    BY <1>2, <2>1 DEF Serve, Save, Txn, Txns
  <2>4. JourneyTypeOK'
    BY <2>1, <2>2, <2>3 DEF JourneyInv, JourneyTypeOK, DemoTypeOK
  <2>5. OneLoop'
    BY <2>1 DEF JourneyInv, OneLoop
  <2>6. LoopIsShown'
    BY <2>1, <2>2 DEF JourneyInv, LoopIsShown
  <2> QED  BY <2>1, <2>4, <2>5, <2>6 DEF JourneyInv, ResultComesLast, ResultIsSelected
<1> QED  BY <1>1, <1>2

(* A page that is no demo page keeps its state's type.                     *)
LEMMA DecisionOK ==
  ASSUME JourneyInv, DecisionNext, UNCHANGED demo
  PROVE  JourneyInv'
<1>1. /\ page' = page /\ page \in {"investigations", "replay"}
      /\ UNCHANGED <<runs, inFlight, started, snapshots>>
      /\ page = "investigations" => local' \in DossierState(Ids)
      /\ page = "replay" => local' \in ReplayState(Ids)
  BY DEF DecisionNext, PageAnswers, LoadAnswers, LoadFails, ReplayAnswers, ReplayFails,
     ExecuteReplay, JourneyInv, JourneyTypeOK, DossierState, ReplayState, Sources, demo
<1> QED  BY <1>1 DEF JourneyInv, JourneyTypeOK, DemoTypeOK, OneLoop, ResultComesLast,
            ResultIsSelected, LoopIsShown

LEMMA VisitOK ==
  ASSUME JourneyInv, NEW p \in DemoPages, Visit(p)
  PROVE  JourneyInv'
  BY FreshDemoOK DEF Visit, Open, LeaveDemo, JourneyInv, JourneyTypeOK,
     DemoTypeOK, OneLoop, ResultComesLast, ResultIsSelected, LoopIsShown, FreshDemo

LEMMA LinksOK ==
  ASSUME JourneyInv, FollowResult \/ OpenReplay \/ BackToDossier
  PROVE  JourneyInv'
<1>1. PICK id \in Txns : \/ page' = "investigations" /\ local' = FreshDossier(id)
                         \/ page' = "replay" /\ local' = FreshReplay(id)
  <2>1. CASE FollowResult
    <3>1. local.result.transaction_id \in Txns
      BY <2>1 DEF FollowResult, JourneyInv, JourneyTypeOK, DemoTypeOK, DemoState,
         Response
    <3> QED  BY <2>1, <3>1 DEF FollowResult, Open
  <2>2. CASE OpenReplay \/ BackToDossier
    BY <2>2 DEF OpenReplay, BackToDossier, Open, JourneyInv, JourneyTypeOK,
       DossierState, ReplayState, Ids
  <2> QED  BY <2>1, <2>2
<1>2. runs' = {} /\ UNCHANGED <<inFlight, started, snapshots>>
  BY DEF FollowResult, OpenReplay, BackToDossier, LeaveDemo, demo, JourneyInv, OneLoop
<1>3. /\ FreshDossier(id) \in DossierState(Ids)
      /\ FreshReplay(id) \in ReplayState(Ids)
  BY DEF FreshDossier, DossierState, FreshReplay, ReplayState, Sources, Ids
<1> QED  BY <1>1, <1>2, <1>3 DEF JourneyInv, JourneyTypeOK, DemoTypeOK, OneLoop,
            ResultComesLast, ResultIsSelected, LoopIsShown

LEMMA JourneyStepOK == JourneyInv /\ [JourneyNext]_journey => JourneyInv'
<1> SUFFICES ASSUME JourneyInv, [JourneyNext]_journey  PROVE JourneyInv'
  OBVIOUS
<1>1. CASE UNCHANGED journey
  BY <1>1 DEF journey, JourneyInv, JourneyTypeOK, DemoTypeOK, OneLoop,
     ResultComesLast, ResultIsSelected, LoopIsShown
<1>2. CASE DemoNext
  <2>1. CASE RunStep
    BY <2>1, StageOK, CallEndsOK, FinishOK DEF RunStep
  <2> QED  BY <1>2, <2>1, SelectOK, ExecuteOK, BackendOK DEF DemoNext
<1>3. CASE JourneyNext /\ ~DemoNext
  BY <1>3, DecisionOK, VisitOK, LinksOK DEF JourneyNext
<1> QED  BY <1>1, <1>2, <1>3

(* JourneyInv is an inductive invariant.                                   *)
THEOREM JourneyCorrect == JourneySafety => []JourneyInv
  BY JourneyInitOK, JourneyStepOK, PTL DEF JourneySafety

(* The state of every page keeps its type.                                 *)
THEOREM JourneyTypeCorrect == JourneySafety => []JourneyTypeOK
<1>1. JourneyInv => JourneyTypeOK
  BY DEF JourneyInv
<1> QED  BY <1>1, JourneyCorrect, PTL

(* However fast the user clicks and the backend answers there is one loop, *)
(* and only while the button says so.                                      *)
THEOREM AtMostOneLoop == JourneySafety => []OneLoop
<1>1. JourneyInv => OneLoop
  BY DEF JourneyInv
<1> QED  BY <1>1, JourneyCorrect, PTL

(* A result is shown after its stages and until the next run.              *)
THEOREM ResultsComeLast == JourneySafety => []ResultComesLast
<1>1. JourneyInv => ResultComesLast
  BY DEF JourneyInv
<1> QED  BY <1>1, JourneyCorrect, PTL

(* The landing page never shows the result of another scenario than the    *)
(* selected one.                                                           *)
THEOREM ResultsAreSelected == JourneySafety => []ResultIsSelected
<1>1. JourneyInv => ResultIsSelected
  BY DEF JourneyInv
<1> QED  BY <1>1, JourneyCorrect, PTL

(* The track of a run goes forward, one stage at a time.                   *)
THEOREM TrackIsMonotonic == JourneySafety => TrackMovesForward
<1>1. JourneyInv /\ [JourneyNext]_journey
        => [On_demo /\ local.running /\ page' = page /\ local'.running
             => /\ \A i \in 0..LastStage : IsDone(i) => IsDone(i)'
                /\ local'.currentStep <= local.currentStep + 1]_<<page, local>>
  <2> SUFFICES ASSUME JourneyInv, [JourneyNext]_journey, On_demo, local.running,
                      page' = page, local'.running, ~UNCHANGED <<page, local>>
               PROVE  /\ \A i \in 0..LastStage : IsDone(i) => IsDone(i)'
                      /\ local'.currentStep <= local.currentStep + 1
    OBVIOUS
  <2>1. PICK r \in runs : StageElapses(r) \/ Finish(r)
    <3>1. ~UNCHANGED journey
      BY DEF journey
    <3>2. ~Execute /\ \A s \in Scenarios : ~SelectScenario(s)
      BY DEF Execute, SelectScenario
    <3>3. /\ ~BackendRestarts /\ \A q \in inFlight : ~Serve(q)
          /\ \A r \in runs : ~CallEnds(r)
      BY DEF BackendRestarts, Serve, CallEnds
    <3>4. ~DecisionNext
      BY DEF DecisionNext, PageAnswers, LoadAnswers, LoadFails, ReplayAnswers,
         ReplayFails, ExecuteReplay
    <3>5. ~FollowResult /\ ~OpenReplay /\ ~BackToDossier
      BY DEF FollowResult, OpenReplay, BackToDossier, Open
    <3>6. \A p \in DemoPages : ~Visit(p)
      BY DEF Visit, Open, FreshDemo
    <3> QED  BY <3>1, <3>2, <3>3, <3>4, <3>5, <3>6 DEF JourneyNext, DemoNext, RunStep
  <2>2. local \in DemoState /\ r \in Run
    BY DEF JourneyInv, JourneyTypeOK, DemoTypeOK
  <2>3. ~Finish(r)
    BY <2>2 DEF Finish, DemoState
  <2>4. /\ local.currentStep = r.i /\ ~local.completed
        /\ local' = [local EXCEPT !.currentStep = IF r.i < LastStage THEN r.i + 1
                                                  ELSE local.currentStep]
    BY <2>1, <2>2, <2>3 DEF StageElapses, JourneyInv, LoopIsShown, Run
  <2>5. local'.currentStep \in {local.currentStep, local.currentStep + 1}
    BY <2>2, <2>4 DEF DemoState
  <2> QED  BY <2>2, <2>4, <2>5 DEF IsDone, DemoState
<1> QED  BY <1>1, JourneyCorrect, PTL DEF JourneySafety, TrackMovesForward

(* The three steps of a loop bring it nearer to its end.                   *)
LEMMA LoopStepNearer ==
  ASSUME JourneyInv, On_demo, NEW r \in runs,
         StageElapses(r) \/ CallEnds(r) \/ Finish(r)
  PROVE  \/ runs' = {} /\ ~(On_demo' /\ local'.running)
         \/ \E n \in runs' :
              /\ runs' = {n} /\ page' = page /\ local'.running
              /\ n.id = r.id /\ n.scenario = r.scenario
              /\ LoopStepsLeft(n) \in 1..LoopStepsLeft(r)
              /\ LoopStepsLeft(n) < LoopStepsLeft(r)
<1>1. runs = {r} /\ r \in Run /\ local \in DemoState /\ local.running
  BY DEF JourneyInv, JourneyTypeOK, DemoTypeOK, OneLoop
<1>2. CASE StageElapses(r)
  <2> DEFINE n == [r EXCEPT !.i = r.i + 1]
  <2>1. runs' = {n} /\ page' = page /\ local'.running
    BY <1>1, <1>2 DEF StageElapses, Become, DemoState
  <2>2. /\ n.id = r.id /\ n.scenario = r.scenario /\ n.call = r.call
        /\ n.i = r.i + 1 /\ r.i \in 0..11
    BY <1>1, <1>2 DEF StageElapses, Run
  <2> QED  BY <2>1, <2>2 DEF LoopStepsLeft, CallSteps
<1>3. CASE CallEnds(r)
  <2>1. PICK c \in {"value", "null"} :
          /\ runs' = (runs \ {r}) \cup {[r EXCEPT !.call = c]}
          /\ r.call \in {"waiting", "served"} /\ UNCHANGED <<page, local>>
    BY <1>3 DEF CallEnds, Become
  <2> DEFINE n == [r EXCEPT !.call = c]
  <2>2. runs' = {n} /\ page' = page /\ local'.running
    BY <1>1, <2>1
  <2>3. /\ n.id = r.id /\ n.scenario = r.scenario /\ n.call = c
        /\ n.i = r.i /\ r.i \in 0..12
    BY <1>1, <2>1 DEF Run
  <2>4. CallSteps(n) = 0 /\ CallSteps(r) \in 1..2
    BY <2>1, <2>3 DEF CallSteps
  <2>5. LoopStepsLeft(n) \in 1..LoopStepsLeft(r) /\ LoopStepsLeft(n) < LoopStepsLeft(r)
    BY <2>3, <2>4 DEF LoopStepsLeft
  <2> QED  BY <2>2, <2>3, <2>5
<1>4. CASE Finish(r)
  BY <1>1, <1>4 DEF Finish, DemoState
<1> QED  BY <1>2, <1>3, <1>4

(* So does the backend when it serves the call; nobody else touches it.    *)
LEMMA OthersKeepLoop ==
  ASSUME JourneyInv, JourneyNext, ~RunStep, NEW r \in runs
  PROVE  \/ runs' = {} /\ ~(On_demo' /\ local'.running)
         \/ \E n \in runs' :
              /\ runs' = {n} /\ page' = page /\ local'.running
              /\ n.id = r.id /\ n.scenario = r.scenario
              /\ LoopStepsLeft(n) \in 1..LoopStepsLeft(r)
<1>1. /\ runs = {r} /\ r \in Run /\ local \in DemoState /\ local.running /\ On_demo
      /\ LoopStepsLeft(r) \in 1..15
  <2>1. runs = {r} /\ r \in Run /\ local \in DemoState /\ local.running /\ On_demo
    BY DEF JourneyInv, JourneyTypeOK, DemoTypeOK, OneLoop
  <2> QED  BY <2>1 DEF LoopStepsLeft, CallSteps, Run
<1>2. ~Execute /\ \A s \in Scenarios : ~SelectScenario(s)
  BY <1>1 DEF Execute, SelectScenario
<1>3. ~DecisionNext /\ ~OpenReplay /\ ~BackToDossier
  BY <1>1 DEF DecisionNext, PageAnswers, LoadAnswers, LoadFails, ReplayAnswers,
     ReplayFails, ExecuteReplay, OpenReplay, BackToDossier
<1>4. CASE BackendRestarts
  BY <1>1, <1>4 DEF BackendRestarts
<1>5. ASSUME NEW q \in inFlight, Serve(q)
      PROVE  \E n \in runs' :
               /\ runs' = {n} /\ page' = page /\ local'.running
               /\ n.id = r.id /\ n.scenario = r.scenario
               /\ LoopStepsLeft(n) \in 1..LoopStepsLeft(r)
  <2>1. CASE r.id = q.id /\ r.call = "waiting"
    <3> DEFINE n == [r EXCEPT !.call = "served"]
    <3>1. runs' = {n} /\ page' = page /\ local' = local
      BY <1>1, <1>5, <2>1 DEF Serve
    <3>2. n.id = r.id /\ n.scenario = r.scenario /\ n.i = r.i /\ n.call = "served"
      BY <1>1 DEF Run
    <3>3. r.i \in 0..12
      BY <1>1 DEF Run
    <3>4. LoopStepsLeft(n) = LoopStepsLeft(r) - 1 /\ LoopStepsLeft(n) \in Nat \ {0}
      BY <2>1, <3>2, <3>3 DEF LoopStepsLeft, CallSteps
    <3> HIDE DEF n
    <3> QED  BY <1>1, <3>1, <3>2, <3>4
  <2>2. CASE ~(r.id = q.id /\ r.call = "waiting")
    <3>1. runs' = {r} /\ page' = page /\ local' = local
      BY <1>1, <1>5, <2>2 DEF Serve
    <3> QED  BY <1>1, <3>1
  <2> QED  BY <2>1, <2>2
<1>6. CASE \E p \in DemoPages : Visit(p)
  BY <1>6 DEF Visit, Open, LeaveDemo, FreshDemo
<1>7. CASE FollowResult
  BY <1>7 DEF FollowResult, Open, LeaveDemo
<1> QED  BY <1>2, <1>3, <1>4, <1>5, <1>6, <1>7 DEF JourneyNext, DemoNext

(* A run that was started ends after at most fifteen steps of its own, or  *)
(* with its page: what the user clicks and the backend does sends it never *)
(* back.                                                                   *)
THEOREM LoopsAreBounded == JourneySafety => LoopsComeNearer
<1>1. JourneyInv /\ [JourneyNext]_journey
        => [\A r \in runs :
              \/ runs' = {} /\ ~(On_demo' /\ local'.running)
              \/ \E n \in runs' :
                   /\ runs' = {n} /\ page' = page /\ local'.running
                   /\ n.id = r.id /\ n.scenario = r.scenario
                   /\ LoopStepsLeft(n) \in 1..LoopStepsLeft(r)
                   /\ RunStep => LoopStepsLeft(n) < LoopStepsLeft(r)]_journey
  <2> SUFFICES ASSUME JourneyInv, JourneyNext, NEW r \in runs
               PROVE  \/ runs' = {} /\ ~(On_demo' /\ local'.running)
                      \/ \E n \in runs' :
                           /\ runs' = {n} /\ page' = page /\ local'.running
                           /\ n.id = r.id /\ n.scenario = r.scenario
                           /\ LoopStepsLeft(n) \in 1..LoopStepsLeft(r)
                           /\ RunStep => LoopStepsLeft(n) < LoopStepsLeft(r)
    OBVIOUS
  <2>1. CASE RunStep
    <3>1. runs = {r}
      BY DEF JourneyInv, OneLoop
    <3>2. StageElapses(r) \/ CallEnds(r) \/ Finish(r)
      BY <2>1, <3>1 DEF RunStep
    <3> QED  BY <2>1, <3>2, LoopStepNearer DEF RunStep
  <2>2. CASE ~RunStep
    BY <2>2, OthersKeepLoop
  <2> QED  BY <2>1, <2>2
<1> QED  BY <1>1, JourneyCorrect, PTL DEF JourneySafety, LoopsComeNearer

-----------------------------------------------------------------------------
(* What the pages about one decision do with an answer, for every backend  *)
(* and every order of calls.                                               *)
LEMMA UnreadableAnswers ==
  ~(DossierReads \subseteq InvestigationAnswer) /\ ~Readable
<1>1. "audit" \in DossierReads /\ "audit" \notin InvestigationAnswer
  BY DEF DossierReads, BannerReads, InvestigationAnswer
<1>2. "original_decision" \in ReplayReads /\ "original_decision" \notin ReplayAnswer
  BY DEF ReplayReads, ReplayAnswer
<1> QED  BY <1>1, <1>2 DEF Readable

LEMMA OwnStepOK ==
  ASSUME JourneyInv, OnlyOwnDossierRenders, OwnReplayStays, [JourneyNext]_journey
  PROVE  OnlyOwnDossierRenders' /\ OwnReplayStays'
<1>1. /\ On_dossier => local \in DossierState(Ids)
      /\ On_replay => local \in ReplayState(Ids)
  BY DEF JourneyInv, JourneyTypeOK
<1>2. CASE LoadAnswers
  <2>1. page' = page /\ local'.data = "answer" /\ local'.rendered = FALSE
    BY <1>1, <1>2, UnreadableAnswers DEF LoadAnswers, DossierState
  <2> QED  BY <1>2, <2>1 DEF LoadAnswers, OnlyOwnDossierRenders, OwnReplayStays
<1>3. CASE LoadFails
  <2>1. page' = page /\ local'.data = local.data /\ local'.rendered = local.rendered
    BY <1>1, <1>3 DEF LoadFails, DossierState
  <2> QED  BY <1>3, <2>1 DEF LoadFails, OnlyOwnDossierRenders, OwnReplayStays
<1>4. CASE ReplayAnswers \/ ReplayFails \/ ExecuteReplay
  BY <1>1, <1>4, UnreadableAnswers DEF ReplayAnswers, ReplayFails, ExecuteReplay,
     ReplayState, Sources, OnlyOwnDossierRenders, OwnReplayStays
<1>5. CASE FollowResult \/ OpenReplay \/ BackToDossier
  BY <1>5 DEF FollowResult, OpenReplay, BackToDossier, Open, FreshDossier, FreshReplay,
     OnlyOwnDossierRenders, OwnReplayStays
<1>6. CASE \E p \in DemoPages : Visit(p)
  BY <1>6 DEF Visit, Open, OnlyOwnDossierRenders, OwnReplayStays
<1>7. CASE DemoNext
  <2>1. page' = page /\ (On_demo \/ local' = local)
    BY <1>7 DEF DemoNext, RunStep, SelectScenario, Execute, StageElapses, CallEnds,
       Finish, Serve, BackendRestarts
  <2> QED  BY <2>1 DEF OnlyOwnDossierRenders, OwnReplayStays
<1>8. CASE UNCHANGED journey
  BY <1>8 DEF journey, OnlyOwnDossierRenders, OwnReplayStays
<1> QED  BY <1>2, <1>4, <1>5, <1>6, <1>7, <1>8, <1>3
     DEF JourneyNext, DecisionNext, PageAnswers

LEMMA OwnDataOnly == JourneySafety => [](OnlyOwnDossierRenders /\ OwnReplayStays)
<1>1. JourneyInit => OnlyOwnDossierRenders /\ OwnReplayStays
  BY DEF JourneyInit, OnlyOwnDossierRenders, OwnReplayStays
<1> QED  BY <1>1, OwnStepOK, JourneyCorrect, PTL DEF JourneySafety

(* A dossier is blank if and only if the backend has answered it.          *)
THEOREM AnsweredDossiersAreBlank == JourneySafety => []OnlyOwnDossierRenders
  BY OwnDataOnly, PTL

(* No replay of the backend is ever shown.                                 *)
THEOREM AnsweredReplaysAreHidden == JourneySafety => []OwnReplayStays
  BY OwnDataOnly, PTL

=============================================================================
