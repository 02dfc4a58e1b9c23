----------------------- MODULE DisputeWorkflow_proofs -----------------------
(***************************************************************************)
(* Proofs about DisputeWorkflow.  RunOK(n, s) says what the state s of a   *)
(* run is like when n is its next node, so a node of the graph keeps the   *)
(* invariant if it takes RunOK of its own node to RunOK of the next one:   *)
(* that is lemma GotoStep, and one lemma per node below it.                *)
(***************************************************************************)
EXTENDS DisputeWorkflow, SequenceTheorems, TLAPS

(* Appending a verdict keeps the earlier ones.                             *)
LEMMA AppendVerdict ==
  ASSUME NEW audits \in Seq(Verdicts), NEW v \in Verdicts
  PROVE  /\ Append(audits, v) \in Seq(Verdicts)
         /\ Len(Append(audits, v)) = Len(audits) + 1
         /\ \A i \in 1..Len(audits) : Append(audits, v)[i] = audits[i]
         /\ Append(audits, v)[Len(audits) + 1] = v
         /\ Append(audits, v) # <<>>
<1> QED
  OBVIOUS

(* The limit is positive and never below MaxIterations.                    *)
LEMMA AuditLimitFacts ==
  AuditLimit \in Nat /\ AuditLimit >= 1 /\ AuditLimit >= MaxIterations
<1> QED
  BY DisputeAssumption DEF AuditLimit

(* A fresh state, and the one a fault leaves behind.                       *)
LEMMA InitialState ==
  ASSUME NEW e \in Events
  PROVE  /\ build_initial_state(e) \in AegisState
         /\ build_initial_state(e).event = e
         /\ Untouched(build_initial_state(e))
         /\ ~build_initial_state(e).persisted
<1> QED
  BY DEF build_initial_state, AegisState, Untouched

FaultStateOf(e) ==
  [build_initial_state(e) EXCEPT !.needs_human_review = TRUE,
     !.decision = "escalate", !.final_status = FINAL_ESCALATED_HUMAN]

LEMMA FaultState ==
  ASSUME NEW e \in Events
  PROVE  /\ FaultStateOf(e) \in AegisState
         /\ FaultStateOf(e).event = e
         /\ RunOK("save_dispute", FaultStateOf(e))
<1> DEFINE s == FaultStateOf(e)
<1>1. /\ s.event = e /\ s.decision = "escalate" /\ s.dossier = "none"
      /\ s.audit_history = <<>> /\ s.notice = FALSE
      /\ s.final_status = FINAL_ESCALATED_HUMAN /\ s.persisted = FALSE
  BY DEF FaultStateOf, build_initial_state
<1>0. s \in AegisState
  <2>1. build_initial_state(e) \in AegisState
    BY InitialState
  <2>2. FINAL_ESCALATED_HUMAN \in FinalStatus \cup {"PENDING"}
    BY DEF FinalStatus
  <2> QED
    BY <2>1, <2>2 DEF FaultStateOf, AegisState
<1>2. VerdictBorneOut(s)
  BY <1>1 DEF VerdictBorneOut
<1>3. DecisionBorneOut(s)
  BY <1>1 DEF DecisionBorneOut
<1>4. BreakerOn(s.audit_history)
  BY <1>1, AuditLimitFacts DEF BreakerOn
<1> HIDE DEF s
<1>5. RunOK("save_dispute", s)
  BY <1>1, <1>2, <1>3, <1>4 DEF RunOK
<1> QED
  BY <1>0, <1>1, <1>5 DEF s

(* What the invariant says of a thread that is about to run node n.        *)
LEMMA AtNode ==
  ASSUME DisputeInv, NEW w \in Workers, node[w] # "idle"
  PROVE  /\ state[w] \in AegisState
         /\ state[w].event \in Events
         /\ RunOK(node[w], state[w])
<1> QED
  BY DEF DisputeInv, TypeOK, Busy, AegisState

(* A step of a run touches nothing but the run, so what is left to show is *)
(* that its new state fits its new node.                                   *)
LEMMA GotoStep ==
  ASSUME DisputeInv, NEW w \in Workers, NEW n \in Nodes, n # "respond",
         NEW s \in AegisState, RunOK(n, s), Goto(w, n, s)
  PROVE  DisputeInv'
<1>1. /\ node' = [node EXCEPT ![w] = n] /\ state' = [state EXCEPT ![w] = s]
      /\ UNCHANGED <<assessed, disputes, answers, received>>
  BY DEF Goto, outside
<1>2. TypeOK'
  BY <1>1 DEF DisputeInv, TypeOK, Busy
<1>3. \A v \in Workers : Busy(v)' => RunOK(node[v], state[v])'
  <2> SUFFICES ASSUME NEW v \in Workers, Busy(v)'
               PROVE  RunOK(node'[v], state'[v])
    BY DEF RunOK, Untouched, Contesting, Failed, BreakerOn, VerdictBorneOut,
           DecisionBorneOut, AuditLimit
  <2>1. CASE v = w
    BY <1>1, <2>1 DEF DisputeInv, TypeOK
  <2>2. CASE v # w
    BY <1>1, <2>2 DEF DisputeInv, TypeOK, Busy
  <2> QED
    BY <2>1, <2>2
<1>4. \A v \in Workers : (node'[v] = "respond" /\ state'[v].persisted) =>
        disputes'[state'[v].event.id] # NoRow
  BY <1>1 DEF DisputeInv, TypeOK
<1>5. RowsBorneOut' /\ PersistedIsStored'
  BY <1>1 DEF DisputeInv, RowsBorneOut, PersistedIsStored, VerdictBorneOut,
              DecisionBorneOut, Failed
<1>6. \A a \in answers' : a.final_status # HTTP_500 =>
        a.final_status \in Admitted[a.event]
  BY <1>1 DEF DisputeInv
<1> QED
  BY <1>2, <1>3, <1>4, <1>5, <1>6 DEF DisputeInv, Admitted, Fightable, Settleable

(* A fault at any node parks the case.                                     *)
LEMMA PipelineFaultStep ==
  ASSUME DisputeInv, NEW w \in Workers, node[w] # "idle", PipelineFault(w)
  PROVE  DisputeInv'
<1>1. state[w].event \in Events
  BY AtNode
<1>2. Goto(w, "save_dispute", FaultStateOf(state[w].event))
  BY DEF PipelineFault, FaultStateOf
<1> QED
  BY <1>1, <1>2, FaultState, GotoStep DEF Nodes

LEMMA EnrichStep ==
  ASSUME DisputeInv, NEW w \in Workers, EnrichFromLifecycle(w)
  PROVE  DisputeInv'
<1>1. node[w] = "enrich_from_lifecycle" /\ state[w] \in AegisState
      /\ RunOK(node[w], state[w])
  BY AtNode DEF EnrichFromLifecycle
<1>2. PICK seen \in BOOLEAN :
        Goto(w, "parse_dispute", [state[w] EXCEPT !.assessed = seen])
  BY DEF EnrichFromLifecycle
<1> DEFINE s == [state[w] EXCEPT !.assessed = seen]
<1>3. s \in AegisState
  BY <1>1 DEF AegisState
<1>4. RunOK("parse_dispute", s)
  BY <1>1 DEF RunOK, Untouched, AegisState
<1> QED
  BY <1>2, <1>3, <1>4, GotoStep DEF Nodes

LEMMA ParseListedStep ==
  ASSUME DisputeInv, NEW w \in Workers, ParseListed(w)
  PROVE  DisputeInv'
<1>1. /\ node[w] = "parse_dispute" /\ state[w] \in AegisState
      /\ RunOK(node[w], state[w])
      /\ state[w].event.listed # Unlisted
  BY AtNode DEF ParseListed
<1> DEFINE s == [state[w] EXCEPT !.claim_type = state[w].event.listed]
<1>2. state[w].event.listed \in Claims
  BY <1>1, DisputeAssumption DEF AegisState, DisputeEvent
<1>3. s \in AegisState
  BY <1>1, <1>2 DEF AegisState
<1>4. RunOK("route_decision", s)
  BY <1>1, <1>2, DisputeAssumption DEF RunOK, Untouched, AegisState
<1>5. Goto(w, "route_decision", s)
  BY DEF ParseListed
<1> QED
  BY <1>3, <1>4, <1>5, GotoStep DEF Nodes

LEMMA ParseUnlistedStep ==
  ASSUME DisputeInv, NEW w \in Workers, ParseUnlisted(w)
  PROVE  DisputeInv'
<1>1. /\ node[w] = "parse_dispute" /\ state[w] \in AegisState
      /\ RunOK(node[w], state[w])
      /\ state[w].event.listed = Unlisted
  BY AtNode DEF ParseUnlisted
<1>2. CASE PipelineFault(w)
  BY <1>1, <1>2, PipelineFaultStep
<1>3. ASSUME NEW c \in Claims \cup {Unknown}, NEW confident \in BOOLEAN,
             Goto(w, "route_decision",
                  [state[w] EXCEPT
                     !.claim_type = c,
                     !.needs_human_review = c = Unknown \/ ~confident])
      PROVE  DisputeInv'
  <2> DEFINE s == [state[w] EXCEPT
                     !.claim_type = c,
                     !.needs_human_review = c = Unknown \/ ~confident]
  <2>1. s \in AegisState
    BY <1>1 DEF AegisState
  <2>2. RunOK("route_decision", s)
    BY <1>1 DEF RunOK, Untouched, AegisState
  <2> QED
    BY <1>3, <2>1, <2>2, GotoStep DEF Nodes
<1> QED
  BY <1>2, <1>3 DEF ParseUnlisted

(* A side is taken only for what the rules call for.                       *)
LEMMA RouteDecisionStep ==
  ASSUME DisputeInv, NEW w \in Workers, RouteDecision(w)
  PROVE  DisputeInv'
<1>1. /\ node[w] = "route_decision" /\ state[w] \in AegisState
      /\ RunOK(node[w], state[w])
  BY AtNode DEF RouteDecision
<1> DEFINE d == DecideRoute(state[w])
<1> DEFINE s == [state[w] EXCEPT !.decision = d]
<1>2. d \in {"fight", "settle", "escalate"}
  BY DEF DecideRoute
<1>3. s \in AegisState
  BY <1>1, <1>2 DEF AegisState
<1>4. /\ s.decision = d /\ s.event = state[w].event
      /\ s.claim_type = state[w].claim_type /\ Untouched(s) /\ ~s.persisted
  BY <1>1, <1>2 DEF AegisState, RunOK, Untouched
<1>5. DecisionBorneOut(s)
  BY <1>1, <1>4 DEF DecideRoute, DecisionBorneOut, RunOK
<1>6. RunOK(RouteAfterDecision(d), s) /\ RouteAfterDecision(d) \in Nodes
      /\ RouteAfterDecision(d) # "respond"
  <2>1. CASE d = "fight"
    <3>1. Contesting(s) /\ Failed(s.audit_history) /\ Len(s.audit_history) = 0
      BY <1>4, <1>5, <2>1 DEF Contesting, Failed, Untouched
    <3>2. RouteAfterDecision(d) = "draft_dossier"
      BY <2>1 DEF RouteAfterDecision
    <3> QED
      BY <1>4, <3>1, <3>2, AuditLimitFacts DEF RunOK, Nodes
  <2>2. CASE d = "settle"
    <3>2. RouteAfterDecision(d) = "auto_settlement_notice"
      BY <2>2 DEF RouteAfterDecision
    <3> QED
      BY <1>4, <1>5, <2>2, <3>2 DEF RunOK, Nodes
  <2>3. CASE d = "escalate"
    <3>2. RouteAfterDecision(d) = "finalize_escalated"
      BY <2>3 DEF RouteAfterDecision
    <3> QED
      BY <1>4, <2>3, <3>2 DEF RunOK, Nodes
  <2> QED
    BY <1>2, <2>1, <2>2, <2>3
<1>7. Goto(w, RouteAfterDecision(d), s)
  BY DEF RouteDecision
<1> HIDE DEF d, s
<1> QED
  BY <1>3, <1>6, <1>7, GotoStep

LEMMA DraftDossierStep ==
  ASSUME DisputeInv, NEW w \in Workers, DraftDossier(w)
  PROVE  DisputeInv'
<1>1. /\ node[w] = "draft_dossier" /\ state[w] \in AegisState
      /\ RunOK(node[w], state[w])
  BY AtNode DEF DraftDossier
<1>2. CASE PipelineFault(w)
  BY <1>1, <1>2, PipelineFaultStep
<1>3. ASSUME NEW d \in {"drafted", "safe"},
             Goto(w, "audit_dossier", [state[w] EXCEPT !.dossier = d])
      PROVE  DisputeInv'
  <2> DEFINE s == [state[w] EXCEPT !.dossier = d]
  <2>1. s \in AegisState
    BY <1>1 DEF AegisState
  <2>2. RunOK("audit_dossier", s)
    BY <1>1 DEF RunOK, Contesting, DecisionBorneOut, AegisState
  <2> QED
    BY <1>3, <2>1, <2>2, GotoStep DEF Nodes
<1> QED
  BY <1>2, <1>3 DEF DraftDossier

(* The loop: another verdict, and where it leads.                          *)
LEMMA AuditDossierStep ==
  ASSUME DisputeInv, NEW w \in Workers, AuditDossier(w)
  PROVE  DisputeInv'
<1>1. /\ node[w] = "audit_dossier" /\ state[w] \in AegisState
      /\ RunOK(node[w], state[w])
  BY AtNode DEF AuditDossier
<1>2. CASE PipelineFault(w)
  BY <1>1, <1>2, PipelineFaultStep
<1>3. ASSUME NEW v \in Verdicts,
             LET audits == Append(state[w].audit_history, v)
             IN Goto(w, RouteAfterAudit(audits),
                     [state[w] EXCEPT !.audit_history = audits])
      PROVE  DisputeInv'
  <2> DEFINE old == state[w].audit_history
  <2> DEFINE audits == Append(old, v)
  <2> DEFINE s == [state[w] EXCEPT !.audit_history = audits]
  <2>1. old \in Seq(Verdicts) /\ Len(old) \in Nat
    BY <1>1 DEF AegisState
  <2>2. /\ audits \in Seq(Verdicts) /\ Len(audits) = Len(old) + 1
        /\ \A i \in 1..Len(old) : audits[i] = old[i]
        /\ audits[Len(audits)] = v /\ audits # <<>>
    BY <2>1, AppendVerdict
  <2>3. Failed(old) /\ Len(old) < AuditLimit
    BY <1>1 DEF RunOK
  <2>4. BreakerOn(audits)
    BY <2>1, <2>2, <2>3, AuditLimitFacts DEF BreakerOn, Failed
  <2> HIDE DEF audits, old
  <2>5. /\ s \in AegisState /\ s.audit_history = audits
        /\ s.dossier # "none" /\ Contesting(s) /\ ~s.persisted
    BY <1>1, <2>2 DEF AegisState, RunOK, Contesting, DecisionBorneOut
  <2> HIDE DEF s
  <2>6. CASE v = "passed"
    <3>1. RouteAfterAudit(audits) = "finalize_fought"
      BY <2>2, <2>6 DEF RouteAfterAudit
    <3>2. RunOK("finalize_fought", s)
      BY <2>2, <2>4, <2>5, <2>6 DEF RunOK
    <3> QED
      BY <1>3, <2>5, <3>1, <3>2, GotoStep DEF Nodes, s, audits, old
  <2>7. CASE v = "failed"
    <3>1. Failed(audits)
      BY <2>1, <2>2, <2>3, <2>7 DEF Failed
    <3>2. CASE Len(audits) < MaxIterations
      <4>1. RouteAfterAudit(audits) = "draft_dossier"
        BY <2>2, <2>7, <3>2 DEF RouteAfterAudit
      <4>2. Len(audits) < AuditLimit
        BY <2>1, <2>2, <3>2, AuditLimitFacts, DisputeAssumption
      <4>3. RunOK("draft_dossier", s)
        BY <2>5, <3>1, <4>2 DEF RunOK
      <4> QED
        BY <1>3, <2>5, <4>1, <4>3, GotoStep DEF Nodes, s, audits, old
    <3>3. CASE ~(Len(audits) < MaxIterations)
      <4>1. RouteAfterAudit(audits) = "finalize_escalated"
        BY <2>2, <2>7, <3>3 DEF RouteAfterAudit
      <4>2. Len(audits) = AuditLimit
        BY <2>1, <2>2, <2>3, <3>3, DisputeAssumption DEF AuditLimit
      <4>3. RunOK("finalize_escalated", s)
        BY <2>5, <3>1, <4>2 DEF RunOK
      <4> QED
        BY <1>3, <2>5, <4>1, <4>3, GotoStep DEF Nodes, s, audits, old
    <3> QED
      BY <3>2, <3>3
  <2> QED
    BY <2>6, <2>7 DEF Verdicts
<1> QED
  BY <1>2, <1>3 DEF AuditDossier

LEMMA AutoSettlementNoticeStep ==
  ASSUME DisputeInv, NEW w \in Workers, AutoSettlementNotice(w)
  PROVE  DisputeInv'
<1>1. /\ node[w] = "auto_settlement_notice" /\ state[w] \in AegisState
      /\ RunOK(node[w], state[w])
  BY AtNode DEF AutoSettlementNotice
<1>2. CASE PipelineFault(w)
  BY <1>1, <1>2, PipelineFaultStep
<1>3. CASE Goto(w, "finalize_settled", [state[w] EXCEPT !.notice = TRUE])
  <2> DEFINE s == [state[w] EXCEPT !.notice = TRUE]
  <2>1. s \in AegisState
    BY <1>1 DEF AegisState
  <2>2. RunOK("finalize_settled", s)
    BY <1>1 DEF RunOK, Untouched, DecisionBorneOut, AegisState
  <2> QED
    BY <1>3, <2>1, <2>2, GotoStep DEF Nodes
<1> QED
  BY <1>2, <1>3 DEF AutoSettlementNotice

(* A final status is given to a state that bears it out.                   *)
LEMMA FinalizeStep ==
  ASSUME DisputeInv, NEW w \in Workers, node[w] \notin {"idle", "respond"},
         NEW status \in FinalStatus, Finalize(w, status),
         VerdictBorneOut([state[w] EXCEPT !.final_status = status]),
         DecisionBorneOut(state[w]), BreakerOn(state[w].audit_history)
  PROVE  DisputeInv'
<1> DEFINE s == [state[w] EXCEPT !.final_status = status]
<1>1. state[w] \in AegisState
  BY AtNode
<1>2. /\ s \in AegisState /\ s.audit_history = state[w].audit_history
      /\ ~s.persisted
  <2>1. ~state[w].persisted
    BY AtNode DEF RunOK
  <2> QED
    BY <1>1, <2>1 DEF AegisState
<1>3. DecisionBorneOut(s)
  BY <1>1 DEF DecisionBorneOut, AegisState
<1>4. Goto(w, "save_dispute", s)
  BY DEF Finalize
<1>5. VerdictBorneOut(s)
  OBVIOUS
<1> HIDE DEF s
<1>6. RunOK("save_dispute", s)
  BY <1>2, <1>3, <1>5 DEF RunOK
<1> QED
  BY <1>2, <1>4, <1>6, GotoStep DEF Nodes

LEMMA FinalizeFoughtStep ==
  ASSUME DisputeInv, NEW w \in Workers, FinalizeFought(w)
  PROVE  DisputeInv'
<1>1. /\ node[w] = "finalize_fought" /\ state[w] \in AegisState
      /\ RunOK(node[w], state[w])
  BY AtNode DEF FinalizeFought
<1>2. VerdictBorneOut([state[w] EXCEPT !.final_status = FINAL_FOUGHT])
  BY <1>1 DEF RunOK, Contesting, VerdictBorneOut, AegisState
<1>3. DecisionBorneOut(state[w]) /\ BreakerOn(state[w].audit_history)
  BY <1>1 DEF RunOK, Contesting
<1> QED
  BY <1>1, <1>2, <1>3, FinalizeStep DEF FinalizeFought, FinalStatus

LEMMA FinalizeSettledStep ==
  ASSUME DisputeInv, NEW w \in Workers, FinalizeSettled(w)
  PROVE  DisputeInv'
<1>1. /\ node[w] = "finalize_settled" /\ state[w] \in AegisState
      /\ RunOK(node[w], state[w])
  BY AtNode DEF FinalizeSettled
<1>2. VerdictBorneOut([state[w] EXCEPT !.final_status = FINAL_SETTLED])
  BY <1>1 DEF RunOK, VerdictBorneOut, AegisState
<1>3. DecisionBorneOut(state[w]) /\ BreakerOn(state[w].audit_history)
  BY <1>1, AuditLimitFacts DEF RunOK, BreakerOn
<1> QED
  BY <1>1, <1>2, <1>3, FinalizeStep DEF FinalizeSettled, FinalStatus

LEMMA FinalizeEscalatedStep ==
  ASSUME DisputeInv, NEW w \in Workers, FinalizeEscalated(w)
  PROVE  DisputeInv'
<1>1. /\ node[w] = "finalize_escalated" /\ state[w] \in AegisState
      /\ RunOK(node[w], state[w])
  BY AtNode DEF FinalizeEscalated
<1>2. CASE state[w].decision = "escalate" /\ Untouched(state[w])
  <2>1. Finalize(w, FINAL_ESCALATED_HUMAN)
    BY <1>2 DEF FinalizeEscalated, Exhausted, Untouched
  <2>2. VerdictBorneOut(
          [state[w] EXCEPT !.final_status = FINAL_ESCALATED_HUMAN])
    BY <1>1, <1>2 DEF Untouched, VerdictBorneOut, AegisState
  <2>3. DecisionBorneOut(state[w]) /\ BreakerOn(state[w].audit_history)
    BY <1>2, AuditLimitFacts DEF DecisionBorneOut, BreakerOn, Untouched
  <2> QED
    BY <1>1, <2>1, <2>2, <2>3, FinalizeStep DEF FinalStatus
<1>3. CASE /\ Contesting(state[w]) /\ Failed(state[w].audit_history)
           /\ state[w].dossier # "none"
           /\ Len(state[w].audit_history) = AuditLimit
  <2>1. Exhausted(state[w])
    BY <1>1, <1>3, AuditLimitFacts DEF Exhausted, AegisState
  <2>2. VerdictBorneOut(
          [state[w] EXCEPT !.final_status = FINAL_ESCALATED_ITERATIONS])
    BY <1>1, <1>3 DEF Contesting, VerdictBorneOut, AegisState
  <2>3. DecisionBorneOut(state[w]) /\ BreakerOn(state[w].audit_history)
    BY <1>3, AuditLimitFacts DEF Contesting, BreakerOn, Failed
  <2> QED
    BY <1>1, <2>1, <2>2, <2>3, FinalizeStep DEF FinalizeEscalated, FinalStatus
<1> QED
  BY <1>1, <1>2, <1>3 DEF RunOK

LEMMA DeliverStep ==
  ASSUME DisputeInv, NEW w \in Workers, NEW e \in Events, Deliver(w, e)
  PROVE  DisputeInv'
<1> DEFINE s == build_initial_state(e)
<1>1. s \in AegisState /\ Untouched(s) /\ ~s.persisted
  BY InitialState
<1> HIDE DEF s
<1>2. /\ node' = [node EXCEPT ![w] = "enrich_from_lifecycle"]
      /\ state' = [state EXCEPT ![w] = s]
      /\ UNCHANGED <<assessed, disputes, answers>>
      /\ received' \in 0..MaxDeliveries
  BY DisputeAssumption DEF Deliver, DisputeInv, TypeOK, s
<1>3. TypeOK'
  BY <1>1, <1>2 DEF DisputeInv, TypeOK, Busy, Nodes
<1>4. \A v \in Workers : Busy(v)' => RunOK(node'[v], state'[v])
  <2>1. RunOK("enrich_from_lifecycle", s)
    BY <1>1 DEF RunOK
  <2> QED
    BY <1>2, <2>1 DEF DisputeInv, TypeOK, Busy
<1>5. \A v \in Workers : (node'[v] = "respond" /\ state'[v].persisted) =>
        disputes'[state'[v].event.id] # NoRow
  BY <1>2 DEF DisputeInv, TypeOK
<1>6. RowsBorneOut' /\ PersistedIsStored'
  BY <1>2 DEF DisputeInv, RowsBorneOut, PersistedIsStored, VerdictBorneOut,
              DecisionBorneOut, Failed
<1> QED
  BY <1>2, <1>3, <1>4, <1>5, <1>6 DEF DisputeInv

(* The row that a finished run leaves in the table.                        *)
LEMMA RowOfResult ==
  ASSUME NEW s \in AegisState, VerdictBorneOut(s), DecisionBorneOut(s)
  PROVE  /\ RowOf(s) \in Row /\ RowOf(s) # NoRow
         /\ RowOf(s).event = s.event
         /\ RowOf(s).final_status = s.final_status
         /\ VerdictBorneOut(RowOf(s)) /\ DecisionBorneOut(RowOf(s))
<1>1. s.decision \in {"fight", "settle", "escalate"}
  BY DEF VerdictBorneOut
<1>2. s.final_status \in FinalStatus
  BY DEF VerdictBorneOut, FinalStatus
<1>3. RowOf(s) \in Row
  BY <1>1, <1>2 DEF RowOf, Row, AegisState
<1> QED
  BY <1>3, DisputeAssumption DEF RowOf, VerdictBorneOut, DecisionBorneOut

(* An upsert writes a whole row or nothing, and "persisted" follows it.    *)
LEMMA SavedStep ==
  ASSUME DisputeInv, NEW w \in Workers, node[w] = "save_dispute",
         NEW stored \in BOOLEAN, NEW persisted \in BOOLEAN,
         persisted => stored, Saved(w, stored, persisted)
  PROVE  DisputeInv'
<1> DEFINE s == state[w]
<1> DEFINE t == [s EXCEPT !.persisted = persisted]
<1>1. /\ s \in AegisState /\ s.event \in Events /\ s.event.id \in Disputes
      /\ VerdictBorneOut(s) /\ DecisionBorneOut(s)
      /\ BreakerOn(s.audit_history)
  <2>1. s \in AegisState /\ s.event \in Events /\ RunOK("save_dispute", s)
    BY AtNode
  <2> QED
    BY <2>1, DisputeAssumption DEF RunOK, DisputeEvent
<1>2. /\ t \in AegisState /\ t.event = s.event
      /\ t.persisted = persisted /\ t.audit_history = s.audit_history
      /\ VerdictBorneOut(t) /\ DecisionBorneOut(t)
  BY <1>1 DEF AegisState, VerdictBorneOut, DecisionBorneOut
<1>3. /\ node' = [node EXCEPT ![w] = "respond"]
      /\ state' = [state EXCEPT ![w] = t]
      /\ disputes' = IF stored THEN [disputes EXCEPT ![s.event.id] = RowOf(s)]
                     ELSE disputes
      /\ UNCHANGED <<assessed, answers, received>>
  BY DEF Saved, Upsert
<1> HIDE DEF t
<1>4. RunOK("respond", t)
  BY <1>1, <1>2 DEF RunOK
<1> HIDE DEF s
<1>5. /\ RowOf(s) \in Row /\ RowOf(s) # NoRow /\ RowOf(s).event = s.event
      /\ VerdictBorneOut(RowOf(s)) /\ DecisionBorneOut(RowOf(s))
  BY <1>1, RowOfResult
<1>6. disputes' \in [Disputes -> Row \cup {NoRow}]
  BY <1>1, <1>3, <1>5 DEF DisputeInv, TypeOK
<1>7. /\ \A d \in Disputes : disputes[d] # NoRow => disputes'[d] # NoRow
      /\ stored => disputes'[s.event.id] # NoRow
  BY <1>1, <1>3, <1>5 DEF DisputeInv, TypeOK
<1>8. TypeOK'
  BY <1>2, <1>3, <1>6 DEF DisputeInv, TypeOK, Busy, Nodes
<1>9. \A v \in Workers : Busy(v)' => RunOK(node'[v], state'[v])
  BY <1>3, <1>4 DEF DisputeInv, TypeOK, Busy
<1>10. \A v \in Workers : (node'[v] = "respond" /\ state'[v].persisted) =>
         disputes'[state'[v].event.id] # NoRow
  <2> SUFFICES ASSUME NEW v \in Workers, node'[v] = "respond",
                      state'[v].persisted
               PROVE  disputes'[state'[v].event.id] # NoRow
    OBVIOUS
  <2>1. CASE v = w
    BY <1>1, <1>2, <1>3, <1>7, <2>1 DEF DisputeInv, TypeOK
  <2>2. CASE v # w
    <3>1. node[v] = "respond" /\ state[v].persisted /\ state'[v] = state[v]
      BY <1>3, <2>2 DEF DisputeInv, TypeOK
    <3>2. state[v].event.id \in Disputes
      BY <3>1, AtNode, DisputeAssumption DEF DisputeEvent
    <3> QED
      BY <1>7, <3>1, <3>2 DEF DisputeInv
  <2> QED
    BY <2>1, <2>2
<1>11. \A d \in Disputes : disputes'[d] # NoRow =>
         /\ disputes'[d].event.id = d
         /\ VerdictBorneOut(disputes'[d]) /\ DecisionBorneOut(disputes'[d])
  BY <1>1, <1>3, <1>5 DEF DisputeInv, TypeOK, RowsBorneOut
<1>12. PersistedIsStored'
  <2>1. \A a \in answers : a.event.id \in Disputes
    BY DisputeAssumption DEF DisputeInv, TypeOK, DisputeEvent
  <2> QED
    BY <1>3, <1>7, <2>1 DEF DisputeInv, PersistedIsStored
<1> QED
  BY <1>3, <1>8, <1>9, <1>10, <1>11, <1>12 DEF DisputeInv, RowsBorneOut

LEMMA SaveDisputeStep ==
  ASSUME DisputeInv, NEW w \in Workers, SaveDispute(w)
  PROVE  DisputeInv'
<1>1. node[w] = "save_dispute"
  BY DEF SaveDispute
<1>2. \E stored \in BOOLEAN, persisted \in BOOLEAN :
        (persisted => stored) /\ Saved(w, stored, persisted)
  BY DEF SaveDispute
<1> QED
  BY <1>1, <1>2, SavedStep

(* A result is one that the contents of its request admit.                 *)
LEMMA ResultAdmitted ==
  ASSUME NEW s \in AegisState, VerdictBorneOut(s), DecisionBorneOut(s)
  PROVE  s.final_status \in Admitted[s.event]
<1>0. s.event \in Events /\ s.claim_type \in Claims \cup {Unknown}
  BY DEF AegisState
<1>1. CASE s.final_status \in {FINAL_FOUGHT, FINAL_ESCALATED_ITERATIONS}
  <2>1. s.decision = "fight"
    BY <1>1 DEF VerdictBorneOut, FINAL_FOUGHT, FINAL_ESCALATED_ITERATIONS,
                FINAL_SETTLED, FINAL_ESCALATED_HUMAN
  <2>2. s.claim_type \in Fightable(s.event)
    BY <2>1 DEF DecisionBorneOut, Fightable
  <2> QED
    BY <1>0, <1>1, <2>2 DEF Admitted
<1>2. CASE s.final_status = FINAL_SETTLED
  <2>1. s.decision = "settle"
    BY <1>2 DEF VerdictBorneOut, FINAL_FOUGHT, FINAL_ESCALATED_ITERATIONS,
                FINAL_SETTLED, FINAL_ESCALATED_HUMAN
  <2>2. s.claim_type \in Settleable(s.event)
    BY <1>0, <2>1 DEF DecisionBorneOut, Settleable
  <2> QED
    BY <1>0, <1>2, <2>2 DEF Admitted
<1>3. CASE s.final_status = FINAL_ESCALATED_HUMAN
  BY <1>0, <1>3 DEF Admitted
<1> QED
  BY <1>1, <1>2, <1>3 DEF VerdictBorneOut

(* An answer frees the thread and leaves the rest as it is.                *)
LEMMA AnsweredStep ==
  ASSUME DisputeInv, NEW w \in Workers, node[w] # "idle",
         NEW status \in FinalStatus \cup {HTTP_500}, Answered(w, status),
         status # HTTP_500 => status \in Admitted[state[w].event],
         state[w].persisted => disputes[state[w].event.id] # NoRow
  PROVE  DisputeInv'
<1> DEFINE a == [event |-> state[w].event, final_status |-> status,
                 persisted |-> state[w].persisted]
<1>1. /\ node' = [node EXCEPT ![w] = "idle"]
      /\ state' = [state EXCEPT ![w] = NoState]
      /\ answers' = answers \cup {a}
      /\ UNCHANGED <<assessed, disputes, received>>
  BY DEF Answered
<1>2. a \in [event : Events, persisted : BOOLEAN,
             final_status : FinalStatus \cup {HTTP_500}]
  BY AtNode DEF AegisState
<1>3. /\ a.event = state[w].event /\ a.final_status = status
      /\ a.persisted = state[w].persisted
  OBVIOUS
<1> HIDE DEF a
<1>4. TypeOK'
  BY <1>1, <1>2 DEF DisputeInv, TypeOK, Busy
<1>5. \A v \in Workers : node'[v] # "idle" =>
        node'[v] = node[v] /\ state'[v] = state[v] /\ node[v] # "idle"
  BY <1>1 DEF DisputeInv, TypeOK
<1>6. \A v \in Workers : Busy(v)' => RunOK(node'[v], state'[v])
  BY <1>5 DEF DisputeInv, Busy
<1>7. \A v \in Workers : (node'[v] = "respond" /\ state'[v].persisted) =>
        disputes'[state'[v].event.id] # NoRow
  BY <1>1, <1>5 DEF DisputeInv
<1>8. RowsBorneOut' /\ PersistedIsStored'
  BY <1>1, <1>3 DEF DisputeInv, RowsBorneOut, PersistedIsStored,
     VerdictBorneOut, DecisionBorneOut, Failed
<1>9. \A b \in answers' : b.final_status # HTTP_500 =>
        b.final_status \in Admitted[b.event]
  BY <1>1, <1>3 DEF DisputeInv
<1> QED
  BY <1>4, <1>6, <1>7, <1>8, <1>9 DEF DisputeInv

LEMMA SaveRaisesStep ==
  ASSUME DisputeInv, NEW w \in Workers, SaveRaises(w)
  PROVE  DisputeInv'
<1>1. node[w] = "save_dispute" /\ Answered(w, HTTP_500)
  BY DEF SaveRaises
<1>2. ~state[w].persisted
  BY <1>1, AtNode DEF RunOK
<1> QED
  BY <1>1, <1>2, AnsweredStep

LEMMA RespondStep ==
  ASSUME DisputeInv, NEW w \in Workers, Respond(w)
  PROVE  DisputeInv'
<1>1. node[w] = "respond" /\ Answered(w, state[w].final_status)
  BY DEF Respond
<1>2. /\ state[w] \in AegisState
      /\ VerdictBorneOut(state[w]) /\ DecisionBorneOut(state[w])
  BY <1>1, AtNode DEF RunOK
<1>3. state[w].final_status \in Admitted[state[w].event]
  BY <1>2, ResultAdmitted
<1>4. state[w].final_status \in FinalStatus
  BY <1>2 DEF VerdictBorneOut, FinalStatus
<1>5. state[w].persisted => disputes[state[w].event.id] # NoRow
  BY <1>1 DEF DisputeInv
<1> QED
  BY <1>1, <1>3, <1>4, <1>5, AnsweredStep

(* Assessments, crashes and stuttering.                                    *)
LEMMA OtherStep ==
  ASSUME DisputeInv,
         (\E t \in Txns : AssessSession(t)) \/ Crash \/ UNCHANGED vars
  PROVE  DisputeInv'
<1>1. /\ UNCHANGED <<disputes, answers, received>>
      /\ assessed' \subseteq Txns
  BY DEF AssessSession, Crash, outside, vars, DisputeInv, TypeOK
<1>2. \/ UNCHANGED <<node, state>>
      \/ /\ node' = [w \in Workers |-> "idle"]
         /\ state' = [w \in Workers |-> NoState]
  BY DEF AssessSession, Crash, vars
<1>3. TypeOK'
  BY <1>1, <1>2 DEF DisputeInv, TypeOK, Busy
<1>4. \A v \in Workers : Busy(v)' => RunOK(node'[v], state'[v])
  BY <1>2 DEF DisputeInv, Busy
<1>5. \A v \in Workers : (node'[v] = "respond" /\ state'[v].persisted) =>
        disputes'[state'[v].event.id] # NoRow
  BY <1>1, <1>2 DEF DisputeInv
<1>6. RowsBorneOut' /\ PersistedIsStored'
  BY <1>1 DEF DisputeInv, RowsBorneOut, PersistedIsStored, VerdictBorneOut,
              DecisionBorneOut, Failed
<1> QED
  BY <1>1, <1>3, <1>4, <1>5, <1>6 DEF DisputeInv

LEMMA InvariantStep == DisputeInv /\ [Next]_vars => DisputeInv'
<1> SUFFICES ASSUME DisputeInv, [Next]_vars PROVE DisputeInv'
  OBVIOUS
<1>1. ASSUME NEW w \in Workers, HandlerStep(w) PROVE DisputeInv'
  BY <1>1, EnrichStep, ParseListedStep, ParseUnlistedStep, RouteDecisionStep,
     DraftDossierStep, AuditDossierStep, AutoSettlementNoticeStep,
     FinalizeFoughtStep, FinalizeSettledStep, FinalizeEscalatedStep,
     SaveDisputeStep, SaveRaisesStep, RespondStep
  DEF HandlerStep
<1>2. ASSUME NEW w \in Workers, NEW e \in Events, Deliver(w, e)
      PROVE  DisputeInv'
  BY <1>2, DeliverStep
<1> QED
  BY <1>1, <1>2, OtherStep DEF Next

LEMMA InvariantInit == Init => DisputeInv
<1> SUFFICES ASSUME Init PROVE DisputeInv
  OBVIOUS
<1> USE DEF Init
<1>1. TypeOK
  BY DisputeAssumption DEF TypeOK, Busy
<1>2. RowsBorneOut /\ PersistedIsStored
  BY DEF RowsBorneOut, PersistedIsStored
<1> QED
  BY <1>1, <1>2 DEF DisputeInv, Busy

(* DisputeInv is an invariant of the workflow.                             *)
THEOREM WorkflowInvariant == Spec => []DisputeInv
<1> QED
  BY InvariantInit, InvariantStep, PTL DEF Spec

(* The runs, the table and the answers keep their types.                   *)
THEOREM TypeCorrect == Spec => []TypeOK
<1>1. DisputeInv => TypeOK
  BY DEF DisputeInv
<1> QED
  BY <1>1, WorkflowInvariant, PTL

(* For every limit: the circuit breaker holds in every run, and no run     *)
(* goes on after an audit that passed.                                     *)
THEOREM BreakerHolds == Spec => []AuditBreakerHolds
<1>1. DisputeInv => AuditBreakerHolds
  <2> SUFFICES ASSUME DisputeInv, NEW w \in Workers, Busy(w)
               PROVE  /\ BreakerOn(state[w].audit_history)
                      /\ node[w] = "draft_dossier" =>
                           /\ Len(state[w].audit_history) < AuditLimit
                           /\ Failed(state[w].audit_history)
    BY DEF AuditBreakerHolds, BreakerOn
  <2>1. state[w] \in AegisState /\ RunOK(node[w], state[w])
    BY AtNode DEF Busy
  <2>2. node[w] \in Nodes
    BY DEF DisputeInv, TypeOK, Busy
  <2>3. CASE state[w].audit_history = <<>>
    BY <2>3, AuditLimitFacts DEF BreakerOn, Failed
  <2>4. CASE Failed(state[w].audit_history)
             /\ Len(state[w].audit_history) <= AuditLimit
    BY <2>1, <2>4, AuditLimitFacts DEF BreakerOn, Failed, RunOK, AegisState
  <2>5. CASE node[w] \in {"finalize_fought", "save_dispute", "respond"}
    BY <2>1, <2>5 DEF RunOK
  <2> QED
    BY <2>1, <2>2, <2>3, <2>4, <2>5, AuditLimitFacts
    DEF Nodes, RunOK, Untouched, AegisState
<1> QED
  BY <1>1, WorkflowInvariant, PTL

(* Every result, stored or on its way, is borne out by its contents.       *)
THEOREM ResultsAreBorneOut == Spec => []ResultsBorneOut
<1>1. DisputeInv => ResultsBorneOut
  BY DEF DisputeInv, ResultsBorneOut, RunOK, Busy
<1> QED
  BY <1>1, WorkflowInvariant, PTL

(* A listed dispute is never settled in one answer and contested in        *)
(* another.                                                                *)
THEOREM OneSide == Spec => []OneSideOnly
<1>1. DisputeInv => OneSideOnly
  <2> SUFFICES ASSUME DisputeInv, NEW a \in answers, NEW b \in answers,
                      a.event = b.event, a.event.listed # Unlisted,
                      a.final_status = FINAL_SETTLED,
                      b.final_status \in
                        {FINAL_FOUGHT, FINAL_ESCALATED_ITERATIONS}
               PROVE  FALSE
    BY DEF OneSideOnly
  <2>1. a.event \in Events
    BY DEF DisputeInv, TypeOK
  <2>2. Settleable(a.event) # {}
    BY <2>1 DEF DisputeInv, Admitted, FINAL_SETTLED, FINAL_FOUGHT, HTTP_500,
                FINAL_ESCALATED_ITERATIONS, FINAL_ESCALATED_HUMAN
  <2>3. Fightable(a.event) # {}
    BY <2>1 DEF DisputeInv, Admitted, FINAL_SETTLED, FINAL_FOUGHT, HTTP_500,
                FINAL_ESCALATED_ITERATIONS, FINAL_ESCALATED_HUMAN
  <2> QED
    BY <2>2, <2>3 DEF Settleable, Fightable
<1> QED
  BY <1>1, WorkflowInvariant, PTL

(* "persisted" is said only of a dispute that is in the table.             *)
THEOREM PersistedHolds == Spec => []PersistedIsStored
<1>1. DisputeInv => PersistedIsStored
  BY DEF DisputeInv
<1> QED
  BY <1>1, WorkflowInvariant, PTL

-----------------------------------------------------------------------------
(* Termination: every step of a run brings its end nearer.                 *)

(* The steps that are left at each node.                                   *)
LEMMA StepsLeftAt ==
  ASSUME NEW s, NEW n
  PROVE  /\ n \in {"enrich_from_lifecycle", "parse_dispute",
                   "route_decision"} /\ s.audit_history = <<>> =>
              StepsLeft(n, s) =
                (CASE n = "enrich_from_lifecycle" -> 2 * AuditLimit + 6
                   [] n = "parse_dispute" -> 2 * AuditLimit + 5
                   [] OTHER -> 2 * AuditLimit + 4)
         /\ n = "draft_dossier" =>
              StepsLeft(n, s) = 5 + 2 * (AuditLimit - Len(s.audit_history) - 1)
         /\ n = "audit_dossier" =>
              StepsLeft(n, s) = 4 + 2 * (AuditLimit - Len(s.audit_history) - 1)
         /\ n = "auto_settlement_notice" => StepsLeft(n, s) = 4
         /\ n \in {"finalize_fought", "finalize_settled",
                   "finalize_escalated"} => StepsLeft(n, s) = 3
         /\ n = "save_dispute" => StepsLeft(n, s) = 2
         /\ n = "respond" => StepsLeft(n, s) = 1
         /\ n = "idle" => StepsLeft(n, s) = 0
<1>1. CASE n \in {"enrich_from_lifecycle", "parse_dispute", "route_decision"}
           /\ s.audit_history = <<>>
  <2>1. Len(s.audit_history) = 0
    BY <1>1
  <2>2. StepsLeft(n, s) = NodesLeft[n] + 2 * (AuditLimit - 1)
    BY <1>1, <2>1, AuditLimitFacts DEF StepsLeft, BeforeVerdict
  <2> QED
    BY <1>1, <2>2, AuditLimitFacts DEF NodesLeft
<1>2. CASE n \in {"draft_dossier", "audit_dossier"}
  BY <1>2 DEF StepsLeft, NodesLeft, BeforeVerdict
<1>3. CASE n \notin BeforeVerdict
  BY <1>3 DEF StepsLeft, NodesLeft, BeforeVerdict
<1> QED
  BY <1>1, <1>2, <1>3 DEF BeforeVerdict

(* A run has steps left, and no more than the bound.                       *)
LEMMA StepsLeftBounds ==
  ASSUME DisputeInv, NEW w \in Workers, Busy(w)
  PROVE  /\ StepsLeft(node[w], state[w]) \in 1..(2 * AuditLimit + 6)
         /\ node[w] \notin {"save_dispute", "respond"} =>
              StepsLeft(node[w], state[w]) > 2
<1>1. state[w] \in AegisState /\ RunOK(node[w], state[w]) /\ node[w] \in Nodes
  BY AtNode DEF Busy, DisputeInv, TypeOK
<1>2. Len(state[w].audit_history) \in Nat
  BY <1>1 DEF AegisState
<1>3. CASE node[w] \in {"enrich_from_lifecycle", "parse_dispute",
                       "route_decision"}
  BY <1>1, <1>3, StepsLeftAt, AuditLimitFacts DEF RunOK, Untouched
<1>4. CASE node[w] \in {"draft_dossier", "audit_dossier"}
  <2>1. Len(state[w].audit_history) < AuditLimit
    BY <1>1, <1>4 DEF RunOK
  <2> DEFINE rounds == AuditLimit - Len(state[w].audit_history) - 1
  <2>2. StepsLeft(node[w], state[w]) \in {4 + 2 * rounds, 5 + 2 * rounds}
    BY <1>4, StepsLeftAt
  <2>3. rounds \in 0..(AuditLimit - 1)
    BY <1>2, <2>1, AuditLimitFacts
  <2> HIDE DEF rounds
  <2> QED
    BY <2>2, <2>3, AuditLimitFacts
<1>5. CASE node[w] \notin BeforeVerdict
  BY <1>1, <1>5, StepsLeftAt, AuditLimitFacts DEF Nodes, BeforeVerdict
<1> QED
  BY <1>3, <1>4, <1>5 DEF BeforeVerdict

Nearer(w) ==
  /\ 0 <= StepsLeft(node'[w], state'[w])
  /\ StepsLeft(node'[w], state'[w]) < StepsLeft(node[w], state[w])

(* A node that passes the run on brings its end nearer if the next node    *)
(* has less ahead of it.                                                   *)
LEMMA GotoNearer ==
  ASSUME DisputeInv, NEW w \in Workers, NEW n, NEW s, Goto(w, n, s),
         0 <= StepsLeft(n, s),
         StepsLeft(n, s) < StepsLeft(node[w], state[w])
  PROVE  Nearer(w)
<1>1. node'[w] = n /\ state'[w] = s
  BY DEF Goto, DisputeInv, TypeOK
<1> QED
  BY <1>1 DEF Nearer

(* A fault leaves nothing but the upsert and the answer.                   *)
LEMMA FaultNearer ==
  ASSUME DisputeInv, NEW w \in Workers, Busy(w),
         node[w] \notin {"save_dispute", "respond"}, PipelineFault(w)
  PROVE  Nearer(w)
<1>1. Goto(w, "save_dispute", FaultStateOf(state[w].event))
  BY DEF PipelineFault, FaultStateOf
<1>2. StepsLeft("save_dispute", FaultStateOf(state[w].event)) = 2
  BY StepsLeftAt
<1> QED
  BY <1>1, <1>2, StepsLeftBounds, GotoNearer

(* The nodes up to the decision.                                           *)
LEMMA EarlyNearer ==
  ASSUME DisputeInv, NEW w \in Workers,
         \/ EnrichFromLifecycle(w) \/ ParseListed(w) \/ ParseUnlisted(w)
         \/ RouteDecision(w)
  PROVE  Nearer(w)
<1>1. /\ node[w] \in {"enrich_from_lifecycle", "parse_dispute",
                     "route_decision"}
      /\ Busy(w) /\ state[w] \in AegisState /\ RunOK(node[w], state[w])
  BY AtNode
  DEF EnrichFromLifecycle, ParseListed, ParseUnlisted, RouteDecision, Busy
<1>2. state[w].audit_history = <<>>
  BY <1>1 DEF RunOK, Untouched
<1>3. CASE PipelineFault(w)
  BY <1>1, <1>3, FaultNearer
<1>4. CASE EnrichFromLifecycle(w)
  <2>1. PICK seen \in BOOLEAN :
          Goto(w, "parse_dispute", [state[w] EXCEPT !.assessed = seen])
    BY <1>4 DEF EnrichFromLifecycle
  <2>2. [state[w] EXCEPT !.assessed = seen].audit_history = <<>>
    BY <1>1, <1>2 DEF AegisState
  <2>3. node[w] = "enrich_from_lifecycle"
    BY <1>4 DEF EnrichFromLifecycle
  <2> DEFINE s == [state[w] EXCEPT !.assessed = seen]
  <2> HIDE DEF s
  <2>4. StepsLeft("parse_dispute", s) = 2 * AuditLimit + 5
    BY <2>2, StepsLeftAt DEF s
  <2>5. StepsLeft(node[w], state[w]) = 2 * AuditLimit + 6
    BY <1>2, <2>3, StepsLeftAt
  <2> QED
    BY <2>1, <2>4, <2>5, AuditLimitFacts, GotoNearer DEF s
<1>5. ASSUME NEW s, s.audit_history = <<>>, node[w] = "parse_dispute",
             Goto(w, "route_decision", s)
      PROVE  Nearer(w)
  BY <1>2, <1>5, StepsLeftAt, AuditLimitFacts, GotoNearer
<1>6. CASE ParseListed(w)
  <2> DEFINE s == [state[w] EXCEPT !.claim_type = state[w].event.listed]
  <2>1. s.audit_history = <<>>
    BY <1>1, <1>2 DEF AegisState
  <2> QED
    BY <1>5, <1>6, <2>1 DEF ParseListed
<1>7. CASE ParseUnlisted(w)
  <2>1. ASSUME NEW c \in Claims \cup {Unknown}, NEW confident \in BOOLEAN
        PROVE  [state[w] EXCEPT
                  !.claim_type = c,
                  !.needs_human_review = c = Unknown \/ ~confident
               ].audit_history = <<>>
    BY <1>1, <1>2 DEF AegisState
  <2> QED
    BY <1>3, <1>5, <1>7, <2>1 DEF ParseUnlisted
<1>8. CASE RouteDecision(w)
  <2> DEFINE d == DecideRoute(state[w])
             s == [state[w] EXCEPT !.decision = d]
             n == RouteAfterDecision(d)
  <2>1. s.audit_history = <<>>
    BY <1>1, <1>2 DEF AegisState
  <2>2. n \in {"draft_dossier", "auto_settlement_notice", "finalize_escalated"}
    BY DEF RouteAfterDecision
  <2>3. Goto(w, n, s) /\ node[w] = "route_decision"
    BY <1>8 DEF RouteDecision
  <2> HIDE DEF d, s, n
  <2>4. Len(s.audit_history) = 0
    BY <2>1
  <2>5. 0 <= StepsLeft(n, s) /\ StepsLeft(n, s) < 2 * AuditLimit + 4
    BY <2>2, <2>4, StepsLeftAt, AuditLimitFacts
  <2>6. StepsLeft(node[w], state[w]) = 2 * AuditLimit + 4
    BY <1>2, <2>3, StepsLeftAt
  <2> QED
    BY <2>3, <2>5, <2>6, GotoNearer
<1> QED
  BY <1>4, <1>6, <1>7, <1>8

(* The loop: a draft leaves its audit, and a failed audit below the limit  *)
(* leaves one round less.                                                  *)
LEMMA LoopNearer ==
  ASSUME DisputeInv, NEW w \in Workers, DraftDossier(w) \/ AuditDossier(w)
  PROVE  Nearer(w)
<1>1. /\ node[w] \in {"draft_dossier", "audit_dossier"}
      /\ Busy(w) /\ state[w] \in AegisState /\ RunOK(node[w], state[w])
  BY AtNode DEF DraftDossier, AuditDossier, Busy
<1> DEFINE old == state[w].audit_history
<1>2. old \in Seq(Verdicts) /\ Len(old) \in Nat /\ Len(old) < AuditLimit
  BY <1>1 DEF RunOK, AegisState
<1>3. CASE PipelineFault(w)
  BY <1>1, <1>3, FaultNearer
<1>4. CASE DraftDossier(w) /\ ~PipelineFault(w)
  <2>1. PICK d \in {"drafted", "safe"} :
          Goto(w, "audit_dossier", [state[w] EXCEPT !.dossier = d])
    BY <1>4 DEF DraftDossier
  <2> DEFINE s == [state[w] EXCEPT !.dossier = d]
  <2>2. s.audit_history = old /\ node[w] = "draft_dossier"
    BY <1>1, <1>4 DEF AegisState, DraftDossier
  <2>3. Goto(w, "audit_dossier", s)
    BY <2>1
  <2> HIDE DEF old, s
  <2>4. StepsLeft("audit_dossier", s) = 4 + 2 * (AuditLimit - Len(old) - 1)
    BY <2>2, StepsLeftAt
  <2>5. StepsLeft(node[w], state[w]) = 5 + 2 * (AuditLimit - Len(old) - 1)
    BY <2>2, StepsLeftAt DEF old
  <2> QED
    BY <1>2, <2>3, <2>4, <2>5, AuditLimitFacts, GotoNearer
<1>5. CASE AuditDossier(w) /\ ~PipelineFault(w)
  <2>1. PICK v \in Verdicts :
          LET audits == Append(old, v)
          IN Goto(w, RouteAfterAudit(audits),
                  [state[w] EXCEPT !.audit_history = audits])
    BY <1>5 DEF AuditDossier
  <2> DEFINE audits == Append(old, v)
             s == [state[w] EXCEPT !.audit_history = audits]
             n == RouteAfterAudit(audits)
  <2>2. Len(audits) = Len(old) + 1
    BY <1>2, AppendVerdict
  <2>3. Goto(w, n, s)
    BY <2>1
  <2>4. s.audit_history = audits /\ node[w] = "audit_dossier"
    BY <1>1, <1>5 DEF AegisState, AuditDossier
  <2>5. \/ n \in {"finalize_fought", "finalize_escalated"}
        \/ n = "draft_dossier" /\ Len(audits) < MaxIterations
    BY DEF RouteAfterAudit
  <2> HIDE DEF old, audits, s, n
  <2>6. StepsLeft(node[w], state[w]) = 4 + 2 * (AuditLimit - Len(old) - 1)
    BY <2>4, StepsLeftAt DEF old
  <2>7. CASE n \in {"finalize_fought", "finalize_escalated"}
    BY <1>2, <2>3, <2>6, <2>7, StepsLeftAt, AuditLimitFacts, GotoNearer
  <2>8. CASE n = "draft_dossier" /\ Len(audits) < MaxIterations
    <3>1. StepsLeft(n, s) = 5 + 2 * (AuditLimit - Len(old) - 2)
      BY <1>2, <2>2, <2>4, <2>8, StepsLeftAt, AuditLimitFacts
    <3>2. Len(old) + 1 < AuditLimit
      BY <1>2, <2>2, <2>8, AuditLimitFacts, DisputeAssumption
    <3> QED
      BY <1>2, <2>3, <2>6, <3>1, <3>2, AuditLimitFacts, GotoNearer
  <2> QED
    BY <2>5, <2>7, <2>8
<1> QED
  BY <1>3, <1>4, <1>5

(* What comes after the decision: the notice, the final status, the upsert *)
(* and the answer.                                                         *)
LEMMA LateNearer ==
  ASSUME DisputeInv, NEW w \in Workers,
         \/ AutoSettlementNotice(w) \/ FinalizeFought(w) \/ FinalizeSettled(w)
         \/ FinalizeEscalated(w) \/ SaveDispute(w) \/ SaveRaises(w)
         \/ Respond(w)
  PROVE  Nearer(w)
<1> USE DEF DisputeInv, TypeOK
<1>1. CASE AutoSettlementNotice(w)
  <2>1. node[w] = "auto_settlement_notice" /\ Busy(w)
    BY <1>1 DEF AutoSettlementNotice, Busy
  <2>2. CASE PipelineFault(w)
    BY <2>1, <2>2, FaultNearer
  <2>3. CASE Goto(w, "finalize_settled", [state[w] EXCEPT !.notice = TRUE])
    BY <2>1, <2>3, StepsLeftAt, GotoNearer
  <2> QED
    BY <1>1, <2>2, <2>3 DEF AutoSettlementNotice
<1>2. CASE FinalizeFought(w) \/ FinalizeSettled(w) \/ FinalizeEscalated(w)
  <2>1. node[w] \in {"finalize_fought", "finalize_settled",
                    "finalize_escalated"}
    BY <1>2 DEF FinalizeFought, FinalizeSettled, FinalizeEscalated
  <2>2. PICK status : Finalize(w, status)
    BY <1>2 DEF FinalizeFought, FinalizeSettled, FinalizeEscalated
  <2> QED
    BY <2>1, <2>2, StepsLeftAt, GotoNearer DEF Finalize
<1>3. CASE SaveDispute(w)
  <2>1. node[w] = "save_dispute" /\ node'[w] = "respond"
    BY <1>3 DEF SaveDispute, Saved
  <2> QED
    BY <2>1, StepsLeftAt DEF Nearer
<1>4. CASE SaveRaises(w) \/ Respond(w)
  <2>1. node[w] \in {"save_dispute", "respond"} /\ node'[w] = "idle"
    BY <1>4 DEF SaveRaises, Respond, Answered
  <2> QED
    BY <2>1, StepsLeftAt DEF Nearer
<1> QED
  BY <1>1, <1>2, <1>3, <1>4

LEMMA HandlerNearer ==
  ASSUME DisputeInv, NEW w \in Workers, HandlerStep(w)
  PROVE  Nearer(w)
<1> QED
  BY EarlyNearer, LoopNearer, LateNearer DEF HandlerStep

(* A step of another thread leaves a run alone.                            *)
LEMMA OthersKeepRun ==
  ASSUME DisputeInv, NEW w \in Workers, NEW v \in Workers, v # w,
         HandlerStep(v) \/ \E e \in Events : Deliver(v, e)
  PROVE  node'[w] = node[w] /\ state'[w] = state[w]
<1>1. \A n, s : Goto(v, n, s) => node'[w] = node[w] /\ state'[w] = state[w]
  BY DEF Goto, DisputeInv, TypeOK
<1>2. CASE \/ EnrichFromLifecycle(v) \/ ParseListed(v) \/ ParseUnlisted(v)
           \/ RouteDecision(v) \/ DraftDossier(v) \/ AuditDossier(v)
           \/ AutoSettlementNotice(v) \/ FinalizeFought(v)
           \/ FinalizeSettled(v) \/ FinalizeEscalated(v)
  BY <1>1, <1>2
  DEF EnrichFromLifecycle, ParseListed, ParseUnlisted, RouteDecision,
      DraftDossier, AuditDossier, AutoSettlementNotice, FinalizeFought,
      FinalizeSettled, FinalizeEscalated, Finalize, PipelineFault
<1>3. CASE SaveDispute(v)
  BY <1>3 DEF SaveDispute, Saved, DisputeInv, TypeOK
<1>4. CASE SaveRaises(v) \/ Respond(v)
  BY <1>4 DEF SaveRaises, Respond, Answered, DisputeInv, TypeOK
<1>5. CASE \E e \in Events : Deliver(v, e)
  BY <1>5 DEF Deliver, DisputeInv, TypeOK
<1> QED
  BY <1>2, <1>3, <1>4, <1>5 DEF HandlerStep

(* Every step of the system either leaves a run alone or shortens it.      *)
LEMMA CountingStep ==
  ASSUME DisputeInv, [Next]_vars, NEW w \in Workers, Busy(w)
  PROVE  \/ /\ ~HandlerStep(w)
            /\ node'[w] = node[w] /\ state'[w] = state[w]
         \/ Nearer(w)
<1>1. CASE HandlerStep(w)
  BY <1>1, HandlerNearer
<1>2. CASE Crash
  <2>1. node'[w] = "idle"
    BY <1>2 DEF Crash
  <2> QED
    BY <2>1, StepsLeftAt, StepsLeftBounds, AuditLimitFacts DEF Nearer
<1>3. ASSUME ~HandlerStep(w), ~Crash
      PROVE  node'[w] = node[w] /\ state'[w] = state[w]
  <2>1. \A e \in Events : ~Deliver(w, e)
    BY DEF Busy, Deliver
  <2> QED
    BY <1>3, <2>1, OthersKeepRun DEF Next, AssessSession, vars
<1> QED
  BY <1>1, <1>2, <1>3

(* For every limit, thread count and body: a run takes at most             *)
(* 2 * AuditLimit + 6 steps.  This is what EveryRunEnds needs beside a     *)
(* scheduler that lets the threads run.                                    *)
THEOREM RunsAreBounded == Spec => EveryStepCounts
<1>1. DisputeInv /\ [Next]_vars =>
        [\A w \in Workers : Busy(w) =>
           \/ /\ ~HandlerStep(w)
              /\ node'[w] = node[w] /\ state'[w] = state[w]
           \/ /\ 0 <= StepsLeft(node'[w], state'[w])
              /\ StepsLeft(node'[w], state'[w]) < StepsLeft(node[w], state[w])
              /\ StepsLeft(node[w], state[w]) <= 2 * AuditLimit + 6]_vars
  BY CountingStep, StepsLeftBounds DEF Nearer
<1> QED
  BY <1>1, WorkflowInvariant, PTL DEF Spec, EveryStepCounts

-----------------------------------------------------------------------------
(* The server error and its only cause.                                    *)

(* A node hands the event on, and the assessments it has seen.             *)
LEMMA GotoSeen ==
  ASSUME DisputeInv, SeenIsStored, NEW w \in Workers, Busy(w), NEW n, NEW s,
         Goto(w, n, s), s.event = state[w].event,
         s.assessed => state[w].assessed \/ s.event.txn \in assessed
  PROVE  SeenIsStored'
<1> QED
  BY DEF Goto, outside, SeenIsStored, Busy, DisputeInv, TypeOK

LEMMA NodeSeen ==
  ASSUME DisputeInv, SeenIsStored, NEW w \in Workers,
         \/ EnrichFromLifecycle(w) \/ ParseListed(w) \/ ParseUnlisted(w)
         \/ RouteDecision(w) \/ DraftDossier(w) \/ AuditDossier(w)
         \/ AutoSettlementNotice(w) \/ FinalizeFought(w)
         \/ FinalizeSettled(w) \/ FinalizeEscalated(w)
  PROVE  SeenIsStored'
<1>1. Busy(w)
  BY DEF EnrichFromLifecycle, ParseListed, ParseUnlisted, RouteDecision,
         DraftDossier, AuditDossier, AutoSettlementNotice, FinalizeFought,
         FinalizeSettled, FinalizeEscalated, Busy
<1>2. state[w] \in AegisState
  BY <1>1, AtNode DEF Busy
<1>3. ASSUME NEW n, NEW s, Goto(w, n, s), s.event = state[w].event,
             s.assessed => state[w].assessed
      PROVE  SeenIsStored'
  BY <1>1, <1>3, GotoSeen
<1>4. CASE PipelineFault(w)
  <2>1. /\ FaultStateOf(state[w].event).event = state[w].event
        /\ FaultStateOf(state[w].event).assessed = FALSE
    BY DEF FaultStateOf, build_initial_state
  <2>2. Goto(w, "save_dispute", FaultStateOf(state[w].event))
    BY <1>4 DEF PipelineFault, FaultStateOf
  <2> QED
    BY <1>3, <2>1, <2>2
<1>5. CASE EnrichFromLifecycle(w)
  <2>1. PICK seen \in BOOLEAN :
          /\ seen => state[w].event.txn \in assessed
          /\ Goto(w, "parse_dispute", [state[w] EXCEPT !.assessed = seen])
    BY <1>5 DEF EnrichFromLifecycle
  <2> DEFINE s == [state[w] EXCEPT !.assessed = seen]
  <2>2. s.event = state[w].event /\ s.assessed = seen
    BY <1>2 DEF AegisState
  <2>3. Goto(w, "parse_dispute", s)
    BY <2>1
  <2> HIDE DEF s
  <2> QED
    BY <1>1, <2>1, <2>2, <2>3, GotoSeen
<1>6. CASE ParseListed(w)
  BY <1>2, <1>3, <1>6 DEF ParseListed, AegisState
<1>7. CASE ParseUnlisted(w)
  BY <1>2, <1>3, <1>4, <1>7 DEF ParseUnlisted, AegisState
<1>8. CASE RouteDecision(w)
  BY <1>2, <1>3, <1>8 DEF RouteDecision, AegisState
<1>9. CASE DraftDossier(w)
  BY <1>2, <1>3, <1>4, <1>9 DEF DraftDossier, AegisState
<1>10. CASE AuditDossier(w)
  <2>1. ASSUME NEW audits,
               Goto(w, RouteAfterAudit(audits),
                    [state[w] EXCEPT !.audit_history = audits])
        PROVE  SeenIsStored'
    BY <1>2, <1>3, <2>1 DEF AegisState
  <2> QED
    BY <1>4, <1>10, <2>1 DEF AuditDossier
<1>11. CASE AutoSettlementNotice(w)
  BY <1>2, <1>3, <1>4, <1>11 DEF AutoSettlementNotice, AegisState
<1>12. CASE FinalizeFought(w) \/ FinalizeSettled(w) \/ FinalizeEscalated(w)
  <2>1. PICK status : Goto(w, "save_dispute",
                           [state[w] EXCEPT !.final_status = status])
    BY <1>12 DEF FinalizeFought, FinalizeSettled, FinalizeEscalated, Finalize
  <2> QED
    BY <1>2, <1>3, <2>1 DEF AegisState
<1> QED
  BY <1>5, <1>6, <1>7, <1>8, <1>9, <1>10, <1>11, <1>12

LEMMA SeenStep ==
  ASSUME DisputeInv, SeenIsStored, [Next]_vars
  PROVE  SeenIsStored'
<1> USE DEF SeenIsStored, Busy, DisputeInv, TypeOK
<1>1. ASSUME NEW w \in Workers, SaveDispute(w)
      PROVE  SeenIsStored'
  <2>1. PICK persisted : /\ state' = [state EXCEPT ![w].persisted = persisted]
                         /\ node' = [node EXCEPT ![w] = "respond"]
                         /\ node[w] = "save_dispute"
                         /\ assessed' = assessed
    BY <1>1 DEF SaveDispute, Saved
  <2>2. state[w] \in AegisState
    BY <2>1
  <2>3. state'[w].event = state[w].event
        /\ state'[w].assessed = state[w].assessed
    BY <2>1, <2>2 DEF AegisState
  <2> QED
    BY <2>1, <2>3
<1>2. ASSUME NEW w \in Workers, SaveRaises(w) \/ Respond(w)
      PROVE  SeenIsStored'
  BY <1>2 DEF SaveRaises, Respond, Answered
<1>3. ASSUME NEW w \in Workers, NEW e \in Events, Deliver(w, e)
      PROVE  SeenIsStored'
  <2>1. build_initial_state(e).assessed = FALSE
    BY DEF build_initial_state
  <2> QED
    BY <1>3, <2>1 DEF Deliver
<1>4. CASE (\E t \in Txns : AssessSession(t)) \/ Crash \/ UNCHANGED vars
  BY <1>4 DEF AssessSession, Crash, outside, vars
<1> QED
  BY <1>1, <1>2, <1>3, <1>4, NodeSeen DEF Next, HandlerStep

LEMMA ErrorStep ==
  ASSUME DisputeInv, SeenIsStored, ErrorsNeedAssessments, [Next]_vars
  PROVE  ErrorsNeedAssessments'
<1>1. assessed \subseteq assessed'
  BY DEF Next, HandlerStep, EnrichFromLifecycle, ParseListed, ParseUnlisted,
         RouteDecision, DraftDossier, AuditDossier, AutoSettlementNotice,
         FinalizeFought, FinalizeSettled, FinalizeEscalated, Finalize,
         PipelineFault, Goto, SaveDispute, Saved, SaveRaises, Respond,
         Answered, Deliver, AssessSession, Crash, outside, vars
<1>2. \/ answers' = answers
      \/ \E w \in Workers : SaveRaises(w) \/ Respond(w)
  BY DEF Next, HandlerStep, EnrichFromLifecycle, ParseListed, ParseUnlisted,
         RouteDecision, DraftDossier, AuditDossier, AutoSettlementNotice,
         FinalizeFought, FinalizeSettled, FinalizeEscalated, Finalize,
         PipelineFault, Goto, SaveDispute, Saved, Deliver, AssessSession,
         Crash, outside, vars
<1>3. ASSUME NEW w \in Workers, SaveRaises(w)
      PROVE  ErrorsNeedAssessments'
  <2>1. state[w].event.txn \in assessed
    BY <1>3 DEF SaveRaises, SeenIsStored, Busy
  <2> QED
    BY <1>1, <1>3, <2>1 DEF SaveRaises, Answered, ErrorsNeedAssessments
<1>4. ASSUME NEW w \in Workers, Respond(w)
      PROVE  ErrorsNeedAssessments'
  <2>1. state[w].final_status # HTTP_500
    <3>1. VerdictBorneOut(state[w])
      BY <1>4, AtNode DEF Respond, RunOK
    <3> QED
      BY <3>1
      DEF VerdictBorneOut, HTTP_500, FINAL_FOUGHT, FINAL_SETTLED,
          FINAL_ESCALATED_ITERATIONS, FINAL_ESCALATED_HUMAN
  <2> QED
    BY <1>1, <1>4, <2>1 DEF Respond, Answered, ErrorsNeedAssessments
<1> QED
  BY <1>1, <1>2, <1>3, <1>4 DEF ErrorsNeedAssessments

(* The counterexample to "HTTP 500s are now impossible" is the only one:   *)
(* whatever the model, the database and the process do, a server error is  *)
(* about a transaction that the firewall has assessed.                     *)
THEOREM OnlyAssessedFail == Spec => []ErrorsNeedAssessments
<1>1. Init => SeenIsStored /\ ErrorsNeedAssessments
  BY DEF Init, SeenIsStored, ErrorsNeedAssessments, Busy
<1>2. /\ DisputeInv /\ SeenIsStored /\ ErrorsNeedAssessments
      /\ [Next]_vars
      => (SeenIsStored /\ ErrorsNeedAssessments)'
  BY SeenStep, ErrorStep
<1> QED
  BY <1>1, <1>2, WorkflowInvariant, PTL DEF Spec

-----------------------------------------------------------------------------
(* Refinement: the threads implement the desk of DisputeDesk.              *)

LettersOf(set) ==
  {[request |-> a.event, verdict |-> a.final_status, filed |-> a.persisted] :
     a \in {b \in set : b.final_status # HTTP_500}}

(* A step that leaves every thread where the desk has it is a stutter.     *)
LEMMA DeskStutter ==
  ASSUME \A v \in Workers : DeskOf(v)' = DeskOf(v),
         UNCHANGED <<disputes, answers>>
  PROVE  UNCHANGED Desk!deskVars
<1> QED
  BY DEF Desk!deskVars, DocketOf

(* The nodes of the graph up to save_dispute are the clerk's own work.     *)
LEMMA GotoIsStutter ==
  ASSUME DisputeInv, NEW w \in Workers, node[w] \notin {"idle", "respond"},
         NEW n \in Nodes, n # "respond", NEW s, s.event = state[w].event,
         Goto(w, n, s)
  PROVE  UNCHANGED Desk!deskVars
<1>1. \A v \in Workers : DeskOf(v)' = DeskOf(v)
  BY DEF Goto, DeskOf, DisputeInv, TypeOK, Nodes
<1> QED
  BY <1>1, DeskStutter DEF Goto, outside

LEMMA FaultIsStutter ==
  ASSUME DisputeInv, NEW w \in Workers, node[w] \notin {"idle", "respond"},
         PipelineFault(w)
  PROVE  UNCHANGED Desk!deskVars
<1>1. FaultStateOf(state[w].event).event = state[w].event
  BY AtNode, FaultState
<1>2. Goto(w, "save_dispute", FaultStateOf(state[w].event))
  BY DEF PipelineFault, FaultStateOf
<1> QED
  BY <1>1, <1>2, GotoIsStutter DEF Nodes

LEMMA NodeIsStutter ==
  ASSUME DisputeInv, NEW w \in Workers,
         \/ EnrichFromLifecycle(w) \/ ParseListed(w) \/ ParseUnlisted(w)
         \/ RouteDecision(w) \/ DraftDossier(w) \/ AuditDossier(w)
         \/ AutoSettlementNotice(w) \/ FinalizeFought(w)
         \/ FinalizeSettled(w) \/ FinalizeEscalated(w)
  PROVE  UNCHANGED Desk!deskVars
<1>1. node[w] \notin {"idle", "respond"}
  BY DEF EnrichFromLifecycle, ParseListed, ParseUnlisted, RouteDecision,
         DraftDossier, AuditDossier, AutoSettlementNotice, FinalizeFought,
         FinalizeSettled, FinalizeEscalated
<1>2. state[w] \in AegisState
  BY <1>1, AtNode
<1>3. CASE PipelineFault(w)
  BY <1>1, <1>3, FaultIsStutter
<1>4. ASSUME NEW n \in Nodes, n # "respond", NEW s,
             s.event = state[w].event, Goto(w, n, s)
      PROVE  UNCHANGED Desk!deskVars
  BY <1>1, <1>4, GotoIsStutter
<1>5. CASE EnrichFromLifecycle(w)
  BY <1>2, <1>4, <1>5 DEF EnrichFromLifecycle, AegisState, Nodes
<1>6. CASE ParseListed(w)
  BY <1>2, <1>4, <1>6 DEF ParseListed, AegisState, Nodes
<1>7. CASE ParseUnlisted(w)
  BY <1>2, <1>3, <1>4, <1>7 DEF ParseUnlisted, AegisState, Nodes
<1>8. CASE RouteDecision(w)
  BY <1>2, <1>4, <1>8 DEF RouteDecision, RouteAfterDecision, AegisState, Nodes
<1>9. CASE DraftDossier(w)
  BY <1>2, <1>3, <1>4, <1>9 DEF DraftDossier, AegisState, Nodes
<1>10. CASE AuditDossier(w)
  BY <1>2, <1>3, <1>4, <1>10
  DEF AuditDossier, RouteAfterAudit, AegisState, Nodes
<1>11. CASE AutoSettlementNotice(w)
  BY <1>2, <1>3, <1>4, <1>11 DEF AutoSettlementNotice, AegisState, Nodes
<1>12. CASE FinalizeFought(w) \/ FinalizeSettled(w) \/ FinalizeEscalated(w)
  BY <1>2, <1>4, <1>12
  DEF FinalizeFought, FinalizeSettled, FinalizeEscalated, Finalize,
      AegisState, Nodes
<1> QED
  BY <1>5, <1>6, <1>7, <1>8, <1>9, <1>10, <1>11, <1>12

(* What lies on a desk is not the empty desk.                              *)
LEMMA DeskRecord ==
  \A e \in Events, v \in FinalStatus \cup {NoState}, filed \in BOOLEAN :
    [request |-> e, verdict |-> v, filed |-> filed] # NoState
<1> SUFFICES ASSUME NEW e \in Events, NEW v \in FinalStatus \cup {NoState},
                    NEW filed \in BOOLEAN
             PROVE  [request |-> e, verdict |-> v, filed |-> filed] # NoState
  OBVIOUS
<1>1. [request |-> e, verdict |-> v, filed |-> filed]
        \in [request : Events, verdict : FinalStatus \cup {NoState},
             filed : BOOLEAN]
  OBVIOUS
<1>2. NoState \notin [request : Events, verdict : FinalStatus \cup {NoState},
                      filed : BOOLEAN]
  BY DisputeAssumption
<1> QED
  BY <1>1, <1>2

(* A thread that takes up a request opens it.                              *)
LEMMA DeliverOpens ==
  ASSUME DisputeInv, NEW w \in Workers, NEW e \in Events, Deliver(w, e)
  PROVE  Desk!Open(w, e)
<1> DEFINE opened == [request |-> e, verdict |-> NoState, filed |-> FALSE]
<1>1. /\ node[w] = "idle"
      /\ node' = [node EXCEPT ![w] = "enrich_from_lifecycle"]
      /\ state'[w].event = e
      /\ \A v \in Workers \ {w} : state'[v] = state[v]
      /\ UNCHANGED <<disputes, answers>>
  BY InitialState DEF Deliver, DisputeInv, TypeOK
<1>2. DeskOf(w) = NoState /\ DeskOf(w)' = opened
  BY <1>1 DEF DeskOf, DisputeInv, TypeOK
<1>3. \A v \in Workers \ {w} : DeskOf(v)' = DeskOf(v)
  BY <1>1 DEF DeskOf, DisputeInv, TypeOK
<1> HIDE DEF opened
<1>4. [v \in Workers |-> DeskOf(v)'] =
        [[v \in Workers |-> DeskOf(v)] EXCEPT ![w] = opened]
  BY <1>2, <1>3
<1> QED
  BY <1>1, <1>2, <1>4 DEF Desk!Open, DocketOf, opened

(* The save decides: the row and the verdict are entered together.         *)
LEMMA SavedDecides ==
  ASSUME DisputeInv, NEW w \in Workers, node[w] = "save_dispute",
         NEW stored \in BOOLEAN, NEW persisted \in BOOLEAN,
         persisted => stored, Saved(w, stored, persisted)
  PROVE  Desk!Decide(w, state[w].final_status, persisted, stored)
<1>1. /\ state[w] \in AegisState /\ state[w].event \in Events
      /\ VerdictBorneOut(state[w]) /\ DecisionBorneOut(state[w])
      /\ state[w].final_status \in FinalStatus
  <2>1. state[w] \in AegisState /\ state[w].event \in Events
        /\ VerdictBorneOut(state[w]) /\ DecisionBorneOut(state[w])
    BY AtNode DEF RunOK
  <2> QED
    BY <2>1 DEF VerdictBorneOut, FinalStatus
<1> SUFFICES ASSUME NEW e \in Events, NEW v \in FinalStatus,
                    state[w].event = e, state[w].final_status = v
             PROVE  Desk!Decide(w, v, persisted, stored)
  BY <1>1
<1> DEFINE decided == [request |-> e, verdict |-> v, filed |-> persisted]
<1>2. v \in Admitted[e] /\ e.id \in Disputes
  BY <1>1, ResultAdmitted, DisputeAssumption DEF DisputeEvent
<1>3. /\ node' = [node EXCEPT ![w] = "respond"]
      /\ state'[w].event = e /\ state'[w].final_status = v
      /\ state'[w].persisted = persisted
      /\ \A u \in Workers \ {w} : state'[u] = state[u]
      /\ disputes' = IF stored
                     THEN [disputes EXCEPT ![e.id] = RowOf(state[w])]
                     ELSE disputes
      /\ UNCHANGED answers
  BY <1>1 DEF Saved, Upsert, DisputeInv, TypeOK, AegisState
<1>4. /\ RowOf(state[w]) # NoRow
      /\ RowOf(state[w]).event = e /\ RowOf(state[w]).final_status = v
  BY <1>1, RowOfResult
<1>5. DeskOf(w) = [request |-> e, verdict |-> NoState, filed |-> FALSE]
  BY DEF DeskOf
<1>6. DeskOf(w)' = decided
  BY <1>3 DEF DeskOf, DisputeInv, TypeOK
<1>7. \A u \in Workers \ {w} : DeskOf(u)' = DeskOf(u)
  BY <1>3 DEF DeskOf, DisputeInv, TypeOK
<1>8. DocketOf(e.id)' = IF stored THEN [request |-> e, verdict |-> v]
                        ELSE DocketOf(e.id)
  BY <1>2, <1>3, <1>4 DEF DocketOf, DisputeInv, TypeOK
<1>9. \A d \in Disputes \ {e.id} : DocketOf(d)' = DocketOf(d)
  BY <1>2, <1>3 DEF DocketOf, DisputeInv, TypeOK
<1>10. DeskOf(w) # NoState
  BY <1>5, DeskRecord
<1> DEFINE desk == [u \in Workers |-> DeskOf(u)]
<1> DEFINE docket == [d \in Disputes |-> DocketOf(d)]
<1>11. [u \in Workers |-> DeskOf(u)'] = [desk EXCEPT ![w] = decided]
  <2> HIDE DEF decided
  <2> QED
    BY <1>6, <1>7
<1>12. [d \in Disputes |-> DocketOf(d)'] =
         IF stored
         THEN [docket EXCEPT ![e.id] = [request |-> e, verdict |-> v]]
         ELSE docket
  <2> DEFINE entry == [request |-> e, verdict |-> v]
  <2>1. CASE stored
    <3>1. DocketOf(e.id)' = entry
      BY <1>8, <2>1
    <3> HIDE DEF entry
    <3>2. [d \in Disputes |-> DocketOf(d)'] = [docket EXCEPT ![e.id] = entry]
      BY <1>9, <3>1
    <3> QED
      BY <2>1, <3>2 DEF entry
  <2>2. CASE ~stored
    BY <1>8, <1>9, <2>2
  <2> QED
    BY <2>1, <2>2
<1>13. desk[w].request = e /\ desk[w].verdict = NoState /\ desk[w] # NoState
  BY <1>5, <1>10
<1>14. [f \in Events |-> f.id][e] = e.id
  BY <1>1
<1> HIDE DEF desk, docket
<1> QED
  BY <1>2, <1>3, <1>11, <1>12, <1>13, <1>14
  DEF Desk!Decide, desk, docket, decided

(* An answer empties the desk.                                             *)
LEMMA AnsweredEmpties ==
  ASSUME DisputeInv, NEW w \in Workers, NEW status, Answered(w, status)
  PROVE  /\ [v \in Workers |-> DeskOf(v)'] =
              [[v \in Workers |-> DeskOf(v)] EXCEPT ![w] = NoState]
         /\ UNCHANGED disputes
         /\ answers' = answers \cup
              {[event |-> state[w].event, final_status |-> status,
                persisted |-> state[w].persisted]}
<1>1. /\ node' = [node EXCEPT ![w] = "idle"]
      /\ \A v \in Workers \ {w} : state'[v] = state[v]
  BY DEF Answered, DisputeInv, TypeOK
<1>2. DeskOf(w)' = NoState
  BY <1>1 DEF DeskOf, DisputeInv, TypeOK
<1>3. \A v \in Workers \ {w} : DeskOf(v)' = DeskOf(v)
  BY <1>1 DEF DeskOf, DisputeInv, TypeOK
<1> QED
  BY <1>2, <1>3 DEF Answered

(* The letters after one more answer.                                      *)
LEMMA OneMoreLetter ==
  ASSUME NEW old, NEW answer, NEW letter, answer.final_status # HTTP_500,
         letter = [request |-> answer.event, verdict |-> answer.final_status,
                   filed |-> answer.persisted]
  PROVE  LettersOf(old \cup {answer}) = LettersOf(old) \cup {letter}
<1>1. {b \in old \cup {answer} : b.final_status # HTTP_500}
        = {b \in old : b.final_status # HTTP_500} \cup {answer}
  OBVIOUS
<1> QED
  BY <1>1 DEF LettersOf

(* An HTTP 500 is no letter.                                               *)
LEMMA NoMoreLetter ==
  ASSUME NEW old, NEW e, NEW filed
  PROVE  LettersOf(old \cup {[event |-> e, final_status |-> HTTP_500,
                              persisted |-> filed]}) = LettersOf(old)
<1> DEFINE answer == [event |-> e, final_status |-> HTTP_500,
                      persisted |-> filed]
<1>1. answer.final_status = HTTP_500
  OBVIOUS
<1> HIDE DEF answer
<1>2. {b \in old \cup {answer} : b.final_status # HTTP_500}
        = {b \in old : b.final_status # HTTP_500}
  BY <1>1
<1>3. LettersOf(old \cup {answer}) = LettersOf(old)
  BY <1>2 DEF LettersOf
<1> QED
  BY <1>3 DEF answer

LEMMA RespondAnswers ==
  ASSUME DisputeInv, NEW w \in Workers, Respond(w)
  PROVE  Desk!Answer(w)
<1>1. node[w] = "respond" /\ Answered(w, state[w].final_status)
  BY DEF Respond
<1>2. /\ state[w] \in AegisState /\ state[w].event \in Events
      /\ state[w].final_status \in FinalStatus
  BY <1>1, AtNode DEF RunOK, VerdictBorneOut, FinalStatus
<1> SUFFICES ASSUME NEW e \in Events, NEW v \in FinalStatus,
                    NEW filed \in BOOLEAN, state[w].event = e,
                    state[w].final_status = v, state[w].persisted = filed
             PROVE  Desk!Answer(w)
  BY <1>2 DEF AegisState
<1> DEFINE letter == [request |-> e, verdict |-> v, filed |-> filed]
<1>3. DeskOf(w) = letter
  BY <1>1 DEF DeskOf
<1>4. letter # NoState /\ v # NoState /\ v # HTTP_500
  BY DeskRecord, DisputeAssumption
  DEF HTTP_500, FinalStatus, FINAL_FOUGHT, FINAL_SETTLED,
      FINAL_ESCALATED_ITERATIONS, FINAL_ESCALATED_HUMAN
<1> DEFINE answer == [event |-> e, final_status |-> v, persisted |-> filed]
<1>5. answers' = answers \cup {answer}
  BY <1>1, AnsweredEmpties
<1>6. LettersOf(answers') = LettersOf(answers) \cup {letter}
  <2>1. v # HTTP_500
    BY <1>4
  <2>2. ASSUME NEW old
        PROVE  LettersOf(old \cup {answer}) = LettersOf(old) \cup {letter}
    <3>1. answer.event = e /\ answer.final_status = v
          /\ answer.persisted = filed
      OBVIOUS
    <3>2. letter = [request |-> answer.event, verdict |-> answer.final_status,
                    filed |-> answer.persisted]
      BY <3>1
    <3> HIDE DEF answer, letter
    <3> QED
      BY <2>1, <3>1, <3>2, OneMoreLetter
  <2> HIDE DEF answer, letter
  <2> QED
    BY <1>5, <2>2
<1>7. [d \in Disputes |-> DocketOf(d)'] = [d \in Disputes |-> DocketOf(d)]
  BY <1>1, AnsweredEmpties DEF DocketOf
<1>8. [u \in Workers |-> DeskOf(u)][w] = letter /\ letter.verdict = v
  BY <1>3
<1> HIDE DEF letter, answer
<1> QED
  BY <1>1, <1>4, <1>6, <1>7, <1>8, AnsweredEmpties DEF Desk!Answer, LettersOf

(* The HTTP 500 refuses the request.                                       *)
LEMMA SaveRaisesRefuses ==
  ASSUME DisputeInv, NEW w \in Workers, SaveRaises(w)
  PROVE  Desk!Refuse(w)
<1>1. node[w] = "save_dispute" /\ Answered(w, HTTP_500)
  BY DEF SaveRaises
<1>2. state[w].event \in Events
  BY <1>1, AtNode
<1>3. DeskOf(w) = [request |-> state[w].event, verdict |-> NoState,
                   filed |-> FALSE]
  BY <1>1 DEF DeskOf
<1>4. DeskOf(w) # NoState /\ DeskOf(w).verdict = NoState
  <2> SUFFICES ASSUME NEW e \in Events, state[w].event = e
               PROVE  DeskOf(w) # NoState /\ DeskOf(w).verdict = NoState
    BY <1>2
  <2>1. [request |-> e, verdict |-> NoState, filed |-> FALSE] # NoState
    BY DeskRecord
  <2> QED
    BY <1>3, <2>1
<1>5. LettersOf(answers') = LettersOf(answers)
  <2> DEFINE answer == [event |-> state[w].event, final_status |-> HTTP_500,
                        persisted |-> state[w].persisted]
  <2>1. answers' = answers \cup {answer}
    BY <1>1, AnsweredEmpties
  <2>2. LettersOf(answers \cup {answer}) = LettersOf(answers)
    BY NoMoreLetter
  <2> HIDE DEF answer
  <2> QED
    BY <2>1, <2>2
<1>6. [d \in Disputes |-> DocketOf(d)'] = [d \in Disputes |-> DocketOf(d)]
  BY <1>1, AnsweredEmpties DEF DocketOf
<1> QED
  BY <1>1, <1>4, <1>5, <1>6, AnsweredEmpties DEF Desk!Refuse, LettersOf

LEMMA SaveDisputeDecides ==
  ASSUME DisputeInv, NEW w \in Workers, SaveDispute(w)
  PROVE  \E v \in UNION {Admitted[r] : r \in Events},
            filed, entered \in BOOLEAN : Desk!Decide(w, v, filed, entered)
<1>1. node[w] = "save_dispute"
  BY DEF SaveDispute
<1>2. PICK stored \in BOOLEAN, persisted \in BOOLEAN :
        (persisted => stored) /\ Saved(w, stored, persisted)
  BY DEF SaveDispute
<1>3. Desk!Decide(w, state[w].final_status, persisted, stored)
  BY <1>1, <1>2, SavedDecides
<1>4. state[w].event \in Events
      /\ state[w].final_status \in Admitted[state[w].event]
  BY <1>1, AtNode, ResultAdmitted DEF RunOK
<1> QED
  BY <1>3, <1>4

LEMMA CrashIsPowerCut == Crash => Desk!PowerCut
<1> SUFFICES ASSUME Crash PROVE Desk!PowerCut
  OBVIOUS
<1>1. \A v \in Workers : DeskOf(v)' = NoState
  BY DEF Crash, DeskOf
<1>2. UNCHANGED <<disputes, answers>>
  BY DEF Crash, outside
<1> QED
  BY <1>1, <1>2 DEF Desk!PowerCut, DocketOf

(* Every step of the threads is a step of the desk or leaves it alone.     *)
LEMMA StepRefines == DisputeInv /\ [Next]_vars => [Desk!DeskNext]_Desk!deskVars
<1> SUFFICES ASSUME DisputeInv, [Next]_vars
             PROVE  [Desk!DeskNext]_Desk!deskVars
  OBVIOUS
<1>1. ASSUME NEW w \in Workers, HandlerStep(w)
      PROVE  [Desk!DeskNext]_Desk!deskVars
  <2>1. CASE SaveDispute(w)
    BY <2>1, SaveDisputeDecides DEF Desk!DeskNext
  <2>2. CASE SaveRaises(w)
    BY <2>2, SaveRaisesRefuses DEF Desk!DeskNext
  <2>3. CASE Respond(w)
    BY <2>3, RespondAnswers DEF Desk!DeskNext
  <2>4. CASE ~SaveDispute(w) /\ ~SaveRaises(w) /\ ~Respond(w)
    BY <1>1, <2>4, NodeIsStutter DEF HandlerStep
  <2> QED
    BY <2>1, <2>2, <2>3, <2>4
<1>2. ASSUME NEW w \in Workers, NEW e \in Events, Deliver(w, e)
      PROVE  [Desk!DeskNext]_Desk!deskVars
  BY <1>2, DeliverOpens DEF Desk!DeskNext
<1>3. ASSUME NEW t \in Txns, AssessSession(t)
      PROVE  UNCHANGED Desk!deskVars
  <2>1. \A v \in Workers : DeskOf(v)' = DeskOf(v)
    BY <1>3 DEF AssessSession, DeskOf
  <2> QED
    BY <1>3, <2>1, DeskStutter DEF AssessSession
<1>4. CASE UNCHANGED vars
  <2>1. \A v \in Workers : DeskOf(v)' = DeskOf(v)
    BY <1>4 DEF vars, DeskOf
  <2> QED
    BY <1>4, <2>1, DeskStutter DEF vars
<1> QED
  BY <1>1, <1>2, <1>3, <1>4, CrashIsPowerCut DEF Next, Desk!DeskNext

(* The concurrent, failing and crashing threads implement the desk.        *)
THEOREM Refinement == Spec => ImplementsDesk
<1>1. Init => Desk!DeskInit
  BY DEF Init, Desk!DeskInit, DeskOf, DocketOf
<1> QED
  BY <1>1, WorkflowInvariant, StepRefines, PTL
  DEF Spec, ImplementsDesk, Desk!DeskSpec

=============================================================================
