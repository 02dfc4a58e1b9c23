-------------------------- MODULE DisputeWorkflow --------------------------
(***************************************************************************)
(* POST /webhooks/dispute (src/app/api/routes.py): the LangGraph workflow  *)
(* of src/app/graph/workflow.py with its agents, and the upsert into table *)
(* disputes (src/app/db.py).  The route is a plain function, so FastAPI    *)
(* runs it on a pool of threads; each node of the graph is a step, and     *)
(* anything may happen between two nodes of a thread.  The state of a run  *)
(* is its own; threads meet in the tables only.                            *)
(*                                                                         *)
(* A call of the language model (agents/llm.py, invoke_structured) is one  *)
(* step: it comes back with a valid object, with None after the retries    *)
(* and the repair, or it raises when the rate limit does not go away.      *)
(*                                                                         *)
(* A profile stands for the amount, the telemetry and the history of a     *)
(* dispute: rule engine and expected values are pure functions of it and   *)
(* of the claim type, so the claims worth fighting over are a constant.    *)
(***************************************************************************)
EXTENDS Naturals, Sequences

CONSTANTS
  Workers,        \* threads of the pool that run the route
  Disputes,       \* dispute_id values
  Txns,           \* disputed_transaction_id values
  Profiles,       \* what the rule engine and the expected values see
  Claims,         \* the claim types but UNKNOWN_REQUIRES_HUMAN_REVIEW
  Unknown,        \* UNKNOWN_REQUIRES_HUMAN_REVIEW
  Unlisted,       \* the static table has no entry for the reason code
  WorthFighting,  \* [Profiles -> SUBSET Claims]: ev_fight > ev_settle
  Events,         \* the bodies that may be posted
  MaxIterations,  \* AEGIS_MAX_AUDIT_ITERATIONS
  Faults,         \* the database faults of a run, see SaveDispute
  Crashes,        \* whether the process may stop
  NoState,        \* a thread with no run
  NoRow,          \* there is no row with this dispute_id
  MaxDeliveries   \* bound of the model: how many bodies are posted

(* A body.  "listed" is what the static table has for its reason code.     *)
DisputeEvent == [id : Disputes, txn : Txns, profile : Profiles,
                 listed : Claims \cup {Unlisted}]

Verdicts == {"passed", "failed"}
FINAL_FOUGHT == "DISPUTE_CONTESTED_DOSSIER_FINALIZED"
FINAL_SETTLED == "AUTO_SETTLED_MERCHANT_NOTIFIED"
FINAL_ESCALATED_ITERATIONS == "ESCALATED_MAX_AUDIT_ITERATIONS"
FINAL_ESCALATED_HUMAN == "ESCALATED_REQUIRES_HUMAN_REVIEW"
FinalStatus == {FINAL_FOUGHT, FINAL_SETTLED, FINAL_ESCALATED_ITERATIONS,
                FINAL_ESCALATED_HUMAN}

(* The state of a run.  "iterations" is the length of audit_history; of an *)
(* audit the verdict is kept, of a dossier whether the drafter or its safe *)
(* default made it.  "assessed" tells that firewall_assessments is there;  *)
(* "persisted" is a local of the route.                                    *)
AegisState == [event : Events, claim_type : Claims \cup {Unknown},
               needs_human_review : BOOLEAN,
               decision : {"pending", "fight", "settle", "escalate"},
               dossier : {"none", "safe", "drafted"},
               audit_history : Seq(Verdicts), notice : BOOLEAN,
               final_status : FinalStatus \cup {"PENDING"},
               assessed : BOOLEAN, persisted : BOOLEAN]

(* A row of table disputes: its columns with those of "result".            *)
Row == [event : Events, claim_type : Claims \cup {Unknown},
        decision : {"fight", "settle", "escalate"},
        dossier : {"none", "safe", "drafted"},
        audit_history : Seq(Verdicts), notice : BOOLEAN,
        final_status : FinalStatus]

Nodes == {"enrich_from_lifecycle", "parse_dispute", "route_decision",
          "draft_dossier", "audit_dossier", "auto_settlement_notice",
          "finalize_fought", "finalize_settled", "finalize_escalated",
          "save_dispute", "respond"}

ASSUME DisputeAssumption ==
  /\ Events \subseteq DisputeEvent
  /\ WorthFighting \in [Profiles -> SUBSET Claims]
  /\ Unknown \notin Claims /\ Unlisted \notin Claims
  /\ MaxIterations \in Nat
  /\ Faults \subseteq {"unread", "refused", "failed", "ack_lost"}
  /\ Crashes \in BOOLEAN
  /\ NoState \notin AegisState \cup FinalStatus
  /\ NoState \notin [request : Events,
                     verdict : FinalStatus \cup {NoState}, filed : BOOLEAN]
  /\ NoRow \notin Row
  /\ MaxDeliveries \in Nat

VARIABLES
  node,      \* the node each thread runs next; "idle" without a run
  state,     \* the state of each thread's run
  assessed,  \* the transactions with rows in firewall_assessments
  disputes,  \* table disputes: dispute_id -> row
  answers,   \* every answer of the route so far
  received   \* how many bodies have been posted

vars == <<node, state, assessed, disputes, answers, received>>
outside == <<assessed, disputes, answers, received>>

(* A claim_type that is not known yet counts as UNKNOWN.                   *)
build_initial_state(e) ==
  [event |-> e, claim_type |-> Unknown, needs_human_review |-> FALSE,
   decision |-> "pending", dossier |-> "none", audit_history |-> <<>>,
   notice |-> FALSE, final_status |-> "PENDING", assessed |-> FALSE,
   persisted |-> FALSE]

Init ==
  /\ node = [w \in Workers |-> "idle"]
  /\ state = [w \in Workers |-> NoState]
  /\ assessed = {}
  /\ disputes = [d \in Disputes |-> NoRow]
  /\ answers = {}
  /\ received = 0

-----------------------------------------------------------------------------
(* The route and the graph.                                                *)

Deliver(w, e) ==
  /\ node[w] = "idle"
  /\ received < MaxDeliveries
  /\ received' = received + 1
  /\ node' = [node EXCEPT ![w] = "enrich_from_lifecycle"]
  /\ state' = [state EXCEPT ![w] = build_initial_state(e)]
  /\ UNCHANGED <<assessed, disputes, answers>>

(* A node returns its updates s and the graph goes on at n.                *)
Goto(w, n, s) ==
  /\ node' = [node EXCEPT ![w] = n]
  /\ state' = [state EXCEPT ![w] = s]
  /\ UNCHANGED outside

(* Variant: the run is given up without a final status.                    *)
PipelineFaultPending(w) ==
  Goto(w, "save_dispute",
       [build_initial_state(state[w].event) EXCEPT
          !.needs_human_review = TRUE, !.decision = "escalate"])

(* A node raised: the run is given up and parked for human review.         *)
PipelineFault(w) ==
  Goto(w, "save_dispute",
       [build_initial_state(state[w].event) EXCEPT
          !.needs_human_review = TRUE, !.decision = "escalate",
          !.final_status = FINAL_ESCALATED_HUMAN])

(* The timeline is read, too, but nothing depends on it.  An error of the  *)
(* database looks like a transaction without assessments.                  *)
EnrichFromLifecycle(w) ==
  /\ node[w] = "enrich_from_lifecycle"
  /\ \E seen \in BOOLEAN :
       /\ seen => state[w].event.txn \in assessed
       /\ state[w].event.txn \in assessed => seen \/ "unread" \in Faults
       /\ Goto(w, "parse_dispute", [state[w] EXCEPT !.assessed = seen])

(* A listed code needs no model.                                           *)
ParseListed(w) ==
  /\ node[w] = "parse_dispute"
  /\ state[w].event.listed # Unlisted
  /\ Goto(w, "route_decision",
          [state[w] EXCEPT !.claim_type = state[w].event.listed])

(* The classifier answers, with or without confidence; None counts as an   *)
(* UNKNOWN without.                                                        *)
ParseUnlisted(w) ==
  /\ node[w] = "parse_dispute"
  /\ state[w].event.listed = Unlisted
  /\ \/ \E c \in Claims \cup {Unknown}, confident \in BOOLEAN :
          Goto(w, "route_decision",
               [state[w] EXCEPT
                  !.claim_type = c,
                  !.needs_human_review = c = Unknown \/ ~confident])
     \/ PipelineFault(w)

(* Variant: the assessment of the transaction enters the calculation.      *)
DecideRouteAssessed(s) ==
  IF s.needs_human_review THEN "escalate"
  ELSE IF s.claim_type \in WorthFighting[s.event.profile] /\ ~s.assessed
       THEN "fight" ELSE "settle"

(* evaluate_rules and route_decision up to decide_route.                   *)
DecideRoute(s) ==
  IF s.needs_human_review THEN "escalate"
  ELSE IF s.claim_type \in WorthFighting[s.event.profile]
       THEN "fight" ELSE "settle"

RouteAfterDecision(decision) ==
  CASE decision = "fight" -> "draft_dossier"
    [] decision = "settle" -> "auto_settlement_notice"
    [] OTHER -> "finalize_escalated"

RouteDecision(w) ==
  /\ node[w] = "route_decision"
  /\ Goto(w, RouteAfterDecision(DecideRoute(state[w])),
          [state[w] EXCEPT !.decision = DecideRoute(state[w])])

(* None from the model gives the safe draft, which is audited like any.    *)
DraftDossier(w) ==
  /\ node[w] = "draft_dossier"
  /\ \/ \E d \in {"drafted", "safe"} :
          Goto(w, "audit_dossier", [state[w] EXCEPT !.dossier = d])
     \/ PipelineFault(w)

(* Variant: one audit more than allowed.                                   *)
RouteAfterAuditOneMore(audits) ==
  IF audits[Len(audits)] = "passed" THEN "finalize_fought"
  ELSE IF Len(audits) <= MaxIterations THEN "draft_dossier"
  ELSE "finalize_escalated"

(* The verdict is looked at before the limit.                              *)
RouteAfterAudit(audits) ==
  IF audits[Len(audits)] = "passed" THEN "finalize_fought"
  ELSE IF Len(audits) < MaxIterations THEN "draft_dossier"
  ELSE "finalize_escalated"

(* Variant: an audit that the model did not give is not counted.           *)
AuditDossierUncounted(w) ==
  /\ node[w] = "audit_dossier"
  /\ \/ \E v \in Verdicts :
          LET audits == Append(state[w].audit_history, v)
          IN Goto(w, RouteAfterAudit(audits),
                  [state[w] EXCEPT !.audit_history = audits])
     \/ Goto(w, "draft_dossier", state[w])
     \/ PipelineFault(w)

(* None from the model is a failed verdict and counts as an iteration.     *)
AuditDossier(w) ==
  /\ node[w] = "audit_dossier"
  /\ \/ \E v \in Verdicts :
          LET audits == Append(state[w].audit_history, v)
          IN Goto(w, RouteAfterAudit(audits),
                  [state[w] EXCEPT !.audit_history = audits])
     \/ PipelineFault(w)

AutoSettlementNotice(w) ==
  /\ node[w] = "auto_settlement_notice"
  /\ \/ Goto(w, "finalize_settled", [state[w] EXCEPT !.notice = TRUE])
     \/ PipelineFault(w)

Finalize(w, s) == Goto(w, "save_dispute", [state[w] EXCEPT !.final_status = s])

FinalizeFought(w) == node[w] = "finalize_fought" /\ Finalize(w, FINAL_FOUGHT)

FinalizeSettled(w) == node[w] = "finalize_settled" /\ Finalize(w, FINAL_SETTLED)

(* The limit alone does not tell: with a limit of 0 it is reached before   *)
(* the first audit.                                                        *)
Exhausted(s) ==
  Len(s.audit_history) >= MaxIterations /\ s.audit_history # <<>>

FinalizeEscalated(w) ==
  /\ node[w] = "finalize_escalated"
  /\ Finalize(w, IF Exhausted(state[w]) THEN FINAL_ESCALATED_ITERATIONS
                 ELSE FINAL_ESCALATED_HUMAN)

-----------------------------------------------------------------------------
(* The answer.                                                             *)

RowOf(s) ==
  [event |-> s.event, claim_type |-> s.claim_type, decision |-> s.decision,
   dossier |-> s.dossier, audit_history |-> s.audit_history,
   notice |-> s.notice, final_status |-> s.final_status]

(* Variant: on a conflict "result" and the columns keep their values and   *)
(* event_payload is replaced.                                              *)
UpsertPayload(s) ==
  [disputes EXCEPT ![s.event.id] =
     IF @ = NoRow THEN RowOf(s) ELSE [@ EXCEPT !.event = s.event]]

(* ON CONFLICT (dispute_id) DO UPDATE sets every column.                   *)
Upsert(s) == [disputes EXCEPT ![s.event.id] = RowOf(s)]

Saved(w, stored, persisted) ==
  /\ disputes' = IF stored THEN Upsert(state[w]) ELSE disputes
  /\ node' = [node EXCEPT ![w] = "respond"]
  /\ state' = [state EXCEPT ![w].persisted = persisted]
  /\ UNCHANGED <<assessed, answers, received>>

(* Variant: the lost connection is not told from a commit.                 *)
SaveDisputeOptimistic(w) ==
  /\ node[w] = "save_dispute"
  /\ \/ "refused" \in Faults /\ Saved(w, FALSE, TRUE)
     \/ /\ ~state[w].assessed
        /\ \E o \in {"committed"} \cup (Faults \cap {"failed", "ack_lost"}) :
             Saved(w, o # "failed", o # "failed")

(* save_dispute: there is no connection; or the upsert is committed, fails *)
(* or is committed without psycopg learning so.  Every psycopg.Error gives *)
(* False.                                                                  *)
SaveDispute(w) ==
  /\ node[w] = "save_dispute"
  /\ \/ "refused" \in Faults /\ Saved(w, FALSE, FALSE)
     \/ /\ ~state[w].assessed
        /\ \E o \in {"committed"} \cup (Faults \cap {"failed", "ack_lost"}) :
             Saved(w, o # "failed", o = "committed")

Answered(w, status) ==
  /\ answers' = answers \cup
       {[event |-> state[w].event, final_status |-> status,
         persisted |-> state[w].persisted]}
  /\ node' = [node EXCEPT ![w] = "idle"]
  /\ state' = [state EXCEPT ![w] = NoState]
  /\ UNCHANGED <<assessed, disputes, received>>

(* The rows of firewall_assessments have a datetime, on which json.dumps   *)
(* raises a TypeError that nothing catches.                                *)
HTTP_500 == "HTTP_500"
SaveRaises(w) ==
  /\ node[w] = "save_dispute"
  /\ state[w].assessed
  /\ Answered(w, HTTP_500)

(* Variant: the answer is read back from the table.                        *)
RespondFromTable(w) ==
  /\ node[w] = "respond"
  /\ LET row == disputes[state[w].event.id]
     IN Answered(w, IF row = NoRow THEN state[w].final_status
                    ELSE row.final_status)

Respond(w) == node[w] = "respond" /\ Answered(w, state[w].final_status)

(* POST /risk/evaluate-session stores an assessment of a transaction.      *)
AssessSession(t) ==
  /\ assessed' = assessed \cup {t}
  /\ UNCHANGED <<node, state, disputes, answers, received>>

(* The process stops: the runs are gone, the tables stay.                  *)
Crash ==
  /\ Crashes
  /\ node' = [w \in Workers |-> "idle"]
  /\ state' = [w \in Workers |-> NoState]
  /\ UNCHANGED outside

HandlerStep(w) ==
  \/ EnrichFromLifecycle(w)
  \/ ParseListed(w)
  \/ ParseUnlisted(w)
  \/ RouteDecision(w)
  \/ DraftDossier(w)
  \/ AuditDossier(w)
  \/ AutoSettlementNotice(w)
  \/ FinalizeFought(w)
  \/ FinalizeSettled(w)
  \/ FinalizeEscalated(w)
  \/ SaveDispute(w)
  \/ SaveRaises(w)
  \/ Respond(w)

Next ==
  \/ \E w \in Workers : HandlerStep(w) \/ \E e \in Events : Deliver(w, e)
  \/ \E t \in Txns : AssessSession(t)
  \/ Crash

(* A thread that has work is scheduled, and the calls it makes return.     *)
Fairness == \A w \in Workers : WF_vars(HandlerStep(w))

Spec == Init /\ [][Next]_vars

FairSpec == Spec /\ Fairness

-----------------------------------------------------------------------------
(* Properties.                                                             *)

Busy(w) == node[w] # "idle"

TypeOK ==
  /\ node \in [Workers -> Nodes \cup {"idle"}]
  /\ state \in [Workers -> AegisState \cup {NoState}]
  /\ \A w \in Workers : Busy(w) => state[w] \in AegisState
  /\ assessed \subseteq Txns
  /\ disputes \in [Disputes -> Row \cup {NoRow}]
  /\ answers \subseteq [event : Events, persisted : BOOLEAN,
                        final_status : FinalStatus \cup {HTTP_500}]
  /\ received \in 0..MaxDeliveries

(* The breaker: one audit at least, MaxIterations otherwise.               *)
AuditLimit == IF MaxIterations = 0 THEN 1 ELSE MaxIterations

Failed(audits) == \A i \in 1..Len(audits) : audits[i] = "failed"

(* However the model fails or contradicts itself, no run holds more audits *)
(* than the limit, and none goes on after an audit that passed.            *)
AuditBreakerHolds ==
  \A w \in Workers : Busy(w) =>
    LET audits == state[w].audit_history
    IN /\ Len(audits) <= AuditLimit
       /\ \A i \in 1..(Len(audits) - 1) : audits[i] = "failed"
       /\ node[w] = "draft_dossier" =>
            Len(audits) < AuditLimit /\ Failed(audits)

(* The contents of a result bear out its final status: contested is what   *)
(* was worth it and passed its last audit, with that dossier; settled is   *)
(* what was not, with a notice and no dossier; iterations ran out when     *)
(* each of them failed; and a human gets what no model has touched.        *)
VerdictBorneOut(r) ==
  LET audits == r.audit_history
  IN \/ /\ r.final_status = FINAL_FOUGHT
        /\ r.decision = "fight" /\ r.dossier # "none" /\ ~r.notice
        /\ audits # <<>> /\ audits[Len(audits)] = "passed"
     \/ /\ r.final_status = FINAL_ESCALATED_ITERATIONS
        /\ r.decision = "fight" /\ r.dossier # "none" /\ ~r.notice
        /\ Len(audits) = AuditLimit /\ Failed(audits)
     \/ /\ r.final_status = FINAL_SETTLED
        /\ r.decision = "settle" /\ r.dossier = "none" /\ r.notice
        /\ audits = <<>>
     \/ /\ r.final_status = FINAL_ESCALATED_HUMAN
        /\ r.decision = "escalate" /\ r.dossier = "none" /\ ~r.notice
        /\ audits = <<>>

(* The decision is the one that the event of the same result calls for.    *)
DecisionBorneOut(r) ==
  LET worth == WorthFighting[r.event.profile]
  IN /\ r.decision = "fight" => r.claim_type \in worth
     /\ r.decision = "settle" => r.claim_type \notin worth \cup {Unknown}
     /\ r.decision # "escalate" /\ r.event.listed # Unlisted
          => r.claim_type = r.event.listed

(* Every result that is stored or about to be stored or answered, whatever *)
(* other deliveries of the dispute have written meanwhile.                 *)
RowsBorneOut ==
  \A d \in Disputes : disputes[d] # NoRow =>
    /\ disputes[d].event.id = d
    /\ VerdictBorneOut(disputes[d]) /\ DecisionBorneOut(disputes[d])

ResultsBorneOut ==
  /\ RowsBorneOut
  /\ \A w \in Workers : node[w] \in {"save_dispute", "respond"} =>
       VerdictBorneOut(state[w]) /\ DecisionBorneOut(state[w])

(* A dispute with a listed code is not settled in one answer and contested *)
(* in another, on whatever thread and however often it is delivered, and   *)
(* whether or not the firewall assessed its transaction meanwhile.         *)
OneSideOnly ==
  \A a, b \in answers : a.event = b.event /\ a.event.listed # Unlisted =>
    ~(/\ a.final_status = FINAL_SETTLED
      /\ b.final_status \in {FINAL_FOUGHT, FINAL_ESCALATED_ITERATIONS})

(* An answer that says "persisted" is about a dispute that is in the       *)
(* table, also after a crash.                                              *)
PersistedIsStored ==
  \A a \in answers : a.persisted => disputes[a.event.id] # NoRow

(* What a thread has at hand when its next node is n.                      *)
Untouched(s) == s.dossier = "none" /\ s.audit_history = <<>> /\ ~s.notice
Contesting(s) ==
  /\ s.decision = "fight" /\ ~s.notice
  /\ DecisionBorneOut(s)
BreakerOn(audits) ==
  /\ Len(audits) <= AuditLimit
  /\ \A i \in 1..(Len(audits) - 1) : audits[i] = "failed"

RunOK(n, s) ==
  /\ n # "respond" => ~s.persisted
  /\ n \in {"enrich_from_lifecycle", "parse_dispute", "route_decision"}
       => Untouched(s)
  /\ n = "route_decision" =>
       /\ s.claim_type = Unknown => s.needs_human_review
       /\ s.event.listed # Unlisted => s.claim_type = s.event.listed
  /\ n \in {"draft_dossier", "audit_dossier"} =>
       /\ Contesting(s) /\ Failed(s.audit_history)
       /\ Len(s.audit_history) < AuditLimit
  /\ n \in {"audit_dossier", "finalize_fought"} => s.dossier # "none"
  /\ n = "finalize_fought" =>
       /\ Contesting(s) /\ BreakerOn(s.audit_history)
       /\ s.audit_history # <<>>
       /\ s.audit_history[Len(s.audit_history)] = "passed"
  /\ n = "auto_settlement_notice" =>
       s.decision = "settle" /\ DecisionBorneOut(s) /\ Untouched(s)
  /\ n = "finalize_settled" =>
       /\ s.decision = "settle" /\ DecisionBorneOut(s) /\ s.notice
       /\ s.dossier = "none" /\ s.audit_history = <<>>
  /\ n = "finalize_escalated" =>
       \/ s.decision = "escalate" /\ Untouched(s)
       \/ /\ Contesting(s) /\ Failed(s.audit_history) /\ s.dossier # "none"
          /\ Len(s.audit_history) = AuditLimit
  /\ n \in {"save_dispute", "respond"} =>
       VerdictBorneOut(s) /\ DecisionBorneOut(s) /\ BreakerOn(s.audit_history)

(* How many nodes a run still goes through at most: those of one pass      *)
(* through the graph, and two for each round of drafter and auditor that   *)
(* the limit leaves after this one.                                        *)
NodesLeft ==
  [enrich_from_lifecycle |-> 8, parse_dispute |-> 7, route_decision |-> 6,
   draft_dossier |-> 5, audit_dossier |-> 4, auto_settlement_notice |-> 4,
   finalize_fought |-> 3, finalize_settled |-> 3, finalize_escalated |-> 3,
   save_dispute |-> 2, respond |-> 1, idle |-> 0]

BeforeVerdict == {"enrich_from_lifecycle", "parse_dispute", "route_decision",
                  "draft_dossier", "audit_dossier"}

StepsLeft(n, s) ==
  NodesLeft[n] +
    IF n \in BeforeVerdict THEN 2 * (AuditLimit - Len(s.audit_history) - 1)
    ELSE 0

(* A run takes 2 * AuditLimit + 6 steps at most, whatever the model and    *)
(* the database answer: each step of the run brings its end nearer, and    *)
(* what other threads do or the firewall stores meanwhile does not put it  *)
(* off.                                                                    *)
EveryStepCounts ==
  [][\A w \in Workers : Busy(w) =>
       \/ /\ ~HandlerStep(w)
          /\ node'[w] = node[w] /\ state'[w] = state[w]
       \/ /\ 0 <= StepsLeft(node'[w], state'[w])
          /\ StepsLeft(node'[w], state'[w]) < StepsLeft(node[w], state[w])
          /\ StepsLeft(node[w], state[w]) <= 2 * AuditLimit + 6]_vars

(* Every run ends: the loop of drafter and auditor does not go on for      *)
(* ever.                                                                   *)
EveryRunEnds == \A w \in Workers : Busy(w) ~> ~Busy(w)

(* "HTTP 500s are now impossible".                                         *)
NoServerError == \A a \in answers : a.final_status # HTTP_500

(* Nothing but a stored assessment of the transaction makes the route      *)
(* answer with a server error: no fault of the model or the database does. *)
ErrorsNeedAssessments ==
  \A a \in answers : a.final_status = HTTP_500 => a.event.txn \in assessed

(* What a run has read of its transaction is still there: what makes       *)
(* ErrorsNeedAssessments inductive.                                        *)
SeenIsStored ==
  \A w \in Workers : Busy(w) /\ state[w].assessed =>
    state[w].event.txn \in assessed

(* What the contents of a request admit: a human always; one side, if the  *)
(* code is listed.                                                         *)
Fightable(e) == IF e.listed = Unlisted THEN WorthFighting[e.profile]
                ELSE {e.listed} \cap WorthFighting[e.profile]
Settleable(e) == (IF e.listed = Unlisted THEN Claims ELSE {e.listed})
                 \ WorthFighting[e.profile]
Admitted == [e \in Events |->
  {FINAL_ESCALATED_HUMAN}
  \cup (IF Fightable(e) = {} THEN {}
        ELSE {FINAL_FOUGHT, FINAL_ESCALATED_ITERATIONS})
  \cup (IF Settleable(e) = {} THEN {} ELSE {FINAL_SETTLED})]

(* The inductive invariant.                                                *)
DisputeInv ==
  /\ TypeOK
  /\ \A w \in Workers : Busy(w) => RunOK(node[w], state[w])
  /\ \A w \in Workers : node[w] = "respond" /\ state[w].persisted =>
       disputes[state[w].event.id] # NoRow
  /\ RowsBorneOut
  /\ PersistedIsStored
  /\ \A a \in answers : a.final_status # HTTP_500 =>
       a.final_status \in Admitted[a.event]

DeskOf(w) ==
  IF node[w] = "idle" THEN NoState
  ELSE [request |-> state[w].event,
        verdict |-> IF node[w] = "respond" THEN state[w].final_status
                    ELSE NoState,
        filed |-> node[w] = "respond" /\ state[w].persisted]

DocketOf(d) ==
  IF disputes[d] = NoRow THEN NoState
  ELSE [request |-> disputes[d].event, verdict |-> disputes[d].final_status]

Desk == INSTANCE DisputeDesk WITH
  Clerks <- Workers, Requests <- Events, Matters <- Disputes,
  MatterOf <- [e \in Events |-> e.id], Admitted <- Admitted,
  Nothing <- NoState,
  desk <- [w \in Workers |-> DeskOf(w)],
  docket <- [d \in Disputes |-> DocketOf(d)],
  letters <- {[request |-> a.event, verdict |-> a.final_status,
               filed |-> a.persisted] :
                a \in {b \in answers : b.final_status # HTTP_500}}

(* The threads, with their crashes and lost commits, implement the desk:   *)
(* a request gets an admitted verdict, entered before it is called filed.  *)
ImplementsDesk == Desk!DeskSpec

=============================================================================
