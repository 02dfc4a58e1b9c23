---------------------------- MODULE RiskEvaluate ----------------------------
(***************************************************************************)
(* POST /v1/risk/evaluate (src/app/api/v1/risk_routes.py) with its         *)
(* idempotency cache, event store and audit snapshots, POST                *)
(* /risk/evaluate-session, which writes the same snapshots, and the replay *)
(* of a snapshot, over the calibration registry of the process.            *)
(*                                                                         *)
(* evaluate is a coroutine that never awaits, so the event loop runs it in *)
(* one piece; evaluate-session runs on a thread, but what it shares with   *)
(* evaluate it touches once, under the snapshot store's lock.  Each is one *)
(* step here.  All stores are objects of the process.  A caller that does  *)
(* not own the merchant_id gets 403 before anything is read; the webhook   *)
(* call changes nothing while no subscription is registered.  The row that *)
(* evaluate-session adds to firewall_assessments is read by the disputes   *)
(* only: it is a part of module DisputeWorkflow.                           *)
(*                                                                         *)
(* Scores are percentages.  A profile stands for the identifiers, amounts  *)
(* and currency of a request, that is for all the features derived from    *)
(* them; the scores of a profile are constants, the scoring code being a   *)
(* pure function.  The graph risk, which never exceeds 0.20 on the graph   *)
(* that the events build, adds nothing to a score.                         *)
(***************************************************************************)
EXTENDS CalibrationRegistry

CONSTANTS
  Merchants,    \* merchant_id values
  Keys,         \* Idempotency-Key header values
  NoKey,        \* no such header
  Txns,         \* transaction_id values
  Profiles,     \* request contents, as far as scoring tells them apart
  Bodies,       \* the bodies posted to evaluate
  Sessions,     \* the sessions posted to evaluate-session
  Weights,      \* weights and intercept of a configuration
  Logistic,     \* [Weights -> [Profiles -> score]]: calibrated score
  Linear,       \* [Profiles -> score]: score without a configuration
  Quality,      \* [Profiles -> percent]: evidence quality
  KnownIntent,  \* profiles of sessions whose intent is not UNKNOWN
  GraphFaults,  \* whether the entity graph raises: a subset of BOOLEAN
  Restarts,     \* whether the process may be restarted
  NoRecord,     \* nothing is stored here
  Conflict,     \* the 409 IDEMPOTENCY_CONFLICT answer
  MaxRequests   \* bound of the model: keyed and unkeyed evaluate requests

Percent == 0..100

Config == [version : Versions, weights : Weights,
           low : Percent, high : Percent, quality : Percent]

(* "stamped" is false when the client leaves the timestamp to the default  *)
(* factory of the request model.                                           *)
Body == [merchant : Merchants, txn : Txns, profile : Profiles,
         stamped : BOOLEAN]
Session == [merchant : Merchants, txn : Txns, profile : Profiles]

VARIABLES
  idempotency,  \* idempotency_repo: merchant and key -> record
  events,       \* integration_event_repo: who created "evt_<txn>_created"
  snapshots,    \* audit_repo: transaction -> snapshot
  answers,      \* every answer of evaluate so far
  now,          \* how many evaluate requests there have been: the clock
  started       \* the clock when the process started

stores == <<idempotency, events, snapshots>>
vars == <<registryVars, stores, answers, now, started>>

-----------------------------------------------------------------------------
(* Data.                                                                   *)

(* The parsed request: without a timestamp it gets the current time.       *)
Parsed(body) == [body |-> body, time |-> IF body.stamped THEN 0 ELSE now + 1]
Payloads == [body : Bodies, time : 0..MaxRequests]

Actions == {"ALLOW", "CHALLENGE", "BLOCK"}

(* A decision as the client gets it; "id" is the time in decision_id,      *)
(* "recorded" the audit flag.                                              *)
Decision == [id : 1..MaxRequests, txn : Txns, score : Percent,
             action : Actions \cup {"MANUAL_HOLD"}, recorded : BOOLEAN]

(* A snapshot; "hash" is the configuration that calibration_hash names.    *)
Snapshot == [source : {"evaluate", "session"}, merchant : Merchants,
             profile : Profiles, version : Versions,
             hash : Configs \cup {NoConfig}, quality : Percent,
             score : Percent, action : Actions]

Record == [payload : Payloads, reply : Decision]

Answer == [key : Keys \cup {NoKey}, payload : Payloads, time : 1..MaxRequests,
           reply : Decision \cup {Conflict}]

ASSUME RiskAssumption ==
  /\ Configs \subseteq Config
  /\ Bodies \subseteq Body
  /\ Sessions \subseteq Session
  /\ Logistic \in [Weights -> [Profiles -> Percent]]
  /\ Linear \in [Profiles -> Percent]
  /\ Quality \in [Profiles -> Percent]
  /\ GraphFaults \subseteq BOOLEAN
  /\ Restarts \in BOOLEAN
  /\ NoKey \notin Keys
  /\ MaxRequests \in Nat
  /\ NoRecord \notin Merchants \cup Snapshot \cup Record
  /\ Conflict \notin Decision

(* apply_decision_policy.                                                  *)
Policy(score, quality, c) ==
  IF score >= c.high
  THEN IF quality >= c.quality THEN "BLOCK"
       ELSE IF score < 85 THEN "CHALLENGE" ELSE "MANUAL_HOLD"
  ELSE IF score >= c.low THEN "CHALLENGE" ELSE "ALLOW"

(* decide_action with a known intent, and the downgrade that the firewall  *)
(* and the replay apply to it.                                             *)
DecideAction(score, c) ==
  IF score >= c.high THEN "BLOCK"
  ELSE IF score >= c.low THEN "CHALLENGE" ELSE "ALLOW"

FirewallAction(score, quality, c) ==
  IF DecideAction(score, c) = "BLOCK" /\ quality < c.quality /\ score < 85
  THEN "CHALLENGE" ELSE DecideAction(score, c)

(* Variant: the replay uses the configuration in force today.              *)
ReplayConfigActive(s) == ActiveConfig

(* replay_decision: the configuration is looked up by its version, its     *)
(* hash is not compared; the active one stands in for a missing one.       *)
ReplayConfig(s) ==
  IF Registered(s.version) THEN configs[s.version] ELSE ActiveConfig
ReplayScore(s) == Logistic[ReplayConfig(s).weights][s.profile]
ReplayAction(s) == FirewallAction(ReplayScore(s), s.quality, ReplayConfig(s))
DeterministicMatch(s) ==
  ReplayScore(s) = s.score /\ ReplayAction(s) = s.action

-----------------------------------------------------------------------------
(* The process.                                                            *)

FreshStores ==
  [idempotency |-> [m \in Merchants |-> [k \in Keys |-> NoRecord]],
   events |-> [t \in Txns |-> NoRecord],
   snapshots |-> [t \in Txns |-> NoRecord]]

Init ==
  /\ RegistryInit
  /\ idempotency = FreshStores.idempotency
  /\ events = FreshStores.events
  /\ snapshots = FreshStores.snapshots
  /\ answers = {}
  /\ now = 0
  /\ started = 0

Answered(key, body, reply) ==
  /\ now < MaxRequests
  /\ now' = now + 1
  /\ answers' = answers \cup {[key |-> key, payload |-> Parsed(body),
                               time |-> now + 1, reply |-> reply]}
  /\ UNCHANGED <<registryVars, started>>

(* check_idempotency finds the record of an earlier request.               *)
Known(key, body) == key # NoKey /\ idempotency[body.merchant][key] # NoRecord

(* Variants: the hash is not compared; the hash covers the arrival time.   *)
SamePayloadAny(key, body) == TRUE
SamePayloadNow(key, body) ==
  /\ idempotency[body.merchant][key].payload = Parsed(body)
  /\ idempotency[body.merchant][key].reply.id = now + 1

SamePayload(key, body) ==
  idempotency[body.merchant][key].payload = Parsed(body)

AnswerFromCache(key, body) ==
  /\ Known(key, body) /\ SamePayload(key, body)
  /\ Answered(key, body, idempotency[body.merchant][key].reply)
  /\ UNCHANGED stores

RefuseConflict(key, body) ==
  /\ Known(key, body) /\ ~SamePayload(key, body)
  /\ Answered(key, body, Conflict)
  /\ UNCHANGED stores

(* record_idempotent_response.                                             *)
Remember(key, body, reply) ==
  idempotency' =
    IF key = NoKey THEN idempotency
    ELSE [idempotency EXCEPT ![body.merchant][key] =
            [payload |-> Parsed(body), reply |-> reply]]

(* process_integration_event: an event_id is processed once.               *)
CreateEvent(body) ==
  events' = IF events[body.txn] # NoRecord THEN events
            ELSE [events EXCEPT ![body.txn] = body.merchant]

(* Variant: final_action is any string.                                    *)
RecordableAny(action) == TRUE

(* A snapshot holds one of three actions: with MANUAL_HOLD its validation  *)
(* fails and the decision goes out unrecorded.                             *)
Recordable(action) == action \in Actions

(* The decision on a request with the configuration in force; graphFailed  *)
(* tells that the graph raised, which costs 0.25 of evidence quality.      *)
ScoreOf(body) == Logistic[ActiveConfig.weights][body.profile]

EvidenceQuality(body, graphFailed) ==
  LET full == Quality[body.profile]
  IN IF ~graphFailed THEN full ELSE IF full > 25 THEN full - 25 ELSE 0

ActionOn(body, graphFailed) ==
  Policy(ScoreOf(body), EvidenceQuality(body, graphFailed), ActiveConfig)

ReplyTo(body, graphFailed) ==
  [id |-> now + 1, txn |-> body.txn, score |-> ScoreOf(body),
   action |-> ActionOn(body, graphFailed),
   recorded |-> Recordable(ActionOn(body, graphFailed))]

SnapshotOf(body, graphFailed) ==
  [source |-> "evaluate", merchant |-> body.merchant,
   profile |-> body.profile, version |-> ActiveConfig.version,
   hash |-> ActiveConfig, quality |-> EvidenceQuality(body, graphFailed),
   score |-> ScoreOf(body), action |-> ActionOn(body, graphFailed)]

Evaluate(key, body, graphFailed) ==
  /\ ~Known(key, body)
  /\ Answered(key, body, ReplyTo(body, graphFailed))
  /\ CreateEvent(body)
  /\ snapshots' =
       IF ~Recordable(ActionOn(body, graphFailed)) THEN snapshots
       ELSE [snapshots EXCEPT ![body.txn] = SnapshotOf(body, graphFailed)]
  /\ Remember(key, body, ReplyTo(body, graphFailed))

(* evaluate-session scores without a configuration, with the thresholds of *)
(* the default one, and names the default one in the snapshot.             *)
SessionAction(p) ==
  IF p \in KnownIntent THEN FirewallAction(Linear[p], Quality[p], DefaultConfig)
  ELSE "ALLOW"

SessionSnapshot(s) ==
  [source |-> "session", merchant |-> s.merchant, profile |-> s.profile,
   version |-> DefaultConfig.version, hash |-> NoConfig,
   quality |-> Quality[s.profile], score |-> Linear[s.profile],
   action |-> SessionAction(s.profile)]

EvaluateSession(s) ==
  /\ snapshots' = [snapshots EXCEPT ![s.txn] = SessionSnapshot(s)]
  /\ UNCHANGED <<registryVars, idempotency, events, answers, now, started>>

RestartProcess ==
  /\ Restarts
  /\ Restart
  /\ idempotency' = FreshStores.idempotency
  /\ events' = FreshStores.events
  /\ snapshots' = FreshStores.snapshots
  /\ started' = now
  /\ UNCHANGED <<answers, now>>

EvaluateRequest ==
  \E key \in Keys \cup {NoKey}, body \in Bodies :
     \/ AnswerFromCache(key, body)
     \/ RefuseConflict(key, body)
     \/ \E graphFailed \in GraphFaults : Evaluate(key, body, graphFailed)

(* No route of the server registers, promotes or rolls back: other code of *)
(* its process does, as the evaluation does (evaluation/phase4.py:63-64).  *)
CalibrationCall == RegistryStep /\ UNCHANGED <<stores, answers, now, started>>

Next ==
  \/ EvaluateRequest
  \/ \E s \in Sessions : EvaluateSession(s)
  \/ CalibrationCall
  \/ RestartProcess

Spec == Init /\ [][Next]_vars

-----------------------------------------------------------------------------
(* Properties.                                                             *)

RiskTypeOK ==
  /\ idempotency \in [Merchants -> [Keys -> Record \cup {NoRecord}]]
  /\ events \in [Txns -> Merchants \cup {NoRecord}]
  /\ snapshots \in [Txns -> Snapshot \cup {NoRecord}]
  /\ answers \subseteq Answer
  /\ \A a \in answers : a.time <= now
  /\ now \in 0..MaxRequests
  /\ started \in 0..now

(* The answers the running process has given; two of them concern the same *)
(* idempotency record; an answer that carries a decision.                  *)
ThisLife == {a \in answers : a.time > started}
SameRecord(a, b) ==
  /\ a.key # NoKey /\ a.key = b.key
  /\ a.payload.body.merchant = b.payload.body.merchant
IsDecision(a) == a.reply # Conflict

(* However often and with whatever bodies a key is used, whatever is       *)
(* promoted or rolled back meanwhile, a process answers one decision on it *)
(* and gives that one to one payload only: nothing is scored twice.        *)
OneDecisionPerKey ==
  \A a, b \in ThisLife :
     SameRecord(a, b) /\ IsDecision(a) /\ IsDecision(b)
       => a.reply = b.reply /\ a.payload = b.payload

(* A 409 is given only to a payload that differs from one that this        *)
(* process has answered with a decision under the same key.                *)
ConflictIsJustified ==
  \A a \in ThisLife : ~IsDecision(a) =>
     \E b \in ThisLife :
        SameRecord(a, b) /\ IsDecision(b) /\ b.payload # a.payload

Audited(t, source) ==
  snapshots[t] # NoRecord /\ snapshots[t].source = source

(* A decision of evaluate is reproduced by a replay at any later time: the *)
(* same score and the same action, though another configuration may have   *)
(* been promoted since and the replay applies the firewall's policy, not   *)
(* the one that made the decision.                                         *)
EvaluationsReplay ==
  \A t \in Txns : Audited(t, "evaluate") => DeterministicMatch(snapshots[t])

(* The timeline of a transaction that evaluate decided is not empty.       *)
AuditedHasCreationEvent ==
  \A t \in Txns : Audited(t, "evaluate") => events[t] # NoRecord

(* The idempotency cache and the answers of this process tell the same.    *)
RecordsAreAnswers ==
  \A m \in Merchants, k \in Keys : idempotency[m][k] # NoRecord =>
     \E b \in ThisLife :
        /\ b.key = k /\ b.payload.body.merchant = m
        /\ b.payload = idempotency[m][k].payload
        /\ b.reply = idempotency[m][k].reply

AnswersAreRecorded ==
  \A a \in ThisLife : a.key # NoKey /\ IsDecision(a) =>
     LET r == idempotency[a.payload.body.merchant][a.key]
     IN r # NoRecord /\ r.payload = a.payload /\ r.reply = a.reply

(* The configuration a decision was made with is still the one stored      *)
(* under its version, and the recorded decision is the one it makes.       *)
AuditedConfigKept ==
  \A t \in Txns : Audited(t, "evaluate") =>
     LET s == snapshots[t]
     IN /\ s.hash # NoConfig /\ s.hash.version = s.version
        /\ configs[s.version] = s.hash
        /\ s.score = Logistic[s.hash.weights][s.profile]
        /\ s.action = Policy(s.score, s.quality, s.hash)

(* A retry whose body carries its timestamp gets the answer it got before, *)
(* decision or 409, while the process lives, whatever other bodies were    *)
(* posted under the key and whatever was promoted in between.              *)
StampedRetryIsCached ==
  \A a, b \in ThisLife :
     /\ SameRecord(a, b) /\ a.payload.body = b.payload.body
     /\ a.payload.body.stamped
     => a.reply = b.reply

(* A decision that this process has answered, from its cache too, has a    *)
(* snapshot of its transaction in the audit store, or is a MANUAL_HOLD.    *)
DecisionsAreAudited ==
  \A a \in ThisLife : IsDecision(a) /\ a.reply.action # "MANUAL_HOLD" =>
     a.reply.recorded /\ snapshots[a.reply.txn] # NoRecord

(* Where the replay of a decision of evaluate comes out differently, the   *)
(* registry holds another configuration under the version than the one     *)
(* that the snapshot's hash names.                                         *)
MismatchIsExplained ==
  \A t \in Txns : Audited(t, "evaluate") /\ ~DeterministicMatch(snapshots[t])
     => configs[snapshots[t].version] # snapshots[t].hash

(* "cached decisions on identical payloads": the same body under the same  *)
(* key is always given the same answer.                                    *)
RetryIsCached ==
  \A a, b \in answers :
     SameRecord(a, b) /\ a.payload.body = b.payload.body => a.reply = b.reply

(* "Every real-time risk decision writes an immutable snapshot".           *)
EveryDecisionRecorded == \A a \in answers : IsDecision(a) => a.reply.recorded

(* "Replay historical risk decision": a decision of evaluate-session is    *)
(* reproduced by its replay, too.                                          *)
SessionsReplay ==
  \A t \in Txns : Audited(t, "session") => DeterministicMatch(snapshots[t])

-----------------------------------------------------------------------------
(* The route implements the ledger of DecisionLedger.                      *)

LettersOf(set) ==
  {[slot |-> <<a.payload.body.merchant, a.key>>,
    payload |-> a.payload, reply |-> a.reply] :
     a \in {b \in set : b.key # NoKey}}

Ledger == INSTANCE DecisionLedger WITH
  Slots <- Merchants \X Keys, Replies <- Decision, Refusal <- Conflict,
  Nothing <- NoRecord,
  ledger <- [slot \in Merchants \X Keys |-> idempotency[slot[1]][slot[2]]],
  letters <- LettersOf(answers)

(* Whatever is promoted, evaluated without a key or restarted in between,  *)
(* a keyed request is decided on once, repeated with that very decision,   *)
(* or refused because another payload was decided on.                      *)
ImplementsLedger == Ledger!LedgerSpec

=============================================================================
