------------------------- MODULE RiskEvaluate_proofs -------------------------
(* Theorems about RiskEvaluate, for every set of merchants, keys,          *)
(* transactions and configurations and every scoring function.             *)
EXTENDS RiskEvaluate, CalibrationRegistry_proofs

(* The stores agree with the answers given and are well typed.             *)
RiskInv ==
  /\ RegistryInv
  /\ RiskTypeOK
  /\ RecordsAreAnswers
  /\ AnswersAreRecorded
  /\ ConflictIsJustified
  /\ AuditedHasCreationEvent

(* No version is trained twice.                                            *)
VersionsAreUnique == \A c, d \in Configs : c.version = d.version => c = d

-----------------------------------------------------------------------------
(* Data.                                                                   *)

(* The two policies agree on every decision that can be recorded.          *)
LEMMA PoliciesAgree ==
  ASSUME NEW score \in Percent, NEW quality \in Percent, NEW c \in Configs,
         Policy(score, quality, c) # "MANUAL_HOLD"
  PROVE  FirewallAction(score, quality, c) = Policy(score, quality, c)
<1>1. c.high \in Nat /\ c.low \in Nat /\ c.quality \in Nat
  BY RiskAssumption DEF Config, Percent
<1> QED BY <1>1 DEF Policy, FirewallAction, DecideAction, Percent

(* The policies yield actions.                                             *)
LEMMA ActionsTyped ==
  ASSUME NEW score, NEW quality, NEW c
  PROVE  /\ Policy(score, quality, c) \in Actions \cup {"MANUAL_HOLD"}
         /\ FirewallAction(score, quality, c) \in Actions
BY DEF Policy, FirewallAction, DecideAction, Actions

(* In a sound registry the configuration in force is a configuration that  *)
(* is stored under the active version, which is its own.                   *)
LEMMA ActiveConfigTyped ==
  ASSUME RegistryInv
  PROVE  /\ ActiveConfig \in Configs
         /\ ActiveConfig.version = active
         /\ configs[ActiveConfig.version] = ActiveConfig
         /\ ActiveConfig # NoConfig
<1>1. active \in Versions /\ Registered(active)
  <2>1. Len(history) \in 1..Len(history)
    BY DEF RegistryInv, RegistryTypeOK, EveryRollbackTargetIsRegistered
  <2> QED
    BY <2>1
    DEF RegistryInv, RegistryTypeOK, EveryRollbackTargetIsRegistered, Top
<1>2. ActiveConfig = configs[active] /\ configs[active] # NoConfig
  BY <1>1 DEF ActiveConfig, Registered
<1>3. configs[active] \in Configs
  BY <1>1, <1>2 DEF RegistryInv, RegistryTypeOK
<1>4. configs[active].version = active
  BY <1>1 DEF RegistryInv, StoredUnderOwnVersion
<1> QED BY <1>2, <1>3, <1>4

(* A scored request is well typed.                                         *)
LEMMA EvaluationTyped ==
  ASSUME RiskInv, now < MaxRequests,
         NEW body \in Bodies, NEW graphFailed \in BOOLEAN
  PROVE  /\ ScoreOf(body) \in Percent
         /\ EvidenceQuality(body, graphFailed) \in Percent
         /\ ReplyTo(body, graphFailed) \in Decision
         /\ Recordable(ActionOn(body, graphFailed))
              => SnapshotOf(body, graphFailed) \in Snapshot
<1>1. /\ body.merchant \in Merchants /\ body.txn \in Txns
      /\ body.profile \in Profiles
  BY RiskAssumption DEF Body
<1>2. ActiveConfig \in Configs /\ ActiveConfig.weights \in Weights
      /\ ActiveConfig.version \in Versions
  BY ActiveConfigTyped, RiskAssumption DEF RiskInv, Config
<1>3. ScoreOf(body) \in Percent
  BY <1>1, <1>2, RiskAssumption DEF ScoreOf
<1>4. EvidenceQuality(body, graphFailed) \in Percent
  <2>1. Quality[body.profile] \in 0..100
    BY <1>1, RiskAssumption DEF Percent
  <2> QED BY <2>1 DEF EvidenceQuality, Percent
<1>5. ActionOn(body, graphFailed) \in Actions \cup {"MANUAL_HOLD"}
  BY ActionsTyped DEF ActionOn
<1>6. now + 1 \in 1..MaxRequests
  BY RiskAssumption DEF RiskInv, RiskTypeOK
<1>7. ReplyTo(body, graphFailed) \in Decision
  BY <1>1, <1>3, <1>5, <1>6 DEF ReplyTo, Decision, Recordable
<1>8. Recordable(ActionOn(body, graphFailed))
        => SnapshotOf(body, graphFailed) \in Snapshot
  BY <1>1, <1>2, <1>3, <1>4 DEF SnapshotOf, Snapshot, Recordable
<1> QED BY <1>3, <1>4, <1>7, <1>8

(* So is the snapshot of a session.                                        *)
LEMMA SessionTyped ==
  ASSUME NEW s \in Sessions
  PROVE  SessionSnapshot(s) \in Snapshot /\ s.txn \in Txns
<1>1. /\ s.merchant \in Merchants /\ s.txn \in Txns /\ s.profile \in Profiles
      /\ DefaultConfig.version \in Versions
  BY RiskAssumption, FreshRegistryIsTyped DEF Session
<1>2. SessionAction(s.profile) \in Actions
  BY ActionsTyped DEF SessionAction, Actions
<1> QED BY <1>1, <1>2, RiskAssumption DEF SessionSnapshot, Snapshot

-----------------------------------------------------------------------------
(* Steps.                                                                  *)

(* What every answer does to the clock and to the set of answers.          *)
LEMMA AnsweredStep ==
  ASSUME RiskInv, NEW key \in Keys \cup {NoKey}, NEW body \in Bodies,
         NEW reply \in Decision \cup {Conflict}, Answered(key, body, reply)
  PROVE  LET n == [key |-> key, payload |-> Parsed(body),
                   time |-> now + 1, reply |-> reply]
         IN /\ Parsed(body) \in Payloads /\ Parsed(body).body = body
            /\ n \in Answer
            /\ answers' = answers \cup {n}
            /\ answers' \subseteq Answer
            /\ \A a \in answers' : a.time <= now'
            /\ ThisLife' = ThisLife \cup {n}
            /\ now' \in 0..MaxRequests /\ started' \in 0..now'
            /\ RegistryInv' /\ configs' = configs
<1> DEFINE n == [key |-> key, payload |-> Parsed(body),
                 time |-> now + 1, reply |-> reply]
<1>1. /\ now \in Nat /\ started \in 0..now /\ now < MaxRequests
      /\ now' = now + 1 /\ started' = started
      /\ answers' = answers \cup {n}
      /\ UNCHANGED registryVars
  BY RiskAssumption DEF RiskInv, RiskTypeOK, Answered
<1>2. Parsed(body) \in Payloads /\ Parsed(body).body = body
  BY <1>1, RiskAssumption DEF Parsed, Payloads
<1>3. n \in Answer
  BY <1>1, <1>2, RiskAssumption DEF Answer
<1>4. answers' \subseteq Answer /\ \A a \in answers' : a.time <= now'
  <2>1. \A a \in answers : a.time <= now /\ a.time \in Nat
    BY RiskAssumption DEF RiskInv, RiskTypeOK, Answer
  <2> QED BY <1>1, <1>3, <2>1 DEF RiskInv, RiskTypeOK
<1>5. ThisLife' = ThisLife \cup {n}
  BY <1>1 DEF ThisLife
<1>6. now' \in 0..MaxRequests /\ started' \in 0..now'
  BY <1>1, RiskAssumption
<1>7. RegistryInv' /\ configs' = configs
  BY <1>1
  DEF registryVars, RiskInv, RegistryInv, RegistryTypeOK, NoRepeatedPromotion,
      EveryRollbackTargetIsRegistered, StoredUnderOwnVersion, Registered, Top
<1> QED BY <1>1, <1>2, <1>3, <1>4, <1>5, <1>6, <1>7

(* An answer that leaves the stores alone: a cached one or a refusal.      *)
LEMMA CachedStep ==
  ASSUME RiskInv, NEW key \in Keys \cup {NoKey}, NEW body \in Bodies,
         AnswerFromCache(key, body) \/ RefuseConflict(key, body)
  PROVE  RiskInv'
<1> DEFINE r == idempotency[body.merchant][key]
<1>1. /\ body.merchant \in Merchants /\ key \in Keys
      /\ r # NoRecord /\ UNCHANGED stores
  BY RiskAssumption DEF AnswerFromCache, RefuseConflict, Known, Body
<1>2. r \in Record
  BY <1>1 DEF RiskInv, RiskTypeOK
<1>3. PICK reply \in Decision \cup {Conflict} :
        /\ Answered(key, body, reply)
        /\ reply # Conflict => reply = r.reply /\ r.payload = Parsed(body)
        /\ reply = Conflict => r.payload # Parsed(body)
  <2>1. CASE AnswerFromCache(key, body)
    <3>1. r.reply \in Decision
      BY <1>2 DEF Record
    <3>2. r.reply # Conflict
      BY <3>1, RiskAssumption
    <3> QED BY <2>1, <3>1, <3>2 DEF AnswerFromCache, SamePayload
  <2>2. CASE RefuseConflict(key, body)
    BY <2>2 DEF RefuseConflict, SamePayload
  <2> QED BY <2>1, <2>2
<1> DEFINE n == [key |-> key, payload |-> Parsed(body),
                 time |-> now + 1, reply |-> reply]
<1>4. /\ Parsed(body).body = body /\ n \in Answer
      /\ answers' \subseteq Answer /\ \A a \in answers' : a.time <= now'
      /\ ThisLife' = ThisLife \cup {n}
      /\ now' \in 0..MaxRequests /\ started' \in 0..now' /\ RegistryInv'
  BY <1>3, AnsweredStep
<1>5. RiskTypeOK'
  BY <1>1, <1>4 DEF RiskInv, RiskTypeOK, stores
<1>6. RecordsAreAnswers'
  BY <1>1, <1>4 DEF RiskInv, RecordsAreAnswers, stores
<1>7. AnswersAreRecorded'
  <2> SUFFICES ASSUME NEW a \in ThisLife', a.key # NoKey, a.reply # Conflict
               PROVE  LET q == idempotency[a.payload.body.merchant][a.key]
                      IN q # NoRecord /\ q.payload = a.payload /\ q.reply = a.reply
    BY <1>1 DEF AnswersAreRecorded, IsDecision, stores
  <2>1. CASE a \in ThisLife
    BY <2>1 DEF RiskInv, AnswersAreRecorded, IsDecision
  <2>2. CASE a = n
    BY <2>2, <1>1, <1>3, <1>4
  <2> QED BY <1>4, <2>1, <2>2
<1>8. AuditedHasCreationEvent'
  BY <1>1 DEF RiskInv, AuditedHasCreationEvent, Audited, stores
<1>9. ConflictIsJustified'
  <2> SUFFICES ASSUME NEW a \in ThisLife', a.reply = Conflict
               PROVE  \E b \in ThisLife' :
                         SameRecord(a, b) /\ IsDecision(b) /\ b.payload # a.payload
    BY DEF ConflictIsJustified, IsDecision, SameRecord
  <2>1. CASE a \in ThisLife
    BY <2>1, <1>4 DEF RiskInv, ConflictIsJustified, IsDecision
  <2>2. CASE a = n
    <3>1. PICK b \in ThisLife :
            /\ b.key = key /\ b.payload.body.merchant = body.merchant
            /\ b.payload = r.payload /\ b.reply = r.reply
      BY <1>1 DEF RiskInv, RecordsAreAnswers
    <3>2. b.reply # Conflict
      BY <1>2, <3>1, RiskAssumption DEF Record
    <3>3. b.payload # a.payload
      BY <1>3, <2>2, <3>1
    <3>4. SameRecord(a, b)
      BY <1>1, <1>4, <2>2, <3>1, RiskAssumption DEF SameRecord
    <3> QED BY <1>4, <3>2, <3>3, <3>4 DEF IsDecision
  <2> QED BY <1>4, <2>1, <2>2
<1> QED BY <1>4, <1>5, <1>6, <1>7, <1>8, <1>9 DEF RiskInv

(* A decision is remembered under its key, which was not in use, and its   *)
(* event and its snapshot are stored.                                      *)
LEMMA EvaluateStep ==
  ASSUME RiskInv, NEW key \in Keys \cup {NoKey}, NEW body \in Bodies,
         NEW graphFailed \in BOOLEAN, Evaluate(key, body, graphFailed)
  PROVE  RiskInv'
<1> DEFINE m == body.merchant
           reply == ReplyTo(body, graphFailed)
           n == [key |-> key, payload |-> Parsed(body),
                 time |-> now + 1, reply |-> reply]
           r == [payload |-> Parsed(body), reply |-> reply]
<1>1. /\ m \in Merchants /\ body.txn \in Txns
      /\ now < MaxRequests
      /\ Answered(key, body, reply)
  BY RiskAssumption DEF Evaluate, Answered, Body
<1>2. /\ reply \in Decision
      /\ Recordable(ActionOn(body, graphFailed))
           => SnapshotOf(body, graphFailed) \in Snapshot
  BY <1>1, EvaluationTyped
<1>3. /\ Parsed(body) \in Payloads /\ Parsed(body).body = body
      /\ n \in Answer /\ answers' \subseteq Answer
      /\ \A a \in answers' : a.time <= now'
      /\ ThisLife' = ThisLife \cup {n}
      /\ now' \in 0..MaxRequests /\ started' \in 0..now' /\ RegistryInv'
  <2> HIDE DEF reply
  <2> QED BY <1>1, <1>2, AnsweredStep
<1>4. r \in Record /\ r # NoRecord
  BY <1>2, <1>3, RiskAssumption DEF Record
<1> HIDE DEF reply
<1>5. /\ idempotency' \in [Merchants -> [Keys -> Record \cup {NoRecord}]]
      /\ \A p \in Merchants, k \in Keys :
            idempotency'[p][k] = IF p = m /\ k = key THEN r ELSE idempotency[p][k]
      /\ key = NoKey => idempotency' = idempotency
  <2>1. CASE key = NoKey
    <3>1. idempotency' = idempotency
      BY <2>1 DEF Evaluate, Remember
    <3> QED BY <2>1, <3>1, RiskAssumption DEF RiskInv, RiskTypeOK
  <2>2. CASE key # NoKey
    <3>1. idempotency' = [idempotency EXCEPT ![m][key] = r]
      BY <2>2 DEF Evaluate, Remember, reply
    <3> QED BY <2>2, <3>1, <1>1, <1>4 DEF RiskInv, RiskTypeOK
  <2> QED BY <2>1, <2>2
<1>6. /\ events' \in [Txns -> Merchants \cup {NoRecord}]
      /\ events'[body.txn] # NoRecord
      /\ \A t \in Txns : events[t] # NoRecord => events'[t] # NoRecord
  <2>1. events \in [Txns -> Merchants \cup {NoRecord}] /\ m # NoRecord
    BY <1>1, RiskAssumption DEF RiskInv, RiskTypeOK
  <2> QED BY <1>1, <2>1 DEF Evaluate, CreateEvent
<1>7. /\ snapshots' \in [Txns -> Snapshot \cup {NoRecord}]
      /\ \A t \in Txns : t # body.txn => snapshots'[t] = snapshots[t]
  <2>1. snapshots \in [Txns -> Snapshot \cup {NoRecord}]
    BY DEF RiskInv, RiskTypeOK
  <2> QED BY <1>1, <1>2, <2>1 DEF Evaluate
<1>8. RiskTypeOK'
  BY <1>3, <1>5, <1>6, <1>7 DEF RiskTypeOK
<1>9. RecordsAreAnswers'
  <2> SUFFICES ASSUME NEW p \in Merchants, NEW k \in Keys,
                      idempotency'[p][k] # NoRecord
               PROVE  \E b \in ThisLife' :
                         /\ b.key = k /\ b.payload.body.merchant = p
                         /\ b.payload = idempotency'[p][k].payload
                         /\ b.reply = idempotency'[p][k].reply
    BY DEF RecordsAreAnswers
  <2>1. CASE p = m /\ k = key
    <3>1. idempotency'[p][k] = r /\ n \in ThisLife'
      BY <2>1, <1>3, <1>5
    <3>2. n.key = k /\ n.payload.body.merchant = p
          /\ n.payload = r.payload /\ n.reply = r.reply
      BY <2>1, <1>3
    <3> QED BY <3>1, <3>2
  <2>2. CASE ~(p = m /\ k = key)
    <3>1. idempotency'[p][k] = idempotency[p][k]
      BY <2>2, <1>5
    <3> QED BY <3>1, <1>3 DEF RiskInv, RecordsAreAnswers
  <2> QED BY <2>1, <2>2
<1>10. AnswersAreRecorded'
  <2> SUFFICES ASSUME NEW a \in ThisLife', a.key # NoKey, a.reply # Conflict
               PROVE  LET q == idempotency'[a.payload.body.merchant][a.key]
                      IN q # NoRecord /\ q.payload = a.payload /\ q.reply = a.reply
    BY DEF AnswersAreRecorded, IsDecision
  <2>1. CASE a = n
    <3>1. a.key = key /\ key \in Keys /\ a.payload.body.merchant = m
      BY <2>1, <1>3
    <3>2. idempotency'[m][key] = r
      BY <3>1, <1>1, <1>5
    <3> QED BY <3>1, <3>2, <2>1, <1>4
  <2>2. CASE a \in ThisLife
    <3> DEFINE p == a.payload.body.merchant
    <3>1. p \in Merchants /\ a.key \in Keys
      <4>1. a \in Answer
        BY <2>2 DEF ThisLife, RiskInv, RiskTypeOK
      <4> QED BY <4>1, RiskAssumption DEF Answer, Payloads, Body
    <3>2. /\ idempotency[p][a.key] # NoRecord
          /\ idempotency[p][a.key].payload = a.payload
          /\ idempotency[p][a.key].reply = a.reply
      BY <2>2 DEF RiskInv, AnswersAreRecorded, IsDecision
    <3>3. ~(p = m /\ a.key = key)
      BY <3>1, <3>2 DEF Evaluate, Known
    <3>4. idempotency'[p][a.key] = idempotency[p][a.key]
      BY <3>1, <3>3, <1>5
    <3> QED BY <3>2, <3>4
  <2> QED BY <1>3, <2>1, <2>2
<1>11. AuditedHasCreationEvent'
  BY <1>6, <1>7 DEF RiskInv, AuditedHasCreationEvent, Audited
<1>12. ConflictIsJustified'
  <2> SUFFICES ASSUME NEW a \in ThisLife', a.reply = Conflict
               PROVE  \E b \in ThisLife' :
                         SameRecord(a, b) /\ IsDecision(b) /\ b.payload # a.payload
    BY DEF ConflictIsJustified, IsDecision, SameRecord
  <2>1. a \in ThisLife
    BY <1>2, <1>3, RiskAssumption
  <2> QED BY <2>1, <1>3 DEF RiskInv, ConflictIsJustified, IsDecision
<1> QED BY <1>3, <1>8, <1>9, <1>10, <1>11, <1>12 DEF RiskInv

(* A session replaces the snapshot of its transaction, by one that is not  *)
(* a decision of evaluate.                                                 *)
LEMMA SessionStep ==
  ASSUME RiskInv, NEW s \in Sessions, EvaluateSession(s)
  PROVE  RiskInv'
<1>1. /\ SessionSnapshot(s) \in Snapshot /\ s.txn \in Txns
      /\ SessionSnapshot(s).source = "session"
  BY SessionTyped DEF SessionSnapshot
<1>2. /\ snapshots' = [snapshots EXCEPT ![s.txn] = SessionSnapshot(s)]
      /\ UNCHANGED <<idempotency, events, answers, now, started>>
      /\ UNCHANGED registryVars
  BY DEF EvaluateSession
<1>3. snapshots \in [Txns -> Snapshot \cup {NoRecord}]
  BY DEF RiskInv, RiskTypeOK
<1>4. snapshots' \in [Txns -> Snapshot \cup {NoRecord}]
  BY <1>1, <1>2, <1>3
<1>5. RiskTypeOK'
  BY <1>2, <1>4 DEF RiskInv, RiskTypeOK
<1>6. RegistryInv'
  BY <1>2
  DEF registryVars, RiskInv, RegistryInv, RegistryTypeOK, NoRepeatedPromotion,
      EveryRollbackTargetIsRegistered, StoredUnderOwnVersion, Registered, Top
<1>7. RecordsAreAnswers' /\ AnswersAreRecorded' /\ ConflictIsJustified'
  BY <1>2
  DEF RiskInv, RecordsAreAnswers, AnswersAreRecorded, ConflictIsJustified,
      ThisLife, IsDecision, SameRecord
<1>8. ASSUME NEW t \in Txns, Audited(t, "evaluate")' PROVE events'[t] # NoRecord
  <2>1. CASE t = s.txn
    BY <2>1, <1>1, <1>2, <1>3, <1>8 DEF Audited
  <2>2. CASE t # s.txn
    BY <2>2, <1>2, <1>3, <1>8 DEF Audited, RiskInv, AuditedHasCreationEvent
  <2> QED BY <2>1, <2>2
<1> QED BY <1>5, <1>6, <1>7, <1>8 DEF RiskInv, AuditedHasCreationEvent

(* A process starts with empty stores and has not answered anything.       *)
LEMMA RestartStep ==
  ASSUME RiskInv, RestartProcess
  PROVE  RiskInv'
<1>1. /\ idempotency' = [m \in Merchants |-> [k \in Keys |-> NoRecord]]
      /\ events' = [t \in Txns |-> NoRecord]
      /\ snapshots' = [t \in Txns |-> NoRecord]
      /\ answers' = answers /\ now' = now /\ started' = now
      /\ FreshRegistry /\ announced' = announced
  BY DEF RestartProcess, FreshStores, Restart
<1>2. RegistryInv'
  <2>1. (announced \subseteq Versions)'
    BY <1>1 DEF RiskInv, RegistryInv, RegistryTypeOK
  <2> QED BY <1>1, <2>1, FreshRegistryInv
<1>3. /\ now \in 0..MaxRequests /\ answers \subseteq Answer
      /\ \A a \in answers : a.time <= now
  BY DEF RiskInv, RiskTypeOK
<1>4. RiskTypeOK'
  BY <1>1, <1>3, RiskAssumption DEF RiskTypeOK
<1>5. ThisLife' = {}
  <2>1. \A a \in answers : a.time \in Nat /\ now \in Nat
    BY <1>3, RiskAssumption DEF Answer
  <2>2. \A a \in answers : ~(a.time > now)
    BY <1>3, <2>1
  <2> QED BY <1>1, <2>2 DEF ThisLife
<1>6. AnswersAreRecorded' /\ ConflictIsJustified'
  BY <1>5 DEF AnswersAreRecorded, ConflictIsJustified
<1>7. RecordsAreAnswers' /\ AuditedHasCreationEvent'
  BY <1>1 DEF RecordsAreAnswers, AuditedHasCreationEvent, Audited
<1> QED BY <1>2, <1>4, <1>6, <1>7 DEF RiskInv

(* A call of the registry leaves the stores alone.                         *)
LEMMA CalibrationStep ==
  ASSUME RiskInv, CalibrationCall
  PROVE  RiskInv'
<1>1. RegistryInv'
  BY RegistryStepInv DEF RiskInv, CalibrationCall
<1>2. UNCHANGED <<idempotency, events, snapshots, answers, now, started>>
  BY DEF CalibrationCall, stores
<1>3. RiskTypeOK'
  BY <1>2 DEF RiskInv, RiskTypeOK
<1>4. /\ RecordsAreAnswers' /\ AnswersAreRecorded' /\ ConflictIsJustified'
      /\ AuditedHasCreationEvent'
  BY <1>2
  DEF RiskInv, RecordsAreAnswers, AnswersAreRecorded, ConflictIsJustified,
      AuditedHasCreationEvent, Audited, ThisLife, IsDecision, SameRecord
<1> QED BY <1>1, <1>3, <1>4 DEF RiskInv

(* Every step keeps the invariant.                                         *)
LEMMA RiskInvStep ==
  ASSUME RiskInv, [Next]_vars
  PROVE  RiskInv'
<1>1. CASE EvaluateRequest
  <2>1. PICK key \in Keys \cup {NoKey}, body \in Bodies :
          \/ AnswerFromCache(key, body)
          \/ RefuseConflict(key, body)
          \/ \E graphFailed \in GraphFaults : Evaluate(key, body, graphFailed)
    BY <1>1 DEF EvaluateRequest
  <2> QED BY <2>1, CachedStep, EvaluateStep, RiskAssumption
<1>2. CASE \E s \in Sessions : EvaluateSession(s)
  BY <1>2, SessionStep
<1>3. CASE CalibrationCall
  BY <1>3, CalibrationStep
<1>4. CASE RestartProcess
  BY <1>4, RestartStep
<1>5. CASE UNCHANGED vars
  <2>1. UNCHANGED registryVars /\ UNCHANGED stores
        /\ UNCHANGED <<answers, now, started>>
    BY <1>5 DEF vars
  <2>2. RegistryInv'
    BY <2>1
    DEF registryVars, RiskInv, RegistryInv, RegistryTypeOK, NoRepeatedPromotion,
        EveryRollbackTargetIsRegistered, StoredUnderOwnVersion, Registered, Top
  <2>3. RiskTypeOK'
    BY <2>1 DEF stores, RiskInv, RiskTypeOK
  <2>4. /\ RecordsAreAnswers' /\ AnswersAreRecorded' /\ ConflictIsJustified'
        /\ AuditedHasCreationEvent'
    BY <2>1
    DEF stores, RiskInv, RecordsAreAnswers, AnswersAreRecorded,
        ConflictIsJustified, AuditedHasCreationEvent, Audited, ThisLife,
        IsDecision, SameRecord
  <2> QED BY <2>2, <2>3, <2>4 DEF RiskInv
<1> QED BY <1>1, <1>2, <1>3, <1>4, <1>5 DEF Next

(* The first process starts with empty stores.                             *)
LEMMA RiskInvInit == Init => RiskInv
<1> SUFFICES ASSUME Init PROVE RiskInv
  OBVIOUS
<1>1. RegistryInv
  BY RegistryInitInv DEF Init
<1>2. /\ idempotency = [m \in Merchants |-> [k \in Keys |-> NoRecord]]
      /\ events = [t \in Txns |-> NoRecord]
      /\ snapshots = [t \in Txns |-> NoRecord]
      /\ answers = {} /\ now = 0 /\ started = 0
  BY DEF Init, FreshStores
<1>3. RiskTypeOK
  BY <1>2, RiskAssumption DEF RiskTypeOK
<1>4. /\ RecordsAreAnswers /\ AnswersAreRecorded /\ ConflictIsJustified
      /\ AuditedHasCreationEvent
  BY <1>2
  DEF RecordsAreAnswers, AnswersAreRecorded, ConflictIsJustified,
      AuditedHasCreationEvent, Audited, ThisLife
<1> QED BY <1>1, <1>3, <1>4 DEF RiskInv

-----------------------------------------------------------------------------
(* Theorems.                                                               *)

(* The inductive invariant of evaluation, sessions, calibration, restarts. *)
THEOREM RiskInvariant == Spec => []RiskInv
<1>1. RiskInv /\ [Next]_vars => RiskInv'
  BY RiskInvStep
<1> QED BY <1>1, RiskInvInit, PTL DEF Spec

(* All stores, answers and clocks are well typed.                          *)
THEOREM RiskTypeCorrect == Spec => []RiskTypeOK
<1>1. RiskInv => RiskTypeOK
  BY DEF RiskInv
<1> QED BY <1>1, RiskInvariant, PTL

(* A process answers one decision per merchant and idempotency key.        *)
THEOREM IdempotentDecisions == Spec => []OneDecisionPerKey
<1>1. RiskInv => OneDecisionPerKey
  <2> SUFFICES ASSUME RiskInv, NEW a \in ThisLife, NEW b \in ThisLife,
                      SameRecord(a, b), IsDecision(a), IsDecision(b)
               PROVE  a.reply = b.reply /\ a.payload = b.payload
    BY DEF OneDecisionPerKey
  <2> QED BY DEF RiskInv, AnswersAreRecorded, SameRecord
<1> QED BY <1>1, RiskInvariant, PTL

(* A 409 is given to a different payload only.                             *)
THEOREM ConflictsAreReal == Spec => []ConflictIsJustified
<1>1. RiskInv => ConflictIsJustified
  BY DEF RiskInv
<1> QED BY <1>1, RiskInvariant, PTL

(* A transaction that evaluate decided has an event on its timeline.       *)
THEOREM TimelinesStart == Spec => []AuditedHasCreationEvent
<1>1. RiskInv => AuditedHasCreationEvent
  BY DEF RiskInv
<1> QED BY <1>1, RiskInvariant, PTL

(* While no version is trained twice, the configuration that a snapshot    *)
(* names stays the one the decision was made with.                         *)
LEMMA AuditedConfigStep ==
  ASSUME VersionsAreUnique, RiskInv, AuditedConfigKept, [Next]_vars
  PROVE  AuditedConfigKept'
<1> DEFINE Kept(s) ==
      /\ s.hash # NoConfig /\ s.hash.version = s.version
      /\ configs[s.version] = s.hash
      /\ s.score = Logistic[s.hash.weights][s.profile]
      /\ s.action = Policy(s.score, s.quality, s.hash)
<1>1. ASSUME NEW t \in Txns, Audited(t, "evaluate")
      PROVE  Kept(snapshots[t])
  BY <1>1 DEF AuditedConfigKept
<1> SUFFICES ASSUME NEW t \in Txns, Audited(t, "evaluate")'
             PROVE  Kept(snapshots[t])'
  BY DEF AuditedConfigKept
<1>2. snapshots \in [Txns -> Snapshot \cup {NoRecord}]
  BY DEF RiskInv, RiskTypeOK
<1>3. CASE CalibrationCall
  <2>1. snapshots' = snapshots /\ Audited(t, "evaluate")
    BY <1>3 DEF CalibrationCall, stores, Audited
  <2> DEFINE s == snapshots[t]
  <2>2. Kept(s) /\ s \in Snapshot
    BY <1>1, <1>2, <2>1 DEF Audited
  <2>3. s.hash \in Configs /\ s.version \in Versions
    BY <2>2 DEF Snapshot
  <2>4. configs'[s.version] = configs[s.version]
    <3>1. CASE \E c \in Configs : Register(c)
      <4>1. PICK c \in Configs : configs' = [configs EXCEPT ![c.version] = c]
        BY <3>1 DEF Register
      <4>2. CASE c.version = s.version
        <5>1. c = s.hash
          BY <4>2, <2>2, <2>3 DEF VersionsAreUnique
        <5> QED
          BY <5>1, <4>1, <4>2, <2>2, <2>3
          DEF RiskInv, RegistryInv, RegistryTypeOK
      <4>3. CASE c.version # s.version
        BY <4>1, <4>3, <2>3 DEF RiskInv, RegistryInv, RegistryTypeOK
      <4> QED BY <4>2, <4>3
    <3>2. CASE (\E v \in Versions : Promote(v)) \/ Rollback
      BY <3>2 DEF Promote, Rollback
    <3> QED BY <1>3, <3>1, <3>2 DEF CalibrationCall, RegistryStep
  <2> QED BY <2>1, <2>2, <2>4
<1>4. ASSUME NEW key \in Keys \cup {NoKey}, NEW body \in Bodies,
             NEW graphFailed \in GraphFaults, Evaluate(key, body, graphFailed)
      PROVE  Kept(snapshots[t])'
  <2>1. configs' = configs /\ body.txn \in Txns
    BY <1>4, RiskAssumption DEF Evaluate, Answered, registryVars, Body
  <2>2. CASE snapshots'[t] = snapshots[t]
    BY <2>1, <2>2, <1>1 DEF Audited
  <2>3. CASE snapshots'[t] # snapshots[t]
    <3>1. snapshots'[t] = SnapshotOf(body, graphFailed)
      BY <1>2, <1>4, <2>1, <2>3 DEF Evaluate
    <3>2. Kept(SnapshotOf(body, graphFailed))
      BY ActiveConfigTyped DEF SnapshotOf, ScoreOf, ActionOn, RiskInv
    <3> QED BY <2>1, <3>1, <3>2
  <2> QED BY <2>2, <2>3
<1>5. CASE \E key \in Keys \cup {NoKey}, body \in Bodies :
             AnswerFromCache(key, body) \/ RefuseConflict(key, body)
  <2>1. configs' = configs /\ snapshots' = snapshots
    BY <1>5 DEF AnswerFromCache, RefuseConflict, Answered, registryVars, stores
  <2> QED BY <2>1, <1>1 DEF Audited
<1>6. ASSUME NEW q \in Sessions, EvaluateSession(q)
      PROVE  Kept(snapshots[t])'
  <2>1. configs' = configs /\ snapshots' = [snapshots EXCEPT ![q.txn] = SessionSnapshot(q)]
    BY <1>6 DEF EvaluateSession, registryVars
  <2>2. snapshots'[t] = snapshots[t]
    <3>1. SessionSnapshot(q).source # "evaluate"
      BY DEF SessionSnapshot
    <3> QED BY <1>2, <2>1, <3>1 DEF Audited
  <2> QED BY <2>1, <2>2, <1>1 DEF Audited
<1>7. CASE RestartProcess
  BY <1>7 DEF RestartProcess, FreshStores, Audited
<1>8. CASE UNCHANGED vars
  <2>1. configs' = configs /\ snapshots' = snapshots
    BY <1>8 DEF vars, registryVars, stores
  <2> QED BY <2>1, <1>1 DEF Audited
<1> QED BY <1>3, <1>4, <1>5, <1>6, <1>7, <1>8 DEF Next, EvaluateRequest

(* While no version is trained twice, every decision of evaluate that the  *)
(* audit store holds is reproduced by its replay, score and action, under  *)
(* any promotions, rollbacks and restarts since.                           *)
THEOREM ReplayIsDeterministic == VersionsAreUnique => (Spec => []EvaluationsReplay)
<1> SUFFICES ASSUME VersionsAreUnique PROVE Spec => []EvaluationsReplay
  OBVIOUS
<1>1. Init => AuditedConfigKept
  BY DEF Init, FreshStores, AuditedConfigKept, Audited
<1>2. RiskInv /\ AuditedConfigKept /\ [Next]_vars => AuditedConfigKept'
  BY AuditedConfigStep
<1>3. RiskInv /\ AuditedConfigKept => EvaluationsReplay
  <2> SUFFICES ASSUME RiskInv, AuditedConfigKept,
                      NEW t \in Txns, Audited(t, "evaluate")
               PROVE  DeterministicMatch(snapshots[t])
    BY DEF EvaluationsReplay
  <2> DEFINE s == snapshots[t]
  <2>1. s \in Snapshot
    BY DEF RiskInv, RiskTypeOK, Audited
  <2>2. /\ s.hash \in Configs /\ s.quality \in Percent /\ s.score \in Percent
        /\ s.action \in Actions
        /\ configs[s.version] = s.hash /\ s.hash # NoConfig
        /\ s.score = Logistic[s.hash.weights][s.profile]
        /\ s.action = Policy(s.score, s.quality, s.hash)
    BY <2>1 DEF AuditedConfigKept, Snapshot
  <2>3. ReplayConfig(s) = s.hash
    BY <2>2 DEF ReplayConfig, Registered
  <2>4. ReplayScore(s) = s.score
    BY <2>2, <2>3 DEF ReplayScore
  <2>5. Policy(s.score, s.quality, s.hash) # "MANUAL_HOLD"
    BY <2>2 DEF Actions
  <2>6. ReplayAction(s) = s.action
    <3> HIDE DEF s
    <3> QED BY <2>2, <2>3, <2>4, <2>5, PoliciesAgree DEF ReplayAction
  <2> QED BY <2>4, <2>6 DEF DeterministicMatch
<1> QED BY <1>1, <1>2, <1>3, RiskInvariant, PTL DEF Spec

-----------------------------------------------------------------------------
(* What the answers and the audit store say of each other.                 *)

(* A stamped body is parsed alike at any time; a snapshot of evaluate is   *)
(* the decision that the configuration named by its hash makes.            *)
StampsAreParsedAlike ==
  \A a \in answers : a.payload.body.stamped => a.payload.time = 0

Decided(s) ==
  /\ s.hash # NoConfig /\ s.hash.version = s.version
  /\ s.score = Logistic[s.hash.weights][s.profile]
  /\ s.action = Policy(s.score, s.quality, s.hash)

SnapshotsAreDecided ==
  \A t \in Txns : Audited(t, "evaluate") => Decided(snapshots[t])

AuditInv == StampsAreParsedAlike /\ DecisionsAreAudited /\ SnapshotsAreDecided

(* A new answer adds to what is said of the answers only what it says      *)
(* itself, if no snapshot is removed.                                      *)
LEMMA AuditedAnswer ==
  ASSUME RiskInv, AuditInv, NEW key \in Keys \cup {NoKey}, NEW body \in Bodies,
         NEW reply \in Decision \cup {Conflict}, Answered(key, body, reply),
         \A t \in Txns : snapshots[t] # NoRecord => snapshots'[t] # NoRecord,
         reply # Conflict /\ reply.action # "MANUAL_HOLD" =>
           reply.recorded /\ snapshots'[reply.txn] # NoRecord
  PROVE  StampsAreParsedAlike' /\ DecisionsAreAudited'
<1> DEFINE n == [key |-> key, payload |-> Parsed(body),
                 time |-> now + 1, reply |-> reply]
<1>1. /\ answers' = answers \cup {n} /\ ThisLife' = ThisLife \cup {n}
      /\ Parsed(body).body = body
  BY AnsweredStep
<1>2. StampsAreParsedAlike'
  <2>1. body.stamped => Parsed(body).time = 0
    BY DEF Parsed
  <2> QED BY <1>1, <2>1 DEF AuditInv, StampsAreParsedAlike
<1>3. DecisionsAreAudited'
  <2> SUFFICES ASSUME NEW a \in ThisLife', a.reply # Conflict,
                      a.reply.action # "MANUAL_HOLD"
               PROVE  a.reply.recorded /\ snapshots'[a.reply.txn] # NoRecord
    BY DEF DecisionsAreAudited, IsDecision
  <2>1. CASE a \in ThisLife
    <3>1. a.reply \in Decision
      BY <2>1 DEF ThisLife, RiskInv, RiskTypeOK, Answer
    <3>2. a.reply.txn \in Txns
      BY <3>1 DEF Decision
    <3>3. a.reply.recorded /\ snapshots[a.reply.txn] # NoRecord
      BY <2>1 DEF AuditInv, DecisionsAreAudited, IsDecision
    <3> QED BY <3>2, <3>3
  <2>2. CASE a = n
    BY <2>2
  <2> QED BY <1>1, <2>1, <2>2
<1> QED BY <1>2, <1>3

LEMMA EvaluateAudits ==
  ASSUME RiskInv, AuditInv, NEW key \in Keys \cup {NoKey}, NEW body \in Bodies,
         NEW graphFailed \in BOOLEAN, Evaluate(key, body, graphFailed)
  PROVE  AuditInv'
<1> DEFINE reply == ReplyTo(body, graphFailed)
           action == ActionOn(body, graphFailed)
           s == SnapshotOf(body, graphFailed)
<1>1. /\ now < MaxRequests /\ Answered(key, body, reply)
      /\ body.txn \in Txns
  BY RiskAssumption DEF Evaluate, Answered, Body
<1>2. reply \in Decision /\ (Recordable(action) => s \in Snapshot)
  BY <1>1, EvaluationTyped
<1>3. /\ reply.txn = body.txn /\ reply.action = action
      /\ reply.recorded = Recordable(action)
      /\ action \in Actions \cup {"MANUAL_HOLD"}
  BY ActionsTyped DEF ReplyTo, ActionOn
<1>4. snapshots' = IF ~Recordable(action) THEN snapshots
                   ELSE [snapshots EXCEPT ![body.txn] = s]
  BY DEF Evaluate
<1>5. snapshots \in [Txns -> Snapshot \cup {NoRecord}]
  BY DEF RiskInv, RiskTypeOK
<1>6. Decided(s)
  BY ActiveConfigTyped DEF Decided, SnapshotOf, ScoreOf, ActionOn, RiskInv
<1> HIDE DEF reply, action, s
<1>7. \A t \in Txns : snapshots[t] # NoRecord => snapshots'[t] # NoRecord
  BY <1>2, <1>4, <1>5, RiskAssumption
<1>8. reply.action # "MANUAL_HOLD" =>
        reply.recorded /\ snapshots'[reply.txn] # NoRecord
  BY <1>1, <1>2, <1>3, <1>4, <1>5, RiskAssumption DEF Recordable
<1>9. StampsAreParsedAlike' /\ DecisionsAreAudited'
  BY <1>1, <1>2, <1>7, <1>8, AuditedAnswer
<1>10. SnapshotsAreDecided'
  <2> SUFFICES ASSUME NEW t \in Txns, Audited(t, "evaluate")'
               PROVE  Decided(snapshots'[t])
    BY DEF SnapshotsAreDecided, Decided
  <2>1. CASE snapshots'[t] = snapshots[t]
    BY <2>1 DEF AuditInv, SnapshotsAreDecided, Audited
  <2>2. CASE snapshots'[t] # snapshots[t]
    BY <1>4, <1>5, <1>6, <2>2
  <2> QED BY <2>1, <2>2
<1> QED BY <1>9, <1>10 DEF AuditInv

(* What comes from the cache was answered before, in the same life.        *)
LEMMA CachedAudits ==
  ASSUME RiskInv, AuditInv, NEW key \in Keys \cup {NoKey}, NEW body \in Bodies,
         AnswerFromCache(key, body) \/ RefuseConflict(key, body)
  PROVE  AuditInv'
<1> DEFINE r == idempotency[body.merchant][key]
<1>1. /\ body.merchant \in Merchants /\ key \in Keys
      /\ r # NoRecord /\ snapshots' = snapshots
  BY RiskAssumption DEF AnswerFromCache, RefuseConflict, Known, Body, stores
<1>2. r.reply \in Decision
  BY <1>1 DEF RiskInv, RiskTypeOK, Record
<1>3. r.reply.action # "MANUAL_HOLD" =>
        r.reply.recorded /\ snapshots[r.reply.txn] # NoRecord
  <2>1. PICK b \in ThisLife : b.reply = r.reply
    BY <1>1 DEF RiskInv, RecordsAreAnswers
  <2>2. IsDecision(b)
    BY <1>2, <2>1, RiskAssumption DEF IsDecision
  <2> QED BY <2>1, <2>2 DEF AuditInv, DecisionsAreAudited
<1>4. StampsAreParsedAlike' /\ DecisionsAreAudited'
  <2>1. CASE AnswerFromCache(key, body)
    <3>1. Answered(key, body, r.reply)
      BY <2>1 DEF AnswerFromCache
    <3> HIDE DEF r
    <3> QED BY <1>1, <1>2, <1>3, <3>1, AuditedAnswer
  <2>2. CASE RefuseConflict(key, body)
    <3>1. Answered(key, body, Conflict)
      BY <2>2 DEF RefuseConflict
    <3> QED BY <1>1, <3>1, AuditedAnswer
  <2> QED BY <2>1, <2>2
<1>5. SnapshotsAreDecided'
  BY <1>1 DEF AuditInv, SnapshotsAreDecided, Audited, Decided
<1> QED BY <1>4, <1>5 DEF AuditInv

(* The other steps answer nothing; a session overwrites a snapshot with    *)
(* one of its own, and a restart leaves neither snapshots nor answers.     *)
LEMMA QuietAudits ==
  ASSUME RiskInv, AuditInv,
         \/ \E s \in Sessions : EvaluateSession(s)
         \/ CalibrationCall \/ RestartProcess \/ UNCHANGED vars
  PROVE  AuditInv'
<1>1. answers' = answers
  BY DEF EvaluateSession, CalibrationCall, RestartProcess, vars
<1>2. StampsAreParsedAlike'
  BY <1>1 DEF AuditInv, StampsAreParsedAlike
<1>3. ASSUME NEW q \in Sessions, EvaluateSession(q)
      PROVE  DecisionsAreAudited' /\ SnapshotsAreDecided'
  <2>1. /\ q.txn \in Txns /\ SessionSnapshot(q) \in Snapshot
        /\ SessionSnapshot(q).source = "session"
    BY SessionTyped DEF SessionSnapshot
  <2>2. /\ snapshots \in [Txns -> Snapshot \cup {NoRecord}]
        /\ snapshots' = [snapshots EXCEPT ![q.txn] = SessionSnapshot(q)]
        /\ now' = now /\ started' = started
    BY <1>3 DEF EvaluateSession, RiskInv, RiskTypeOK
  <2>3. \A t \in Txns : snapshots[t] # NoRecord => snapshots'[t] # NoRecord
    BY <2>1, <2>2, RiskAssumption
  <2>4. DecisionsAreAudited'
    <3> SUFFICES ASSUME NEW a \in ThisLife, a.reply # Conflict,
                        a.reply.action # "MANUAL_HOLD"
                 PROVE  a.reply.recorded /\ snapshots'[a.reply.txn] # NoRecord
      BY <1>1, <2>2 DEF DecisionsAreAudited, IsDecision, ThisLife
    <3>1. a.reply \in Decision
      BY DEF ThisLife, RiskInv, RiskTypeOK, Answer
    <3>2. a.reply.txn \in Txns
      BY <3>1 DEF Decision
    <3> QED BY <2>3, <3>2 DEF AuditInv, DecisionsAreAudited, IsDecision
  <2>5. SnapshotsAreDecided'
    <3> SUFFICES ASSUME NEW t \in Txns, Audited(t, "evaluate")'
                 PROVE  Decided(snapshots'[t])
      BY DEF SnapshotsAreDecided, Decided
    <3>1. snapshots'[t] = snapshots[t]
      BY <2>1, <2>2 DEF Audited
    <3> QED BY <3>1 DEF AuditInv, SnapshotsAreDecided, Audited
  <2> QED BY <2>4, <2>5
<1>4. CASE CalibrationCall \/ UNCHANGED vars
  <2>1. snapshots' = snapshots /\ now' = now /\ started' = started
    BY <1>4 DEF CalibrationCall, vars, stores
  <2> QED BY <1>1, <1>2, <2>1
          DEF AuditInv, DecisionsAreAudited, SnapshotsAreDecided, ThisLife,
              Audited, Decided, IsDecision
<1>5. CASE RestartProcess
  <2>1. snapshots' = [t \in Txns |-> NoRecord] /\ started' = now
    BY <1>5 DEF RestartProcess, FreshStores
  <2>2. \A a \in answers : ~(a.time > now)
    <3>1. \A a \in answers : a.time \in Nat /\ a.time <= now /\ now \in Nat
      BY RiskAssumption DEF RiskInv, RiskTypeOK, Answer
    <3> QED BY <3>1
  <2> QED BY <1>1, <1>2, <2>1, <2>2
          DEF AuditInv, DecisionsAreAudited, SnapshotsAreDecided, ThisLife,
              Audited
<1> QED BY <1>2, <1>3, <1>4, <1>5 DEF AuditInv, RestartProcess

LEMMA AuditInvariant == Spec => []AuditInv
<1>1. Init => AuditInv
  BY DEF Init, FreshStores, AuditInv, StampsAreParsedAlike,
         DecisionsAreAudited, SnapshotsAreDecided, ThisLife, Audited
<1>2. RiskInv /\ AuditInv /\ [Next]_vars => AuditInv'
  <2> SUFFICES ASSUME RiskInv, AuditInv, [Next]_vars PROVE AuditInv'
    OBVIOUS
  <2>1. CASE EvaluateRequest
    <3>1. PICK key \in Keys \cup {NoKey}, body \in Bodies :
            \/ AnswerFromCache(key, body)
            \/ RefuseConflict(key, body)
            \/ \E graphFailed \in GraphFaults : Evaluate(key, body, graphFailed)
      BY <2>1 DEF EvaluateRequest
    <3> QED BY <3>1, CachedAudits, EvaluateAudits, RiskAssumption
  <2> QED BY <2>1, QuietAudits DEF Next
<1> QED BY <1>1, <1>2, RiskInvariant, PTL DEF Spec

(* Every decision that a process has answered and that is not a            *)
(* MANUAL_HOLD has a snapshot: the hold is the only decision that can be   *)
(* missing from the audit store while the process lives.                   *)
THEOREM OnlyHoldsAreUnaudited == Spec => []DecisionsAreAudited
<1>1. AuditInv => DecisionsAreAudited
  BY DEF AuditInv
<1> QED BY <1>1, AuditInvariant, PTL

(* A stamped body gets one answer per key and process.                     *)
THEOREM StampedRetriesAgree == Spec => []StampedRetryIsCached
<1>1. RiskInv /\ AuditInv => StampedRetryIsCached
  <2> SUFFICES ASSUME RiskInv, AuditInv, NEW a \in ThisLife, NEW b \in ThisLife,
                      SameRecord(a, b), a.payload.body = b.payload.body,
                      a.payload.body.stamped
               PROVE  a.reply = b.reply
    BY DEF StampedRetryIsCached
  <2>1. a.payload = b.payload
    <3>1. a \in answers /\ b \in answers
      BY DEF ThisLife
    <3>2. a.payload \in Payloads /\ b.payload \in Payloads
      BY <3>1 DEF RiskInv, RiskTypeOK, Answer
    <3>3. a.payload.time = 0 /\ b.payload.time = 0
      BY <3>1 DEF AuditInv, StampsAreParsedAlike
    <3> QED BY <3>2, <3>3 DEF Payloads
  <2>2. ASSUME NEW c \in ThisLife, NEW d \in ThisLife, SameRecord(c, d),
               c.payload = d.payload, IsDecision(c)
        PROVE  IsDecision(d)
    <3> SUFFICES ASSUME ~IsDecision(d) PROVE FALSE
      OBVIOUS
    <3>1. PICK e \in ThisLife :
            SameRecord(d, e) /\ IsDecision(e) /\ e.payload # d.payload
      BY DEF RiskInv, ConflictIsJustified
    <3>2. SameRecord(c, e)
      BY <2>2, <3>1 DEF SameRecord
    <3> QED BY <2>2, <3>1, <3>2
            DEF RiskInv, AnswersAreRecorded, SameRecord
  <2>3. SameRecord(b, a)
    BY DEF SameRecord
  <2>4. CASE IsDecision(a)
    <3>1. IsDecision(b)
      BY <2>1, <2>2, <2>4
    <3> QED BY <2>4, <3>1 DEF RiskInv, AnswersAreRecorded, SameRecord
  <2>5. CASE ~IsDecision(a)
    BY <2>1, <2>2, <2>3, <2>5 DEF IsDecision
  <2> QED BY <2>4, <2>5
<1> QED BY <1>1, RiskInvariant, AuditInvariant, PTL

(* With versions trained twice, too: a replay that comes out differently   *)
(* names a version whose configuration has been replaced.                  *)
THEOREM OnlyReplacedConfigsDiverge == Spec => []MismatchIsExplained
<1>1. RiskInv /\ AuditInv => MismatchIsExplained
  <2> SUFFICES ASSUME RiskInv, AuditInv, NEW t \in Txns, Audited(t, "evaluate"),
                      configs[snapshots[t].version] = snapshots[t].hash
               PROVE  DeterministicMatch(snapshots[t])
    BY DEF MismatchIsExplained
  <2> DEFINE s == snapshots[t]
  <2>1. s \in Snapshot /\ Decided(s)
    BY DEF RiskInv, RiskTypeOK, Audited, AuditInv, SnapshotsAreDecided
  <2> HIDE DEF s
  <2>2. ReplayConfig(s) = s.hash /\ s.hash \in Configs
    BY <2>1 DEF Decided, Snapshot, ReplayConfig, Registered, s
  <2>3. ReplayScore(s) = s.score
    BY <2>1, <2>2 DEF Decided, ReplayScore
  <2>4. s.score \in Percent /\ s.quality \in Percent /\ s.action \in Actions
    BY <2>1 DEF Snapshot
  <2>5. ReplayAction(s) = s.action
    BY <2>1, <2>2, <2>3, <2>4, PoliciesAgree DEF Decided, ReplayAction, Actions
  <2> QED BY <2>3, <2>5 DEF DeterministicMatch, s
<1> QED BY <1>1, RiskInvariant, AuditInvariant, PTL

-----------------------------------------------------------------------------
(* The registry in the server.                                             *)

(* Around the stores of evaluation the registry behaves as it does alone:  *)
(* no request or session touches it, and a restart makes it anew.          *)
THEOREM ServerKeepsRegistry == Spec => RegistrySpec
<1>1. Init => RegistryInit
  BY DEF Init
<1>2. [Next]_vars => [RegistryNext]_registryVars
  BY DEF Next, EvaluateRequest, AnswerFromCache, RefuseConflict, Evaluate,
         Answered, EvaluateSession, CalibrationCall, RestartProcess,
         RegistryNext, vars
<1> QED BY <1>1, <1>2, PTL DEF Spec, RegistrySpec

(* In the running server, too, every rollback target is registered.        *)
THEOREM ServerRollbackTargets == Spec => []EveryRollbackTargetIsRegistered
<1> QED BY ServerKeepsRegistry, RollbackTargetsExist, PTL

(* And a rollback leaves the version that was active.                      *)
THEOREM ServerRollbackMovesAway == Spec => RollbackLeavesActive
<1> QED BY ServerKeepsRegistry, RollbackMovesAway, PTL

-----------------------------------------------------------------------------
(* Refinement: the route implements the ledger of DecisionLedger.          *)

(* The variables of the ledger.                                            *)
SlotsOf(cache) == [slot \in Merchants \X Keys |-> cache[slot[1]][slot[2]]]

LEMMA LedgerUnchanged ==
  ASSUME SlotsOf(idempotency') = SlotsOf(idempotency),
         LettersOf(answers') = LettersOf(answers)
  PROVE  UNCHANGED Ledger!ledgerVars
<1> QED BY DEF Ledger!ledgerVars, SlotsOf

(* An answer to a keyed request is a letter, one without a key is not.     *)
LEMMA LettersGrow ==
  ASSUME NEW set, NEW n
  PROVE  /\ n.key = NoKey => LettersOf(set \cup {n}) = LettersOf(set)
         /\ n.key # NoKey =>
              LettersOf(set \cup {n}) = LettersOf(set) \cup
                {Ledger!Letter(<<n.payload.body.merchant, n.key>>,
                               n.payload, n.reply)}
<1>1. CASE n.key = NoKey
  <2>1. {b \in set \cup {n} : b.key # NoKey} = {b \in set : b.key # NoKey}
    BY <1>1
  <2> QED BY <1>1, <2>1 DEF LettersOf
<1>2. CASE n.key # NoKey
  <2>1. {b \in set \cup {n} : b.key # NoKey}
          = {b \in set : b.key # NoKey} \cup {n}
    BY <1>2
  <2> QED BY <1>2, <2>1 DEF LettersOf, Ledger!Letter
<1> QED BY <1>1, <1>2

(* A record is written where there was none: the ledger decides.           *)
LEMMA EvaluateDecides ==
  ASSUME RiskInv, NEW key \in Keys \cup {NoKey}, NEW body \in Bodies,
         NEW graphFailed \in BOOLEAN, Evaluate(key, body, graphFailed)
  PROVE  [Ledger!LedgerNext]_(Ledger!ledgerVars)
<1> DEFINE m == body.merchant
           reply == ReplyTo(body, graphFailed)
           r == [payload |-> Parsed(body), reply |-> reply]
           n == [key |-> key, payload |-> Parsed(body),
                 time |-> now + 1, reply |-> reply]
<1>1. /\ m \in Merchants /\ now < MaxRequests /\ ~Known(key, body)
      /\ Answered(key, body, reply) /\ Remember(key, body, reply)
  BY RiskAssumption DEF Evaluate, Answered, Body
<1>2. reply \in Decision
  BY <1>1, EvaluationTyped
<1> HIDE DEF reply
<1>3. /\ Parsed(body) \in Payloads /\ Parsed(body).body = body
      /\ answers' = answers \cup {n}
  BY <1>1, <1>2, AnsweredStep
<1>4. CASE key = NoKey
  <2>1. idempotency' = idempotency
    BY <1>1, <1>4 DEF Remember
  <2>2. LettersOf(answers') = LettersOf(answers)
    BY <1>3, <1>4, LettersGrow
  <2> QED BY <2>1, <2>2, LedgerUnchanged
<1>5. CASE key # NoKey
  <2> DEFINE slot == <<m, key>>
             old == SlotsOf(idempotency)
             new == SlotsOf(idempotency')
  <2>1. slot \in Merchants \X Keys /\ slot[1] = m /\ slot[2] = key
    BY <1>1, <1>5
  <2>2. idempotency' = [idempotency EXCEPT ![m][key] = r]
    BY <1>1, <1>5 DEF Remember
  <2>3. idempotency \in [Merchants -> [Keys -> Record \cup {NoRecord}]]
    BY DEF RiskInv, RiskTypeOK
  <2>4. old[slot] = NoRecord
    BY <1>1, <1>5, <2>1 DEF Known, SlotsOf
  <2>5. new[slot] = r
    BY <2>1, <2>2, <2>3, <1>1 DEF SlotsOf
  <2>6. \A q \in Merchants \X Keys : q # slot => new[q] = old[q]
    <3> SUFFICES ASSUME NEW q \in Merchants \X Keys, q # slot
                 PROVE  idempotency'[q[1]][q[2]] = idempotency[q[1]][q[2]]
      BY DEF SlotsOf
    <3>1. q[1] \in Merchants /\ q[2] \in Keys /\ ~(q[1] = m /\ q[2] = key)
      OBVIOUS
    <3> QED BY <2>2, <2>3, <3>1
  <2>7. new = [old EXCEPT ![slot] = r]
    BY <2>1, <2>5, <2>6 DEF SlotsOf
  <2>8. LettersOf(answers') = LettersOf(answers) \cup
          {Ledger!Letter(slot, Parsed(body), reply)}
    <3>1. n.key = key /\ n.payload = Parsed(body) /\ n.reply = reply
      OBVIOUS
    <3> HIDE DEF n
    <3> QED BY <1>3, <1>5, <3>1, LettersGrow
  <2>9. r \in [payload : Payloads, reply : Decision]
    BY <1>2, <1>3
  <2>10. r.payload = Parsed(body) /\ r.reply = reply
    OBVIOUS
  <2> HIDE DEF slot, r
  <2>11. Ledger!Decide(slot)
    BY <2>4, <2>5, <2>7, <2>8, <2>9, <2>10
    DEF Ledger!Decide, Ledger!Send, SlotsOf
  <2> QED BY <2>1, <2>11 DEF Ledger!LedgerNext, slot
<1> QED BY <1>4, <1>5

(* A retry adds no letter: the one it repeats is out, as RecordsAreAnswers *)
(* tells; and what conflicts is refused by the ledger, too.                *)
LEMMA CachedRepeats ==
  ASSUME RiskInv, NEW key \in Keys \cup {NoKey}, NEW body \in Bodies,
         AnswerFromCache(key, body) \/ RefuseConflict(key, body)
  PROVE  [Ledger!LedgerNext]_(Ledger!ledgerVars)
<1> DEFINE r == idempotency[body.merchant][key]
           slot == <<body.merchant, key>>
<1>1. /\ body.merchant \in Merchants /\ key \in Keys /\ key # NoKey
      /\ r # NoRecord /\ idempotency' = idempotency
  BY RiskAssumption DEF AnswerFromCache, RefuseConflict, Known, Body, stores
<1>2. r \in Record
  BY <1>1 DEF RiskInv, RiskTypeOK
<1>3. CASE AnswerFromCache(key, body)
  <2>1. Answered(key, body, r.reply) /\ r.payload = Parsed(body)
        /\ r.reply \in Decision
    BY <1>2, <1>3 DEF AnswerFromCache, SamePayload, Record
  <2> DEFINE n == [key |-> key, payload |-> Parsed(body),
                   time |-> now + 1, reply |-> r.reply]
  <2> HIDE DEF r
  <2>2. answers' = answers \cup {n} /\ Parsed(body).body = body
    BY <2>1, AnsweredStep
  <2>3. LettersOf(answers') = LettersOf(answers) \cup
          {Ledger!Letter(slot, Parsed(body), r.reply)}
    <3>1. n.key = key /\ n.payload = Parsed(body) /\ n.reply = r.reply
      OBVIOUS
    <3> HIDE DEF n
    <3> QED BY <1>1, <2>2, <3>1, LettersGrow
  <2>4. PICK b \in ThisLife :
          /\ b.key = key /\ b.payload.body.merchant = body.merchant
          /\ b.payload = r.payload /\ b.reply = r.reply
    BY <1>1 DEF RiskInv, RecordsAreAnswers, r
  <2>5. Ledger!Letter(slot, Parsed(body), r.reply) \in LettersOf(answers)
    BY <1>1, <2>1, <2>4 DEF LettersOf, Ledger!Letter, ThisLife
  <2> QED BY <1>1, <2>3, <2>5, LedgerUnchanged
<1>4. CASE RefuseConflict(key, body)
  <2>1. Answered(key, body, Conflict) /\ r.payload # Parsed(body)
    BY <1>4 DEF RefuseConflict, SamePayload
  <2> DEFINE n == [key |-> key, payload |-> Parsed(body),
                   time |-> now + 1, reply |-> Conflict]
             letter == Ledger!Letter(slot, Parsed(body), Conflict)
  <2>2. /\ answers' = answers \cup {n} /\ Parsed(body).body = body
        /\ Parsed(body) \in Payloads
    BY <2>1, AnsweredStep
  <2>3. LettersOf(answers') = LettersOf(answers) \cup {letter}
    <3>1. n.key = key /\ n.payload = Parsed(body) /\ n.reply = Conflict
      OBVIOUS
    <3> HIDE DEF n
    <3> QED BY <1>1, <2>2, <3>1, LettersGrow
  <2>4. slot \in Merchants \X Keys /\ slot[1] = body.merchant /\ slot[2] = key
    BY <1>1
  <2>5. SlotsOf(idempotency)[slot] = r /\ SlotsOf(idempotency') = SlotsOf(idempotency)
    BY <1>1, <2>4 DEF SlotsOf
  <2> HIDE DEF r, slot
  <2>6. Ledger!Refuse(slot, Parsed(body))
    BY <1>1, <2>1, <2>2, <2>3, <2>4, <2>5
    DEF Ledger!Refuse, Ledger!Send, SlotsOf
  <2>7. letter \in LettersOf(answers') /\ letter.slot = slot
        /\ letter.payload = Parsed(body)
    BY <2>3 DEF Ledger!Letter
  <2> HIDE DEF letter
  <2> QED BY <2>6, <2>7 DEF Ledger!LedgerNext
<1> QED BY <1>3, <1>4

(* Every step of the route is a step of the ledger or leaves it alone.     *)
LEMMA LedgerStep ==
  RiskInv /\ [Next]_vars => [Ledger!LedgerNext]_(Ledger!ledgerVars)
<1> SUFFICES ASSUME RiskInv, [Next]_vars
             PROVE  [Ledger!LedgerNext]_(Ledger!ledgerVars)
  OBVIOUS
<1>1. CASE EvaluateRequest
  <2>1. PICK key \in Keys \cup {NoKey}, body \in Bodies :
          \/ AnswerFromCache(key, body)
          \/ RefuseConflict(key, body)
          \/ \E graphFailed \in GraphFaults : Evaluate(key, body, graphFailed)
    BY <1>1 DEF EvaluateRequest
  <2> QED BY <2>1, CachedRepeats, EvaluateDecides, RiskAssumption
<1>2. CASE \/ \E s \in Sessions : EvaluateSession(s)
           \/ CalibrationCall \/ UNCHANGED vars
  <2>1. idempotency' = idempotency /\ answers' = answers
    BY <1>2 DEF EvaluateSession, CalibrationCall, stores, vars
  <2> QED BY <2>1, LedgerUnchanged
<1>3. CASE RestartProcess
  <2>1. /\ idempotency' = [m \in Merchants |-> [k \in Keys |-> NoRecord]]
        /\ answers' = answers
    BY <1>3 DEF RestartProcess, FreshStores
  <2>2. SlotsOf(idempotency') = [slot \in Merchants \X Keys |-> NoRecord]
    BY <2>1 DEF SlotsOf
  <2>3. Ledger!Forget
    BY <2>1, <2>2 DEF Ledger!Forget, SlotsOf
  <2> QED BY <2>3 DEF Ledger!LedgerNext
<1> QED BY <1>1, <1>2, <1>3 DEF Next

(* The route implements the ledger, for all merchants, keys and bodies,    *)
(* whatever calibrations, sessions and restarts come in between.           *)
THEOREM LedgerRefinement == Spec => ImplementsLedger
<1>1. Init => Ledger!LedgerInit
  <2> SUFFICES ASSUME Init PROVE Ledger!LedgerInit
    OBVIOUS
  <2>1. SlotsOf(idempotency) = [slot \in Merchants \X Keys |-> NoRecord]
    BY DEF Init, FreshStores, SlotsOf
  <2>2. LettersOf(answers) = {}
    BY DEF Init, LettersOf
  <2> QED BY <2>1, <2>2 DEF Ledger!LedgerInit, SlotsOf
<1> QED BY <1>1, LedgerStep, RiskInvariant, PTL
        DEF Spec, ImplementsLedger, Ledger!LedgerSpec

=============================================================================
