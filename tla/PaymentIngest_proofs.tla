------------------------ MODULE PaymentIngest_proofs ------------------------
(***************************************************************************)
(* For every set of threads, events, transactions and request bodies:      *)
(* IngestInv is inductive, and the tables are append-only.                 *)
(***************************************************************************)
EXTENDS PaymentIngest, TLAPS

(* What the handler writes are rows of the tables, and a record that is    *)
(* not "idle" carries one of the envelopes.                                *)
LEMMA EnvelopeFields ==
  ASSUME NEW env \in Envelopes
  PROVE  /\ env.event \in EventIds
         /\ env.txn \in TxnIds
         /\ env.merchant \in Merchants
         /\ env.device \in Devices \cup {NoValue}
         /\ EventOf(env) \in EventRow
         /\ EventOf(env) # NoRow
         /\ EventOf(env).txn = env.txn
BY IngestAssumption DEF Envelope, EventOf, EventRow

(* A handler that is not idle is handling one of the envelopes.            *)
LEMMA BusyHandler ==
  ASSUME TypeOK, NEW w \in Workers, handler[w].step # "idle"
  PROVE  handler[w] \in InHandler /\ handler[w].env \in Envelopes
BY DEF TypeOK, InHandler, Idle

(* The upsert leaves a table of rows, and no transaction loses its row.    *)
LEMMA UpsertedRows ==
  ASSUME TypeOK, NEW env \in Envelopes
  PROVE  /\ Upserted(env) \in [TxnIds -> TxnRow \cup {NoRow}]
         /\ Upserted(env)[env.txn] # NoRow
         /\ \A t \in TxnIds : transactions[t] # NoRow => Upserted(env)[t] # NoRow
<1> DEFINE row == [merchant |-> env.merchant,
                   device |-> Coalesce(env.device, transactions[env.txn])]
<1>1. Coalesce(env.device, transactions[env.txn]) \in Devices \cup {NoValue}
  BY EnvelopeFields DEF TypeOK, TxnRow, Coalesce
<1>2. row \in TxnRow
  BY <1>1, EnvelopeFields DEF TxnRow
<1>3. row # NoRow
  BY <1>2, IngestAssumption
<1> HIDE DEF row
<1>4. Upserted(env) = [transactions EXCEPT ![env.txn] = row]
  BY DEF Upserted, row
<1> QED
  BY <1>2, <1>3, <1>4, EnvelopeFields DEF TypeOK

(* The types are preserved by every step.                                  *)
LEMMA TypeStep == TypeOK /\ [Next]_vars => TypeOK'
<1> SUFFICES ASSUME TypeOK, [Next]_vars PROVE TypeOK'
  OBVIOUS
<1> USE DEF TypeOK, tables, answers
<1>1. ASSUME NEW w \in Workers, NEW env \in Envelopes, Deliver(w, env)
      PROVE  TypeOK'
  BY <1>1 DEF Deliver, Handling, InHandler, Steps
<1>2. ASSUME NEW w \in Workers, CheckDuplicate(w)
      PROVE  TypeOK'
  BY <1>2, BusyHandler, EnvelopeFields DEF CheckDuplicate, Reject, Finish
<1>3. ASSUME NEW w \in Workers, NEW o \in Outcomes, CheckNew(w, o)
      PROVE  TypeOK'
  BY <1>3, BusyHandler DEF CheckNew, GoTo, Handling, InHandler, Steps
<1>4. ASSUME NEW w \in Workers, NEW o \in Outcomes, UpsertTransaction(w, o)
      PROVE  TypeOK'
  <2>1. handler[w].env \in Envelopes
    BY <1>4, BusyHandler DEF UpsertTransaction
  <2>2. transactions' \in [TxnIds -> TxnRow \cup {NoRow}]
    BY <1>4, <2>1, UpsertedRows DEF UpsertTransaction
  <2>3. handler' \in [Workers -> InHandler \cup {Idle}]
    BY <1>4, <2>1
    DEF UpsertTransaction, GoTo, Finish, Handling, InHandler, Steps
  <2> QED
    BY <1>4, <2>2, <2>3 DEF UpsertTransaction
<1>5. ASSUME NEW w \in Workers, NEW o \in Outcomes, SaveEvent(w, o)
      PROVE  TypeOK'
  <2>1. handler[w].env \in Envelopes
    BY <1>5, BusyHandler DEF SaveEvent
  <2>2. payment_events' \in [EventIds -> EventRow \cup {NoRow}]
    BY <1>5, <2>1, EnvelopeFields DEF SaveEvent
  <2>3. handler' \in [Workers -> InHandler \cup {Idle}]
    BY <1>5, <2>1
    DEF SaveEvent, Reject, GoTo, Finish, Handling, InHandler, Steps
  <2>4. accepted' \in [EventIds -> Nat] /\ rejected' \subseteq EventIds
    BY <1>5, <2>1, EnvelopeFields DEF SaveEvent, Reject
  <2> QED
    BY <1>5, <2>2, <2>3, <2>4 DEF SaveEvent
<1>6. ASSUME NEW w \in Workers, NEW o \in Outcomes, SaveEvidence(w, o)
      PROVE  TypeOK'
  <2>1. handler[w].env \in Envelopes
    BY <1>6, BusyHandler DEF SaveEvidence
  <2>2. evidence' \in [EventIds -> EventRow \cup {NoRow}]
    BY <1>6, <2>1, EnvelopeFields DEF SaveEvidence
  <2>3. accepted' \in [EventIds -> Nat]
    BY <1>6, <2>1, EnvelopeFields DEF SaveEvidence
  <2> QED
    BY <1>6, <2>2, <2>3 DEF SaveEvidence, Finish
<1>7. CASE Crash
  BY <1>7 DEF Crash
<1>8. CASE UNCHANGED vars
  BY <1>8 DEF vars
<1> QED
  BY <1>1, <1>2, <1>3, <1>4, <1>5, <1>6, <1>7, <1>8 DEF Next, HandlerStep

(* The variables always have their types.                                  *)
THEOREM TypeCorrect == Spec => []TypeOK
<1>1. Init => TypeOK
  BY DEF Init, TypeOK, Idle
<1> QED
  BY <1>1, TypeStep, PTL DEF Spec

(* What each step may change, in the terms of the invariant.               *)
LEMMA InvStep == IngestInv /\ [Next]_vars => IngestInv'
<1> SUFFICES ASSUME IngestInv, [Next]_vars PROVE IngestInv'
  OBVIOUS
<1>t. TypeOK /\ TypeOK'
  BY TypeStep DEF IngestInv
<1> USE DEF tables, answers, At, Stored
<1>1. ASSUME NEW w \in Workers, NEW env \in Envelopes, Deliver(w, env)
      PROVE  IngestInv'
  <2>1. \A v \in Workers \ {w} : handler'[v] = handler[v]
    BY <1>1, <1>t DEF Deliver, TypeOK
  <2>2. handler'[w].step = "check"
    BY <1>1, <1>t DEF Deliver, Handling, TypeOK
  <2> QED
    BY <1>1, <1>t, <2>1, <2>2
    DEF Deliver, IngestInv, AcceptedOnce, EvidenceStepIsExclusive, TypeOK,
        EvidenceStepIsBeforeAnswer, EvidenceMatchesEvent, ParentRowExists
<1>2. ASSUME NEW w \in Workers, CheckDuplicate(w)
      PROVE  IngestInv'
  BY <1>2, <1>t
  DEF CheckDuplicate, Reject, Finish, Idle, IngestInv, AcceptedOnce, TypeOK,
      EvidenceStepIsExclusive, EvidenceStepIsBeforeAnswer,
      EvidenceMatchesEvent, ParentRowExists
<1>3. ASSUME NEW w \in Workers, NEW o \in Outcomes, CheckNew(w, o)
      PROVE  IngestInv'
  BY <1>3, <1>t
  DEF CheckNew, GoTo, Handling, IngestInv, AcceptedOnce, TypeOK,
      EvidenceStepIsExclusive, EvidenceStepIsBeforeAnswer,
      EvidenceMatchesEvent, ParentRowExists
<1>4. ASSUME NEW w \in Workers, NEW o \in Outcomes, UpsertTransaction(w, o)
      PROVE  IngestInv'
  <2>1. handler[w].env \in Envelopes
    BY <1>4, <1>t, BusyHandler DEF UpsertTransaction
  <2>2. \A t \in TxnIds : transactions[t] # NoRow => transactions'[t] # NoRow
    BY <1>4, <1>t, <2>1, UpsertedRows DEF UpsertTransaction
  <2>3. At(w, "event")' => transactions'[handler'[w].env.txn] # NoRow
    BY <1>4, <1>t, <2>1, UpsertedRows, IngestAssumption
    DEF UpsertTransaction, GoTo, Finish, Handling, Idle, TypeOK, Outcomes
  <2>4. ~At(w, "evidence")' /\ \A v \in Workers \ {w} : handler'[v] = handler[v]
    BY <1>4, <1>t DEF UpsertTransaction, GoTo, Finish, Handling, Idle, TypeOK
  <2>5. UNCHANGED <<payment_events, evidence, accepted, rejected>>
    BY <1>4 DEF UpsertTransaction
  <2>6. ParentRowExists'
    <3>1. ASSUME NEW e \in EventIds, Stored(e)
          PROVE  payment_events[e].txn \in TxnIds
      BY <3>1, <1>t DEF TypeOK, EventRow
    <3>2. ASSUME NEW v \in Workers, At(v, "event")
          PROVE  handler[v].env.txn \in TxnIds
      BY <3>2, <1>t, BusyHandler, EnvelopeFields
    <3> QED
      BY <3>1, <3>2, <2>2, <2>3, <2>4, <2>5 DEF IngestInv, ParentRowExists
  <2> QED
    BY <1>t, <2>4, <2>5, <2>6
    DEF IngestInv, AcceptedOnce, EvidenceStepIsExclusive,
        EvidenceStepIsBeforeAnswer, EvidenceMatchesEvent
<1>5. ASSUME NEW w \in Workers, NEW o \in Outcomes, SaveEvent(w, o)
      PROVE  IngestInv'
  <2> DEFINE env == handler[w].env
  <2>1. env \in Envelopes
    BY <1>5, <1>t, BusyHandler DEF SaveEvent
  <2>2. /\ \A v \in Workers \ {w} : handler'[v] = handler[v]
        /\ At(w, "evidence")' => handler'[w].env = env
        /\ ~At(w, "event")'
        /\ UNCHANGED <<transactions, evidence, accepted>>
    BY <1>5, <1>t
    DEF SaveEvent, GoTo, Reject, Finish, Handling, Idle, TypeOK
  <2>3. CASE ~EventInsertable(env) \/ o = "failed"
    <3>1. ~At(w, "evidence")' /\ UNCHANGED payment_events
      BY <1>5, <1>t, <2>3 DEF SaveEvent, Reject, Finish, Idle, TypeOK
    <3> QED
      BY <1>t, <2>2, <3>1
      DEF IngestInv, AcceptedOnce, EvidenceStepIsExclusive, ParentRowExists,
          EvidenceStepIsBeforeAnswer, EvidenceMatchesEvent
  <2>4. CASE EventInsertable(env) /\ o # "failed"
    <3>1. payment_events' = [payment_events EXCEPT ![env.event] = EventOf(env)]
      BY <1>5, <2>4 DEF SaveEvent
    <3>2. /\ payment_events[env.event] = NoRow
          /\ evidence[env.event] = NoRow
          /\ accepted[env.event] = 0
          /\ transactions[env.txn] # NoRow
      BY <2>1, <2>4, <1>t, EnvelopeFields
      DEF EventInsertable, IngestInv, AcceptedOnce, EvidenceMatchesEvent, TypeOK
    <3>3. \A v \in Workers : At(v, "evidence") => handler[v].env.event # env.event
      BY <2>1, <3>2, <1>t, BusyHandler, EnvelopeFields
      DEF IngestInv, EvidenceStepIsExclusive
    <3>4. payment_events'[env.event] = EventOf(env) /\ EventOf(env) # NoRow
      BY <2>1, <3>1, <1>t, EnvelopeFields DEF TypeOK
    <3>5. \A e \in EventIds \ {env.event} : payment_events'[e] = payment_events[e]
      BY <3>1, <1>t DEF TypeOK
    <3>6. \A v \in Workers : At(v, "evidence") => handler[v].env.event \in EventIds
      BY <1>t, BusyHandler, EnvelopeFields
    <3> HIDE DEF env
    <3>7. AcceptedOnce' /\ EvidenceMatchesEvent'
      BY <2>2, <3>2, <3>4, <3>5
      DEF IngestInv, AcceptedOnce, EvidenceMatchesEvent
    <3>8. EvidenceStepIsExclusive' /\ EvidenceStepIsBeforeAnswer'
      BY <2>2, <3>2, <3>3, <3>4, <3>5, <3>6
      DEF IngestInv, EvidenceStepIsExclusive, EvidenceStepIsBeforeAnswer
    <3>9. ParentRowExists'
      BY <2>1, <2>2, <3>2, <3>4, <3>5, EnvelopeFields
      DEF IngestInv, ParentRowExists
    <3> QED
      BY <1>t, <3>7, <3>8, <3>9 DEF IngestInv
  <2> QED
    BY <2>3, <2>4
<1>6. ASSUME NEW w \in Workers, NEW o \in Outcomes, SaveEvidence(w, o)
      PROVE  IngestInv'
  <2> DEFINE ev == handler[w].env.event
  <2>1. ev \in EventIds /\ EventOf(handler[w].env) # NoRow
    BY <1>6, <1>t, BusyHandler, EnvelopeFields DEF SaveEvidence
  <2>2. /\ \A v \in Workers \ {w} : handler'[v] = handler[v]
        /\ handler'[w].step = "idle"
        /\ UNCHANGED <<transactions, payment_events, rejected>>
    BY <1>6, <1>t DEF SaveEvidence, Finish, Idle, TypeOK
  <2>3. /\ payment_events[ev] = EventOf(handler[w].env)
        /\ accepted[ev] = 0
        /\ \A v \in Workers \ {w} : At(v, "evidence") => handler[v].env.event # ev
    BY <1>6
    DEF SaveEvidence, IngestInv, EvidenceStepIsExclusive,
        EvidenceStepIsBeforeAnswer
  <2>4. /\ accepted'[ev] = 1
        /\ evidence'[ev] \in {evidence[ev], EventOf(handler[w].env)}
        /\ \A e \in EventIds \ {ev} :
              accepted'[e] = accepted[e] /\ evidence'[e] = evidence[e]
    BY <1>6, <1>t, <2>1, <2>3 DEF SaveEvidence, TypeOK
  <2>5. \A v \in Workers : At(v, "evidence") => handler[v].env.event \in EventIds
    BY <1>t, BusyHandler, EnvelopeFields
  <2> HIDE DEF ev
  <2>6. AcceptedOnce' /\ EvidenceMatchesEvent'
    BY <2>1, <2>2, <2>3, <2>4 DEF IngestInv, AcceptedOnce, EvidenceMatchesEvent
  <2>7. EvidenceStepIsExclusive' /\ EvidenceStepIsBeforeAnswer'
    BY <2>2, <2>3, <2>4, <2>5
    DEF IngestInv, EvidenceStepIsExclusive, EvidenceStepIsBeforeAnswer
  <2>8. ParentRowExists'
    BY <2>2 DEF IngestInv, ParentRowExists
  <2> QED
    BY <1>t, <2>6, <2>7, <2>8 DEF IngestInv
<1>7. CASE Crash
  BY <1>7, <1>t
  DEF Crash, Idle, IngestInv, AcceptedOnce, EvidenceStepIsExclusive,
      EvidenceStepIsBeforeAnswer, EvidenceMatchesEvent, ParentRowExists
<1>8. CASE UNCHANGED vars
  BY <1>8, <1>t
  DEF vars, IngestInv, AcceptedOnce, EvidenceStepIsExclusive,
      EvidenceStepIsBeforeAnswer, EvidenceMatchesEvent, ParentRowExists
<1> QED
  BY <1>1, <1>2, <1>3, <1>4, <1>5, <1>6, <1>7, <1>8 DEF Next, HandlerStep

(* The inductive invariant holds in every reachable state.                 *)
THEOREM InductiveInvariant == Spec => []IngestInv
<1>1. Init => IngestInv
  BY DEF Init, Idle, IngestInv, TypeOK, AcceptedOnce, EvidenceStepIsExclusive,
         EvidenceStepIsBeforeAnswer, EvidenceMatchesEvent, ParentRowExists,
         At, Stored
<1> QED
  BY <1>1, InvStep, PTL DEF Spec

(* However often, however concurrently and with whatever database faults   *)
(* an event is delivered, the route answers "accepted" at most once, and   *)
(* then the event is stored.                                               *)
THEOREM AtMostOneAcceptance == Spec => []AcceptedOnce
<1>1. IngestInv => AcceptedOnce
  BY DEF IngestInv
<1> QED
  BY <1>1, InductiveInvariant, PTL

(* save_evidence is only ever called by the one handler that inserted the  *)
(* event, and before any evidence of it exists.                            *)
THEOREM ExclusiveEvidence == Spec => []EvidenceStepIsExclusive
<1>1. IngestInv => EvidenceStepIsExclusive
  BY DEF IngestInv
<1> QED
  BY <1>1, InductiveInvariant, PTL

(* No evidence step is under way for an event that was answered            *)
(* "accepted", whatever the threads and deliveries.                        *)
THEOREM EvidenceBeforeAnswer == Spec => []EvidenceStepIsBeforeAnswer
<1>1. IngestInv => EvidenceStepIsBeforeAnswer
  BY DEF IngestInv
<1> QED
  BY <1>1, InductiveInvariant, PTL

(* Evidence describes the event it names.                                  *)
THEOREM EvidenceAgrees == Spec => []EvidenceMatchesEvent
<1>1. IngestInv => EvidenceMatchesEvent
  BY DEF IngestInv
<1> QED
  BY <1>1, InductiveInvariant, PTL

(* No INSERT of the handler can fail on its foreign keys.                  *)
THEOREM ForeignKeysHold == Spec => []ParentRowExists
<1>1. IngestInv => ParentRowExists
  BY DEF IngestInv
<1> QED
  BY <1>1, InductiveInvariant, PTL

(* One step leaves the stored events and evidence as they are.             *)
LEMMA AppendOnlyStep ==
  ASSUME IngestInv, [Next]_vars, NEW e \in EventIds
  PROVE  /\ Stored(e) => payment_events'[e] = payment_events[e]
         /\ evidence[e] # NoRow => evidence'[e] = evidence[e]
<1> USE DEF tables, IngestInv, TypeOK, Stored
<1>1. ASSUME NEW w \in Workers, NEW o \in Outcomes, SaveEvent(w, o)
      PROVE  /\ Stored(e) => payment_events'[e] = payment_events[e]
             /\ UNCHANGED evidence
  BY <1>1 DEF SaveEvent, EventInsertable
<1>2. ASSUME NEW w \in Workers, NEW o \in Outcomes, SaveEvidence(w, o)
      PROVE  /\ evidence[e] # NoRow => evidence'[e] = evidence[e]
             /\ UNCHANGED payment_events
  BY <1>2 DEF SaveEvidence, EvidenceInsertable
<1> QED
  BY <1>1, <1>2
  DEF Next, HandlerStep, Deliver, CheckDuplicate, CheckNew, UpsertTransaction,
      Crash, vars

(* Events and evidence are never overwritten or removed.                   *)
THEOREM TablesAreAppendOnly == Spec => AppendOnly
<1>1. IngestInv /\ [Next]_vars =>
        [\A e \in EventIds :
           /\ Stored(e) => payment_events'[e] = payment_events[e]
           /\ evidence[e] # NoRow => evidence'[e] = evidence[e]]_vars
  BY AppendOnlyStep
<1> QED
  BY <1>1, InductiveInvariant, PTL DEF Spec, AppendOnly

(* A handler gets to the evidence step by storing its event, or was there. *)
LEMMA EvidenceStepStart ==
  ASSUME TypeOK, [Next]_vars, NEW w \in Workers, At(w, "evidence")'
  PROVE  \/ At(w, "evidence") /\ handler'[w] = handler[w]
         \/ ~Stored(handler'[w].env.event)
<1> USE DEF TypeOK, At, Idle, Handling, GoTo, Finish
<1>1. ASSUME NEW v \in Workers, NEW env \in Envelopes, Deliver(v, env)
      PROVE  At(w, "evidence") /\ handler'[w] = handler[w]
  BY <1>1 DEF Deliver
<1>2. ASSUME NEW v \in Workers, CheckDuplicate(v)
      PROVE  At(w, "evidence") /\ handler'[w] = handler[w]
  BY <1>2 DEF CheckDuplicate, Reject
<1>3. ASSUME NEW v \in Workers, NEW o \in Outcomes,
             CheckNew(v, o) \/ UpsertTransaction(v, o)
      PROVE  At(w, "evidence") /\ handler'[w] = handler[w]
  BY <1>3 DEF CheckNew, UpsertTransaction
<1>4. ASSUME NEW v \in Workers, NEW o \in Outcomes, SaveEvent(v, o)
      PROVE  \/ At(w, "evidence") /\ handler'[w] = handler[w]
             \/ ~Stored(handler'[w].env.event)
  BY <1>4 DEF SaveEvent, EventInsertable, Reject
<1>5. ASSUME NEW v \in Workers, NEW o \in Outcomes, SaveEvidence(v, o)
      PROVE  At(w, "evidence") /\ handler'[w] = handler[w]
  BY <1>5 DEF SaveEvidence
<1>6. ~Crash
  BY DEF Crash
<1>7. CASE UNCHANGED vars
  BY <1>7 DEF vars
<1> QED
  BY <1>1, <1>2, <1>3, <1>4, <1>5, <1>6, <1>7 DEF Next, HandlerStep

(* One step leaves an orphaned event orphaned.                             *)
LEMMA OrphanStep ==
  ASSUME IngestInv, [Next]_vars, NEW e \in EventIds, Orphaned(e)
  PROVE  Orphaned(e)'
<1>t. TypeOK
  BY DEF IngestInv
<1>1. Stored(e)'
  BY AppendOnlyStep DEF Orphaned, Stored
<1>2. \A w \in Workers : At(w, "evidence")' => handler'[w].env.event # e
  BY <1>t, EvidenceStepStart DEF Orphaned
<1>3. evidence'[e] = NoRow
  <2>1. ASSUME NEW w \in Workers, NEW o \in Outcomes, SaveEvidence(w, o)
        PROVE  evidence'[e] = NoRow
    <3>1. handler[w].env.event # e
      BY <2>1 DEF Orphaned, SaveEvidence, At
    <3> QED
      BY <1>t, <2>1, <3>1 DEF SaveEvidence, Orphaned, TypeOK
  <2> QED
    BY <2>1
    DEF Orphaned, Next, HandlerStep, Deliver, CheckDuplicate, CheckNew,
        UpsertTransaction, SaveEvent, Crash, vars, tables
<1> QED
  BY <1>1, <1>2, <1>3 DEF Orphaned, At

(* An event whose second commit was lost stays without evidence, whatever  *)
(* is delivered later, on however many threads, and whatever fails.        *)
THEOREM OrphansAreForever == Spec => OrphansStay
<1>1. IngestInv /\ [Next]_vars =>
        [\A e \in EventIds : Orphaned(e) => Orphaned(e)']_vars
  BY OrphanStep
<1> QED
  BY <1>1, InductiveInvariant, PTL DEF Spec, OrphansStay

(* One step leaves a transaction that has a device_hash with one.          *)
LEMMA DeviceStep ==
  ASSUME TypeOK, [Next]_vars, NEW t \in TxnIds,
         transactions[t] # NoRow, transactions[t].device # NoValue
  PROVE  transactions'[t] # NoRow /\ transactions'[t].device # NoValue
<1>1. ASSUME NEW w \in Workers, NEW o \in Outcomes, UpsertTransaction(w, o),
             o # "failed"
      PROVE  transactions'[t] # NoRow /\ transactions'[t].device # NoValue
  <2> DEFINE env == handler[w].env
  <2>1. env \in Envelopes /\ transactions' = Upserted(env)
    BY <1>1, BusyHandler DEF UpsertTransaction
  <2>2. CASE t = env.txn
    <3>1. transactions'[t].device = Coalesce(env.device, transactions[t])
      BY <2>1, <2>2, EnvelopeFields DEF Upserted, TypeOK
    <3> QED
      BY <2>1, <2>2, <3>1, UpsertedRows DEF Coalesce
  <2>3. CASE t # env.txn
    BY <2>1, <2>3 DEF Upserted, TypeOK
  <2> QED
    BY <2>2, <2>3
<1> QED
  BY <1>1
  DEF Next, HandlerStep, Deliver, CheckDuplicate, CheckNew, UpsertTransaction,
      SaveEvent, SaveEvidence, Crash, vars, tables

(* In whatever order and on however many threads the events of a           *)
(* transaction are handled, a device_hash it once had is never lost.       *)
THEOREM DevicesAreKept == Spec => DeviceNeverLost
<1>1. TypeOK /\ [Next]_vars =>
        [\A t \in TxnIds :
           (transactions[t] # NoRow /\ transactions[t].device # NoValue)
             => transactions'[t] # NoRow /\ transactions'[t].device # NoValue]_vars
  BY DeviceStep
<1> QED
  BY <1>1, TypeCorrect, PTL DEF Spec, DeviceNeverLost

(* A request for a healthy event meets no fault.                           *)
LEMMA HealthyOutcome ==
  ASSUME NEW w \in Workers, NEW o \in Outcomes, MayCome(w, o),
         Healthy(handler[w].env.event)
  PROVE  o = "committed"
  BY DEF MayCome, Healthy

(* One step keeps what a 409 says of a healthy event.                      *)
LEMMA RejectionStep ==
  ASSUME IngestInv, [Next]_vars, NEW e \in EventIds, Healthy(e),
         e \in rejected => Stored(e)
  PROVE  (e \in rejected => Stored(e))'
<1>1. Stored(e) => Stored(e)'
  BY AppendOnlyStep DEF Stored
<1>2. ASSUME NEW w \in Workers, CheckDuplicate(w)
      PROVE  (e \in rejected => Stored(e))'
  BY <1>1, <1>2 DEF CheckDuplicate, Reject
<1>3. ASSUME NEW w \in Workers, NEW o \in Outcomes, MayCome(w, o),
             SaveEvent(w, o)
      PROVE  (e \in rejected => Stored(e))'
  <2> DEFINE env == handler[w].env
  <2>1. rejected' \subseteq rejected \cup {env.event}
    BY <1>3 DEF SaveEvent, Reject, answers
  <2>2. CASE env.event # e
    BY <1>1, <2>1, <2>2
  <2>3. CASE env.event = e
    <3>1. env \in Envelopes /\ env.wellFormed
      BY <1>3, <2>3, BusyHandler DEF SaveEvent, IngestInv, Healthy
    <3>2. transactions[env.txn] # NoRow
      BY <1>3 DEF SaveEvent, IngestInv, ParentRowExists, At
    <3>3. o = "committed"
      BY <1>3, <2>3, HealthyOutcome
    <3>4. UNCHANGED rejected \/ Stored(e)
      BY <1>3, <2>3, <3>1, <3>2, <3>3 DEF SaveEvent, EventInsertable, answers
    <3> QED
      BY <1>1, <3>4
  <2> QED
    BY <2>2, <2>3
<1>4. CASE UNCHANGED rejected
  BY <1>1, <1>4
<1> QED
  BY <1>2, <1>3, <1>4
  DEF Next, HandlerStep, Deliver, CheckNew, UpsertTransaction, SaveEvidence,
      Crash, vars, answers

(* A 409 for an event that meets no fault and is well-formed means that it *)
(* is stored, for any number of racing and dying handlers and whatever     *)
(* faults the other events meet (lifecycle_routes.py:37-80).               *)
THEOREM HealthyRejectionsAreTrue == Spec => []HealthyRejections
<1>1. Init => HealthyRejections
  BY DEF Init, HealthyRejections
<1>2. IngestInv /\ [Next]_vars /\ HealthyRejections => HealthyRejections'
  <2> SUFFICES ASSUME IngestInv, [Next]_vars, HealthyRejections,
                      NEW e \in rejected', Healthy(e)
               PROVE  Stored(e)'
    BY DEF HealthyRejections, Healthy
  <2>1. e \in EventIds
    BY TypeStep DEF IngestInv, TypeOK
  <2> QED
    BY <2>1, RejectionStep DEF HealthyRejections
<1> QED
  BY <1>1, <1>2, InductiveInvariant, PTL DEF Spec

(* One step keeps what "accepted" says of a healthy event.                 *)
LEMMA AcceptanceStep ==
  ASSUME IngestInv, [Next]_vars, NEW e \in EventIds, Healthy(e),
         accepted[e] > 0 => evidence[e] # NoRow
  PROVE  (accepted[e] > 0 => evidence[e] # NoRow)'
<1>t. TypeOK
  BY DEF IngestInv
<1>1. evidence[e] # NoRow => evidence'[e] # NoRow
  BY AppendOnlyStep
<1>2. ASSUME NEW w \in Workers, NEW o \in Outcomes, MayCome(w, o),
             SaveEvidence(w, o)
      PROVE  (accepted[e] > 0 => evidence[e] # NoRow)'
  <2> DEFINE env == handler[w].env
  <2>1. env \in Envelopes
    BY <1>2, <1>t, BusyHandler DEF SaveEvidence
  <2>2. CASE env.event # e
    BY <1>1, <1>2, <1>t, <2>2 DEF SaveEvidence, TypeOK
  <2>3. CASE env.event = e
    <3>1. payment_events[e] = EventOf(env) /\ evidence[e] = NoRow
      BY <1>2, <2>3 DEF SaveEvidence, IngestInv, EvidenceStepIsExclusive, At
    <3>2. EvidenceInsertable(env)
      BY <2>1, <2>3, <3>1, EnvelopeFields
      DEF EvidenceInsertable, Stored, IngestInv, ParentRowExists
    <3>3. o # "failed"
      BY <1>2, <2>3, HealthyOutcome
    <3>4. evidence' = [evidence EXCEPT ![e] = EventOf(env)]
      BY <1>2, <2>3, <3>2, <3>3 DEF SaveEvidence
    <3> QED
      BY <1>t, <2>1, <3>4, EnvelopeFields DEF TypeOK
  <2> QED
    BY <2>2, <2>3
<1>3. CASE UNCHANGED accepted
  BY <1>1, <1>3
<1> QED
  BY <1>2, <1>3
  DEF Next, HandlerStep, Deliver, CheckDuplicate, Reject, CheckNew,
      UpsertTransaction, SaveEvent, Crash, vars, answers

(* "accepted" for an event that meets no fault means that its evidence is  *)
(* there, although the result of its INSERT is never looked at: none of    *)
(* the ways in which the INSERT may do nothing can occur                   *)
(* (lifecycle_routes.py:82-106).                                           *)
THEOREM HealthyAcceptancesAreTrue == Spec => []HealthyAcceptances
<1>1. Init => HealthyAcceptances
  BY DEF Init, HealthyAcceptances
<1>2. IngestInv /\ [Next]_vars /\ HealthyAcceptances => HealthyAcceptances'
  <2> SUFFICES ASSUME IngestInv, [Next]_vars, HealthyAcceptances,
                      NEW e \in EventIds, accepted'[e] > 0, Healthy(e)
               PROVE  evidence'[e] # NoRow
    BY DEF HealthyAcceptances, Healthy
  <2> QED
    BY AcceptanceStep DEF HealthyAcceptances
<1> QED
  BY <1>1, <1>2, InductiveInvariant, PTL DEF Spec

(* Every step of the handlers is a step of the abstract log or leaves it   *)
(* alone.                                                                  *)
LEMMA LogStep == IngestInv /\ [Next]_vars => [Log!LogNext]_(Log!logVars)
<1> SUFFICES ASSUME IngestInv, [Next]_vars PROVE [Log!LogNext]_(Log!logVars)
  OBVIOUS
<1> USE DEF tables, Log!logVars, Log!LogNext, IngestInv
<1>1. ASSUME NEW w \in Workers, NEW o \in Outcomes, SaveEvent(w, o)
      PROVE  [Log!LogNext]_(Log!logVars)
  <2> DEFINE env == handler[w].env
  <2>1. env.event \in EventIds /\ EventOf(env) \in EventRow
    BY <1>1, BusyHandler, EnvelopeFields DEF SaveEvent
  <2>2. CASE EventInsertable(env) /\ o # "failed"
    <3>1. Log!Record(env.event, EventOf(env))
      BY <1>1, <2>2
      DEF SaveEvent, EventInsertable, Stored, Log!Record, Reject, answers
    <3> HIDE DEF env
    <3> QED
      BY <2>1, <3>1
  <2>3. CASE ~(EventInsertable(env) /\ o # "failed")
    BY <1>1, <2>3 DEF SaveEvent, Reject, answers
  <2> QED
    BY <2>2, <2>3
<1>2. ASSUME NEW w \in Workers, NEW o \in Outcomes, SaveEvidence(w, o)
      PROVE  [Log!LogNext]_(Log!logVars)
  <2> DEFINE env == handler[w].env
  <2>1. env.event \in EventIds /\ EventOf(env) # NoRow
    BY <1>2, BusyHandler, EnvelopeFields DEF SaveEvidence
  <2>2. /\ payment_events[env.event] = EventOf(env)
        /\ evidence[env.event] = NoRow
        /\ accepted[env.event] = 0
    BY <1>2 DEF SaveEvidence, EvidenceStepIsExclusive,
                EvidenceStepIsBeforeAnswer, At
  <2>3. Log!Acknowledge(env.event)
    BY <1>2, <2>1, <2>2 DEF SaveEvidence, Log!Acknowledge
  <2> HIDE DEF env
  <2> QED
    BY <2>1, <2>3
<1> QED
  BY <1>1, <1>2
  DEF Next, HandlerStep, Deliver, CheckDuplicate, CheckNew, Reject,
      UpsertTransaction, Crash, vars, answers

(* The route implements the abstract log.                                  *)
THEOREM Refinement == Spec => ImplementsEventLog
<1>1. Init => Log!LogInit
  BY DEF Init, Log!LogInit
<1> QED
  BY <1>1, LogStep, InductiveInvariant, PTL
  DEF Spec, ImplementsEventLog, Log!LogSpec

=============================================================================
