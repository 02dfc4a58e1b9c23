--------------------------- MODULE PaymentIngest ---------------------------
(***************************************************************************)
(* POST /webhooks/payment-event (src/app/api/lifecycle_routes.py) over the *)
(* tables of src/app/lifecycle_repo.py.  The route is a plain function, so *)
(* FastAPI runs it on a pool of threads: several handlers are in flight    *)
(* at once, for the same event too.  Each repository call takes the lock,  *)
(* opens its own connection and commits, so a call is one step and         *)
(* anything may happen between two calls of a handler.                     *)
(*                                                                         *)
(* Of a transaction row two columns are kept: "merchant", which every      *)
(* upsert overwrites (as it does currency), and "device", which an upsert  *)
(* only fills in (COALESCE, as for amount, ip_address and card_last4).     *)
(***************************************************************************)
EXTENDS Naturals, FiniteSets

CONSTANTS
  Workers,     \* threads of the pool that run the handler
  EventIds,    \* event_id values the merchants send
  TxnIds,      \* transaction_id values
  Merchants,   \* merchant_id values
  Devices,     \* device_hash values
  Envelopes,   \* the request bodies that may be posted, any number of times
  Faults,      \* the database faults each event may meet, see Outcomes
  NoValue,     \* an optional field that is not given (SQL NULL)
  NoRow        \* there is no row with this primary key

(* A request body.  "wellFormed" is false when PostgreSQL cannot store the *)
(* event: the envelope takes any string for the TIMESTAMPTZ column.        *)
Envelope == [event : EventIds, txn : TxnIds, merchant : Merchants,
             device : Devices \cup {NoValue}, wellFormed : BOOLEAN]

(* What a committing call may come to: it commits; the database fails      *)
(* before the commit; or it commits and the connection is lost before the  *)
(* client learns so, which psycopg reports as an error all the same.       *)
Outcomes == {"committed", "failed", "ack_lost"}

TxnRow == [merchant : Merchants, device : Devices \cup {NoValue}]
EventRow == [txn : TxnIds, merchant : Merchants]

(* The step a handler takes next.                                          *)
Steps == {"check", "upsert", "event", "evidence"}
Idle == [step |-> "idle"]
Handling(s, env) == [step |-> s, env |-> env]
InHandler == [step : Steps, env : Envelopes]

ASSUME IngestAssumption ==
  /\ Envelopes \subseteq Envelope
  /\ Faults \in [EventIds -> SUBSET {"failed", "ack_lost"}]
  /\ NoRow \notin TxnRow
  /\ NoRow \notin EventRow

VARIABLES
  transactions,    \* table transactions: TxnIds -> row
  payment_events,  \* table payment_events: EventIds -> row
  evidence,        \* table evidence_records, by the event each stands for
  handler,         \* what each thread is doing
  accepted,        \* how many times each event was answered "accepted"
  rejected         \* events answered 409 "already ingested"

vars == <<transactions, payment_events, evidence, handler, accepted, rejected>>
tables == <<transactions, payment_events, evidence>>
answers == <<accepted, rejected>>

Stored(e) == payment_events[e] # NoRow
EventOf(env) == [txn |-> env.txn, merchant |-> env.merchant]

Init ==
  /\ transactions = [t \in TxnIds |-> NoRow]
  /\ payment_events = [e \in EventIds |-> NoRow]
  /\ evidence = [e \in EventIds |-> NoRow]
  /\ handler = [w \in Workers |-> Idle]
  /\ accepted = [e \in EventIds |-> 0]
  /\ rejected = {}

-----------------------------------------------------------------------------
(* The handler.                                                            *)

(* A request arrives at a free thread.  Nothing stops a merchant from      *)
(* sending the same body again, at the same time or after an answer.       *)
Deliver(w, env) ==
  /\ handler[w].step = "idle"
  /\ handler' = [handler EXCEPT ![w] = Handling("check", env)]
  /\ UNCHANGED <<tables, answers>>

GoTo(w, s) == handler' = [handler EXCEPT ![w] = Handling(s, handler[w].env)]
Finish(w) == handler' = [handler EXCEPT ![w] = Idle]

Reject(w) ==
  /\ rejected' = rejected \cup {handler[w].env.event}
  /\ Finish(w)
  /\ UNCHANGED accepted

(* Variant: a lookup by the transaction instead of the event.              *)
CheckDuplicateByTransaction(w) ==
  /\ handler[w].step = "check"
  /\ transactions[handler[w].env.txn] # NoRow
  /\ Reject(w)
  /\ UNCHANGED tables

(* Variant: a repeated delivery is acknowledged again, not rejected.       *)
CheckDuplicateAccepts(w) ==
  /\ handler[w].step = "check"
  /\ Stored(handler[w].env.event)
  /\ accepted' = [accepted EXCEPT ![handler[w].env.event] = @ + 1]
  /\ Finish(w)
  /\ UNCHANGED <<tables, rejected>>

(* Step 1: event_exists.  A stored event is answered 409; a database error *)
(* counts as "does not exist".                                             *)
CheckDuplicate(w) ==
  /\ handler[w].step = "check"
  /\ Stored(handler[w].env.event)
  /\ Reject(w)
  /\ UNCHANGED tables

CheckNew(w, o) ==
  /\ handler[w].step = "check"
  /\ Stored(handler[w].env.event) => o = "failed"
  /\ GoTo(w, "upsert")
  /\ UNCHANGED <<tables, answers>>

(* Variants: EXCLUDED overwrites the column; the old row is put into it.   *)
CoalesceOverwrites(new, row) == new
CoalesceWholeRow(new, row) == IF new = NoValue /\ row # NoRow THEN row ELSE new

Coalesce(new, row) ==
  IF new = NoValue /\ row # NoRow THEN row.device ELSE new

Upserted(env) ==
  [transactions EXCEPT ![env.txn] =
     [merchant |-> env.merchant,
      device |-> Coalesce(env.device, transactions[env.txn])]]

(* Step 2: save_transaction.  An error ends the request with 503.          *)
UpsertTransaction(w, o) ==
  /\ handler[w].step = "upsert"
  /\ transactions' = IF o = "failed" THEN transactions
                     ELSE Upserted(handler[w].env)
  /\ IF o = "committed" THEN GoTo(w, "event") ELSE Finish(w)
  /\ UNCHANGED <<payment_events, evidence, answers>>

(* Variant: ON CONFLICT (event_id) DO UPDATE.                              *)
EventUpsertable(env) == transactions[env.txn] # NoRow /\ env.wellFormed

(* What INSERT INTO payment_events needs: the primary key, the foreign key *)
(* and a timestamp that parses.                                            *)
EventInsertable(env) ==
  /\ ~Stored(env.event)
  /\ transactions[env.txn] # NoRow
  /\ env.wellFormed

(* Variant: the result of save_event is not looked at.                     *)
SaveEventUnchecked(w, o) ==
  LET env == handler[w].env
  IN /\ handler[w].step = "event"
     /\ payment_events' = IF EventInsertable(env) /\ o # "failed"
                          THEN [payment_events EXCEPT ![env.event] = EventOf(env)]
                          ELSE payment_events
     /\ GoTo(w, "evidence")
     /\ UNCHANGED <<transactions, evidence, answers>>

(* Step 3: save_event returns False on a duplicate and on every database   *)
(* error alike, and False is answered 409.                                 *)
SaveEvent(w, o) ==
  LET env == handler[w].env
      applied == EventInsertable(env) /\ o # "failed"
      returned == EventInsertable(env) /\ o = "committed"
  IN /\ handler[w].step = "event"
     /\ payment_events' = IF applied
                          THEN [payment_events EXCEPT ![env.event] = EventOf(env)]
                          ELSE payment_events
     /\ IF returned
        THEN GoTo(w, "evidence") /\ UNCHANGED answers
        ELSE Reject(w)
     /\ UNCHANGED <<transactions, evidence>>

(* Variant: evidence_id is made from the transaction, not from the event.  *)
EvidenceInsertableByTransaction(env) ==
  /\ \A e \in EventIds : evidence[e] # NoRow => evidence[e].txn # env.txn
  /\ Stored(env.event)

EvidenceInsertable(env) ==
  /\ evidence[env.event] = NoRow
  /\ transactions[env.txn] # NoRow
  /\ Stored(env.event)

(* Step 4: save_evidence; its result is not looked at.  The request is     *)
(* answered "accepted".                                                    *)
SaveEvidence(w, o) ==
  LET env == handler[w].env
  IN /\ handler[w].step = "evidence"
     /\ evidence' = IF EvidenceInsertable(env) /\ o # "failed"
                    THEN [evidence EXCEPT ![env.event] = EventOf(env)]
                    ELSE evidence
     /\ accepted' = [accepted EXCEPT ![env.event] = @ + 1]
     /\ Finish(w)
     /\ UNCHANGED <<transactions, payment_events, rejected>>

(* The process dies and is started again: the requests in flight get no    *)
(* answer, what they committed stays.                                      *)
Crash ==
  /\ \E w \in Workers : handler[w].step # "idle"
  /\ handler' = [w \in Workers |-> Idle]
  /\ UNCHANGED <<tables, answers>>

MayCome(w, o) ==
  handler[w].step # "idle" /\ (o = "committed" \/ o \in Faults[handler[w].env.event])

HandlerStep(w) ==
  \/ CheckDuplicate(w)
  \/ \E o \in Outcomes :
     /\ MayCome(w, o)
     /\ \/ CheckNew(w, o)
        \/ UpsertTransaction(w, o)
        \/ SaveEvent(w, o)
        \/ SaveEvidence(w, o)

Next ==
  \/ \E w \in Workers : \/ \E env \in Envelopes : Deliver(w, env)
                        \/ HandlerStep(w)
  \/ Crash

Spec == Init /\ [][Next]_vars

-----------------------------------------------------------------------------
(* Properties.                                                             *)

TypeOK ==
  /\ transactions \in [TxnIds -> TxnRow \cup {NoRow}]
  /\ payment_events \in [EventIds -> EventRow \cup {NoRow}]
  /\ evidence \in [EventIds -> EventRow \cup {NoRow}]
  /\ handler \in [Workers -> InHandler \cup {Idle}]
  /\ accepted \in [EventIds -> Nat]
  /\ rejected \subseteq EventIds

At(w, s) == handler[w].step = s

(* Of any number of concurrent, repeated or crashed deliveries of an event *)
(* at most one is answered "accepted", and then the event is in the table. *)
AcceptedOnce ==
  \A e \in EventIds : accepted[e] <= 1 /\ (accepted[e] = 1 => Stored(e))

(* A handler that reached the INSERT into evidence_records holds the event *)
(* for itself: the stored row is the one it sent, no evidence exists yet,  *)
(* so the UniqueViolation branch of save_evidence cannot be taken.         *)
EvidenceStepIsExclusive ==
  \A w \in Workers : At(w, "evidence") =>
     /\ payment_events[handler[w].env.event] = EventOf(handler[w].env)
     /\ evidence[handler[w].env.event] = NoRow
     /\ \A v \in Workers \ {w} :
          At(v, "evidence") => handler[v].env.event # handler[w].env.event

(* An evidence record describes the event it names (same transaction, same *)
(* merchant), though it is written in a later commit than the event.       *)
EvidenceMatchesEvent ==
  \A e \in EventIds : evidence[e] # NoRow => evidence[e] = payment_events[e]

(* The foreign keys hold and never make an INSERT of the handler fail:     *)
(* the parent row is there for each stored event and for each handler that *)
(* is about to insert one.                                                 *)
ParentRowExists ==
  /\ \A e \in EventIds :
        Stored(e) => transactions[payment_events[e].txn] # NoRow
  /\ \A w \in Workers :
        At(w, "event") => transactions[handler[w].env.txn] # NoRow

(* Stored events and evidence are never changed or removed, whatever a     *)
(* later delivery of the same event_id carries.                            *)
AppendOnly ==
  [][\A e \in EventIds :
       /\ Stored(e) => payment_events'[e] = payment_events[e]
       /\ evidence[e] # NoRow => evidence'[e] = evidence[e]]_vars

(* A device_hash that a transaction once had is replaced by another one or *)
(* kept, never lost, in whatever order the events of the transaction come. *)
DeviceNeverLost ==
  [][\A t \in TxnIds :
       (transactions[t] # NoRow /\ transactions[t].device # NoValue)
         => transactions'[t] # NoRow /\ transactions'[t].device # NoValue]_vars

(* An event whose evidence is missing and that no handler is about to give *)
(* evidence to: its handler crashed between the two commits, the commit of *)
(* the event was reported as an error, or the evidence could not be saved. *)
Orphaned(e) ==
  /\ Stored(e) /\ evidence[e] = NoRow
  /\ \A w \in Workers : At(w, "evidence") => handler[w].env.event # e

(* Such an event stays without evidence for ever: the handlers reject what *)
(* is stored, so no delivery, repeated as often as the merchant likes and  *)
(* on any thread, makes up for the commit that is missing.                 *)
OrphansStay ==
  [][\A e \in EventIds : Orphaned(e) => Orphaned(e)']_vars

(* No evidence step is under way for an event that was already answered    *)
(* "accepted": what makes the invariant below inductive.                   *)
EvidenceStepIsBeforeAnswer ==
  \A w \in Workers : At(w, "evidence") => accepted[handler[w].env.event] = 0

(* The inductive invariant.                                                *)
IngestInv ==
  /\ TypeOK
  /\ AcceptedOnce
  /\ EvidenceStepIsExclusive
  /\ EvidenceStepIsBeforeAnswer
  /\ EvidenceMatchesEvent
  /\ ParentRowExists

(* "Event ... already ingested": what a 409 says of the event.             *)
RejectedIsIngested == \A e \in rejected : Stored(e)

(* "Persists the event + auto-generated evidence record": what an accepted *)
(* answer says of the evidence.                                            *)
AcceptedHasEvidence ==
  \A e \in EventIds : accepted[e] > 0 => evidence[e] # NoRow

(* An event none of whose requests meets a database fault or carries what  *)
(* cannot be stored.                                                       *)
Healthy(e) ==
  Faults[e] = {} /\ \A env \in Envelopes : env.event = e => env.wellFormed

(* For such an event both answers are true, whatever happens at the same   *)
(* time to other events, of the same transaction too, and in however many  *)
(* requests the event itself races, is repeated or dies half-way.          *)
HealthyRejections == \A e \in rejected : Healthy(e) => Stored(e)
HealthyAcceptances ==
  \A e \in EventIds : accepted[e] > 0 /\ Healthy(e) => evidence[e] # NoRow

-----------------------------------------------------------------------------
(* The handlers implement the abstract log of EventLog.                    *)
Log == INSTANCE EventLog
         WITH Events <- EventIds, Contents <- EventRow, Nothing <- NoRow,
              log <- payment_events, trail <- evidence, acknowledged <- accepted

ImplementsEventLog == Log!LogSpec

=============================================================================
