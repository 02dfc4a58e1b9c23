-------------------------- MODULE ApiClient_proofs --------------------------
(***************************************************************************)
(* Theorems about ApiClient, for any number of calls and any set of        *)
(* refusals.                                                               *)
(***************************************************************************)
EXTENDS ApiClient, TLAPS

(* The report that fetchHealth makes of an answer that is ok.              *)
ReportOf(body) == Answered(Database(body), AuditOf(body))

(* The three of them, and the report that no answer leads to.              *)
LEMMA Reports ==
  /\ ReportOf("up") = Answered("up", "operational")
  /\ ReportOf("bare") = Answered("up", "degraded")
  /\ ReportOf("down") = Answered("down", "degraded")
  /\ \A body \in HealthReplies : ReportOf(body) \in Outcomes \ {Outage}
  /\ Outage \in Outcomes
  BY DEF ReportOf, Database, AuditOf, Answered, Health, Outage, HealthReplies,
         Outcomes

(* What each phase of a call knows: before a response there is no status,  *)
(* a status is what the server did, and there is an outcome at the end     *)
(* only.  An outcome agrees with what the server did.                      *)
OutcomeOK(c) ==
  LET k == client[c] IN
  \/ k.wrapper = "v1" /\ k.outcome = Value("done") /\ server[c] = "done"
  \/ /\ k.wrapper = "v1"
     /\ server[c] \in Refusals
     /\ k.outcome = Refused(server[c])
  \/ /\ k.wrapper = "v1"
     /\ k.outcome \in {TimedOut, Unreachable}
     /\ k.status \notin Refusals
  \/ /\ k.wrapper = "health"
     /\ server[c] \in HealthReplies
     /\ k.outcome = ReportOf(server[c])
  \/ k.wrapper = "health" /\ k.outcome = Outage

CallOK(c) ==
  /\ client[c].phase = "ready" <=> server[c] = "idle"
  /\ server[c] \in {"idle", "asked", "lost"} \cup Good(client[c].wrapper)
                     \cup Refusals
  /\ client[c].phase \in {"ready", "fetching"} => client[c].status = Nothing
  /\ client[c].phase = "reading" => client[c].status # Nothing
  /\ client[c].status # Nothing => client[c].status = server[c]
  /\ client[c].phase # "settled" => client[c].outcome = Nothing
  /\ client[c].phase = "settled" => OutcomeOK(c)

ClientInv == ClientTypeOK /\ \A c \in Calls : CallOK(c)

(* A step of one call leaves the others as they are.                       *)
LEMMA OthersStay ==
  ASSUME NEW c \in Calls, NEW d \in Calls, d # c, CallOK(d),
         client'[d] = client[d], server'[d] = server[d]
  PROVE  CallOK(d)'
  BY DEF CallOK, OutcomeOK, Good, Value, Refused, ApiError, TimedOut,
         Unreachable

(* What return and throw leave behind, for each thing they can be given.   *)
LEMMA SettleOK ==
  ASSUME ClientInv, NEW c \in Calls, NEW result, Settle(c, result), Pending(c),
         \/ result = Value(server[c]) /\ client[c].phase = "reading" /\ Ok(c)
         \/ /\ result = Refused(server[c])
            /\ client[c].phase = "reading" /\ ~Ok(c)
         \/ /\ result \in {TimedOut, Unreachable}
            /\ ~(client[c].phase = "reading" /\ ~Ok(c))
  PROVE  ClientInv'
<1> DEFINE o == IF client[c].wrapper = "health" THEN HealthOf(result) ELSE result
<1>1. /\ client[c] \in Call /\ CallOK(c) /\ client \in [Calls -> Call]
      /\ server \in [Calls -> {"idle", "asked", "lost"} \cup Replies]
  BY DEF ClientInv, ClientTypeOK
<1>2. /\ server' = server
      /\ client' = [client EXCEPT ![c].phase = "settled", ![c].timer = FALSE,
                                  ![c].outcome = o]
  BY DEF Settle
<1>3. client[c].status \notin Refusals \/ client[c].phase = "reading"
  BY <1>1, ClientAssumption DEF CallOK, Pending
<1>4. /\ o \in Outcomes
      /\ \/ client[c].wrapper = "v1" /\ o = Value("done") /\ server[c] = "done"
         \/ client[c].wrapper = "v1" /\ server[c] \in Refusals /\ o = Refused(server[c])
         \/ /\ client[c].wrapper = "v1" /\ o \in {TimedOut, Unreachable}
            /\ client[c].status \notin Refusals
         \/ /\ client[c].wrapper = "health" /\ server[c] \in HealthReplies
            /\ o = ReportOf(server[c])
         \/ client[c].wrapper = "health" /\ o = Outage
  <2>1. CASE result = Value(server[c]) /\ client[c].phase = "reading" /\ Ok(c)
    <3>1. server[c] \in Good(client[c].wrapper)
      BY <1>1, <2>1, ClientAssumption
      DEF CallOK, Ok, Call, Replies, GoodReplies, HealthReplies
    <3>2. CASE client[c].wrapper = "v1"
      BY <2>1, <3>1, <3>2 DEF Good, Outcomes
    <3>3. CASE client[c].wrapper = "health"
      <4>1. server[c] \in HealthReplies
        BY <3>1, <3>3 DEF Good
      <4>2. o = ReportOf(server[c])
        BY <2>1, <3>3 DEF HealthOf, Value, ReportOf
      <4> QED  BY <4>1, <4>2, <3>3, Reports
    <3> QED  BY <1>1, <3>2, <3>3 DEF Call, Wrappers
  <2>2. CASE /\ result = Refused(server[c])
             /\ client[c].phase = "reading" /\ ~Ok(c)
    <3>1. server[c] \in Refusals
      BY <1>1, <2>2, ClientAssumption DEF CallOK, Ok
    <3>2. CASE client[c].wrapper = "v1"
      BY <2>2, <3>1, <3>2 DEF Outcomes
    <3>3. CASE client[c].wrapper = "health"
      BY <2>2, <3>3, Reports DEF HealthOf, Refused, ApiError
    <3> QED  BY <1>1, <3>2, <3>3 DEF Call, Wrappers
  <2>3. CASE /\ result \in {TimedOut, Unreachable}
             /\ ~(client[c].phase = "reading" /\ ~Ok(c))
    <3>1. client[c].status \notin Refusals
      BY <1>3, <2>3 DEF Ok
    <3>2. CASE client[c].wrapper = "v1"
      BY <2>3, <3>1, <3>2 DEF Outcomes
    <3>3. CASE client[c].wrapper = "health"
      BY <2>3, <3>3, Reports DEF HealthOf, TimedOut, Unreachable, ApiError
    <3> QED  BY <1>1, <3>2, <3>3 DEF Call, Wrappers
  <2> QED  BY <2>1, <2>2, <2>3
<1>5. /\ client'[c] = [client[c] EXCEPT !.phase = "settled", !.timer = FALSE,
                                        !.outcome = o]
      /\ \A d \in Calls \ {c} : client'[d] = client[d]
      /\ client'[c] \in Call
      /\ client' \in [Calls -> Call]
  BY <1>1, <1>2, <1>4 DEF Call
<1>6. ClientTypeOK'
  BY <1>1, <1>2, <1>5 DEF ClientTypeOK
<1>7. /\ client'[c].phase = "settled" /\ client'[c].outcome = o
      /\ client'[c].wrapper = client[c].wrapper
      /\ client'[c].status = client[c].status
  BY <1>1, <1>5 DEF Call
<1>8. OutcomeOK(c)'
  BY <1>2, <1>4, <1>7 DEF OutcomeOK
<1>9. CallOK(c)'
  BY <1>1, <1>2, <1>7, <1>8 DEF CallOK, Pending
<1>10. \A d \in Calls \ {c} : CallOK(d)'
  BY <1>2, <1>5, OthersStay DEF ClientInv
<1> QED  BY <1>6, <1>9, <1>10 DEF ClientInv

LEMMA ClientInitOK == ClientInit => ClientInv
  BY ClientAssumption DEF ClientInit, ClientInv, ClientTypeOK, CallOK, Call,
     Wrappers, Replies

LEMMA RequestOK ==
  ASSUME ClientInv, NEW c \in Calls, NEW w \in Wrappers, Request(c, w)
  PROVE  ClientInv'
<1>1. /\ client[c] \in Call /\ CallOK(c) /\ client \in [Calls -> Call]
      /\ server \in [Calls -> {"idle", "asked", "lost"} \cup Replies]
  BY DEF ClientInv, ClientTypeOK
<1>2. /\ client'[c] = [client[c] EXCEPT !.phase = "fetching", !.timer = TRUE,
                                        !.wrapper = w]
      /\ client'[c] \in Call /\ client' \in [Calls -> Call]
      /\ \A d \in Calls \ {c} : client'[d] = client[d] /\ server'[d] = server[d]
      /\ server'[c] = "asked"
      /\ server' \in [Calls -> {"idle", "asked", "lost"} \cup Replies]
  BY <1>1 DEF Request, Call
<1>3. CallOK(c)'
  BY <1>1, <1>2 DEF CallOK, Call, Request
<1>4. \A d \in Calls \ {c} : CallOK(d)'
  BY <1>2, OthersStay DEF ClientInv
<1> QED  BY <1>2, <1>3, <1>4 DEF ClientInv, ClientTypeOK

LEMMA ServerOK ==
  ASSUME ClientInv, NEW c \in Calls,
         (\E answer \in Replies : Reply(c, answer)) \/ Lose(c)
  PROVE  ClientInv'
<1>1. /\ client[c] \in Call /\ CallOK(c) /\ client \in [Calls -> Call]
      /\ server \in [Calls -> {"idle", "asked", "lost"} \cup Replies]
  BY DEF ClientInv, ClientTypeOK
<1>2. PICK a \in {"lost"} \cup Good(client[c].wrapper) \cup Refusals :
        /\ server[c] = "asked" /\ server' = [server EXCEPT ![c] = a]
        /\ client' = client
  BY DEF Reply, Lose
<1>3. a \in {"lost"} \cup Replies /\ a # "idle"
  BY <1>2, ClientAssumption DEF Good, Replies, GoodReplies, HealthReplies
<1>4. /\ server'[c] = a /\ \A d \in Calls \ {c} : server'[d] = server[d]
      /\ server' \in [Calls -> {"idle", "asked", "lost"} \cup Replies]
  BY <1>1, <1>2, <1>3
<1>5. client[c].status = Nothing
  BY <1>1, <1>2, ClientAssumption DEF CallOK, Call, Replies, GoodReplies, HealthReplies
<1>6. CallOK(c)'
  <2>1. client[c].phase = "settled" =>
          /\ client[c].wrapper = "v1"
               => client[c].outcome \in {TimedOut, Unreachable}
          /\ client[c].wrapper = "health"
               => client[c].outcome = Outage
    BY <1>1, <1>2, ClientAssumption DEF CallOK, OutcomeOK, HealthReplies, GoodReplies
  <2>2. client[c].phase = "settled" => OutcomeOK(c)'
    BY <1>1, <1>2, <1>5, <2>1, ClientAssumption DEF OutcomeOK, Call, Wrappers
  <2> QED  BY <1>1, <1>2, <1>3, <1>4, <1>5, <2>2 DEF CallOK
<1>7. \A d \in Calls \ {c} : CallOK(d)'
  BY <1>2, <1>4, OthersStay DEF ClientInv
<1> QED  BY <1>1, <1>2, <1>4, <1>6, <1>7 DEF ClientInv, ClientTypeOK

LEMMA StepOK ==
  ASSUME ClientInv, NEW c \in Calls, ClientStep(c)
  PROVE  ClientInv'
<1>1. /\ client[c] \in Call /\ CallOK(c) /\ client \in [Calls -> Call]
      /\ server \in [Calls -> {"idle", "asked", "lost"} \cup Replies]
  BY DEF ClientInv, ClientTypeOK
<1>2. CASE Respond(c)
  <2>1. /\ client'[c] = [client[c] EXCEPT !.phase = "reading",
                                          !.status = server[c]]
        /\ client'[c] \in Call /\ client' \in [Calls -> Call]
        /\ \A d \in Calls \ {c} : client'[d] = client[d]
        /\ server' = server /\ server[c] \in Replies
    BY <1>1, <1>2 DEF Respond, Call
  <2>2. CallOK(c)'
    BY <1>1, <1>2, <2>1, ClientAssumption DEF CallOK, Call, Respond, Replies
  <2>3. \A d \in Calls \ {c} : CallOK(d)'
    BY <2>1, OthersStay DEF ClientInv
  <2> QED  BY <1>1, <2>1, <2>2, <2>3 DEF ClientInv, ClientTypeOK
<1>3. client[c].phase = "reading" => client[c].status = server[c]
  BY <1>1 DEF CallOK
<1>4. CASE ReadBody(c)
  BY <1>3, <1>4, SettleOK DEF ReadBody, Pending
<1>5. CASE ReadErrorBody(c)
  BY <1>3, <1>5, SettleOK DEF ReadErrorBody, Pending
<1>6. ASSUME NEW e \in {TimedOut, Unreachable}, Pending(c), Rejected(c, e)
      PROVE  ClientInv'
  <2>1. CASE client[c].phase = "reading" /\ ~Ok(c)
    BY <1>3, <1>6, <2>1, SettleOK DEF Rejected
  <2>2. CASE ~(client[c].phase = "reading" /\ ~Ok(c))
    BY <1>6, <2>2, SettleOK DEF Rejected
  <2> QED  BY <2>1, <2>2
<1>7. CASE Break(c) \/ Expire(c)
  BY <1>6, <1>7 DEF Break, Expire
<1> QED  BY <1>2, <1>4, <1>5, <1>7 DEF ClientStep

(* ClientInv is an inductive invariant of the client.                      *)
THEOREM ClientCorrect == ClientSafety => []ClientInv
<1>1. ClientInv /\ [ClientNext]_api => ClientInv'
  <2> SUFFICES ASSUME ClientInv, [ClientNext]_api  PROVE ClientInv'
    OBVIOUS
  <2>1. CASE UNCHANGED api
    BY <2>1 DEF api, ClientInv, ClientTypeOK, CallOK, OutcomeOK, Good, Value,
       Refused, ApiError, TimedOut, Unreachable
  <2>2. CASE ClientNext
    BY <2>2, RequestOK, ServerOK, StepOK DEF ClientNext
  <2> QED  BY <2>1, <2>2
<1> QED  BY <1>1, ClientInitOK, PTL DEF ClientSafety

(* Both variables keep their types.                                        *)
THEOREM ClientTypeCorrect == ClientSafety => []ClientTypeOK
<1>1. ClientInv => ClientTypeOK
  BY DEF ClientInv
<1> QED  BY <1>1, ClientCorrect, PTL

(* A value is what the backend answered (api.ts:51-69).                    *)
THEOREM ValuesAreAnswers == ClientSafety => []ValueIsTheAnswer
<1>1. ClientInv => ValueIsTheAnswer
  <2> SUFFICES ASSUME ClientInv, NEW c \in Calls, client[c].outcome # Nothing,
                      client[c].outcome.kind = "value"
               PROVE  server[c] = "done"
    BY DEF ValueIsTheAnswer
  <2>1. OutcomeOK(c)
    BY DEF ClientInv, CallOK
  <2>2. client[c].outcome = Value("done") /\ server[c] = "done"
    BY <2>1, Reports
    DEF OutcomeOK, Refused, ApiError, TimedOut, Unreachable, Answered, Health, Outage,
        HealthReplies
  <2> QED  BY <2>2
<1> QED  BY <1>1, ClientCorrect, PTL

(* A refusal that arrived is reported with its status (api.ts:51-67).      *)
THEOREM RefusalsAreReported == ClientSafety => []RefusalIsReported
<1>1. ClientInv => RefusalIsReported
  <2> SUFFICES ASSUME ClientInv, NEW c \in Calls, client[c].phase = "settled",
                      client[c].status \in Refusals, client[c].wrapper = "v1"
               PROVE  client[c].outcome = Refused(server[c])
    BY DEF RefusalIsReported
  <2>1. server[c] = client[c].status
    BY ClientAssumption DEF ClientInv, CallOK
  <2> QED
    BY <2>1, ClientAssumption
    DEF ClientInv, CallOK, OutcomeOK, GoodReplies, HealthReplies
<1> QED  BY <1>1, ClientCorrect, PTL

(* fetchHealth never rejects; what its report says better than the backend *)
(* did is the default for a database that is not named, and shows as such  *)
(* (api.ts:85-116).                                                        *)
THEOREM HealthIsHonest == ClientSafety => []HealthIsToldApart
<1>1. ClientInv => HealthIsToldApart
  <2> DEFINE report(c) == client[c].outcome
  <2> SUFFICES ASSUME ClientInv, NEW c \in Calls, client[c].outcome # Nothing,
                      client[c].wrapper = "health"
               PROVE  /\ report(c).kind = "health"
                      /\ report(c).status = "ok" => server[c] \in HealthReplies
                      /\ report(c).status # "ok" => report(c) = Outage
                      /\ report(c).audit_store = "operational"
                           => report(c).database = "up" /\ server[c] = "up"
                      /\ report(c).database = "up"
                            /\ report(c).audit_store # "operational"
                           => server[c] = "bare"
                      /\ report(c).database = "down"
                           => server[c] = "down" \/ report(c) = Outage
    BY DEF HealthIsToldApart
  <2>1. \/ server[c] \in HealthReplies /\ report(c) = ReportOf(server[c])
        \/ report(c) = Outage
    BY DEF ClientInv, CallOK, OutcomeOK
  <2>2. CASE report(c) = Outage
    BY <2>2 DEF Outage, Health
  <2>3. CASE server[c] \in HealthReplies /\ report(c) = ReportOf(server[c])
    BY <2>3, Reports DEF HealthReplies, Answered, Health
  <2> QED  BY <2>1, <2>2, <2>3
<1> QED  BY <1>1, ClientCorrect, PTL

-----------------------------------------------------------------------------
(* One step of a call, seen by whoever observes fate and told only.        *)
LEMMA SettleTells ==
  ASSUME ClientInv, NEW c \in Calls, NEW result, Settle(c, result), Pending(c),
         ClientInv'
  PROVE  Remote!TellSomething(c)
<1>1. /\ client \in [Calls -> Call] /\ CallOK(c) /\ CallOK(c)'
      /\ server' = server /\ client'[c].phase = "settled"
      /\ \A d \in Calls \ {c} : client'[d] = client[d]
      /\ client[c].outcome = Nothing
      /\ server[c] # "idle"
  BY DEF ClientInv, ClientTypeOK, Settle, CallOK, Pending, Call
<1>2. OutcomeOK(c)' /\ client'[c].outcome # Nothing
  <2>1. client' \in [Calls -> Call]
    BY DEF ClientInv, ClientTypeOK
  <2>2. OutcomeOK(c)'
    BY <1>1 DEF CallOK
  <2>3. client'[c].outcome \in Outcomes
    BY <1>1, <2>2, Reports DEF OutcomeOK, Outcomes
  <2> QED  BY <2>2, <2>3, NothingIsNoOutcome
<1> DEFINE f == Fate(server[c])
           t == Told(client'[c].outcome)
<1>3. f # "unasked" /\ Told(client[c].outcome) = "nothing"
  BY <1>1 DEF Fate, Told, ClientInv, CallOK, Good
<1>4. t = "failure" \/ (t = f /\ t \in {"done", "declined"})
  <2>1. CASE client'[c].outcome = Value("done") /\ server[c] = "done"
    BY <1>2, <2>1 DEF Told, Fate, Value, GoodReplies, HealthReplies
  <2>2. CASE server[c] \in Refusals /\ client'[c].outcome = Refused(server[c])
    BY <1>2, <2>2, ClientAssumption DEF Told, Fate, Refused, ApiError
  <2>3. CASE client'[c].outcome \in {TimedOut, Unreachable}
    BY <1>2, <2>3 DEF Told, TimedOut, Unreachable, ApiError
  <2>4. CASE client'[c].outcome = Outage
    BY <1>2, <2>4 DEF Told, Outage, Health
  <2>5. CASE server[c] \in HealthReplies /\ client'[c].outcome = ReportOf(server[c])
    BY <1>2, <2>5, Reports DEF Told, Fate, HealthReplies, GoodReplies, Answered, Health
  <2> QED  BY <1>1, <1>2, <2>1, <2>2, <2>3, <2>4, <2>5 DEF OutcomeOK
<1>5. [d \in Calls |-> Told(client'[d].outcome)]
        = [[d \in Calls |-> Told(client[d].outcome)] EXCEPT ![c] = t]
  BY <1>1
<1>6. Remote!Tell(c, t)
  BY <1>1, <1>3, <1>4, <1>5 DEF Remote!Tell
<1> QED  BY <1>4, <1>6 DEF Remote!TellSomething

LEMMA ServerActs ==
  ASSUME ClientInv, NEW c \in Calls, NEW answer \in Replies, Reply(c, answer)
  PROVE  \E deed \in {"done", "declined"} : Remote!Act(c, deed)
<1>1. /\ server \in [Calls -> {"idle", "asked", "lost"} \cup Replies]
      /\ server[c] = "asked" /\ server' = [server EXCEPT ![c] = answer]
      /\ client' = client
  BY DEF ClientInv, ClientTypeOK, Reply
<1>2. Fate(server[c]) = "asked" /\ Fate(answer) \in {"done", "declined"}
  BY <1>1, ClientAssumption DEF Fate, Replies, GoodReplies, HealthReplies
<1>3. [d \in Calls |-> Fate(server'[d])]
        = [[d \in Calls |-> Fate(server[d])] EXCEPT ![c] = Fate(answer)]
  BY <1>1
<1>4. Remote!Act(c, Fate(answer))
  BY <1>1, <1>2, <1>3 DEF Remote!Act
<1> QED  BY <1>2, <1>4

LEMMA RequestAsks ==
  ASSUME ClientInv, NEW c \in Calls, NEW w \in Wrappers, Request(c, w)
  PROVE  Remote!Ask(c)
<1>1. /\ client \in [Calls -> Call] /\ CallOK(c)
      /\ server \in [Calls -> {"idle", "asked", "lost"} \cup Replies]
      /\ server[c] = "idle" /\ server' = [server EXCEPT ![c] = "asked"]
  BY DEF ClientInv, ClientTypeOK, Request, CallOK
<1>2. \A d \in Calls : client'[d].outcome = client[d].outcome
  BY <1>1 DEF Request, Call
<1>3. [d \in Calls |-> Fate(server'[d])]
        = [[d \in Calls |-> Fate(server[d])] EXCEPT ![c] = "asked"]
  BY <1>1 DEF Fate, GoodReplies, HealthReplies
<1>4. Fate(server[c]) = "unasked"
  BY <1>1 DEF Fate, GoodReplies, HealthReplies
<1> QED  BY <1>2, <1>3, <1>4 DEF Remote!Ask

(* Nothing else is seen.                                                   *)
LEMMA Unseen ==
  ASSUME ClientInv, NEW c \in Calls, Lose(c) \/ Respond(c) \/ UNCHANGED api
  PROVE  UNCHANGED Remote!remote
<1>1. /\ client \in [Calls -> Call]
      /\ server \in [Calls -> {"idle", "asked", "lost"} \cup Replies]
  BY DEF ClientInv, ClientTypeOK
<1>2. \A d \in Calls : /\ client'[d].outcome = client[d].outcome
                       /\ Fate(server'[d]) = Fate(server[d])
  BY <1>1 DEF Lose, Respond, api, Fate, Call, GoodReplies, HealthReplies
<1> QED  BY <1>2 DEF Remote!remote

(* The client implements RemoteCall, but for its liveness: the server acts *)
(* at most once, each caller is told once, and "done" and "declined" are   *)
(* what the server did.                                                    *)
THEOREM ImplementsRemoteSafety == ClientSafety => Remote!RemoteSafety
<1>1. ClientInit => Remote!RemoteInit
  BY DEF ClientInit, Remote!RemoteInit, Fate, Told, GoodReplies, HealthReplies
<1>2. ClientInv /\ ClientInv' /\ [ClientNext]_api
        => [Remote!RemoteNext]_Remote!remote
  <2> SUFFICES ASSUME ClientInv, ClientInv', [ClientNext]_api
               PROVE  [Remote!RemoteNext]_Remote!remote
    OBVIOUS
  <2>1. CASE UNCHANGED api
    <3>1. CASE Calls = {}
      BY <2>1, <3>1 DEF api, Remote!remote
    <3>2. CASE Calls # {}
      BY <2>1, <3>2, Unseen
    <3> QED  BY <3>1, <3>2
  <2>2. ASSUME NEW c \in Calls, \E wrapper \in Wrappers : Request(c, wrapper)
        PROVE  Remote!RemoteNext
    BY <2>2, RequestAsks DEF Remote!RemoteNext
  <2>3. ASSUME NEW c \in Calls, \E answer \in Replies : Reply(c, answer)
        PROVE  Remote!RemoteNext
    BY <2>3, ServerActs DEF Remote!RemoteNext
  <2>4. ASSUME NEW c \in Calls, Lose(c) \/ Respond(c)
        PROVE  UNCHANGED Remote!remote
    BY <2>4, Unseen
  <2>5. ASSUME NEW c \in Calls, ReadBody(c) \/ ReadErrorBody(c) \/ Break(c) \/ Expire(c)
        PROVE  Remote!RemoteNext
    <3>1. Pending(c) /\ \E result : Settle(c, result)
      BY <2>5 DEF ReadBody, ReadErrorBody, Break, Expire, Rejected, Pending
    <3> QED  BY <3>1, SettleTells DEF Remote!RemoteNext
  <2> QED  BY <2>1, <2>2, <2>3, <2>4, <2>5 DEF ClientNext, ClientStep
<1> QED  BY <1>1, <1>2, ClientCorrect, PTL DEF ClientSafety, Remote!RemoteSafety

-----------------------------------------------------------------------------
(* The halves of EveryCallSettles that are not about time.                 *)
LEMMA SettleEnds ==
  ASSUME ClientInv, NEW c \in Calls, NEW result, Settle(c, result)
  PROVE  /\ client'[c].phase = "settled" /\ client'[c].timer = FALSE
         /\ \A d \in Calls \ {c} : client'[d] = client[d]
<1>1. client \in [Calls -> Call] /\ client[c] \in Call
  BY DEF ClientInv, ClientTypeOK
<1> QED  BY <1>1 DEF Settle, Call

(* What a step of c does to the phase and the timer of c and of the others. *)
LEMMA StepAdvances ==
  ASSUME ClientInv, NEW c \in Calls, ClientStep(c)
  PROVE  /\ client[c].phase \in Before(client'[c].phase) /\ Pending(c)
         /\ \/ client'[c].phase = "settled" /\ client'[c].timer = FALSE
            \/ client'[c].phase = "reading" /\ client'[c].timer = client[c].timer
         /\ \A d \in Calls \ {c} : client'[d] = client[d]
<1>1. client \in [Calls -> Call] /\ client[c] \in Call
  BY DEF ClientInv, ClientTypeOK
<1>2. CASE Respond(c)
  <2>1. /\ client[c].phase = "fetching"
        /\ client'[c] = [client[c] EXCEPT !.phase = "reading", !.status = server[c]]
        /\ \A d \in Calls \ {c} : client'[d] = client[d]
    BY <1>1, <1>2 DEF Respond
  <2>2. client'[c].phase = "reading" /\ client'[c].timer = client[c].timer
    BY <1>1, <2>1 DEF Call
  <2> QED  BY <2>1, <2>2 DEF Before, Pending
<1>3. CASE ReadBody(c) \/ ReadErrorBody(c) \/ Break(c) \/ Expire(c)
  <2>1. Pending(c) /\ \E result : Settle(c, result)
    BY <1>3 DEF ReadBody, ReadErrorBody, Break, Expire, Rejected, Pending
  <2> QED  BY <2>1, SettleEnds DEF Pending, Before
<1> QED  BY <1>2, <1>3 DEF ClientStep

(* A step that is no step of c leaves it alone, or starts it.              *)
LEMMA OthersWait ==
  ASSUME ClientInv, NEW c \in Calls, [ClientNext]_api, ~ClientStep(c)
  PROVE  \/ client'[c] = client[c]
         \/ /\ client[c].phase = "ready" /\ client'[c].phase = "fetching"
            /\ client'[c].timer = TRUE
<1>1. client \in [Calls -> Call]
  BY DEF ClientInv, ClientTypeOK
<1>2. CASE UNCHANGED api
  BY <1>2 DEF api
<1>3. ASSUME NEW d \in Calls, NEW w \in Wrappers, Request(d, w)
      PROVE  \/ client'[c] = client[c]
             \/ /\ client[c].phase = "ready" /\ client'[c].phase = "fetching"
                /\ client'[c].timer = TRUE
  BY <1>1, <1>3 DEF Request, Call
<1>4. ASSUME NEW d \in Calls, Lose(d) \/ \E answer \in Replies : Reply(d, answer)
      PROVE  client' = client
  BY <1>4 DEF Lose, Reply
<1>5. ASSUME NEW d \in Calls, ClientStep(d)
      PROVE  client'[c] = client[c]
  BY <1>5, StepAdvances
<1> QED  BY <1>2, <1>3, <1>4, <1>5 DEF ClientNext

(* A pending call has its timer until it is settled.                       *)
THEOREM TimersStay == ClientSafety => []TimerUntilSettled
<1>1. ClientInit => TimerUntilSettled
  <2> SUFFICES ASSUME ClientInit, NEW c \in Calls
               PROVE  ~Pending(c) /\ client[c].timer # TRUE
    BY DEF TimerUntilSettled
  <2>1. client[c].phase = "ready" /\ client[c].timer = FALSE
    BY DEF ClientInit
  <2> QED  BY <2>1 DEF Pending
<1>2. ClientInv /\ [ClientNext]_api /\ TimerUntilSettled => TimerUntilSettled'
  <2> SUFFICES ASSUME ClientInv, [ClientNext]_api, TimerUntilSettled, NEW c \in Calls
               PROVE  (Pending(c) <=> client[c].timer = TRUE)'
    BY DEF TimerUntilSettled
  <2>1. CASE ClientStep(c)
    BY <2>1, StepAdvances DEF TimerUntilSettled, Pending
  <2>2. CASE ~ClientStep(c)
    BY <2>2, OthersWait DEF TimerUntilSettled, Pending
  <2> QED  BY <2>1, <2>2
<1> QED  BY <1>1, <1>2, ClientCorrect, PTL DEF ClientSafety

(* A call takes two steps of its own at most, and is settled once.         *)
THEOREM CallsAreBounded == ClientSafety => CallsComeNearer
<1>1. ClientInv /\ [ClientNext]_api
        => [\A c \in Calls :
              /\ client'[c].phase \notin Before(client[c].phase)
              /\ ClientStep(c) => client[c].phase \in Before(client'[c].phase)
              /\ client[c].phase = "settled" => client'[c] = client[c]]_api
  <2> SUFFICES ASSUME ClientInv, [ClientNext]_api, NEW c \in Calls
               PROVE  /\ client'[c].phase \notin Before(client[c].phase)
                      /\ ClientStep(c) => client[c].phase \in Before(client'[c].phase)
                      /\ client[c].phase = "settled" => client'[c] = client[c]
    OBVIOUS
  <2>1. client[c].phase \in {"ready", "fetching", "reading", "settled"}
    BY DEF ClientInv, ClientTypeOK, Call
  <2>2. CASE ClientStep(c)
    BY <2>1, <2>2, StepAdvances DEF Before, Pending
  <2>3. CASE ~ClientStep(c)
    BY <2>1, <2>3, OthersWait DEF Before
  <2> QED  BY <2>2, <2>3
<1> QED  BY <1>1, ClientCorrect, PTL DEF ClientSafety, CallsComeNearer

=============================================================================
