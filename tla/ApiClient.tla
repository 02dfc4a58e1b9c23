----------------------------- MODULE ApiClient ------------------------------
(***************************************************************************)
(* The dashboard's API client (src/dashboard/lib/api.ts): one function,    *)
(* request, that every wrapper goes through, with a timer of 15 seconds    *)
(* that aborts it.  The timer is cleared by the finally clause only, so it *)
(* runs while the body is read.  The backend, the network and the timer    *)
(* act at any moment between two steps of a call.                          *)
(*                                                                         *)
(* A call is the pair of what the browser knows of it (client) and what    *)
(* the server did with it (server).  A refusal is an HTTP status that is   *)
(* not ok; of a body it matters whether it can be read.                    *)
(***************************************************************************)

CONSTANTS
  Calls,     \* calls of request()
  Refusals,  \* the HTTP statuses of refusals
  Nothing    \* a call without status or outcome

(* What an answer with a status that is ok may say: of the database that   *)
(* it is up or down, or, of a backend other than today's, nothing          *)
(* (app/main.py:62-68); to any other request, that it was done.            *)
HealthReplies == {"up", "down", "bare"}
GoodReplies == HealthReplies \cup {"done"}

(* No status is one of the words of this module.                           *)
ASSUME ClientAssumption ==
  /\ Refusals \cap ({"idle", "asked", "lost"} \cup GoodReplies) = {}
  /\ Nothing \notin Refusals \cup GoodReplies

VARIABLES client,  \* [Calls -> Call]
          server   \* [Calls -> what the backend did]

api == <<client, server>>

(* fetchHealth is a wrapper that never rejects; all others pass the result *)
(* and the ApiError of request on.                                         *)
Wrappers == {"health", "v1"}

(* What the backend may answer with a status that is ok.                   *)
Good(wrapper) == IF wrapper = "health" THEN HealthReplies ELSE {"done"}
Replies == GoodReplies \cup Refusals

(* What a settled call gave its caller: a value, or an ApiError, or the    *)
(* report of fetchHealth, of which the model name and the four components  *)
(* that are "operational" in every case are left out.                      *)
Value(body) == [kind |-> "value", body |-> body]
ApiError(status, code) == [kind |-> "error", status |-> status, code |-> code]
Refused(status) == ApiError(status, "API_ERROR")
TimedOut == ApiError("504", "GATEWAY_TIMEOUT")
Unreachable == ApiError("503", "DEPENDENCY_UNAVAILABLE")
Health(status, database, graph, audit) ==
  [kind |-> "health", status |-> status, database |-> database,
   entity_graph |-> graph, audit_store |-> audit]
Answered(database, audit) == Health("ok", database, "operational", audit)
Outage == Health("degraded", "down", "degraded", "unavailable")

Outcomes ==
  {Value("done"), TimedOut, Unreachable} \cup {Refused(s) : s \in Refusals}
  \cup {Answered("up", "operational"), Answered("up", "degraded"),
        Answered("down", "degraded"), Outage}

ASSUME NothingIsNoOutcome == Nothing \notin Outcomes

Call == [phase : {"ready", "fetching", "reading", "settled"},
         wrapper : Wrappers, status : Replies \cup {Nothing},
         timer : BOOLEAN, outcome : Outcomes \cup {Nothing}]

ClientInit == /\ client = [c \in Calls |->
                   [phase |-> "ready", wrapper |-> "v1", status |-> Nothing,
                    timer |-> FALSE, outcome |-> Nothing]]
              /\ server = [c \in Calls |-> "idle"]

Pending(c) == client[c].phase \in {"fetching", "reading"}

(* setTimeout and fetch.                                                   *)
Request(c, wrapper) ==
  /\ client[c].phase = "ready"
  /\ client' = [client EXCEPT ![c].phase = "fetching", ![c].timer = TRUE,
                              ![c].wrapper = wrapper]
  /\ server' = [server EXCEPT ![c] = "asked"]

(* The backend answers; the abort of a fetch does not take a request back. *)
Reply(c, answer) ==
  /\ server[c] = "asked"
  /\ answer \in Good(client[c].wrapper) \cup Refusals
  /\ server' = [server EXCEPT ![c] = answer]
  /\ UNCHANGED client

(* The request gets lost, or the backend stops before it has answered.     *)
Lose(c) == /\ server[c] = "asked"
           /\ server' = [server EXCEPT ![c] = "lost"]
           /\ UNCHANGED client

(* Variant: the timer is cleared as soon as fetch resolves.                *)
RespondClears(c) == /\ client[c].phase = "fetching"
                    /\ server[c] \in Replies
                    /\ client' = [client EXCEPT ![c].phase = "reading",
                                     ![c].timer = FALSE,
                                     ![c].status = server[c]]
                    /\ UNCHANGED server

(* fetch resolves with the status and the headers.                         *)
Respond(c) == /\ client[c].phase = "fetching"
              /\ server[c] \in Replies
              /\ client' = [client EXCEPT ![c].phase = "reading",
                                          ![c].status = server[c]]
              /\ UNCHANGED server

(* res.database || "up": an answer that leaves it out counts as "up".      *)
Database(body) == IF body = "down" THEN "down" ELSE "up"
AuditOf(database) == IF database = "up" THEN "operational" ELSE "degraded"

(* Variant: audit_store is made from the database that is shown.           *)
HealthOfShown(result) ==
  IF result.kind = "value"
  THEN Answered(Database(result.body), AuditOf(Database(result.body)))
  ELSE Outage

(* fetchHealth: a report in both cases.  audit_store is made from what the *)
(* answer says, before the default.                                        *)
HealthOf(result) ==
  IF result.kind = "value"
  THEN Answered(Database(result.body), AuditOf(result.body))
  ELSE Outage

(* return or throw, with the finally clause.                               *)
Settle(c, result) ==
  /\ client' = [client EXCEPT
       ![c].phase = "settled", ![c].timer = FALSE,
       ![c].outcome = IF client[c].wrapper = "health" THEN HealthOf(result)
                      ELSE result]
  /\ UNCHANGED server

(* response.ok                                                             *)
Ok(c) == client[c].status \notin Refusals

ReadBody(c) == /\ client[c].phase = "reading"
               /\ Ok(c)
               /\ Settle(c, Value(client[c].status))

(* With or without a JSON body an error has the status of the response.    *)
ReadErrorBody(c) == /\ client[c].phase = "reading"
                    /\ ~Ok(c)
                    /\ Settle(c, Refused(client[c].status))

(* Variant: no try around the error body.                                  *)
RejectedUncaught(c, error) == Settle(c, error)

(* A rejection while an error body is read is caught there, also that of   *)
(* an abort: what is thrown has the status that arrived.  Anywhere else it *)
(* reaches the outer catch clause.                                         *)
Rejected(c, error) ==
  Settle(c, IF client[c].phase = "reading" /\ ~Ok(c)
            THEN Refused(client[c].status) ELSE error)

(* No connection, a connection that breaks, or a body that is not JSON.    *)
Break(c) == Pending(c) /\ Rejected(c, Unreachable)

(* Variant: a call that times out is sent again.                           *)
ExpireRetries(c) == /\ client[c].timer /\ Pending(c)
                    /\ client' = [client EXCEPT ![c].phase = "fetching"]
                    /\ server' = [server EXCEPT ![c] = "asked"]

(* controller.abort()                                                      *)
Expire(c) == client[c].timer /\ Pending(c) /\ Rejected(c, TimedOut)

ClientStep(c) == \/ Respond(c)
                 \/ ReadBody(c)
                 \/ ReadErrorBody(c)
                 \/ Break(c)
                 \/ Expire(c)

ClientNext ==
  \E c \in Calls : \/ \E wrapper \in Wrappers : Request(c, wrapper)
                   \/ \E answer \in Replies : Reply(c, answer)
                   \/ Lose(c)
                   \/ ClientStep(c)

(* Timers fire.  Neither the network nor the backend need do anything.     *)
ClientFairness == \A c \in Calls : WF_api(Expire(c))

ClientSafety == ClientInit /\ [][ClientNext]_api
ClientSpec == ClientSafety /\ ClientFairness

-----------------------------------------------------------------------------
(* Types of both variables, for the states request() can be in.            *)
ClientTypeOK ==
  /\ client \in [Calls -> Call]
  /\ server \in [Calls -> {"idle", "asked", "lost"} \cup Replies]

(* A caller that gets a value can rely on it: the backend has done what it *)
(* was asked and said so with a status that is ok, whatever was lost or    *)
(* aborted meanwhile (api.ts:51-69).                                       *)
ValueIsTheAnswer ==
  \A c \in Calls : client[c].outcome # Nothing /\ client[c].outcome.kind = "value"
                     => server[c] = "done"

(* A refusal whose status reached the browser is reported with that status *)
(* by all wrappers but fetchHealth, and never as a timeout or an outage,   *)
(* although its body may stall, break off or not be JSON (api.ts:51-67).   *)
RefusalIsReported ==
  \A c \in Calls :
    client[c].phase = "settled" /\ client[c].status \in Refusals
    /\ client[c].wrapper = "v1"
      => client[c].outcome = Refused(server[c])

(* fetchHealth never rejects, and its audit_store is never better than     *)
(* what the backend said.  Its database may be: the default of an answer   *)
(* that does not name it is "up", and "up" beside an audit_store that is   *)
(* not operational means just that.  A call without an answer that is ok   *)
(* is never shown as one, however it ended (api.ts:85-116).                *)
HealthIsToldApart ==
  \A c \in Calls : client[c].outcome # Nothing /\ client[c].wrapper = "health"
    => LET report == client[c].outcome
       IN /\ report.kind = "health"
          /\ report.status = "ok" => server[c] \in HealthReplies
          /\ report.status # "ok" => report = Outage
          /\ report.audit_store = "operational"
               => report.database = "up" /\ server[c] = "up"
          /\ report.database = "up" /\ report.audit_store # "operational"
               => server[c] = "bare"
          /\ report.database = "down" => server[c] = "down" \/ report = Outage

(* Every call comes back, also if the backend stalls in the middle of the  *)
(* body: the timer is there until then (api.ts:37, 77).                    *)
EveryCallSettles == \A c \in Calls : Pending(c) ~> client[c].phase = "settled"

(* Two halves of it that are not about time.  A call that is pending has   *)
(* its timer, in whatever phase and whatever has arrived: there is always  *)
(* one step left that nobody but the browser must take (api.ts:37, 77).    *)
TimerUntilSettled == \A c \in Calls : Pending(c) <=> client[c].timer = TRUE

(* And no call is sent again or settled twice: each of its own steps takes *)
(* it a phase further, and nothing takes it back (api.ts:51-77).           *)
Before(phase) == CASE phase = "ready" -> {}
                   [] phase = "fetching" -> {"ready"}
                   [] phase = "reading" -> {"ready", "fetching"}
                   [] phase = "settled" -> {"ready", "fetching", "reading"}
CallsComeNearer ==
  [][\A c \in Calls :
       /\ client'[c].phase \notin Before(client[c].phase)
       /\ ClientStep(c) => client[c].phase \in Before(client'[c].phase)
       /\ client[c].phase = "settled" => client'[c] = client[c]]_api

(* The calls are remote calls: "done" and "declined" mean what they say,   *)
(* each caller is told once, and in the end.                               *)
Fate(deed) == CASE deed = "idle" -> "unasked"
                [] deed \in {"asked", "lost"} -> "asked"
                [] deed \in GoodReplies -> "done"
                [] OTHER -> "declined"
Told(outcome) ==
  CASE outcome = Nothing -> "nothing"
    [] outcome # Nothing /\ outcome.kind = "value" -> "done"
    [] outcome # Nothing /\ outcome.kind = "health" ->
         IF outcome.audit_store = "unavailable" THEN "failure" ELSE "done"
    [] outcome # Nothing /\ outcome.kind = "error" ->
         IF outcome.code = "API_ERROR" THEN "declined" ELSE "failure"

Remote == INSTANCE RemoteCall WITH
  fate <- [c \in Calls |-> Fate(server[c])],
  told <- [c \in Calls |-> Told(client[c].outcome)]
ImplementsRemoteCall == Remote!RemoteSpec

=============================================================================
