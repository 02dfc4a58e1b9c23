---------------------------- MODULE LedgerPages -----------------------------
(***************************************************************************)
(* The pages of the console that list and inspect (src/dashboard/app): the *)
(* transaction ledger, the lifecycle events, the entities, the webhook     *)
(* deliveries, the API reference, and the two pages that load telemetry.   *)
(* A search text is the set of rows whose identifiers contain it.  The     *)
(* tables are constants of the code, each shorter than one page of the     *)
(* pagination, which therefore never shows.                                *)
(***************************************************************************)
EXTENDS ConsoleAccess

CONSTANTS Rows, FirstRow,  \* of the tables, and of the list of endpoints
          Values, Column,  \* what is filtered on: Column[facet][row]
          Searches         \* sets of rows some search text finds

(* What each list filters on, and its tabs or view modes.                  *)
Facets == [transactions |-> {"decision", "risk_level"},
           events |-> {"event_type"},
           entities |-> {"type"},
           webhooks |-> {}]
Views == [transactions |-> {"list"}, events |-> {"list"},
          entities |-> {"list", "canvas"},
          webhooks |-> {"deliveries", "security", "subscriptions"}]
FirstView == [transactions |-> "list", events |-> "list", entities |-> "list",
              webhooks |-> "deliveries"]
ListPages == DOMAIN Facets
OnList == page \in ListPages
All == "all"
NoRow == 0

ASSUME LedgerAssumption ==
  /\ FirstRow \in Rows /\ NoRow \notin Rows
  /\ Rows \in Searches /\ Searches \subseteq SUBSET Rows
  /\ \A p \in ListPages : \A f \in Facets[p] : Column[f] \in [Rows -> Values]

ListState(p) ==
  [query : Searches, filter : [Facets[p] -> Values \cup {All}],
   view : Views[p], selected : Rows \cup {NoRow}, copy : CopyState]
FreshList(p) ==
  [query |-> Rows, filter |-> [f \in Facets[p] |-> All],
   view |-> FirstView[p], selected |-> NoRow, copy |-> Unmarked]

Filtered == {r \in local.query :
               \A f \in Facets[page] : local.filter[f] \in {All, Column[f][r]}}

(* Every handler of these pages sets state of the page alone.              *)
Here(state) == Set(state) /\ UNCHANGED access

Search == /\ OnList /\ page # "webhooks"
          /\ \E q \in Searches : Here([local EXCEPT !.query = q])
Filter == /\ OnList
          /\ \E f \in Facets[page], v \in Values \cup {All} :
               Here([local EXCEPT !.filter[f] = v])
SwitchView == /\ OnList
              /\ \E v \in Views[page] : Here([local EXCEPT !.view = v])

(* A click on a row opens its details in a dialog; on the ledger it opens  *)
(* the dossier, in Console.  The dialog covers the rows.                   *)
InspectRow == /\ local.selected = NoRow
              /\ \E r \in Filtered : Here([local EXCEPT !.selected = r])
InspectEvent == On("events") /\ InspectRow
InspectEntity == On("entities") /\ InspectRow
InspectDelivery == On("webhooks") /\ local.view = "deliveries" /\ InspectRow
Inspect == InspectEvent \/ InspectEntity \/ InspectDelivery
CloseDetails == /\ OnList /\ local.selected # NoRow
                /\ Here([local EXCEPT !.selected = NoRow, !.copy = Unmarked])

-----------------------------------------------------------------------------
(* Variant: the selection starts before the first endpoint.                *)
FreshApiZero == [selected |-> NoRow, copy |-> Unmarked]

(* The API reference: one endpoint is open.                                *)
ApiState == [selected : Rows, copy : CopyState]
FreshApi == [selected |-> FirstRow, copy |-> Unmarked]
SelectEndpoint == /\ On("api")
                  /\ \E r \in Rows : Here([local EXCEPT !.selected = r])

(* Copy buttons: of an endpoint, of the payload in the details, of a new   *)
(* secret.  The mark stays if the endpoint, or the secret, is exchanged.   *)
CopyShown == \/ On("api") \/ InDialog
             \/ page \in {"events", "webhooks"} /\ local.selected # NoRow
Copy == /\ CopyShown /\ local.copy.copies < MaxCopies
        /\ Here([local EXCEPT !.copy = Copied(@)])
CopyLapses == /\ CopyShown /\ local.copy.copies > 0
              /\ Here([local EXCEPT !.copy = Lapsed(@)])

-----------------------------------------------------------------------------
(* The overview and the system page load health and drift when they mount, *)
(* and wait for both; fetchHealth answers for itself in every case, and    *)
(* fetchDriftMetrics is a constant (ApiClient).                            *)
TelemetryPages == {"dashboard", "system"}
SystemTabs == {"components", "drift"}
Unknown == "unknown"
HealthReports == {"ok", "degraded"}
TelemetryState == [health : HealthReports \cup {Unknown}, drift : BOOLEAN,
                   tab : SystemTabs]
FreshTelemetry == [health |-> Unknown, drift |-> FALSE, tab |-> "components"]
Loading == page \in TelemetryPages /\ local.health = Unknown

(* Variant: an outage ends the load before the drift figures.              *)
LoadDataInTurn == /\ Loading
                  /\ \E h \in HealthReports :
                       Here([local EXCEPT !.health = h, !.drift = (h = "ok")])

LoadData == /\ Loading
            /\ \E h \in HealthReports :
                 Here([local EXCEPT !.health = h, !.drift = TRUE])
SelectTab == /\ On("system")
             /\ \E t \in SystemTabs : Here([local EXCEPT !.tab = t])
SelectSettingsTab == /\ On("settings")
                     /\ \E t \in SettingsTabs : Here([local EXCEPT !.tab = t])

LedgerNext == \/ Search \/ Filter \/ SwitchView \/ Inspect \/ CloseDetails
              \/ SelectEndpoint \/ Copy \/ CopyLapses
              \/ LoadData \/ SelectTab \/ SelectSettingsTab

-----------------------------------------------------------------------------
LedgerTypeOK == /\ OnList => local \in ListState(page)
                /\ On("api") => local \in ApiState
                /\ page \in TelemetryPages => local \in TelemetryState

(* Every "Copied" goes away again, however the clicks overlap.             *)
CopiedShown == CopyShown /\ local.copy.copied
CopiedExpires == CopiedShown ~> ~CopiedShown

(* The overview and the system page show what they load, or are left; an   *)
(* outage of the backend does not keep the drift figures away.             *)
TelemetryArrives == Loading ~> \/ page \notin TelemetryPages
                               \/ local.health # Unknown /\ local.drift

(* No timer or load of a page leaves it half done.                         *)
NothingStaysPending == CopiedExpires /\ TelemetryArrives

=============================================================================
