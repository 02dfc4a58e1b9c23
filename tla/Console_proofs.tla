--------------------------- MODULE Console_proofs ---------------------------
(***************************************************************************)
(* Theorems about Console, for all tables, roles, tenants and chapters,    *)
(* and any number of sign-ins, secrets and copies.                         *)
(***************************************************************************)
EXTENDS Console, TLAPS

(* The type of a page's state, as a predicate of the page and the state.   *)
TypedOn(p, state) ==
  /\ p = "login" => state \in LoginState
  /\ p = "settings" => state \in SettingsState
  /\ p \in ListPages => state \in ListState(p)
  /\ p = "api" => state \in ApiState
  /\ p \in TelemetryPages => state \in TelemetryState
  /\ p = "landing" => state \in StoryState
  /\ p = "security" => state \in [tab : SecurityTabs]

ConsoleInv == ConsoleTypeOK /\ UserMatchesRole /\ NoFrameLeftBehind

(* What a step that stays on its page leaves to be shown of it.            *)
Rest == /\ session \in SessionState /\ UserMatchesRole
        /\ signIns \in Seq(Choices) /\ Len(signIns) <= MaxSignIns
        /\ issued \in 0..MaxKeys
        /\ trail \in {"none", "start", "behind"}

USE DEF On, OnLanding, OnList, Set

LEMMA ListPagesAre ==
  ListPages = {"transactions", "events", "entities", "webhooks"}
  BY DEF ListPages, Facets

LEMMA TypeIsTypedOn ==
  ConsoleTypeOK /\ UserMatchesRole <=> page \in Pages /\ TypedOn(page, local) /\ Rest
  BY DEF ConsoleTypeOK, AccessTypeOK, LedgerTypeOK, TypedOn, Rest

LEMMA TypeIsTypedOnNext ==
  (ConsoleTypeOK /\ UserMatchesRole)'
    <=> page' \in Pages /\ TypedOn(page', local') /\ Rest'
  BY DEF ConsoleTypeOK, AccessTypeOK, LedgerTypeOK, TypedOn, Rest

-----------------------------------------------------------------------------
(* What a page is mounted with is of its type.                             *)
LEMMA FreshStoryOK ==
  ASSUME NEW calm \in BOOLEAN
  PROVE  FreshStory(calm) \in StoryState /\ FreshStory(calm).drawn = First
  BY ChaptersAssumption DEF FreshStory, StoryState

LEMMA UnmarkedOK == Unmarked \in CopyState
  BY AccessAssumption DEF Unmarked, CopyState

LEMMA FreshListOK ==
  ASSUME NEW p \in ListPages
  PROVE  FreshList(p) \in ListState(p)
<1>1. FirstView[p] \in Views[p]
  BY ListPagesAre DEF FirstView, Views
<1>2. [f \in Facets[p] |-> All] \in [Facets[p] -> Values \cup {All}]
  OBVIOUS
<1> QED  BY <1>1, <1>2, UnmarkedOK, LedgerAssumption DEF FreshList, ListState

LEMMA FreshOK ==
  ASSUME NEW p \in Pages, NEW calm \in BOOLEAN
  PROVE  TypedOn(p, Fresh(p, calm))
<1> USE ListPagesAre DEF TypedOn, TelemetryPages
<1>1. CASE p = "landing"
  BY <1>1, FreshStoryOK DEF Fresh
<1>2. CASE p = "login"
  BY <1>2, AccessAssumption DEF Fresh, FreshLogin, LoginState, Choices
<1>3. CASE p \in ListPages
  BY <1>3, FreshListOK DEF Fresh
<1>4. CASE p = "api"
  BY <1>4, UnmarkedOK, LedgerAssumption DEF Fresh, FreshApi, ApiState
<1>5. CASE p \in TelemetryPages
  BY <1>5 DEF Fresh, FreshTelemetry, TelemetryState, SystemTabs
<1>6. CASE p = "settings"
  BY <1>6, UnmarkedOK, AccessAssumption
     DEF Fresh, FreshSettings, SettingsState, SettingsTabs, NoKey
<1>7. CASE p = "security"
  BY <1>7 DEF Fresh, FreshSecurity, SecurityTabs
<1>8. CASE p = "decision"
  BY <1>8
<1> QED
  BY <1>1, <1>2, <1>3, <1>4, <1>5, <1>6, <1>7, <1>8 DEF Pages, LayoutPages

LEMMA FreshLandingOK ==
  ASSUME NEW calm \in BOOLEAN
  PROVE  Fresh("landing", calm).drawn = First
  BY FreshStoryOK, ListPagesAre DEF Fresh, TelemetryPages

(* Mounting a page runs its loops and no others.                           *)
LEMMA MountOK ==
  ASSUME NEW p \in Pages, NEW calm \in Moods(p), Open(p, Fresh(p, calm))
  PROVE  /\ page' \in Pages /\ TypedOn(page', local') /\ Running' = Started(p)
         /\ ShownKey' = NoKey
<1>1. calm \in BOOLEAN /\ page' = p /\ local' = Fresh(p, calm)
  BY DEF Moods, Open
<1>2. TypedOn(page', local')
  BY <1>1, FreshOK
<1>3. Running' = Started(p)
  BY <1>1, FreshLandingOK DEF Running, Started
<1>4. p = "settings" => Fresh(p, calm) = FreshSettings
  BY ListPagesAre DEF Fresh, TelemetryPages
<1> QED  BY <1>1, <1>2, <1>3, <1>4 DEF ShownKey, FreshSettings

(* A step from page to page keeps the types and exchanges the loops.       *)
LEMMA GotoOK ==
  ASSUME ConsoleInv, NEW p \in Pages, Goto(p)
  PROVE  /\ page' \in Pages /\ TypedOn(page', local') /\ NoFrameLeftBehind'
         /\ ShownKey' \in {ShownKey, NoKey}
<1>1. CASE p = page
  BY <1>1, TypeIsTypedOn DEF Goto, ConsoleInv, NoFrameLeftBehind, Running, ShownKey
<1>2. CASE p # page
  <2>1. PICK calm \in Moods(p) : Open(p, Fresh(p, calm))
    BY <1>2 DEF Goto
  <2>2. frames' = Started(p)
    BY <1>2 DEF Goto, Exchange, Cleanup, ConsoleInv, NoFrameLeftBehind
  <2> QED  BY <2>1, <2>2, MountOK DEF NoFrameLeftBehind
<1> QED  BY <1>1, <1>2

-----------------------------------------------------------------------------
LEMMA InitOK == ConsoleInit => ConsoleInv
<1> SUFFICES ASSUME ConsoleInit PROVE ConsoleInv
  OBVIOUS
<1>1. PICK calm \in Moods(page) : local = Fresh(page, calm)
  BY DEF ConsoleInit
<1>2. calm \in BOOLEAN /\ page \in Pages
  BY <1>1 DEF Moods, ConsoleInit
<1>3. TypedOn(page, local)
  BY <1>1, <1>2, FreshOK
<1>4. Running = Started(page)
  BY <1>1, <1>2, FreshLandingOK DEF Running, Started
<1>5. Rest
  BY AccessAssumption DEF ConsoleInit, Rest, FreshSession, SessionState, Users,
     UserOf, UserMatchesRole
<1> QED
  BY <1>2, <1>3, <1>4, <1>5, TypeIsTypedOn DEF ConsoleInv, NoFrameLeftBehind, ConsoleInit

(* The landing page keeps its type, and its loops are those of the         *)
(* backdrop it has drawn.                                                  *)
LEMMA StoryOK ==
  ASSUME ConsoleInv, Story
  PROVE  ConsoleInv'
<1>1. On("landing") /\ local \in StoryState /\ frames = LoopsFor(local.drawn)
  BY DEF Story, StoryNext, IntroElapses, TrackSection, Redraw, FrameOfHeadline,
     Failsafe, Scroll, ObserveHeadline, ObserveSection, ConsoleInv, ConsoleTypeOK,
     NoFrameLeftBehind, Running
<1>2. page' = page /\ Rest' /\ UNCHANGED <<access, trail>>
  BY TypeIsTypedOn DEF Story, StoryNext, IntroElapses, TrackSection, Redraw,
     FrameOfHeadline, Failsafe, Scroll, ObserveHeadline, ObserveSection, ConsoleInv,
     Rest, UserMatchesRole, access
<1>3. local' \in StoryState /\ frames' = LoopsFor(local'.drawn)
  <2>1. CASE Redraw
    <3>1. local' = [local EXCEPT !.drawn = local.active]
      BY <2>1 DEF Redraw
    <3>2. frames' = (frames \ {<<"story", local.drawn>>}) \cup {<<"story", local.active>>}
      BY <2>1 DEF Redraw, Cleanup
    <3>3. local' \in StoryState /\ local'.drawn = local.active
      BY <1>1, <3>1 DEF StoryState
    <3> QED  BY <1>1, <3>2, <3>3 DEF LoopsFor, Stills
  <2>2. CASE IntroElapses
    BY <1>1, <2>2 DEF IntroElapses, StoryState
  <2>3. CASE TrackSection
    BY <1>1, <2>3 DEF TrackSection, StoryState
  <2>4. CASE FrameOfHeadline
    BY <1>1, <2>4, ChaptersAssumption DEF FrameOfHeadline, Revealed, StoryState
  <2>5. CASE Failsafe
    BY <1>1, <2>5, ChaptersAssumption DEF Failsafe, Revealed, StoryState
  <2>6. ASSUME NEW c \in Chapters, Scroll(c)
        PROVE  local' \in StoryState /\ frames' = LoopsFor(local'.drawn)
    BY <1>1, <2>6 DEF Scroll, StoryState
  <2>7. ASSUME NEW c \in Chapters, ObserveHeadline(c)
        PROVE  local' \in StoryState /\ frames' = LoopsFor(local'.drawn)
    BY <1>1, <2>7 DEF ObserveHeadline, Revealed, StoryState
  <2>8. ASSUME NEW c \in Chapters, ObserveSection(c)
        PROVE  local' \in StoryState /\ frames' = LoopsFor(local'.drawn)
    BY <1>1, <2>8 DEF ObserveSection, StoryState
  <2> QED
    BY <2>1, <2>2, <2>3, <2>4, <2>5, <2>6, <2>7, <2>8 DEF Story, StoryNext
<1>4. page' \in Pages /\ TypedOn(page', local')
  BY <1>1, <1>2, <1>3, ListPagesAre DEF TypedOn, TelemetryPages, Pages
<1>5. NoFrameLeftBehind'
  BY <1>1, <1>2, <1>3 DEF NoFrameLeftBehind, Running
<1> QED  BY <1>2, <1>4, <1>5, TypeIsTypedOnNext DEF ConsoleInv

(* The switchers, the sign-in form and the key dialog.                     *)
LEMMA WithRoleOK ==
  ASSUME NEW s \in SessionState, NEW role \in Roles
  PROVE  /\ WithRole(s, role) \in SessionState
         /\ WithRole(s, role).role = role /\ WithRole(s, role).user.role = role
<1>1. UserOf(role) \in Users /\ UserOf(role).role = role
  BY DEF Users, UserOf
<1>2. PICK v \in Users : v.role = role /\ v = (CHOOSE u \in Users : u.role = role)
  BY <1>1
<1>3. WithRole(s, role) = [s EXCEPT !.role = role, !.user = v]
  BY <1>1, <1>2 DEF WithRole
<1> QED  BY <1>2, <1>3 DEF SessionState

LEMMA AccessOK ==
  ASSUME ConsoleInv, Access
  PROVE  ConsoleInv' /\ (ShownKey' \in {ShownKey, NoKey} \/ ShownKey' > issued)
<1>1. page \in Pages /\ TypedOn(page, local) /\ Rest
  BY TypeIsTypedOn DEF ConsoleInv
<1>2. page' = page /\ UNCHANGED <<frames, trail>>
  BY DEF Access, AccessNext, Switch, SetRole, SetTenant, SetSession, FillIn, SignIn,
     GenerateKey, Confirm, CloseKey, InDialog
<1>3. CASE Switch
  <2>1. UNCHANGED <<local, signIns, issued>>
    BY <1>3 DEF Switch, SetRole, SetTenant, SetSession
  <2>2. session' \in SessionState /\ UserMatchesRole'
    <3>1. CASE \E role \in Roles : SetRole(role)
      BY <1>1, <3>1, WithRoleOK DEF SetRole, SetSession, Rest, UserMatchesRole
    <3>2. CASE \E t \in Tenants : SetTenant(t)
      BY <1>1, <3>2 DEF SetTenant, SetSession, Rest, SessionState, UserMatchesRole
    <3> QED  BY <1>3, <3>1, <3>2 DEF Switch
  <2>3. Rest' /\ TypedOn(page', local')
    BY <1>1, <1>2, <2>1, <2>2 DEF Rest
  <2>4. NoFrameLeftBehind' /\ ShownKey' = ShownKey
    BY <1>2, <2>1 DEF ConsoleInv, NoFrameLeftBehind, Running, ShownKey
  <2> QED  BY <1>1, <1>2, <2>3, <2>4, TypeIsTypedOnNext DEF ConsoleInv
<1>4. CASE FillIn \/ SignIn
  <2>1. page = "login" /\ local \in LoginState /\ UNCHANGED <<session, issued>>
    BY <1>1, <1>4 DEF FillIn, SignIn, TypedOn, access
  <2>2. /\ local' \in LoginState
        /\ signIns' \in Seq(Choices) /\ Len(signIns') <= MaxSignIns
    <3>1. CASE FillIn
      BY <1>1, <2>1, <3>1, AccessAssumption DEF FillIn, LoginState, Choices, Rest, access
    <3>2. CASE SignIn
      <4>1. /\ local' = [local EXCEPT !.loading = TRUE] /\ local.choice \in Choices
            /\ signIns' = Append(signIns, local.choice) /\ Len(signIns) < MaxSignIns
        BY <2>1, <3>2 DEF SignIn, LoginState
      <4>2. local' \in LoginState
        BY <2>1, <4>1 DEF LoginState
      <4> QED  BY <1>1, <4>1, <4>2, AccessAssumption DEF Rest
    <3> QED  BY <1>4, <3>1, <3>2
  <2>3. TypedOn(page', local')
    BY <1>2, <2>1, <2>2, ListPagesAre DEF TypedOn, TelemetryPages
  <2>4. Rest'
    BY <1>1, <1>2, <2>1, <2>2 DEF Rest, UserMatchesRole
  <2>5. NoFrameLeftBehind' /\ ShownKey' = NoKey
    BY <1>2, <2>1 DEF ConsoleInv, NoFrameLeftBehind, Running, ShownKey
  <2> QED  BY <1>1, <1>2, <2>3, <2>4, <2>5, TypeIsTypedOnNext DEF ConsoleInv
<1>5. CASE GenerateKey \/ Confirm \/ CloseKey
  <2>1. page = "settings" /\ local \in SettingsState /\ UNCHANGED <<session, signIns>>
    BY <1>1, <1>5 DEF GenerateKey, Confirm, CloseKey, InDialog, TypedOn, access
  <2>2. /\ local' \in SettingsState /\ issued' \in 0..MaxKeys
        /\ local'.key \in {local.key, NoKey} \/ local'.key > issued
    <3>1. CASE GenerateKey
      <4>1. /\ local' = [local EXCEPT !.key = issued + 1] /\ issued' = issued + 1
            /\ issued < MaxKeys /\ issued \in 0..MaxKeys /\ MaxKeys \in Nat
        BY <1>1, <3>1, AccessAssumption DEF GenerateKey, NewSecret, Rest
      <4>2. issued + 1 \in 0..MaxKeys /\ issued + 1 > issued
        BY <4>1
      <4> QED  BY <2>1, <4>1, <4>2 DEF SettingsState
    <3>2. CASE Confirm
      BY <1>1, <2>1, <3>2 DEF Confirm, SettingsState, Rest, access
    <3>3. CASE CloseKey
      <4>1. local' = [FreshSettings EXCEPT !.tab = local.tab] /\ issued' = issued
        BY <3>3 DEF CloseKey, access
      <4>2. FreshSettings \in SettingsState /\ local.tab \in SettingsTabs
        BY <2>1, UnmarkedOK, AccessAssumption
           DEF FreshSettings, SettingsState, SettingsTabs, NoKey
      <4>3. local' \in SettingsState /\ local'.key = NoKey
        BY <4>1, <4>2 DEF SettingsState, FreshSettings
      <4> QED  BY <1>1, <4>1, <4>3 DEF Rest
    <3> QED  BY <1>5, <3>1, <3>2, <3>3
  <2>3. TypedOn(page', local')
    BY <1>2, <2>1, <2>2, ListPagesAre DEF TypedOn, TelemetryPages
  <2>4. Rest'
    BY <1>1, <1>2, <2>1, <2>2 DEF Rest, UserMatchesRole
  <2>5. NoFrameLeftBehind'
    BY <1>2, <2>1 DEF ConsoleInv, NoFrameLeftBehind, Running
  <2>6. ShownKey' = local'.key /\ ShownKey = local.key
    BY <1>2, <2>1 DEF ShownKey
  <2> QED  BY <1>1, <1>2, <2>2, <2>3, <2>4, <2>5, <2>6, TypeIsTypedOnNext DEF ConsoleInv
<1> QED  BY <1>3, <1>4, <1>5 DEF Access, AccessNext

(* The list pages, the API reference and the telemetry pages.              *)
LEMMA ListStepOK ==
  ASSUME OnList, local \in ListState(page),
         Search \/ Filter \/ SwitchView \/ Inspect \/ CloseDetails
  PROVE  local' \in ListState(page)
<1>1. CASE Search
  BY <1>1 DEF Search, Here, ListState
<1>2. CASE Filter
  <2>1. PICK f \in Facets[page], v \in Values \cup {All} :
          local' = [local EXCEPT !.filter[f] = v]
    BY <1>2 DEF Filter, Here
  <2>2. [local.filter EXCEPT ![f] = v] \in [Facets[page] -> Values \cup {All}]
    BY DEF ListState
  <2> QED  BY <2>1, <2>2 DEF ListState
<1>3. CASE SwitchView
  BY <1>3 DEF SwitchView, Here, ListState
<1>4. CASE Inspect
  <2>1. PICK r \in Filtered : local' = [local EXCEPT !.selected = r]
    BY <1>4 DEF Inspect, InspectEvent, InspectEntity, InspectDelivery, InspectRow, Here
  <2>2. r \in Rows
    BY <2>1, LedgerAssumption DEF Filtered, ListState
  <2> QED  BY <2>1, <2>2 DEF ListState
<1>5. CASE CloseDetails
  BY <1>5, UnmarkedOK DEF CloseDetails, Here, ListState
<1> QED  BY <1>1, <1>2, <1>3, <1>4, <1>5

LEMMA MarksOK ==
  ASSUME NEW c \in CopyState
  PROVE  /\ c.copies < MaxCopies => Copied(c) \in CopyState
         /\ c.copies > 0 => Lapsed(c) \in CopyState
  BY AccessAssumption DEF CopyState, Copied, Lapsed

LEMMA CopyStepOK ==
  ASSUME page \in Pages, TypedOn(page, local), Copy \/ CopyLapses
  PROVE  TypedOn(page', local') /\ ShownKey' = ShownKey /\ page # "landing"
<1>1. page \in {"api", "settings", "events", "webhooks"} /\ page' = page
  BY DEF Copy, CopyLapses, CopyShown, InDialog, Here
<1>2. local.copy \in CopyState
  BY <1>1, ListPagesAre DEF TypedOn, ApiState, SettingsState, ListState
<1>3. PICK c \in CopyState : local' = [local EXCEPT !.copy = c]
  BY <1>2, MarksOK DEF Copy, CopyLapses, Here
<1>4. CASE page = "api"
  BY <1>1, <1>3, <1>4, ListPagesAre DEF TypedOn, ApiState, ShownKey, TelemetryPages
<1>5. CASE page = "settings"
  <2>1. local \in SettingsState
    BY <1>5 DEF TypedOn
  <2>2. local' \in SettingsState /\ local'.key = local.key
    BY <1>3, <2>1 DEF SettingsState
  <2> QED  BY <1>1, <1>5, <2>2, ListPagesAre DEF TypedOn, ShownKey, TelemetryPages
<1>6. CASE page \in ListPages
  <2>1. local' \in ListState(page)
    BY <1>3, <1>6 DEF TypedOn, ListState
  <2> QED  BY <1>1, <1>6, <2>1, ListPagesAre DEF TypedOn, ShownKey, TelemetryPages
<1> QED  BY <1>1, <1>4, <1>5, <1>6, ListPagesAre

LEMMA LedgerOK ==
  ASSUME ConsoleInv, Ledger
  PROVE  ConsoleInv' /\ ShownKey' = ShownKey
<1>1. page \in Pages /\ TypedOn(page, local) /\ Rest
  BY TypeIsTypedOn DEF ConsoleInv
<1>2. page' = page /\ UNCHANGED <<access, frames, trail>>
  BY DEF Ledger, LedgerNext, Search, Filter, SwitchView, Inspect, InspectEvent,
     InspectEntity, InspectDelivery, InspectRow, CloseDetails, SelectEndpoint,
     Copy, CopyLapses, LoadData, SelectTab, SelectSettingsTab, Here
<1>3. TypedOn(page', local') /\ ShownKey' = ShownKey /\ page # "landing"
  <2>1. CASE Search \/ Filter \/ SwitchView \/ Inspect \/ CloseDetails
    <3>1. page \in ListPages /\ local \in ListState(page)
      BY <1>1, <2>1 DEF Search, Filter, SwitchView, Inspect, InspectEvent,
         InspectEntity, InspectDelivery, CloseDetails, TypedOn, OnList, ListPages,
         Facets
    <3>2. local' \in ListState(page)
      BY <2>1, <3>1, ListStepOK
    <3> QED  BY <1>2, <3>1, <3>2, ListPagesAre DEF TypedOn, ShownKey, TelemetryPages
  <2>2. CASE Copy \/ CopyLapses
    BY <1>1, <2>2, CopyStepOK
  <2>3. CASE SelectEndpoint
    <3>1. page = "api" /\ local \in ApiState
      BY <1>1, <2>3 DEF SelectEndpoint, TypedOn
    <3>2. local' \in ApiState
      BY <2>3, <3>1 DEF SelectEndpoint, Here, ApiState
    <3> QED  BY <1>2, <3>1, <3>2, ListPagesAre DEF TypedOn, ShownKey, TelemetryPages
  <2>4. CASE LoadData \/ SelectTab
    <3>1. page \in TelemetryPages /\ local \in TelemetryState
      BY <1>1, <2>4 DEF LoadData, Loading, SelectTab, TelemetryPages, TypedOn
    <3>2. local' \in TelemetryState
      BY <2>4, <3>1 DEF LoadData, SelectTab, Here, TelemetryState
    <3> QED  BY <1>2, <3>1, <3>2, ListPagesAre DEF TypedOn, ShownKey, TelemetryPages
  <2>5. CASE SelectSettingsTab
    <3>1. page = "settings" /\ local \in SettingsState
      BY <1>1, <2>5 DEF SelectSettingsTab, TypedOn
    <3>2. local' \in SettingsState /\ local'.key = local.key
      BY <2>5, <3>1 DEF SelectSettingsTab, Here, SettingsState
    <3> QED  BY <1>2, <3>1, <3>2, ListPagesAre DEF TypedOn, ShownKey, TelemetryPages
  <2> QED  BY <2>1, <2>2, <2>3, <2>4, <2>5 DEF Ledger, LedgerNext
<1>4. Rest' /\ NoFrameLeftBehind'
  BY <1>1, <1>2, <1>3 DEF Rest, UserMatchesRole, access, ConsoleInv,
     NoFrameLeftBehind, Running
<1> QED  BY <1>1, <1>2, <1>3, <1>4, TypeIsTypedOnNext DEF ConsoleInv

-----------------------------------------------------------------------------
(* The steps from page to page.                                            *)
LEMMA SignInElapsesOK ==
  ASSUME ConsoleInv, SignInElapses
  PROVE  ConsoleInv' /\ ShownKey' \in {ShownKey, NoKey}
<1>1. Rest
  BY TypeIsTypedOn DEF ConsoleInv
<1>2. Head(signIns) \in Choices /\ Tail(signIns) \in Seq(Choices)
      /\ Len(Tail(signIns)) <= MaxSignIns
  BY <1>1, AccessAssumption DEF SignInElapses, Rest
<1>3. session' \in SessionState /\ UserMatchesRole'
  <2>1. PICK c \in Choices : c = Head(signIns)
    BY <1>2
  <2>2. /\ WithRole(session, c.role) \in SessionState
        /\ WithRole(session, c.role).user.role = WithRole(session, c.role).role
    BY <1>1, WithRoleOK DEF Choices, Rest
  <2>3. session' = [WithRole(session, c.role) EXCEPT !.tenant = c.tenant]
    BY <2>1 DEF SignInElapses, SignedIn
  <2>4. c.tenant \in Tenants
    BY DEF Choices
  <2> QED  BY <2>2, <2>3, <2>4 DEF SessionState, UserMatchesRole
<1>4. Rest'
  BY <1>1, <1>2, <1>3 DEF Rest, SignInElapses
<1>5. "dashboard" \in Pages
  BY DEF Pages, LayoutPages, TelemetryPages
<1>6. Goto("dashboard")
  BY DEF SignInElapses
<1> QED  BY <1>4, <1>5, <1>6, GotoOK, TypeIsTypedOnNext DEF ConsoleInv

LEMMA MoveOK ==
  ASSUME ConsoleInv, Navigate \/ Traverse
  PROVE  ConsoleInv' /\ ShownKey' \in {ShownKey, NoKey}
<1>1. PICK p \in Pages : Goto(p)
  BY DEF Navigate, Traverse, Links, Pages, LayoutPages, TelemetryPages
<1>2. Rest'
  BY TypeIsTypedOn DEF ConsoleInv, Navigate, Traverse, Rest, UserMatchesRole, access
<1> QED  BY <1>1, <1>2, GotoOK, TypeIsTypedOnNext DEF ConsoleInv

LEMMA LoadOK ==
  ASSUME ConsoleInv, Load
  PROVE  ConsoleInv' /\ ShownKey' = NoKey
<1>1. PICK p \in Pages : /\ \E calm \in Moods(p) : Open(p, Fresh(p, calm))
                         /\ frames' = Started(p)
                         /\ trail' = IF p = "login" THEN "start" ELSE "none"
  BY DEF Load
<1>2. Rest'
  <2>1. FreshSession \in SessionState /\ FreshSession.user.role = FreshSession.role
    BY AccessAssumption DEF FreshSession, SessionState, Users, UserOf
  <2> QED  BY <1>1, <2>1, TypeIsTypedOn, AccessAssumption
              DEF ConsoleInv, Load, Rest, UserMatchesRole
<1> QED  BY <1>1, <1>2, MountOK, TypeIsTypedOnNext DEF ConsoleInv, NoFrameLeftBehind

LEMMA SecurityTabOK ==
  ASSUME ConsoleInv, SelectSecurityTab
  PROVE  ConsoleInv' /\ ShownKey' = ShownKey
<1>1. page \in Pages /\ Rest /\ page = "security" /\ page' = page
      /\ UNCHANGED <<access, frames, trail>> /\ local' \in [tab : SecurityTabs]
  BY TypeIsTypedOn DEF ConsoleInv, SelectSecurityTab
<1>2. Rest' /\ NoFrameLeftBehind' /\ ShownKey' = ShownKey
  BY <1>1 DEF Rest, UserMatchesRole, access, ConsoleInv, NoFrameLeftBehind, Running,
     ShownKey
<1>3. TypedOn(page', local')
  BY <1>1, ListPagesAre DEF TypedOn, TelemetryPages
<1> QED  BY <1>1, <1>2, <1>3, TypeIsTypedOnNext DEF ConsoleInv

(* Every step keeps the invariant, and never shows an old secret.          *)
LEMMA StepOK ==
  ASSUME ConsoleInv, [ConsoleNext]_vars
  PROVE  ConsoleInv' /\ (ShownKey' \in {ShownKey, NoKey} \/ ShownKey' > issued)
<1>1. CASE Story
  <2>1. page = "landing" /\ page' = page
    BY <1>1 DEF Story, StoryNext, IntroElapses, TrackSection, Redraw, FrameOfHeadline,
       Failsafe, Scroll, ObserveHeadline, ObserveSection
  <2> QED  BY <1>1, <2>1, StoryOK DEF ShownKey
<1>2. CASE Access
  BY <1>2, AccessOK
<1>3. CASE Ledger
  BY <1>3, LedgerOK
<1>4. CASE Navigate \/ Traverse
  BY <1>4, MoveOK
<1>5. CASE SelectSecurityTab
  BY <1>5, SecurityTabOK
<1>6. CASE SignInElapses
  BY <1>6, SignInElapsesOK
<1>7. CASE Load
  BY <1>7, LoadOK
<1>8. CASE UNCHANGED vars
  <2>1. Rest' /\ TypedOn(page', local') /\ page' \in Pages
    BY <1>8, TypeIsTypedOn DEF ConsoleInv, vars, access, Rest, UserMatchesRole
  <2>2. NoFrameLeftBehind' /\ ShownKey' = ShownKey
    BY <1>8 DEF ConsoleInv, vars, NoFrameLeftBehind, Running, ShownKey
  <2> QED  BY <2>1, <2>2, TypeIsTypedOnNext DEF ConsoleInv
<1> QED
  BY <1>1, <1>2, <1>3, <1>4, <1>5, <1>6, <1>7, <1>8 DEF ConsoleNext

-----------------------------------------------------------------------------
(* The inductive invariant holds of every behaviour of the console.        *)
THEOREM ConsoleCorrect == ConsoleSpec => []ConsoleInv
<1>1. ConsoleInv /\ [ConsoleNext]_vars => ConsoleInv'
  BY StepOK
<1> QED  BY <1>1, InitOK, PTL DEF ConsoleSpec

(* Every page's state has its type, from whatever page it was reached.     *)
THEOREM ConsoleTypeCorrect == ConsoleSpec => []ConsoleTypeOK
<1>1. ConsoleInv => ConsoleTypeOK
  BY DEF ConsoleInv
<1> QED  BY <1>1, ConsoleCorrect, PTL

(* The user shown has the role in force (setRole, the sign-in timer).      *)
THEOREM UsersMatchRoles == ConsoleSpec => []UserMatchesRole
<1>1. ConsoleInv => UserMatchesRole
  BY DEF ConsoleInv
<1> QED  BY <1>1, ConsoleCorrect, PTL

(* Loops of the landing page's canvases never pile up and never outlive it.*)
THEOREM FramesAreCancelled == ConsoleSpec => []NoFrameLeftBehind
<1>1. ConsoleInv => NoFrameLeftBehind
  BY DEF ConsoleInv
<1> QED  BY <1>1, ConsoleCorrect, PTL

(* A secret that has left the screen is never displayed again.             *)
THEOREM SecretsAreShownOnce == ConsoleSpec => SecretShownOnce
<1>1. ConsoleInv /\ [ConsoleNext]_vars
        => [ShownKey' \in {ShownKey, NoKey} \/ ShownKey' > issued]_<<page, local, access>>
  BY StepOK
<1> QED  BY <1>1, ConsoleCorrect, PTL DEF ConsoleSpec, SecretShownOnce

-----------------------------------------------------------------------------
(* Nothing that is under way is forgotten.  EveryWaitHasItsCallback as a   *)
(* predicate of a page and its state, given that of the sign-ins.          *)
Owing(p, state, pending) ==
  /\ p = "landing" => /\ First \in state.sharp \/ state.failsafe
                      /\ state.heard => state.active = state.scroll
  /\ p = "login" => (state.loading => pending)
  /\ p \in ListPages \cup {"api", "settings"}
       => (state.copy.copied => state.copy.copies > 0)
  /\ p \in TelemetryPages => (state.health # Unknown => state.drift)

Due == Owing(page, local, signIns # <<>>)

LEMMA DueIs == /\ EveryWaitHasItsCallback <=> Due
               /\ EveryWaitHasItsCallback' <=> Owing(page', local', signIns' # <<>>)
  BY DEF EveryWaitHasItsCallback, Due, Owing

(* A page that has just been mounted waits for nothing it has not started. *)
LEMMA FreshOwing ==
  ASSUME NEW p \in Pages, NEW calm \in BOOLEAN, NEW pending \in BOOLEAN
  PROVE  Owing(p, Fresh(p, calm), pending)
<1> USE ListPagesAre DEF Owing, TelemetryPages, Fresh
<1>1. CASE p = "landing"
  BY <1>1, ChaptersAssumption DEF FreshStory
<1>2. CASE p = "login"
  BY <1>2 DEF FreshLogin
<1>3. CASE p \in ListPages
  BY <1>3 DEF FreshList, Unmarked
<1>4. CASE p = "api"
  BY <1>4 DEF FreshApi, Unmarked
<1>5. CASE p \in TelemetryPages
  BY <1>5 DEF FreshTelemetry
<1>6. CASE p = "settings"
  BY <1>6 DEF FreshSettings, Unmarked
<1>7. CASE p \in {"security", "decision"}
  BY <1>7
<1> QED  BY <1>1, <1>2, <1>3, <1>4, <1>5, <1>6, <1>7 DEF Pages, LayoutPages

(* From page to page: the new page is fresh, or the old one stays as it is *)
(* and is no sign-in page that waits.                                      *)
LEMMA GotoOwing ==
  ASSUME Due, NEW p \in Pages, Goto(p), page = "login" => p # page \/ UNCHANGED signIns
  PROVE  Owing(page', local', signIns' # <<>>)
<1>1. CASE p = page
  BY <1>1 DEF Goto, Due, Owing
<1>2. CASE p # page
  <2>1. PICK calm \in BOOLEAN : page' = p /\ local' = Fresh(p, calm)
    BY <1>2 DEF Goto, Moods, Open
  <2> QED  BY <2>1, FreshOwing
<1> QED  BY <1>1, <1>2

LEMMA StoryOwing ==
  ASSUME ConsoleInv, Due, Story
  PROVE  Owing(page', local', signIns' # <<>>)
<1>1. /\ page = "landing" /\ page' = "landing" /\ local \in StoryState
      /\ First \in local.sharp \/ local.failsafe
      /\ local.heard => local.active = local.scroll
  BY DEF Story, StoryNext, IntroElapses, TrackSection, Redraw, FrameOfHeadline,
     Failsafe, Scroll, ObserveHeadline, ObserveSection, ConsoleInv, ConsoleTypeOK,
     Due, Owing
<1>2. /\ First \in local'.sharp \/ local'.failsafe
      /\ local'.heard => local'.active = local'.scroll
  <2>1. CASE IntroElapses \/ Redraw \/ TrackSection
    BY <1>1, <2>1 DEF IntroElapses, Redraw, TrackSection, StoryState
  <2>2. CASE FrameOfHeadline \/ Failsafe
    BY <1>1, <2>2 DEF FrameOfHeadline, Failsafe, Revealed, StoryState
  <2>3. CASE \E c \in Chapters : Scroll(c)
    BY <1>1, <2>3 DEF Scroll, StoryState
  <2>4. CASE \E c \in Chapters : ObserveHeadline(c) \/ ObserveSection(c)
    BY <1>1, <2>4 DEF ObserveHeadline, ObserveSection, Revealed, StoryState
  <2> QED  BY <2>1, <2>2, <2>3, <2>4 DEF Story, StoryNext
<1> QED  BY <1>1, <1>2, ListPagesAre DEF Owing, TelemetryPages

LEMMA AccessOwing ==
  ASSUME ConsoleInv, Due, OnlyNewestShown, Access
  PROVE  Owing(page', local', signIns' # <<>>) /\ OnlyNewestShown'
<1>1. page \in Pages /\ TypedOn(page, local) /\ Rest
  BY TypeIsTypedOn DEF ConsoleInv
<1>2. CASE Switch
  BY <1>2 DEF Switch, SetRole, SetTenant, SetSession, Due, Owing, OnlyNewestShown,
     ShownKey
<1>3. CASE FillIn \/ SignIn
  <2>1. page = "login" /\ page' = page /\ local \in LoginState
    BY <1>1, <1>3 DEF FillIn, SignIn, TypedOn
  <2>2. local'.loading => signIns' # <<>>
    <3>1. CASE FillIn
      BY <2>1, <3>1 DEF FillIn, LoginState, access, Due, Owing
    <3>2. CASE SignIn
      <4>1. signIns' = Append(signIns, local.choice) /\ signIns \in Seq(Choices)
            /\ local.choice \in Choices
        BY <1>1, <2>1, <3>2 DEF SignIn, Rest, LoginState
      <4> QED  BY <4>1
    <3> QED  BY <1>3, <3>1, <3>2
  <2> QED
    BY <2>1, <2>2, ListPagesAre DEF Owing, TelemetryPages, OnlyNewestShown, ShownKey
<1>4. CASE GenerateKey \/ Confirm \/ CloseKey
  <2>1. page = "settings" /\ page' = page /\ local \in SettingsState
        /\ (local.copy.copied => local.copy.copies > 0) /\ local.key \in {NoKey, issued}
    BY <1>1, <1>4 DEF GenerateKey, Confirm, CloseKey, InDialog, TypedOn, Due, Owing,
       OnlyNewestShown, ShownKey
  <2>2. /\ local'.copy \in {local.copy, Unmarked}
        /\ local'.key \in {NoKey, issued'}
    <3>1. CASE GenerateKey
      BY <2>1, <3>1 DEF GenerateKey, SettingsState
    <3>2. CASE Confirm
      BY <2>1, <3>2 DEF Confirm, SettingsState, access
    <3>3. CASE CloseKey
      BY <2>1, <3>3 DEF CloseKey, FreshSettings, access
    <3> QED  BY <1>4, <3>1, <3>2, <3>3
  <2>3. local'.copy.copied => local'.copy.copies > 0
    BY <2>1, <2>2 DEF Unmarked
  <2> QED
    BY <2>1, <2>2, <2>3, ListPagesAre DEF Owing, TelemetryPages, OnlyNewestShown, ShownKey
<1> QED  BY <1>2, <1>3, <1>4 DEF Access, AccessNext

(* A mark and its timer come together; a timer takes the mark away.        *)
LEMMA MarksOwing ==
  ASSUME NEW c \in CopyState
  PROVE  Copied(c).copies > 0 /\ Lapsed(c).copied = FALSE /\ Unmarked.copied = FALSE
  BY AccessAssumption DEF CopyState, Copied, Lapsed, Unmarked

LEMMA LedgerOwing ==
  ASSUME ConsoleInv, Due, Ledger
  PROVE  Owing(page', local', signIns' # <<>>)
<1>1. page \in Pages /\ TypedOn(page, local)
  BY TypeIsTypedOn DEF ConsoleInv
<1>2. page' = page /\ signIns' = signIns
  BY DEF Ledger, LedgerNext, Search, Filter, SwitchView, Inspect, InspectEvent,
     InspectEntity, InspectDelivery, InspectRow, CloseDetails, SelectEndpoint,
     Copy, CopyLapses, LoadData, SelectTab, SelectSettingsTab, Here, access
<1>3. CASE page \in ListPages \cup {"api", "settings"}
  <2>1. /\ local.copy \in CopyState
        /\ local.copy.copied => local.copy.copies > 0
    BY <1>1, <1>3, ListPagesAre
       DEF TypedOn, ApiState, SettingsState, ListState, Due, Owing
  <2>2. ~LoadData /\ ~SelectTab
    BY <1>3, ListPagesAre DEF LoadData, Loading, SelectTab, TelemetryPages
  <2>3. local'.copy.copied => local'.copy.copies > 0
    <3>1. CASE Copy \/ CopyLapses
      <4>1. local'.copy \in {Copied(local.copy), Lapsed(local.copy)}
        <5>1. PICK c \in {Copied(local.copy), Lapsed(local.copy)} :
                local' = [local EXCEPT !.copy = c]
          BY <3>1 DEF Copy, CopyLapses, Here
        <5> QED
          BY <1>1, <1>3, <5>1, ListPagesAre DEF TypedOn, ApiState, SettingsState, ListState
      <4> QED  BY <2>1, <4>1, MarksOwing
    <3>2. CASE ~(Copy \/ CopyLapses)
      <4>1. CASE page = "api"
        <5>1. SelectEndpoint
          BY <2>2, <3>2, <4>1, ListPagesAre DEF Ledger, LedgerNext, Search, Filter,
             SwitchView, Inspect, InspectEvent, InspectEntity, InspectDelivery,
             CloseDetails, SelectSettingsTab
        <5>2. local \in ApiState
          BY <1>1, <4>1 DEF TypedOn
        <5> QED  BY <2>1, <5>1, <5>2 DEF SelectEndpoint, Here, ApiState
      <4>2. CASE page = "settings"
        <5>1. SelectSettingsTab
          BY <2>2, <3>2, <4>2, ListPagesAre DEF Ledger, LedgerNext, Search, Filter,
             SwitchView, Inspect, InspectEvent, InspectEntity, InspectDelivery,
             CloseDetails, SelectEndpoint
        <5>2. local \in SettingsState
          BY <1>1, <4>2 DEF TypedOn
        <5> QED  BY <2>1, <5>1, <5>2 DEF SelectSettingsTab, Here, SettingsState
      <4>3. CASE page \in ListPages
        <5>1. local \in ListState(page)
          BY <1>1, <4>3 DEF TypedOn
        <5>2. Search \/ Filter \/ SwitchView \/ Inspect \/ CloseDetails
          BY <2>2, <3>2, <4>3, ListPagesAre DEF Ledger, LedgerNext, SelectEndpoint,
             SelectSettingsTab
        <5>3. local'.copy \in {local.copy, Unmarked}
          BY <5>1, <5>2 DEF Search, Filter, SwitchView, Inspect, InspectEvent,
             InspectEntity, InspectDelivery, InspectRow, CloseDetails, Here, ListState
        <5> QED  BY <2>1, <5>3, MarksOwing
      <4> QED  BY <1>3, <4>1, <4>2, <4>3
    <3> QED  BY <3>1, <3>2
  <2> QED  BY <1>2, <1>3, <2>3, ListPagesAre DEF Owing, TelemetryPages
<1>4. CASE page \in TelemetryPages
  <2>1. local \in TelemetryState /\ (local.health # Unknown => local.drift)
    BY <1>1, <1>4 DEF TypedOn, Due, Owing
  <2>2. LoadData \/ SelectTab
    BY <1>4, ListPagesAre DEF TelemetryPages, Ledger, LedgerNext, Search, Filter,
       SwitchView, Inspect, InspectEvent, InspectEntity, InspectDelivery, CloseDetails,
       SelectEndpoint, Copy, CopyLapses, CopyShown, InDialog, SelectSettingsTab
  <2>3. local'.health # Unknown => local'.drift
    BY <2>1, <2>2 DEF LoadData, SelectTab, Here, TelemetryState
  <2> QED  BY <1>2, <1>4, <2>3, ListPagesAre DEF Owing, TelemetryPages
<1> QED
  BY <1>3, <1>4 DEF Ledger, LedgerNext, Search, Filter, SwitchView, Inspect,
     InspectEvent, InspectEntity, InspectDelivery, CloseDetails, SelectEndpoint, Copy,
     CopyLapses, CopyShown, InDialog, LoadData, Loading, SelectTab, SelectSettingsTab,
     ListPages, Facets, TelemetryPages

LEMMA OwingStep ==
  ASSUME ConsoleInv, Due, OnlyNewestShown, [ConsoleNext]_vars
  PROVE  Owing(page', local', signIns' # <<>>) /\ OnlyNewestShown'
<1> USE DEF OnlyNewestShown
<1>1. CASE Story
  <2>1. page = "landing" /\ page' = page
    BY <1>1 DEF Story, StoryNext, IntroElapses, TrackSection, Redraw, FrameOfHeadline,
       Failsafe, Scroll, ObserveHeadline, ObserveSection
  <2> QED  BY <1>1, <2>1, StoryOwing DEF ShownKey
<1>2. CASE Access
  BY <1>2, AccessOwing
<1>3. CASE Ledger
  BY <1>3, LedgerOwing, LedgerOK DEF Ledger, LedgerNext, Search, Filter, SwitchView,
     Inspect, InspectEvent, InspectEntity, InspectDelivery, InspectRow, CloseDetails,
     SelectEndpoint, Copy, CopyLapses, LoadData, SelectTab, SelectSettingsTab, Here,
     access
<1>4. CASE Navigate \/ Traverse
  <2>1. PICK p \in Pages : Goto(p)
    BY <1>4 DEF Navigate, Traverse, Links, Pages, LayoutPages, TelemetryPages
  <2>2. UNCHANGED access
    BY <1>4 DEF Navigate, Traverse
  <2> QED  BY <2>1, <2>2, GotoOwing, GotoOK DEF access
<1>5. CASE SelectSecurityTab
  <2>1. page = "security" /\ page' = page /\ UNCHANGED access
    BY <1>5 DEF SelectSecurityTab
  <2> QED  BY <2>1, ListPagesAre DEF Owing, TelemetryPages, ShownKey, access
<1>6. CASE SignInElapses
  <2>1. Goto("dashboard") /\ "dashboard" \in Pages /\ issued' = issued
    BY <1>6 DEF SignInElapses, Pages, LayoutPages, TelemetryPages
  <2> QED  BY <2>1, GotoOwing, GotoOK
<1>7. CASE Load
  <2>1. PICK p \in Pages : \E calm \in Moods(p) : Open(p, Fresh(p, calm))
    BY <1>7 DEF Load
  <2>2. Owing(page', local', signIns' # <<>>)
    BY <2>1, FreshOwing DEF Open, Moods
  <2> QED  BY <1>7, <2>2, LoadOK
<1>8. CASE UNCHANGED vars
  BY <1>8 DEF vars, access, Due, Owing, ShownKey
<1> QED
  BY <1>1, <1>2, <1>3, <1>4, <1>5, <1>6, <1>7, <1>8 DEF ConsoleNext

LEMMA OwingInvariant == ConsoleSpec => [](EveryWaitHasItsCallback /\ OnlyNewestShown)
<1>1. ConsoleInit => EveryWaitHasItsCallback /\ OnlyNewestShown
  <2> SUFFICES ASSUME ConsoleInit PROVE EveryWaitHasItsCallback /\ OnlyNewestShown
    OBVIOUS
  <2>1. PICK calm \in BOOLEAN : local = Fresh(page, calm)
    BY DEF ConsoleInit, Moods
  <2>2. page \in Pages
    BY DEF ConsoleInit
  <2>3. Due
    BY <2>1, <2>2, FreshOwing DEF Due
  <2>4. page = "settings" => Fresh(page, calm) = FreshSettings
    BY ListPagesAre DEF Fresh, TelemetryPages
  <2> QED  BY <2>1, <2>3, <2>4, DueIs DEF OnlyNewestShown, ShownKey, FreshSettings
<1>2. ConsoleInv /\ (EveryWaitHasItsCallback /\ OnlyNewestShown) /\ [ConsoleNext]_vars
        => (EveryWaitHasItsCallback /\ OnlyNewestShown)'
  <2> SUFFICES ASSUME ConsoleInv, EveryWaitHasItsCallback, OnlyNewestShown,
                      [ConsoleNext]_vars
               PROVE  EveryWaitHasItsCallback' /\ OnlyNewestShown'
    OBVIOUS
  <2>1. Due
    BY DueIs
  <2>2. Owing(page', local', signIns' # <<>>) /\ OnlyNewestShown'
    BY <2>1, OwingStep
  <2> QED  BY <2>2, DueIs
<1> QED  BY <1>1, <1>2, ConsoleCorrect, PTL DEF ConsoleSpec

(* No page waits for a callback that nothing will bring.                   *)
THEOREM NothingIsForgotten == ConsoleSpec => []EveryWaitHasItsCallback
  BY OwingInvariant, PTL

(* The dialog never shows a secret that is not the latest.                 *)
THEOREM NewestSecretOnly == ConsoleSpec => []OnlyNewestShown
  BY OwingInvariant, PTL

(* No callback, however late, blurs a headline or hides a chapter again.   *)
THEOREM TextIsNeverBlurredAgain == ConsoleSpec => StaysSharp
<1>1. ConsoleInv /\ [ConsoleNext]_vars
        => [OnLanding /\ OnLanding' /\ ~Mounted'
              => /\ local.sharp \subseteq local'.sharp
                 /\ local.seen \subseteq local'.seen]_<<page, local>>
  <2> SUFFICES ASSUME ConsoleInv, ConsoleNext, OnLanding, OnLanding', ~Mounted',
                      ~UNCHANGED <<page, local>>
               PROVE  /\ local.sharp \subseteq local'.sharp
                      /\ local.seen \subseteq local'.seen
    BY DEF vars
  <2>1. \A calm \in BOOLEAN : ~Open("landing", Fresh("landing", calm))
    <3> SUFFICES ASSUME NEW calm \in BOOLEAN, Open("landing", Fresh("landing", calm))
                 PROVE  FALSE
      OBVIOUS
    <3>1. Fresh("landing", calm) = FreshStory(calm)
      BY ListPagesAre DEF Fresh, TelemetryPages
    <3> QED  BY <3>1 DEF Open, Mounted
  <2>2. \A p \in Pages : ~Goto(p)
    BY <2>1 DEF Goto, Open, Moods
  <2>3. ~Navigate /\ ~Traverse /\ ~SignInElapses /\ ~Load
    BY <2>1, <2>2 DEF Navigate, Traverse, SignInElapses, Load, Links, Pages,
       LayoutPages, TelemetryPages, Open, Moods
  <2>4. ~SelectSecurityTab
    BY DEF SelectSecurityTab
  <2>5. ~Ledger
    BY ListPagesAre DEF Ledger, LedgerNext, Search, Filter, SwitchView, Inspect,
       InspectEvent, InspectEntity, InspectDelivery, CloseDetails, SelectEndpoint,
       Copy, CopyLapses, CopyShown, InDialog, LoadData, Loading, SelectTab,
       SelectSettingsTab, TelemetryPages
  <2>6. ~Access
    BY DEF Access, AccessNext, Switch, FillIn, SignIn, GenerateKey, Confirm, CloseKey,
       InDialog
  <2>7. Story /\ local \in StoryState
    BY <2>3, <2>4, <2>5, <2>6 DEF ConsoleNext, ConsoleInv, ConsoleTypeOK
  <2>8. CASE IntroElapses \/ TrackSection \/ Redraw \/ \E c \in Chapters : Scroll(c)
    BY <2>7, <2>8 DEF IntroElapses, TrackSection, Redraw, Scroll, StoryState
  <2>9. CASE \/ FrameOfHeadline \/ Failsafe
             \/ \E c \in Chapters : ObserveHeadline(c) \/ ObserveSection(c)
    BY <2>7, <2>9 DEF FrameOfHeadline, Failsafe, ObserveHeadline, ObserveSection,
       Revealed, StoryState
  <2> QED  BY <2>7, <2>8, <2>9 DEF Story, StoryNext
<1> QED  BY <1>1, ConsoleCorrect, PTL DEF ConsoleSpec, StaysSharp

=============================================================================
