------------------------------ MODULE Console -------------------------------
(***************************************************************************)
(* The console in one tab: LandingStory, ConsoleAccess and LedgerPages,    *)
(* and the ways from page to page: links, the search dialog, a sign-in     *)
(* that comes through, back and forward, and a reload.  The pages of       *)
(* Journey are one page without state here.                                *)
(***************************************************************************)
EXTENDS LandingStory, LedgerPages

VARIABLE trail  \* is the sign-in page in the history of this document?

vars == <<page, local, access, frames, trail>>

LayoutPages == ListPages \cup TelemetryPages
                 \cup {"api", "security", "settings", "decision"}
Pages == LayoutPages \cup {"landing", "login"}

SecurityTabs == {"matrix", "audit"}
FreshSecurity == [tab |-> "matrix"]
NoState == [tab |-> "none"]

(* The state a page is mounted with.                                       *)
Fresh(p, calm) ==
  CASE p = "landing" -> FreshStory(calm)
    [] p = "login" -> FreshLogin
    [] p \in ListPages -> FreshList(p)
    [] p = "api" -> FreshApi
    [] p \in TelemetryPages -> FreshTelemetry
    [] p = "settings" -> FreshSettings
    [] p = "security" -> FreshSecurity
    [] OTHER -> NoState

(* Only the landing page asks whether motion is to be reduced.             *)
Moods(p) == IF p = "landing" THEN BOOLEAN ELSE {FALSE}

(* The effects of leaving one page and mounting another.                   *)
Started(p) == IF p = "landing" THEN LoopsFor(First) ELSE {}
Exchange(p) == frames' = Cleanup(Running) \cup Started(p)

(* To a page by a link or router.push: the same page is not mounted again. *)
Goto(p) == IF p = page
             THEN UNCHANGED <<page, local, frames>>
             ELSE /\ \E calm \in Moods(p) : Open(p, Fresh(p, calm))
                  /\ Exchange(p)

ConsoleInit == /\ page \in Pages
               /\ \E calm \in Moods(page) : local = Fresh(page, calm)
               /\ session = FreshSession /\ signIns = <<>> /\ issued = 0
               /\ frames = Started(page)
               /\ trail = IF page = "login" THEN "start" ELSE "none"

(* The links of the landing page; elsewhere the side bar and the routes    *)
(* that the search dialog of the header lists, which include those of the  *)
(* buttons of the overview and of the rows of a ledger.                    *)
Links == CASE page = "landing" -> {"dashboard", "api", "decision"}
           [] page \in LayoutPages -> LayoutPages \cup {"landing"}
           [] OTHER -> {}
Navigate == /\ \E p \in Links : Goto(p)
            /\ UNCHANGED <<access, trail>>

SelectSecurityTab == /\ On("security")
                     /\ \E t \in SecurityTabs : Set([tab |-> t])
                     /\ UNCHANGED <<access, frames, trail>>

(* Variant: the timer reads the form, if it is still there.                *)
SignInElapsesLate ==
  /\ signIns # <<>>
  /\ signIns' = Tail(signIns)
  /\ session' = SignedIn(IF On("login") THEN local.choice ELSE Head(signIns))
  /\ Goto("dashboard")
  /\ trail' = IF trail = "start" THEN "behind" ELSE trail
  /\ UNCHANGED issued

(* The timer of the oldest sign-in, on whatever page the user is by then.  *)
SignInElapses == /\ signIns # <<>>
                 /\ signIns' = Tail(signIns)
                 /\ session' = SignedIn(Head(signIns))
                 /\ Goto("dashboard")
                 /\ trail' = IF trail = "start" THEN "behind" ELSE trail
                 /\ UNCHANGED issued

(* Back to the sign-in page, and forward from it, within the document: no  *)
(* link leads there.                                                       *)
Traverse == /\ trail = "behind"
            /\ IF On("login") THEN \E p \in Pages \ {"login"} : Goto(p)
                              ELSE Goto("login")
            /\ UNCHANGED <<access, trail>>

(* A reload, or an address typed: a new document, no timers, a new context.*)
Load == /\ \E p \in Pages : \E calm \in Moods(p) :
             /\ Open(p, Fresh(p, calm))
             /\ frames' = Started(p)
             /\ trail' = IF p = "login" THEN "start" ELSE "none"
        /\ session' = FreshSession /\ signIns' = <<>>
        /\ UNCHANGED issued

Story == StoryNext /\ UNCHANGED <<access, trail>>
Access == AccessNext /\ UNCHANGED <<frames, trail>>
Ledger == LedgerNext /\ UNCHANGED <<frames, trail>>

ConsoleNext == \/ Story \/ Access \/ Ledger
               \/ Navigate
               \/ SelectSecurityTab \/ SignInElapses \/ Traverse \/ Load

(* Timers fire, events that have happened are delivered, effects run and   *)
(* loads settle.  The observers report what is scrolled into view.  They   *)
(* need not do so for what is in view from the start: the code itself says *)
(* that some engines do not (ScrollytellingSection.tsx:50-54).  Nothing is *)
(* assumed of the user.                                                    *)
ConsoleFairness ==
  LET InStory(A) == A /\ UNCHANGED <<access, trail>> IN
  /\ WF_vars(InStory(IntroElapses)) /\ WF_vars(InStory(Failsafe))
  /\ WF_vars(InStory(TrackSection)) /\ WF_vars(InStory(Redraw))
  /\ \A c \in Chapters \ {First} : /\ WF_vars(InStory(ObserveHeadline(c)))
                                  /\ WF_vars(InStory(ObserveSection(c)))
  /\ WF_vars(SignInElapses)
  /\ WF_vars(CopyLapses /\ UNCHANGED <<frames, trail>>)
  /\ WF_vars(LoadData /\ UNCHANGED <<frames, trail>>)

ConsoleSpec == ConsoleInit /\ [][ConsoleNext]_vars /\ ConsoleFairness

-----------------------------------------------------------------------------
(* Types, page by page.                                                    *)
ConsoleTypeOK == /\ page \in Pages
                 /\ trail \in {"none", "start", "behind"}
                 /\ AccessTypeOK /\ LedgerTypeOK
                 /\ OnLanding => local \in StoryState
                 /\ On("security") => local \in [tab : SecurityTabs]

(* Whatever a page still owes its reader, the callback that will bring it  *)
(* is pending: the failsafe of blurred words in view, the scroll event of a*)
(* backdrop that is behind, the timer of a sign-in that says it is under   *)
(* way, a timer for every mark of a copy button; and no telemetry is shown *)
(* by halves.  What the liveness properties add is that callbacks come.    *)
EveryWaitHasItsCallback ==
  /\ OnLanding => /\ First \in local.sharp \/ local.failsafe
                  /\ local.heard => local.active = local.scroll
  /\ On("login") => (local.loading => signIns # <<>>)
  /\ page \in ListPages \cup {"api", "settings"}
       => (local.copy.copied => local.copy.copies > 0)
  /\ page \in TelemetryPages => (local.health # Unknown => local.drift)

(* The secret on display is the one that was made last.                    *)
OnlyNewestShown == ShownKey \in {NoKey, issued}

=============================================================================
