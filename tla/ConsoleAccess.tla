---------------------------- MODULE ConsoleAccess ---------------------------
(***************************************************************************)
(* Who is at the console and what that lets them do: the RBAC context      *)
(* (lib/rbac.tsx), the sign-in page, the switchers of the header and of    *)
(* the security and settings pages, and the dialog that shows a new API    *)
(* key.  The context lives as long as the document; a page's own state as  *)
(* long as the page.  The timer of a sign-in belongs to neither: nothing   *)
(* clears it when the page is left.                                        *)
(***************************************************************************)
EXTENDS Browser, Naturals, Sequences

CONSTANTS Roles,                          \* what the role selects offer
          Tenants,                        \* merchants with an environment
          Preselected, Tenant0,           \* ADMIN; m_sandbox in SANDBOX
          Picks,                          \* what is filled in to sign in
          MaxSignIns, MaxKeys, MaxCopies  \* bounds of the model

VARIABLES session,  \* the RBAC context
          signIns,  \* sign-ins whose timer has not fired, oldest first
          issued    \* secrets generated so far: each differs from the others

access == <<session, signIns, issued>>

Permissions == {"risk:view", "risk:evaluate", "risk:replay", "sandbox:run",
                "operations:webhooks_manage", "security:view",
                "security:manage_keys", "security:manage_users",
                "developer:api_access", "system:health_view",
                "system:config_manage"}

RolePermissions ==
  [OWNER |-> Permissions,
   ADMIN |-> Permissions,
   RISK_ANALYST |-> Permissions \ {"operations:webhooks_manage",
                      "security:manage_keys", "security:manage_users",
                      "system:config_manage"},
   DEVELOPER |-> Permissions \ {"security:manage_users", "system:config_manage"},
   VIEWER |-> {"risk:view", "developer:api_access", "system:health_view"}]

ASSUME AccessAssumption ==
  /\ Roles \subseteq DOMAIN RolePermissions /\ {"OWNER", Preselected} \subseteq Roles
  /\ Tenant0 \in Tenants
  /\ Picks \subseteq [role : Roles, tenant : Tenants]
  /\ MaxSignIns \in Nat /\ MaxKeys \in Nat /\ MaxCopies \in Nat

(* INITIAL_USERS: one user of each role.                                   *)
UserOf(role) == [name |-> role, role |-> role]
Users == {UserOf(role) : role \in Roles}

FreshSession == [role |-> "OWNER", user |-> UserOf("OWNER"), tenant |-> Tenant0]
SessionState == [role : Roles, user : Users, tenant : Tenants]

(* setRole: the first user who has the role, or else the current one with  *)
(* the role put on.                                                        *)
WithRole(s, role) ==
  [s EXCEPT !.role = role,
            !.user = IF \E u \in Users : u.role = role
                       THEN CHOOSE u \in Users : u.role = role
                       ELSE [@ EXCEPT !.role = role]]

HasPermission(permission) == permission \in RolePermissions[session.role]

SetSession(s) == session' = s /\ UNCHANGED <<page, local, signIns, issued>>

-----------------------------------------------------------------------------
(* The header, which all pages but two have, and the selects of the        *)
(* security and settings pages.                                            *)
SetRole(role) == role # session.role /\ SetSession(WithRole(session, role))
SetTenant(t) == t # session.tenant /\ SetSession([session EXCEPT !.tenant = t])
Switch == /\ page \notin {"landing", "login"}
          /\ \/ \E role \in Roles : SetRole(role)
             \/ \E t \in Tenants : SetTenant(t)

(* The sign-in page.  The form keeps what is selected, the timer what was  *)
(* selected when the form was submitted.                                   *)
Choices == [role : Roles, tenant : Tenants]
LoginState == [choice : Choices, loading : BOOLEAN]
FreshLogin == [choice |-> [role |-> Preselected, tenant |-> Tenant0],
               loading |-> FALSE]

FillIn == /\ On("login")
          /\ \E choice \in Picks : Set([local EXCEPT !.choice = choice])
          /\ UNCHANGED access

SignIn == /\ On("login") /\ ~local.loading /\ Len(signIns) < MaxSignIns
          /\ Set([local EXCEPT !.loading = TRUE])
          /\ signIns' = Append(signIns, local.choice)
          /\ UNCHANGED <<session, issued>>

(* What the timer of a sign-in sets; it also opens the dashboard.          *)
SignedIn(choice) == [WithRole(session, choice.role) EXCEPT !.tenant = choice.tenant]

-----------------------------------------------------------------------------
(* A copy button is marked for as long as its last mark was not taken back *)
(* by a timer, of whichever click (ApiKeyModal, JsonViewer, api page).     *)
Unmarked == [copied |-> FALSE, copies |-> 0]
Copied(c) == [copied |-> TRUE, copies |-> c.copies + 1]
Lapsed(c) == [copied |-> FALSE, copies |-> c.copies - 1]

(* The settings page: its tab, and the dialog while it shows secret number *)
(* key (0: no dialog).  confirmed is the checkbox of the dialog.           *)
NoKey == 0
SettingsTabs == {"keys", "merchant", "policy"}
CopyState == [copied : BOOLEAN, copies : 0..MaxCopies]
SettingsState == [tab : SettingsTabs, key : 0..MaxKeys, confirmed : BOOLEAN,
                  copy : CopyState]
FreshSettings == [tab |-> "keys", key |-> NoKey, confirmed |-> FALSE,
                  copy |-> Unmarked]

(* Variant: the secret is made once for the page.                          *)
NewSecretMemo == IF issued = 0 THEN 1 ELSE issued

(* The random hexadecimal digits: a secret that was never made before.     *)
NewSecret == issued + 1

(* handleGenerateKey.  With the dialog open the button still has the       *)
(* keyboard's focus; the dialog then shows the new secret, and keeps its   *)
(* checkbox.                                                               *)
GenerateKey == /\ On("settings") /\ HasPermission("security:manage_keys")
               /\ issued < MaxKeys
               /\ Set([local EXCEPT !.key = NewSecret])
               /\ issued' = NewSecret
               /\ UNCHANGED <<session, signIns>>

InDialog == On("settings") /\ local.key # NoKey

Confirm == /\ InDialog
           /\ Set([local EXCEPT !.confirmed = ~@])
           /\ UNCHANGED access

(* Done, Escape, the cross or the backdrop: all ask for the checkbox.      *)
CloseKey == /\ InDialog /\ local.confirmed
            /\ Set([FreshSettings EXCEPT !.tab = local.tab])
            /\ UNCHANGED access

AccessNext == Switch \/ FillIn \/ SignIn \/ GenerateKey \/ Confirm \/ CloseKey

-----------------------------------------------------------------------------
AccessTypeOK == /\ session \in SessionState
                /\ signIns \in Seq(Choices) /\ Len(signIns) <= MaxSignIns
                /\ issued \in 0..MaxKeys
                /\ On("login") => local \in LoginState
                /\ On("settings") => local \in SettingsState

(* Whoever sets the role, a switcher or a late sign-in, the user shown is  *)
(* one who has it.                                                         *)
UserMatchesRole == session.user.role = session.role

(* "displayed exactly once at generation time": the secret on display is   *)
(* the newest one, and one that has left the screen never comes back.      *)
ShownKey == IF On("settings") THEN local.key ELSE NoKey
SecretShownOnce ==
  [][ShownKey' \in {ShownKey, NoKey} \/ ShownKey' > issued]_<<page, local, access>>

(* A sign-in that was submitted opens the overview as the role and for the *)
(* merchant it was submitted with, wherever the user has gone and whatever *)
(* the form says by then, and also if another one is submitted before it   *)
(* comes through; unless the document is loaded anew (login/page.tsx:26).  *)
SignedInAs(choice) == /\ page = "dashboard"
                      /\ session.role = choice.role
                      /\ session.tenant = choice.tenant
SignInArrives ==
  \A choice \in Picks \cup {FreshLogin.choice} :
    (\E i \in DOMAIN signIns : signIns[i] = choice)
      ~> SignedInAs(choice) \/ (signIns = <<>> /\ session = FreshSession)

=============================================================================
