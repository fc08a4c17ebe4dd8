------------------------------- MODULE Session -------------------------------
(***************************************************************************)
(* The session of one browser: the token in chrome.storage, the popup      *)
(* (chrome-extension/popup.js) that signs in and out, the verifications    *)
(* that use the token from the popup and from tabs (content.js and         *)
(* ai-chat-injector.js), and the backend that mints tokens and rejects     *)
(* expired ones (app/api/routes/auth.py, app/core/auth.py).                *)
(*                                                                         *)
(* chrome.storage answers its calls in the order they were made, so a call *)
(* and what its callback does are one step.  Token, email and Google token *)
(* are always set and removed together: one value stands for the three.    *)
(***************************************************************************)
EXTENDS Naturals, FiniteSets

CONSTANTS
  Users,          \* Google accounts
  Tabs,           \* tabs with a content script
  Popup,          \* the popup, as a caller of the API
  Logins,         \* runs of the sign-in handler in one popup
  MaxTokens,      \* bound: tokens the backend mints in a behaviour
  None

Tokens == 1..MaxTokens
Callers == Tabs \cup {Popup}

ASSUME SessionAssumption ==
  /\ MaxTokens \in Nat
  /\ Popup \notin Tabs
  /\ None \notin Users \cup Tokens

VARIABLES
  storage,        \* the stored token, or None
  holder,         \* holder[t]: the sub claim of t, None before it is minted
  expired,        \* tokens past their exp claim
  revoked,        \* Google tokens revoked at Google, by the token they came with
  screen,         \* what the popup shows
  account,        \* the email in the popup's user bar
  signingIn,      \* the Google button is disabled and says "Signing in..."
  login,          \* login[l]: sign-in handler l waits for Google or the backend
  logout,         \* a sign-out handler runs (a second click repeats it)
  call,           \* call[c]: c's verification
  carries         \* carries[c]: the token in its Authorization header

backendVars == <<holder, expired>>
popupVars == <<screen, account, signingIn, login, logout>>
callVars == <<call, carries>>
vars == <<storage, backendVars, revoked, popupVars, callVars>>

Minted == {t \in Tokens : holder[t] # None}

\* Every variable has its type, and tokens are used only once they are minted.
TypeOK ==
  /\ storage \in Minted \cup {None}
  /\ holder \in [Tokens -> Users \cup {None}]
  /\ expired \subseteq Minted
  /\ revoked \subseteq Minted
  /\ screen \in {"closed", "login", "main"}
  /\ account \in Users \cup {None}
  /\ signingIn \in BOOLEAN
  /\ login \in [Logins -> BOOLEAN]
  /\ logout \in BOOLEAN
  /\ call \in [Callers -> {"idle", "clearing", "sent", "rejected"}]
  /\ carries \in [Callers -> Minted \cup {None}]

Init ==
  /\ storage = None
  /\ holder = [t \in Tokens |-> None]
  /\ expired = {}
  /\ revoked = {}
  /\ screen = "closed"
  /\ account = None
  /\ signingIn = FALSE
  /\ login = [l \in Logins |-> FALSE]
  /\ logout = FALSE
  /\ call = [c \in Callers |-> "idle"]
  /\ carries = [c \in Callers |-> None]

-----------------------------------------------------------------------------
(* The popup. *)

\* Mutant: the button is left as it was.
LoginScreenUnreset ==
  /\ screen' = "login"
  /\ UNCHANGED <<account, signingIn>>

ShowLoginScreen ==
  /\ screen' = "login"
  /\ signingIn' = FALSE
  /\ UNCHANGED account

\* Mutant: a main screen that is up already is left as it is.
ShowMainOnce(u) ==
  /\ screen' = "main"
  /\ account' = IF screen = "main" THEN account ELSE u
  /\ UNCHANGED signingIn

ShowMainUI(u) ==
  /\ screen' = "main"
  /\ account' = u
  /\ UNCHANGED signingIn

OpenPopup ==
  /\ screen = "closed"
  /\ IF storage # None THEN ShowMainUI(holder[storage]) ELSE ShowLoginScreen
  /\ UNCHANGED <<storage, backendVars, revoked, login, logout, callVars>>

\* The popup loses the focus: its document and every handler in it are gone.
ClosePopup ==
  /\ screen # "closed"
  /\ screen' = "closed"
  /\ account' = None
  /\ signingIn' = FALSE
  /\ login' = [l \in Logins |-> FALSE]
  /\ logout' = FALSE
  /\ call' = [call EXCEPT ![Popup] = "idle"]
  /\ carries' = [carries EXCEPT ![Popup] = None]
  /\ UNCHANGED <<storage, backendVars, revoked>>

ClickSignIn(l) ==
  /\ screen = "login"
  /\ ~signingIn
  /\ ~login[l]
  /\ signingIn' = TRUE
  /\ login' = [login EXCEPT ![l] = TRUE]
  /\ UNCHANGED <<storage, backendVars, revoked, screen, account, logout, callVars>>

\* Mutant: the check of resp.ok is gone, and a token no one minted is saved.
StoresRefusal(l) ==
  /\ login[l]
  /\ \E t \in Tokens \ Minted : storage' = t
  /\ login' = [login EXCEPT ![l] = FALSE]
  /\ signingIn' = FALSE
  /\ UNCHANGED <<backendVars, revoked, screen, account, logout, callVars>>

\* The picker is closed, Google or the backend refuses, or neither answers.
SignInFails(l) ==
  /\ login[l]
  /\ login' = [login EXCEPT ![l] = FALSE]
  /\ signingIn' = FALSE
  /\ UNCHANGED <<storage, backendVars, revoked, screen, account, logout, callVars>>

\* google_login mints a token for the account picked, and saveAuth stores it.
SignedIn(l, u, t) ==
  /\ login[l]
  /\ t \notin Minted
  /\ holder' = [holder EXCEPT ![t] = u]
  /\ storage' = t
  /\ login' = [login EXCEPT ![l] = FALSE]
  /\ ShowMainUI(u)
  /\ UNCHANGED <<expired, revoked, logout, callVars>>

\* The stored Google token is revoked at Google, fire and forget, ...
ClickSignOut ==
  /\ screen = "main"
  /\ ~logout
  /\ logout' = TRUE
  /\ revoked' = revoked \cup ({storage} \ {None})
  /\ UNCHANGED <<storage, backendVars, screen, account, signingIn, login, callVars>>

\* ... and then clearAuth removes what is stored by now.
SignedOut ==
  /\ logout
  /\ logout' = FALSE
  /\ storage' = None
  /\ ShowLoginScreen
  /\ UNCHANGED <<backendVars, revoked, login, callVars>>

-----------------------------------------------------------------------------
(* Verifications. *)

Sends(c) ==
  /\ call' = [call EXCEPT ![c] = "sent"]
  /\ carries' = [carries EXCEPT ![c] = storage]

VerifyInTab(c) ==
  /\ c \in Tabs
  /\ call[c] = "idle"
  /\ storage # None
  /\ Sends(c)
  /\ UNCHANGED <<storage, backendVars, revoked, popupVars>>

\* runVerification: a token goes with the request; without one ...
VerifyInPopup ==
  /\ screen = "main"
  /\ call[Popup] = "idle"
  /\ \/ storage # None /\ Sends(Popup)
     \/ storage = None /\ call' = [call EXCEPT ![Popup] = "clearing"] /\ UNCHANGED carries
  /\ UNCHANGED <<storage, backendVars, revoked, popupVars>>

\* ... clearAuth removes what is stored by now, and the user is asked to sign in.
Cleared ==
  /\ call[Popup] = "clearing"
  /\ call' = [call EXCEPT ![Popup] = "idle"]
  /\ storage' = None
  /\ ShowLoginScreen
  /\ UNCHANGED <<backendVars, revoked, login, logout, carries>>

\* A verdict, an error other than 401, or no answer.
Ends(c) ==
  /\ call[c] = "sent"
  /\ call' = [call EXCEPT ![c] = "idle"]
  /\ carries' = [carries EXCEPT ![c] = None]
  /\ UNCHANGED <<storage, backendVars, revoked, popupVars>>

\* get_current_user: jwt.decode finds the token expired.
Reject(c) ==
  /\ call[c] = "sent"
  /\ carries[c] \in expired
  /\ call' = [call EXCEPT ![c] = "rejected"]
  /\ UNCHANGED <<storage, backendVars, revoked, popupVars, carries>>

\* The 401 arrives.  The stored token goes, be it the rejected one or not.
Unauthorized(c) ==
  /\ call[c] = "rejected"
  /\ storage' = None
  /\ call' = [call EXCEPT ![c] = "idle"]
  /\ carries' = [carries EXCEPT ![c] = None]
  /\ IF c = Popup THEN ShowLoginScreen ELSE UNCHANGED <<screen, account, signingIn>>
  /\ UNCHANGED <<backendVars, revoked, login, logout>>

\* jwt_expiry_seconds after it was minted.
Expire(t) ==
  /\ t \in Minted \ expired
  /\ expired' = expired \cup {t}
  /\ UNCHANGED <<storage, holder, revoked, popupVars, callVars>>

Next ==
  \/ OpenPopup
  \/ ClosePopup
  \/ \E l \in Logins : ClickSignIn(l) \/ SignInFails(l)
  \/ \E l \in Logins, u \in Users, t \in Tokens : SignedIn(l, u, t)
  \/ ClickSignOut
  \/ SignedOut
  \/ \E c \in Tabs : VerifyInTab(c)
  \/ VerifyInPopup
  \/ Cleared
  \/ \E c \in Callers : Ends(c) \/ Reject(c) \/ Unauthorized(c)
  \/ \E t \in Tokens : Expire(t)

Spec == Init /\ [][Next]_vars

-----------------------------------------------------------------------------
(***************************************************************************)
(* popup.js:97 "Always reset the button so it's never stuck on 'Signing    *)
(* in...'": while the login screen shows that, a sign-in is running.       *)
(***************************************************************************)
NeverStuckSigningIn ==
  (screen = "login" /\ signingIn) => \E l \in Logins : login[l]

(***************************************************************************)
(* The account in the user bar is the one whose token a verification would *)
(* carry, whatever sign-ins, sign-outs and rejections overlapped.          *)
(***************************************************************************)
AccountShownIsCharged ==
  (screen = "main" /\ storage # None) => account = holder[storage]
=============================================================================
