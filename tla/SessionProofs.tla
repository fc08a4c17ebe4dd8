---------------------------- MODULE SessionProofs ----------------------------
(***************************************************************************)
(* The session's invariants, for any accounts, tabs and sign-in handlers.  *)
(* Their conjunction with the types is inductive as it stands: a token is  *)
(* minted for one account and never for another, so what the user bar      *)
(* shows can be overtaken only where the storage changes.                  *)
(***************************************************************************)
EXTENDS Session, TLAPS

SessionInv == TypeOK /\ NeverStuckSigningIn /\ AccountShownIsCharged

\* The actions that touch neither the storage nor the backend.
PopupOnly == \/ OpenPopup \/ ClosePopup \/ VerifyInPopup
             \/ \E l \in Logins : ClickSignIn(l) \/ SignInFails(l)

LEMMA InitSession == Init => SessionInv
BY SessionAssumption
   DEF Init, SessionInv, TypeOK, Minted, NeverStuckSigningIn, AccountShownIsCharged

\* The account of a token that has been minted is an account.
LEMMA MintedHasHolder ==
  ASSUME TypeOK, NEW t \in Minted
  PROVE  t \in Tokens /\ t # None /\ holder[t] \in Users /\ holder[t] # None
BY SessionAssumption DEF TypeOK, Minted

\* What is typed by the minted tokens stays so while the tokens stay as they are.
LEMMA PopupTypes == SessionInv /\ PopupOnly => TypeOK'
<1> SUFFICES ASSUME SessionInv, PopupOnly PROVE TypeOK'
  OBVIOUS
<1> USE DEF TypeOK, SessionInv, backendVars, callVars
<1>1. Minted' = Minted
  BY DEF PopupOnly, OpenPopup, ClosePopup, VerifyInPopup, ClickSignIn, SignInFails, Minted
<1>2. CASE OpenPopup
  <2>1. storage # None => holder[storage] \in Users
    BY MintedHasHolder
  <2> QED
    BY <1>1, <1>2, <2>1 DEF OpenPopup, ShowMainUI, ShowLoginScreen
<1>3. CASE ClosePopup
  BY <1>1, <1>3 DEF ClosePopup, Callers
<1>4. CASE VerifyInPopup
  BY <1>1, <1>4 DEF VerifyInPopup, Sends, Callers, popupVars
<1>5. CASE \E l \in Logins : ClickSignIn(l) \/ SignInFails(l)
  BY <1>1, <1>5 DEF ClickSignIn, SignInFails
<1> QED
  BY <1>2, <1>3, <1>4, <1>5 DEF PopupOnly

LEMMA SignedInTypes ==
  ASSUME SessionInv, NEW l \in Logins, NEW u \in Users, NEW t \in Tokens, SignedIn(l, u, t)
  PROVE  TypeOK'
<1> USE DEF TypeOK, SessionInv, SignedIn
<1>1. Minted' = Minted \cup {t}
  BY SessionAssumption DEF Minted
<1> QED
  BY <1>1 DEF ShowMainUI, callVars

LEMMA OtherTypes ==
  ASSUME SessionInv,
         \/ ClickSignOut \/ SignedOut \/ Cleared
         \/ \E c \in Tabs : VerifyInTab(c)
         \/ \E c \in Callers : Ends(c) \/ Reject(c) \/ Unauthorized(c)
         \/ \E t \in Tokens : Expire(t)
  PROVE  TypeOK'
<1> USE DEF TypeOK, SessionInv, backendVars, popupVars, callVars
<1>1. Minted' = Minted
  BY DEF ClickSignOut, SignedOut, Cleared, VerifyInTab, Ends, Reject, Unauthorized, Expire, Minted
<1>2. CASE ClickSignOut
  BY <1>1, <1>2 DEF ClickSignOut
<1>3. CASE SignedOut
  BY <1>1, <1>3 DEF SignedOut, ShowLoginScreen
<1>4. CASE \E c \in Tabs : VerifyInTab(c)
  BY <1>1, <1>4 DEF VerifyInTab, Sends, Callers
<1>5. CASE \E c \in Callers : Ends(c) \/ Reject(c)
  BY <1>1, <1>5 DEF Ends, Reject
<1>6. CASE \E c \in Callers : Unauthorized(c)
  BY <1>1, <1>6 DEF Unauthorized, ShowLoginScreen
<1>7. CASE \E t \in Tokens : Expire(t)
  BY <1>1, <1>7 DEF Expire
<1>8. CASE Cleared
  BY <1>1, <1>8 DEF Cleared, ShowLoginScreen
<1> QED
  BY <1>2, <1>3, <1>4, <1>5, <1>6, <1>7, <1>8

LEMMA StepTypes == SessionInv /\ [Next]_vars => TypeOK'
<1>1. SessionInv /\ UNCHANGED vars => TypeOK'
  BY DEF SessionInv, TypeOK, Minted, vars, backendVars, popupVars, callVars
<1> QED
  BY <1>1, PopupTypes, SignedInTypes, OtherTypes DEF Next, PopupOnly

-----------------------------------------------------------------------------
\* The login screen is entered with its button reset, and left by a sign-in or with the popup.
LEMMA StepNeverStuck == SessionInv /\ [Next]_vars => NeverStuckSigningIn'
<1> SUFFICES ASSUME SessionInv, [Next]_vars PROVE NeverStuckSigningIn'
  OBVIOUS
<1> USE DEF NeverStuckSigningIn, SessionInv, ShowLoginScreen, ShowMainUI
<1>1. CASE OpenPopup
  BY <1>1 DEF OpenPopup
<1>2. CASE ClosePopup
  BY <1>2 DEF ClosePopup
<1>3. ASSUME NEW l \in Logins, ClickSignIn(l) PROVE NeverStuckSigningIn'
  BY <1>3 DEF ClickSignIn, TypeOK
<1>4. ASSUME NEW l \in Logins, SignInFails(l) PROVE NeverStuckSigningIn'
  BY <1>4 DEF SignInFails
<1>5. ASSUME NEW l \in Logins, NEW u \in Users, NEW t \in Tokens, SignedIn(l, u, t)
      PROVE  NeverStuckSigningIn'
  BY <1>5 DEF SignedIn
<1>6. CASE ClickSignOut
  BY <1>6 DEF ClickSignOut
<1>7. CASE SignedOut
  BY <1>7 DEF SignedOut
<1>8. CASE VerifyInPopup
  BY <1>8 DEF VerifyInPopup, popupVars
<1>9. CASE \E c \in Tabs : VerifyInTab(c)
  BY <1>9 DEF VerifyInTab, popupVars
<1>10. CASE \E c \in Callers : Ends(c) \/ Reject(c)
  BY <1>10 DEF Ends, Reject, popupVars
<1>11. CASE \E c \in Callers : Unauthorized(c)
  BY <1>11 DEF Unauthorized
<1>12. CASE \E t \in Tokens : Expire(t)
  BY <1>12 DEF Expire, popupVars
<1>13. CASE Cleared
  BY <1>13 DEF Cleared
<1>14. CASE UNCHANGED vars
  BY <1>14 DEF vars, popupVars
<1> QED
  BY <1>1, <1>2, <1>3, <1>4, <1>5, <1>6, <1>7, <1>8, <1>9, <1>10, <1>11, <1>12, <1>13, <1>14
     DEF Next

\* The stored token changes only together with the user bar, or is removed.
LEMMA StepAccount == SessionInv /\ [Next]_vars => AccountShownIsCharged'
<1> SUFFICES ASSUME SessionInv, [Next]_vars PROVE AccountShownIsCharged'
  OBVIOUS
<1> USE DEF AccountShownIsCharged, SessionInv, ShowLoginScreen, ShowMainUI, backendVars
<1>1. CASE OpenPopup
  BY <1>1 DEF OpenPopup
<1>2. CASE ClosePopup
  BY <1>2 DEF ClosePopup
<1>3. CASE \E l \in Logins : ClickSignIn(l) \/ SignInFails(l)
  BY <1>3 DEF ClickSignIn, SignInFails
<1>4. ASSUME NEW l \in Logins, NEW u \in Users, NEW t \in Tokens, SignedIn(l, u, t)
      PROVE  AccountShownIsCharged'
  BY <1>4 DEF SignedIn, TypeOK
<1>5. CASE ClickSignOut
  BY <1>5 DEF ClickSignOut
<1>6. CASE SignedOut
  BY <1>6 DEF SignedOut
<1>7. CASE VerifyInPopup
  BY <1>7 DEF VerifyInPopup, popupVars
<1>8. CASE \E c \in Tabs : VerifyInTab(c)
  BY <1>8 DEF VerifyInTab, popupVars
<1>9. CASE \E c \in Callers : Ends(c) \/ Reject(c)
  BY <1>9 DEF Ends, Reject, popupVars
<1>10. CASE \E c \in Callers : Unauthorized(c)
  BY <1>10 DEF Unauthorized
<1>11. CASE \E t \in Tokens : Expire(t)
  BY <1>11 DEF Expire, popupVars
<1>12. CASE Cleared
  BY <1>12 DEF Cleared
<1>13. CASE UNCHANGED vars
  BY <1>13 DEF vars, popupVars
<1> QED
  BY <1>1, <1>2, <1>3, <1>4, <1>5, <1>6, <1>7, <1>8, <1>9, <1>10, <1>11, <1>12, <1>13
     DEF Next

LEMMA SessionInvariant == Spec => []SessionInv
<1>1. SessionInv /\ [Next]_vars => SessionInv'
  BY StepTypes, StepNeverStuck, StepAccount DEF SessionInv
<1> QED
  BY <1>1, InitSession, PTL DEF Spec

-----------------------------------------------------------------------------
\* TypeOK: only minted tokens are stored, carried, expired or revoked.
THEOREM SessionTypeCorrect == Spec => []TypeOK
BY SessionInvariant, PTL DEF SessionInv

\* NeverStuckSigningIn: "Signing in..." on the login screen is a sign-in that runs.
THEOREM NeverStuckCorrect == Spec => []NeverStuckSigningIn
BY SessionInvariant, PTL DEF SessionInv

\* AccountShownIsCharged: the user bar and the stored token name one account.
THEOREM AccountCorrect == Spec => []AccountShownIsCharged
BY SessionInvariant, PTL DEF SessionInv
=============================================================================
