SPECIFICATION Spec
CONSTANTS
  Users = {alice, bob}
  Tabs = {t1, t2}
  Popup = Popup
  Logins = {l1, l2}
  MaxTokens = 3
  None = None
INVARIANTS
  TypeOK
  NeverStuckSigningIn
  AccountShownIsCharged
