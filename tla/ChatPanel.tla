------------------------------ MODULE ChatPanel ------------------------------
(***************************************************************************)
(* chrome-extension/ai-chat-injector.js on one chat page: the throttled    *)
(* MutationObserver that adds a Verify button to every answer of the AI,   *)
(* the calls of verifyText those buttons start, and the one right-hand     *)
(* panel they share.                                                       *)
(*                                                                         *)
(* The chat page is external.  It streams answers into its document; of    *)
(* the code's selectors only one difference matters, whether they match an *)
(* answer while it streams (ChatGPT, Gemini, Perplexity) or wait for its   *)
(* end (claude: data-is-streaming="false").                                *)
(*                                                                         *)
(* Delays are left out: a callback of setTimeout runs at any time after    *)
(* it was set.                                                             *)
(***************************************************************************)
EXTENDS Naturals, FiniteSets

CONSTANTS
  Messages,       \* answers of the AI on this page
  Panels,         \* identities of panel elements
  None,           \* null
  MinLength,      \* injectButtons skips shorter texts, 20 characters
  FullLength,     \* an answer grows to at most this length
  MaxClosing      \* bound: clicks on the panel's close button still pending

ASSUME ChatAssumption ==
  /\ MinLength \in Nat \ {0}
  /\ FullLength \in Nat
  /\ MaxClosing \in Nat \ {0}
  /\ None \notin Panels \cup Messages \cup Nat

\* Enough identities that an unused one is always left; elements are reused.
ASSUME PanelAssumption ==
  /\ IsFiniteSet(Panels)
  /\ IsFiniteSet(Messages)
  /\ Cardinality(Panels) > Cardinality(Messages)

VARIABLES
  waits,          \* the platform's selector waits for the end of an answer
  length,         \* length[m]: text of m in the document, 0 before it appears
  complete,       \* complete[m]: the platform has finished m
  button,         \* button[m]: the text its button was created with, or None
  enabled,        \* enabled[m]: the button is not disabled
  initial,        \* the first injection of init() is due
  isInjecting,    \* an injection by the observer is due
  phase,          \* phase[m]: the await of the call m's button started
  target,         \* target[m]: the panel whose content that call captured
  rightPanel,     \* the module's panel, or null
  shown,          \* the panels in document.body
  content,        \* content[p]: what p displays; None when it is detached
  closing         \* callbacks of closeRightPanel that have not run

chatVars == <<waits, length, complete>>
buttonVars == <<button, enabled>>
scanVars == <<initial, isInjecting>>
callVars == <<phase, target>>
panelVars == <<rightPanel, shown, content, closing>>
vars == <<chatVars, buttonVars, scanVars, callVars, panelVars>>

InCall == {"token", "fetch", "clear"}
Display == [kind : {"spinner", "error"}, of : Messages] \cup
           [kind : {"result"}, of : Messages, text : 0..FullLength]

ASSUME DisplayAssumption == None \notin Display

\* Every variable has its type.
TypeOK ==
  /\ waits \in BOOLEAN
  /\ length \in [Messages -> 0..FullLength]
  /\ complete \in [Messages -> BOOLEAN]
  /\ button \in [Messages -> MinLength..FullLength \cup {None}]
  /\ enabled \in [Messages -> BOOLEAN]
  /\ initial \in BOOLEAN
  /\ isInjecting \in BOOLEAN
  /\ phase \in [Messages -> InCall \cup {"idle"}]
  /\ target \in [Messages -> Panels \cup {None}]
  /\ rightPanel \in Panels \cup {None}
  /\ shown \subseteq Panels
  /\ content \in [Panels -> Display \cup {None}]
  /\ closing \in 0..MaxClosing

\* init(): the page may hold answers of an earlier conversation already.
Init ==
  /\ waits \in BOOLEAN
  /\ length \in [Messages -> {0, FullLength}]
  /\ complete = [m \in Messages |-> length[m] > 0]
  /\ button = [m \in Messages |-> None]
  /\ enabled = [m \in Messages |-> TRUE]
  /\ initial = TRUE
  /\ isInjecting = FALSE
  /\ phase = [m \in Messages |-> "idle"]
  /\ target = [m \in Messages |-> None]
  /\ rightPanel = None
  /\ shown = {}
  /\ content = [p \in Panels |-> None]
  /\ closing = 0

-----------------------------------------------------------------------------
(* The chat page, and the observer it wakes. *)

\* The MutationObserver's callback, for a change of document.body's subtree.
Observe == isInjecting' = TRUE

Stream(m) ==
  /\ ~complete[m]
  /\ length[m] < FullLength
  /\ length' = [length EXCEPT ![m] = @ + 1]
  /\ Observe
  /\ UNCHANGED <<waits, complete, buttonVars, initial, callVars, panelVars>>

(***************************************************************************)
(* The end of an answer flips an attribute, which the observer does not    *)
(* see: it watches childList and subtree only.  That the platform adds an  *)
(* element then, its action bar, is an assumption about the chat page; on  *)
(* a page that adds nothing, a selector that waits would get no button     *)
(* until something else in the page changes.                               *)
(***************************************************************************)
Complete(m) ==
  /\ ~complete[m]
  /\ length[m] > 0
  /\ complete' = [complete EXCEPT ![m] = TRUE]
  /\ Observe
  /\ UNCHANGED <<waits, length, buttonVars, initial, callVars, panelVars>>

\* Mutant: claude's selector without its data-is-streaming attribute.
MatchesAnyLength(m) == length[m] > 0

\* querySelectorAll(messageSelector), or the customFinder, has m.
Matches(m) == length[m] > 0 /\ (waits => complete[m])

\* Mutant: without the length check.
EvenShort(m) == Matches(m) /\ button[m] = None

Eligible(m) == Matches(m) /\ button[m] = None /\ length[m] >= MinLength

\* Mutant: a for loop, whose return at a short text ends the whole scan.
InjectUntilShort ==
  button' = IF \E m \in Messages : Matches(m) /\ length[m] < MinLength THEN button
            ELSE [m \in Messages |-> IF Eligible(m) THEN length[m] ELSE button[m]]

(***************************************************************************)
(* injectButtons: a button, holding a copy of the text, for every answer   *)
(* that has none.                                                          *)
(***************************************************************************)
InjectButtons ==
  button' = [m \in Messages |-> IF Eligible(m) THEN length[m] ELSE button[m]]

(***************************************************************************)
(* One of the two timers runs.  The flag is reset after the scan, and then *)
(* the observer reports the buttons that were added.                       *)
(***************************************************************************)
Inject ==
  /\ InjectButtons
  /\ \/ initial /\ initial' = FALSE
        /\ isInjecting' = (isInjecting \/ button' # button)
     \/ isInjecting /\ UNCHANGED initial
        /\ isInjecting' = (button' # button)
  /\ UNCHANGED <<chatVars, enabled, callVars, panelVars>>

-----------------------------------------------------------------------------
(* The panel. *)

Captured == {target[m] : m \in {n \in Messages : phase[n] \in InCall}}

Unused == Panels \ (Captured \cup shown \cup {rightPanel})

(***************************************************************************)
(* createRightPanel returns p: the panel on the page, or a new element,    *)
(* for which any identity that nothing refers to will do.                  *)
(***************************************************************************)
IsPanel(p) ==
  IF rightPanel \in shown THEN p = rightPanel
  ELSE p \in Unused /\ p = CHOOSE q \in Unused : TRUE

\* Mutant: a new panel every time.
OpensUnchecked(p, display) ==
  /\ p \in Unused
  /\ rightPanel' = p
  /\ shown' = shown \cup {p}
  /\ content' = [content EXCEPT ![p] = display]
  /\ UNCHANGED closing

\* createRightPanel, and the assignment to its content that follows.
OpenWith(p, display) ==
  /\ IsPanel(p)
  /\ rightPanel' = p
  /\ shown' = shown \cup {p}
  /\ content' = [content EXCEPT ![p] = display]
  /\ UNCHANGED closing

\* The close button: the panel goes when the slide-out, 300 ms, is over.
ClickClose ==
  /\ rightPanel \in shown
  /\ closing < MaxClosing
  /\ closing' = closing + 1
  /\ UNCHANGED <<chatVars, buttonVars, scanVars, callVars, rightPanel, shown, content>>

\* The slide-out is over: the module's panel goes, whichever it is by now.
Closed ==
  /\ closing > 0
  /\ closing' = closing - 1
  /\ shown' = shown \ {rightPanel}
  /\ content' = [p \in Panels |-> IF p = rightPanel THEN None ELSE content[p]]
  /\ rightPanel' = None
  /\ isInjecting' = (isInjecting \/ rightPanel \in shown)
  /\ UNCHANGED <<chatVars, buttonVars, initial, callVars>>

-----------------------------------------------------------------------------
(* verifyText. *)

Goto(m, from, to) ==
  /\ phase[m] = from
  /\ phase' = [phase EXCEPT ![m] = to]

Click(m) ==
  /\ button[m] # None
  /\ enabled[m]
  /\ Goto(m, "idle", "token")
  /\ enabled' = [enabled EXCEPT ![m] = FALSE]
  /\ \E p \in Panels :
       /\ OpenWith(p, [kind |-> "spinner", of |-> m])
       /\ target' = [target EXCEPT ![m] = p]
  /\ Observe
  /\ UNCHANGED <<chatVars, button, initial>>

\* The stored token is there.  Without one the call fails at once.
TokenRead(m) ==
  /\ Goto(m, "token", "fetch")
  /\ UNCHANGED <<chatVars, buttonVars, scanVars, target, panelVars>>

\* A 401: the stored token is removed before the call fails.
Unauthorized(m) ==
  /\ Goto(m, "fetch", "clear")
  /\ UNCHANGED <<chatVars, buttonVars, scanVars, target, panelVars>>

\* Mutant: the button is enabled again by an error only.
ResultForgetsButton(m) ==
  /\ Goto(m, "fetch", "idle")
  /\ \E p \in Panels :
       OpenWith(p, [kind |-> "result", of |-> m, text |-> button[m]])
  /\ Observe
  /\ target' = [target EXCEPT ![m] = None]
  /\ UNCHANGED <<chatVars, buttonVars, initial>>

Verified(m) ==
  /\ Goto(m, "fetch", "idle")
  /\ enabled' = [enabled EXCEPT ![m] = TRUE]
  /\ \E p \in Panels :
       OpenWith(p, [kind |-> "result", of |-> m, text |-> button[m]])
  /\ Observe
  /\ target' = [target EXCEPT ![m] = None]
  /\ UNCHANGED <<chatVars, button, initial>>

\* Writing to a panel that is off the page shows nothing and wakes nobody.
ShowError(m) ==
  IF target[m] \in shown
  THEN /\ content' = [content EXCEPT ![target[m]] = [kind |-> "error", of |-> m]]
       /\ Observe
  ELSE UNCHANGED <<content, isInjecting>>

\* Mutant: the 401 branch returns instead of throwing.
FailedButNot401(m) ==
  /\ phase[m] \in InCall
  /\ phase' = [phase EXCEPT ![m] = "idle"]
  /\ IF phase[m] = "clear" THEN UNCHANGED <<enabled, content, isInjecting>>
     ELSE enabled' = [enabled EXCEPT ![m] = TRUE] /\ ShowError(m)
  /\ target' = [target EXCEPT ![m] = None]
  /\ UNCHANGED <<chatVars, button, initial, rightPanel, shown, closing>>

(***************************************************************************)
(* The catch block: no token, a 401, or any failure of the fetch.  The     *)
(* error goes to the panel the call began with, on the page or not.        *)
(***************************************************************************)
Failed(m) ==
  /\ phase[m] \in InCall
  /\ phase' = [phase EXCEPT ![m] = "idle"]
  /\ enabled' = [enabled EXCEPT ![m] = TRUE]
  /\ ShowError(m)
  /\ target' = [target EXCEPT ![m] = None]
  /\ UNCHANGED <<chatVars, button, initial, rightPanel, shown, closing>>

Advance(m) == TokenRead(m) \/ Unauthorized(m) \/ Verified(m) \/ Failed(m)

Next ==
  \/ \E m \in Messages : Stream(m) \/ Complete(m) \/ Click(m) \/ Advance(m)
  \/ Inject
  \/ ClickClose
  \/ Closed

(***************************************************************************)
(* Timers run, and a call moves on: storage answers, and the browser ends  *)
(* a fetch that gets no answer.  The user and the AI need not do anything. *)
(***************************************************************************)
Spec ==
  /\ Init
  /\ [][Next]_vars
  /\ WF_vars(Inject)
  /\ \A m \in Messages : WF_vars(Advance(m))

-----------------------------------------------------------------------------
(***************************************************************************)
(* The throttle loses no mutation (ai-chat-injector.js:489-497): while an  *)
(* answer that should have a button has none, a scan is still to come,     *)
(* though changes made during the 500 ms are not counted one by one.       *)
(***************************************************************************)
NoAnswerForgotten ==
  (\E m \in Messages : Eligible(m)) => initial \/ isInjecting

(***************************************************************************)
(* On a platform whose selector waits, no verdict is ever about a part of  *)
(* an answer: every button, and every result on display, is of the whole   *)
(* text, although the copy is made at an arbitrary moment.                 *)
(***************************************************************************)
VerdictsAreOfWholeAnswers ==
  waits =>
    /\ \A m \in Messages : button[m] # None => complete[m] /\ button[m] = length[m]
    /\ \A p \in Panels : content[p] # None =>
         (content[p].kind = "result" => content[p].text = length[content[p].of])

(***************************************************************************)
(* There is one panel: whatever calls, closes and late slide-outs overlap, *)
(* the page holds no second element with id hd-right-panel, and none that  *)
(* the module has lost and its close button can no longer take down.       *)
(***************************************************************************)
OnePanel == shown \subseteq {rightPanel}

(***************************************************************************)
(* "Checking facts..." on the page belongs to a call in flight: a call     *)
(* that ends replaces its own spinner even if other calls, closes and new  *)
(* panels came in between.                                                 *)
(***************************************************************************)
SpinnersAreAwaited ==
  \A p \in shown : content[p].kind = "spinner" => phase[content[p].of] \in InCall

\* A Verify button that was used can be used again.
ButtonsComeBack == \A m \in Messages : ~enabled[m] ~> enabled[m]
=============================================================================
