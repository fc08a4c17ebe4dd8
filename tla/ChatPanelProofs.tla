--------------------------- MODULE ChatPanelProofs ---------------------------
(***************************************************************************)
(* The safety of the chat panel, for any number of answers, panels, text   *)
(* lengths and pending closes.                                             *)
(*                                                                         *)
(* Three things have to be known besides the properties: a call in flight  *)
(* has a button; a result on display is of an answer that is finished; and *)
(* a spinner on the page belongs to the call that captured its panel.      *)
(***************************************************************************)
EXTENDS ChatPanel, TLAPS

\* Only an answer with a button is being verified.
CallsHaveButtons == \A m \in Messages : phase[m] # "idle" => button[m] # None

\* Where the selector waits, buttons and results are of finished, whole answers.
WholeAnswers ==
  waits =>
    /\ \A m \in Messages : button[m] # None => complete[m] /\ button[m] = length[m]
    /\ \A p \in Panels : content[p] # None =>
         (content[p].kind = "result" =>
            complete[content[p].of] /\ content[p].text = length[content[p].of])

\* A spinner on the page waits for the call that captured its panel.
SpinnersAreCaptured ==
  \A p \in shown : content[p] # None /\ content[p].kind = "spinner" =>
    phase[content[p].of] \in InCall /\ target[content[p].of] = p

\* What is on the page displays something.
ShownHasContent == \A p \in shown : content[p] # None

PanelInv ==
  /\ TypeOK /\ NoAnswerForgotten /\ OnePanel
  /\ CallsHaveButtons /\ WholeAnswers /\ SpinnersAreCaptured /\ ShownHasContent

LEMMA InitPanel == Init => PanelInv
<1> SUFFICES ASSUME Init PROVE PanelInv
  OBVIOUS
<1>1. TypeOK
  <2>1. length \in [Messages -> 0..FullLength]
    BY ChatAssumption DEF Init
  <2>2. complete \in [Messages -> BOOLEAN]
    <3> DEFINE appeared(m) == length[m] > 0
    <3>1. \A m \in Messages : appeared(m) \in BOOLEAN
      OBVIOUS
    <3>2. complete = [m \in Messages |-> appeared(m)]
      BY DEF Init
    <3> HIDE DEF appeared
    <3> QED
      BY <3>1, <3>2
  <2>3. closing \in 0..MaxClosing
    BY ChatAssumption DEF Init
  <2> QED
    BY <2>1, <2>2, <2>3 DEF Init, TypeOK
<1> QED
  BY <1>1 DEF Init, PanelInv, NoAnswerForgotten, OnePanel, CallsHaveButtons, WholeAnswers,
              SpinnersAreCaptured, ShownHasContent

-----------------------------------------------------------------------------
(* What can be displayed, and what opening the panel does. *)

LEMMA Displays ==
  /\ \A m \in Messages : [kind |-> "spinner", of |-> m] \in Display
  /\ \A m \in Messages : [kind |-> "error", of |-> m] \in Display
  /\ \A m \in Messages, n \in 0..FullLength : [kind |-> "result", of |-> m, text |-> n] \in Display
  /\ \A d \in Display : d # None /\ d.of \in Messages
BY DisplayAssumption DEF Display

LEMMA ButtonText ==
  ASSUME TypeOK, NEW m \in Messages, button[m] # None
  PROVE  button[m] \in 0..FullLength
BY ChatAssumption DEF TypeOK

LEMMA OpensOne ==
  ASSUME TypeOK, OnePanel, NEW p \in Panels, NEW d \in Display, OpenWith(p, d)
  PROVE  /\ shown' = {p} /\ rightPanel' = p
         /\ content' = [content EXCEPT ![p] = d]
         /\ content' \in [Panels -> Display \cup {None}]
         /\ content'[p] = d
         /\ \A q \in Panels \ {p} : content'[q] = content[q]
         /\ closing' = closing
BY DEF TypeOK, OnePanel, OpenWith, IsPanel

-----------------------------------------------------------------------------
(* One lemma for every action or group of actions. *)

\* The chat page moves: an answer with a button on a platform that waits is finished.
LEMMA PageSteps ==
  ASSUME PanelInv, NEW m \in Messages, Stream(m) \/ Complete(m)
  PROVE  PanelInv'
<1> USE DEF PanelInv
<1>1. TypeOK'
  <2>1. length' \in [Messages -> 0..FullLength]
    BY ChatAssumption DEF TypeOK, Stream, Complete
  <2>2. complete' \in [Messages -> BOOLEAN]
    BY DEF TypeOK, Stream, Complete
  <2> QED
    BY <2>1, <2>2 DEF TypeOK, Stream, Complete, Observe, buttonVars, callVars, panelVars
<1>2. WholeAnswers'
  <2>1. \A p \in Panels : content[p] # None => content[p].of \in Messages
    BY Displays DEF TypeOK
  <2>2. complete[m] = FALSE
    BY DEF Stream, Complete, TypeOK
  <2>3. \A n \in Messages : complete[n] => complete'[n] /\ length'[n] = length[n]
    BY <2>2 DEF Stream, Complete, TypeOK
  <2> QED
    BY <2>1, <2>3 DEF WholeAnswers, Stream, Complete, buttonVars, panelVars
<1>3. /\ NoAnswerForgotten' /\ OnePanel' /\ CallsHaveButtons'
      /\ SpinnersAreCaptured' /\ ShownHasContent'
  BY DEF NoAnswerForgotten, OnePanel, CallsHaveButtons, SpinnersAreCaptured, ShownHasContent,
         Stream, Complete, Observe, buttonVars, callVars, panelVars
<1> QED
  BY <1>1, <1>2, <1>3

\* A scan leaves no answer without a button behind it.
LEMMA InjectStep == PanelInv /\ Inject => PanelInv'
<1> SUFFICES ASSUME PanelInv, Inject PROVE PanelInv'
  OBVIOUS
<1> USE DEF PanelInv
<1>1. \A m \in Messages : /\ Eligible(m) => button'[m] = length[m] /\ button'[m] # None
                          /\ ~Eligible(m) => button'[m] = button[m]
  BY ChatAssumption DEF Inject, InjectButtons, TypeOK
<1>2. TypeOK'
  <2>1. button' \in [Messages -> MinLength..FullLength \cup {None}]
    BY ChatAssumption DEF Inject, InjectButtons, Eligible, TypeOK
  <2>2. isInjecting' \in BOOLEAN /\ initial' \in BOOLEAN
    BY DEF Inject, TypeOK
  <2> QED
    BY <2>1, <2>2 DEF TypeOK, Inject, chatVars, callVars, panelVars
<1>3. NoAnswerForgotten'
  BY <1>1 DEF NoAnswerForgotten, Eligible, Matches, Inject, chatVars
<1>4. CallsHaveButtons'
  BY <1>1 DEF CallsHaveButtons, Inject, callVars
<1>5. WholeAnswers'
  <2>1. waits => \A m \in Messages : button'[m] # None => complete[m] /\ button'[m] = length[m]
    BY <1>1 DEF WholeAnswers, Eligible, Matches
  <2> QED
    BY <2>1 DEF WholeAnswers, Inject, chatVars, panelVars
<1>6. OnePanel' /\ SpinnersAreCaptured' /\ ShownHasContent'
  BY DEF OnePanel, SpinnersAreCaptured, ShownHasContent, Inject, callVars, panelVars
<1> QED
  BY <1>2, <1>3, <1>4, <1>5, <1>6

LEMMA ClickCloseStep == PanelInv /\ ClickClose => PanelInv'
BY ChatAssumption
   DEF PanelInv, TypeOK, NoAnswerForgotten, Eligible, Matches, OnePanel, CallsHaveButtons, WholeAnswers,
       SpinnersAreCaptured, ShownHasContent, ClickClose, chatVars, buttonVars, scanVars, callVars

\* The only panel on the page goes.
LEMMA ClosedStep == PanelInv /\ Closed => PanelInv'
<1> SUFFICES ASSUME PanelInv, Closed PROVE PanelInv'
  OBVIOUS
<1> USE DEF PanelInv
<1>1. shown' = {}
  BY DEF Closed, OnePanel
<1>2. /\ content' \in [Panels -> Display \cup {None}]
      /\ \A p \in Panels : content'[p] \in {content[p], None}
  BY DEF Closed, TypeOK
<1>3. closing' \in 0..MaxClosing
  BY ChatAssumption DEF Closed, TypeOK
<1>4. isInjecting' \in BOOLEAN /\ (isInjecting => isInjecting')
  BY DEF Closed, TypeOK
<1>5. TypeOK'
  BY <1>1, <1>2, <1>3, <1>4 DEF TypeOK, Closed, chatVars, buttonVars, callVars
<1>6. WholeAnswers'
  BY <1>2 DEF WholeAnswers, Closed, chatVars, buttonVars
<1>7. NoAnswerForgotten'
  BY <1>4 DEF NoAnswerForgotten, Eligible, Matches, Closed, chatVars, buttonVars
<1> QED
  BY <1>1, <1>5, <1>6, <1>7
     DEF OnePanel, CallsHaveButtons, SpinnersAreCaptured, ShownHasContent, Closed, buttonVars, callVars

\* A new call: the panel shows its spinner and nothing else.
LEMMA ClickStep ==
  ASSUME PanelInv, NEW m \in Messages, Click(m)
  PROVE  PanelInv'
<1> USE DEF PanelInv
<1> DEFINE spinner == [kind |-> "spinner", of |-> m]
<1>1. PICK p \in Panels : OpenWith(p, spinner) /\ target' = [target EXCEPT ![m] = p]
  BY DEF Click
<1>2. spinner \in Display /\ spinner # None /\ spinner.kind = "spinner" /\ spinner.of = m
  BY Displays
<1> HIDE DEF spinner
<1>3. /\ shown' = {p} /\ rightPanel' = p /\ closing' = closing
      /\ content' \in [Panels -> Display \cup {None}]
      /\ content'[p] = spinner
      /\ \A q \in Panels \ {p} : content'[q] = content[q]
  BY <1>1, <1>2, OpensOne
<1>4. phase' = [phase EXCEPT ![m] = "token"] /\ button[m] # None
  BY DEF Click, Goto
<1>5. TypeOK'
  BY <1>1, <1>3, <1>4 DEF TypeOK, Click, Observe, InCall, chatVars
<1>6. NoAnswerForgotten'
  BY DEF NoAnswerForgotten, Click, Observe
<1>7. WholeAnswers'
  BY <1>2, <1>3 DEF WholeAnswers, Click, chatVars
<1>8. SpinnersAreCaptured' /\ ShownHasContent' /\ OnePanel'
  BY <1>1, <1>2, <1>3, <1>4 DEF SpinnersAreCaptured, ShownHasContent, OnePanel, InCall, TypeOK
<1>9. CallsHaveButtons'
  BY <1>4 DEF CallsHaveButtons, Click, TypeOK
<1> QED
  BY <1>5, <1>6, <1>7, <1>8, <1>9

\* The answer of a call replaces whatever the panel shows.
LEMMA VerifiedStep ==
  ASSUME PanelInv, NEW m \in Messages, Verified(m)
  PROVE  PanelInv'
<1> USE DEF PanelInv
<1> DEFINE result == [kind |-> "result", of |-> m, text |-> button[m]]
<1>1. PICK p \in Panels : OpenWith(p, result)
  BY DEF Verified
<1>2. phase[m] = "fetch" /\ phase' = [phase EXCEPT ![m] = "idle"]
  BY DEF Verified, Goto
<1>3. button[m] # None /\ button[m] \in 0..FullLength
  BY <1>2, ButtonText DEF CallsHaveButtons
<1>4. /\ result \in Display /\ result # None
      /\ result.kind = "result" /\ result.of = m /\ result.text = button[m]
  BY <1>3, Displays
<1> HIDE DEF result
<1>5. /\ shown' = {p} /\ rightPanel' = p /\ closing' = closing
      /\ content' \in [Panels -> Display \cup {None}]
      /\ content'[p] = result
      /\ \A q \in Panels \ {p} : content'[q] = content[q]
  BY <1>1, <1>4, OpensOne
<1>6. TypeOK'
  BY <1>2, <1>5 DEF TypeOK, Verified, Observe, chatVars
<1>7. NoAnswerForgotten'
  BY DEF NoAnswerForgotten, Verified, Observe
<1>8. WholeAnswers'
  BY <1>3, <1>4, <1>5 DEF WholeAnswers, Verified, chatVars
<1>9. SpinnersAreCaptured' /\ ShownHasContent' /\ OnePanel'
  BY <1>4, <1>5 DEF SpinnersAreCaptured, ShownHasContent, OnePanel
<1>10. CallsHaveButtons'
  BY <1>2 DEF CallsHaveButtons, Verified, TypeOK
<1> QED
  BY <1>6, <1>7, <1>8, <1>9, <1>10

\* A call that moves on keeps its spinner.
LEMMA WaitingStep ==
  ASSUME PanelInv, NEW m \in Messages, TokenRead(m) \/ Unauthorized(m)
  PROVE  PanelInv'
<1> USE DEF PanelInv
<1>1. /\ phase[m] \in {"token", "fetch"}
      /\ \E to \in {"fetch", "clear"} : phase' = [phase EXCEPT ![m] = to]
  BY DEF TokenRead, Unauthorized, Goto
<1>2. TypeOK'
  BY <1>1 DEF TypeOK, TokenRead, Unauthorized, InCall, chatVars, buttonVars, scanVars, panelVars
<1>3. CallsHaveButtons'
  BY <1>1 DEF CallsHaveButtons, TokenRead, Unauthorized, TypeOK, buttonVars
<1>4. SpinnersAreCaptured'
  BY <1>1 DEF SpinnersAreCaptured, TokenRead, Unauthorized, TypeOK, InCall, panelVars
<1>5. NoAnswerForgotten' /\ OnePanel' /\ WholeAnswers' /\ ShownHasContent'
  BY DEF NoAnswerForgotten, Eligible, Matches, OnePanel, WholeAnswers, ShownHasContent,
         TokenRead, Unauthorized, chatVars, buttonVars, scanVars, panelVars
<1> QED
  BY <1>2, <1>3, <1>4, <1>5

(***************************************************************************)
(* A failure.  The panel the call captured is on the page, and is then the *)
(* only one and shows the error; or it is not, and then no spinner on the  *)
(* page is the call's.                                                     *)
(***************************************************************************)
LEMMA FailedStep ==
  ASSUME PanelInv, NEW m \in Messages, Failed(m)
  PROVE  PanelInv'
<1> USE DEF PanelInv
<1> DEFINE error == [kind |-> "error", of |-> m]
<1>1. error \in Display /\ error # None /\ error.kind = "error"
  BY Displays
<1>2. /\ phase[m] \in InCall /\ phase' = [phase EXCEPT ![m] = "idle"]
      /\ target' = [target EXCEPT ![m] = None]
      /\ UNCHANGED <<waits, length, complete, button, initial, rightPanel, shown, closing>>
  BY DEF Failed, chatVars
<1>3. \/ target[m] \in shown /\ content' = [content EXCEPT ![target[m]] = error] /\ isInjecting'
      \/ target[m] \notin shown /\ content' = content /\ isInjecting' = isInjecting
  BY DEF Failed, ShowError, Observe
<1> HIDE DEF error
<1>4. /\ content' \in [Panels -> Display \cup {None}]
      /\ \A p \in Panels : content'[p] = content[p] \/ content'[p] = error
      /\ \A p \in shown : content'[p] = error \/ (content'[p] = content[p] /\ target[m] # p)
      /\ isInjecting' \in BOOLEAN /\ (isInjecting => isInjecting')
  BY <1>1, <1>3 DEF TypeOK, OnePanel
<1>5. TypeOK'
  BY <1>2, <1>4 DEF TypeOK, Failed
<1>6. NoAnswerForgotten'
  BY <1>2, <1>4 DEF NoAnswerForgotten, Eligible, Matches
<1>7. CallsHaveButtons'
  BY <1>2 DEF CallsHaveButtons, TypeOK
<1>8. WholeAnswers'
  BY <1>1, <1>2, <1>4 DEF WholeAnswers
<1>9. SpinnersAreCaptured'
  <2> SUFFICES ASSUME NEW p \in shown, content'[p] # None, content'[p].kind = "spinner"
               PROVE  phase'[content'[p].of] \in InCall /\ target'[content'[p].of] = p
    BY <1>2 DEF SpinnersAreCaptured
  <2>1. content'[p] = content[p] /\ target[m] # p
    BY <1>1, <1>4
  <2>2. phase[content[p].of] \in InCall /\ target[content[p].of] = p
    BY <2>1 DEF SpinnersAreCaptured
  <2>3. content[p].of # m /\ content[p].of \in Messages
    BY <2>1, <2>2, Displays DEF TypeOK
  <2> QED
    BY <1>2, <2>1, <2>2, <2>3 DEF TypeOK
<1>10. OnePanel' /\ ShownHasContent'
  BY <1>1, <1>2, <1>4 DEF OnePanel, ShownHasContent
<1> QED
  BY <1>5, <1>6, <1>7, <1>8, <1>9, <1>10

LEMMA StepPanel == PanelInv /\ [Next]_vars => PanelInv'
<1>1. PanelInv /\ UNCHANGED vars => PanelInv'
  BY DEF PanelInv, TypeOK, NoAnswerForgotten, Eligible, Matches, OnePanel, CallsHaveButtons, WholeAnswers,
         SpinnersAreCaptured, ShownHasContent, vars, chatVars, buttonVars, scanVars, callVars, panelVars
<1> QED
  BY <1>1, PageSteps, InjectStep, ClickCloseStep, ClosedStep, ClickStep, VerifiedStep, WaitingStep, FailedStep
     DEF Next, Advance

LEMMA PanelInvariant == Spec => []PanelInv
BY InitPanel, StepPanel, PTL DEF Spec

-----------------------------------------------------------------------------
\* TypeOK.
THEOREM ChatTypeCorrect == Spec => []TypeOK
BY PanelInvariant, PTL DEF PanelInv

\* NoAnswerForgotten: an answer that should have a button has a scan coming.
THEOREM NoAnswerForgottenCorrect == Spec => []NoAnswerForgotten
BY PanelInvariant, PTL DEF PanelInv

\* VerdictsAreOfWholeAnswers: where the selector waits, every verdict is of the whole text.
THEOREM WholeAnswersCorrect == Spec => []VerdictsAreOfWholeAnswers
<1>1. PanelInv => VerdictsAreOfWholeAnswers
  BY DEF PanelInv, WholeAnswers, VerdictsAreOfWholeAnswers
<1> QED
  BY <1>1, PanelInvariant, PTL

\* OnePanel: no second panel, and none the module has lost.
THEOREM OnePanelCorrect == Spec => []OnePanel
BY PanelInvariant, PTL DEF PanelInv

\* SpinnersAreAwaited: "Checking facts..." belongs to a call in flight.
THEOREM SpinnersCorrect == Spec => []SpinnersAreAwaited
<1>1. PanelInv => SpinnersAreAwaited
  BY DEF PanelInv, SpinnersAreCaptured, ShownHasContent, SpinnersAreAwaited
<1> QED
  BY <1>1, PanelInvariant, PTL
=============================================================================
