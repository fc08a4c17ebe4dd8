----------------------------- MODULE PageOverlay -----------------------------
(***************************************************************************)
(* The verification overlay of chrome-extension/content.js on one page:    *)
(* calls of verifyAndShowOverlay, cut at every await, and the setTimeout   *)
(* callbacks that take overlays down again.                                *)
(*                                                                         *)
(* Every overlay is an element with id "hd-overlay".  An overlay that is   *)
(* removed stays in the document for RemoveDelay while it slides out, so   *)
(* the page may hold several; getElementById finds the first of them.      *)
(*                                                                         *)
(* Time is counted in ticks of RemoveDelay's grain.  A callback that is    *)
(* due runs before time goes on; callbacks due together run in any order,  *)
(* and other events may come before them.                                  *)
(*                                                                         *)
(* The user starts a call whenever there is a selection: over a spinner, a *)
(* result or an error, and while one of them slides out.  SHOW_RESULT is   *)
(* handled by content.js and sent by nothing.                              *)
(***************************************************************************)
EXTENDS Naturals, FiniteSets, SequencesExt

CONSTANTS
  Calls,          \* runs of verifyAndShowOverlay in a behaviour
  RemoveDelay,    \* the slide-out, 200 ms
  ErrorDelay,     \* autoClose of an error, 8 s
  ResultDelay     \* autoClose of a result, 20 s

ASSUME DelayAssumption ==
  /\ {RemoveDelay, ErrorDelay, ResultDelay} \subseteq Nat \ {0}
  /\ RemoveDelay < ErrorDelay
  /\ ErrorDelay <= ResultDelay

VARIABLES
  phase,          \* phase[c]: the await call c is suspended at
  token,          \* chrome.storage.local holds a truthlens_token
  page,           \* the overlays of the document, in document order
  timers,         \* the setTimeout callbacks that have not run
  hasty           \* observer: the overlays shown while another was sliding out

vars == <<phase, token, page, timers, hasty>>

Kinds == {"loading", "error", "result"}
Overlays == Calls \X Kinds
Waiting == {"token", "fetch", "clear"}

(***************************************************************************)
(* A callback removes the element it was made for ("remove"), or, by       *)
(* autoClose, calls removeOverlay ("close").  el of a "close" is the       *)
(* overlay argument, which the code takes and does not use.                *)
(***************************************************************************)
Timer == [does : {"remove", "close"}, el : Overlays, left : 0..ResultDelay]

\* Every variable has its type, and an overlay is in the document only once.
TypeOK ==
  /\ phase \in [Calls -> Waiting \cup {"idle", "done"}]
  /\ token \in BOOLEAN
  /\ page \in Seq(Overlays)
  /\ IsInjective(page)
  /\ timers \subseteq Timer
  /\ hasty \subseteq Overlays

Init ==
  /\ phase = [c \in Calls |-> "idle"]
  /\ token \in BOOLEAN
  /\ page = <<>>
  /\ timers = {}
  /\ hasty = {}

Goto(c, from, to) ==
  /\ phase[c] = from
  /\ phase' = [phase EXCEPT ![c] = to]

-----------------------------------------------------------------------------
(* Showing and removing. *)

\* removeOverlay: the callbacks it sets, for the first overlay if there is one.
Removal ==
  IF page = <<>> THEN {}
  ELSE {[does |-> "remove", el |-> Head(page), left |-> RemoveDelay]}

\* What is left of the document when the element o, if it is in it, is removed.
Without(o) ==
  IF o \in ToSet(page)
  THEN RemoveAt(page, CHOOSE i \in DOMAIN page : page[i] = o)
  ELSE page

\* An overlay whose slide-out has begun.
Leaving(o) == \E t \in timers : t.does = "remove" /\ t.el = o

\* Mutant: only results close by themselves.
ErrorsStay(o) ==
  IF o[2] = "result"
  THEN {[does |-> "close", el |-> o, left |-> ResultDelay]} ELSE {}

\* Mutant: autoClose multiplies by 1000 what is in milliseconds already.
ClosesInSeconds(o) ==
  IF o[2] = "loading" THEN {}
  ELSE {[does |-> "close", el |-> o, left |-> 1000 * ResultDelay]}

\* autoClose, for the kinds that close by themselves.
AutoClose(o) ==
  CASE o[2] = "loading" -> {}
    [] o[2] = "error"   -> {[does |-> "close", el |-> o, left |-> ErrorDelay]}
    [] o[2] = "result"  -> {[does |-> "close", el |-> o, left |-> ResultDelay]}

\* Mutant: createOverlayShell leaves the overlay that is there alone.
ShowOnTop(o) ==
  /\ page' = Append(page, o)
  /\ timers' = timers \cup AutoClose(o)
  /\ hasty' = IF \E p \in ToSet(page) : Leaving(p) THEN hasty \cup {o} ELSE hasty

\* createOverlayShell, and what the three show functions add to it.
Show(o) ==
  /\ page' = Append(page, o)
  /\ timers' = timers \cup Removal \cup AutoClose(o)
  /\ hasty' = IF \E p \in ToSet(page) : Leaving(p) THEN hasty \cup {o} ELSE hasty

-----------------------------------------------------------------------------
(* verifyAndShowOverlay. *)

\* VERIFY_SELECTION with a selection that is long enough.
Verify(c) ==
  /\ Goto(c, "idle", "token")
  /\ Show(<<c, "loading">>)
  /\ UNCHANGED token

\* Mutant: without a token the call returns and says nothing.
ReturnsSilently(c) ==
  /\ \/ token /\ Goto(c, "token", "fetch") /\ UNCHANGED <<page, timers, hasty>>
     \/ ~token /\ Goto(c, "token", "done") /\ UNCHANGED <<page, timers, hasty>>
  /\ UNCHANGED token

TokenRead(c) ==
  /\ \/ token /\ Goto(c, "token", "fetch") /\ UNCHANGED <<page, timers, hasty>>
     \/ ~token /\ Goto(c, "token", "done") /\ Show(<<c, "error">>)
  /\ UNCHANGED token

(***************************************************************************)
(* fetch and res.json: a verdict, or any failure but 401, which all show   *)
(* the same error.                                                         *)
(***************************************************************************)
Answered(c) ==
  /\ Goto(c, "fetch", "done")
  /\ \E kind \in {"result", "error"} : Show(<<c, kind>>)
  /\ UNCHANGED token

\* A 401: the stored token is removed, whichever it is by now, ...
Unauthorized(c) ==
  /\ Goto(c, "fetch", "clear")
  /\ token' = FALSE
  /\ UNCHANGED <<page, timers, hasty>>

\* ... and when storage confirms it the user is told.
SessionExpired(c) ==
  /\ Goto(c, "clear", "done")
  /\ Show(<<c, "error">>)
  /\ UNCHANGED token

-----------------------------------------------------------------------------
(* The user, the popup and the clock. *)

\* The close button of any overlay: the listener is removeOverlay.
ClickClose ==
  /\ page # <<>>
  /\ timers' = timers \cup Removal
  /\ UNCHANGED <<phase, token, page, hasty>>

\* The popup signs in or out.
TokenChanges ==
  /\ token' = ~token
  /\ UNCHANGED <<phase, page, timers, hasty>>

FireRemove(t) ==
  /\ t.does = "remove"
  /\ t.left = 0
  /\ page' = Without(t.el)
  /\ timers' = timers \ {t}
  /\ UNCHANGED <<phase, token, hasty>>

FireClose(t) ==
  /\ t.does = "close"
  /\ t.left = 0
  /\ timers' = (timers \ {t}) \cup Removal
  /\ UNCHANGED <<phase, token, page, hasty>>

Tick ==
  /\ timers # {}
  /\ \A t \in timers : t.left > 0
  /\ timers' = {[t EXCEPT !.left = @ - 1] : t \in timers}
  /\ UNCHANGED <<phase, token, page, hasty>>

Advance(c) == TokenRead(c) \/ Answered(c) \/ Unauthorized(c) \/ SessionExpired(c)

Fire == \E t \in timers : FireRemove(t) \/ FireClose(t)

Next ==
  \/ \E c \in Calls : Verify(c) \/ Advance(c)
  \/ ClickClose
  \/ TokenChanges
  \/ Fire
  \/ Tick

(***************************************************************************)
(* A call always moves on: storage answers, and a fetch that gets no       *)
(* answer is failed by the browser.  Timers run and time passes.  Nothing  *)
(* is assumed of the user.                                                 *)
(***************************************************************************)
Spec ==
  /\ Init
  /\ [][Next]_vars
  /\ \A c \in Calls : WF_vars(Advance(c))
  /\ WF_vars(Fire)
  /\ WF_vars(Tick)

-----------------------------------------------------------------------------
Open == {o \in ToSet(page) : ~Leaving(o)}

(***************************************************************************)
(* content.js:404 "Remove existing overlay" and how far it goes: a page    *)
(* shows one overlay, plus at most one more for every overlay that was     *)
(* shown in the 200 ms in which another slid out.  Only there can          *)
(* removeOverlay find an element that is on its way out already, and spare *)
(* the one behind it; retries over a shown result or error, overlapping    *)
(* calls and timers of overlays long gone leave nothing behind.            *)
(***************************************************************************)
StraysAreHasty == Cardinality(Open) <= 1 + Cardinality(hasty)

(***************************************************************************)
(* No call ends, in a verdict, an error, a 401 or without a token, and     *)
(* leaves its user with "Verifying claims...": while the spinner of a call *)
(* that is over is in the document, the answer that replaces it is, too.   *)
(* Callbacks and clicks that were meant for other overlays never take the  *)
(* answer first.                                                           *)
(***************************************************************************)
SpinnersAreAnswered ==
  \A o \in ToSet(page) : o[2] = "loading" =>
    \/ phase[o[1]] \in Waiting
    \/ \E kind \in {"error", "result"} : <<o[1], kind>> \in ToSet(page)

(***************************************************************************)
(* No overlay stays for ever: whatever the answers, and even if the user   *)
(* never clicks, the page is clear again in the end, unless an overlay was *)
(* shown while another was sliding out.  (Then the autoClose of the last   *)
(* one may be spent on the one before it.)                                 *)
(***************************************************************************)
PageClears == page # <<>> ~> page = <<>> \/ hasty # {}
=============================================================================
