-------------------------- MODULE PageOverlayProofs --------------------------
(***************************************************************************)
(* Proofs about PageOverlay, for any calls, any delays in the assumed      *)
(* order and any user.  All of it rests on one idea: the document is a     *)
(* queue.  removeOverlay starts the slide-out of the first overlay only,   *)
(* so overlays leave in the order they came, whoever asks for the removal. *)
(***************************************************************************)
EXTENDS PageOverlay, SequenceTheorems, FiniteSetTheorems, TLAPS

\* The call of overlay o got as far as showing it.
Shown(o) ==
  /\ phase[o[1]] # "idle"
  /\ o[2] # "loading" => phase[o[1]] = "done"

\* An overlay that is in the document, or that a callback refers to, was shown.
ShownInOrder ==
  /\ \A o \in ToSet(page) \cup hasty : Shown(o)
  /\ \A t \in timers : Shown(t.el)

\* The types are inductive with it: what a call appends is not there yet.
TypeInv == TypeOK /\ ShownInOrder

\* Of the document only the first overlay slides out.
FirstLeaves == \A o \in ToSet(page) : Leaving(o) => o = Head(page)

\* Behind the spinner of a call that is over stands the answer of that call.
AnswersBehind ==
  \A i \in DOMAIN page :
    (page[i][2] = "loading" /\ phase[page[i][1]] \notin Waiting) =>
      \E j \in DOMAIN page :
        i < j /\ \E kind \in {"error", "result"} : page[j] = <<page[i][1], kind>>

\* StraysAreHasty, with the finiteness its cardinalities need.
StraysInv == IsFiniteSet(hasty) /\ StraysAreHasty

PageInv == TypeInv /\ FirstLeaves /\ AnswersBehind /\ StraysInv

(***************************************************************************)
(* The steps of the page, by what they do to the document: an overlay is   *)
(* shown, an overlay is taken out (FireRemove), or neither.                *)
(***************************************************************************)
ShowStep(c, kind) ==
  /\ Show(<<c, kind>>)
  /\ token' \in BOOLEAN
  /\ \/ kind = "loading" /\ Goto(c, "idle", "token")
     \/ kind \in {"error", "result"} /\ \E from \in Waiting : Goto(c, from, "done")

QuietStep ==
  /\ UNCHANGED <<page, hasty>>
  /\ token' \in BOOLEAN
  /\ \/ UNCHANGED phase
     \/ \E c \in Calls : \E from, to \in Waiting : Goto(c, from, to)
  /\ timers' \subseteq Timer
  /\ \A t \in timers' : t.el \in ToSet(page) \/ \E u \in timers : t.el = u.el
  /\ \A o : Leaving(o) => Leaving(o)'
  /\ \A o : Leaving(o)' => Leaving(o) \/ (page # <<>> /\ o = Head(page))

-----------------------------------------------------------------------------
(* The document as a sequence without repetition. *)

\* Taking one element out of a sequence without repetition takes it away.
LEMMA RemoveAtFacts ==
  ASSUME NEW S, NEW s \in Seq(S), IsInjective(s), NEW k \in DOMAIN s
  PROVE  /\ RemoveAt(s, k) \in Seq(S)
         /\ Len(RemoveAt(s, k)) = Len(s) - 1
         /\ IsInjective(RemoveAt(s, k))
         /\ ToSet(RemoveAt(s, k)) = ToSet(s) \ {s[k]}
         /\ \A i \in 1..(Len(s) - 1) :
              RemoveAt(s, k)[i] = IF i < k THEN s[i] ELSE s[i + 1]
<1> DEFINE n == Len(s)
           front == SubSeq(s, 1, k - 1)
           rest == SubSeq(s, k + 1, n)
           cut == RemoveAt(s, k)
<1>1. n \in Nat /\ k \in 1..n /\ DOMAIN s = 1..n /\ \A i \in 1..n : s[i] \in S
  BY LenProperties
<1>2. /\ front \in Seq(S) /\ Len(front) = k - 1
      /\ \A i \in 1..(k - 1) : front[i] = s[i]
  BY <1>1
<1>3. /\ rest \in Seq(S) /\ Len(rest) = n - k
      /\ \A i \in 1..(n - k) : rest[i] = s[k + i]
  <2>1. \A i \in (k + 1)..n : s[i] \in S
    BY <1>1
  <2>2. k + 1 \in Int /\ n \in Int
    BY <1>1
  <2>3. /\ rest \in Seq(S)
        /\ Len(rest) = IF k + 1 <= n THEN n - (k + 1) + 1 ELSE 0
        /\ \A i \in 1..(n - (k + 1) + 1) : rest[i] = s[k + 1 + i - 1]
    BY <2>1, <2>2, SubSeqProperties
  <2> QED BY <2>3, <1>1
<1>4. /\ cut \in Seq(S) /\ Len(cut) = n - 1 /\ DOMAIN cut = 1..(n - 1)
      /\ \A i \in 1..(n - 1) : cut[i] = IF i < k THEN s[i] ELSE s[i + 1]
  <2>1. cut = front \o rest
    BY DEF RemoveAt
  <2> HIDE DEF front, rest, cut
  <2>2. /\ cut \in Seq(S)
        /\ Len(cut) = Len(front) + Len(rest)
        /\ \A i \in 1..(Len(front) + Len(rest)) : cut[i] =
              IF i <= Len(front) THEN front[i] ELSE rest[i - Len(front)]
    BY <2>1, <1>2, <1>3, ConcatProperties
  <2>3. Len(cut) = n - 1 /\ DOMAIN cut = 1..(n - 1)
    BY <2>2, <1>1, <1>2, <1>3, LenProperties
  <2>4. ASSUME NEW i \in 1..(n - 1)
        PROVE  cut[i] = IF i < k THEN s[i] ELSE s[i + 1]
    <3>1. i \in 1..(Len(front) + Len(rest))
      BY <1>1, <1>2, <1>3
    <3>2. cut[i] = IF i <= k - 1 THEN front[i] ELSE rest[i - (k - 1)]
      BY <2>2, <3>1, <1>2
    <3>3. CASE i <= k - 1
      BY <3>2, <3>3, <1>1, <1>2
    <3>4. CASE i > k - 1
      <4>1. i - (k - 1) \in 1..(n - k) /\ k + (i - (k - 1)) = i + 1
        BY <3>4, <1>1
      <4>2. rest[i - (k - 1)] = s[i + 1]
        BY <4>1, <1>3
      <4> QED BY <3>2, <3>4, <4>2, <1>1
    <3> QED BY <3>3, <3>4, <1>1
  <2> QED BY <2>2, <2>3, <2>4
<1> HIDE DEF n, cut
<1>5. \A i, j \in 1..n : s[i] = s[j] => i = j
  BY <1>1 DEF IsInjective
<1>6. IsInjective(cut)
  BY <1>1, <1>4, <1>5 DEF IsInjective
<1>7. ToSet(cut) = ToSet(s) \ {s[k]}
  <2>1. ASSUME NEW i \in 1..(n - 1)
        PROVE  \E j \in 1..n : cut[i] = s[j] /\ s[j] # s[k]
    <3>1. CASE i < k
      <4>1. i \in 1..n /\ i # k /\ cut[i] = s[i]
        BY <3>1, <1>1, <1>4
      <4> QED BY <4>1, <1>1, <1>5
    <3>2. CASE ~(i < k)
      <4>1. i + 1 \in 1..n /\ i + 1 # k /\ cut[i] = s[i + 1]
        BY <3>2, <1>1, <1>4
      <4> QED BY <4>1, <1>1, <1>5
    <3> QED BY <3>1, <3>2
  <2>2. ASSUME NEW i \in 1..n, i # k
        PROVE  \E j \in 1..(n - 1) : cut[j] = s[i]
    <3>1. CASE i < k
      BY <3>1, <1>1, <1>4
    <3>2. CASE i > k
      <4>1. i - 1 \in 1..(n - 1) /\ ~(i - 1 < k) /\ (i - 1) + 1 = i
        BY <3>2, <1>1
      <4> QED BY <4>1, <1>4
    <3> QED BY <3>1, <3>2, <2>2, <1>1
  <2>3. ToSet(s) = {s[i] : i \in 1..n} /\ ToSet(cut) = {cut[i] : i \in 1..(n - 1)}
    BY <1>1, <1>4 DEF ToSet
  <2>4. ASSUME NEW x \in ToSet(cut) PROVE x \in ToSet(s) \ {s[k]}
    BY <2>1, <2>3, <2>4
  <2>5. ASSUME NEW x \in ToSet(s) \ {s[k]} PROVE x \in ToSet(cut)
    BY <2>2, <2>3, <2>5
  <2> QED BY <2>4, <2>5
<1> QED BY <1>4, <1>6, <1>7 DEF n, cut

\* Removing an element leaves a document of the others, and where the first
\* one is removed they move up.
LEMMA WithoutFacts ==
  ASSUME page \in Seq(Overlays), IsInjective(page), NEW o
  PROVE  /\ Without(o) \in Seq(Overlays)
         /\ IsInjective(Without(o))
         /\ ToSet(Without(o)) = ToSet(page) \ {o}
         /\ o \notin ToSet(page) => Without(o) = page
         /\ (page # <<>> /\ o = Head(page)) =>
              /\ Len(Without(o)) = Len(page) - 1
              /\ \A i \in 1..(Len(page) - 1) : Without(o)[i] = page[i + 1]
<1>1. CASE o \in ToSet(page)
  <2> DEFINE k == CHOOSE i \in DOMAIN page : page[i] = o
  <2>1. k \in DOMAIN page /\ page[k] = o
    BY <1>1 DEF ToSet
  <2>2. Without(o) = RemoveAt(page, k)
    BY <1>1 DEF Without
  <2> HIDE DEF k
  <2>3. Len(page) \in Nat /\ DOMAIN page = 1..Len(page)
    BY LenProperties
  <2>4. ASSUME page # <<>>, o = Head(page) PROVE k = 1
    <3>1. Len(page) # 0 /\ Head(page) = page[1]
      BY <2>4, EmptySeq, HeadTailProperties
    <3>2. 1 \in DOMAIN page
      BY <2>3, <3>1
    <3> QED BY <2>1, <2>4, <3>1, <3>2 DEF IsInjective
  <2>5. ASSUME page # <<>>, o = Head(page), NEW i \in 1..(Len(page) - 1)
        PROVE  Without(o)[i] = page[i + 1]
    <3>1. ~(i < k)
      BY <2>4, <2>5, <2>3
    <3> QED BY <2>1, <2>2, <2>5, <3>1, RemoveAtFacts
  <2> QED BY <1>1, <2>1, <2>2, <2>5, RemoveAtFacts
<1>2. CASE o \notin ToSet(page)
  <2>1. ~(page # <<>> /\ o = Head(page))
    <3> SUFFICES ASSUME page # <<>> PROVE Head(page) \in ToSet(page)
      BY <1>2
    <3>1. Len(page) \in Nat /\ Len(page) # 0 /\ DOMAIN page = 1..Len(page) /\ Head(page) = page[1]
      BY LenProperties, EmptySeq, HeadTailProperties
    <3> QED BY <3>1 DEF ToSet
  <2> QED BY <1>2, <2>1 DEF Without
<1> QED BY <1>1, <1>2

\* Appending an element that is not there leaves a document with it.
LEMMA AppendFacts ==
  ASSUME page \in Seq(Overlays), IsInjective(page),
         NEW o \in Overlays, o \notin ToSet(page)
  PROVE  /\ Append(page, o) \in Seq(Overlays)
         /\ IsInjective(Append(page, o))
         /\ ToSet(Append(page, o)) = ToSet(page) \cup {o}
         /\ Len(Append(page, o)) = Len(page) + 1
         /\ \A i \in 1..Len(page) : Append(page, o)[i] = page[i]
         /\ Append(page, o)[Len(page) + 1] = o
<1> DEFINE n == Len(page)
           more == Append(page, o)
<1>1. n \in Nat /\ DOMAIN page = 1..n
  BY LenProperties
<1>2. /\ more \in Seq(Overlays) /\ Len(more) = n + 1
      /\ \A i \in 1..n : more[i] = page[i]
      /\ more[n + 1] = o
  BY AppendProperties
<1>3. DOMAIN more = 1..(n + 1)
  BY <1>2, LenProperties
<1> HIDE DEF n, more
<1>4. \A i, j \in 1..n : page[i] = page[j] => i = j
  BY <1>1 DEF IsInjective
<1>5. \A i \in 1..n : page[i] # o
  BY <1>1 DEF ToSet
<1>6. IsInjective(more)
  BY <1>1, <1>2, <1>3, <1>4, <1>5 DEF IsInjective
<1>7. ToSet(more) = ToSet(page) \cup {o}
  <2>1. \A i \in 1..(n + 1) : i \in 1..n \/ i = n + 1
    BY <1>1
  <2>2. \A i \in 1..n : i \in 1..(n + 1)
    BY <1>1
  <2>3. n + 1 \in 1..(n + 1)
    BY <1>1
  <2> QED BY <1>1, <1>2, <1>3, <2>1, <2>2, <2>3 DEF ToSet
<1> QED BY <1>2, <1>6, <1>7 DEF more, n

-----------------------------------------------------------------------------
(* The steps, by what they do to the document. *)

\* What Removal sets is a callback, for the first overlay.
LEMMA RemovalTypes ==
  ASSUME TypeOK
  PROVE  /\ Removal \subseteq Timer
         /\ \A t \in Removal : t.does = "remove" /\ page # <<>> /\ t.el = Head(page)
         /\ page # <<>> => Head(page) \in ToSet(page)
<1>1. CASE page = <<>>
  BY <1>1 DEF Removal
<1>2. CASE page # <<>>
  <2>1. Head(page) \in Overlays
    BY <1>2, HeadTailProperties DEF TypeOK
  <2>2. RemoveDelay \in 0..ResultDelay
    BY DelayAssumption
  <2>3. Len(page) \in Nat /\ Len(page) # 0 /\ DOMAIN page = 1..Len(page) /\ Head(page) = page[1]
    BY <1>2, LenProperties, EmptySeq, HeadTailProperties DEF TypeOK
  <2>4. Head(page) \in ToSet(page)
    BY <2>3 DEF ToSet
  <2> QED BY <1>2, <2>1, <2>2, <2>4 DEF Removal, Timer
<1> QED BY <1>1, <1>2

\* An error or a result gets a callback that closes it, a spinner none.
LEMMA AutoCloseTypes ==
  ASSUME NEW o \in Overlays
  PROVE  /\ AutoClose(o) \subseteq Timer
         /\ \A t \in AutoClose(o) : t.does = "close" /\ t.el = o
<1>1. {ErrorDelay, ResultDelay} \subseteq 0..ResultDelay
  BY DelayAssumption
<1>2. o[2] \in {"loading", "error", "result"}
  BY DEF Overlays, Kinds
<1>3. CASE o[2] = "loading"
  BY <1>3 DEF AutoClose
<1>4. CASE o[2] = "error"
  BY <1>1, <1>4 DEF AutoClose, Timer
<1>5. CASE o[2] = "result"
  BY <1>1, <1>5 DEF AutoClose, Timer
<1> QED BY <1>2, <1>3, <1>4, <1>5

\* Closing the first overlay, by a click or by a callback that is spent on it.
LEMMA ClosingIsQuiet ==
  ASSUME TypeInv, NEW kept \in SUBSET timers,
         \A t \in timers : t.does = "remove" => t \in kept,
         timers' = kept \cup Removal, UNCHANGED <<phase, token, page, hasty>>
  PROVE  QuietStep
<1>1. TypeOK
  BY DEF TypeInv
<1>2. timers' \subseteq Timer /\ token' \in BOOLEAN
  BY <1>1, RemovalTypes DEF TypeOK
<1>3. \A t \in timers' : t.el \in ToSet(page) \/ \E u \in timers : t.el = u.el
  BY <1>1, RemovalTypes
<1>4. \A o : Leaving(o) => Leaving(o)'
  BY DEF Leaving
<1>5. \A o : Leaving(o)' => Leaving(o) \/ (page # <<>> /\ o = Head(page))
  BY <1>1, RemovalTypes DEF Leaving
<1> QED BY <1>2, <1>3, <1>4, <1>5 DEF QuietStep

\* A callback loses a tick without becoming another callback.
LEMMA TickIsQuiet ==
  ASSUME TypeInv, Tick
  PROVE  QuietStep
<1>1. ASSUME NEW t \in timers
      PROVE  /\ [t EXCEPT !.left = @ - 1] \in Timer
             /\ [t EXCEPT !.left = @ - 1].does = t.does
             /\ [t EXCEPT !.left = @ - 1].el = t.el
  <2>1. t \in Timer /\ t.left \in 0..ResultDelay /\ t.left > 0
    BY DEF TypeInv, TypeOK, Timer, Tick
  <2>2. t.left - 1 \in 0..ResultDelay
    BY <2>1, DelayAssumption
  <2> QED BY <2>1, <2>2 DEF Timer
<1>2. timers' = {[t EXCEPT !.left = @ - 1] : t \in timers}
  BY DEF Tick
<1>3. \A t \in timers' : \E u \in timers : t.el = u.el /\ t.does = u.does
  BY <1>1, <1>2
<1>4. timers' \subseteq Timer
  BY <1>1, <1>2
<1>5. \A o : Leaving(o) => Leaving(o)'
  BY <1>1, <1>2 DEF Leaving
<1>6. \A o : Leaving(o)' => Leaving(o)
  BY <1>3 DEF Leaving
<1> QED BY <1>3, <1>4, <1>5, <1>6 DEF QuietStep, Tick, TypeInv, TypeOK

\* A step that leaves the document and its callbacks alone.
LEMMA StillIsQuiet ==
  ASSUME TypeInv, UNCHANGED <<page, timers, hasty>>, token' \in BOOLEAN,
         \/ UNCHANGED phase
         \/ \E c \in Calls : \E from, to \in Waiting : Goto(c, from, to)
  PROVE  QuietStep
  BY DEF QuietStep, TypeInv, TypeOK, Leaving

\* Every step is of one of the three kinds.
LEMMA StepKinds ==
  ASSUME TypeInv, [Next]_vars
  PROVE  \/ \E c \in Calls, kind \in Kinds : ShowStep(c, kind)
         \/ \E t \in timers : FireRemove(t)
         \/ QuietStep
<1>0. TypeOK
  BY DEF TypeInv
<1>1. ASSUME NEW c \in Calls, Verify(c) PROVE ShowStep(c, "loading")
  BY <1>0, <1>1 DEF Verify, ShowStep, TypeOK
<1>2. ASSUME NEW c \in Calls, TokenRead(c) PROVE ShowStep(c, "error") \/ QuietStep
  <2>1. CASE token
    BY <1>0, <1>2, <2>1, StillIsQuiet DEF TokenRead, Waiting, TypeOK
  <2>2. CASE ~token
    BY <1>0, <1>2, <2>2 DEF TokenRead, ShowStep, Waiting, TypeOK
  <2> QED BY <2>1, <2>2
<1>3. ASSUME NEW c \in Calls, Answered(c)
      PROVE  ShowStep(c, "result") \/ ShowStep(c, "error")
  BY <1>0, <1>3 DEF Answered, ShowStep, Waiting, TypeOK
<1>4. ASSUME NEW c \in Calls, Unauthorized(c) PROVE QuietStep
  BY <1>4, StillIsQuiet DEF Unauthorized, Waiting
<1>5. ASSUME NEW c \in Calls, SessionExpired(c) PROVE ShowStep(c, "error")
  BY <1>0, <1>5 DEF SessionExpired, ShowStep, Waiting, TypeOK
<1>6. CASE ClickClose
  BY <1>6, ClosingIsQuiet DEF ClickClose
<1>7. CASE TokenChanges
  BY <1>0, <1>7, StillIsQuiet DEF TokenChanges, TypeOK
<1>8. ASSUME NEW t \in timers, FireClose(t) PROVE QuietStep
  BY <1>8, ClosingIsQuiet DEF FireClose
<1>9. CASE Tick
  BY <1>9, TickIsQuiet
<1>10. CASE UNCHANGED vars
  BY <1>0, <1>10, StillIsQuiet DEF vars, TypeOK
<1> QED BY <1>1, <1>2, <1>3, <1>4, <1>5, <1>6, <1>7, <1>8, <1>9, <1>10
        DEF Next, Advance, Fire, Kinds

\* What is shown is new, to the document, the callbacks and the observer.
LEMMA ShowFacts ==
  ASSUME TypeInv, NEW c \in Calls, NEW kind \in Kinds, ShowStep(c, kind)
  PROVE  /\ <<c, kind>> \in Overlays
         /\ <<c, kind>> \notin ToSet(page) \cup hasty
         /\ ~Leaving(<<c, kind>>)
         /\ page' \in Seq(Overlays) /\ IsInjective(page')
         /\ ToSet(page') = ToSet(page) \cup {<<c, kind>>}
         /\ Len(page') = Len(page) + 1
         /\ \A i \in 1..Len(page) : page'[i] = page[i]
         /\ page'[Len(page) + 1] = <<c, kind>>
         /\ timers' \subseteq Timer
         /\ \A t \in timers' :
              \/ t \in timers
              \/ t.does = "remove" /\ page # <<>> /\ t.el = Head(page)
              \/ t.does = "close" /\ t.el = <<c, kind>>
         /\ \A p : Leaving(p) \/ (page # <<>> /\ p = Head(page)) => Leaving(p)'
         /\ \A p : Leaving(p)' => Leaving(p) \/ (page # <<>> /\ p = Head(page))
<1> DEFINE o == <<c, kind>>
<1>1. TypeOK /\ o \in Overlays /\ o[1] = c /\ o[2] = kind
  BY DEF Overlays, TypeInv
<1>2. ~Shown(o)
  BY <1>1 DEF ShowStep, Goto, Waiting, Shown
<1>3. o \notin ToSet(page) \cup hasty /\ ~Leaving(o)
  BY <1>2 DEF TypeInv, ShownInOrder, Leaving
<1> HIDE DEF o
<1>4. /\ page' = Append(page, o)
      /\ timers' = timers \cup Removal \cup AutoClose(o)
  BY DEF ShowStep, Show, o
<1>5. /\ page' \in Seq(Overlays) /\ IsInjective(page')
      /\ ToSet(page') = ToSet(page) \cup {o}
      /\ Len(page') = Len(page) + 1
      /\ \A i \in 1..Len(page) : page'[i] = page[i]
      /\ page'[Len(page) + 1] = o
  BY <1>1, <1>3, <1>4, AppendFacts DEF TypeOK
<1>6. /\ timers' \subseteq Timer
      /\ \A t \in timers' :
           \/ t \in timers
           \/ t.does = "remove" /\ page # <<>> /\ t.el = Head(page)
           \/ t.does = "close" /\ t.el = o
  BY <1>1, <1>4, RemovalTypes, AutoCloseTypes DEF TypeOK
<1>7. \A p : Leaving(p) => Leaving(p)'
  BY <1>4 DEF Leaving
<1>8. \A p : page # <<>> /\ p = Head(page) => Leaving(p)'
  <2>1. page # <<>> => [does |-> "remove", el |-> Head(page), left |-> RemoveDelay] \in timers'
    BY <1>4 DEF Removal
  <2> QED BY <2>1 DEF Leaving
<1>9. \A p : Leaving(p)' => Leaving(p) \/ (page # <<>> /\ p = Head(page))
  BY <1>6 DEF Leaving
<1> QED BY <1>1, <1>3, <1>5, <1>6, <1>7, <1>8, <1>9 DEF o

-----------------------------------------------------------------------------
(* The invariant, kind of step by kind of step. *)

\* A call that goes on does not take back that it showed an overlay.
LEMMA ShownStays ==
  ASSUME TypeInv,
         \/ UNCHANGED phase
         \/ \E c \in Calls : \E from, to \in Waiting : Goto(c, from, to)
         \/ \E c \in Calls : Goto(c, "idle", "token")
         \/ \E c \in Calls : \E from \in Waiting : Goto(c, from, "done")
  PROVE  /\ phase' \in [Calls -> Waiting \cup {"idle", "done"}]
         /\ \A o \in Overlays : Shown(o) => Shown(o)'
<1>1. phase \in [Calls -> Waiting \cup {"idle", "done"}]
  BY DEF TypeInv, TypeOK
<1>2. \A o \in Overlays : o[1] \in Calls
  BY DEF Overlays
<1> QED BY <1>1, <1>2 DEF Shown, Goto, Waiting

\* The overlays of the document and of the callbacks are overlays.
LEMMA Members ==
  ASSUME TypeInv
  PROVE  /\ ToSet(page) \subseteq Overlays
         /\ IsFiniteSet(ToSet(page))
         /\ \A t \in timers : t.el \in Overlays
         /\ Len(page) \in Nat /\ DOMAIN page = 1..Len(page)
         /\ page # <<>> => Len(page) # 0 /\ Head(page) = page[1] /\ Head(page) \in ToSet(page)
         /\ page = <<>> => Len(page) = 0 /\ ToSet(page) = {}
<1>1. TypeOK /\ page \in Seq(Overlays)
  BY DEF TypeInv, TypeOK
<1>2. Len(page) \in Nat /\ DOMAIN page = 1..Len(page) /\ page \in [1..Len(page) -> Overlays]
  BY <1>1, LenProperties
<1>3. page \in Surjection(1..Len(page), ToSet(page))
  BY <1>2 DEF Surjection, ToSet
<1>4. IsFiniteSet(1..Len(page))
  BY <1>2, FS_Interval
<1>5. page # <<>> => Len(page) # 0 /\ Head(page) = page[1]
  BY <1>1, EmptySeq, HeadTailProperties
<1>6. page # <<>> => Head(page) \in ToSet(page)
  BY <1>1, RemovalTypes
<1>7. page = <<>> => Len(page) = 0 /\ ToSet(page) = {}
  BY <1>2 DEF ToSet
<1>8. \A t \in timers : t.el \in Overlays
  BY <1>1 DEF TypeOK, Timer
<1>9. ToSet(page) \subseteq Overlays
  BY <1>2 DEF ToSet
<1> QED BY <1>2, <1>3, <1>4, <1>5, <1>6, <1>7, <1>8, <1>9, FS_Surjection

\* Showing an overlay keeps the types.
LEMMA ShowTypes ==
  ASSUME TypeInv, NEW c \in Calls, NEW kind \in Kinds, ShowStep(c, kind)
  PROVE  TypeInv'
<1> DEFINE o == <<c, kind>>
<1>1. o[1] = c /\ o[2] = kind /\ TypeOK
  BY DEF TypeInv
<1>2. /\ phase' \in [Calls -> Waiting \cup {"idle", "done"}]
      /\ \A p \in Overlays : Shown(p) => Shown(p)'
  BY ShownStays DEF ShowStep
<1>3. Shown(o)'
  BY <1>1 DEF ShowStep, Goto, Shown, TypeOK, Waiting
<1> HIDE DEF o
<1>4. /\ o \in Overlays
      /\ page' \in Seq(Overlays) /\ IsInjective(page')
      /\ ToSet(page') = ToSet(page) \cup {o}
      /\ timers' \subseteq Timer
      /\ \A t \in timers' :
           \/ t \in timers
           \/ t.does = "remove" /\ page # <<>> /\ t.el = Head(page)
           \/ t.does = "close" /\ t.el = o
  BY ShowFacts DEF o
<1>5. hasty' \subseteq hasty \cup {o} /\ token' \in BOOLEAN
  BY DEF ShowStep, Show, o
<1>6. TypeOK'
  BY <1>1, <1>2, <1>4, <1>5 DEF TypeOK
<1>7. \A p \in ToSet(page) \cup hasty : p \in Overlays /\ Shown(p)
  BY <1>1, Members DEF TypeInv, ShownInOrder, TypeOK
<1>8. \A t \in timers : t.el \in Overlays /\ Shown(t.el)
  BY Members DEF TypeInv, ShownInOrder
<1>9. \A p \in ToSet(page') \cup hasty' : Shown(p)'
  BY <1>2, <1>3, <1>4, <1>5, <1>7
<1>10. \A t \in timers' : Shown(t.el)'
  BY <1>2, <1>3, <1>4, <1>7, <1>8, Members
<1> QED BY <1>6, <1>9, <1>10 DEF TypeInv, ShownInOrder

\* So does every other step.
LEMMA OtherTypes ==
  ASSUME TypeInv, QuietStep \/ \E t \in timers : FireRemove(t)
  PROVE  TypeInv'
<1>1. TypeOK /\ ShownInOrder
  BY DEF TypeInv
<1>2. CASE QuietStep
  <2>1. /\ phase' \in [Calls -> Waiting \cup {"idle", "done"}]
        /\ \A p \in Overlays : Shown(p) => Shown(p)'
    BY <1>2, ShownStays DEF QuietStep
  <2>2. TypeOK'
    BY <1>1, <1>2, <2>1 DEF QuietStep, TypeOK
  <2>3. \A p \in ToSet(page) \cup hasty : Shown(p)'
    BY <1>1, <2>1, Members DEF ShownInOrder, TypeOK
  <2>4. \A t \in timers' : Shown(t.el)'
    <3> SUFFICES ASSUME NEW t \in timers' PROVE Shown(t.el)'
      OBVIOUS
    <3>1. t.el \in ToSet(page) \/ \E u \in timers : t.el = u.el
      BY <1>2 DEF QuietStep
    <3>2. \A u \in timers : Shown(u.el)'
      BY <1>1, <2>1, Members DEF ShownInOrder
    <3> QED BY <3>1, <3>2, <2>3
  <2> QED BY <1>2, <2>2, <2>3, <2>4 DEF TypeInv, ShownInOrder, QuietStep
<1>3. ASSUME NEW t \in timers, FireRemove(t) PROVE TypeInv'
  <2>1. /\ page' \in Seq(Overlays) /\ IsInjective(page')
        /\ ToSet(page') = ToSet(page) \ {t.el}
    BY <1>1, <1>3, WithoutFacts DEF TypeOK, FireRemove
  <2>2. TypeOK'
    BY <1>1, <1>3, <2>1 DEF FireRemove, TypeOK
  <2> QED BY <1>1, <1>3, <2>1, <2>2 DEF TypeInv, ShownInOrder, FireRemove, Shown
<1> QED BY <1>2, <1>3

\* Only the first overlay slides out, so a removal takes out the first or none.
LEMMA RemoveFacts ==
  ASSUME TypeInv, FirstLeaves, NEW t \in timers, FireRemove(t)
  PROVE  /\ page' \in Seq(Overlays)
         /\ ToSet(page') = ToSet(page) \ {t.el}
         /\ \/ UNCHANGED page
            \/ /\ page # <<>> /\ t.el = Head(page)
               /\ Len(page') = Len(page) - 1
               /\ \A i \in 1..(Len(page) - 1) : page'[i] = page[i + 1]
         /\ \A p : Leaving(p)' => Leaving(p)
         /\ \A p : p # t.el /\ Leaving(p) => Leaving(p)'
<1>1. page \in Seq(Overlays) /\ IsInjective(page)
  BY DEF TypeInv, TypeOK
<1>2. page' = Without(t.el) /\ Leaving(t.el) /\ timers' = timers \ {t}
  BY DEF FireRemove, Leaving
<1>3. \A p : Leaving(p)' => Leaving(p)
  BY <1>2 DEF Leaving
<1>4. \A p : p # t.el /\ Leaving(p) => Leaving(p)'
  BY <1>2 DEF Leaving
<1>5. t.el \in ToSet(page) => page # <<>> /\ t.el = Head(page)
  BY <1>2, Members DEF FirstLeaves
<1> QED BY <1>1, <1>2, <1>3, <1>4, <1>5, WithoutFacts

\* The slide-outs stay in the order of the document.
LEMMA FirstLeavesStep ==
  ASSUME TypeInv, FirstLeaves, [Next]_vars
  PROVE  FirstLeaves'
<1>1. ASSUME NEW c \in Calls, NEW kind \in Kinds, ShowStep(c, kind)
      PROVE  FirstLeaves'
  <2> SUFFICES ASSUME NEW p \in ToSet(page'), Leaving(p)' PROVE p = Head(page')
    BY DEF FirstLeaves
  <2>1. page # <<>> /\ p = Head(page)
    <3>1. Leaving(p) \/ (page # <<>> /\ p = Head(page))
      BY <1>1, ShowFacts
    <3>2. Leaving(p) => p \in ToSet(page)
      BY <1>1, ShowFacts
    <3>3. Leaving(p) => page # <<>> /\ p = Head(page)
      BY <3>2, Members DEF FirstLeaves
    <3> QED BY <3>1, <3>3
  <2>2. Len(page) \in Nat /\ Len(page) # 0 /\ Head(page) = page[1]
    BY <2>1, Members
  <2>3. /\ page' \in Seq(Overlays) /\ Len(page') = Len(page) + 1
        /\ \A i \in 1..Len(page) : page'[i] = page[i]
    BY <1>1, ShowFacts
  <2>4. Head(page') = page'[1]
    BY <2>2, <2>3, EmptySeq, HeadTailProperties
  <2>5. page'[1] = page[1]
    BY <2>2, <2>3
  <2> QED BY <2>1, <2>2, <2>4, <2>5
<1>2. ASSUME NEW t \in timers, FireRemove(t) PROVE FirstLeaves'
  <2>1. /\ ToSet(page') = ToSet(page) \ {t.el}
        /\ \/ UNCHANGED page
           \/ page # <<>> /\ t.el = Head(page)
        /\ \A p : Leaving(p)' => Leaving(p)
    BY <1>2, RemoveFacts
  <2> QED BY <2>1 DEF FirstLeaves
<1>3. CASE QuietStep
  BY <1>3 DEF QuietStep, FirstLeaves
<1> QED BY <1>1, <1>2, <1>3, StepKinds

\* A call that is over took its answer to the end of the document.
LEMMA AnswersBehindStep ==
  ASSUME TypeInv, FirstLeaves, AnswersBehind, [Next]_vars
  PROVE  AnswersBehind'
<1> DEFINE n == Len(page)
<1>0. /\ page \in Seq(Overlays) /\ n \in Nat /\ DOMAIN page = 1..n
      /\ \A i \in 1..n : page[i] \in Overlays /\ page[i][1] \in Calls
  BY Members, LenProperties DEF TypeInv, TypeOK, Overlays
<1>1. ASSUME NEW c \in Calls, NEW kind \in Kinds, ShowStep(c, kind)
      PROVE  AnswersBehind'
  <2>1. /\ page' \in Seq(Overlays) /\ Len(page') = n + 1
        /\ \A i \in 1..n : page'[i] = page[i]
        /\ page'[n + 1] = <<c, kind>>
    BY <1>1, ShowFacts
  <2>2. DOMAIN page' = 1..(n + 1)
    BY <2>1, LenProperties
  <2> HIDE DEF n
  <2>3. phase \in [Calls -> Waiting \cup {"idle", "done"}]
    BY DEF TypeInv, TypeOK
  <2>4. \A d \in Calls : d # c => phase'[d] = phase[d]
    BY <1>1, <2>3 DEF ShowStep, Goto
  <2> SUFFICES ASSUME NEW i \in 1..(n + 1), page'[i][2] = "loading",
                      phase'[page'[i][1]] \notin Waiting
               PROVE  \E j \in 1..(n + 1) :
                        i < j /\ \E k \in {"error", "result"} : page'[j] = <<page'[i][1], k>>
    BY <2>2 DEF AnswersBehind
  <2>5. CASE i = n + 1
    <3>1. kind = "loading" /\ phase'[c] = "token"
      BY <1>1, <2>1, <2>3, <2>5 DEF ShowStep, Goto
    <3> QED BY <2>1, <2>5, <3>1 DEF Waiting
  <2>6. CASE i \in 1..n /\ page[i][1] = c
    <3>1. kind \in {"error", "result"}
      <4>1. Shown(page[i])
        BY <1>0, <2>6 DEF TypeInv, ShownInOrder, ToSet
      <4> QED BY <1>1, <2>6, <4>1 DEF ShowStep, Goto, Shown
    <3>2. n + 1 \in 1..(n + 1) /\ i < n + 1
      BY <1>0, <2>6
    <3> QED BY <2>1, <2>6, <3>1, <3>2
  <2>7. CASE i \in 1..n /\ page[i][1] # c
    <3>1. page'[i] = page[i] /\ phase[page[i][1]] \notin Waiting
      BY <1>0, <2>1, <2>4, <2>7
    <3>2. PICK j \in 1..n : i < j /\ \E k \in {"error", "result"} : page[j] = <<page[i][1], k>>
      BY <1>0, <2>7, <3>1 DEF AnswersBehind
    <3>3. j \in 1..(n + 1) /\ page'[j] = page[j]
      BY <1>0, <2>1
    <3> QED BY <3>1, <3>2, <3>3
  <2> QED BY <1>0, <2>5, <2>6, <2>7
<1>2. ASSUME NEW t \in timers, FireRemove(t) PROVE AnswersBehind'
  <2>1. CASE UNCHANGED page
    BY <1>2, <2>1 DEF FireRemove, AnswersBehind
  <2>2. CASE page' # page
    <3>1. /\ page' \in Seq(Overlays) /\ Len(page') = n - 1 /\ n # 0
          /\ \A i \in 1..(n - 1) : page'[i] = page[i + 1]
      BY <1>2, <2>2, RemoveFacts, Members
    <3>2. DOMAIN page' = 1..(n - 1)
      BY <3>1, LenProperties
    <3> HIDE DEF n
    <3> SUFFICES ASSUME NEW i \in 1..(n - 1), page'[i][2] = "loading",
                        phase[page'[i][1]] \notin Waiting
                 PROVE  \E j \in 1..(n - 1) :
                          i < j /\ \E k \in {"error", "result"} : page'[j] = <<page'[i][1], k>>
      BY <1>2, <3>2 DEF AnswersBehind, FireRemove
    <3>3. i + 1 \in 1..n /\ page'[i] = page[i + 1]
      BY <1>0, <3>1
    <3>4. PICK j \in 1..n :
            i + 1 < j /\ \E k \in {"error", "result"} : page[j] = <<page[i + 1][1], k>>
      BY <1>0, <3>3 DEF AnswersBehind
    <3>5. j - 1 \in 1..(n - 1) /\ i < j - 1 /\ (j - 1) + 1 = j
      BY <1>0, <3>4
    <3>6. page'[j - 1] = page[j]
      BY <3>1, <3>5
    <3> QED BY <3>3, <3>4, <3>5, <3>6
  <2> QED BY <2>1, <2>2
<1>3. CASE QuietStep
  <2>1. UNCHANGED page
    BY <1>3 DEF QuietStep
  <2>2. ASSUME NEW d \in Calls, phase'[d] \notin Waiting PROVE phase[d] \notin Waiting
    BY <1>3, <2>2 DEF QuietStep, Goto, TypeInv, TypeOK
  <2> QED BY <1>0, <2>1, <2>2 DEF AnswersBehind
<1> QED BY <1>1, <1>2, <1>3, StepKinds

-----------------------------------------------------------------------------
(* Counting the overlays that nothing takes down. *)

\* Without a haste the overlay that is shown takes the place of the first.
LEMMA ReplacingKeepsTheCount ==
  ASSUME TypeInv, FirstLeaves, NEW o, o \notin ToSet(page),
         ToSet(page') = ToSet(page) \cup {o},
         \A p : page # <<>> /\ p = Head(page) => Leaving(p)',
         \A p \in ToSet(page) : ~Leaving(p)
  PROVE  /\ IsFiniteSet(Open') /\ IsFiniteSet(Open)
         /\ Cardinality(Open') <= 1 \/ Cardinality(Open') <= Cardinality(Open)
<1>1. Open = ToSet(page) /\ IsFiniteSet(Open)
  BY Members DEF Open
<1>2. CASE page = <<>>
  <2>1. Open' \subseteq {o}
    BY <1>2, Members DEF Open
  <2>2. IsFiniteSet({o}) /\ Cardinality({o}) = 1
    BY FS_Singleton
  <2>3. IsFiniteSet(Open') /\ Cardinality(Open') <= Cardinality({o})
    BY <2>1, <2>2, FS_Subset
  <2> QED BY <1>1, <2>2, <2>3
<1>3. CASE page # <<>>
  <2> DEFINE rest == Open \ {Head(page)}
  <2>1. Head(page) \in Open
    BY <1>1, <1>3, Members
  <2>2. IsFiniteSet(rest) /\ Cardinality(rest) = Cardinality(Open) - 1
    BY <1>1, <2>1, FS_RemoveElement
  <2>3. o \notin rest
    BY <1>1
  <2>4. Open' \subseteq rest \cup {o}
    BY <1>1, <1>3 DEF Open
  <2> HIDE DEF rest
  <2>5. IsFiniteSet(rest \cup {o}) /\ Cardinality(rest \cup {o}) = Cardinality(rest) + 1
    BY <2>2, <2>3, FS_AddElement
  <2>6. IsFiniteSet(Open') /\ Cardinality(Open') <= Cardinality(rest \cup {o})
    BY <2>4, <2>5, FS_Subset
  <2>7. Cardinality(Open) \in Nat /\ Cardinality(Open') \in Nat
    BY <1>1, <2>6, FS_CardinalityType
  <2> QED BY <1>1, <2>2, <2>5, <2>6, <2>7
<1> QED BY <1>2, <1>3

\* An overlay is left behind only where the observer counts a haste for it.
LEMMA StraysStep ==
  ASSUME TypeInv, FirstLeaves, StraysInv, [Next]_vars
  PROVE  StraysInv'
<1>0. /\ IsFiniteSet(Open) /\ Cardinality(Open) \in Nat
      /\ IsFiniteSet(hasty) /\ Cardinality(hasty) \in Nat
      /\ Cardinality(Open) <= 1 + Cardinality(hasty)
  <2>1. Open \subseteq ToSet(page)
    BY DEF Open
  <2>2. IsFiniteSet(Open)
    BY <2>1, Members, FS_Subset
  <2> QED BY <2>2, FS_CardinalityType DEF StraysInv, StraysAreHasty
<1>1. ASSUME NEW c \in Calls, NEW kind \in Kinds, ShowStep(c, kind)
      PROVE  StraysInv'
  <2> DEFINE o == <<c, kind>>
  <2>1. /\ o \notin ToSet(page) /\ o \notin hasty
        /\ ToSet(page') = ToSet(page) \cup {o}
        /\ \A p : Leaving(p) \/ (page # <<>> /\ p = Head(page)) => Leaving(p)'
    BY <1>1, ShowFacts
  <2>2. hasty' = IF \E p \in ToSet(page) : Leaving(p) THEN hasty \cup {o} ELSE hasty
    BY <1>1 DEF ShowStep, Show
  <2> HIDE DEF o
  <2>3. CASE \A p \in ToSet(page) : ~Leaving(p)
    <3>1. hasty' = hasty
      BY <2>2, <2>3
    <3>2. /\ IsFiniteSet(Open')
          /\ Cardinality(Open') <= 1 \/ Cardinality(Open') <= Cardinality(Open)
      BY <2>1, <2>3, ReplacingKeepsTheCount
    <3>3. Cardinality(Open') \in Nat
      BY <3>2, FS_CardinalityType
    <3>4. Cardinality(Open') <= 1 + Cardinality(hasty)
      BY <1>0, <3>2, <3>3
    <3> QED BY <1>0, <3>1, <3>4 DEF StraysInv, StraysAreHasty
  <2>4. CASE \E p \in ToSet(page) : Leaving(p)
    <3>1. hasty' = hasty \cup {o}
      BY <2>2, <2>4
    <3>2. IsFiniteSet(hasty') /\ Cardinality(hasty') = Cardinality(hasty) + 1
      BY <1>0, <2>1, <3>1, FS_AddElement
    <3>3. Open' \subseteq Open \cup {o}
      BY <2>1 DEF Open
    <3>4. /\ IsFiniteSet(Open \cup {o})
          /\ Cardinality(Open \cup {o}) <= Cardinality(Open) + 1
          /\ Cardinality(Open \cup {o}) \in Nat
      <4>1. /\ IsFiniteSet(Open \cup {o})
            /\ Cardinality(Open \cup {o}) =
                 IF o \in Open THEN Cardinality(Open) ELSE Cardinality(Open) + 1
        BY <1>0, FS_AddElement
      <4> QED BY <1>0, <4>1
    <3>5. /\ Cardinality(Open') <= Cardinality(Open \cup {o})
          /\ Cardinality(Open') \in Nat
      BY <3>3, <3>4, FS_Subset, FS_CardinalityType
    <3> QED BY <1>0, <3>2, <3>4, <3>5 DEF StraysInv, StraysAreHasty
  <2> QED BY <2>3, <2>4
<1>2. ASSUME Open' \subseteq Open, hasty' = hasty PROVE StraysInv'
  <2>1. Cardinality(Open') <= Cardinality(Open) /\ Cardinality(Open') \in Nat
    BY <1>0, <1>2, FS_Subset, FS_CardinalityType
  <2> QED BY <1>0, <1>2, <2>1 DEF StraysInv, StraysAreHasty
<1>3. ASSUME NEW t \in timers, FireRemove(t) PROVE StraysInv'
  <2>1. /\ ToSet(page') = ToSet(page) \ {t.el}
        /\ \A p : p # t.el /\ Leaving(p) => Leaving(p)'
    BY <1>3, RemoveFacts
  <2>2. Open' \subseteq Open
    BY <2>1 DEF Open
  <2> QED BY <1>2, <1>3, <2>2 DEF FireRemove
<1>4. CASE QuietStep
  <2>1. page' = page /\ hasty' = hasty /\ \A p : Leaving(p) => Leaving(p)'
    BY <1>4 DEF QuietStep
  <2>2. Open' \subseteq Open
    BY <2>1 DEF Open
  <2> QED BY <1>2, <2>1, <2>2
<1> QED BY <1>1, <1>3, <1>4, StepKinds

-----------------------------------------------------------------------------
(* The theorems. *)

LEMMA PageInit == Init => PageInv
<1> SUFFICES ASSUME Init PROVE PageInv
  OBVIOUS
<1>1. ToSet(page) = {} /\ page \in Seq(Overlays) /\ IsInjective(page) /\ DOMAIN page = {}
  BY DEF Init, ToSet, IsInjective
<1>2. TypeInv
  BY <1>1 DEF Init, TypeInv, TypeOK, ShownInOrder
<1>3. FirstLeaves /\ AnswersBehind
  BY <1>1 DEF FirstLeaves, AnswersBehind
<1>4. StraysInv
  <2>1. Open = {} /\ hasty = {}
    BY <1>1 DEF Open, Init
  <2> QED BY <2>1, FS_EmptySet DEF StraysInv, StraysAreHasty
<1> QED BY <1>2, <1>3, <1>4 DEF PageInv

LEMMA PageStep == PageInv /\ [Next]_vars => PageInv'
<1> SUFFICES ASSUME PageInv, [Next]_vars PROVE PageInv'
  OBVIOUS
<1>1. TypeInv /\ FirstLeaves /\ AnswersBehind /\ StraysInv
  BY DEF PageInv
<1>2. TypeInv'
  <2>1. ASSUME NEW c \in Calls, NEW kind \in Kinds, ShowStep(c, kind) PROVE TypeInv'
    BY <1>1, <2>1, ShowTypes
  <2>2. ASSUME QuietStep \/ \E t \in timers : FireRemove(t) PROVE TypeInv'
    BY <1>1, <2>2, OtherTypes
  <2> QED BY <1>1, <2>1, <2>2, StepKinds
<1> QED BY <1>1, <1>2, FirstLeavesStep, AnswersBehindStep, StraysStep DEF PageInv

LEMMA PageCorrect == Spec => []PageInv
  BY PageInit, PageStep, PTL DEF Spec

\* Every variable has its type: in particular an overlay that is shown is not
\* in the document already.
THEOREM TypeCorrect == Spec => []TypeOK
<1>1. PageInv => TypeOK
  BY DEF PageInv, TypeInv
<1> QED BY <1>1, PageCorrect, PTL

\* Whatever the user does, createOverlayShell leaves an overlay standing only
\* when it is called while another slides out, and then one at most.
THEOREM StraysCorrect == Spec => []StraysAreHasty
<1>1. PageInv => StraysAreHasty
  BY DEF PageInv, StraysInv
<1> QED BY <1>1, PageCorrect, PTL

\* Whatever the user does, no call is over and leaves its spinner without its
\* answer: the answer stands behind it, and overlays leave from the front.
THEOREM AnswersCorrect == Spec => []SpinnersAreAnswered
<1>1. PageInv => SpinnersAreAnswered
  <2> SUFFICES ASSUME PageInv, NEW o \in ToSet(page), o[2] = "loading",
                      phase[o[1]] \notin Waiting
               PROVE  \E kind \in {"error", "result"} : <<o[1], kind>> \in ToSet(page)
    BY DEF SpinnersAreAnswered
  <2>1. PICK i \in DOMAIN page : page[i] = o
    BY DEF ToSet
  <2>2. PICK j \in DOMAIN page : \E kind \in {"error", "result"} : page[j] = <<o[1], kind>>
    BY <2>1 DEF PageInv, AnswersBehind
  <2> QED BY <2>2 DEF ToSet
<1> QED BY <1>1, PageCorrect, PTL
=============================================================================
