-------------------------- MODULE EvidenceAggregator --------------------------
(***************************************************************************)
(* The functions of app/services/retrieval/evidence_aggregator.py.         *)
(*                                                                         *)
(* A text is a sequence of characters of a small alphabet: capitals and    *)
(* what they become in lower case, full stops, newlines, blanks, a digit   *)
(* and boilerplate phrases, each of them one character long.  Lengths are  *)
(* scaled, and scores are doubled to stay integers.                        *)
(***************************************************************************)
EXTENDS Integers, SequencesExt

CONSTANTS
  Alphabet,       \* the characters
  LowerOf,        \* LowerOf[c]: a capital in lower case
  Phrases,        \* the boilerplate phrases
  MaxTokens,      \* max_evidence_tokens
  MinFocused, MaxFocused, MaxLong     \* 50, 500 and 1000 characters

Text == Seq(Alphabet)
White == {" ", "nl"}
Stop == {".", "!", "?"}
Digits == {"1"}
BlankLine == <<"nl", "nl">>

ASSUME AggregatorAssumption ==
  /\ White \cup Stop \subseteq Alphabet
  /\ \A c \in DOMAIN LowerOf : LowerOf[c] \in Alphabet
  /\ IsFiniteSet(Phrases)
  /\ MaxTokens \in Nat \ {0}
  /\ {MinFocused, MaxFocused, MaxLong} \subseteq Nat
  /\ MinFocused <= MaxFocused /\ MaxFocused <= MaxLong

-----------------------------------------------------------------------------
(* Sequences of positions, and str. *)

\* The members of positions, in order.
InOrder(positions) ==
  [n \in 1..Cardinality(positions) |->
     CHOOSE i \in positions : Cardinality({j \in positions : j < i}) = n - 1]

\* The elements of list at the given positions.
Keep(list, positions) == [n \in 1..Cardinality(positions) |-> list[InOrder(positions)[n]]]

\* The number of elements of the first n lists.
Extent(lists, n) == Cardinality(UNION {{m} \X DOMAIN lists[m] : m \in 1..n})

\* The elements of all lists, one list after the other.
Concat(lists) ==
  LET from(i) == CHOOSE n \in DOMAIN lists : i \in (Extent(lists, n - 1) + 1)..Extent(lists, n)
  IN  [i \in 1..Extent(lists, Len(lists)) |-> lists[from(i)][i - Extent(lists, from(i) - 1)]]

\* list sorted by a strict total order on its positions.
Sorted(list, Before(_, _)) ==
  [n \in DOMAIN list |->
     list[CHOOSE i \in DOMAIN list : Cardinality({j \in DOMAIN list : Before(j, i)}) = n - 1]]

Lower(text) == [i \in DOMAIN text |-> IF text[i] \in DOMAIN LowerOf THEN LowerOf[text[i]] ELSE text[i]]

\* Offsets are those of Python: text[from:to].
Slice(text, from, to) == SubSeq(text, from + 1, IF to > Len(text) THEN Len(text) ELSE to)

\* The offsets at which s occurs in text.
Occurrences(s, text) == {i \in 0..(Len(text) - Len(s)) : Slice(text, i, i + Len(s)) = s}

In(s, text) == Occurrences(s, text) # {}

Find(s, text) == IF In(s, text) THEN Min(Occurrences(s, text)) ELSE -1

RFind(s, text) == IF In(s, text) THEN Max(Occurrences(s, text)) ELSE -1

Strip(text) ==
  LET ink == {i \in DOMAIN text : text[i] \notin White}
  IN  IF ink = {} THEN <<>> ELSE SubSeq(text, Min(ink), Max(ink))

\* The pieces of text between the characters at the positions in cuts, none of them empty.
Pieces(text, cuts) ==
  LET starts == {i \in DOMAIN text \ cuts : i = 1 \/ i - 1 \in cuts}
      end(i) == CHOOSE j \in DOMAIN text : j >= i /\ (i..j) \cap cuts = {}
                                           /\ (j = Len(text) \/ j + 1 \in cuts)
      order == InOrder(starts)
  IN  [n \in 1..Cardinality(starts) |-> SubSeq(text, order[n], end(order[n]))]

Join(separator, texts) ==
  Concat([n \in DOMAIN texts |-> IF n < Len(texts) THEN texts[n] \o separator ELSE texts[n]])

-----------------------------------------------------------------------------
(* aggregate *)

\* split("\n\n"), each part stripped, the empty ones dropped.
Parts(item) ==
  LET newline(i) == i \in DOMAIN item /\ item[i] = "nl"
      cuts == {i \in DOMAIN item : newline(i) /\ (newline(i - 1) \/ newline(i + 1))}
      parts == [n \in DOMAIN Pieces(item, cuts) |-> Strip(Pieces(item, cuts)[n])]
  IN  Keep(parts, {n \in DOMAIN parts : parts[n] # <<>>})

\* Lower case, every run of white space one blank, punctuation dropped.
Norm(text) ==
  LET low == Lower(Strip(text))
      blanked == [i \in DOMAIN low |-> IF low[i] \in White THEN " " ELSE low[i]]
      kept == {i \in DOMAIN low : /\ low[i] \notin Stop
                                  /\ low[i] \in White => low[i - 1] \notin White}
  IN  Keep(blanked, kept)

\* s lies in t and is shorter.
Within(s, t) == Len(s) < Len(t) /\ In(s, t)

\* Mutant: if A contains B, A is dropped.
DropsTheLonger(list) ==
  LET norm == [i \in DOMAIN list |-> Norm(list[i])]
      kept == {i \in DOMAIN list : /\ \A j \in 1..(i - 1) : norm[j] # norm[i]
                                   /\ \A j \in DOMAIN list : ~Within(norm[j], norm[i])}
  IN  Keep(list, kept)

\* The first of equal snippets, unless it lies within another.
Deduplicate(list) ==
  LET norm == [i \in DOMAIN list |-> Norm(list[i])]
      kept == {i \in DOMAIN list : /\ \A j \in 1..(i - 1) : norm[j] # norm[i]
                                   /\ \A j \in DOMAIN list : ~Within(norm[i], norm[j])}
  IN  Keep(list, kept)

\* Twice the score of a snippet.
Score(text) ==
  LET length == CASE Len(text) < MinFocused -> 1
                  [] Len(text) \in MinFocused..MaxFocused -> 6
                  [] Len(text) \in (MaxFocused + 1)..MaxLong -> 4
                  [] OTHER -> 2
      boilerplate == 2 * Cardinality(Phrases \cap ToSet(Lower(text)))
      number == IF Digits \cap ToSet(text) # {} THEN 1 ELSE 0
  IN  length - boilerplate + number

\* Mutant: ascending.
WorstFirst(list) ==
  LET before(i, j) == Score(list[i]) < Score(list[j]) \/ (Score(list[i]) = Score(list[j]) /\ i < j)
  IN  Sorted(list, before)

\* A stable sort, the best first.
RankEvidence(list) ==
  LET before(i, j) == Score(list[i]) > Score(list[j]) \/ (Score(list[i]) = Score(list[j]) /\ i < j)
  IN  Sorted(list, before)

Limit == 4 * MaxTokens
Tokens(text) == Len(text) \div 4

\* What fits, up to the last sentence or line that ends in its second half.
TrimToBudget(text) ==
  LET trimmed == Slice(text, 0, Limit)
      cut == Max({RFind(<<".">>, trimmed), RFind(<<"nl">>, trimmed)})
  IN  CASE Tokens(text) <= MaxTokens -> text
        [] Tokens(text) > MaxTokens /\ 2 * cut > Limit -> Strip(Slice(trimmed, 0, cut + 1))
        [] OTHER -> Strip(trimmed)

Flatten(items) == Concat([n \in DOMAIN items |-> Parts(items[n])])

Aggregate(items) == TrimToBudget(Join(BlankLine, RankEvidence(Deduplicate(Flatten(items)))))
=============================================================================
