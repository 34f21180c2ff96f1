------------------------------- MODULE Detection -------------------------------
(***************************************************************************)
(* The detection layer (src/detection/): which spans of a text look like a *)
(* secret, and the text with those spans replaced by a marker.  The        *)
(* selector scans the text once per provider: after each match it resumes  *)
(* at the next character, unless the pattern is unbounded and the scan has *)
(* used up its budget, when every further match is taken without the       *)
(* entropy gate and widened.  The spans of all providers are then merged   *)
(* and spliced out in one pass.                                            *)
(*                                                                         *)
(* A text is a sequence of a few letters, and three patterns stand for the *)
(* table, one for each way the selector treats a provider: of bounded      *)
(* length (access key ids), unbounded with an entropy window (tokens in    *)
(* dotted segments), unbounded and always redacted (key blocks).           *)
(***************************************************************************)
EXTENDS Integers, Sequences, FiniteSets, SequencesExt

CONSTANTS Texts,         \* the texts scanned, of the letters below
          Budgets,       \* scan budgets: a multiple of the text's length, in the code
          HighEntropy(_) \* whether a text reaches the entropy threshold

(* The letters: "g" begins an access key id, "k." a segmented token, and     *)
(* "[" and "]" enclose a key block; the body of a key is made of Word.       *)
Word   == {"g", "k", "a"}
Letter == Word \cup {".", "[", "]"}

ASSUME ScanAssumption == Texts \subseteq Seq(Letter) /\ Budgets \subseteq Nat

VARIABLES
  text,      \* the text in hand
  pattern,   \* the provider's pattern being scanned for, or one past the last
  pos,       \* where the scan resumes
  limit,     \* the scan budget of this text
  budget,    \* what is left of it for this provider
  closed,    \* has the budget run out?
  exhausted, \* ghost: has the budget run out for some provider?
  spans,     \* spans accepted so far
  sorted,    \* the spans still to be spliced out, which are taken in order
  open,      \* the span being merged, or NoSpan
  cursor,    \* the text before this position is in out
  out        \* the sanitized text: positions kept and markers

dvars == <<text, limit, pattern, pos, budget, closed, exhausted, spans, sorted, open, cursor, out>>

------------------------------------------------------------------------------
(* The table of patterns.                                                    *)
BoundedKey == 1
Segments   == 2
KeyBlock   == 3
Provider   == 1..3

REDACT_ONLY_PROVIDERS   == {Segments}
ALWAYS_REDACT_PROVIDERS == {KeyBlock}
ENTROPY_WINDOWS == [p \in {Segments} |-> 3]

(* PatternShape, derived from a pattern by the analyser: whether the matches *)
(* of a pattern are short enough to be retried at every character, and every *)
(* letter that may occur in a match, which is all where the analyser does    *)
(* not understand the pattern.                                               *)
IsBounded(p) == p = BoundedKey
Alphabet(p)  == IF p = KeyBlock THEN Letter ELSE Word \cup {"."}

(* The last position of the run of letters from L that begins at i, i-1 when *)
(* it is empty.                                                              *)
RunEnd(s, L, i) ==
  CHOOSE j \in (i - 1)..Len(s) :
    /\ \A n \in i..j : s[n] \in L
    /\ j = Len(s) \/ s[j + 1] \notin L

(* The last position of the match of p that begins at i, 0 when there is     *)
(* none: two characters after the prefix; one or more; up to the first end   *)
(* marker or else the end of the text.                                       *)
MatchEnd(s, p, i) ==
  CASE p = BoundedKey ->
         IF s[i] = "g" /\ RunEnd(s, Word, i) >= i + 2 THEN i + 2 ELSE 0
    [] p = Segments ->
         IF s[i] = "k" /\ i + 2 <= Len(s) /\ s[i + 1] = "." /\ s[i + 2] \in Word
         THEN RunEnd(s, Word, i + 2) ELSE 0
    [] p = KeyBlock ->
         IF s[i] = "[" THEN LET e == RunEnd(s, Alphabet(KeyBlock) \ {"]"}, i)
                            IN IF e = Len(s) THEN e ELSE e + 1
         ELSE 0

(* gate_entropy: the whole match, or the best window of the least length.    *)
Gate(s, p) ==
  \/ HighEntropy(s)
  \/ /\ p \in DOMAIN ENTROPY_WINDOWS
     /\ \E i \in 1..(Len(s) - ENTROPY_WINDOWS[p] + 1) :
          HighEntropy(SubSeq(s, i, i + ENTROPY_WINDOWS[p] - 1))

Accepted(s, p) == p \in ALWAYS_REDACT_PROVIDERS \/ Gate(s, p)

------------------------------------------------------------------------------
(* select: one action per turn of its loop.                                  *)
NoSpan == [start |-> 0, end |-> 0, idx |-> 0]

DetectionInit ==
  /\ text \in Texts /\ limit \in Budgets /\ budget = limit
  /\ pattern = 1 /\ pos = 1 /\ closed = FALSE /\ exhausted = FALSE
  /\ spans = {} /\ sorted = {} /\ open = NoSpan
  /\ cursor = 1 /\ out = <<>>

Starts == {i \in pos..Len(text) : MatchEnd(text, pattern, i) # 0}

(* find_at: the leftmost match from pos on. *)
find_at == CHOOSE i \in Starts : \A j \in Starts : i <= j

Found   == [start |-> find_at, end |-> MatchEnd(text, pattern, find_at), idx |-> pattern]
Cost(m) == (m.end + 1 - pos) + (m.end + 1 - m.start)
Spent   == ~IsBounded(pattern) /\ (closed \/ budget < Cost(Found))

Scanning == pattern \in Provider /\ Starts # {}

Select ==
  /\ Scanning /\ ~Spent
  /\ budget' = IF IsBounded(pattern) THEN budget ELSE budget - Cost(Found)
  /\ spans' = IF Accepted(SubSeq(text, Found.start, Found.end), pattern)
              THEN spans \cup {Found} ELSE spans
  /\ pos' = Found.start + 1
  /\ UNCHANGED <<text, limit, pattern, closed, exhausted, sorted, open, cursor, out>>

(* The end of the run of the pattern's alphabet. *)
run_end == RunEnd(text, Alphabet(pattern), Found.end + 1)

(* The budget is spent: no gate, and the scan resumes after the run. *)
SelectClosed ==
  /\ Scanning /\ Spent
  /\ spans' = spans \cup {[Found EXCEPT !.end = run_end]}
  /\ pos' = run_end + 1
  /\ closed' = TRUE /\ exhausted' = TRUE
  /\ UNCHANGED <<text, limit, pattern, budget, sorted, open, cursor, out>>

(* The next provider, with a budget of its own. *)
NextProvider ==
  /\ pattern \in Provider /\ Starts = {}
  /\ pattern' = pattern + 1 /\ pos' = 1 /\ closed' = FALSE
  /\ budget' = limit
  /\ UNCHANGED <<text, limit, exhausted, spans, sorted, open, cursor, out>>

------------------------------------------------------------------------------
(* sanitize_output: sort, merge, splice.                                     *)
Before(a, b) ==
  \/ a.start < b.start
  \/ a.start = b.start /\ a.end > b.end
  \/ a.start = b.start /\ a.end = b.end /\ a.idx < b.idx

First == CHOOSE m \in sorted : \A n \in sorted : n = m \/ Before(m, n)

Selected == pattern \notin Provider

SortSpans ==
  /\ Selected /\ sorted = {} /\ spans # {} /\ cursor = 1 /\ open = NoSpan /\ out = <<>>
  /\ sorted' = spans
  /\ UNCHANGED <<text, limit, pattern, pos, budget, closed, exhausted, spans, open, cursor, out>>

OpenSpan ==
  /\ open = NoSpan /\ sorted # {}
  /\ open' = First /\ sorted' = sorted \ {First}
  /\ UNCHANGED <<text, limit, pattern, pos, budget, closed, exhausted, spans, cursor, out>>

(* Variant: spans that only touch are merged too. *)
TouchesOpen == sorted # {} /\ First.start <= open.end + 1

OverlapsOpen == sorted # {} /\ First.start <= open.end

MergeSpan ==
  /\ open # NoSpan /\ OverlapsOpen
  /\ open' = [open EXCEPT !.end = IF First.end > @ THEN First.end ELSE @]
  /\ sorted' = sorted \ {First}
  /\ UNCHANGED <<text, limit, pattern, pos, budget, closed, exhausted, spans, cursor, out>>

Kept(i, j) == [n \in 1..(IF j < i THEN 0 ELSE j - i + 1) |-> i + n - 1]

(* In out a marker is the negation of its provider. *)
Marker(p) == -p

SpliceSpan ==
  /\ open # NoSpan /\ ~OverlapsOpen
  /\ out' = out \o Kept(cursor, open.start - 1) \o <<Marker(open.idx)>>
  /\ cursor' = open.end + 1
  /\ open' = NoSpan
  /\ UNCHANGED <<text, limit, pattern, pos, budget, closed, exhausted, spans, sorted>>

Spliced == Selected /\ open = NoSpan /\ sorted = {} /\ (spans = {} \/ out # <<>>)

(* What sanitize_output returns. *)
sanitize_output == out \o Kept(cursor, Len(text))

(* What detect finds: the spans of the providers that may block a call.      *)
detect == {m \in spans : m.idx \notin REDACT_ONLY_PROVIDERS}

Decision(severity) == IF detect = {} THEN "allow" ELSE severity

DetectionStep ==
  \/ Select \/ SelectClosed \/ NextProvider
  \/ SortSpans \/ OpenSpan \/ MergeSpan \/ SpliceSpan

DetectionSpec == DetectionInit /\ [][DetectionStep]_dvars

------------------------------------------------------------------------------
(* Properties.                                                               *)

(* What the patterns and the gate say of a text, scan and budget apart.      *)
Tokens(s) ==
  {m \in {[start |-> i, end |-> MatchEnd(s, p, i), idx |-> p] : i \in 1..Len(s), p \in Provider} :
     m.end # 0 /\ Accepted(SubSeq(s, m.start, m.end), m.idx)}

Covered(S) == UNION {m.start..m.end : m \in S}

KeptPositions == {n \in Range(sanitize_output) : n > 0}

Blocking(S) == {m \in S : m.idx \notin REDACT_ONLY_PROVIDERS}

(* No character of a token survives in the sanitized text, and a token that  *)
(* may block a call is always found: not one hidden behind a decoy that      *)
(* overlaps it, and not when the budget runs out in the middle of the scan   *)
(* (detection/mod.rs:641-659).                                               *)
NothingSurvives ==
  Spliced => /\ KeptPositions \cap Covered(Tokens(text)) = {}
             /\ Blocking(Tokens(text)) # {} => detect # {}

(* While the budget lasts nothing else is found or replaced: what is kept is the rest *)
(* of the text in its order, and every maximal chain of overlapping spans    *)
(* has one marker, that of its first span, spans that only touch keeping one *)
(* each.                                                                     *)
Chains(S) == {m \in S : \A n \in S : n.start >= m.start \/ n.end < m.start}
Leads(m, S) == \A n \in S : n.start = m.start => n = m \/ Before(m, n)

OnlyTokensReplaced ==
  Spliced /\ ~exhausted =>
    LET T == Tokens(text)
    IN /\ detect = Blocking(T)
       /\ KeptPositions = (1..Len(text)) \ Covered(T)
       /\ Len(sanitize_output) = Cardinality(KeptPositions)
                                 + Cardinality({m \in Chains(T) : Leads(m, T)})
       /\ \A m \in Chains(T) : Leads(m, T) => Marker(m.idx) \in Range(sanitize_output)
       /\ \A i, j \in DOMAIN sanitize_output :
            i < j /\ {sanitize_output[i], sanitize_output[j]} \subseteq KeptPositions
              => sanitize_output[i] < sanitize_output[j]

(* The sanitized text is the text without its tokens: all of each, and       *)
(* nothing else.                                                             *)
RedactedExactly == NothingSurvives /\ OnlyTokensReplaced
===============================================================================
