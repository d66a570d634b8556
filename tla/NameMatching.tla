---------------------------- MODULE NameMatching ----------------------------
(***************************************************************************)
(* How a destination's name is compared with the sanctioned ones:          *)
(* normalizeName, levenshteinAtMost and MatchName of internal/compliance.  *)
(* A name is a sequence of characters; one state of the module is one      *)
(* input, so that TLC compares the functions with their references over    *)
(* all names of a bounded length.  The rare spaces beyond ASCII, which     *)
(* TrimSpace drops at the ends of a name and the loop keeps inside it, are *)
(* left out of the alphabet.                                               *)
(***************************************************************************)
EXTENDS Integers, Sequences, FiniteSets, FiniteSetsExt, SequencesExt

CONSTANTS
  Letter,                       \* lower-case letters, digits and what lies beyond ASCII
  Upper, Lower,                 \* upper-case letters, and the letter each of them becomes
  Separator,                    \* every other character
  MaxName, MaxThreshold         \* bounds on the length of a name; on the edits allowed

Char == Letter \cup Upper \cup Separator
Space == " "
ToLower(c) == IF c \in Upper THEN Lower[c] ELSE c

ASSUME NameBounds == MaxName \in Nat /\ MaxThreshold \in Nat
ASSUME Alphabet == Lower \in [Upper -> Letter] /\ Space \notin Letter /\ Separator \cap (Letter \cup Upper) = {}

Names(chars, n) == UNION {[1..k -> chars] : k \in 0..n}

VARIABLES query, sanctioned, threshold

nameVars == <<query, sanctioned, threshold>>

NameInit ==
  /\ query \in Names(Char, MaxName) /\ sanctioned \in Names(Char, MaxName)
  /\ threshold \in 0..MaxThreshold

(* The functions keep no state. *)
NameNext == UNCHANGED nameVars

NameSpec == NameInit /\ [][NameNext]_nameVars
-----------------------------------------------------------------------------
(* Seeded fault: a character that is dropped leaves no space behind. *)
NormalizeTight(name) == [i \in 1..Len(SelectSeq(name, LAMBDA c : c \notin Separator)) |->
                           ToLower(SelectSeq(name, LAMBDA c : c \notin Separator)[i])]

(* What normalizeName has written after the first n characters: lower case, *)
(* and one space for each run of other characters, none at the front.       *)
Scanned(name) ==
  LET out[n \in 0..Len(name)] ==
        IF n = 0 THEN <<>>
        ELSE IF name[n] \notin Separator THEN Append(out[n-1], ToLower(name[n]))
        ELSE IF out[n-1] = <<>> \/ Last(out[n-1]) = Space THEN out[n-1]
        ELSE Append(out[n-1], Space)
  IN  out

(* normalizeName trims the space that may be left at the end. *)
NormalizeName(name) ==
  LET all == Scanned(name)[Len(name)]
  IN  IF all # <<>> /\ Last(all) = Space THEN Front(all) ELSE all

Least(a, b, c) == Min({a, b, c})

(* One row of the table: the distances from the first i characters of s to  *)
(* the prefixes of t.                                                       *)
NextRow(prev, i, s, t) ==
  LET curr[j \in 0..Len(t)] ==
        IF j = 0 THEN i
        ELSE Least(curr[j-1] + 1, prev[j] + 1, prev[j-1] + (IF s[i] = t[j] THEN 0 ELSE 1))
  IN  curr

(* Seeded fault: a row whose best cell has reached the cap ends the search. *)
OverCapEarly(row, max) == Min({row[j] : j \in DOMAIN row}) >= max

(* Once every cell of a row is over the cap, so is the distance. *)
OverCap(row, max) == Min({row[j] : j \in DOMAIN row}) > max

(* The rows, from that of the empty prefix of s on. *)
Table(s, t) ==
  LET row[i \in 0..Len(s)] == IF i = 0 THEN [j \in 0..Len(t) |-> j] ELSE NextRow(row[i-1], i, s, t)
  IN  row

(* levenshteinAtMost: the distance, or max + 1 when it is over max. *)
LevenshteinAtMost(a, b, max) ==
  LET s == IF Len(a) < Len(b) THEN b ELSE a
      t == IF Len(a) < Len(b) THEN a ELSE b
      row == Table(s, t)
  IN  IF a = b THEN 0
      ELSE IF Len(s) - Len(t) > max \/ \E i \in 1..Len(s) : OverCap(row[i], max) THEN max + 1
      ELSE Min({row[Len(s)][Len(t)], max + 1})

(* MatchName: a listed name within the threshold; a query of which nothing  *)
(* is left never matches, and Replace drops such entries from the list.     *)
MatchName(name, list, max) ==
  LET n == NormalizeName(name)
  IN  n # <<>> /\ \E e \in list : NormalizeName(e) # <<>> /\ LevenshteinAtMost(n, NormalizeName(e), max) <= max
-----------------------------------------------------------------------------
(* The names one edit away. *)
OneEdit(s) ==
  {RemoveAt(s, i) : i \in DOMAIN s}
  \cup {[s EXCEPT ![i] = c] : i \in DOMAIN s, c \in Letter \cup {Space}}
  \cup {InsertAt(s, i, c) : i \in 1..(Len(s) + 1), c \in Letter \cup {Space}}

(* The names at most n edits away from s, for n up to k. *)
Near(s, k) ==
  LET near[n \in 0..k] == IF n = 0 THEN {s} ELSE near[n-1] \cup UNION {OneEdit(u) : u \in near[n-1]}
  IN  near

Within(s, t, k) == t \in Near(s, k)[k]

(* With its cut-offs the capped distance is still the true one: a name is   *)
(* matched exactly when some chain of at most threshold single edits leads  *)
(* to a sanctioned name.                                                    *)
CappedDistanceIsTrue ==
  LET n == NormalizeName(query)
      e == NormalizeName(sanctioned)
  IN  /\ \A k \in 0..threshold : (LevenshteinAtMost(n, e, threshold) <= k) <=> Within(n, e, k)
      /\ MatchName(query, {sanctioned}, threshold) <=> (n # <<>> /\ e # <<>> /\ Within(n, e, threshold))

(* The characters of a name that are no separators: those of its words.     *)
InWords(name) == {i \in DOMAIN name : name[i] \notin Separator}

(* The text n holds these characters in their order and in lower case, each *)
(* where at says: those of one word next to each other, one space between   *)
(* the last of a word and the first of the next, and nothing else.          *)
Spells(n, name, kept, at) ==
  /\ \A i \in kept : n[at[i]] = ToLower(name[i])
  /\ \A i, j \in kept : i < j /\ (\A k \in kept : k <= i \/ k >= j) =>
        at[j] = at[i] + (IF j = i + 1 THEN 1 ELSE 2)
  /\ \A p \in DOMAIN n : \/ \E i \in kept : at[i] = p
                         \/ n[p] = Space /\ \E i, j \in kept : at[i] = p - 1 /\ at[j] = p + 1

HoldsWords(name, n) == \E at \in [InWords(name) -> DOMAIN n] : Spells(n, name, InWords(name), at)

(* Names that differ only in case and in what separates their words         *)
(* normalise to the same text, names with other words do not: the words     *)
(* survive in order, with one space between two of them.                    *)
SameWordsSameName == HoldsWords(query, NormalizeName(query))

(* The capped edit distance is the edit distance up to its cap, and names that *)
(* differ only in punctuation, case and spacing are one name (levenshteinAtMost). *)
NameSafe ==
  /\ CappedDistanceIsTrue
  /\ SameWordsSameName
=============================================================================
