------------------------------ MODULE TextLines ------------------------------
(***************************************************************************)
(* What a search for a pattern in a text should report.  A file may hold   *)
(* any byte, a NUL too, at which strstr and strtok_r stop.  The pattern is *)
(* an argument of the command line: it has no NUL, and here no newline.    *)
(***************************************************************************)
EXTENDS Integers, Sequences, FiniteSets

CONSTANTS
  Letters,  \* characters other than the newline and the terminator
  NL,       \* the newline
  NUL,      \* the terminator
  Pattern,  \* what is searched for, a sequence of letters
  Texts,    \* what files may hold
  MaxSize,  \* bound: bytes of a file
  MaxChanges  \* bound: how often a file is rewritten while it is searched

Chars == Letters \cup {NL, NUL}

ASSUME TextAssumption ==
  /\ NL \notin Letters /\ NUL \notin Letters \cup {NL}
  /\ Pattern \in Seq(Letters) /\ Pattern # <<>>
  /\ \A text \in Texts : text \in Seq(Chars) /\ Len(text) <= MaxSize
  /\ MaxSize \in Nat /\ MaxChanges \in Nat

Least(S) == CHOOSE i \in S : \A j \in S : i <= j

\* What a C function sees of the bytes it is given: those before the first
\* terminator, which the program has put after the last of them.
CString(text) ==
  SubSeq(text, 1, Least({i \in 1 .. Len(text) : text[i] = NUL} \cup {Len(text) + 1}) - 1)

\* strstr: where the pattern starts in a text.
Occurrences(text) ==
  {i \in 1 .. Len(text) - Len(Pattern) + 1 :
     SubSeq(text, i, i + Len(Pattern) - 1) = Pattern}

\* The line, from 1, and the non-empty line that byte i lies in.
LineOf(text, i)  == 1 + Cardinality({j \in 1 .. i - 1 : text[j] = NL})
TokenOf(text, i) ==
  Cardinality({j \in 1 .. i : text[j] # NL /\ (j = 1 \/ text[j - 1] = NL)})

\* No terminator lies before byte i in its line.
Visible(text, i) ==
  \A j \in 1 .. i - 1 : text[j] = NUL => \E k \in j + 1 .. i - 1 : text[k] = NL

MatchingLines(text)  == {LineOf(text, i) : i \in {o \in Occurrences(text) : Visible(text, o)}}
MatchingTokens(text) == {TokenOf(text, i) : i \in Occurrences(text)}

Increasing(s) == \A i, j \in 1 .. Len(s) : i < j => s[i] < s[j]
Elements(s)   == {s[i] : i \in 1 .. Len(s)}
=============================================================================
