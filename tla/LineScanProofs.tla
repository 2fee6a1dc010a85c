--------------------------- MODULE LineScanProofs ---------------------------
(***************************************************************************)
(* How a file is searched, for files of any bytes, NULs among them, and    *)
(* every pattern.  In the multi-threaded program, where the file is        *)
(* rewritten any number of times meanwhile: where the terminator lands and *)
(* which lines are reported.  In the single-threaded one, for a file of    *)
(* several lines that nobody touches: which lines are printed, and with    *)
(* which numbers.                                                          *)
(***************************************************************************)
EXTENDS FileScan, FgetsScan, TLAPS, SequenceTheorems, FiniteSetTheorems, WellFoundedInduction

-----------------------------------------------------------------------------
(* Texts and patterns.                                                     *)

\* A text is a sequence of bytes.
LEMMA TextFacts ==
  ASSUME NEW text \in Texts
  PROVE  text \in Seq(Chars) /\ Len(text) \in 0 .. MaxSize
  BY TextAssumption, LenProperties

\* The three kinds of bytes differ.
LEMMA ByteKinds ==
  /\ NL # NUL /\ NL \notin Letters /\ NUL \notin Letters
  /\ Chars = Letters \cup {NL, NUL} /\ MaxSize \in Nat
  BY TextAssumption DEF Chars

\* The pattern is a non-empty sequence of letters.
LEMMA PatternFacts ==
  /\ Pattern \in Seq(Chars) /\ Len(Pattern) \in Nat \ {0}
  /\ \A k \in 1 .. Len(Pattern) : Pattern[k] # NL /\ Pattern[k] # NUL
<1>1. Pattern \in Seq(Letters) /\ Pattern # <<>>
  BY TextAssumption
<1>2. Len(Pattern) \in Nat \ {0} /\ \A k \in 1 .. Len(Pattern) : Pattern[k] \in Letters
  BY <1>1, EmptySeq, LenProperties, ElementOfSeq
<1>3. Pattern \in Seq(Chars)
  BY <1>1 DEF Chars
<1> QED
  BY <1>2, <1>3, ByteKinds

\* A set of numbers that is not empty has a least element.
LEMMA LeastIs ==
  ASSUME NEW S \in SUBSET Nat, S # {}
  PROVE  Least(S) \in S /\ \A j \in S : Least(S) <= j
<1>1. \E i \in S : \A j \in S : ~(<<j, i>> \in OpToRel(<, Nat))
  BY WFMin, NatLessThanWellFounded
<1>2. PICK i \in S : \A j \in S : ~(<<j, i>> \in OpToRel(<, Nat))
  BY <1>1
<1>3. \A j \in S : i <= j
  <2> SUFFICES ASSUME NEW j \in S PROVE i <= j
    OBVIOUS
  <2>1. i \in Nat /\ j \in Nat /\ <<j, i>> \in Nat \X Nat
    OBVIOUS
  <2>2. ~(j < i)
    BY <1>2, <2>1 DEF OpToRel
  <2> QED
    BY <2>1, <2>2
<1> QED
  BY <1>3 DEF Least

\* A C string is the text up to its first terminator.
LEMMA CStringIs ==
  ASSUME NEW text \in Seq(Chars)
  PROVE  /\ CString(text) \in Seq(Chars) /\ Len(CString(text)) \in 0 .. Len(text)
         /\ \A i \in 1 .. Len(CString(text)) : CString(text)[i] = text[i] /\ text[i] # NUL
         /\ Len(CString(text)) < Len(text) => text[Len(CString(text)) + 1] = NUL
<1> DEFINE S  == {i \in 1 .. Len(text) : text[i] = NUL} \cup {Len(text) + 1}
           at == Least(S)
           t  == SubSeq(text, 1, at - 1)
<1>1. CString(text) = t
  BY DEF CString
<1>2. Len(text) \in Nat
  BY LenProperties
<1>3. S \in SUBSET Nat /\ S # {} /\ \A i \in S : i \in 1 .. Len(text) + 1
  BY <1>2
<1>4. at \in S /\ \A j \in S : at <= j
  BY <1>3, LeastIs
<1>5. at \in 1 .. Len(text) + 1 /\ (at <= Len(text) => text[at] = NUL)
  BY <1>2, <1>4
<1>6. \A i \in 1 .. at - 1 : text[i] # NUL
  BY <1>2, <1>4, <1>5
<1> HIDE DEF at
<1>7. \A i \in 1 .. at - 1 : text[i] \in Chars
  BY <1>2, <1>5, ElementOfSeq
<1>8. /\ t \in Seq(Chars) /\ Len(t) = at - 1
      /\ \A i \in 1 .. at - 1 : t[i] = text[i]
  <2>1. /\ t \in Seq(Chars) /\ Len(t) = IF 1 <= at - 1 THEN (at - 1) - 1 + 1 ELSE 0
        /\ \A i \in 1 .. (at - 1) - 1 + 1 : t[i] = text[1 + i - 1]
    BY <1>5, <1>7, SubSeqProperties
  <2> HIDE DEF t
  <2> QED
    BY <1>5, <2>1
<1> HIDE DEF t
<1> QED
  BY <1>1, <1>2, <1>5, <1>6, <1>8

\* Where the pattern occurs, letter by letter.
LEMMA OccurrenceAt ==
  ASSUME NEW text \in Seq(Chars), NEW o \in Int
  PROVE  o \in Occurrences(text)
           <=> /\ o >= 1 /\ o + Len(Pattern) - 1 <= Len(text)
               /\ \A k \in 1 .. Len(Pattern) : text[o + k - 1] = Pattern[k]
<1> DEFINE n == Len(Pattern)
           part == SubSeq(text, o, o + n - 1)
<1>1. Pattern \in Seq(Chars) /\ n \in Nat \ {0} /\ Len(text) \in Nat
  BY PatternFacts, LenProperties
<1> HIDE DEF n
<1>2. o \in Occurrences(text) <=> o \in 1 .. Len(text) - n + 1 /\ part = Pattern
  BY DEF Occurrences, n
<1>3. o \in 1 .. Len(text) - n + 1 <=> o >= 1 /\ o + n - 1 <= Len(text)
  BY <1>1
<1>4. ASSUME o >= 1, o + n - 1 <= Len(text)
      PROVE  part = Pattern <=> \A k \in 1 .. n : text[o + k - 1] = Pattern[k]
  <2>1. \A i \in o .. o + n - 1 : text[i] \in Chars
    BY <1>1, <1>4, ElementOfSeq
  <2>2. /\ part \in Seq(Chars) /\ Len(part) = n
        /\ \A i \in 1 .. n : part[i] = text[o + i - 1]
    BY <1>1, <2>1, SubSeqProperties
  <2> HIDE DEF part
  <2>3. (\A i \in 1 .. n : part[i] = Pattern[i]) => part = Pattern
    BY <1>1, <2>2, SeqEqual DEF n
  <2> QED
    BY <2>2, <2>3
<1> QED
  BY <1>2, <1>3, <1>4 DEF n

\* The numbers of the queue after a turn of the loop.
LEMMA QueueGrows ==
  ASSUME NEW old \in Seq(Nat), NEW n \in Nat, Increasing(old),
         \A k \in 1 .. Len(old) : old[k] < n
  PROVE  /\ \A k \in 1 .. Len(old) : old[k] < n + 1
         /\ Increasing(Append(old, n))
         /\ \A k \in 1 .. Len(Append(old, n)) : Append(old, n)[k] < n + 1
         /\ Elements(Append(old, n)) = Elements(old) \cup {n}
<1>0. Len(old) \in Nat /\ \A k \in 1 .. Len(old) : old[k] \in Nat
  BY ElementOfSeq
<1>1. /\ Len(Append(old, n)) = Len(old) + 1 /\ Append(old, n)[Len(old) + 1] = n
      /\ \A k \in 1 .. Len(old) : Append(old, n)[k] = old[k]
  BY AppendProperties
<1>2. \A k \in 1 .. Len(old) + 1 : k \in 1 .. Len(old) \/ k = Len(old) + 1
  BY <1>0
<1>3. \A k \in 1 .. Len(old) : old[k] < n + 1
  BY <1>0
<1>4. Increasing(Append(old, n))
  <2> SUFFICES ASSUME NEW i \in 1 .. Len(old) + 1, NEW j \in 1 .. Len(old) + 1, i < j
               PROVE  Append(old, n)[i] < Append(old, n)[j]
    BY <1>1 DEF Increasing
  <2>1. i \in 1 .. Len(old)
    BY <1>0
  <2>2. CASE j \in 1 .. Len(old)
    BY <1>1, <2>1, <2>2 DEF Increasing
  <2>3. CASE j = Len(old) + 1
    BY <1>1, <2>1, <2>3
  <2> QED
    BY <1>2, <2>2, <2>3
<1>5. \A k \in 1 .. Len(Append(old, n)) : Append(old, n)[k] < n + 1
  BY <1>1, <1>2, <1>3
<1>6. Elements(Append(old, n)) = Elements(old) \cup {n}
  <2>1. \A k \in 1 .. Len(old) : k \in 1 .. Len(Append(old, n))
    BY <1>0, <1>1
  <2>2. Len(old) + 1 \in 1 .. Len(Append(old, n))
    BY <1>0, <1>1
  <2> QED
    BY <1>1, <1>2, <2>1, <2>2 DEF Elements
<1> QED
  BY <1>3, <1>4, <1>5, <1>6
-----------------------------------------------------------------------------
(* FileScan: the terminator.                                               *)

\* Between lstat and fstat a file that was only appended to is no shorter
\* than the size in the job.  StaysInBuffer is not inductive without it: the
\* buffer gets its size from the file, not from the job.
NotShorter ==
  /\ content \in Texts /\ appended \in BOOLEAN
  /\ file_size \in Nat /\ room \in Nat
  /\ pc = "lstat" => file_size = 0
  /\ pc = "open" /\ appended => file_size <= Len(content)

IInv == NotShorter /\ StaysInBuffer

\* The size of a file is a number.
LEMMA FileSize == ASSUME NEW text \in Texts PROVE Len(text) \in Nat
  BY TextFacts

\* Nothing has a size before lstat.
LEMMA InitIInv == Init => IInv
  BY DEF Init, IInv, NotShorter, StaysInBuffer

\* Only Rewrite, Lstat and Buffer touch a size; Rewrite lengthens the file or
\* ends the promise.
LEMMA NextIInv == IInv /\ [Next]_vars => IInv'
<1> SUFFICES ASSUME IInv, [Next]_vars PROVE IInv'
  OBVIOUS
<1> USE DEF IInv, NotShorter, StaysInBuffer, file, reader
<1>1. CASE Rewrite
  <2>1. Len(content) \in Nat /\ Len(content') \in Nat
    BY <1>1, FileSize DEF Rewrite
  <2>2. appended' \in BOOLEAN
    BY <1>1 DEF Rewrite
  <2>3. appended' => appended
    BY <1>1 DEF Rewrite
  <2>4. appended' /\ pc = "open" => Len(content) <= Len(content')
    BY <1>1 DEF Rewrite
  <2>5. content' \in Texts /\ UNCHANGED reader
    BY <1>1 DEF Rewrite
  <2>6. NotShorter'
    BY <2>1, <2>2, <2>3, <2>4, <2>5
  <2>7. StaysInBuffer'
    BY <2>3, <2>5
  <2> QED
    BY <2>6, <2>7
<1>2. CASE Lstat
  BY <1>2, FileSize DEF Lstat
<1>3. CASE Buffer
  BY <1>3, FileSize DEF Buffer
<1>4. CASE CannotOpen
  BY <1>4 DEF CannotOpen
<1>5. CASE Read
  BY <1>5 DEF Read
<1>6. CASE Cut
  BY <1>6 DEF Cut
<1>7. CASE Line
  BY <1>7 DEF Line
<1>8. CASE LastLine
  BY <1>8 DEF LastLine
<1>9. CASE UNCHANGED vars
  BY <1>9 DEF vars
<1> QED
  BY <1>1, <1>2, <1>3, <1>4, <1>5, <1>6, <1>7, <1>8, <1>9 DEF Next, Step

\* The byte after the text main saw lies inside the buffer the worker
\* allocated, unless somebody did more to the file than append to it
\* (greptile.c:174-178, 222).
THEOREM TerminatorInBuffer == Spec => []StaysInBuffer
<1>1. IInv => StaysInBuffer
  BY DEF IInv
<1> QED
  BY <1>1, InitIInv, NextIInv, PTL DEF Spec

-----------------------------------------------------------------------------
(* Tokens and occurrences.                                                 *)

\* The first bytes of the non-empty lines among the first i bytes.
Starts(text, i) == {j \in 1 .. i : text[j] # NL /\ (j = 1 \/ text[j - 1] = NL)}

\* They can be counted.
LEMMA StartsFinite ==
  ASSUME NEW text, NEW i \in Nat
  PROVE  /\ IsFiniteSet(Starts(text, i)) /\ Cardinality(Starts(text, i)) \in Nat
         /\ TokenOf(text, i) = Cardinality(Starts(text, i))
<1>1. IsFiniteSet(1 .. i) /\ Starts(text, i) \subseteq 1 .. i
  BY FS_Interval DEF Starts
<1> QED
  BY <1>1, FS_Subset, FS_CardinalityType DEF Starts, TokenOf

\* The non-empty lines with the pattern among the first i bytes.
Matching(text, i) == {TokenOf(text, o) : o \in {p \in Occurrences(text) : p <= i}}

\* Bytes from + 1 .. next of the text hold newlines, one token from byte
\* first on, and perhaps the newline that ends it.
OneToken(text, from, first, last, next) ==
  /\ from \in Nat /\ first \in Nat /\ last \in Nat
  /\ from < first /\ first <= last /\ last <= Len(text)
  /\ from = 0 \/ text[from] = NL
  /\ \A j \in from + 1 .. first - 1 : text[j] = NL
  /\ \A j \in first .. last : text[j] # NL
  /\ last < Len(text) => text[last + 1] = NL
  /\ next = IF last < Len(text) THEN last + 1 ELSE last

\* There is one more non-empty line up to its last byte than up to from.
LEMMA TokenCounts ==
  ASSUME NEW text \in Seq(Chars), NEW from, NEW first, NEW last, NEW next,
         OneToken(text, from, first, last, next)
  PROVE  \A o \in first .. next : TokenOf(text, o) = TokenOf(text, from) + 1
<1> SUFFICES ASSUME NEW o \in first .. next
             PROVE  TokenOf(text, o) = TokenOf(text, from) + 1
  OBVIOUS
<1>1. /\ from \in Nat /\ first \in Nat /\ last \in Nat /\ next \in Nat /\ o \in Nat
      /\ Len(text) \in Nat
  BY LenProperties DEF OneToken
<1>2. Starts(text, o) = Starts(text, from) \cup {first}
  <2>1. ASSUME NEW j \in Starts(text, from) PROVE j \in Starts(text, o)
    BY <1>1 DEF Starts, OneToken
  <2>2. first \in Starts(text, o)
    <3>1. first = 1 \/ text[first - 1] = NL
      <4>1. CASE first = from + 1
        BY <1>1, <4>1 DEF OneToken
      <4>2. CASE first # from + 1
        <5>1. first - 1 \in from + 1 .. first - 1
          BY <1>1, <4>2 DEF OneToken
        <5> QED
          BY <5>1 DEF OneToken
      <4> QED
        BY <4>1, <4>2
    <3>2. text[first] # NL /\ first \in 1 .. o
      BY <1>1 DEF OneToken
    <3> QED
      BY <3>1, <3>2 DEF Starts
  <2>3. ASSUME NEW j \in Starts(text, o) PROVE j \in Starts(text, from) \/ j = first
    <3>1. j \in 1 .. o /\ text[j] # NL /\ (j = 1 \/ text[j - 1] = NL)
      BY DEF Starts
    <3>2. CASE j <= from
      BY <1>1, <3>1, <3>2 DEF Starts
    <3>3. CASE from < j /\ j < first
      BY <1>1, <3>1, <3>3 DEF OneToken
    <3>4. CASE first < j /\ j <= last
      <4>1. j - 1 \in first .. last /\ j # 1
        BY <1>1, <3>1, <3>4 DEF OneToken
      <4> QED
        BY <3>1, <4>1 DEF OneToken
    <3>5. CASE last < j
      <4>1. j = last + 1 /\ last < Len(text)
        BY <1>1, <3>1, <3>5 DEF OneToken
      <4> QED
        BY <3>1, <4>1 DEF OneToken
    <3> QED
      BY <1>1, <3>1, <3>2, <3>3, <3>4, <3>5
  <2> QED
    BY <2>1, <2>2, <2>3
<1>3. first \notin Starts(text, from)
  BY <1>1 DEF Starts, OneToken
<1>4. Cardinality(Starts(text, o)) = Cardinality(Starts(text, from)) + 1
  <2> DEFINE S == Starts(text, from)
  <2>1. IsFiniteSet(S) /\ first \notin S
    BY <1>1, <1>3, StartsFinite
  <2> HIDE DEF S
  <2>2. Cardinality(S \cup {first}) = Cardinality(S) + 1
    BY <2>1, FS_AddElement
  <2> QED
    BY <1>2, <2>2 DEF S
<1> QED
  BY <1>1, <1>4, StartsFinite

\* An occurrence that begins after from and not after next lies in the token.
LEMMA OccurrenceInToken ==
  ASSUME NEW text \in Seq(Chars), NEW from, NEW first, NEW last, NEW next,
         OneToken(text, from, first, last, next),
         NEW token \in Seq(Chars), Len(token) = last - first + 1,
         \A i \in 1 .. Len(token) : token[i] = text[first + i - 1]
  PROVE  /\ \A o \in Occurrences(text) :
              from < o /\ o <= next => o \in first .. last /\ o - first + 1 \in Occurrences(token)
         /\ \A p \in Occurrences(token) :
              first + p - 1 \in first .. last /\ first + p - 1 \in Occurrences(text)
<1> DEFINE n == Len(Pattern)
<1>1. /\ from \in Nat /\ first \in Nat /\ last \in Nat /\ next \in Nat /\ n \in Nat \ {0}
      /\ Len(text) \in Nat /\ text \in Seq(Chars) /\ Len(token) \in Nat
  BY LenProperties, PatternFacts DEF OneToken
<1>2. ASSUME NEW o \in Occurrences(text), from < o, o <= next
      PROVE  o \in first .. last /\ o - first + 1 \in Occurrences(token)
  <2>0. o \in Int
    BY <1>1 DEF Occurrences
  <2>1. /\ o >= 1 /\ o + n - 1 <= Len(text)
        /\ \A k \in 1 .. n : text[o + k - 1] = Pattern[k]
    BY <1>1, <2>0, OccurrenceAt
  <2>2. \A j \in o .. o + n - 1 : text[j] # NL
    <3> SUFFICES ASSUME NEW j \in o .. o + n - 1 PROVE text[j] # NL
      OBVIOUS
    <3>1. j - o + 1 \in 1 .. n /\ o + (j - o + 1) - 1 = j
      BY <1>1, <2>0
    <3> QED
      BY <2>1, <3>1, PatternFacts
  <2>3. o \in first .. last
    <3>1. text[o] # NL
      BY <1>1, <2>0, <2>2
    <3>2. ~(o < first)
      BY <1>1, <1>2, <2>0, <3>1 DEF OneToken
    <3>3. ~(last < o)
      BY <1>1, <1>2, <2>0, <3>1 DEF OneToken
    <3> QED
      BY <1>1, <2>0, <3>2, <3>3
  <2>4. o + n - 1 <= last
    <3> SUFFICES ASSUME o + n - 1 > last PROVE FALSE
      BY <1>1, <2>0
    <3>1. last < Len(text) /\ last + 1 \in o .. o + n - 1
      BY <1>1, <2>0, <2>1, <2>3
    <3> QED
      BY <2>2, <3>1 DEF OneToken
  <2>5. \A k \in 1 .. n : token[(o - first + 1) + k - 1] = Pattern[k]
    <3> SUFFICES ASSUME NEW k \in 1 .. n PROVE token[(o - first + 1) + k - 1] = Pattern[k]
      OBVIOUS
    <3>1. /\ (o - first + 1) + k - 1 \in 1 .. Len(token)
          /\ first + ((o - first + 1) + k - 1) - 1 = o + k - 1
      BY <1>1, <2>0, <2>3, <2>4
    <3>2. token[(o - first + 1) + k - 1] = text[first + ((o - first + 1) + k - 1) - 1]
      BY <3>1
    <3> QED
      BY <2>1, <3>1, <3>2
  <2>6. o - first + 1 \in Int /\ o - first + 1 >= 1
        /\ (o - first + 1) + n - 1 <= Len(token)
    BY <1>1, <2>0, <2>3, <2>4
  <2> QED
    BY <2>3, <2>5, <2>6, OccurrenceAt
<1>3. ASSUME NEW p \in Occurrences(token)
      PROVE  first + p - 1 \in first .. last /\ first + p - 1 \in Occurrences(text)
  <2>0. p \in Int
    BY <1>1 DEF Occurrences
  <2>1. /\ p >= 1 /\ p + n - 1 <= Len(token)
        /\ \A k \in 1 .. n : token[p + k - 1] = Pattern[k]
    BY <1>1, <2>0, OccurrenceAt
  <2>2. \A k \in 1 .. n : text[(first + p - 1) + k - 1] = Pattern[k]
    <3> SUFFICES ASSUME NEW k \in 1 .. n PROVE text[(first + p - 1) + k - 1] = Pattern[k]
      OBVIOUS
    <3>1. p + k - 1 \in 1 .. Len(token) /\ first + (p + k - 1) - 1 = (first + p - 1) + k - 1
      BY <1>1, <2>0, <2>1
    <3> QED
      BY <2>1, <3>1
  <2>3. first + p - 1 \in Int /\ first + p - 1 >= 1 /\ first + p - 1 <= last
        /\ first <= first + p - 1 /\ (first + p - 1) + n - 1 <= Len(text)
    BY <1>1, <2>0, <2>1 DEF OneToken
  <2>4. first + p - 1 \in Occurrences(text)
    BY <1>1, <2>2, <2>3, OccurrenceAt
  <2>5. first + p - 1 \in first .. last
    BY <1>1, <2>0, <2>3
  <2> QED
    BY <2>4, <2>5
<1> QED
  BY <1>2, <1>3

\* A token with the pattern adds its number to the matching lines, another
\* token adds none.
LEMMA MatchingToken ==
  ASSUME NEW text \in Seq(Chars), NEW from, NEW first, NEW last, NEW next,
         OneToken(text, from, first, last, next),
         NEW token \in Seq(Chars), Len(token) = last - first + 1,
         \A i \in 1 .. Len(token) : token[i] = text[first + i - 1]
  PROVE  Matching(text, next)
           = Matching(text, from)
               \cup (IF Occurrences(token) = {} THEN {} ELSE {TokenOf(text, from) + 1})
<1>0. /\ from \in Nat /\ next \in Nat /\ last <= next /\ from <= next /\ last \in Nat
      /\ Occurrences(text) \subseteq Int /\ first \in Nat /\ first <= next
  BY LenProperties, PatternFacts DEF OneToken, Occurrences
<1>1. \A o \in first .. next : TokenOf(text, o) = TokenOf(text, from) + 1
  BY TokenCounts
<1>2. \A o \in Occurrences(text) :
        from < o /\ o <= next => o \in first .. last /\ o - first + 1 \in Occurrences(token)
  BY OccurrenceInToken
<1>3. \A p \in Occurrences(token) :
        first + p - 1 \in first .. last /\ first + p - 1 \in Occurrences(text)
  BY OccurrenceInToken
<1>4. ASSUME NEW t \in Matching(text, next)
      PROVE  \/ t \in Matching(text, from)
             \/ t = TokenOf(text, from) + 1 /\ Occurrences(token) # {}
  <2>1. PICK o \in Occurrences(text) : o <= next /\ t = TokenOf(text, o)
    BY DEF Matching
  <2>2. CASE o <= from
    BY <2>1, <2>2 DEF Matching
  <2>3. CASE from < o
    <3>1. o \in first .. last /\ Occurrences(token) # {}
      BY <1>2, <2>1, <2>3
    <3>2. o \in first .. next
      BY <1>0, <3>1
    <3> QED
      BY <1>1, <2>1, <3>1, <3>2
  <2> QED
    BY <1>0, <2>2, <2>3
<1>5. ASSUME NEW t \in Matching(text, from) PROVE t \in Matching(text, next)
  <2>1. PICK o \in Occurrences(text) : o <= from /\ t = TokenOf(text, o)
    BY DEF Matching
  <2>2. o <= next
    BY <1>0, <2>1
  <2> QED
    BY <2>1, <2>2 DEF Matching
<1>6. ASSUME Occurrences(token) # {} PROVE TokenOf(text, from) + 1 \in Matching(text, next)
  <2>1. PICK p \in Occurrences(token) : TRUE
    BY <1>6
  <2>2. first + p - 1 \in Occurrences(text) /\ first + p - 1 \in first .. last
    BY <1>3
  <2>3. PICK o \in Occurrences(text) : o \in first .. last
    BY <2>2
  <2>4. o \in first .. next /\ o <= next
    BY <1>0, <2>3
  <2>5. TokenOf(text, o) = TokenOf(text, from) + 1
    BY <1>1, <2>4
  <2> QED
    BY <2>4, <2>5 DEF Matching
<1> QED
  BY <1>4, <1>5, <1>6

-----------------------------------------------------------------------------
(* The search.                                                             *)

\* What main saw is what the file still begins with.
StillThere ==
  /\ Len(seen) <= Len(content)
  /\ \A i \in 1 .. Len(seen) : content[i] = seen[i]

\* The file was only appended to and the buffer filled.
Filled == appended /\ file_size > 0 /\ items_read = room - 1

\* What strtok_r will walk over: what main saw, up to its first terminator.
Shown == CString(seen)

\* The bytes from next_line on are those main saw, with a terminator behind.
Intact ==
  /\ next_line \in 0 .. Len(Shown)
  /\ \A i \in next_line .. Len(Shown) - 1 : buf[i] = Shown[i + 1]
  /\ buf[Len(Shown)] = NUL

\* The loop has come to the start of a line, and every non-empty line before
\* it is counted and, with the pattern, reported.
ReportedSoFar ==
  /\ next_line = 0 \/ next_line = Len(Shown) \/ Shown[next_line] = NL
  /\ line_num = TokenOf(Shown, next_line) + 1
  /\ \A k \in 1 .. Len(jobs) : jobs[k] < line_num
  /\ Increasing(jobs)
  /\ Elements(jobs) = Matching(Shown, next_line)

\* The types and what is not yet touched.
Base ==
  /\ content \in Texts /\ seen \in Seq(Chars)
  /\ file_size = Len(seen) /\ file_size \in Cells
  /\ buf \in [Cells -> Chars] /\ jobs \in Seq(Nat) /\ line_num \in Nat
  /\ room \in Nat /\ items_read \in Nat /\ appended \in BOOLEAN
  /\ pc \in {"lstat", "open", "read", "cut"} => next_line = 0 /\ line_num = 1 /\ jobs = <<>>

\* Until the terminator the buffer and the file hold what main saw;
\* ReportsWhatMainSaw is not inductive without it, nor without the place the
\* loop has come to.
Search ==
  /\ pc \in {"open", "read"} /\ appended => StillThere
  /\ pc = "cut" /\ Filled => \A i \in 0 .. file_size - 1 : buf[i] = seen[i + 1]
  /\ pc \in {"scan", "done"} /\ Filled => Intact /\ ReportedSoFar
  /\ pc = "done" /\ Filled => \A j \in next_line + 1 .. Len(Shown) : Shown[j] = NL

SearchInv == IInv /\ Base /\ Search

\* What is walked over holds no terminator and lies within the buffer.
LEMMA ShownIs ==
  ASSUME Base
  PROVE  /\ Shown \in Seq(Chars) /\ Len(Shown) \in Nat /\ Len(Shown) \in Cells
         /\ file_size \in Nat /\ Len(Shown) <= file_size
         /\ \A i \in 1 .. Len(Shown) : Shown[i] = seen[i] /\ Shown[i] # NUL
         /\ Len(Shown) < file_size => seen[Len(Shown) + 1] = NUL
<1>1. seen \in Seq(Chars) /\ file_size = Len(seen) /\ file_size \in 0 .. MaxSize /\ MaxSize \in Nat
  BY ByteKinds DEF Base, Cells
<1>2. /\ Shown \in Seq(Chars) /\ Len(Shown) \in 0 .. file_size
      /\ \A i \in 1 .. Len(Shown) : Shown[i] = seen[i] /\ seen[i] # NUL
      /\ Len(Shown) < file_size => seen[Len(Shown) + 1] = NUL
  BY <1>1, CStringIs DEF Shown
<1> QED
  BY <1>1, <1>2 DEF Cells

\* Nothing is in the buffer, the queue or the job yet.
LEMMA InitSearch == Init => SearchInv
<1> SUFFICES ASSUME Init PROVE SearchInv
  OBVIOUS
<1>1. IInv
  BY InitIInv
<1>2. seen \in Seq(Chars) /\ file_size = Len(seen) /\ file_size \in Cells
  BY EmptySeq, ByteKinds DEF Init, Cells
<1>3. buf \in [Cells -> Chars]
  BY DEF Init, Chars
<1>4. Base
  BY <1>2, <1>3, EmptySeq DEF Init, Base
<1>5. Search
  BY DEF Init, Search, Filled
<1> QED
  BY <1>1, <1>4, <1>5 DEF SearchInv

\* The types hold in every step.
LEMMA NextBase == Base /\ [Next]_vars => Base'
<1> SUFFICES ASSUME Base, [Next]_vars PROVE Base'
  OBVIOUS
<1> USE DEF Base, file, reader
<1>0. Len(content) \in Nat
  BY TextFacts
<1>1. CASE Rewrite
  BY <1>1 DEF Rewrite
<1>2. CASE Lstat
  <2>1. content \in Seq(Chars) /\ Len(content) \in Cells
    BY TextFacts DEF Cells
  <2> QED
    BY <1>2, <2>1 DEF Lstat
<1>3. CASE Buffer
  <2>1. buf' \in [Cells -> Chars]
    BY <1>3, FileScanAssumption DEF Buffer
  <2> QED
    BY <1>0, <1>3, <2>1 DEF Buffer
<1>4. CASE CannotOpen
  BY <1>4 DEF CannotOpen
<1>5. CASE Read
  <2>1. PICK n \in 0 .. Len(content) :
          /\ items_read' = n
          /\ buf' = [i \in Cells |-> IF i < n THEN content[i + 1] ELSE buf[i]]
    BY <1>5 DEF Read
  <2>2. \A i \in Cells : i < n => content[i + 1] \in Chars
    BY <1>0, TextFacts, ElementOfSeq DEF Cells
  <2>3. buf' \in [Cells -> Chars]
    BY <2>1, <2>2
  <2> QED
    BY <1>0, <1>5, <2>1, <2>3 DEF Read
<1>6. CASE Cut
  <2>1. buf' \in [Cells -> Chars]
    BY <1>6 DEF Cut, Chars
  <2> QED
    BY <1>6, <2>1 DEF Cut
<1>7. CASE Line
  <2>1. buf' \in [Cells -> Chars]
    BY <1>7 DEF Line, Chars
  <2>2. jobs' \in Seq(Nat)
    BY <1>7, AppendProperties DEF Line
  <2> QED
    BY <1>7, <2>1, <2>2 DEF Line
<1>8. CASE LastLine
  BY <1>8 DEF LastLine
<1>9. CASE UNCHANGED vars
  BY <1>9 DEF vars
<1> QED
  BY <1>1, <1>2, <1>3, <1>4, <1>5, <1>6, <1>7, <1>8, <1>9 DEF Next, Step

\* strtok_r stops at the terminator at the latest, and passes over newlines
\* only.
LEMMA StartOfToken ==
  ASSUME Base, Intact
  PROVE  /\ TokenStart \in next_line .. Len(Shown)
         /\ \A j \in next_line + 1 .. TokenStart : Shown[j] = NL
         /\ buf[TokenStart] = NUL <=> TokenStart = Len(Shown)
         /\ TokenStart < Len(Shown) => Shown[TokenStart + 1] # NL
<1> DEFINE S == {i \in Cells : i >= next_line /\ buf[i] # NL}
           ts == TokenStart
           n  == Len(Shown)
<1>1. next_line \in Nat /\ n \in Nat /\ n \in Cells /\ n >= next_line
      /\ n <= MaxSize /\ MaxSize \in Nat
  BY ShownIs, ByteKinds DEF Intact, Cells
<1>2. S \in SUBSET Nat /\ n \in S
  BY <1>1, ByteKinds DEF Cells, Intact
<1>3. ts = Least(S)
  BY DEF TokenStart
<1>4. ts \in S /\ \A j \in S : ts <= j
  BY <1>2, <1>3, LeastIs
<1> HIDE DEF ts
<1>5. ts \in Nat /\ next_line <= ts /\ ts <= n /\ buf[ts] # NL
  BY <1>2, <1>4
<1>6. \A i \in next_line .. ts - 1 : buf[i] = NL
  <2> SUFFICES ASSUME NEW i \in next_line .. ts - 1 PROVE buf[i] = NL
    OBVIOUS
  <2>1. i \in Cells /\ i >= next_line /\ ~(ts <= i)
    BY <1>1, <1>5 DEF Cells
  <2> QED
    BY <1>4, <2>1
<1>7. \A j \in next_line + 1 .. ts : Shown[j] = NL
  <2> SUFFICES ASSUME NEW j \in next_line + 1 .. ts PROVE Shown[j] = NL
    OBVIOUS
  <2>1. j - 1 \in next_line .. ts - 1 /\ j - 1 \in next_line .. n - 1 /\ (j - 1) + 1 = j
    BY <1>1, <1>5
  <2>2. buf[j - 1] = NL /\ buf[j - 1] = Shown[(j - 1) + 1]
    BY <1>6, <2>1 DEF Intact
  <2> QED
    BY <2>1, <2>2
<1>8. ASSUME ts < n PROVE Shown[ts + 1] # NL /\ buf[ts] # NUL
  <2>1. ts \in next_line .. n - 1 /\ ts + 1 \in 1 .. n
    BY <1>1, <1>5, <1>8
  <2>2. buf[ts] = Shown[ts + 1] /\ Shown[ts + 1] # NUL
    BY <2>1, ShownIs DEF Intact
  <2> QED
    BY <1>5, <2>2
<1>9. ts \in next_line .. n /\ (ts = n \/ ts < n) /\ buf[n] = NUL
  BY <1>1, <1>5 DEF Intact
<1> QED
  BY <1>7, <1>8, <1>9 DEF ts

\* A turn of the loop takes one token of what main saw.
LEMMA TokenTaken ==
  ASSUME Base, Intact, buf[TokenStart] # NUL,
         next_line = 0 \/ next_line = Len(Shown) \/ Shown[next_line] = NL
  PROVE  /\ TokenEnd \in 1 .. Len(Shown)
         /\ OneToken(Shown, next_line, TokenStart + 1, TokenEnd,
                     IF buf[TokenEnd] = NL THEN TokenEnd + 1 ELSE TokenEnd)
         /\ Token \in Seq(Chars) /\ Len(Token) = TokenEnd - (TokenStart + 1) + 1
         /\ \A i \in 1 .. Len(Token) : Token[i] = Shown[(TokenStart + 1) + i - 1]
<1> DEFINE ts == TokenStart
           te == TokenEnd
           n  == Len(Shown)
           S  == {i \in Cells : i >= ts /\ buf[i] \in {NL, NUL}}
<1>1. next_line \in Nat /\ n \in Cells /\ n \in Nat /\ n <= MaxSize /\ MaxSize \in Nat
      /\ buf[n] = NUL
  BY ShownIs, ByteKinds DEF Intact, Cells
<1>2. /\ ts \in next_line .. n /\ ts < n
      /\ \A j \in next_line + 1 .. ts : Shown[j] = NL
      /\ Shown[ts + 1] # NL
  BY <1>1, StartOfToken
<1>3. te = Least(S)
  BY DEF TokenEnd
<1>4. \A i \in 1 .. te - ts : Token[i] = buf[ts + i - 1]
  BY DEF Token
<1>5. Token = [i \in 1 .. te - ts |-> buf[ts + i - 1]]
  BY DEF Token
<1> HIDE DEF ts
<1>6. S \in SUBSET Nat /\ n \in S
  BY <1>1, <1>2 DEF Cells
<1>7. te \in S /\ \A j \in S : te <= j
  BY <1>3, <1>6, LeastIs
<1> HIDE DEF te
<1>8. te \in Nat /\ te <= n /\ ts <= te /\ ts \in Nat /\ buf[te] \in {NL, NUL}
  BY <1>1, <1>2, <1>6, <1>7
<1>9. \A i \in ts .. n - 1 : buf[i] = Shown[i + 1] /\ Shown[i + 1] # NUL /\ Shown[i + 1] \in Chars
  <2> SUFFICES ASSUME NEW i \in ts .. n - 1
               PROVE  buf[i] = Shown[i + 1] /\ Shown[i + 1] # NUL /\ Shown[i + 1] \in Chars
    OBVIOUS
  <2>1. i \in next_line .. n - 1 /\ i + 1 \in 1 .. n
    BY <1>1, <1>2
  <2> QED
    BY <2>1, ShownIs, ElementOfSeq DEF Intact
<1>10. ts # te
  <2>1. ts \in ts .. n - 1
    BY <1>1, <1>2, <1>8
  <2>2. buf[ts] # NL /\ buf[ts] # NUL
    BY <1>2, <1>9, <2>1
  <2> QED
    BY <1>8, <2>2
<1>11. \A j \in ts + 1 .. te : Shown[j] # NL
  <2> SUFFICES ASSUME NEW j \in ts + 1 .. te PROVE Shown[j] # NL
    OBVIOUS
  <2>1. /\ j - 1 \in ts .. n - 1 /\ j - 1 \in Cells /\ ~(te <= j - 1) /\ j - 1 >= ts
        /\ (j - 1) + 1 = j
    BY <1>1, <1>2, <1>8 DEF Cells
  <2>2. buf[j - 1] # NL
    BY <1>7, <2>1
  <2> QED
    BY <1>9, <2>1, <2>2
<1>12. te < n => buf[te] = NL /\ Shown[te + 1] = NL
  <2> SUFFICES ASSUME te < n PROVE buf[te] = NL /\ Shown[te + 1] = NL
    OBVIOUS
  <2>1. te \in ts .. n - 1
    BY <1>1, <1>8
  <2>2. buf[te] = Shown[te + 1] /\ buf[te] # NUL
    BY <1>9, <2>1
  <2> QED
    BY <1>8, <2>2
<1>13. te = n => buf[te] # NL
  BY <1>1, ByteKinds
<1>14. OneToken(Shown, next_line, ts + 1, te, IF buf[te] = NL THEN te + 1 ELSE te)
  <2>1. next_line = 0 \/ Shown[next_line] = NL
    BY <1>1, <1>2
  <2>2. (IF buf[te] = NL THEN te + 1 ELSE te) = IF te < n THEN te + 1 ELSE te
    BY <1>1, <1>8, <1>12, <1>13
  <2>3. \A j \in next_line + 1 .. (ts + 1) - 1 : Shown[j] = NL
    BY <1>1, <1>2, <1>8
  <2> QED
    BY <1>1, <1>2, <1>8, <1>10, <1>11, <1>12, <2>1, <2>2, <2>3 DEF OneToken
<1>15. \A i \in 1 .. te - ts : ts + i - 1 \in ts .. n - 1 /\ (ts + i - 1) + 1 = (ts + 1) + i - 1
  BY <1>1, <1>8
<1>16. \A i \in 1 .. te - ts : buf[ts + i - 1] = Shown[(ts + 1) + i - 1]
                                /\ buf[ts + i - 1] \in Chars
  <2> SUFFICES ASSUME NEW i \in 1 .. te - ts
               PROVE  buf[ts + i - 1] = Shown[(ts + 1) + i - 1] /\ buf[ts + i - 1] \in Chars
    OBVIOUS
  <2>1. buf[ts + i - 1] = Shown[(ts + i - 1) + 1] /\ buf[ts + i - 1] \in Chars
    BY <1>9, <1>15
  <2> QED
    BY <1>15, <2>1
<1>17. te - ts \in Nat /\ te - ts = te - (ts + 1) + 1
  BY <1>8
<1>18. Token \in Seq(Chars) /\ Len(Token) = te - ts
  <2>1. Token \in [1 .. te - ts -> Chars]
    BY <1>5, <1>16
  <2> QED
    BY <1>17, <2>1
<1>19. te \in 1 .. n
  BY <1>1, <1>8, <1>10
<1>20. \A i \in 1 .. Len(Token) : Token[i] = Shown[(ts + 1) + i - 1]
  BY <1>4, <1>16, <1>18
<1> QED
  BY <1>14, <1>17, <1>18, <1>19, <1>20 DEF ts, te

\* A turn of the loop counts the token and reports it if it has the pattern.
LEMMA LineReports ==
  ASSUME Base, Search, pc = "scan", Filled, Line
  PROVE  (Intact /\ ReportedSoFar)'
<1> DEFINE te == TokenEnd
           next == IF buf[te] = NL THEN te + 1 ELSE te
           n == Len(Shown)
<1>1. /\ Shown' = Shown /\ next_line' = next /\ line_num' = line_num + 1
      /\ buf' = [buf EXCEPT ![te] = NUL] /\ buf[TokenStart] # NUL
      /\ jobs' = IF Occurrences(Token) = {} THEN jobs ELSE Append(jobs, line_num)
  BY DEF Line, Shown
<1>2. /\ Intact /\ ReportedSoFar
      /\ next_line = 0 \/ next_line = Len(Shown) \/ Shown[next_line] = NL
  BY DEF Search, ReportedSoFar
<1>3. /\ te \in 1 .. n
      /\ OneToken(Shown, next_line, TokenStart + 1, te, next)
      /\ Token \in Seq(Chars) /\ Len(Token) = te - (TokenStart + 1) + 1
      /\ \A i \in 1 .. Len(Token) : Token[i] = Shown[(TokenStart + 1) + i - 1]
  BY <1>1, <1>2, TokenTaken
<1> HIDE DEF te, next
<1>4. Shown \in Seq(Chars) /\ n \in Nat /\ n \in Cells /\ n <= MaxSize /\ MaxSize \in Nat
  BY ShownIs, ByteKinds DEF Cells
<1>5. /\ next = IF te < n THEN te + 1 ELSE te
      /\ te < n => Shown[te + 1] = NL
      /\ TokenStart + 1 \in Nat /\ TokenStart + 1 <= te
      /\ next_line \in Nat /\ next_line <= te
  BY <1>3, <1>4 DEF OneToken
<1>6. next \in 1 .. n /\ (next = n \/ Shown[next] = NL)
  BY <1>3, <1>4, <1>5
<1>7. /\ Matching(Shown, next)
           = Matching(Shown, next_line)
               \cup (IF Occurrences(Token) = {} THEN {} ELSE {TokenOf(Shown, next_line) + 1})
      /\ TokenOf(Shown, next) = TokenOf(Shown, next_line) + 1
  <2>1. next \in TokenStart + 1 .. next
    BY <1>3, <1>4, <1>5
  <2> QED
    BY <1>3, <1>4, <2>1, MatchingToken, TokenCounts
<1>8. Intact'
  <2>1. \A i \in Cells : buf'[i] = IF i = te THEN NUL ELSE buf[i]
    BY <1>1 DEF Base
  <2>2. \A i \in next .. n - 1 : i \in Cells /\ i # te /\ i \in next_line .. n - 1
    BY <1>3, <1>4, <1>5 DEF Cells
  <2>3. \A i \in next .. n - 1 : buf'[i] = Shown[i + 1]
    BY <1>2, <2>1, <2>2 DEF Intact
  <2>4. next \in 0 .. n
    BY <1>4, <1>6
  <2>5. buf'[n] = NUL
    BY <1>2, <1>4, <2>1 DEF Intact
  <2> QED
    BY <1>1, <2>3, <2>4, <2>5 DEF Intact
<1>9. /\ \A k \in 1 .. Len(jobs') : jobs'[k] < line_num'
      /\ Increasing(jobs') /\ Elements(jobs') = Matching(Shown, next)
  <2>1. /\ jobs \in Seq(Nat) /\ line_num \in Nat /\ Increasing(jobs)
        /\ \A k \in 1 .. Len(jobs) : jobs[k] < line_num
        /\ Elements(jobs) = Matching(Shown, next_line)
        /\ line_num = TokenOf(Shown, next_line) + 1
    BY <1>2 DEF Base, ReportedSoFar
  <2>2. /\ \A k \in 1 .. Len(jobs) : jobs[k] < line_num + 1
        /\ Increasing(Append(jobs, line_num))
        /\ \A k \in 1 .. Len(Append(jobs, line_num)) : Append(jobs, line_num)[k] < line_num + 1
        /\ Elements(Append(jobs, line_num)) = Elements(jobs) \cup {line_num}
    BY <2>1, QueueGrows
  <2>3. CASE Occurrences(Token) = {}
    <3>1. jobs' = jobs /\ Matching(Shown, next) = Matching(Shown, next_line)
      BY <1>1, <1>7, <2>3
    <3> QED
      BY <1>1, <2>1, <2>2, <3>1
  <2>4. CASE Occurrences(Token) # {}
    <3>1. jobs' = Append(jobs, line_num)
      BY <1>1, <2>4
    <3>2. Matching(Shown, next) = Matching(Shown, next_line) \cup {line_num}
      BY <1>7, <2>1, <2>4
    <3> QED
      BY <1>1, <2>1, <2>2, <3>1, <3>2
  <2> QED
    BY <2>3, <2>4
<1>10. line_num' = TokenOf(Shown, next) + 1
  BY <1>1, <1>2, <1>7 DEF ReportedSoFar
<1>11. ReportedSoFar'
  BY <1>1, <1>6, <1>9, <1>10 DEF ReportedSoFar
<1> QED
  BY <1>8, <1>11

\* After the last turn there are only newlines left.
LEMMA LastLineLeaves ==
  ASSUME Base, Search, pc = "scan", Filled, LastLine
  PROVE  \A j \in next_line + 1 .. Len(Shown) : Shown[j] = NL
<1>1. Intact /\ buf[TokenStart] = NUL
  BY DEF Search, LastLine
<1> QED
  BY <1>1, StartOfToken

\* Only the buffer of the size of the file at fstat, filled to the last byte,
\* gives the worker what main saw.
LEMMA ReadFills ==
  ASSUME Base, Search, Read, Filled', StaysInBuffer
  PROVE  (\A i \in 0 .. file_size - 1 : buf[i] = seen[i + 1])'
<1>1. PICK n \in 0 .. Len(content) :
        /\ n <= room - 1 /\ items_read' = n
        /\ buf' = [i \in Cells |-> IF i < n THEN content[i + 1] ELSE buf[i]]
  BY DEF Read
<1>2. /\ UNCHANGED <<file_size, seen, room, appended, content>> /\ pc = "read"
      /\ appended /\ file_size > 0 /\ n = room - 1
  BY <1>1 DEF Read, Filled, file
<1>3. StillThere /\ file_size < room
  BY <1>2 DEF Search, StaysInBuffer
<1>4. /\ file_size = Len(seen) /\ file_size \in Nat /\ file_size <= MaxSize
      /\ MaxSize \in Nat /\ room \in Nat
  BY ByteKinds DEF Base, Cells
<1>5. \A i \in 0 .. file_size - 1 : i \in Cells /\ i < n /\ i + 1 \in 1 .. Len(seen)
  BY <1>1, <1>2, <1>3, <1>4 DEF Cells
<1>6. \A i \in 0 .. file_size - 1 : buf'[i] = seen[i + 1]
  BY <1>1, <1>3, <1>5 DEF StillThere
<1> QED
  BY <1>2, <1>6

\* Appending leaves what main saw where it was.
LEMMA RewriteLeaves ==
  ASSUME Base, Search, Rewrite, pc \in {"open", "read"}, appended'
  PROVE  StillThere'
<1>1. /\ content' \in Texts /\ seen' = seen /\ appended
      /\ Len(content) <= Len(content') /\ content = SubSeq(content', 1, Len(content))
  BY DEF Rewrite, reader
<1>2. StillThere /\ seen \in Seq(Chars) /\ content \in Texts
  BY <1>1 DEF Search, Base
<1> DEFINE n == Len(content)
           new == content'
<1>3. n \in Nat /\ Len(new) \in Nat /\ Len(seen) \in Nat
  BY <1>1, <1>2, TextFacts, LenProperties
<1>4. \A i \in 1 .. Len(new) : new[i] \in Chars
  BY <1>1, TextFacts, ElementOfSeq
<1> HIDE DEF n, new
<1>5. \A i \in 1 .. n : new[i] \in Chars
  BY <1>1, <1>3, <1>4 DEF n, new
<1>6. \A i \in 1 .. n : SubSeq(new, 1, n)[i] = new[1 + i - 1]
  BY <1>3, <1>5, SubSeqProperties
<1>7. \A i \in 1 .. n : content[i] = new[i]
  <2> SUFFICES ASSUME NEW i \in 1 .. n PROVE content[i] = new[i]
    OBVIOUS
  <2>1. 1 + i - 1 = i
    BY <1>3
  <2> QED
    BY <1>1, <1>6, <2>1 DEF n, new
<1>8. \A i \in 1 .. Len(seen) : i \in 1 .. n
  BY <1>2, <1>3 DEF StillThere, n
<1>9. \A i \in 1 .. Len(seen) : new[i] = seen[i]
  BY <1>2, <1>7, <1>8 DEF StillThere
<1>10. Len(seen) <= Len(new)
  BY <1>1, <1>2, <1>3 DEF StillThere, n, new
<1> QED
  BY <1>1, <1>9, <1>10 DEF StillThere, new

\* Every step keeps what the search rests on.
LEMMA NextSearch == SearchInv /\ [Next]_vars => SearchInv'
<1> SUFFICES ASSUME SearchInv, [Next]_vars PROVE SearchInv'
  OBVIOUS
<1>0. IInv /\ Base /\ Search /\ StaysInBuffer
  BY DEF SearchInv, IInv
<1>1. IInv' /\ Base'
  BY <1>0, NextIInv, NextBase
<1> USE DEF file, reader
<1>2. CASE Rewrite
  <2>1. UNCHANGED reader /\ pc \in {"open", "read"}
    BY <1>2 DEF Rewrite
  <2>2. pc' \in {"open", "read"} /\ appended' => StillThere'
    BY <1>0, <1>2, <2>1, RewriteLeaves
  <2>3. Search'
    BY <2>1, <2>2 DEF Search
  <2> QED
    BY <1>1, <2>3 DEF SearchInv
<1>3. CASE Lstat
  <2>1. UNCHANGED <<content, appended>> /\ seen' = content /\ file_size' = Len(content)
    BY <1>3 DEF Lstat
  <2>2. pc' = "open" \/ (pc' = "done" /\ Len(content) = 0)
    BY <1>3 DEF Lstat
  <2>3. Len(content) \in Nat
    BY <1>0, FileSize DEF Base
  <2>4. StillThere'
    BY <2>1, <2>3 DEF StillThere
  <2>5. pc' = "done" => ~Filled'
    BY <2>1, <2>2 DEF Filled
  <2>6. Search'
    BY <2>2, <2>4, <2>5 DEF Search
  <2> QED
    BY <1>1, <2>6 DEF SearchInv
<1>4. CASE Buffer
  <2>1. UNCHANGED <<content, appended, seen>> /\ pc = "open" /\ pc' = "read"
    BY <1>4 DEF Buffer
  <2>2. Search'
    BY <1>0, <2>1 DEF Search, StillThere
  <2> QED
    BY <1>1, <2>2 DEF SearchInv
<1>5. CASE CannotOpen
  <2>1. Search'
    BY <1>5 DEF CannotOpen, Search
  <2> QED
    BY <1>1, <2>1 DEF SearchInv
<1>6. CASE Read
  <2>1. pc' = "cut"
    BY <1>6 DEF Read
  <2>2. Filled' => (\A i \in 0 .. file_size - 1 : buf[i] = seen[i + 1])'
    BY <1>0, <1>6, ReadFills
  <2>3. Search'
    BY <2>1, <2>2 DEF Search
  <2> QED
    BY <1>1, <2>3 DEF SearchInv
<1>7. CASE Cut
  <2>1. /\ pc = "cut" /\ pc' = "scan" /\ buf' = [buf EXCEPT ![file_size] = NUL]
        /\ UNCHANGED <<file_size, seen, room, items_read, next_line, line_num, jobs, file>>
        /\ next_line = 0 /\ line_num = 1 /\ jobs = <<>>
    BY <1>0, <1>7 DEF Cut, Base
  <2>2. /\ buf \in [Cells -> Chars] /\ file_size \in Cells /\ file_size = Len(seen)
        /\ file_size \in Nat /\ MaxSize \in Nat /\ file_size <= MaxSize
        /\ Len(Shown) \in Nat /\ Len(Shown) <= file_size
        /\ \A i \in 1 .. Len(Shown) : Shown[i] = seen[i]
        /\ Len(Shown) < file_size => seen[Len(Shown) + 1] = NUL
    BY <1>0, ShownIs, ByteKinds DEF Base, Cells
  <2>3. ASSUME Filled' PROVE Intact'
    <3>1. \A i \in 0 .. file_size - 1 : buf[i] = seen[i + 1]
      BY <1>0, <2>1, <2>3 DEF Search, Filled
    <3>2. \A i \in 0 .. file_size - 1 : i \in Cells /\ i # file_size
      BY <2>2 DEF Cells
    <3>3. \A i \in 0 .. file_size - 1 : buf'[i] = seen[i + 1]
      BY <2>1, <2>2, <3>1, <3>2
    <3>4. buf'[file_size] = NUL
      BY <2>1, <2>2
    <3>5. buf'[Len(Shown)] = NUL
      <4>1. CASE Len(Shown) = file_size
        BY <3>4, <4>1
      <4>2. CASE Len(Shown) < file_size
        BY <2>2, <3>3, <4>2
      <4> QED
        BY <2>2, <4>1, <4>2
    <3>6. \A i \in 0 .. Len(Shown) - 1 : buf'[i] = Shown[i + 1]
      <4> SUFFICES ASSUME NEW i \in 0 .. Len(Shown) - 1 PROVE buf'[i] = Shown[i + 1]
        OBVIOUS
      <4>1. i \in 0 .. file_size - 1 /\ i + 1 \in 1 .. Len(Shown)
        BY <2>2
      <4> QED
        BY <2>2, <3>3, <4>1
    <3>7. next_line' = 0 /\ Shown' = Shown /\ 0 \in 0 .. Len(Shown)
      BY <2>1, <2>2 DEF Shown
    <3> QED
      BY <3>5, <3>6, <3>7 DEF Intact
  <2>4. ReportedSoFar'
    <3>1. Starts(Shown, 0) = {}
      BY DEF Starts
    <3>2. TokenOf(Shown, 0) = 0
      BY <3>1, StartsFinite, FS_EmptySet
    <3>3. Matching(Shown, 0) = {}
      BY DEF Matching, Occurrences
    <3>4. Len(jobs') = 0
      BY <2>1
    <3>5. Increasing(jobs') /\ Elements(jobs') = {} /\ \A k \in 1 .. Len(jobs') : jobs'[k] < line_num'
      BY <3>4 DEF Increasing, Elements
    <3>6. next_line' = 0 /\ Shown' = Shown /\ line_num' = TokenOf(Shown, 0) + 1
      BY <2>1, <3>2 DEF Shown
    <3>7. Elements(jobs') = Matching(Shown, 0)
      BY <3>3, <3>5
    <3> QED
      BY <3>5, <3>6, <3>7 DEF ReportedSoFar
  <2>5. Search'
    BY <2>1, <2>3, <2>4 DEF Search
  <2> QED
    BY <1>1, <2>5 DEF SearchInv
<1>8. CASE Line
  <2>1. pc = "scan" /\ pc' = "scan" /\ UNCHANGED <<appended, file_size, items_read, room>>
    BY <1>8 DEF Line
  <2>2. Filled' => Filled
    BY <2>1 DEF Filled
  <2>3. Filled' => (Intact /\ ReportedSoFar)'
    BY <1>0, <1>8, <2>1, <2>2, LineReports
  <2>4. Search'
    BY <2>1, <2>3 DEF Search
  <2> QED
    BY <1>1, <2>4 DEF SearchInv
<1>9. CASE LastLine
  <2>1. /\ pc = "scan" /\ pc' = "done"
        /\ UNCHANGED <<file_size, seen, room, buf, items_read, next_line, line_num, jobs, file>>
    BY <1>9 DEF LastLine
  <2>2. /\ Filled' <=> Filled
        /\ Intact' <=> Intact
        /\ ReportedSoFar' <=> ReportedSoFar
        /\ Shown' = Shown
    BY <2>1 DEF Filled, Intact, ReportedSoFar, Shown
  <2>3. Filled => \A j \in next_line + 1 .. Len(Shown) : Shown[j] = NL
    BY <1>0, <1>9, <2>1, LastLineLeaves
  <2>4. Search'
    BY <1>0, <2>1, <2>2, <2>3 DEF Search
  <2> QED
    BY <1>1, <2>4 DEF SearchInv
<1>10. CASE UNCHANGED vars
  <2>1. Search'
    BY <1>0, <1>10 DEF vars, Search, StillThere, Filled, Intact, ReportedSoFar, Shown
  <2> QED
    BY <1>1, <2>1 DEF SearchInv
<1> QED
  BY <1>2, <1>3, <1>4, <1>5, <1>6, <1>7, <1>8, <1>9, <1>10 DEF Next, Step

\* After the last token nothing matches.
LEMMA AllReported ==
  ASSUME SearchInv
  PROVE  ReportsWhatMainSaw
<1> SUFFICES ASSUME pc = "done", Filled
             PROVE  Increasing(jobs) /\ Elements(jobs) = MatchingTokens(CString(seen))
  BY DEF ReportsWhatMainSaw, ReadInFull, Filled
<1>1. /\ Base /\ Intact /\ ReportedSoFar
      /\ \A j \in next_line + 1 .. Len(Shown) : Shown[j] = NL
  BY DEF SearchInv, Search
<1>2. Shown \in Seq(Chars) /\ Len(Shown) \in Nat /\ next_line \in Nat
  BY <1>1, ShownIs DEF Intact
<1>3. ASSUME NEW o \in Occurrences(Shown) PROVE o <= next_line
  <2>1. o \in Int
    BY <1>2, PatternFacts DEF Occurrences
  <2>2. /\ o >= 1 /\ o + Len(Pattern) - 1 <= Len(Shown)
        /\ \A k \in 1 .. Len(Pattern) : Shown[o + k - 1] = Pattern[k]
    BY <1>2, <2>1, OccurrenceAt
  <2>3. 1 \in 1 .. Len(Pattern) /\ o + 1 - 1 = o /\ o <= Len(Shown)
    BY <1>2, <2>1, <2>2, PatternFacts
  <2>4. Shown[o] # NL
    BY <2>2, <2>3, PatternFacts
  <2> QED
    BY <1>1, <1>2, <2>1, <2>3, <2>4
<1>4. MatchingTokens(Shown) = Matching(Shown, next_line)
  BY <1>3 DEF MatchingTokens, Matching
<1> QED
  BY <1>1, <1>4 DEF ReportedSoFar, Shown

\* If the file was only appended to since main took its size and the buffer
\* was filled, the queue holds exactly the numbers, counting the lines that
\* are not empty, of those with the pattern that main saw before the first
\* NUL: in order, for files of any size and any bytes (greptile.c:222-241).
THEOREM LinesOfTheFile == Spec => []ReportsWhatMainSaw
<1> QED
  BY InitSearch, NextSearch, AllReported, PTL DEF Spec
-----------------------------------------------------------------------------
(* FgetsScan: lines and pieces.                                            *)

\* The newlines among the first i bytes.
Newlines(text, i) == {j \in 1 .. i : text[j] = NL}

\* They can be counted; LineOf counts them.
LEMMA NewlinesFinite ==
  ASSUME NEW text, NEW i \in Nat
  PROVE  /\ IsFiniteSet(Newlines(text, i)) /\ Cardinality(Newlines(text, i)) \in 0 .. i
         /\ LineOf(text, i + 1) = 1 + Cardinality(Newlines(text, i))
<1>1. /\ IsFiniteSet(1 .. i) /\ Newlines(text, i) \subseteq 1 .. i /\ Cardinality(1 .. i) = i
      /\ (i + 1) - 1 = i
  BY FS_Interval DEF Newlines
<1>2. IsFiniteSet(Newlines(text, i)) /\ Cardinality(Newlines(text, i)) <= i
  BY <1>1, FS_Subset
<1> QED
  BY <1>1, <1>2, FS_CardinalityType DEF Newlines, LineOf

\* Bytes from + 1 .. end of the text are a line; behind it is another line or
\* the end of the text.
WholeLine(text, from, end) ==
  /\ from \in Nat /\ end \in Nat /\ from < end /\ end <= Len(text)
  /\ \A j \in from + 1 .. end - 1 : text[j] # NL
  /\ end = Len(text) \/ text[end] = NL

\* Every byte of a line is in the line its first byte is in.
LEMMA SameLine ==
  ASSUME NEW text, NEW from \in Nat, NEW end \in Nat, from < end,
         \A j \in from + 1 .. end - 1 : text[j] # NL
  PROVE  \A o \in from + 1 .. end : LineOf(text, o) = LineOf(text, from + 1)
<1> SUFFICES ASSUME NEW o \in from + 1 .. end PROVE LineOf(text, o) = LineOf(text, from + 1)
  OBVIOUS
<1>1. o - 1 \in Nat /\ (o - 1) + 1 = o
  OBVIOUS
<1>2. \A j \in 1 .. o - 1 : j \in 1 .. from \/ j \in from + 1 .. end - 1
  OBVIOUS
<1>3. \A j \in 1 .. from : j \in 1 .. o - 1
  OBVIOUS
<1>4. Newlines(text, o - 1) = Newlines(text, from)
  BY <1>2, <1>3 DEF Newlines
<1> QED
  BY <1>1, <1>4, NewlinesFinite

\* The next line has the next number.
LEMMA NextLine ==
  ASSUME NEW text, NEW from \in Nat, NEW end \in Nat, from < end, text[end] = NL,
         \A j \in from + 1 .. end - 1 : text[j] # NL
  PROVE  LineOf(text, end + 1) = LineOf(text, from + 1) + 1
<1>1. \A j \in 1 .. end : j \in 1 .. from \/ j \in from + 1 .. end - 1 \/ j = end
  OBVIOUS
<1>2. end \in 1 .. end /\ \A j \in 1 .. from : j \in 1 .. end
  OBVIOUS
<1>3. Newlines(text, end) = Newlines(text, from) \cup {end}
  BY <1>1, <1>2 DEF Newlines
<1>4. end \notin Newlines(text, from)
  BY DEF Newlines
<1>5. Cardinality(Newlines(text, end)) = Cardinality(Newlines(text, from)) + 1
  BY <1>3, <1>4, NewlinesFinite, FS_AddElement
<1> QED
  BY <1>5, NewlinesFinite

\* The bytes of a part of a text.
LEMMA PartIs ==
  ASSUME NEW text \in Seq(Chars), NEW lo \in Nat, NEW hi \in Nat, lo <= hi, hi <= Len(text)
  PROVE  /\ SubSeq(text, lo + 1, hi) \in Seq(Chars) /\ Len(SubSeq(text, lo + 1, hi)) = hi - lo
         /\ \A i \in 1 .. hi - lo : SubSeq(text, lo + 1, hi)[i] = text[lo + i]
<1> DEFINE part == SubSeq(text, lo + 1, hi)
<1>1. \A i \in lo + 1 .. hi : text[i] \in Chars
  BY LenProperties, ElementOfSeq
<1>2. /\ part \in Seq(Chars) /\ Len(part) = IF lo + 1 <= hi THEN hi - (lo + 1) + 1 ELSE 0
      /\ \A i \in 1 .. hi - (lo + 1) + 1 : part[i] = text[lo + 1 + i - 1]
  BY <1>1, SubSeqProperties
<1> HIDE DEF part
<1>3. part \in Seq(Chars) /\ Len(part) = hi - lo /\ \A i \in 1 .. hi - lo : part[i] = text[lo + i]
  BY <1>2
<1> QED
  BY <1>3 DEF part

\* A part of a text has the occurrences that lie in it.
LEMMA PartOccurs ==
  ASSUME NEW text \in Seq(Chars), NEW lo \in Nat, NEW hi \in Nat, lo <= hi, hi <= Len(text),
         NEW part \in Seq(Chars), Len(part) = hi - lo,
         \A i \in 1 .. hi - lo : part[i] = text[lo + i]
  PROVE  Occurrences(part) # {}
           <=> \E o \in Occurrences(text) : lo < o /\ o + Len(Pattern) - 1 <= hi
<1> DEFINE n == Len(Pattern)
<1>1. Len(text) \in Nat /\ n \in Nat \ {0}
  BY PatternFacts, LenProperties
<1>2. /\ part \in Seq(Chars) /\ Len(part) = hi - lo
      /\ \A i \in 1 .. hi - lo : part[i] = text[lo + i]
  OBVIOUS
<1> HIDE DEF n
<1>3. ASSUME NEW p \in Occurrences(part)
      PROVE  lo + p \in Occurrences(text) /\ lo < lo + p /\ (lo + p) + n - 1 <= hi
  <2>1. p \in Int
    BY <1>1, <1>2 DEF Occurrences, n
  <2>2. /\ p >= 1 /\ p + n - 1 <= hi - lo
        /\ \A k \in 1 .. n : part[p + k - 1] = Pattern[k]
    BY <1>2, <2>1, OccurrenceAt DEF n
  <2>3. \A k \in 1 .. n : text[(lo + p) + k - 1] = Pattern[k]
    <3> SUFFICES ASSUME NEW k \in 1 .. n PROVE text[(lo + p) + k - 1] = Pattern[k]
      OBVIOUS
    <3>1. p + k - 1 \in 1 .. hi - lo /\ lo + (p + k - 1) = (lo + p) + k - 1
      BY <1>1, <2>1, <2>2
    <3>2. part[p + k - 1] = text[lo + (p + k - 1)]
      BY <1>2, <3>1
    <3> QED
      BY <2>2, <3>1, <3>2
  <2>4. lo + p \in Int /\ lo + p >= 1 /\ (lo + p) + n - 1 <= Len(text) /\ lo < lo + p
        /\ (lo + p) + n - 1 <= hi
    BY <1>1, <2>1, <2>2
  <2> QED
    BY <1>1, <2>3, <2>4, OccurrenceAt DEF n
<1>4. ASSUME NEW o \in Occurrences(text), lo < o, o + n - 1 <= hi
      PROVE  o - lo \in Occurrences(part)
  <2>1. o \in Int
    BY <1>1 DEF Occurrences, n
  <2>2. \A k \in 1 .. n : text[o + k - 1] = Pattern[k]
    BY <1>1, <2>1, OccurrenceAt DEF n
  <2>3. \A k \in 1 .. n : part[(o - lo) + k - 1] = Pattern[k]
    <3> SUFFICES ASSUME NEW k \in 1 .. n PROVE part[(o - lo) + k - 1] = Pattern[k]
      OBVIOUS
    <3>1. (o - lo) + k - 1 \in 1 .. hi - lo /\ lo + ((o - lo) + k - 1) = o + k - 1
      BY <1>1, <1>4, <2>1
    <3>2. part[(o - lo) + k - 1] = text[lo + ((o - lo) + k - 1)]
      BY <1>2, <3>1
    <3> QED
      BY <2>2, <3>1, <3>2
  <2>4. o - lo \in Int /\ o - lo >= 1 /\ (o - lo) + n - 1 <= hi - lo
    BY <1>1, <1>4, <2>1
  <2> QED
    BY <1>2, <2>3, <2>4, OccurrenceAt DEF n
<1>5. Occurrences(part) # {} <=> \E o \in Occurrences(text) : lo < o /\ o + n - 1 <= hi
  BY <1>3, <1>4
<1> QED
  BY <1>5 DEF n

\* An occurrence that begins in a line ends in it.
LEMMA OccurrenceInLine ==
  ASSUME NEW text \in Seq(Chars), NEW from, NEW end, WholeLine(text, from, end),
         NEW o \in Occurrences(text), from < o, o <= end
  PROVE  o + Len(Pattern) - 1 <= end
<1> DEFINE n == Len(Pattern)
<1>1. /\ text \in Seq(Chars) /\ n \in Nat \ {0} /\ Len(text) \in Nat
      /\ from \in Nat /\ end \in Nat
  BY LenProperties, PatternFacts DEF WholeLine
<1>2. o \in Int
  BY <1>1 DEF Occurrences
<1>3. o + n - 1 <= Len(text) /\ \A k \in 1 .. n : text[o + k - 1] = Pattern[k]
  BY <1>1, <1>2, OccurrenceAt
<1> HIDE DEF n
<1> SUFFICES ASSUME o + n - 1 > end PROVE FALSE
  BY <1>1, <1>2 DEF n
<1>4. text[end] = NL
  BY <1>1, <1>2, <1>3 DEF WholeLine
<1>5. end - o + 1 \in 1 .. n /\ o + (end - o + 1) - 1 = end
  BY <1>1, <1>2
<1>6. Pattern[end - o + 1] # NL
  BY <1>5, PatternFacts DEF n
<1> QED
  BY <1>3, <1>4, <1>5, <1>6

\* The C string of a line has the pattern where the line has it before any
\* terminator.
LEMMA LineShows ==
  ASSUME NEW text \in Seq(Chars), NEW from, NEW end, WholeLine(text, from, end),
         from = 0 \/ text[from] = NL
  PROVE  Occurrences(CString(SubSeq(text, from + 1, end))) # {}
           <=> \E o \in Occurrences(text) : from < o /\ o <= end /\ Visible(text, o)
<1> DEFINE n    == Len(Pattern)
           line == SubSeq(text, from + 1, end)
           part == CString(line)
           to   == from + Len(part)
<1>1. /\ from \in Nat /\ end \in Nat /\ from < end /\ end <= Len(text) /\ Len(text) \in Nat
      /\ \A j \in from + 1 .. end - 1 : text[j] # NL
      /\ n \in Nat \ {0}
  BY LenProperties, PatternFacts DEF WholeLine
<1>2. /\ line \in Seq(Chars) /\ Len(line) = end - from
      /\ \A i \in 1 .. end - from : line[i] = text[from + i]
  BY <1>1, PartIs
<1> HIDE DEF line, n
<1>3. /\ part \in Seq(Chars) /\ Len(part) \in 0 .. end - from
      /\ \A i \in 1 .. Len(part) : part[i] = line[i] /\ line[i] # NUL
      /\ Len(part) < end - from => line[Len(part) + 1] = NUL
  BY <1>2, CStringIs
<1> HIDE DEF part
<1>4. /\ to \in Nat /\ from <= to /\ to <= end /\ Len(part) = to - from
      /\ \A i \in 1 .. to - from : part[i] = text[from + i] /\ text[from + i] # NUL
      /\ to < end => text[to + 1] = NUL
  <2>1. to \in Nat /\ from <= to /\ to <= end /\ Len(part) = to - from
    BY <1>1, <1>3
  <2>2. \A i \in 1 .. to - from : i \in 1 .. Len(part) /\ i \in 1 .. end - from
    BY <1>1, <2>1
  <2>3. to < end => Len(part) + 1 \in 1 .. end - from /\ from + (Len(part) + 1) = to + 1
    BY <1>1, <1>3
  <2> QED
    BY <1>2, <1>3, <2>1, <2>2, <2>3
<1> HIDE DEF to
<1>5. \A j \in from + 1 .. to : text[j] # NUL
  <2> SUFFICES ASSUME NEW j \in from + 1 .. to PROVE text[j] # NUL
    OBVIOUS
  <2>1. j - from \in 1 .. to - from /\ from + (j - from) = j
    BY <1>1, <1>4
  <2> QED
    BY <1>4, <2>1
<1>6. Occurrences(part) # {} <=> \E o \in Occurrences(text) : from < o /\ o + n - 1 <= to
  <2>1. /\ to \in Nat /\ from <= to /\ to <= Len(text) /\ Len(part) = to - from
        /\ \A i \in 1 .. to - from : part[i] = text[from + i]
    BY <1>1, <1>4
  <2>2. Occurrences(part) # {}
          <=> \E o \in Occurrences(text) : from < o /\ o + Len(Pattern) - 1 <= to
    BY <1>1, <1>3, <2>1, PartOccurs
  <2> QED
    BY <2>2 DEF n
<1>7. ASSUME NEW o \in Occurrences(text), from < o, o + n - 1 <= to
      PROVE  o <= end /\ Visible(text, o)
  <2>0. o \in Int
    BY <1>1, PatternFacts DEF Occurrences
  <2>1. o \in Int /\ o <= to /\ o <= end
    BY <1>1, <1>4, <1>7, <2>0
  <2> SUFFICES ASSUME NEW j \in 1 .. o - 1, text[j] = NUL
               PROVE  \E k \in j + 1 .. o - 1 : text[k] = NL
    BY <2>1 DEF Visible
  <2>2. j <= from
    BY <1>1, <1>4, <1>5, <2>1
  <2>3. text[from] = NL /\ j # from
    BY <1>1, <2>2, ByteKinds
  <2>4. from \in j + 1 .. o - 1
    BY <1>1, <1>7, <2>1, <2>2, <2>3
  <2> QED
    BY <2>3, <2>4
<1>8. ASSUME NEW o \in Occurrences(text), from < o, o <= end, Visible(text, o)
      PROVE  o + n - 1 <= to
  <2>0. o + Len(Pattern) - 1 <= end
    BY <1>8, OccurrenceInLine
  <2>1. o + n - 1 <= end /\ o \in Int
    BY <1>1, <2>0 DEF n, Occurrences
  <2>2. \A k \in 1 .. n : text[o + k - 1] = Pattern[k]
    BY <2>1, OccurrenceAt DEF n
  <2> SUFFICES ASSUME o + n - 1 > to PROVE FALSE
    BY <1>1, <1>4, <2>1
  <2>3. to < end /\ text[to + 1] = NUL
    BY <1>1, <1>4, <2>1
  <2>4. CASE to + 1 < o
    <3>1. to + 1 \in 1 .. o - 1
      BY <1>4, <2>1, <2>4
    <3>2. PICK k \in to + 2 .. o - 1 : text[k] = NL
      BY <1>4, <1>8, <2>3, <3>1 DEF Visible
    <3>3. k \in from + 1 .. end - 1
      BY <1>1, <1>4, <1>8, <2>1, <3>2
    <3> QED
      BY <1>1, <3>2, <3>3
  <2>5. CASE o <= to + 1
    <3>1. to + 1 - o + 1 \in 1 .. n /\ o + (to + 1 - o + 1) - 1 = to + 1
      BY <1>1, <1>4, <2>1, <2>5
    <3>2. Pattern[to + 1 - o + 1] # NUL
      BY <3>1, PatternFacts DEF n
    <3> QED
      BY <2>2, <2>3, <3>1, <3>2
  <2> QED
    BY <1>4, <2>1, <2>4, <2>5
<1> QED
  BY <1>6, <1>7, <1>8 DEF part, line
-----------------------------------------------------------------------------
(* The inductive invariant.                                                *)

Untouched == rewrites = 0 /\ ~gone

\* What the first i bytes of a text have to report.
Due(text, i) ==
  {LineOf(text, o) : o \in {p \in Occurrences(text) : p <= i /\ Visible(text, p)}}

\* Before the end of the file fgets is at the beginning of a line and
\* line_number is its number.
Reading ==
  /\ pos \in 0 .. Len(bytes) /\ line_number \in Nat
  /\ printed \in Seq(Nat) /\ Increasing(printed) /\ Elements(printed) = Due(bytes, pos)
  /\ pos < Len(bytes) =>
       /\ \A k \in 1 .. Len(printed) : printed[k] < line_number
       /\ line_number = LineOf(bytes, pos + 1)
       /\ pos = 0 \/ bytes[pos] = NL

FgetsInv ==
  /\ bytes \in Texts /\ rewrites \in Nat
  /\ Untouched => where = "stat" \/ st_size = Len(bytes)
  /\ Untouched /\ SeveralLines => Reading /\ (where = "done" => pos = Len(bytes))

\* The search begins with nothing to report.
LEMMA InitFgetsInv == FgetsInit => FgetsInv
<1> SUFFICES ASSUME FgetsInit PROVE FgetsInv
  OBVIOUS
<1>1. /\ bytes \in Texts /\ rewrites = 0 /\ pos = 0 /\ line_number = 1 /\ printed = <<>>
      /\ where = "stat"
  BY DEF FgetsInit
<1>2. Len(bytes) \in Nat
  BY <1>1, TextFacts
<1>3. Due(bytes, 0) = {}
  BY <1>2, PatternFacts DEF Due, Occurrences
<1>4. printed \in Seq(Nat) /\ Len(printed) = 0 /\ Increasing(printed) /\ Elements(printed) = {}
  BY <1>1, EmptySeq DEF Increasing, Elements
<1>5. LineOf(bytes, pos + 1) = 1
  <2>1. Cardinality(Newlines(bytes, 0)) \in 0 .. 0
    BY NewlinesFinite
  <2>2. LineOf(bytes, 0 + 1) = 1 + Cardinality(Newlines(bytes, 0))
    BY NewlinesFinite
  <2> QED
    BY <1>1, <2>1, <2>2
<1>6. \A k \in 1 .. Len(printed) : printed[k] < line_number
  BY <1>4
<1>7. pos \in 0 .. Len(bytes) /\ line_number \in Nat /\ Elements(printed) = Due(bytes, pos)
  BY <1>1, <1>2, <1>3, <1>4
<1>8. Reading
  BY <1>1, <1>4, <1>5, <1>6, <1>7 DEF Reading
<1> QED
  BY <1>1, <1>8 DEF FgetsInv

\* In a file of several lines fgets takes a whole line.
LEMMA LineTaken ==
  ASSUME bytes \in Texts, Reading, pos < Len(bytes), SeveralLines
  PROVE  LET n == Len(bytes)
             ends == {i \in pos + 1 .. pos + n - 1 : i <= n /\ bytes[i] = NL}
                       \cup {n, pos + n - 1}
         IN  WholeLine(bytes, pos, Least(ends))
<1> DEFINE n == Len(bytes)
           ends == {i \in pos + 1 .. pos + n - 1 : i <= n /\ bytes[i] = NL}
                     \cup {n, pos + n - 1}
           end == Least(ends)
<1>1. n \in Nat /\ n > 1 /\ pos \in Nat /\ pos < n
  BY TextFacts DEF Reading, SeveralLines
<1>2. ends \in SUBSET Nat /\ ends # {} /\ n \in ends /\ pos + n - 1 \in ends
  BY <1>1
<1>3. \A i \in ends : i = n \/ i = pos + n - 1
                        \/ (i \in pos + 1 .. pos + n - 1 /\ i <= n /\ bytes[i] = NL)
  OBVIOUS
<1>4. \A i \in pos + 1 .. pos + n - 1 : i <= n /\ bytes[i] = NL => i \in ends
  OBVIOUS
<1> HIDE DEF ends
<1>5. end \in ends /\ \A i \in ends : end <= i
  BY <1>2, LeastIs
<1> HIDE DEF end
<1>6. end \in Nat /\ end <= n /\ end <= pos + n - 1 /\ pos < end
  BY <1>1, <1>2, <1>3, <1>5
<1>7. \A j \in pos + 1 .. end - 1 : bytes[j] # NL
  <2> SUFFICES ASSUME NEW j \in pos + 1 .. end - 1, bytes[j] = NL PROVE FALSE
    OBVIOUS
  <2>1. j \in pos + 1 .. pos + n - 1 /\ j <= n /\ j < end
    BY <1>1, <1>6
  <2>2. j \in ends
    BY <1>4, <2>1
  <2> QED
    BY <1>1, <1>5, <1>6, <2>1, <2>2
<1>8. end = n \/ bytes[end] = NL
  <2> SUFFICES ASSUME end # n, bytes[end] # NL PROVE FALSE
    OBVIOUS
  <2>1. end = pos + n - 1
    BY <1>3, <1>5
  <2>2. pos = 0
    BY <1>1, <1>6, <2>1
  <2>3. PICK i \in 1 .. n - 1 : bytes[i] = NL
    BY DEF SeveralLines
  <2>4. i \in ends
    BY <1>1, <1>4, <2>2, <2>3
  <2>5. end <= i
    BY <1>5, <2>4
  <2> QED
    BY <1>1, <2>1, <2>2, <2>3, <2>5
<1> QED
  BY <1>1, <1>6, <1>7, <1>8 DEF WholeLine, end, ends

\* What is due grows by the number of the line just read, if it has the
\* pattern.
LEMMA LineDue ==
  ASSUME NEW text \in Seq(Chars), NEW from, NEW end, WholeLine(text, from, end),
         from = 0 \/ text[from] = NL
  PROVE  Due(text, end) = Due(text, from)
           \cup (IF Occurrences(CString(SubSeq(text, from + 1, end))) = {} THEN {}
                 ELSE {LineOf(text, from + 1)})
<1> DEFINE found == \E o \in Occurrences(text) : from < o /\ o <= end /\ Visible(text, o)
<1>1. /\ from \in Nat /\ end \in Nat /\ from < end
      /\ \A j \in from + 1 .. end - 1 : text[j] # NL
  BY DEF WholeLine
<1>2. Occurrences(text) \subseteq Int
  BY LenProperties, PatternFacts DEF Occurrences
<1>3. Occurrences(CString(SubSeq(text, from + 1, end))) # {} <=> found
  BY LineShows
<1>4. \A o \in Occurrences(text) : from < o /\ o <= end => LineOf(text, o) = LineOf(text, from + 1)
  <2>1. \A o \in from + 1 .. end : LineOf(text, o) = LineOf(text, from + 1)
    BY <1>1, SameLine
  <2>2. \A o \in Occurrences(text) : from < o /\ o <= end => o \in from + 1 .. end
    BY <1>1, <1>2
  <2> QED
    BY <2>1, <2>2
<1>5. \A o \in Occurrences(text) : o <= end <=> o <= from \/ (from < o /\ o <= end)
  BY <1>1, <1>2
<1>6. Due(text, end) \subseteq Due(text, from) \cup (IF found THEN {LineOf(text, from + 1)} ELSE {})
  BY <1>4, <1>5 DEF Due
<1>7. Due(text, from) \subseteq Due(text, end)
  BY <1>5 DEF Due
<1>8. found => LineOf(text, from + 1) \in Due(text, end)
  BY <1>4 DEF Due
<1> QED
  BY <1>3, <1>6, <1>7, <1>8

\* What search_file does with a piece that ends at byte end.
PieceRead(end) ==
  /\ printed' = IF Occurrences(CString(SubSeq(bytes, pos + 1, end))) = {} THEN printed
                ELSE Append(printed, line_number)
  /\ pos' = end /\ line_number' = line_number + 1
  /\ UNCHANGED <<bytes, gone, rewrites, st_size, where>>

\* fgets takes a line; its number is within the bound of line_number.
LEMMA ReadPieceIs ==
  ASSUME FgetsInv, Untouched, SeveralLines, ReadPiece
  PROVE  /\ Reading /\ bytes \in Texts /\ pos < Len(bytes) /\ where = "read"
         /\ \E end \in Nat : PieceRead(end) /\ WholeLine(bytes, pos, end)
<1> DEFINE n == Len(bytes)
           ends == {i \in pos + 1 .. pos + n - 1 : i <= n /\ bytes[i] = NL}
                     \cup {n, pos + n - 1}
           end == Least(ends)
<1>1. /\ Reading /\ bytes \in Texts /\ where = "read" /\ st_size = n /\ n \in Nat /\ n > 1
  BY TextFacts DEF FgetsInv, ReadPiece, SeveralLines
<1>2. pos \in Nat /\ pos < n /\ line_number \in Nat
  BY <1>1 DEF ReadPiece, EndOfFile, Reading
<1>3. WholeLine(bytes, pos, end)
  BY <1>1, <1>2, LineTaken
<1>4. Piece(st_size) = SubSeq(bytes, pos + 1, end)
  BY <1>1 DEF Piece
<1> HIDE DEF end
<1>5. end \in Nat /\ pos < end /\ end <= n
  BY <1>3 DEF WholeLine
<1>6. Len(Piece(st_size)) = end - pos
  BY <1>1, <1>2, <1>4, <1>5, TextFacts, PartIs
<1>7. line_number <= MaxSize
  <2>1. n <= MaxSize /\ MaxSize \in Nat
    BY <1>1, TextFacts, ByteKinds
  <2>2. line_number = LineOf(bytes, pos + 1)
    BY <1>1, <1>2 DEF Reading
  <2>3. LineOf(bytes, pos + 1) = 1 + Cardinality(Newlines(bytes, pos))
        /\ Cardinality(Newlines(bytes, pos)) \in 0 .. pos
    BY <1>2, NewlinesFinite
  <2> QED
    BY <1>1, <1>2, <2>1, <2>2, <2>3
<1>8. PieceRead(end)
  BY <1>2, <1>4, <1>5, <1>6, <1>7 DEF ReadPiece, PieceRead
<1> QED
  BY <1>1, <1>2, <1>3, <1>5, <1>8

\* A piece more is read and reported.
LEMMA ReadPieceKeeps ==
  ASSUME FgetsInv, Untouched, SeveralLines, ReadPiece
  PROVE  Reading'
<1> DEFINE n == Len(bytes)
           hit(end) == Occurrences(CString(SubSeq(bytes, pos + 1, end))) # {}
<1>1. Reading /\ bytes \in Texts /\ pos < n
  BY ReadPieceIs
<1>2. PICK end \in Nat : PieceRead(end) /\ WholeLine(bytes, pos, end)
  BY ReadPieceIs
<1>3. /\ pos \in Nat /\ n \in Nat /\ line_number \in Nat /\ bytes \in Seq(Chars)
      /\ printed \in Seq(Nat) /\ Increasing(printed) /\ Elements(printed) = Due(bytes, pos)
      /\ \A k \in 1 .. Len(printed) : printed[k] < line_number
      /\ line_number = LineOf(bytes, pos + 1) /\ (pos = 0 \/ bytes[pos] = NL)
  BY <1>1, TextFacts DEF Reading
<1>4. bytes' = bytes /\ pos' = end /\ line_number' = line_number + 1
  BY <1>2 DEF PieceRead
<1>5. printed' = IF hit(end) THEN Append(printed, line_number) ELSE printed
  BY <1>2 DEF PieceRead
<1>6. Due(bytes, end) = Due(bytes, pos) \cup (IF hit(end) THEN {line_number} ELSE {})
  BY <1>2, <1>3, LineDue
<1> HIDE DEF hit
<1>7. /\ printed' \in Seq(Nat) /\ Increasing(printed')
      /\ Elements(printed') = Due(bytes, end)
      /\ \A k \in 1 .. Len(printed') : printed'[k] < line_number + 1
  <2>1. /\ \A k \in 1 .. Len(printed) : printed[k] < line_number + 1
        /\ Increasing(Append(printed, line_number))
        /\ \A k \in 1 .. Len(Append(printed, line_number)) :
             Append(printed, line_number)[k] < line_number + 1
        /\ Elements(Append(printed, line_number)) = Elements(printed) \cup {line_number}
    BY <1>3, QueueGrows
  <2>2. Append(printed, line_number) \in Seq(Nat)
    BY <1>3, AppendProperties
  <2> QED
    BY <1>3, <1>5, <1>6, <2>1, <2>2
<1>8. ASSUME end < n PROVE line_number + 1 = LineOf(bytes, end + 1) /\ bytes[end] = NL
  <2>1. /\ bytes[end] = NL /\ pos < end
        /\ \A j \in pos + 1 .. end - 1 : bytes[j] # NL
    BY <1>2, <1>8 DEF WholeLine
  <2>2. LineOf(bytes, end + 1) = LineOf(bytes, pos + 1) + 1
    BY <1>2, <1>3, <2>1, NextLine
  <2> QED
    BY <1>3, <2>1, <2>2
<1>9. end \in 0 .. n /\ line_number + 1 \in Nat
  BY <1>2, <1>3 DEF WholeLine
<1> QED
  BY <1>4, <1>7, <1>8, <1>9 DEF Reading

\* Every step keeps the invariant.
LEMMA NextFgetsInv == FgetsInv /\ [FgetsNext]_fgetsVars => FgetsInv'
<1> SUFFICES ASSUME FgetsInv, [FgetsNext]_fgetsVars PROVE FgetsInv'
  OBVIOUS
<1> DEFINE same == UNCHANGED <<bytes, pos, line_number, printed>>
<1>1. same => Reading' = Reading /\ SeveralLines' = SeveralLines
  BY DEF Reading, SeveralLines
<1>2. CASE UNCHANGED fgetsVars
  BY <1>1, <1>2 DEF fgetsVars, FgetsInv, Untouched
<1>3. CASE RewriteFile
  <2>1. bytes' \in Texts /\ rewrites' \in Nat /\ rewrites' # 0
    BY <1>3 DEF RewriteFile, FgetsInv
  <2> QED
    BY <2>1 DEF FgetsInv, Untouched
<1>4. CASE Remove
  BY <1>4 DEF Remove, FgetsInv, Untouched
<1>5. CASE Stat
  <2>1. same /\ UNCHANGED <<gone, rewrites>>
    BY <1>5 DEF Stat
  <2>2. Untouched => where' = "check" /\ st_size' = Len(bytes)
    BY <1>5 DEF Stat, Untouched
  <2> QED
    BY <1>1, <2>1, <2>2 DEF FgetsInv, Untouched
<1>6. CASE Check \/ Open
  <2>1. /\ same /\ UNCHANGED <<gone, rewrites, st_size>>
        /\ where # "stat" /\ where' \in {"open", "read", "exit"}
    BY <1>6 DEF Check, Open
  <2> QED
    BY <1>1, <2>1 DEF FgetsInv, Untouched
<1>7. CASE ReadPiece
  <2>1. /\ UNCHANGED <<bytes, gone, rewrites, st_size, where>> /\ where = "read"
        /\ SeveralLines' = SeveralLines
    BY <1>7 DEF ReadPiece, SeveralLines
  <2>2. Untouched /\ SeveralLines => Reading'
    BY <1>7, ReadPieceKeeps
  <2> QED
    BY <2>1, <2>2 DEF FgetsInv, Untouched
<1>8. CASE Finish
  <2>1. same /\ UNCHANGED <<gone, rewrites, st_size>> /\ where = "read" /\ EndOfFile
    BY <1>8 DEF Finish
  <2>2. Untouched /\ SeveralLines => pos = Len(bytes)
    <3> SUFFICES ASSUME Untouched, SeveralLines PROVE pos = Len(bytes)
      OBVIOUS
    <3>1. st_size = Len(bytes) /\ Len(bytes) > 1 /\ pos \in 0 .. Len(bytes) /\ Len(bytes) \in Nat
      BY <2>1, TextFacts DEF FgetsInv, Reading, SeveralLines
    <3>2. pos >= Len(bytes)
      BY <2>1, <3>1 DEF EndOfFile
    <3> QED
      BY <3>1, <3>2
  <2> QED
    BY <1>1, <2>1, <2>2 DEF FgetsInv, Untouched
<1> QED
  BY <1>2, <1>3, <1>4, <1>5, <1>6, <1>7, <1>8 DEF FgetsNext, FgetsStep

\* At the end of the file everything due has been printed.
LEMMA FgetsInvSays == FgetsInv => Reported
<1> SUFFICES ASSUME FgetsInv, Searched, SeveralLines
             PROVE  Increasing(printed) /\ Elements(printed) = MatchingLines(bytes)
  BY DEF Reported
<1>1. /\ Increasing(printed) /\ Elements(printed) = Due(bytes, pos) /\ pos = Len(bytes)
      /\ Len(bytes) \in Nat
  BY TextFacts DEF FgetsInv, Searched, Untouched, Reading
<1>2. \A o \in Occurrences(bytes) : o <= pos
  BY <1>1, PatternFacts DEF Occurrences
<1>3. Due(bytes, pos) = MatchingLines(bytes)
  BY <1>2 DEF Due, MatchingLines
<1> QED
  BY <1>1, <1>3

\* In a file of several lines that nobody touched exactly the lines are
\* printed that have the pattern before any NUL, in order and with their
\* numbers, for files of any size and any bytes and every pattern
\* (greptile.c:120-151).
THEOREM LinesPrinted == FgetsSpec => []Reported
  BY InitFgetsInv, NextFgetsInv, FgetsInvSays, PTL DEF FgetsSpec
=============================================================================
